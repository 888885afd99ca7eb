------------------------------ MODULE Webhooks ------------------------------
(***************************************************************************)
(* A source that is fed by webhooks, from the request to the deduplicated  *)
(* event:                                                                  *)
(*   packages/core/src/http.ts             the server hands requests over  *)
(*   connectors/{webhook,coding-agent,codex,opencode,pi,pi-rust,           *)
(*     linear-webhook}/src/source.ts       seven connectors of one shape   *)
(*   packages/sdk/src/event-buffer.ts      the file they buffer events in  *)
(*   packages/sdk/src/lifecycle.ts         phases and keys of sessions     *)
(*   transforms/dedup/src/dedup.ts         keyed on what an event is about *)
(*                                                                         *)
(* A handler both keeps an event for the next poll and returns it to the   *)
(* server, so every event is processed twice unless it is deduplicated.    *)
(***************************************************************************)
EXTENDS Naturals, FiniteSets, SequencesExt

CONSTANTS
  Post,          \* requests, each sent once; a sender's retry is another one
  Connector,     \* the connectors to consider
  Session,       \* session ids
  Cap,           \* maxBufferBytes, in lines of one size
  Poller         \* the worker that processes what a poll returned

Hooked == {"coding-agent", "codex", "opencode", "pi", "pi-rust"}

ASSUME WebhookAssumption ==
  /\ Connector \subseteq Hooked \cup {"webhook", "linear-webhook"}
  /\ Cap \in Nat \ {0}
  /\ Poller \notin Post

-----------------------------------------------------------------------------
(* What a request says, and the events the connector makes of it.          *)

\* An exit status is 0, an error, or 128 and the number of a signal.
HookBodies == [session : Session, hook : {"start", "stop"}, exit : {0, 1, 130}]
\* The fields an update changed, as normalizeIssueEvent() comes to them: state,
\* assignee, priority, labels, delegate.
LinearBodies == [action : {"create", "update", "remove"},
                 changed : {<<>>, <<"state">>, <<"state", "labels">>}]
PlainBodies == [session : Session]
Bodies(c) == IF c \in Hooked THEN HookBodies
             ELSE IF c = "linear-webhook" THEN LinearBodies ELSE PlainBodies

\* resolveLifecycle()
HookPhase(b) == CASE b.hook = "start" -> "started"
                  [] b.hook = "stop" /\ b.exit = 0 -> "completed"
                  [] b.hook = "stop" /\ b.exit > 128 -> "stopped"
                  [] OTHER -> "failed"

\* buildDedupeKey()
DedupeKey(platform, b) == <<platform, b.session, HookPhase(b)>>

HookEvent(platform, p, b) == <<[post |-> p, key |-> DedupeKey(platform, b)]>>
CodingAgentEvents(p, b) == HookEvent("coding-agent", p, b)
CodexEvents(p, b) == HookEvent("codex", p, b)
OpenCodeEvents(p, b) == HookEvent("opencode", p, b)
PiEvents(p, b) == HookEvent("pi", p, b)
PiRustEvents(p, b) == HookEvent("pi-rust", p, b)

\* The key of an event that is not about a session is its id.
PlainEvent(p, part) == [post |-> p, key |-> <<p, part>>]
WebhookEvents(p, b) == <<PlainEvent(p, "payload")>>

\* normalizeIssueEvent(): one event for each change, or the raw payload
LinearEvents(p, b) ==
  LET changes == IF b.action = "update" THEN b.changed ELSE <<>>
      parts == IF b.action = "create" THEN <<"new">>
               ELSE IF changes = <<>> THEN <<"raw">> ELSE changes
  IN [i \in DOMAIN parts |-> PlainEvent(p, parts[i])]

EventsOf(c, p, b) ==
  CASE c = "coding-agent" -> CodingAgentEvents(p, b)
    [] c = "codex" -> CodexEvents(p, b)
    [] c = "opencode" -> OpenCodeEvents(p, b)
    [] c = "pi" -> PiEvents(p, b)
    [] c = "pi-rust" -> PiRustEvents(p, b)
    [] c = "linear-webhook" -> LinearEvents(p, b)
    [] OTHER -> WebhookEvents(p, b)

-----------------------------------------------------------------------------
VARIABLES
  connector,   \* the connector of this source
  buffered,    \* is buffer_dir configured?
  stage,       \* of a request: "new", "reading", "answered", "refused", "lost"
  body,        \* what it says
  file,        \* the lines of the buffer file
  torn,        \* does the file end in the middle of a line?
  pending,     \* pendingEvents
  hand,        \* what a worker still has to process
  seen,        \* the keys in the deduplicator
  delivered,   \* observer: deliveries of a key since it was last forgotten
  written,     \* observer: every event put in the file or in pendingEvents
  drained,     \* observer: the events polls have taken
  swallowed    \* observer: events appended to a torn line

webhookVars == <<connector, buffered, stage, body, file, torn, pending, hand,
                 seen, delivered, written, drained, swallowed>>
config == <<connector, buffered>>
store == <<file, torn, pending>>
observers == <<written, drained, swallowed>>

Worker == Post \cup {Poller}
Torn == [post |-> Poller, key |-> <<>>]    \* a line that does not parse
NoBody == [session |-> Poller]

KeysOf == [c \in Connector |->
             {e.key : e \in UNION {ToSet(EventsOf(c, p, b)) : p \in Post, b \in Bodies(c)}}]
Keys == KeysOf[connector]

WebhookTypeOK ==
  /\ connector \in Connector
  /\ buffered \in BOOLEAN
  /\ stage \in [Post -> {"new", "reading", "answered", "refused", "lost"}]
  /\ \A p \in Post : body[p] \in Bodies(connector) \cup {NoBody}
  /\ torn \in BOOLEAN
  /\ ToSet(file) \subseteq ToSet(written) \cup {Torn}
  /\ torn => file # <<>> /\ Last(file) = Torn
  /\ buffered => pending = <<>>
  /\ seen \subseteq Keys
  /\ \A w \in Worker : {e.key : e \in ToSet(hand[w])} \subseteq Keys
  /\ DOMAIN delivered \subseteq Keys

WebhookInit ==
  /\ connector \in Connector
  /\ buffered \in BOOLEAN
  /\ stage = [p \in Post |-> "new"]
  /\ body = [p \in Post |-> NoBody]
  /\ file = <<>>
  /\ torn = FALSE
  /\ pending = <<>>
  /\ hand = [w \in Worker |-> <<>>]
  /\ seen = {}
  /\ delivered = <<>>
  /\ written = <<>>
  /\ drained = {}
  /\ swallowed = {}

-----------------------------------------------------------------------------
(* EventBuffer.                                                            *)

\* append(): what follows a torn line is part of that line.
Lines(events) == IF torn /\ events # <<>> THEN file \o Tail(events) ELSE file \o events

\* Fault: the oldest events stay.
KeepOldest(lines) == IF Len(lines) <= Cap THEN lines ELSE SubSeq(lines, 1, Cap)
\* enforceSize(): the newest events that fit stay.
KeepNewest(lines) ==
  IF Len(lines) <= Cap THEN lines ELSE SubSeq(lines, Len(lines) - Cap + 1, Len(lines))

\* The cap was enforced before the last of these lines.
KeepOneMore(lines) == SubSeq(lines, Len(lines) - Cap, Len(lines))

Write(lines, events) ==
  /\ file' = lines
  /\ torn' = (torn /\ events = <<>>)
  /\ swallowed' = IF torn /\ events # <<>> THEN swallowed \cup {Head(events)} ELSE swallowed
  /\ written' = written \o events

\* persistEvent(), for one event after another
Persist(events) ==
  IF buffered
  THEN Write(KeepNewest(Lines(events)), events) /\ UNCHANGED pending
  ELSE /\ pending' = pending \o events
       /\ written' = written \o events
       /\ UNCHANGED <<file, torn, swallowed>>

-----------------------------------------------------------------------------
(* The handler.                                                            *)

\* The server finds the handler, which waits for the body.
Arrive(p) ==
  /\ stage[p] = "new"
  /\ stage' = [stage EXCEPT ![p] = "reading"]
  /\ \E b \in Bodies(connector) : body' = [body EXCEPT ![p] = b]
  /\ UNCHANGED <<config, store, hand, seen, delivered, observers>>

\* 405, 401 or 400: nothing is kept.
Refuse(p) ==
  /\ stage[p] = "reading"
  /\ stage' = [stage EXCEPT ![p] = "refused"]
  /\ UNCHANGED <<config, body, store, hand, seen, delivered, observers>>

Handle(p) ==
  /\ stage[p] = "reading"
  /\ LET events == EventsOf(connector, p, body[p]) IN
       /\ Persist(events)
       /\ hand' = [hand EXCEPT ![p] = events]
  /\ stage' = [stage EXCEPT ![p] = "answered"]
  /\ UNCHANGED <<config, body, seen, delivered, drained>>

\* A line cannot be written, or the size cap cannot be enforced after it was:
\* the sender gets an error, the server no event.
HandleFails(p) ==
  /\ stage[p] = "reading"
  /\ buffered
  /\ stage' = [stage EXCEPT ![p] = "refused"]
  /\ LET events == EventsOf(connector, p, body[p]) IN
       \/ UNCHANGED <<file, torn, written, swallowed>>
       \/ \E n \in 1..Len(events) :
            LET kept == SubSeq(events, 1, n)
                lines == Lines(kept)
            IN \/ n < Len(events) /\ Write(KeepNewest(lines), kept)
               \/ Len(lines) > Cap /\ Write(IF n = 1 THEN lines ELSE KeepOneMore(lines), kept)
  /\ UNCHANGED <<config, body, pending, hand, seen, delivered, drained>>

-----------------------------------------------------------------------------
(* Polls, and the pipeline with its deduplicator.                          *)

\* The lines that parse
Parsed(lines) ==
  LET parsed[n \in 0..Len(lines)] ==
        IF n = 0 THEN <<>>
        ELSE IF lines[n] = Torn THEN parsed[n - 1] ELSE Append(parsed[n - 1], lines[n])
  IN parsed[Len(lines)]

\* drainSync(): the whole file is read, what does not parse is skipped, and
\* the file is truncated.
PollDrains ==
  /\ hand[Poller] = <<>>
  /\ LET batch == IF buffered THEN Parsed(file) ELSE pending IN
       /\ hand' = [hand EXCEPT ![Poller] = batch]
       /\ drained' = drained \cup ((IF buffered THEN ToSet(file) ELSE ToSet(pending)) \ {Torn})
  /\ file' = <<>>
  /\ torn' = FALSE
  /\ pending' = <<>>
  /\ UNCHANGED <<config, stage, body, seen, delivered, written, swallowed>>

Deliveries(k) == IF k \in DOMAIN delivered THEN delivered[k] ELSE 0
Delivers(k) == delivered' = [x \in DOMAIN delivered \cup {k} |->
                               IF x = k THEN Deliveries(k) + 1 ELSE delivered[x]]

\* Fault: the key is not recorded.
ProcessUnrecorded(w) ==
  /\ hand[w] # <<>>
  /\ hand' = [hand EXCEPT ![w] = Tail(@)]
  /\ LET k == Head(hand[w]).key IN
       IF k \in seen THEN UNCHANGED <<seen, delivered>>
       ELSE UNCHANGED seen /\ Delivers(k)
  /\ UNCHANGED <<config, stage, body, store, observers>>

\* inject(), and DedupTransform.execute(): recorded before it is delivered
Process(w) ==
  /\ hand[w] # <<>>
  /\ hand' = [hand EXCEPT ![w] = Tail(@)]
  /\ LET k == Head(hand[w]).key IN
       IF k \in seen THEN UNCHANGED <<seen, delivered>>
       ELSE seen' = seen \cup {k} /\ Delivers(k)
  /\ UNCHANGED <<config, stage, body, store, observers>>

Held(k) == \E e \in ToSet(file) \cup ToSet(pending) \cup UNION {ToSet(hand[w]) : w \in Worker} :
             e.key = k

\* cleanup(): the window of a key is over.  It is longer than an event waits.
WindowEnds(k) ==
  /\ k \in seen
  /\ ~Held(k)
  /\ seen' = seen \ {k}
  /\ delivered' = [x \in DOMAIN delivered \ {k} |-> delivered[x]]
  /\ UNCHANGED <<config, stage, body, store, hand, observers>>

\* The module is reloaded: pendingEvents and the deduplicator start anew, what
\* is being processed goes on.
ReloadSource ==
  /\ seen # {} \/ pending # <<>>
  /\ pending' = <<>>
  /\ seen' = {}
  /\ delivered' = <<>>
  /\ UNCHANGED <<config, stage, body, file, torn, hand, observers>>

\* The process dies, perhaps while it writes a line.
CrashSource ==
  /\ \/ UNCHANGED <<file, torn>>
     \/ /\ buffered /\ ~torn
        /\ \E p \in Post : stage[p] = "reading"
        /\ file' = Append(file, Torn)
        /\ torn' = TRUE
  /\ stage' = [p \in Post |-> IF stage[p] = "reading" THEN "lost" ELSE stage[p]]
  /\ hand' = [w \in Worker |-> <<>>]
  /\ pending' = <<>>
  /\ seen' = {}
  /\ delivered' = <<>>
  /\ UNCHANGED <<config, body, observers>>

WebhookNext ==
  \/ \E p \in Post : Arrive(p) \/ Refuse(p) \/ Handle(p) \/ HandleFails(p)
  \/ PollDrains
  \/ \E w \in Worker : Process(w)
  \/ \E k \in seen : WindowEnds(k)
  \/ ReloadSource \/ CrashSource

WebhookSpec == WebhookInit /\ [][WebhookNext]_webhookVars

-----------------------------------------------------------------------------
(* Properties.                                                             *)

(***************************************************************************)
(* With a buffer, an event stays in the file until a poll takes it, also   *)
(* when writes fail and the process dies: it goes only if as many events   *)
(* as the file holds came after it, or if a crash left half a line that it *)
(* was appended to (append, enforceSize, drainSync).                       *)
(***************************************************************************)
WrittenIsKept ==
  buffered => \A i \in DOMAIN written :
    \/ written[i] \in ToSet(file) \cup drained \cup swallowed
    \/ Len(written) - i >= Cap

(***************************************************************************)
(* What a session does is reported once, although each request is          *)
(* processed twice and senders repeat theirs: until the deduplicator       *)
(* forgets it, a key is delivered at most once (lifecycle-contract.md:     *)
(* "The dedupe_key prevents duplicate delivery of the same lifecycle       *)
(* transition").                                                           *)
(***************************************************************************)
DeliveredOnce == \A k \in DOMAIN delivered : delivered[k] <= 1
=============================================================================
