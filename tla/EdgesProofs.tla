----------------------------- MODULE EdgesProofs -----------------------------
(***************************************************************************)
(* The webhooks and the actors: what comes in is handed on once and is     *)
(* kept, and what an actor answers is so.                                  *)
(***************************************************************************)
EXTENDS MCEdges, DaemonProofs, SourceProofs

-----------------------------------------------------------------------------
(* The webhook sources and the event buffer.                               *)

(***************************************************************************)
(* Once only.  What was delivered is recorded.                             *)
(***************************************************************************)
DeliveredIsSeen == DOMAIN delivered \subseteq seen

OnceInv == DeliveredIsSeen /\ DeliveredOnce

LEMMA OnceInvInit == WebhookInit => OnceInv
  BY DEF WebhookInit, OnceInv, DeliveredIsSeen, DeliveredOnce

LEMMA ProcessKeepsOnce == ASSUME OnceInv, NEW w \in Worker, Process(w) PROVE OnceInv'
<1> DEFINE k == Head(hand[w]).key
<1>1. CASE k \in seen
  BY <1>1 DEF Process, OnceInv, DeliveredIsSeen, DeliveredOnce
<1>2. CASE k \notin seen
  <2>1. /\ seen' = seen \cup {k}
        /\ delivered' = [x \in DOMAIN delivered \cup {k} |->
                           IF x = k THEN Deliveries(k) + 1 ELSE delivered[x]]
    BY <1>2 DEF Process, Delivers
  <2>2. Deliveries(k) + 1 = 1
    BY <1>2 DEF Deliveries, OnceInv, DeliveredIsSeen
  <2> HIDE DEF k
  <2> QED BY <2>1, <2>2 DEF OnceInv, DeliveredIsSeen, DeliveredOnce
<1> QED BY <1>1, <1>2

LEMMA OnceInvStep == OnceInv /\ [WebhookNext]_webhookVars => OnceInv'
<1> SUFFICES ASSUME OnceInv, [WebhookNext]_webhookVars PROVE OnceInv'
  OBVIOUS
<1>1. ASSUME NEW p \in Post, Arrive(p) \/ Refuse(p) \/ Handle(p) \/ HandleFails(p) PROVE OnceInv'
  BY <1>1 DEF Arrive, Refuse, Handle, HandleFails, OnceInv, DeliveredIsSeen, DeliveredOnce
<1>2. CASE PollDrains
  BY <1>2 DEF PollDrains, OnceInv, DeliveredIsSeen, DeliveredOnce
<1>3. ASSUME NEW w \in Worker, Process(w) PROVE OnceInv'
  BY <1>3, ProcessKeepsOnce
<1>4. ASSUME NEW k \in seen, WindowEnds(k) PROVE OnceInv'
  BY <1>4 DEF WindowEnds, OnceInv, DeliveredIsSeen, DeliveredOnce
<1>5. CASE ReloadSource \/ CrashSource
  BY <1>5 DEF ReloadSource, CrashSource, OnceInv, DeliveredIsSeen, DeliveredOnce
<1>6. CASE UNCHANGED webhookVars
  BY <1>6 DEF webhookVars, OnceInv, DeliveredIsSeen, DeliveredOnce
<1> QED BY <1>1, <1>2, <1>3, <1>4, <1>5, <1>6 DEF WebhookNext

(***************************************************************************)
(* Whatever posts and polls there are and however often senders repeat     *)
(* themselves, a key is delivered at most once until the deduplicator      *)
(* forgets it (DedupTransform.execute, inject, buildDedupeKey).            *)
(***************************************************************************)
THEOREM WebhooksDeliverOnce == WebhookSpec => []DeliveredOnce
<1>1. OnceInv => DeliveredOnce
  BY DEF OnceInv
<1> QED BY <1>1, OnceInvInit, OnceInvStep, PTL DEF WebhookSpec

(***************************************************************************)
(* The buffer file.                                                        *)
(***************************************************************************)
EventsThrough(c) == UNION {ToSet(EventsOf(c, p, b)) : p \in Post, b \in Bodies(c)}
BufferEvent == UNION {EventsThrough(c) : c \in Connector}
BufferLine == BufferEvent \cup {Torn}

\* An event that is neither taken nor swallowed has its place in the file: no
\* more lines come after it than events came after it, and half a line.
HasPlace(i) ==
  \E p \in 1..Len(file) :
    /\ file[p] = written[i]
    /\ Len(file) - p <= Len(written) - i + (IF torn THEN 1 ELSE 0)

PlacesKept ==
  \A i \in 1..Len(written) :
    \/ written[i] \in drained \cup swallowed
    \/ Len(written) - i >= Cap
    \/ HasPlace(i)

BufferInv ==
  /\ torn => file # <<>>
  /\ connector \in Connector /\ buffered \in BOOLEAN /\ torn \in BOOLEAN
  /\ \A p \in Post : stage[p] = "reading" => body[p] \in Bodies(connector)
  /\ DOMAIN stage = Post /\ DOMAIN body = Post
  /\ file \in Seq(BufferLine) /\ written \in Seq(BufferEvent)
  /\ buffered => PlacesKept

\* A request makes one or two events, and they are its own.
LEMMA EventsAreTheRequests ==
  ASSUME NEW c \in Connector, NEW p \in Post, NEW b \in Bodies(c)
  PROVE  /\ \E n \in 1..2 : EventsOf(c, p, b) = [i \in 1..n |-> EventsOf(c, p, b)[i]]
         /\ \A i \in DOMAIN EventsOf(c, p, b) : EventsOf(c, p, b)[i].post = p
<1> DEFINE E == EventsOf(c, p, b)
<1>1. CASE c = "linear-webhook"
  <2>1. b.changed \in {<<>>, <<"state">>, <<"state", "labels">>}
    BY <1>1 DEF Bodies, LinearBodies, Hooked
  <2>2. PICK parts \in {<<"new">>, <<"raw">>, <<"state">>, <<"state", "labels">>} :
           E = [i \in DOMAIN parts |-> PlainEvent(p, parts[i])]
    BY <1>1, <2>1 DEF EventsOf, LinearEvents
  <2>3. PICK n \in 1..2 : DOMAIN parts = 1..n
    <3>1. DOMAIN parts = 1..1 \/ DOMAIN parts = 1..2
      OBVIOUS
    <3> QED BY <3>1
  <2> HIDE DEF E
  <2>4. E = [i \in 1..n |-> E[i]] /\ \A i \in DOMAIN E : E[i].post = p
    BY <2>2, <2>3 DEF PlainEvent
  <2> QED BY <2>4 DEF E
<1>2. CASE c # "linear-webhook"
  <2>1. PICK e : E = <<e>> /\ e.post = p
    BY <1>2 DEF EventsOf, CodingAgentEvents, CodexEvents, OpenCodeEvents, PiEvents, PiRustEvents,
                HookEvent, WebhookEvents, PlainEvent
  <2> HIDE DEF E
  <2>2. E = [i \in 1..1 |-> E[i]] /\ \A i \in DOMAIN E : E[i].post = p
    BY <2>1
  <2> QED BY <2>2 DEF E
<1> QED BY <1>1, <1>2

LEMMA EventsListed ==
  ASSUME NEW c \in Connector, NEW p \in Post, NEW b \in Bodies(c)
  PROVE  EventsOf(c, p, b) \in Seq(BufferEvent)
<1> DEFINE E == EventsOf(c, p, b)
<1>1. ToSet(E) \subseteq EventsThrough(c)
  BY DEF EventsThrough
<1>2. EventsThrough(c) \subseteq BufferEvent
  BY DEF BufferEvent
<1>3. PICK n \in 1..2 : E = [i \in 1..n |-> E[i]]
  BY EventsAreTheRequests
<1> HIDE DEF E
<1>4. \A i \in 1..n : E[i] \in BufferEvent
  BY <1>1, <1>2, <1>3 DEF ToSet
<1>5. E \in [1..n -> BufferEvent]
  BY <1>3, <1>4
<1> QED BY <1>5, SeqDef DEF E

LEMMA EventsArePosts == Torn \notin BufferEvent
<1>1. ASSUME NEW c \in Connector, NEW p \in Post, NEW b \in Bodies(c),
             NEW e \in ToSet(EventsOf(c, p, b))
      PROVE  e.post \in Post
  BY <1>1, EventsAreTheRequests DEF ToSet
<1>2. \A c \in Connector : \A e \in EventsThrough(c) : e.post \in Post
  BY <1>1 DEF EventsThrough
<1>3. Torn.post \notin Post
  BY WebhookAssumption DEF Torn
<1> QED BY <1>2, <1>3 DEF BufferEvent

\* Appended lines come after those that were there, and the first of them is
\* lost in half a line.
LEMMA LinesAppended ==
  ASSUME NEW events \in Seq(BufferEvent), events # <<>>, file \in Seq(BufferLine), torn \in BOOLEAN,
         NEW t \in {0, 1}, t = 1 <=> torn
  PROVE  /\ Lines(events) \in Seq(BufferLine)
         /\ Len(Lines(events)) = Len(file) + Len(events) - t
         /\ \A p \in 1..Len(file) : Lines(events)[p] = file[p]
         /\ \A j \in 1..Len(events) : j > t => Lines(events)[Len(file) + j - t] = events[j]
<1>1. events \in Seq(BufferLine) /\ Len(events) \in Nat \ {0} /\ Len(file) \in Nat
  BY SeqMonotonic, EmptySeq, LenProperties DEF BufferLine
<1>2. CASE torn
  <2>1. /\ Tail(events) \in Seq(BufferLine) /\ Len(Tail(events)) = Len(events) - 1
        /\ \A i \in 1..Len(Tail(events)) : Tail(events)[i] = events[i + 1]
    BY <1>1, HeadTailProperties
  <2>2. Lines(events) = file \o Tail(events)
    BY <1>2 DEF Lines
  <2>3. /\ file \o Tail(events) \in Seq(BufferLine)
        /\ Len(file \o Tail(events)) = Len(file) + Len(Tail(events))
        /\ \A i \in 1..Len(file) + Len(Tail(events)) :
             (file \o Tail(events))[i] = IF i <= Len(file) THEN file[i] ELSE Tail(events)[i - Len(file)]
    BY <2>1, ConcatProperties
  <2>4. \A j \in 2..Len(events) : Lines(events)[Len(file) + j - 1] = events[j]
    <3>1. ASSUME NEW j \in 2..Len(events) PROVE Lines(events)[Len(file) + j - 1] = events[j]
      <4>1. j - 1 \in 1..Len(Tail(events)) /\ Len(file) + j - 1 \in 1..Len(file) + Len(Tail(events))
            /\ ~(Len(file) + j - 1 <= Len(file)) /\ Len(file) + j - 1 - Len(file) = j - 1 /\ j - 1 + 1 = j
        BY <1>1, <2>1
      <4> QED BY <2>1, <2>2, <2>3, <4>1
    <3> QED BY <3>1
  <2> QED BY <1>1, <1>2, <2>1, <2>2, <2>3, <2>4
<1>3. CASE ~torn
  <2>1. Lines(events) = file \o events
    BY <1>3 DEF Lines
  <2>2. /\ file \o events \in Seq(BufferLine)
        /\ Len(file \o events) = Len(file) + Len(events)
        /\ \A i \in 1..Len(file) + Len(events) :
             (file \o events)[i] = IF i <= Len(file) THEN file[i] ELSE events[i - Len(file)]
    BY <1>1, ConcatProperties
  <2>3. t = 0
    BY <1>3
  <2>4. ASSUME NEW j \in 1..Len(events) PROVE Lines(events)[Len(file) + j - t] = events[j]
    <3>1. Len(file) + j - t \in 1..Len(file) + Len(events) /\ ~(Len(file) + j - t <= Len(file))
          /\ Len(file) + j - t - Len(file) = j
      BY <1>1, <2>3
    <3> QED BY <2>1, <2>2, <3>1
  <2>5. Len(Lines(events)) = Len(file) + Len(events) - t
    BY <1>1, <2>1, <2>2, <2>3
  <2>6. \A p \in 1..Len(file) : Lines(events)[p] = file[p]
    BY <1>1, <2>1, <2>2
  <2> QED BY <2>1, <2>2, <2>4, <2>5, <2>6
<1> QED BY <1>2, <1>3

\* The lines that go when the cap is enforced have as many after them as the
\* file holds, so the places of the others are kept.
LEMMA AppendKeepsPlaces ==
  ASSUME BufferInv, buffered, NEW events \in Seq(BufferEvent), events # <<>>,
         NEW first \in 1..Len(Lines(events)),
         first = 1 \/ first <= Len(Lines(events)) - Cap + 1,
         Write(SubSeq(Lines(events), first, Len(Lines(events))), events),
         drained' = drained
  PROVE  /\ PlacesKept' /\ torn' = FALSE
         /\ file' \in Seq(BufferLine) /\ written' \in Seq(BufferEvent)
<1> DEFINE lines == Lines(events)
           t == IF torn THEN 1 ELSE 0
<1>1. Len(file) \in Nat /\ Len(written) \in Nat /\ Len(events) \in Nat \ {0} /\ Cap \in Nat \ {0}
  BY LenProperties, EmptySeq, WebhookAssumption DEF BufferInv
<1>2. /\ lines \in Seq(BufferLine) /\ Len(lines) = Len(file) + Len(events) - t
      /\ \A p \in 1..Len(file) : lines[p] = file[p]
      /\ \A j \in 1..Len(events) : j > t => lines[Len(file) + j - t] = events[j]
  <2>1. t \in {0, 1} /\ (t = 1 <=> torn) /\ file \in Seq(BufferLine) /\ torn \in BOOLEAN
    BY DEF BufferInv
  <2> HIDE DEF t
  <2> QED BY <2>1, LinesAppended
<1>3. /\ written' \in Seq(BufferEvent) /\ Len(written') = Len(written) + Len(events)
      /\ \A i \in 1..Len(written) : written'[i] = written[i]
      /\ \A j \in 1..Len(events) : written'[Len(written) + j] = events[j]
  <2>1. written' = written \o events
    BY DEF Write
  <2>2. /\ written \o events \in Seq(BufferEvent)
        /\ Len(written \o events) = Len(written) + Len(events)
        /\ \A i \in 1..Len(written) + Len(events) :
             (written \o events)[i] = IF i <= Len(written) THEN written[i] ELSE events[i - Len(written)]
    BY ConcatProperties DEF BufferInv
  <2> QED BY <1>1, <2>1, <2>2
<1>4. /\ file' \in Seq(BufferLine) /\ Len(file') = Len(lines) - first + 1
      /\ \A q \in 1..Len(lines) - first + 1 : file'[q] = lines[first + q - 1]
  <2>1. file' = SubSeq(lines, first, Len(lines))
    BY DEF Write
  <2>2. \A i \in first..Len(lines) : lines[i] \in BufferLine
    BY <1>2, ElementOfSeq, LenProperties
  <2>3. Len(lines) \in Nat /\ first <= Len(lines)
    BY <1>2, LenProperties
  <2> HIDE DEF lines
  <2> QED BY <2>1, <2>2, <2>3, SubSeqProperties
<1>5. torn' = FALSE /\ swallowed' = IF torn THEN swallowed \cup {events[1]} ELSE swallowed
  <2>1. Head(events) = events[1]
    OBVIOUS
  <2> QED BY <2>1 DEF Write, BufferInv
<1> HIDE DEF lines
<1>6. ASSUME NEW i \in 1..Len(written'), NEW p \in 1..Len(lines), lines[p] = written'[i],
             Len(lines) - p <= Len(written') - i
      PROVE  HasPlace(i)' \/ Len(written') - i >= Cap
  <2>1. CASE p >= first
    <3>1. p - first + 1 \in 1..Len(file') /\ first + (p - first + 1) - 1 = p
          /\ Len(file') - (p - first + 1) = Len(lines) - p
      BY <1>1, <1>2, <1>4, <2>1
    <3>2. file'[p - first + 1] = written'[i]
      BY <1>4, <1>6, <3>1
    <3>3. Len(file') - (p - first + 1) <= Len(written') - i + 0
      BY <1>1, <1>3, <1>6, <3>1
    <3> QED BY <1>5, <3>1, <3>2, <3>3 DEF HasPlace
  <2>2. CASE p < first
    BY <1>1, <1>2, <1>3, <1>6, <2>2 DEF lines
  <2> QED BY <1>1, <1>2, <2>1, <2>2
<1>7. ASSUME NEW i \in 1..Len(written)
      PROVE  \/ written'[i] \in drained' \cup swallowed'
             \/ Len(written') - i >= Cap
             \/ HasPlace(i)'
  <2>1. CASE written[i] \in drained \cup swallowed
    BY <1>3, <1>5, <2>1
  <2>2. CASE Len(written) - i >= Cap
    BY <1>1, <1>3, <2>2
  <2>3. CASE HasPlace(i)
    <3>1. PICK p \in 1..Len(file) : file[p] = written[i] /\ Len(file) - p <= Len(written) - i + t
      BY <2>3 DEF HasPlace
    <3>2. p \in 1..Len(lines) /\ Len(lines) - p <= Len(written') - i
      <4>1. t \in {0, 1} /\ Len(lines) = Len(file) + Len(events) - t
        BY <1>2
      <4>2. Len(written') = Len(written) + Len(events)
        BY <1>3
      <4> HIDE DEF t
      <4> QED
        BY <1>1, <3>1, <4>1, <4>2
    <3>3. lines[p] = file[p] /\ written'[i] = written[i]
      BY <1>2, <1>3, <3>1
    <3>4. i \in 1..Len(written')
      BY <1>1, <1>3
    <3> QED BY <1>6, <3>1, <3>2, <3>3, <3>4
  <2> QED BY <2>1, <2>2, <2>3 DEF BufferInv, PlacesKept
<1>8. ASSUME NEW j \in 1..Len(events), NEW i \in 1..Len(written'), i = Len(written) + j
      PROVE  \/ written'[i] \in swallowed'
             \/ Len(written') - i >= Cap
             \/ HasPlace(i)'
  <2>1. CASE j > t
    <3>1. /\ Len(file) + j - t \in 1..Len(lines)
          /\ Len(lines) - (Len(file) + j - t) <= Len(written') - i
      BY <1>1, <1>2, <1>3, <1>8, <2>1
    <3>2. lines[Len(file) + j - t] = written'[i]
      BY <1>2, <1>3, <1>8, <2>1
    <3> QED BY <1>6, <3>1, <3>2
  <2>2. CASE ~(j > t)
    BY <1>3, <1>5, <1>8, <2>2
  <2> QED BY <2>1, <2>2
<1>9. PlacesKept'
  <2>1. ASSUME NEW i \in 1..Len(written'), i \notin 1..Len(written)
        PROVE  \E j \in 1..Len(events) : i = Len(written) + j
    <3>1. i - Len(written) \in 1..Len(events) /\ i = Len(written) + (i - Len(written))
      BY <1>1, <1>3, <2>1
    <3> QED BY <3>1
  <2>2. ASSUME NEW i \in 1..Len(written')
        PROVE  \/ written'[i] \in drained' \cup swallowed'
               \/ Len(written') - i >= Cap
               \/ HasPlace(i)'
    <3>1. CASE i \in 1..Len(written)
      BY <1>7, <3>1
    <3>2. CASE i \notin 1..Len(written)
      <4>1. PICK j \in 1..Len(events) : i = Len(written) + j
        BY <2>1, <3>2
      <4> QED BY <1>8, <4>1
    <3> QED BY <3>1, <3>2
  <2> QED BY <2>2 DEF PlacesKept
<1> QED BY <1>3, <1>4, <1>5, <1>9

\* The same, for what is left of the lines after each way to enforce the cap
LEMMA EnforcedKeepsPlaces ==
  ASSUME BufferInv, buffered, NEW events \in Seq(BufferEvent), events # <<>>, drained' = drained,
         \/ Write(KeepNewest(Lines(events)), events)
         \/ Write(Lines(events), events)
         \/ Len(Lines(events)) > Cap /\ Write(KeepOneMore(Lines(events)), events)
  PROVE  /\ PlacesKept' /\ torn' = FALSE
         /\ file' \in Seq(BufferLine) /\ written' \in Seq(BufferEvent)
<1> DEFINE lines == Lines(events)
<1>1. lines \in Seq(BufferLine) /\ Len(lines) \in Nat \ {0}
  <2>1. PICK t \in {0, 1} : t = 1 <=> torn
    OBVIOUS
  <2>2. lines \in Seq(BufferLine)
    BY <2>1, LinesAppended DEF BufferInv
  <2>3. /\ Len(lines) = Len(file) + Len(events) - t
        /\ Len(file) \in Nat /\ Len(events) \in Nat \ {0}
    BY <2>1, LinesAppended, LenProperties, EmptySeq DEF BufferInv
  <2>4. t = 1 => Len(file) > 0
    BY <2>1, <2>3, EmptySeq DEF BufferInv
  <2> QED BY <2>2, <2>3, <2>4
<1> HIDE DEF lines
<1>2. lines = SubSeq(lines, 1, Len(lines))
  BY <1>1, SubSeqFull
<1>3. PICK first \in 1..Len(lines) :
        /\ first = 1 \/ first <= Len(lines) - Cap + 1
        /\ Write(SubSeq(lines, first, Len(lines)), events)
  <2>1. CASE Write(lines, events)
    <3>1. 1 \in 1..Len(lines) /\ Write(SubSeq(lines, 1, Len(lines)), events)
      BY <1>1, <1>2, <2>1 DEF Write
    <3> QED BY <3>1
  <2>2. CASE Write(KeepNewest(lines), events)
    <3>1. CASE Len(lines) <= Cap
      BY <2>1, <2>2, <3>1 DEF KeepNewest
    <3>2. CASE ~(Len(lines) <= Cap)
      <4>1. Len(lines) - Cap + 1 \in 1..Len(lines)
        BY <1>1, <3>2, WebhookAssumption
      <4> QED BY <2>2, <3>2, <4>1 DEF KeepNewest
    <3> QED BY <3>1, <3>2
  <2>3. CASE Len(lines) > Cap /\ Write(KeepOneMore(lines), events)
    <3>1. Len(lines) - Cap \in 1..Len(lines) /\ Len(lines) - Cap <= Len(lines) - Cap + 1
      BY <1>1, <2>3, WebhookAssumption
    <3> QED BY <2>3, <3>1 DEF KeepOneMore
  <2> QED BY <2>1, <2>2, <2>3 DEF lines
<1> QED BY <1>3, AppendKeepsPlaces DEF lines

LEMMA BufferInvInit == WebhookInit => BufferInv
<1> SUFFICES ASSUME WebhookInit PROVE BufferInv
  OBVIOUS
<1>1. file \in Seq(BufferLine) /\ written \in Seq(BufferEvent) /\ Len(written) = 0
  BY EmptySeq DEF WebhookInit
<1>2. PlacesKept
  BY <1>1 DEF PlacesKept
<1> QED BY <1>1, <1>2 DEF WebhookInit, BufferInv

LEMMA HandleKeepsPlaces ==
  ASSUME BufferInv, NEW p \in Post, Handle(p) \/ HandleFails(p)
  PROVE  BufferInv'
<1> DEFINE events == EventsOf(connector, p, body[p])
<1>1. body[p] \in Bodies(connector) /\ connector \in Connector
  BY DEF BufferInv, Handle, HandleFails
<1>2. events \in Seq(BufferEvent)
  BY <1>1, EventsListed
<1>3. PICK n \in 1..2 : events = [i \in 1..n |-> events[i]]
  BY <1>1, EventsAreTheRequests
<1>4. Len(events) \in Nat \ {0} /\ events # <<>>
  <2> HIDE DEF events
  <2>1. DOMAIN events = 1..n
    BY <1>3
  <2>2. 1 \in 1..n
    OBVIOUS
  <2>3. Len(events) \in Nat /\ DOMAIN events = 1..Len(events)
    BY <1>2, LenProperties
  <2>4. 1 \in 1..Len(events)
    BY <2>1, <2>2, <2>3
  <2> QED BY <2>3, <2>4, EmptySeq
<1>5. /\ UNCHANGED <<connector, buffered, body>> /\ drained' = drained
      /\ DOMAIN stage' = Post /\ \A q \in Post : stage'[q] = "reading" => stage[q] = "reading"
  BY DEF Handle, HandleFails, config, BufferInv
<1>6. SUFFICES /\ torn' \in BOOLEAN /\ (torn' => file' # <<>>)
               /\ file' \in Seq(BufferLine) /\ written' \in Seq(BufferEvent)
               /\ buffered => PlacesKept'
  BY <1>5 DEF BufferInv
<1>7. CASE Handle(p)
  <2>1. CASE buffered
    <3>1. Write(KeepNewest(Lines(events)), events)
      BY <1>7, <2>1 DEF Handle, Persist
    <3> HIDE DEF events
    <3> QED BY <1>2, <1>4, <1>5, <2>1, <3>1, EnforcedKeepsPlaces
  <2>2. CASE ~buffered
    <3>1. written' = written \o events /\ UNCHANGED <<file, torn>>
      BY <1>7, <2>2 DEF Handle, Persist
    <3> HIDE DEF events
    <3>2. written \o events \in Seq(BufferEvent)
      BY <1>2, ConcatProperties DEF BufferInv
    <3> QED BY <2>2, <3>1, <3>2 DEF BufferInv
  <2> QED BY <2>1, <2>2
<1>8. CASE HandleFails(p)
  <2>1. buffered
    BY <1>8 DEF HandleFails
  <2>2. CASE UNCHANGED <<file, torn, written, swallowed>>
    BY <1>5, <2>2 DEF BufferInv, PlacesKept, HasPlace
  <2>3. CASE \E m \in 1..Len(events) :
               LET kept == SubSeq(events, 1, m)
                   lines == Lines(kept)
               IN \/ m < Len(events) /\ Write(KeepNewest(lines), kept)
                  \/ Len(lines) > Cap /\ Write(IF m = 1 THEN lines ELSE KeepOneMore(lines), kept)
    <3> HIDE DEF events
    <3>1. PICK m \in 1..Len(events) :
            LET kept == SubSeq(events, 1, m)
                lines == Lines(kept)
            IN \/ m < Len(events) /\ Write(KeepNewest(lines), kept)
               \/ Len(lines) > Cap /\ Write(IF m = 1 THEN lines ELSE KeepOneMore(lines), kept)
      BY <2>3
    <3> DEFINE kept == SubSeq(events, 1, m)
    <3>2. kept \in Seq(BufferEvent) /\ kept # <<>>
      <4>1. \A i \in 1..m : events[i] \in BufferEvent
        BY <1>2, <1>4, ElementOfSeq
      <4>2. kept \in Seq(BufferEvent) /\ Len(kept) = m
        BY <1>4, <4>1, SubSeqProperties
      <4> HIDE DEF kept
      <4> QED BY <1>4, <4>2, EmptySeq
    <3>3. \/ Write(KeepNewest(Lines(kept)), kept)
          \/ Write(Lines(kept), kept)
          \/ Len(Lines(kept)) > Cap /\ Write(KeepOneMore(Lines(kept)), kept)
      BY <3>1
    <3> HIDE DEF kept
    <3> QED BY <1>5, <2>1, <3>2, <3>3, EnforcedKeepsPlaces
  <2> QED BY <1>8, <2>2, <2>3 DEF HandleFails
<1> QED BY <1>7, <1>8

LEMMA CrashKeepsPlaces == ASSUME BufferInv, CrashSource PROVE BufferInv'
<1>1. /\ UNCHANGED <<connector, buffered, body, written, drained, swallowed>>
      /\ DOMAIN stage' = Post /\ \A q \in Post : stage'[q] # "reading"
  BY DEF CrashSource, config, observers
<1>2. CASE UNCHANGED <<file, torn>>
  BY <1>1, <1>2 DEF BufferInv, PlacesKept, HasPlace
<1>3. CASE ~torn /\ file' = Append(file, Torn) /\ torn' = TRUE
  <2>1. /\ file' \in Seq(BufferLine) /\ Len(file') = Len(file) + 1 /\ file' # <<>>
        /\ \A p \in 1..Len(file) : file'[p] = file[p]
    BY <1>3, AppendProperties DEF BufferInv, BufferLine
  <2>2. Len(file) \in Nat /\ Len(written) \in Nat
    BY LenProperties DEF BufferInv
  <2>3. ASSUME NEW i \in 1..Len(written), HasPlace(i) PROVE HasPlace(i)'
    <3>1. PICK p \in 1..Len(file) : file[p] = written[i] /\ Len(file) - p <= Len(written) - i + 0
      BY <1>3, <2>3 DEF HasPlace
    <3>2. p \in 1..Len(file') /\ file'[p] = written'[i] /\ Len(file') - p <= Len(written') - i + 1
      BY <1>1, <2>1, <2>2, <3>1
    <3> QED BY <1>3, <3>2 DEF HasPlace
  <2>4. buffered => PlacesKept'
    BY <1>1, <2>3 DEF BufferInv, PlacesKept
  <2> QED BY <1>1, <1>3, <2>1, <2>4 DEF BufferInv
<1> QED BY <1>2, <1>3 DEF CrashSource

LEMMA DrainKeepsPlaces == ASSUME BufferInv, PollDrains PROVE BufferInv'
<1>1. /\ UNCHANGED <<connector, buffered, body, stage, written, swallowed>>
      /\ file' = <<>> /\ torn' = FALSE
      /\ drained' = drained \cup ((IF buffered THEN ToSet(file) ELSE ToSet(pending)) \ {Torn})
  BY DEF PollDrains, config
<1>2. <<>> \in Seq(BufferLine)
  BY EmptySeq
<1>3. ASSUME buffered, NEW i \in 1..Len(written), HasPlace(i) PROVE written'[i] \in drained'
  <2>1. PICK p \in 1..Len(file) : file[p] = written[i]
    BY <1>3 DEF HasPlace
  <2>2. file[p] \in ToSet(file)
    BY LenProperties DEF ToSet, BufferInv
  <2>3. written[i] # Torn
    BY ElementOfSeq, EventsArePosts DEF BufferInv
  <2> QED BY <1>1, <1>3, <2>1, <2>2, <2>3
<1>4. buffered => PlacesKept'
  BY <1>1, <1>3 DEF BufferInv, PlacesKept
<1> QED BY <1>1, <1>2, <1>4 DEF BufferInv

LEMMA BufferInvStep == BufferInv /\ [WebhookNext]_webhookVars => BufferInv'
<1> SUFFICES ASSUME BufferInv, [WebhookNext]_webhookVars PROVE BufferInv'
  OBVIOUS
<1>1. ASSUME NEW p \in Post, Arrive(p) PROVE BufferInv'
  <2>1. PICK b \in Bodies(connector) : body' = [body EXCEPT ![p] = b]
    BY <1>1 DEF Arrive
  <2> QED BY <1>1, <2>1 DEF Arrive, BufferInv, PlacesKept, HasPlace, config, store, observers
<1>2. ASSUME NEW p \in Post, Refuse(p) PROVE BufferInv'
  BY <1>2 DEF Refuse, BufferInv, PlacesKept, HasPlace, config, store, observers
<1>3. ASSUME NEW p \in Post, Handle(p) \/ HandleFails(p) PROVE BufferInv'
  BY <1>3, HandleKeepsPlaces
<1>4. CASE PollDrains
  BY <1>4, DrainKeepsPlaces
<1>5. ASSUME NEW w \in Worker, Process(w) PROVE BufferInv'
  BY <1>5 DEF Process, BufferInv, PlacesKept, HasPlace, config, store, observers
<1>6. ASSUME NEW k \in seen, WindowEnds(k) PROVE BufferInv'
  BY <1>6 DEF WindowEnds, BufferInv, PlacesKept, HasPlace, config, store, observers
<1>7. CASE ReloadSource
  BY <1>7 DEF ReloadSource, BufferInv, PlacesKept, HasPlace, config, store, observers
<1>8. CASE CrashSource
  BY <1>8, CrashKeepsPlaces
<1>9. CASE UNCHANGED webhookVars
  BY <1>9 DEF webhookVars, BufferInv, PlacesKept, HasPlace
<1> QED BY <1>1, <1>2, <1>3, <1>4, <1>5, <1>6, <1>7, <1>8, <1>9 DEF WebhookNext

(***************************************************************************)
(* For any requests, any size of the buffer file and any failures to write *)
(* it: a buffered event stays in the file until a poll takes it, or as many*)
(* events as the file holds came after it, or it was appended to half a    *)
(* line (append, enforceSize, drainSync).                                  *)
(***************************************************************************)
THEOREM WebhooksKeepWritten == WebhookSpec => []WrittenIsKept
<1>1. BufferInv => WrittenIsKept
  <2> SUFFICES ASSUME BufferInv, buffered, NEW i \in DOMAIN written
               PROVE  \/ written[i] \in ToSet(file) \cup drained \cup swallowed
                      \/ Len(written) - i >= Cap
    BY DEF WrittenIsKept
  <2>1. i \in 1..Len(written)
    BY LenProperties DEF BufferInv
  <2>2. HasPlace(i) => written[i] \in ToSet(file)
    BY LenProperties DEF HasPlace, ToSet, BufferInv
  <2> QED BY <2>1, <2>2 DEF BufferInv, PlacesKept
<1> QED BY <1>1, BufferInvInit, BufferInvStep, PTL DEF WebhookSpec

-----------------------------------------------------------------------------
(* The types of the webhook sources.                                       *)

OwnEvents == EventsThrough(connector)

WebhookInv ==
  /\ connector \in Connector /\ buffered \in BOOLEAN /\ torn \in BOOLEAN
  /\ stage \in [Post -> {"new", "reading", "answered", "refused", "lost"}]
  /\ DOMAIN body = Post
  /\ \A p \in Post : /\ body[p] \in Bodies(connector) \cup {NoBody}
                     /\ stage[p] = "reading" => body[p] \in Bodies(connector)
  /\ written \in Seq(OwnEvents) /\ pending \in Seq(OwnEvents)
  /\ hand \in [Worker -> Seq(OwnEvents)]
  /\ file \in Seq(ToSet(written) \cup {Torn})
  /\ torn => file # <<>> /\ Last(file) = Torn
  /\ buffered => pending = <<>>
  /\ seen \subseteq Keys /\ DOMAIN delivered \subseteq Keys

\* Each line that parses is one of those that were there.
LEMMA ParsedTyped ==
  ASSUME NEW S, NEW lines \in Seq(S \cup {Torn})
  PROVE  Parsed(lines) \in Seq(S)
<1> DEFINE L == Len(lines)
           Body(f, k) == [n \in 0..k |->
                            IF n = 0 THEN <<>>
                            ELSE IF lines[n] = Torn THEN f[n - 1] ELSE Append(f[n - 1], lines[n])]
           g == CHOOSE f : f = Body(f, L)
<1>1. L \in Nat /\ \A i \in 1..L : lines[i] \in S \cup {Torn}
  BY LenProperties, ElementOfSeq
<1>2. \A k \in Nat : \E f : f = Body(f, k)
  <2> DEFINE T == {k \in Nat : ~ \E f : f = Body(f, k)}
  <2> SUFFICES ASSUME T # {} PROVE FALSE
    OBVIOUS
  <2>1. PICK m \in T : \A n \in T : m <= n
    BY LeastNat
  <2>2. CASE m = 0
    <3> DEFINE f == [n \in 0..0 |-> <<>>]
    <3>1. f = Body(f, 0)
      OBVIOUS
    <3> QED
      BY <2>1, <2>2, <3>1
  <2>3. CASE m # 0
    <3>1. m \in Nat /\ m - 1 \in Nat /\ m - 1 \notin T
      <4> HIDE DEF T
      <4>1. m \in Nat
        BY <2>1 DEF T
      <4> QED
        BY <2>1, <2>3, <4>1
    <3>2. PICK h : h = Body(h, m - 1)
      BY <3>1
    <3> DEFINE f == [n \in 0..m |->
                       IF n = m THEN IF lines[m] = Torn THEN h[m - 1] ELSE Append(h[m - 1], lines[m])
                       ELSE h[n]]
    <3>3. ASSUME NEW n \in 0..m
          PROVE  f[n] = IF n = 0 THEN <<>>
                        ELSE IF lines[n] = Torn THEN f[n - 1] ELSE Append(f[n - 1], lines[n])
      <4>1. n # 0 => f[n - 1] = h[n - 1]
        BY <3>1
      <4>2. CASE n = m
        BY <2>3, <4>1, <4>2
      <4>3. CASE n # m
        <5>1. n \in 0..m - 1 /\ f[n] = h[n]
          BY <3>1, <4>3
        <5>2. h[n] = IF n = 0 THEN <<>>
                     ELSE IF lines[n] = Torn THEN h[n - 1] ELSE Append(h[n - 1], lines[n])
          BY <3>2, <5>1
        <5> HIDE DEF f
        <5> QED
          BY <4>1, <5>1, <5>2
      <4> QED
        BY <4>2, <4>3
    <3>4. f = Body(f, m)
      <4>1. f = [n \in 0..m |-> f[n]]
        OBVIOUS
      <4> HIDE DEF f
      <4> QED
        BY <3>3, <4>1
    <3> QED
      BY <2>1, <3>1, <3>4
  <2> QED
    BY <2>2, <2>3
<1>3. g = Body(g, L)
  BY <1>1, <1>2
<1>4. Parsed(lines) = g[L]
  BY DEF Parsed
<1> HIDE DEF g, L
<1>5. \A n \in 0..L : g[n] = IF n = 0 THEN <<>>
                             ELSE IF lines[n] = Torn THEN g[n - 1] ELSE Append(g[n - 1], lines[n])
  BY <1>3
<1>6. \A n \in 0..L : g[n] \in Seq(S)
  <2> DEFINE T == {n \in 0..L : g[n] \notin Seq(S)}
  <2> SUFFICES ASSUME T # {} PROVE FALSE
    OBVIOUS
  <2>1. PICK m \in T : \A n \in T : m <= n
    <3>1. T \subseteq Nat
      BY <1>1
    <3> QED
      BY <3>1, LeastNat
  <2>2. m # 0
    BY <1>5, <2>1, EmptySeq
  <2>3. m \in 1..L /\ m - 1 \in 0..L /\ m - 1 \notin T
    BY <1>1, <2>1, <2>2
  <2>4. g[m - 1] \in Seq(S)
    BY <2>3
  <2>5. lines[m] # Torn => Append(g[m - 1], lines[m]) \in Seq(S)
    BY <1>1, <2>3, <2>4, AppendProperties
  <2> QED
    BY <1>5, <2>2, <2>3, <2>4, <2>5
<1> QED
  BY <1>1, <1>4, <1>6

LEMMA InOwnSet == ASSUME NEW S, NEW s \in Seq(S) PROVE s \in Seq(ToSet(s)) /\ ToSet(s) \subseteq S
<1>1. Len(s) \in Nat /\ s \in [1..Len(s) -> S] /\ DOMAIN s = 1..Len(s)
  BY LenProperties
<1>2. s \in [1..Len(s) -> ToSet(s)] /\ ToSet(s) \subseteq S
  BY <1>1 DEF ToSet
<1> QED
  BY <1>1, <1>2, SeqDef

LEMMA SetOfConcat ==
  ASSUME NEW S, NEW s \in Seq(S), NEW t \in Seq(S)
  PROVE  ToSet(s) \subseteq ToSet(s \o t) /\ ToSet(t) \subseteq ToSet(s \o t)
<1>1. /\ Len(s) \in Nat /\ Len(t) \in Nat /\ DOMAIN s = 1..Len(s) /\ DOMAIN t = 1..Len(t)
      /\ DOMAIN (s \o t) = 1..Len(s) + Len(t)
      /\ \A i \in 1..Len(s) + Len(t) : (s \o t)[i] = IF i <= Len(s) THEN s[i] ELSE t[i - Len(s)]
  BY LenProperties, ConcatProperties
<1>2. ASSUME NEW i \in 1..Len(s) PROVE s[i] \in ToSet(s \o t)
  <2>1. i \in 1..Len(s) + Len(t) /\ (s \o t)[i] = s[i]
    BY <1>1
  <2> QED
    BY <1>1, <2>1 DEF ToSet
<1>3. ASSUME NEW i \in 1..Len(t) PROVE t[i] \in ToSet(s \o t)
  <2>1. Len(s) + i \in 1..Len(s) + Len(t) /\ ~(Len(s) + i <= Len(s)) /\ Len(s) + i - Len(s) = i
    BY <1>1
  <2>2. (s \o t)[Len(s) + i] = t[i]
    BY <1>1, <2>1
  <2> QED
    BY <1>1, <2>1, <2>2 DEF ToSet
<1> QED
  BY <1>1, <1>2, <1>3 DEF ToSet

LEMMA OwnEventsOf ==
  ASSUME NEW c \in Connector, NEW p \in Post, NEW b \in Bodies(c)
  PROVE  EventsOf(c, p, b) \in Seq(EventsThrough(c))
<1> DEFINE E == EventsOf(c, p, b)
<1>1. ToSet(E) \subseteq EventsThrough(c) /\ E \in Seq(BufferEvent)
  BY EventsListed DEF EventsThrough
<1> HIDE DEF E
<1> QED
  BY <1>1, InOwnSet, SeqMonotonic DEF E

LEMMA KeysAreOwn == ASSUME connector \in Connector PROVE Keys = {e.key : e \in OwnEvents}
BY DEF Keys, KeysOf, OwnEvents, EventsThrough

LEMMA KeptTyped ==
  ASSUME NEW S, NEW lines \in Seq(S)
  PROVE  /\ KeepNewest(lines) \in Seq(S)
         /\ Len(lines) > Cap => KeepOneMore(lines) \in Seq(S)
<1>1. Len(lines) \in Nat /\ Cap \in Nat \ {0} /\ \A i \in 1..Len(lines) : lines[i] \in S
  BY LenProperties, ElementOfSeq, WebhookAssumption
<1>2. CASE Len(lines) > Cap
  <2>1. ASSUME NEW m \in {Len(lines) - Cap, Len(lines) - Cap + 1}
        PROVE  SubSeq(lines, m, Len(lines)) \in Seq(S)
    <3>1. m \in Int /\ \A i \in m..Len(lines) : lines[i] \in S
      BY <1>1, <1>2
    <3> QED
      BY <1>1, <3>1, SubSeqProperties
  <2> QED
    BY <1>1, <1>2, <2>1 DEF KeepNewest, KeepOneMore
<1>3. CASE ~(Len(lines) > Cap)
  BY <1>1, <1>3 DEF KeepNewest
<1> QED
  BY <1>2, <1>3

\* However much of the file is kept, its lines are events that were written.
LEMMA WriteTyped ==
  ASSUME WebhookInv, NEW events \in Seq(OwnEvents), events # <<>>,
         \/ Write(KeepNewest(Lines(events)), events)
         \/ Write(Lines(events), events)
         \/ Len(Lines(events)) > Cap /\ Write(KeepOneMore(Lines(events)), events)
  PROVE  /\ file' \in Seq(ToSet(written') \cup {Torn})
         /\ written' \in Seq(OwnEvents) /\ torn' = FALSE
<1> DEFINE after == written \o events
           F == ToSet(after) \cup {Torn}
<1>1. written' = after /\ torn' = FALSE
  BY DEF Write, WebhookInv
<1>2. after \in Seq(OwnEvents) /\ ToSet(written) \subseteq ToSet(after) /\ ToSet(events) \subseteq ToSet(after)
  BY ConcatProperties, SetOfConcat DEF WebhookInv
<1>3. file \in Seq(F)
  BY <1>2, SeqMonotonic DEF WebhookInv
<1>4. events \in Seq(F) /\ Tail(events) \in Seq(F)
  <2>1. events \in Seq(ToSet(events)) /\ ToSet(events) \subseteq F
    BY <1>2, InOwnSet
  <2> HIDE DEF F
  <2>2. events \in Seq(F)
    BY <2>1, SeqMonotonic
  <2> QED
    BY <2>2, HeadTailProperties
<1> HIDE DEF F
<1>5. Lines(events) \in Seq(F)
  BY <1>3, <1>4, ConcatProperties DEF Lines
<1>6. file' \in Seq(F)
  BY <1>5, KeptTyped DEF Write
<1> QED
  BY <1>1, <1>2, <1>6 DEF F

LEMMA WebhookInvInit == WebhookInit => WebhookInv
<1> SUFFICES ASSUME WebhookInit PROVE WebhookInv
  OBVIOUS
<1>1. <<>> \in Seq(OwnEvents) /\ <<>> \in Seq(ToSet(<<>>) \cup {Torn}) /\ DOMAIN <<>> = {}
  BY EmptySeq
<1>2. hand \in [Worker -> Seq(OwnEvents)] /\ file \in Seq(ToSet(written) \cup {Torn})
  BY <1>1 DEF WebhookInit
<1>3. stage \in [Post -> {"new", "reading", "answered", "refused", "lost"}]
      /\ \A p \in Post : stage[p] # "reading" /\ body[p] = NoBody
  BY DEF WebhookInit
<1> QED
  BY <1>1, <1>2, <1>3 DEF WebhookInit, WebhookInv

\* What a handler that succeeds or fails half-way has done
LEMMA HandleTyped ==
  ASSUME WebhookInv, NEW p \in Post, Handle(p) \/ HandleFails(p)
  PROVE  WebhookInv'
<1> DEFINE events == EventsOf(connector, p, body[p])
<1>1. connector \in Connector /\ body[p] \in Bodies(connector)
  BY DEF WebhookInv, Handle, HandleFails
<1>2. events \in Seq(OwnEvents)
  BY <1>1, OwnEventsOf DEF OwnEvents
<1>3. events # <<>>
  <2>1. PICK n \in 1..2 : events = [i \in 1..n |-> events[i]]
    BY <1>1, EventsAreTheRequests
  <2> HIDE DEF events
  <2>2. DOMAIN events = 1..n /\ 1 \in 1..n
    BY <2>1
  <2>3. DOMAIN events = 1..Len(events)
    BY <1>2, LenProperties
  <2> QED
    BY <2>2, <2>3, EmptySeq
<1>4. UNCHANGED <<connector, buffered, body, seen, delivered>>
  BY DEF Handle, HandleFails, config
<1>5. OwnEvents' = OwnEvents /\ Keys' = Keys
  BY <1>4 DEF OwnEvents, Keys
<1>6. SUFFICES /\ torn' \in BOOLEAN /\ stage' = [stage EXCEPT ![p] = stage'[p]]
               /\ stage'[p] \in {"answered", "refused"}
               /\ written' \in Seq(OwnEvents) /\ pending' \in Seq(OwnEvents)
               /\ hand' \in [Worker -> Seq(OwnEvents)]
               /\ file' \in Seq(ToSet(written') \cup {Torn})
               /\ torn' => file' # <<>> /\ Last(file') = Torn
               /\ buffered => pending' = <<>>
  <2>1. stage' \in [Post -> {"new", "reading", "answered", "refused", "lost"}]
    BY <1>6 DEF WebhookInv
  <2>2. \A q \in Post : stage'[q] = "reading" => stage[q] = "reading"
    BY <1>6 DEF WebhookInv
  <2>3. \A q \in Post : /\ body'[q] \in Bodies(connector') \cup {NoBody}
                         /\ stage'[q] = "reading" => body'[q] \in Bodies(connector')
    BY <1>4, <2>2 DEF WebhookInv
  <2>4. seen' \subseteq Keys' /\ DOMAIN delivered' \subseteq Keys' /\ DOMAIN body' = Post
    BY <1>4, <1>5 DEF WebhookInv
  <2> QED
    BY <1>4, <1>5, <1>6, <2>1, <2>3, <2>4 DEF WebhookInv
<1> HIDE DEF events
<1>7. CASE Handle(p)
  <2>1. /\ stage' = [stage EXCEPT ![p] = "answered"] /\ stage'[p] = "answered"
        /\ hand' = [hand EXCEPT ![p] = events] /\ Persist(events)
    BY <1>7 DEF Handle, WebhookInv, events
  <2>2. hand' \in [Worker -> Seq(OwnEvents)]
    BY <1>2, <2>1 DEF WebhookInv
  <2>3. CASE buffered
    <3>1. Write(KeepNewest(Lines(events)), events) /\ UNCHANGED pending
      BY <2>1, <2>3 DEF Persist
    <3>2. file' \in Seq(ToSet(written') \cup {Torn}) /\ written' \in Seq(OwnEvents) /\ torn' = FALSE
      BY <1>2, <1>3, <3>1, WriteTyped
    <3> QED
      BY <2>1, <2>2, <2>3, <3>1, <3>2 DEF WebhookInv
  <2>4. CASE ~buffered
    <3>1. pending' = pending \o events /\ written' = written \o events /\ UNCHANGED <<file, torn>>
      BY <2>1, <2>4 DEF Persist
    <3>2. /\ pending' \in Seq(OwnEvents) /\ written' \in Seq(OwnEvents)
          /\ ToSet(written) \subseteq ToSet(written')
      BY <1>2, <3>1, ConcatProperties, SetOfConcat DEF WebhookInv
    <3>3. file' \in Seq(ToSet(written') \cup {Torn})
      BY <3>1, <3>2, SeqMonotonic DEF WebhookInv
    <3> QED
      BY <2>1, <2>2, <2>4, <3>1, <3>2, <3>3 DEF WebhookInv
  <2> QED
    BY <2>3, <2>4
<1>8. CASE HandleFails(p)
  <2>1. /\ buffered /\ UNCHANGED <<pending, hand>>
        /\ stage' = [stage EXCEPT ![p] = "refused"] /\ stage'[p] = "refused"
    BY <1>8 DEF HandleFails, WebhookInv
  <2>2. CASE UNCHANGED <<file, torn, written, swallowed>>
    BY <2>1, <2>2 DEF WebhookInv
  <2>3. CASE \E n \in 1..Len(events) :
               LET kept == SubSeq(events, 1, n)
                   lines == Lines(kept)
               IN \/ n < Len(events) /\ Write(KeepNewest(lines), kept)
                  \/ Len(lines) > Cap /\ Write(IF n = 1 THEN lines ELSE KeepOneMore(lines), kept)
    <3>1. PICK n \in 1..Len(events) :
            LET kept == SubSeq(events, 1, n)
                lines == Lines(kept)
            IN \/ n < Len(events) /\ Write(KeepNewest(lines), kept)
               \/ Len(lines) > Cap /\ Write(IF n = 1 THEN lines ELSE KeepOneMore(lines), kept)
      BY <2>3
    <3> DEFINE kept == SubSeq(events, 1, n)
    <3>2. kept \in Seq(OwnEvents) /\ kept # <<>>
      <4>1. Len(events) \in Nat /\ \A i \in 1..n : events[i] \in OwnEvents
        BY <1>2, LenProperties, ElementOfSeq
      <4>2. kept \in Seq(OwnEvents) /\ Len(kept) = n
        BY <4>1, SubSeqProperties
      <4> HIDE DEF kept
      <4> QED
        BY <4>1, <4>2, EmptySeq
    <3>3. \/ Write(KeepNewest(Lines(kept)), kept)
          \/ Write(Lines(kept), kept)
          \/ Len(Lines(kept)) > Cap /\ Write(KeepOneMore(Lines(kept)), kept)
      BY <3>1
    <3> HIDE DEF kept
    <3>4. file' \in Seq(ToSet(written') \cup {Torn}) /\ written' \in Seq(OwnEvents) /\ torn' = FALSE
      BY <3>2, <3>3, WriteTyped
    <3> QED
      BY <2>1, <3>4 DEF WebhookInv
  <2> QED
    BY <1>8, <2>2, <2>3 DEF HandleFails, events
<1> QED
  BY <1>7, <1>8

LEMMA ProcessTyped == ASSUME WebhookInv, NEW w \in Worker, Process(w) PROVE WebhookInv'
<1> DEFINE k == Head(hand[w]).key
<1>1. /\ hand[w] \in Seq(OwnEvents) /\ hand[w] # <<>> /\ hand' = [hand EXCEPT ![w] = Tail(@)]
      /\ UNCHANGED <<connector, buffered, stage, body, file, torn, pending, written, drained, swallowed>>
  BY DEF Process, WebhookInv, config, store, observers
<1>2. OwnEvents' = OwnEvents /\ Keys' = Keys
  BY <1>1 DEF OwnEvents, Keys
<1>3. Tail(hand[w]) \in Seq(OwnEvents) /\ Head(hand[w]) \in OwnEvents
  BY <1>1, HeadTailProperties
<1>4. hand' \in [Worker -> Seq(OwnEvents)]
  BY <1>1, <1>3 DEF WebhookInv
<1>5. k \in Keys
  BY <1>3, KeysAreOwn DEF WebhookInv
<1>6. seen' \subseteq Keys /\ DOMAIN delivered' \subseteq Keys
  <2> HIDE DEF k
  <2>1. \/ UNCHANGED <<seen, delivered>>
        \/ seen' = seen \cup {k} /\ DOMAIN delivered' = DOMAIN delivered \cup {k}
    BY DEF Process, Delivers, k
  <2> QED
    BY <1>5, <2>1 DEF WebhookInv
<1> QED
  BY <1>1, <1>2, <1>4, <1>6 DEF WebhookInv

LEMMA PollDrainsTyped == ASSUME WebhookInv, PollDrains PROVE WebhookInv'
<1>1. /\ UNCHANGED <<connector, buffered, stage, body, seen, delivered, written, swallowed>>
      /\ file' = <<>> /\ torn' = FALSE /\ pending' = <<>>
      /\ hand' = [hand EXCEPT ![Poller] = IF buffered THEN Parsed(file) ELSE pending]
  BY DEF PollDrains, config
<1>2. OwnEvents' = OwnEvents /\ Keys' = Keys
  BY <1>1 DEF OwnEvents, Keys
<1>3. Parsed(file) \in Seq(OwnEvents) /\ pending \in Seq(OwnEvents)
  <2>1. ToSet(written) \subseteq OwnEvents /\ file \in Seq(ToSet(written) \cup {Torn})
    BY InOwnSet DEF WebhookInv
  <2>2. Parsed(file) \in Seq(ToSet(written))
    BY <2>1, ParsedTyped
  <2> QED
    BY <2>1, <2>2, SeqMonotonic DEF WebhookInv
<1>4. hand' \in [Worker -> Seq(OwnEvents)]
  BY <1>1, <1>3 DEF WebhookInv
<1>5. <<>> \in Seq(OwnEvents) /\ <<>> \in Seq(ToSet(written) \cup {Torn})
  BY EmptySeq
<1> QED
  BY <1>1, <1>2, <1>4, <1>5 DEF WebhookInv

LEMMA CrashTyped == ASSUME WebhookInv, CrashSource PROVE WebhookInv'
<1>1. /\ UNCHANGED <<connector, buffered, body, written, drained, swallowed>>
      /\ stage' = [p \in Post |-> IF stage[p] = "reading" THEN "lost" ELSE stage[p]]
      /\ hand' = [w \in Worker |-> <<>>] /\ pending' = <<>> /\ seen' = {} /\ delivered' = <<>>
      /\ UNCHANGED <<file, torn>> \/ (file' = Append(file, Torn) /\ torn' = TRUE)
  <2>1. UNCHANGED <<file, torn>> \/ (file' = Append(file, Torn) /\ torn' = TRUE)
    BY DEF CrashSource
  <2> QED
    BY <2>1 DEF CrashSource, config, observers
<1>2. OwnEvents' = OwnEvents /\ Keys' = Keys
  BY <1>1 DEF OwnEvents, Keys
<1>3. <<>> \in Seq(OwnEvents) /\ DOMAIN <<>> = {}
  BY EmptySeq
<1>4. hand' \in [Worker -> Seq(OwnEvents)]
  BY <1>1, <1>3
<1>5. /\ stage' \in [Post -> {"new", "reading", "answered", "refused", "lost"}]
      /\ \A p \in Post : stage'[p] # "reading"
  BY <1>1 DEF WebhookInv
<1>6. file' \in Seq(ToSet(written) \cup {Torn}) /\ (torn' => file' # <<>> /\ Last(file') = Torn)
  <2>1. CASE UNCHANGED <<file, torn>>
    BY <2>1 DEF WebhookInv
  <2>2. CASE file' = Append(file, Torn)
    <3> DEFINE F == ToSet(written) \cup {Torn}
    <3>1. file \in Seq(F) /\ Torn \in F
      BY DEF WebhookInv
    <3> HIDE DEF F
    <3>2. /\ Append(file, Torn) \in Seq(F) /\ Append(file, Torn) # <<>>
          /\ Len(Append(file, Torn)) = Len(file) + 1 /\ Append(file, Torn)[Len(file) + 1] = Torn
      BY <3>1, AppendProperties
    <3> QED
      BY <2>2, <3>2 DEF Last, F
  <2> QED
    BY <1>1, <2>1, <2>2
<1>7. torn' \in BOOLEAN
  BY <1>1 DEF WebhookInv
<1> QED
  BY <1>1, <1>2, <1>3, <1>4, <1>5, <1>6, <1>7 DEF WebhookInv

LEMMA WebhookInvStep == WebhookInv /\ [WebhookNext]_webhookVars => WebhookInv'
<1> SUFFICES ASSUME WebhookInv, [WebhookNext]_webhookVars PROVE WebhookInv'
  OBVIOUS
<1>1. ASSUME UNCHANGED <<connector, written>> PROVE OwnEvents' = OwnEvents /\ Keys' = Keys
  BY <1>1 DEF OwnEvents, Keys
<1>2. ASSUME NEW p \in Post, Arrive(p) \/ Refuse(p) PROVE WebhookInv'
  <2>1. /\ UNCHANGED <<connector, buffered, file, torn, pending, hand, seen, delivered, written>>
        /\ \E t \in {"reading", "refused"} : stage' = [stage EXCEPT ![p] = t]
        /\ \/ stage' = [stage EXCEPT ![p] = "refused"] /\ body' = body
           \/ \E b \in Bodies(connector) : body' = [body EXCEPT ![p] = b]
    BY <1>2 DEF Arrive, Refuse, config, store, observers
  <2>2. OwnEvents' = OwnEvents /\ Keys' = Keys
    BY <1>1, <2>1
  <2>3. stage' \in [Post -> {"new", "reading", "answered", "refused", "lost"}] /\ DOMAIN body' = Post
    BY <2>1 DEF WebhookInv
  <2>4. \A q \in Post : /\ body'[q] \in Bodies(connector) \cup {NoBody}
                        /\ stage'[q] = "reading" => body'[q] \in Bodies(connector)
    BY <2>1 DEF WebhookInv
  <2> QED
    BY <2>1, <2>2, <2>3, <2>4 DEF WebhookInv
<1>3. ASSUME NEW p \in Post, Handle(p) \/ HandleFails(p) PROVE WebhookInv'
  BY <1>3, HandleTyped
<1>4. CASE PollDrains
  BY <1>4, PollDrainsTyped
<1>5. ASSUME NEW w \in Worker, Process(w) PROVE WebhookInv'
  BY <1>5, ProcessTyped
<1>6. ASSUME NEW k \in seen, WindowEnds(k) PROVE WebhookInv'
  <2>1. /\ UNCHANGED <<connector, buffered, stage, body, file, torn, pending, hand, written>>
        /\ seen' \subseteq seen /\ DOMAIN delivered' \subseteq DOMAIN delivered
    BY <1>6 DEF WindowEnds, config, store, observers
  <2> QED
    BY <1>1, <2>1 DEF WebhookInv
<1>7. CASE ReloadSource
  <2>1. /\ UNCHANGED <<connector, buffered, stage, body, file, torn, hand, written>>
        /\ pending' = <<>> /\ seen' = {} /\ DOMAIN delivered' = {}
    BY <1>7 DEF ReloadSource, config, observers
  <2>2. <<>> \in Seq(OwnEvents)
    BY EmptySeq
  <2> QED
    BY <1>1, <2>1, <2>2 DEF WebhookInv
<1>8. CASE CrashSource
  BY <1>8, CrashTyped
<1>9. CASE UNCHANGED webhookVars
  <2>1. UNCHANGED <<connector, buffered, stage, body, file, torn, pending, hand, seen, delivered, written>>
    BY <1>9 DEF webhookVars
  <2> QED
    BY <1>1, <2>1 DEF WebhookInv
<1> QED
  BY <1>2, <1>3, <1>4, <1>5, <1>6, <1>7, <1>8, <1>9 DEF WebhookNext

\* What the invariant says, read as the types of the state.
LEMMA WebhookTypesFollow == ASSUME WebhookInv PROVE WebhookTypeOK
<1>1. ToSet(file) \subseteq ToSet(written) \cup {Torn}
  BY InOwnSet DEF WebhookInv
<1>2. ASSUME NEW w \in Worker PROVE {e.key : e \in ToSet(hand[w])} \subseteq Keys
  <2>1. ToSet(hand[w]) \subseteq OwnEvents /\ Keys = {e.key : e \in OwnEvents}
    BY InOwnSet, KeysAreOwn DEF WebhookInv
  <2> QED
    BY <2>1
<1> QED
  BY <1>1, <1>2 DEF WebhookInv, WebhookTypeOK

(***************************************************************************)
(* The types of a webhook source's state are invariant: what is in its file*)
(* is what was written, what workers hold and the deduplicator knows is of *)
(* the source's connector, and without a file nothing is in it.            *)
(***************************************************************************)
THEOREM WebhooksTyped == WebhookSpec => []WebhookTypeOK
BY WebhookTypesFollow, WebhookInvInit, WebhookInvStep, PTL DEF WebhookSpec

-----------------------------------------------------------------------------
(* The edits of a GitHub comment.                                          *)

\* The types of the parts of the state that an edit passes through
EditsTyped ==
  /\ debounce \in [Comment -> 0..MaxText]
  /\ lastEdit \in [Comment -> 0..MaxText]

HookInv == EditsTyped /\ EditsSettle

LEMMA HookInvInit == GithubWebhookInit => HookInv
  BY GithubWebhookAssumption DEF GithubWebhookInit, HookInv, EditsTyped, EditsSettle

LEMMA HandleCommentKeeps ==
  ASSUME HookInv, NEW c \in Comment, NEW v \in 1..MaxText, HandleComment(c, v)
  PROVE  HookInv'
<1> USE GithubWebhookAssumption
<1>1. CASE v = 1
  BY <1>1 DEF HookInv, EditsTyped, EditsSettle, HandleComment
<1>2. CASE v # 1
  <2>1. /\ debounce' = [debounce EXCEPT ![c] = v] /\ lastEdit' = [lastEdit EXCEPT ![c] = v]
        /\ handed' = handed \ {c} /\ pool' = pool
    BY <1>2 DEF HandleComment
  <2>2. EditsTyped'
    BY <2>1 DEF HookInv, EditsTyped
  <2>3. EditsSettle'
    BY <2>1 DEF HookInv, EditsTyped, EditsSettle
  <2> QED BY <2>2, <2>3 DEF HookInv
<1> QED BY <1>1, <1>2

\* What becomes of an edit that waits when it leaves the map, and of one that
\* waits in the buffer when the buffer is emptied
LEMMA EditsMoveOn ==
  ASSUME HookInv, lastEdit' = lastEdit, debounce' \in [Comment -> 0..MaxText], handed \subseteq handed',
         \A c \in Comment :
           /\ debounce'[c] = debounce[c] \/ <<c, debounce[c]>> \in pool' \/ debounce[c] = 0
                                         \/ c \in handed'
           /\ <<c, lastEdit[c]>> \in pool => <<c, lastEdit[c]>> \in pool' \/ c \in handed'
  PROVE  HookInv'
<1>1. ASSUME NEW c \in Comment, lastEdit[c] > 0, c \notin handed'
      PROVE  debounce'[c] = lastEdit[c] \/ <<c, lastEdit[c]>> \in pool'
  <2>1. debounce[c] = lastEdit[c] \/ <<c, lastEdit[c]>> \in pool
    BY <1>1 DEF HookInv, EditsSettle
  <2>2. CASE debounce[c] = lastEdit[c]
    <3>1. debounce[c] # 0
      BY <1>1, <2>2
    <3> QED BY <1>1, <2>2, <3>1
  <2> QED BY <1>1, <2>1, <2>2
<1> QED BY <1>1 DEF HookInv, EditsTyped, EditsSettle

LEMMA HookInvStep == HookInv /\ [GithubWebhookNext]_hookVars => HookInv'
<1> USE GithubWebhookAssumption
<1> SUFFICES ASSUME HookInv, [GithubWebhookNext]_hookVars PROVE HookInv'
  OBVIOUS
<1>1. ASSUME NEW c \in Comment, CommentChanges(c) PROVE HookInv'
  BY <1>1 DEF HookInv, EditsTyped, EditsSettle, CommentChanges
<1>2. ASSUME NEW c \in Comment, EditSettles(c) PROVE HookInv'
  <2>1. debounce' \in [Comment -> 0..MaxText]
    BY <1>2 DEF EditSettles, HookInv, EditsTyped
  <2>2. \A d \in Comment : debounce'[d] = debounce[d] \/ <<d, debounce[d]>> \in pool'
    BY <1>2 DEF EditSettles, HookInv, EditsTyped
  <2> QED BY <1>2, <2>1, <2>2, EditsMoveOn DEF EditSettles
<1>3. ASSUME NEW s \in Snapshots, HandleComment(s[1], s[2]) PROVE HookInv'
  BY <1>3, HandleCommentKeeps DEF Snapshots
<1>4. ASSUME NEW n \in Notice, HandleNotice(n) PROVE HookInv'
  BY <1>4 DEF HookInv, EditsTyped, EditsSettle, HandleNotice
<1>5. CASE PollTakes
  BY <1>5, EditsMoveOn DEF PollTakes, LastEdits, HookInv, EditsTyped
<1>6. ASSUME NEW r \in Pass, EmitMissed(r) PROVE HookInv'
  BY <1>6 DEF HookInv, EditsTyped, EditsSettle, EmitMissed
<1>7. ASSUME NEW r \in Pass, PassFails(r) PROVE HookInv'
  BY <1>7 DEF HookInv, EditsTyped, EditsSettle, PassFails
<1>8. ASSUME NEW r \in Pass, NEW s \in Snapshots, PassMisses(r, s[1], s[2]) PROVE HookInv'
  BY <1>8 DEF HookInv, EditsTyped, EditsSettle, PassMisses
<1>9. CASE ShutdownHook
  <2>1. \A c \in Comment : debounce[c] # 0 => <<c, debounce[c]>> \in Debounced
    BY DEF HookInv, EditsTyped, Debounced, Snapshots
  <2>2. debounce' \in [Comment -> 0..MaxText] /\ \A c \in Comment : debounce'[c] = 0
    BY <1>9 DEF ShutdownHook
  <2>3. \A c \in Comment : debounce[c] = 0 \/ <<c, debounce[c]>> \in pool'
    BY <1>9, <2>1 DEF ShutdownHook
  <2>4. \A c \in Comment : <<c, lastEdit[c]>> \in pool => <<c, lastEdit[c]>> \in pool' \/ c \in handed'
    BY <1>9 DEF ShutdownHook, LastEdits
  <2>5. lastEdit' = lastEdit /\ handed \subseteq handed'
    BY <1>9 DEF ShutdownHook
  <2> QED BY <2>2, <2>3, <2>4, <2>5, EditsMoveOn
<1>10. CASE CrashHook
  <2>1. debounce' \in [Comment -> 0..MaxText]
    BY <1>10 DEF CrashHook
  <2>2. \A c \in Comment : debounce[c] = 0 \/ c \in handed'
    BY <1>10 DEF CrashHook, HookInv, EditsTyped
  <2>3. \A c \in Comment : <<c, lastEdit[c]>> \in pool => <<c, lastEdit[c]>> \in pool' \/ c \in handed'
    BY <1>10 DEF CrashHook, LastEdits
  <2>4. lastEdit' = lastEdit /\ handed \subseteq handed'
    BY <1>10 DEF CrashHook
  <2> QED BY <2>1, <2>2, <2>3, <2>4, EditsMoveOn
<1>11. CASE UNCHANGED hookVars
  BY <1>11 DEF hookVars, HookInv, EditsTyped, EditsSettle
<1> QED BY <1>1, <1>2, <1>3, <1>4, <1>5, <1>6, <1>7, <1>8, <1>9, <1>10, <1>11 DEF GithubWebhookNext

(***************************************************************************)
(* For any comments, versions and passes of reconciliation: the last edit  *)
(* received waits for its timer or in the buffer, or has been handed on    *)
(* (debounceEditedComment, shutdown, reconcileComments).                   *)
(***************************************************************************)
THEOREM HookEditsSettle == GithubWebhookSpec => []EditsSettle
<1>1. HookInv => EditsSettle
  BY DEF HookInv
<1> QED BY <1>1, HookInvInit, HookInvStep, PTL DEF GithubWebhookSpec

-----------------------------------------------------------------------------
(* The cache of seen comments, and the types of the rest.                  *)

HookTyped == GithubWebhookTypeOK /\ marked \in Seq(Comment)

LEMMA InjectiveSeq ==
  ASSUME NEW S, NEW s \in Seq(S)
  PROVE  IsInjective(s) <=> \A i, j \in 1..Len(s) : s[i] = s[j] => i = j
BY LenProperties DEF IsInjective

\* Marks stay distinct: an earlier one of the same comment goes.
LEMMA UnmarkedKeeps ==
  ASSUME HookTyped, NEW c \in Comment
  PROVE  /\ Unmarked(c) \in Seq(Comment) /\ Len(Unmarked(c)) <= Len(marked)
         /\ IsInjective(Unmarked(c))
         /\ \A i \in 1..Len(Unmarked(c)) : Unmarked(c)[i] # c
<1>1. /\ marked \in Seq(Comment) /\ Len(marked) \in Nat /\ DOMAIN marked = 1..Len(marked)
      /\ \A i \in 1..Len(marked) : marked[i] \in Comment
      /\ \A i, j \in 1..Len(marked) : marked[i] = marked[j] => i = j
  BY LenProperties, ElementOfSeq, InjectiveSeq DEF HookTyped, GithubWebhookTypeOK
<1>2. CASE c \notin ToSet(marked)
  <2>1. Unmarked(c) = marked
    BY <1>2 DEF Unmarked
  <2>2. \A i \in 1..Len(marked) : marked[i] # c
    BY <1>1, <1>2 DEF ToSet
  <2> QED
    BY <1>1, <2>1, <2>2, InjectiveSeq
<1>3. CASE c \in ToSet(marked)
  <2> DEFINE place == CHOOSE i \in DOMAIN marked : marked[i] = c
             before == SubSeq(marked, 1, place - 1)
             after == SubSeq(marked, place + 1, Len(marked))
  <2>1. place \in 1..Len(marked) /\ marked[place] = c
    BY <1>1, <1>3 DEF ToSet
  <2>2. Unmarked(c) = before \o after
    BY <1>3 DEF Unmarked, RemoveAt
  <2> HIDE DEF place
  <2>3. /\ before \in Seq(Comment) /\ Len(before) = place - 1
        /\ \A i \in 1..place - 1 : before[i] = marked[i]
    BY <1>1, <2>1, SubSeqProperties
  <2>4. /\ after \in Seq(Comment) /\ Len(after) = Len(marked) - place
        /\ \A i \in 1..Len(marked) - place : after[i] = marked[place + i]
    <3>1. \A i \in place + 1..Len(marked) : marked[i] \in Comment
      BY <1>1, <2>1
    <3>2. /\ after \in Seq(Comment)
          /\ Len(after) = IF place + 1 <= Len(marked) THEN Len(marked) - (place + 1) + 1 ELSE 0
          /\ \A i \in 1..Len(marked) - (place + 1) + 1 : after[i] = marked[place + 1 + i - 1]
      BY <1>1, <2>1, <3>1, SubSeqProperties
    <3> HIDE DEF after
    <3>3. place \in Nat /\ Len(marked) \in Nat /\ place <= Len(marked)
      BY <1>1, <2>1
    <3>4. Len(after) = Len(marked) - place
      <4>1. CASE place + 1 <= Len(marked)
        BY <3>2, <3>3, <4>1
      <4>2. CASE ~(place + 1 <= Len(marked))
        BY <3>2, <3>3, <4>2
      <4> QED
        BY <4>1, <4>2
    <3>5. ASSUME NEW i \in 1..Len(marked) - place PROVE after[i] = marked[place + i]
      <4>1. i \in 1..Len(marked) - (place + 1) + 1 /\ place + 1 + i - 1 = place + i
        BY <3>3
      <4> QED
        BY <3>2, <4>1
    <3> QED
      BY <3>2, <3>4, <3>5
  <2> HIDE DEF before, after
  <2> DEFINE rest == before \o after
  <2>5. /\ rest \in Seq(Comment) /\ Len(rest) = Len(marked) - 1
        /\ \A i \in 1..Len(rest) : rest[i] = IF i < place THEN marked[i] ELSE marked[i + 1]
    <3>1. /\ rest \in Seq(Comment) /\ Len(rest) = Len(before) + Len(after)
          /\ \A i \in 1..Len(before) + Len(after) :
               rest[i] = IF i <= Len(before) THEN before[i] ELSE after[i - Len(before)]
      BY <2>3, <2>4, ConcatProperties
    <3> HIDE DEF rest
    <3>2. Len(rest) = Len(marked) - 1
      BY <1>1, <2>1, <2>3, <2>4, <3>1
    <3>3. ASSUME NEW i \in 1..Len(rest), i < place PROVE rest[i] = marked[i]
      BY <1>1, <2>1, <2>3, <3>1, <3>2, <3>3
    <3>4. ASSUME NEW i \in 1..Len(rest), ~(i < place) PROVE rest[i] = marked[i + 1]
      <4>1. ~(i <= Len(before)) /\ i - Len(before) \in 1..Len(marked) - place
            /\ place + (i - Len(before)) = i + 1 /\ i \in 1..Len(before) + Len(after)
        BY <1>1, <2>1, <2>3, <2>4, <3>2, <3>4
      <4> QED
        BY <2>4, <3>1, <4>1
    <3> QED
      BY <3>1, <3>2, <3>3, <3>4
  <2> HIDE DEF rest
  <2>6. ASSUME NEW i \in 1..Len(rest)
        PROVE  /\ rest[i] # c
               /\ \A j \in 1..Len(rest) : rest[i] = rest[j] => i = j
    BY <1>1, <2>1, <2>5, <2>6
  <2>7. IsInjective(rest)
    BY <2>5, <2>6, InjectiveSeq
  <2> QED
    BY <1>1, <2>2, <2>5, <2>6, <2>7 DEF rest
<1> QED
  BY <1>2, <1>3

LEMMA MarkKeeps ==
  ASSUME HookTyped, NEW c \in Comment
  PROVE  /\ Mark(c) \in Seq(Comment) /\ Len(Mark(c)) <= MaxSeen
         /\ ToSet(Mark(c)) \subseteq Comment /\ IsInjective(Mark(c))
<1> DEFINE rest == Unmarked(c)
           all == Append(rest, c)
<1>1. /\ rest \in Seq(Comment) /\ Len(rest) \in Nat
      /\ \A i \in 1..Len(rest) : rest[i] # c
      /\ \A i, j \in 1..Len(rest) : rest[i] = rest[j] => i = j
  BY UnmarkedKeeps, InjectiveSeq, LenProperties
<1>2. Mark(c) = IF Len(all) <= MaxSeen THEN all ELSE SubSeq(all, Len(all) - PruneTarget + 1, Len(all))
  BY DEF Mark
<1> HIDE DEF rest
<1>3. /\ all \in Seq(Comment) /\ Len(all) = Len(rest) + 1
      /\ \A i \in 1..Len(rest) : all[i] = rest[i]
      /\ all[Len(rest) + 1] = c
  BY <1>1, AppendProperties
<1> HIDE DEF all
<1>4. /\ Len(all) \in Nat /\ \A i \in 1..Len(all) : all[i] \in Comment
      /\ \A i, j \in 1..Len(all) : all[i] = all[j] => i = j
  BY <1>1, <1>3, ElementOfSeq
<1>5. ASSUME NEW s \in Seq(Comment) PROVE ToSet(s) \subseteq Comment
  BY LenProperties, ElementOfSeq DEF ToSet
<1>6. CASE Len(all) <= MaxSeen
  BY <1>2, <1>3, <1>4, <1>5, <1>6, InjectiveSeq
<1>7. CASE ~(Len(all) <= MaxSeen)
  <2> DEFINE first == Len(all) - PruneTarget + 1
             kept == SubSeq(all, first, Len(all))
  <2>1. /\ PruneTarget \in Nat /\ PruneTarget <= MaxSeen /\ MaxSeen \in Nat
        /\ first \in Int /\ first >= 1 /\ first <= Len(all) /\ Len(all) - first + 1 = PruneTarget
    BY <1>4, <1>7, GithubWebhookAssumption
  <2> HIDE DEF first
  <2>2. /\ kept \in Seq(Comment) /\ Len(kept) = PruneTarget
        /\ \A i \in 1..PruneTarget : kept[i] = all[first + i - 1]
    <3>1. \A i \in first..Len(all) : all[i] \in Comment
      BY <1>4, <2>1
    <3> QED
      BY <1>4, <2>1, <3>1, SubSeqProperties
  <2> HIDE DEF kept
  <2>3. ASSUME NEW i \in 1..PruneTarget, NEW j \in 1..PruneTarget, kept[i] = kept[j] PROVE i = j
    <3>1. first + i - 1 \in 1..Len(all) /\ first + j - 1 \in 1..Len(all)
      BY <1>4, <2>1
    <3>2. first + i - 1 = first + j - 1
      BY <1>4, <2>2, <2>3, <3>1
    <3> QED
      BY <2>1, <3>2
  <2>4. IsInjective(kept)
    BY <2>2, <2>3, InjectiveSeq
  <2> QED
    BY <1>2, <1>5, <1>7, <2>1, <2>2, <2>4 DEF first, kept
<1> QED
  BY <1>6, <1>7

LEMMA HookTypedInit == GithubWebhookInit => HookTyped
<1> SUFFICES ASSUME GithubWebhookInit PROVE HookTyped
  OBVIOUS
<1>1. marked = <<>> /\ <<>> \in Seq(Comment) /\ Len(<<>>) = 0 /\ ToSet(<<>>) = {}
  BY EmptySeq DEF GithubWebhookInit, ToSet
<1>2. IsInjective(<<>>)
  BY DEF IsInjective
<1> QED
  BY <1>1, <1>2, GithubWebhookAssumption DEF GithubWebhookInit, HookTyped, GithubWebhookTypeOK, None

LEMMA HookTypedStep == HookTyped /\ [GithubWebhookNext]_hookVars => HookTyped'
<1> SUFFICES ASSUME HookTyped, [GithubWebhookNext]_hookVars PROVE HookTyped'
  OBVIOUS
<1> USE GithubWebhookAssumption
<1>1. /\ MaxText \in Nat /\ text \in [Comment -> 0..MaxText] /\ debounce \in [Comment -> 0..MaxText]
      /\ filter \in Filters /\ onDisk \in BOOLEAN
      /\ pool \subseteq Snapshots \cup {<<"notice">>} /\ marked \in Seq(Comment)
      /\ ToSet(marked) \subseteq Comment /\ IsInjective(marked) /\ Len(marked) <= MaxSeen
      /\ fetching \in [Pass -> Snapshots \cup {None}]
      /\ lastEdit \in [Comment -> 0..MaxText] /\ handed \subseteq Comment
  BY DEF HookTyped, GithubWebhookTypeOK
<1>2. <<>> \in Seq(Comment) /\ ToSet(<<>>) \subseteq Comment /\ IsInjective(<<>>) /\ Len(<<>>) <= MaxSeen
  BY EmptySeq DEF ToSet, IsInjective
<1>3. ASSUME NEW c \in Comment, CommentChanges(c) PROVE HookTyped'
  <2>1. text[c] + 1 \in 0..MaxText
    BY <1>1, <1>3 DEF CommentChanges
  <2> QED
    BY <1>1, <1>3, <2>1 DEF CommentChanges, HookTyped, GithubWebhookTypeOK
<1>4. ASSUME NEW c \in Comment, EditSettles(c) PROVE HookTyped'
  <2>1. <<c, debounce[c]>> \in Snapshots
    BY <1>1, <1>4 DEF EditSettles, Snapshots
  <2>2. /\ debounce' = [debounce EXCEPT ![c] = 0] /\ pool' = pool \cup {<<c, debounce[c]>>}
        /\ UNCHANGED <<filter, onDisk, text, marked, fetching, lastEdit, handed>>
    BY <1>4 DEF EditSettles, github
  <2>3. debounce' \in [Comment -> 0..MaxText]
    <3>1. debounce \in [Comment -> 0..MaxText] /\ 0 \in 0..MaxText
      BY <1>1
    <3> QED
      BY <2>2, <3>1
  <2>4. pool' \subseteq Snapshots \cup {<<"notice">>}
    <3>1. pool \subseteq Snapshots \cup {<<"notice">>}
      BY <1>1
    <3> QED
      BY <2>1, <2>2, <3>1
  <2> QED
    BY <1>1, <2>2, <2>3, <2>4 DEF HookTyped, GithubWebhookTypeOK
<1>5. ASSUME NEW s \in Snapshots, HandleComment(s[1], s[2]) PROVE HookTyped'
  <2>1. s[1] \in Comment /\ s[2] \in 1..MaxText /\ s[2] \in 0..MaxText /\ <<s[1], s[2]>> \in Snapshots
    BY <1>1 DEF Snapshots
  <2>2. /\ Mark(s[1]) \in Seq(Comment) /\ Len(Mark(s[1])) <= MaxSeen
        /\ ToSet(Mark(s[1])) \subseteq Comment /\ IsInjective(Mark(s[1]))
    BY <2>1, MarkKeeps
  <2>3. UNCHANGED <<filter, onDisk, text, fetching>> /\ marked' = Mark(s[1])
    BY <1>5 DEF HandleComment, github
  <2>4. /\ pool' \subseteq Snapshots \cup {<<"notice">>}
        /\ debounce' \in [Comment -> 0..MaxText] /\ lastEdit' \in [Comment -> 0..MaxText]
        /\ handed' \subseteq Comment
    BY <1>1, <1>5, <2>1 DEF HandleComment
  <2> QED
    BY <1>1, <2>2, <2>3, <2>4 DEF HookTyped, GithubWebhookTypeOK
<1>6. ASSUME NEW n \in Notice, HandleNotice(n) PROVE HookTyped'
  BY <1>1, <1>6 DEF HandleNotice, NoticeEvents, github, HookTyped, GithubWebhookTypeOK
<1>7. CASE PollTakes
  BY <1>1, <1>7 DEF PollTakes, LastEdits, github, HookTyped, GithubWebhookTypeOK
<1>8. ASSUME NEW r \in Pass, EmitMissed(r) PROVE HookTyped'
  <2>1. fetching[r] \in Snapshots /\ fetching[r][1] \in Comment
    BY <1>1, <1>8 DEF EmitMissed, Snapshots
  <2>2. /\ Mark(fetching[r][1]) \in Seq(Comment) /\ Len(Mark(fetching[r][1])) <= MaxSeen
        /\ ToSet(Mark(fetching[r][1])) \subseteq Comment /\ IsInjective(Mark(fetching[r][1]))
    BY <2>1, MarkKeeps
  <2>3. /\ marked' = Mark(fetching[r][1]) /\ pool' = pool \cup {fetching[r]}
        /\ fetching' = [fetching EXCEPT ![r] = None]
        /\ UNCHANGED <<filter, onDisk, text, debounce, lastEdit, handed>>
    BY <1>8 DEF EmitMissed, github
  <2> QED
    BY <1>1, <2>1, <2>2, <2>3 DEF HookTyped, GithubWebhookTypeOK
<1>9. ASSUME NEW r \in Pass, PassFails(r) PROVE HookTyped'
  BY <1>1, <1>9 DEF PassFails, github, HookTyped, GithubWebhookTypeOK
<1>10. ASSUME NEW r \in Pass, NEW s \in Snapshots, PassMisses(r, s[1], s[2]) PROVE HookTyped'
  <2>1. <<s[1], s[2]>> \in Snapshots
    BY DEF Snapshots
  <2>2. /\ fetching' = [fetching EXCEPT ![r] = <<s[1], s[2]>>]
        /\ UNCHANGED <<filter, onDisk, text, debounce, pool, marked, lastEdit, handed>>
    BY <1>10 DEF PassMisses, github
  <2>3. fetching' \in [Pass -> Snapshots \cup {None}]
    <3>1. fetching \in [Pass -> Snapshots \cup {None}] /\ <<s[1], s[2]>> \in Snapshots \cup {None}
      BY <1>1, <2>1
    <3> QED
      BY <2>2, <3>1
  <2> QED
    BY <1>1, <2>2, <2>3 DEF HookTyped, GithubWebhookTypeOK
<1>11. CASE ShutdownHook \/ CrashHook
  <2>1. /\ debounce' = [c \in Comment |-> 0] /\ marked' = <<>>
        /\ pool' \subseteq pool \cup Debounced
        /\ handed' \subseteq handed \cup Comment
        /\ fetching' = fetching \/ fetching' = [r \in Pass |-> None]
        /\ UNCHANGED <<filter, onDisk, text, lastEdit>>
    BY <1>11 DEF ShutdownHook, CrashHook, LastEdits, github
  <2>2. debounce' \in [Comment -> 0..MaxText]
    <3>1. 0 \in 0..MaxText
      BY <1>1
    <3> QED
      BY <2>1, <3>1
  <2>3. pool' \subseteq Snapshots \cup {<<"notice">>} /\ handed' \subseteq Comment
    BY <1>1, <2>1 DEF Debounced
  <2>4. fetching' \in [Pass -> Snapshots \cup {None}]
    BY <1>1, <2>1
  <2> QED
    BY <1>1, <1>2, <2>1, <2>2, <2>3, <2>4 DEF HookTyped, GithubWebhookTypeOK
<1>12. CASE UNCHANGED hookVars
  BY <1>1, <1>12 DEF hookVars, HookTyped, GithubWebhookTypeOK
<1> QED
  BY <1>3, <1>4, <1>5, <1>6, <1>7, <1>8, <1>9, <1>10, <1>11, <1>12 DEF GithubWebhookNext

(***************************************************************************)
(* The types of the github-webhook source's state are invariant; the cache *)
(* of seen comments marks each at most once and never outgrows its limit   *)
(* (markCommentSeen, pruneSeenCache).                                      *)
(***************************************************************************)
THEOREM HooksTyped == GithubWebhookSpec => []GithubWebhookTypeOK
<1>1. HookTyped => GithubWebhookTypeOK
  BY DEF HookTyped
<1> QED
  BY <1>1, HookTypedInit, HookTypedStep, PTL DEF GithubWebhookSpec

-----------------------------------------------------------------------------
(* The sessions of the agent-ctl source.                                   *)

AgentInv == DOMAIN listed = Poll /\ AgentTypeOK /\ NoGhostSession

LEMMA AgentInvInit == AgentInit => AgentInv
  BY AgentAssumption DEF AgentInit, AgentInv, AgentTypeOK, NoGhostSession, Nobody, Listing, NoReport

\* diffState() reports a session it begins to track, and one it stops tracking
\* unless its end was reported before; what it reports as alive is alive.
LEMMA TransitionTells ==
  ASSUME NEW former \in Alive \cup Over \cup {"absent"},
         NEW new \in Alive \cup Over \cup {"absent"}
  PROVE  /\ Transition(former, new) \in Phases \cup {NoReport}
         /\ former = "absent" /\ new # "absent" => Transition(former, new) # NoReport
         /\ Transition(former, new) \in {"started", "active"} => new \in Alive
         /\ former \in Alive /\ new \notin Alive => Transition(former, new) # NoReport
  BY DEF Transition, Alive, Over, Phases, TerminalPhases, NoReport

LEMMA DiffKeeps ==
  ASSUME AgentInv, NEW q \in Poll, Diff(q)
  PROVE  AgentInv'
<1>1. CASE Agent = {}
  BY <1>1 DEF AgentInv, AgentTypeOK, NoGhostSession, Diff, Listing, NotListed
<1>2. CASE Agent # {}
  <2>1. listed[q] \in Listing
    BY DEF AgentInv, AgentTypeOK, Diff
  <2>2. previous \in Listing /\ previous' = listed[q]
    BY DEF AgentInv, AgentTypeOK, Diff
  <2>3. ASSUME NEW s \in Agent
        PROVE  /\ phase'[s] \in Phases \cup {NoReport}
               /\ previous'[s] # "absent" => phase'[s] # NoReport
               /\ phase'[s] \in {"started", "active"} => previous'[s] \in Alive \/ s \in forgotten'
    <3>1. previous[s] \in Alive \cup Over \cup {"absent"} /\ listed[q][s] \in Alive \cup Over \cup {"absent"}
      BY <2>1, <2>2 DEF Listing
    <3>2. phase'[s] = IF s \in Reported(q) THEN Transition(previous[s], listed[q][s]) ELSE phase[s]
      BY DEF Diff
    <3>3. CASE s \in Reported(q)
      BY <2>2, <3>1, <3>2, <3>3, TransitionTells DEF Reported
    <3>4. CASE s \notin Reported(q)
      <4>1. Transition(previous[s], listed[q][s]) = NoReport /\ phase'[s] = phase[s]
        BY <3>2, <3>4 DEF Reported
      <4>2. s \in forgotten => s \in forgotten'
        BY <3>4 DEF Diff
      <4> QED BY <2>2, <3>1, <4>1, <4>2, TransitionTells DEF AgentInv, AgentTypeOK, NoGhostSession
    <3> QED BY <3>3, <3>4
  <2>4. AgentTypeOK'
    BY <2>1, <2>2, <2>3 DEF AgentInv, AgentTypeOK, Diff
  <2> QED BY <2>3, <2>4 DEF AgentInv, NoGhostSession, Diff
<1> QED BY <1>1, <1>2

LEMMA AgentInvStep == AgentInv /\ [AgentNext]_agentVars => AgentInv'
<1> SUFFICES ASSUME AgentInv, [AgentNext]_agentVars PROVE AgentInv'
  OBVIOUS
<1>1. ASSUME NEW s \in Agent, SessionMoves(s) PROVE AgentInv'
  BY <1>1 DEF AgentInv, AgentTypeOK, NoGhostSession, SessionMoves, Listing
<1>2. ASSUME NEW q \in Poll, ListSessions(q) PROVE AgentInv'
  BY <1>2, AgentAssumption DEF AgentInv, AgentTypeOK, NoGhostSession, ListSessions
<1>3. ASSUME NEW q \in Poll, ListFails(q) PROVE AgentInv'
  <2>1. Nobody \in Listing
    BY DEF Nobody, Listing
  <2> QED BY <1>3, <2>1 DEF AgentInv, AgentTypeOK, NoGhostSession, ListFails
<1>4. ASSUME NEW q \in Poll, Diff(q) PROVE AgentInv'
  BY <1>4, DiffKeeps
<1>5. CASE Forget
  <2>1. Nobody \in Listing /\ \A s \in Agent : Nobody[s] = "absent"
    BY DEF Nobody, Listing
  <2>2. AgentTypeOK'
    BY <1>5, <2>1 DEF AgentInv, AgentTypeOK, Forget
  <2>3. NoGhostSession'
    BY <1>5 DEF AgentInv, NoGhostSession, Forget, Alive
  <2> QED BY <1>5, <2>2, <2>3 DEF AgentInv, Forget
<1>6. CASE UNCHANGED agentVars
  BY <1>6 DEF agentVars, AgentInv, AgentTypeOK, NoGhostSession
<1> QED BY <1>1, <1>2, <1>3, <1>4, <1>5, <1>6 DEF AgentNext

(***************************************************************************)
(* No session is forgotten alive: whatever agent-ctl answers and however   *)
(* the polls overlap, one last reported alive is alive in previousState,   *)
(* unless a reload has cleared that state (poll, diffState, listSessions). *)
(***************************************************************************)
THEOREM AgentsLeaveNoGhost == AgentSpec => []NoGhostSession
<1>1. AgentInv => NoGhostSession
  BY DEF AgentInv
<1> QED BY <1>1, AgentInvInit, AgentInvStep, PTL DEF AgentSpec

(***************************************************************************)
(* The types of the agent-ctl source's state are invariant, and a session  *)
(* that is tracked has been reported.                                      *)
(***************************************************************************)
THEOREM AgentsTyped == AgentSpec => []AgentTypeOK
<1>1. AgentInv => AgentTypeOK
  BY DEF AgentInv
<1> QED BY <1>1, AgentInvInit, AgentInvStep, PTL DEF AgentSpec

-----------------------------------------------------------------------------
(* The actors.                                                             *)

(***************************************************************************)
(* What a delivery has set off by the time it is at a stage: nothing before*)
(* the first request, at most one session, and that one unheard of, before *)
(* the request that decides the answer.                                    *)
(***************************************************************************)
StagesTold ==
  \A d \in Delivery :
    /\ deed[d] # "over" => answer[d] = NoAnswer
    /\ deed[d] \in {"new", "waiting", "callback"} => effects[d] = 0 /\ ~unheard[d]
    /\ deed[d] = "normal" => effects[d] = IF unheard[d] THEN 1 ELSE 0

ActorsInv == ActorsTypeOK /\ StagesTold /\ AnswersAreTrue

LEMMA ActorsInvInit == ActorsInit => ActorsInv
  BY DEF ActorsInit, ActorsInv, ActorsTypeOK, StagesTold, AnswersAreTrue, NoAnswer, Statuses

\* A delivery that only moves to another stage, having done nothing
LEMMA MovesKeep ==
  ASSUME ActorsInv, NEW d \in Delivery, deed[d] = "new",
         NEW next \in {"normal", "callback", "waiting"},
         Goes(d, next), UNCHANGED <<job, answer, effects, unheard>>
  PROVE  ActorsInv'
  BY DEF ActorsInv, ActorsTypeOK, StagesTold, AnswersAreTrue, Goes

\* A delivery that is answered without a request: nothing has been set off.
LEMMA RefusalsKeep ==
  ASSUME ActorsInv, NEW d \in Delivery, deed[d] \in {"new", "waiting"},
         NEW status \in {"skipped", "rejected"},
         Answers(d, status), UNCHANGED <<job, effects, unheard>>
  PROVE  ActorsInv'
  BY DEF ActorsInv, ActorsTypeOK, StagesTold, AnswersAreTrue, Answers, Goes, Statuses, NoAnswer

\* A delivery whose answer is that of its last request
LEMMA RequestsKeep ==
  ASSUME ActorsInv, NEW d \in Delivery, deed[d] \in {"new", "waiting", "normal"},
         NEW o \in Outcomes, Does(d, o), Answers(d, o.status), UNCHANGED job
  PROVE  ActorsInv'
<1>1. /\ o.did \in {0, 1} /\ o.status \in {"delivered", "error", "rejected"}
      /\ o.status = "delivered" => o.did = 1
      /\ o.status = "rejected" => o.did = 0
  BY DEF Outcomes
<1>2. ActorsTypeOK'
  BY <1>1 DEF ActorsInv, ActorsTypeOK, StagesTold, Does, Answers, Goes, Statuses
<1>3. StagesTold'
  BY <1>1 DEF ActorsInv, ActorsTypeOK, StagesTold, Does, Answers, Goes
<1>4. AnswersAreTrue'
  BY <1>1 DEF ActorsInv, ActorsTypeOK, StagesTold, AnswersAreTrue, Does, Answers, Goes
<1> QED BY <1>2, <1>3, <1>4 DEF ActorsInv

\* The callback session: answered if it is delivered to, else the next one is.
LEMMA PostsToCallbackKeeps ==
  ASSUME ActorsInv, NEW d \in Delivery, PostsToCallback(d)
  PROVE  ActorsInv'
<1>1. PICK o \in Outcomes : Does(d, o) /\ FallsBack(d, o)
  BY DEF PostsToCallback
<1>2. /\ o.did \in {0, 1} /\ (o.status = "delivered" => o.did = 1)
      /\ deed[d] = "callback" /\ UNCHANGED job
  BY DEF Outcomes, PostsToCallback
<1>3. effects[d] = 0 /\ ~unheard[d] /\ answer[d] = NoAnswer
  BY <1>2 DEF ActorsInv, StagesTold
<1>4. CASE o.status = "delivered"
  <2>1. Does(d, o) /\ Answers(d, "delivered")
    BY <1>1, <1>4 DEF FallsBack
  <2> QED BY <1>2, <1>3, <1>4, <2>1 DEF ActorsInv, ActorsTypeOK, StagesTold, AnswersAreTrue,
                                        Does, Answers, Goes, Statuses, NoAnswer
<1>5. CASE o.status # "delivered"
  <2>1. Does(d, o) /\ Goes(d, "normal") /\ UNCHANGED answer
    BY <1>1, <1>5 DEF FallsBack
  <2>2. /\ effects' = [effects EXCEPT ![d] = o.did]
        /\ \E lost \in BOOLEAN : /\ unheard' = [unheard EXCEPT ![d] = lost]
                                 /\ lost <=> o.did = 1
    <3>1. effects' = [effects EXCEPT ![d] = o.did]
      <4>1. effects[d] + o.did = o.did
        BY <1>2, <1>3
      <4> QED BY <2>1, <4>1 DEF Does
    <3>2. unheard' = [unheard EXCEPT ![d] = unheard[d] \/ (o.did = 1 /\ o.status # "delivered")]
      BY <2>1 DEF Does
    <3>3. (unheard[d] \/ (o.did = 1 /\ o.status # "delivered")) <=> o.did = 1
      BY <1>3, <1>5
    <3> QED BY <3>1, <3>2, <3>3
  <2>3. ActorsTypeOK'
    BY <1>2, <2>1, <2>2 DEF ActorsInv, ActorsTypeOK, Goes
  <2>4. StagesTold'
    BY <1>2, <1>3, <2>1, <2>2 DEF ActorsInv, ActorsTypeOK, StagesTold, Goes
  <2>5. AnswersAreTrue'
    BY <1>2, <1>3, <2>1, <2>2 DEF ActorsInv, ActorsTypeOK, AnswersAreTrue, NoAnswer
  <2> QED BY <2>3, <2>4, <2>5 DEF ActorsInv
<1> QED BY <1>4, <1>5

LEMMA ActorsInvStep == ActorsInv /\ [ActorsNext]_actorVars => ActorsInv'
<1> SUFFICES ASSUME ActorsInv, [ActorsNext]_actorVars PROVE ActorsInv'
  OBVIOUS
<1>1. ASSUME NEW d \in Delivery, Skips(d) PROVE ActorsInv'
  BY <1>1, RefusalsKeep DEF Skips
<1>2. ASSUME NEW d \in Delivery, ChoosesSession(d) PROVE ActorsInv'
  BY <1>2, MovesKeep DEF ChoosesSession
<1>3. ASSUME NEW d \in Delivery, PostsToCallback(d) PROVE ActorsInv'
  BY <1>3, PostsToCallbackKeeps
<1>4. ASSUME NEW d \in Delivery, PostsToSession(d) PROVE ActorsInv'
  BY <1>4, RequestsKeep DEF PostsToSession
<1>5. ASSUME NEW d \in Delivery, PostsToUrl(d) PROVE ActorsInv'
  BY <1>5, RequestsKeep DEF PostsToUrl
<1>6. ASSUME NEW d \in Delivery, RejectsAction(d) PROVE ActorsInv'
  BY <1>6, RefusalsKeep DEF RejectsAction
<1>7. ASSUME NEW d \in Delivery, Delays(d) PROVE ActorsInv'
  BY <1>7, MovesKeep DEF Delays
<1>8. ASSUME NEW d \in Delivery, Executes(d) PROVE ActorsInv'
  <2>1. deed[d] \in {"new", "waiting"}
    BY <1>8 DEF Executes
  <2>2. CASE job[d].unnamed
    BY <1>8, <2>1, <2>2, RefusalsKeep DEF Executes
  <2>3. CASE ~job[d].unnamed
    BY <1>8, <2>1, <2>3, RequestsKeep DEF Executes, Executions
  <2> QED BY <2>2, <2>3
<1>9. CASE UNCHANGED actorVars
  BY <1>9 DEF actorVars, ActorsInv, ActorsTypeOK, StagesTold, AnswersAreTrue
<1> QED BY <1>1, <1>2, <1>3, <1>4, <1>5, <1>6, <1>7, <1>8, <1>9 DEF ActorsNext

(***************************************************************************)
(* However many deliveries are under way, an actor answers what it did:    *)
(* with one session or command set off for every "delivered", or two when  *)
(* the answer to the first was lost, and none for what nobody retries      *)
(* (deliver, postToAgent).                                                 *)
(***************************************************************************)
THEOREM ActorsAnswerTruly == ActorsSpec => []AnswersAreTrue
<1>1. ActorsInv => AnswersAreTrue
  BY DEF ActorsInv
<1> QED BY <1>1, ActorsInvInit, ActorsInvStep, PTL DEF ActorsSpec

(***************************************************************************)
(* The types of the actor connectors' state are invariant.                 *)
(***************************************************************************)
THEOREM ActorsTyped == ActorsSpec => []ActorsTypeOK
<1>1. ActorsInv => ActorsTypeOK
  BY DEF ActorsInv
<1> QED BY <1>1, ActorsInvInit, ActorsInvStep, PTL DEF ActorsSpec

-----------------------------------------------------------------------------
(* The edges together: each component keeps its own invariant, and none    *)
(* touches the state of another.                                           *)

EdgesInv ==
  /\ DaemonInv /\ WebhookInv /\ AgentInv /\ HookTyped /\ GithubInv /\ GithubRest
  /\ LinearInv /\ GogInv /\ CronInv /\ ActorsInv

LEMMA EdgesInvInit == EdgesInit => EdgesInv
BY DaemonInvInit, WebhookInvInit, AgentInvInit, HookTypedInit, GithubInvInit, GithubRestInit,
   LinearInvInit, GogInvInit, CronInvInit, ActorsInvInit DEF EdgesInit, EdgesInv

LEMMA EdgesInvStep == EdgesInv /\ [EdgesNext]_edgesVars => EdgesInv'
<1> SUFFICES ASSUME EdgesInv, [EdgesNext]_edgesVars PROVE EdgesInv'
  OBVIOUS
<1>1. /\ [DaemonNext]_daemonVars /\ [WebhookNext]_webhookVars /\ [AgentNext]_agentVars
      /\ [GithubWebhookNext]_hookVars /\ [GithubSourceNext]_githubVars /\ [LinearNext]_linearVars
      /\ [GogNext]_gogVars /\ [CronNext]_cronVars /\ [ActorsNext]_actorVars
  BY DEF EdgesNext, edgesVars, DaemonStep, WebhookStep, AgentStep, GithubWebhookStep, GithubStep,
         LinearStep, GogStep, CronStep, ActorStep, Alone
<1> QED
  BY <1>1, DaemonInvStep, WebhookInvStep, AgentInvStep, HookTypedStep, GithubInvStep, GithubRestStep,
     LinearInvStep, GogInvStep, CronInvStep, ActorsInvStep DEF EdgesInv

\* Every component of the edges keeps to its types and bounds, for any number of
\* commands, requests, sessions, comments, feeds, issues, mails and deliveries: no
\* checkpoint is ahead of its time, no cache outgrows its limit, and nobody holds an
\* event that is of another source.
THEOREM EdgesTypesKept == EdgesSpec => []EdgesTypeOK
<1>1. EdgesInv => EdgesTypeOK
  BY WebhookTypesFollow, GithubTypesFollow, CronTypesFollow
  DEF EdgesInv, EdgesTypeOK, DaemonInv, AgentInv, HookTyped, LinearInv, GogInv, ActorsInv
<1> QED
  BY <1>1, EdgesInvInit, EdgesInvStep, PTL DEF EdgesSpec
=============================================================================
