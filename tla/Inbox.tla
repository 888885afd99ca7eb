-------------------------------- MODULE Inbox --------------------------------
(***************************************************************************)
(* The session inbox of the OrgLoop runtime.                               *)
(*   packages/core/src/inbox.ts        InboxManager: notify, suppress, drain*)
(*   packages/core/src/inbox-store.ts  InMemoryInboxStore: entries and locks*)
(*   packages/core/src/runtime.ts      deliverInboxNotification            *)
(*                                                                         *)
(* The runtime is one Node.js thread, so a call runs undisturbed from one  *)
(* await to the next and every action below is one such stretch.  A call   *)
(* of enqueue is made by an activation of processEvent (Sender), a call of *)
(* drain by an HTTP request of the session's agent or of an operator       *)
(* (Reader).  An entry is its number: numbers are handed out by nextId in  *)
(* the order the entries are pushed, so a queue is the set of its numbers  *)
(* and the oldest entry is the smallest one.                               *)
(***************************************************************************)
EXTENDS Naturals, FiniteSets

CONSTANTS Key,        \* session keys
          Sender,     \* concurrent enqueue calls
          Reader,     \* concurrent drain calls
          Limit,      \* batch sizes a drain may ask for; 0 is every size the
                      \* store cannot serve (zero, negative, not a number)
          MaxEntry,   \* bound on the entries of a behaviour
          NoCall      \* "no call": a resolved promise

ASSUME InboxAssumption == /\ Key # {}
                          /\ MaxEntry \in Nat
                          /\ Limit \subseteq Nat
                          /\ Sender \cap Reader = {}
                          /\ NoCall \notin Sender \cup Reader

Call == Sender \cup Reader

VARIABLES
    nextId,    \* number of the next entry
    queue,     \* queue[k]: entries stored for k, expired ones included
    expired,   \* entries whose time to live has run out
    flag,      \* notificationPending
    lock,      \* lock[k]: the last drain call queued for k, if unresolved
    prev,      \* prev[c]: the drain call that c waits for
    pc,        \* where a call is suspended
    key,       \* the session key of a call
    limit,     \* the batch size of a drain call
    found,     \* did the count a call awaits see a live entry?
    \* What the outside world has seen; the code keeps none of it.
    told,      \* told[k]: the agent has been woken and has not drained since
    given,     \* given[k]: entries handed to the agent
    wiped,     \* entries discarded by close()
    failed,    \* failed[k]: the last notification of k threw
    refused,   \* refused[k]: the last notification of k was turned down
    closed     \* close() has run

callVars  == <<pc, key, limit, found>>
lockVars  == <<lock, prev>>
storeVars == <<nextId, queue, expired, lockVars>>
wakeVars  == <<flag, told, failed, refused>>
vars == <<nextId, queue, expired, lockVars, wakeVars, callVars,
          given, wiped, closed>>

------------------------------------------------------------------------------
(* Helpers                                                                 *)

\* The entries of k that pending() counts and doDrain() may hand out.
Live(k) == queue[k] \ expired

\* Fault: the newest entries first (a pop where the code has splice(0, n)).
BatchNewestFirst(S, n) == {i \in S : Cardinality({j \in S : j > i}) < n}

\* splice(0, n): the n oldest entries.
Batch(S, n) == {i \in S : Cardinality({j \in S : j < i}) < n}

NoKey == CHOOSE k \in Key : TRUE    \* the key of a call that is not running

Goto(c, from, to) == /\ pc[c] = from
                     /\ pc' = [pc EXCEPT ![c] = to]

Return(c, from) == /\ Goto(c, from, "idle")
                   /\ key' = [key EXCEPT ![c] = NoKey]
                   /\ found' = [found EXCEPT ![c] = FALSE]
                   /\ UNCHANGED limit

\* Await store.pending(k): it counts at once, the call resumes later.
AwaitCount(c, from, to) ==
    /\ Goto(c, from, to)
    /\ found' = [found EXCEPT ![c] = Live(key[c]) # {}]
    /\ UNCHANGED <<key, limit>>

\* Fault: an exception between taking the lock and resolve() keeps the lock.
ReleaseForgotten(c) == UNCHANGED lockVars

\* resolve() in the finally block of drain(): whoever awaits c may go on.
Release(c) ==
    /\ prev' = [d \in Reader |-> IF prev[d] = c THEN NoCall ELSE prev[d]]
    /\ lock' = [k \in Key |-> IF lock[k] = c THEN NoCall ELSE lock[k]]

------------------------------------------------------------------------------
Init ==
    /\ nextId = 1
    /\ queue = [k \in Key |-> {}]
    /\ expired = {}
    /\ flag = [k \in Key |-> FALSE]
    /\ lock = [k \in Key |-> NoCall]
    /\ prev = [c \in Reader |-> NoCall]
    /\ pc = [c \in Call |-> "idle"]
    /\ key = [c \in Call |-> NoKey]
    /\ limit = [c \in Reader |-> 0]
    /\ found = [c \in Call |-> FALSE]
    /\ told = [k \in Key |-> FALSE]
    /\ given = [k \in Key |-> {}]
    /\ wiped = {}
    /\ failed = [k \in Key |-> FALSE]
    /\ refused = [k \in Key |-> FALSE]
    /\ closed = FALSE

------------------------------------------------------------------------------
(* enqueue(): push the entry, then notify unless a notification is pending *)

\* Fault: the counter is incremented before it is used.
IncrementedId == nextId + 1

\* The number that an entry gets.
EntryId == nextId

Enqueue(c, k) ==
    /\ nextId <= MaxEntry
    /\ Goto(c, "idle", "stored")
    /\ key' = [key EXCEPT ![c] = k]
    /\ queue' = [queue EXCEPT ![k] = @ \cup {EntryId}]
    /\ nextId' = nextId + 1
    /\ UNCHANGED <<limit, found, expired, lockVars, wakeVars, given, wiped, closed>>

CheckFlag(c) ==
    /\ IF flag[key[c]] THEN Return(c, "stored")
                       ELSE AwaitCount(c, "stored", "counting")
    /\ UNCHANGED <<storeVars, wakeVars, given, wiped, closed>>

------------------------------------------------------------------------------
(* sendNotification(), entered from enqueue() and from drain()             *)

Notify(c) ==
    /\ IF found[c]
       THEN /\ Goto(c, "counting", "notifying")
            /\ flag' = [flag EXCEPT ![key[c]] = TRUE]
            /\ failed' = [failed EXCEPT ![key[c]] = FALSE]
            /\ refused' = [refused EXCEPT ![key[c]] = FALSE]
            /\ UNCHANGED <<key, limit, found>>
       ELSE /\ Return(c, "counting")
            /\ UNCHANGED <<flag, failed, refused>>
    /\ UNCHANGED <<storeVars, told, given, wiped, closed>>

\* The actor's connector gets the wake-up through to the agent.
Reach(c) ==
    /\ Goto(c, "notifying", "reached")
    /\ told' = [told EXCEPT ![key[c]] = TRUE]
    /\ UNCHANGED <<storeVars, key, limit, found, flag, failed, refused,
                   given, wiped, closed>>

NotifySucceeds(c) ==
    /\ Return(c, "reached")
    /\ UNCHANGED <<storeVars, wakeVars, given, wiped, closed>>

\* deliver() resolves with the status "rejected", "error" or "skipped", which
\* deliverInboxNotification does not look at.
NotifyRefused(c) ==
    /\ Return(c, "notifying")
    /\ refused' = [refused EXCEPT ![key[c]] = TRUE]
    /\ UNCHANGED <<storeVars, flag, told, failed, given, wiped, closed>>

\* deliver() throws, before or after the wake-up got through.
NotifyThrows(c) ==
    /\ \/ Return(c, "notifying")
       \/ Return(c, "reached")
    /\ flag' = [flag EXCEPT ![key[c]] = FALSE]
    /\ failed' = [failed EXCEPT ![key[c]] = TRUE]
    /\ UNCHANGED <<storeVars, told, refused, given, wiped, closed>>

------------------------------------------------------------------------------
(* drain(): queue behind the key's lock, cut a batch, clear the flag, and  *)
(* notify again for what is left or came in meanwhile                      *)

DrainCall(c, k, n) ==
    /\ Goto(c, "idle", "waiting")
    /\ key' = [key EXCEPT ![c] = k]
    /\ limit' = [limit EXCEPT ![c] = n]
    /\ prev' = [prev EXCEPT ![c] = lock[k]]
    /\ lock' = [lock EXCEPT ![k] = c]
    /\ told' = [told EXCEPT ![k] = FALSE]
    /\ UNCHANGED <<nextId, queue, expired, found, flag, failed, refused,
                   given, wiped, closed>>

DoDrain(c) ==
    LET k == key[c]
        batch == Batch(Live(k), limit[c])
    IN /\ prev[c] = NoCall
       /\ limit[c] > 0 \/ Live(k) = {}
       /\ Goto(c, "waiting", "drained")
       /\ limit' = [limit EXCEPT ![c] = 0]
       /\ queue' = [queue EXCEPT ![k] = Live(k) \ batch]
       /\ given' = [given EXCEPT ![k] = @ \cup batch]
       /\ Release(c)
       /\ UNCHANGED <<nextId, expired, wakeVars, key, found, wiped, closed>>

\* An empty batch has no last element to take the continuation from: doDrain
\* throws, and the agent knows that it has not emptied its inbox.
DoDrainThrows(c) ==
    LET k == key[c]
    IN /\ prev[c] = NoCall
       /\ limit[c] = 0
       /\ Live(k) # {}
       /\ Return(c, "waiting")
       /\ queue' = [queue EXCEPT ![k] = Live(k)]
       /\ told' = [told EXCEPT ![k] = TRUE]
       /\ Release(c)
       /\ UNCHANGED <<nextId, expired, flag, failed, refused, given, wiped, closed>>

\* Fault: the flag is left alone when the batch comes back.
ClearFlagSkipped(c) ==
    /\ AwaitCount(c, "drained", "recounting")
    /\ UNCHANGED <<flag, failed, refused>>
    /\ UNCHANGED <<storeVars, told, given, wiped, closed>>

ClearFlag(c) ==
    /\ AwaitCount(c, "drained", "recounting")
    /\ flag' = [flag EXCEPT ![key[c]] = FALSE]
    /\ failed' = [failed EXCEPT ![key[c]] = FALSE]
    /\ refused' = [refused EXCEPT ![key[c]] = FALSE]
    /\ UNCHANGED <<storeVars, told, given, wiped, closed>>

\* Fault: a drain trusts the enqueues it raced with to notify.
RecountForgotten(c) ==
    /\ Return(c, "recounting")
    /\ UNCHANGED <<storeVars, wakeVars, given, wiped, closed>>

Recount(c) ==
    /\ IF found[c] THEN AwaitCount(c, "recounting", "counting")
                   ELSE Return(c, "recounting")
    /\ UNCHANGED <<storeVars, wakeVars, given, wiped, closed>>

------------------------------------------------------------------------------
(* Time, the periodic cleanup, and shutdown                                *)

Expire(k, i) ==
    /\ i \in Live(k)
    /\ expired' = expired \cup {i}
    /\ UNCHANGED <<nextId, queue, lockVars, wakeVars, callVars, given, wiped, closed>>

\* Fault: the filter keeps what it should drop.
ExpireLive ==
    /\ queue' = [k \in Key |-> queue[k] \cap expired]
    /\ queue' # queue
    /\ UNCHANGED <<nextId, expired, lockVars, wakeVars, callVars, given, wiped, closed>>

ExpireStale ==
    /\ queue' = [k \in Key |-> Live(k)]
    /\ queue' # queue
    /\ UNCHANGED <<nextId, expired, lockVars, wakeVars, callVars, given, wiped, closed>>

Close ==
    /\ ~closed
    /\ closed' = TRUE
    /\ wiped' = wiped \cup UNION {queue[k] : k \in Key}
    /\ queue' = [k \in Key |-> {}]
    /\ lock' = [k \in Key |-> NoCall]
    /\ UNCHANGED <<nextId, expired, prev, wakeVars, callVars, given>>

------------------------------------------------------------------------------
SenderStep(c) == \/ \E k \in Key : Enqueue(c, k)
                 \/ CheckFlag(c)

NotifyStep(c) == \/ Notify(c)
                 \/ Reach(c)
                 \/ NotifySucceeds(c)
                 \/ NotifyRefused(c)
                 \/ NotifyThrows(c)

ReaderStep(c) == \/ \E k \in Key, n \in Limit : DrainCall(c, k, n)
                 \/ DoDrain(c)
                 \/ DoDrainThrows(c)
                 \/ ClearFlag(c)
                 \/ Recount(c)

Next == \/ \E c \in Sender : SenderStep(c)
        \/ \E c \in Reader : ReaderStep(c)
        \/ \E c \in Call : NotifyStep(c)
        \/ \E k \in Key : \E i \in Live(k) : Expire(k, i)
        \/ ExpireStale
        \/ Close

Spec == Init /\ [][Next]_vars

\* The event loop resumes every call whose await has settled, and an actor's
\* deliver() settles one way or another.
CallsProgress ==
    /\ \A c \in Sender : WF_vars(CheckFlag(c))
    /\ \A c \in Reader : WF_vars(DoDrain(c) \/ DoDrainThrows(c))
    /\ \A c \in Reader : WF_vars(ClearFlag(c) \/ Recount(c))
    /\ \A c \in Call : WF_vars(Notify(c))
    /\ \A c \in Call : WF_vars(NotifySucceeds(c) \/ NotifyRefused(c) \/ NotifyThrows(c))

\* An agent that has been woken drains its inbox, with a size that is served.
AgentDrains ==
    \A k \in Key : SF_vars(/\ told[k]
                           /\ \E c \in Reader, n \in Limit \ {0} : DrainCall(c, k, n))

FairSpec == Spec /\ CallsProgress /\ AgentDrains

------------------------------------------------------------------------------
(* Properties                                                              *)

Point == {"idle", "stored", "counting", "notifying", "reached",
          "waiting", "drained", "recounting"}

TypeOK ==
    /\ nextId \in 1 .. MaxEntry + 1
    /\ queue \in [Key -> SUBSET (1 .. MaxEntry)]
    /\ expired \subseteq 1 .. MaxEntry
    /\ flag \in [Key -> BOOLEAN]
    /\ lock \in [Key -> Reader \cup {NoCall}]
    /\ prev \in [Reader -> Reader \cup {NoCall}]
    /\ pc \in [Call -> Point]
    /\ key \in [Call -> Key]
    /\ limit \in [Reader -> Nat]
    /\ found \in [Call -> BOOLEAN]
    /\ told \in [Key -> BOOLEAN]
    /\ given \in [Key -> SUBSET (1 .. MaxEntry)]
    /\ wiped \subseteq 1 .. MaxEntry
    /\ failed \in [Key -> BOOLEAN]
    /\ refused \in [Key -> BOOLEAN]
    /\ closed \in BOOLEAN

\* A call that is going to look at, or has just seen, what waits for k.
Pursuing(c, k) ==
    /\ key[c] = k
    /\ \/ pc[c] \in {"stored", "drained"}
       \/ pc[c] \in {"counting", "recounting"} /\ found[c]

\* A call that is going to wake k's agent, or whose caller is k's agent.
Answering(c, k) ==
    /\ key[c] = k
    /\ pc[c] \in {"notifying", "waiting", "drained"}

\* An entry that waits while the notification flag is down has a call that
\* will raise it, or its last notification threw.
WaitingIsPursued ==
    \A k \in Key : Live(k) # {} =>
        flag[k] \/ failed[k] \/ \E c \in Call : Pursuing(c, k)

\* A raised flag, which silences every later enqueue, stands for a wake-up
\* that the agent has or will get, or that its connector turned down.
FlagIsOwned ==
    \A k \in Key : flag[k] =>
        told[k] \/ refused[k] \/ \E c \in Call : Answering(c, k)

\* No lost wake-up: as long as a live entry is stored, the agent has been
\* woken and owes a drain, or a call is under way that wakes it, or the last
\* notification is known to have failed (enqueue, drain and sendNotification
\* interleaved at every await).
NoLostWakeup ==
    \A k \in Key : Live(k) # {} =>
        \/ told[k]
        \/ failed[k] \/ refused[k]
        \/ \E c \in Call : Pursuing(c, k) \/ Answering(c, k)

\* No entry disappears: whatever enqueue accepted is stored, was handed to
\* the agent, ran out of time, or was discarded by close().
NothingVanishes ==
    \A i \in 1 .. nextId - 1 :
        i \in expired \/ i \in wiped \/ \E k \in Key : i \in queue[k] \cup given[k]

\* The store behaves as the Mailbox: entries leave it once, oldest first.
MB == INSTANCE Mailbox WITH box <- [k \in Key |-> Live(k)], given <- given,
                            last <- nextId - 1
ImplementsMailbox == MB!Spec

\* A drain waits only for a drain of its own session that is itself under
\* way, and drains never wait for each other in a circle: the chain of
\* promises behind the key's lock always has a call that may go on, also when
\* doDrain() throws and when close() drops the locks.
DrainsTakeTurns ==
    /\ \A c \in Reader : prev[c] # NoCall =>
          pc[prev[c]] = "waiting" /\ key[prev[c]] = key[c]
    /\ \A S \in SUBSET Reader : S # {} => \E c \in S : prev[c] \notin S

\* Every entry is drained or runs out of time, unless a notification of its
\* key failed or was turned down.
EntriesReachAgent ==
    \A k \in Key : \A i \in 1 .. MaxEntry :
        i \in Live(k) ~> i \notin Live(k) \/ failed[k] \/ refused[k]
==============================================================================
