---------------------------- MODULE SourcePolling ----------------------------
(***************************************************************************)
(* One polled source of one module.                                        *)
(*   packages/core/src/scheduler.ts        Scheduler: interval ticks       *)
(*   packages/core/src/runtime.ts          pollSource, scheduleCircuitRetry*)
(*   packages/core/src/module-instance.ts  states and health of a module   *)
(*   packages/core/src/store.ts            CheckpointStore                 *)
(*                                                                         *)
(* The scheduler never asks whether the previous poll of a source is over, *)
(* so several activations of pollSource (Poller) may be suspended at one   *)
(* of its awaits at the same time; they share the checkpoint, the health   *)
(* record and the retry timer.  A module may be unloaded and loaded again  *)
(* (a new instance with a fresh health record) while older activations are *)
(* still running, and the process may crash, which leaves the checkpoint.  *)
(* Upstream events are the numbers 1, 2, ...; a checkpoint is the number of *)
(* the last event that a poll returned.                                    *)
(***************************************************************************)
EXTENDS Naturals, FiniteSets

CONSTANTS Poller,      \* activations of pollSource; bounds their overlap
          Threshold,   \* circuitBreaker.failureThreshold
          Listening,   \* does anybody listen to the runtime's "error" event?
          MaxEvent,    \* bound on the upstream events
          MaxInstance, \* bound on the instances of the module per process
          MaxCrash     \* bound on the crashes

ASSUME PollingAssumption ==
    /\ Threshold \in Nat \ {0}
    /\ Listening \in BOOLEAN
    /\ MaxEvent \in Nat
    /\ MaxInstance \in Nat \ {0}
    /\ MaxCrash \in Nat

Instance == 1 .. MaxInstance
Event == 1 .. MaxEvent

VARIABLES
    upstream,   \* number of events that have happened at the source
    cp,         \* the stored checkpoint, 0 if there is none
    running,    \* Runtime.running
    active,     \* the registered instance is in state "active" and scheduled
    gen,        \* the registered instance, 0 before the first load
    timer,      \* circuitRetryTimers holds a timer of the source
    errors,     \* errors[g]: consecutiveErrors, counted up to Threshold
    open,       \* open[g]: circuitOpen
    status,     \* status[g]: the health status
    pc,         \* where an activation is suspended
    inst,       \* the instance an activation works for
    got,        \* the checkpoint an activation has read
    next,       \* the checkpoint the connector returned to it
    batch,      \* the events it still has to process
    \* What an observer knows; the code keeps none of it.
    handled,    \* events that went through processEvent
    lost,       \* events dropped with a checkpoint already past them
    streak,     \* streak[g]: polls that failed since the last good one
    crashes

sourceVars == <<upstream, cp>>
moduleVars == <<running, active, gen>>
healthVars == <<errors, open, status, streak>>
pollVars   == <<pc, inst, got, next, batch>>
fateVars   == <<handled, lost, crashes>>
vars == <<sourceVars, moduleVars, timer, healthVars, pollVars, fateVars>>

------------------------------------------------------------------------------
(* Helpers                                                                 *)

Goto(a, from, to) == pc[a] = from /\ pc' = [pc EXCEPT ![a] = to]

\* An activation returns: its locals are gone.
Return(a) == /\ pc' = [pc EXCEPT ![a] = "idle"]
             /\ inst' = [inst EXCEPT ![a] = 0]
             /\ got' = [got EXCEPT ![a] = 0]
             /\ next' = [next EXCEPT ![a] = 0]
             /\ batch' = [batch EXCEPT ![a] = {}]

\* pollSource() up to its first await, for instance g of the module.
BeginPoll(a, g) == /\ pc' = [pc EXCEPT ![a] = "reading"]
                   /\ inst' = [inst EXCEPT ![a] = g]
                   /\ UNCHANGED <<got, next, batch>>

FreshHealth == /\ errors' = [g \in Instance |-> 0]
               /\ open' = [g \in Instance |-> FALSE]
               /\ status' = [g \in Instance |-> "healthy"]
               /\ streak' = [g \in Instance |-> 0]

Capped(n) == IF n < Threshold THEN n ELSE Threshold

------------------------------------------------------------------------------
Init ==
    /\ upstream = 0
    /\ cp = 0
    /\ running = TRUE
    /\ active = FALSE
    /\ gen = 0
    /\ timer = FALSE
    /\ errors = [g \in Instance |-> 0]
    /\ open = [g \in Instance |-> FALSE]
    /\ status = [g \in Instance |-> "healthy"]
    /\ streak = [g \in Instance |-> 0]
    /\ pc = [a \in Poller |-> "idle"]
    /\ inst = [a \in Poller |-> 0]
    /\ got = [a \in Poller |-> 0]
    /\ next = [a \in Poller |-> 0]
    /\ batch = [a \in Poller |-> {}]
    /\ handled = {}
    /\ lost = {}
    /\ crashes = 0

------------------------------------------------------------------------------
(* The source (external) and the module's life                             *)

Happen == /\ upstream < MaxEvent
          /\ upstream' = upstream + 1
          /\ UNCHANGED <<cp, moduleVars, timer, healthVars, pollVars, fateVars>>

\* Fault: the source is scheduled before the module is registered.
LoadUnregistered(a) ==
    /\ running /\ ~active
    /\ gen < MaxInstance
    /\ pc[a] = "idle"
    /\ gen' = gen + 1
    /\ active' = TRUE
    /\ BeginPoll(a, gen)
    /\ UNCHANGED <<sourceVars, running, timer, healthVars, fateVars>>

\* loadModule() registers the module before it schedules the source, whose
\* first poll starts at once.
Load(a) ==
    /\ running /\ ~active
    /\ gen < MaxInstance
    /\ pc[a] = "idle"
    /\ gen' = gen + 1
    /\ active' = TRUE
    /\ BeginPoll(a, gen + 1)
    /\ UNCHANGED <<sourceVars, running, timer, healthVars, fateVars>>

\* unloadModule() and stop(): deactivate() and removeSources(); activations
\* that have begun and the retry timer stay.
Deactivate ==
    /\ active
    /\ active' = FALSE
    /\ UNCHANGED <<sourceVars, running, gen, timer, healthVars, pollVars, fateVars>>

\* The rest of stop(), once every module is deactivated: the retry timers are
\* cleared and, some awaits later, the flag goes down.
Stop ==
    /\ running /\ ~active
    /\ running' = FALSE
    /\ timer' = FALSE
    /\ UNCHANGED <<sourceVars, active, gen, healthVars, pollVars, fateVars>>

\* Events whose checkpoint is stored and which are not processed yet.
Passed(a) == IF pc[a] \in {"recovered", "processing"} THEN batch[a] ELSE {}

\* The process ends, by a crash or after stop(), and is started again.
Crash ==
    /\ crashes < MaxCrash
    /\ crashes' = crashes + 1
    /\ running' = TRUE
    /\ active' = FALSE
    /\ gen' = 0
    /\ timer' = FALSE
    /\ FreshHealth
    /\ lost' = lost \cup UNION {Passed(a) : a \in Poller}
    /\ pc' = [a \in Poller |-> "idle"]
    /\ inst' = [a \in Poller |-> 0]
    /\ got' = [a \in Poller |-> 0]
    /\ next' = [a \in Poller |-> 0]
    /\ batch' = [a \in Poller |-> {}]
    /\ UNCHANGED <<sourceVars, handled>>

------------------------------------------------------------------------------
(* pollSource()                                                            *)

\* An interval tick; with the circuit open pollSource() returns at once.
Tick(a) ==
    /\ active /\ ~open[gen]
    /\ pc[a] = "idle"
    /\ BeginPoll(a, gen)
    /\ UNCHANGED <<sourceVars, moduleVars, timer, healthVars, fateVars>>

ReadCheckpoint(a) ==
    /\ Goto(a, "reading", "polling")
    /\ got' = [got EXCEPT ![a] = cp]
    /\ UNCHANGED <<sourceVars, moduleVars, timer, healthVars, inst, next, batch, fateVars>>

\* The connector (external) returns what happened since the checkpoint; the
\* last of it is the new checkpoint.
PollReturns(a) ==
    /\ Goto(a, "polling", "saving")
    /\ next' = [next EXCEPT ![a] = upstream]
    /\ batch' = [batch EXCEPT ![a] = got[a] + 1 .. upstream]
    /\ UNCHANGED <<sourceVars, moduleVars, timer, healthVars, inst, got, fateVars>>

\* Fault: the checkpoint stored is where the source is by now.
StoredLate(a) == upstream

\* The checkpoint that store.set() gets.
Stored(a) == next[a]

\* After the checkpoint is stored: a source that had errors logs its recovery
\* first, and its record is cleaned when that await is over.
SaveCheckpoint(a) ==
    LET g == inst[a]
    IN /\ pc[a] = "saving"
       /\ cp' = Stored(a)
       /\ IF errors[g] > 0
          THEN /\ Goto(a, "saving", "recovered")
               /\ UNCHANGED <<inst, got, next, batch, healthVars>>
          ELSE /\ status' = [status EXCEPT ![g] = "healthy"]
               /\ streak' = [streak EXCEPT ![g] = 0]
               /\ IF batch[a] = {}
                  THEN Return(a)
                  ELSE /\ Goto(a, "saving", "processing")
                       /\ UNCHANGED <<inst, got, next, batch>>
               /\ UNCHANGED <<errors, open>>
       /\ UNCHANGED <<upstream, moduleVars, timer, fateVars>>

Recover(a) ==
    LET g == inst[a]
    IN /\ pc[a] = "recovered"
       /\ errors' = [errors EXCEPT ![g] = 0]
       /\ status' = [status EXCEPT ![g] = "healthy"]
       /\ streak' = [streak EXCEPT ![g] = 0]
       /\ IF batch[a] = {}
          THEN Return(a)
          ELSE /\ Goto(a, "recovered", "processing")
               /\ UNCHANGED <<inst, got, next, batch>>
       /\ UNCHANGED <<sourceVars, moduleVars, timer, open, fateVars>>

\* processEvent() of the next event of the batch, up to its acknowledgement.
Handle(a) ==
    /\ pc[a] = "processing"
    /\ \E e \in batch[a] :
        /\ \A later \in batch[a] : e <= later
        /\ handled' = handled \cup {e}
        /\ IF batch[a] = {e}
           THEN Return(a)
           ELSE /\ batch' = [batch EXCEPT ![a] = @ \ {e}]
                /\ UNCHANGED <<pc, inst, got, next>>
    /\ UNCHANGED <<sourceVars, moduleVars, timer, healthVars, lost, crashes>>

\* Fault: one failure more than failureThreshold is needed.
TripsLate(g) == errors[g] >= Threshold

\* Does one more failure open the circuit?
Trips(g) == errors[g] + 1 >= Threshold

\* The catch block.  Without a listener emit("error") itself throws, and the
\* scheduler swallows what is left of the poll.
Catch(a) ==
    LET g == inst[a]
    IN /\ streak' = [streak EXCEPT ![g] = Capped(@ + 1)]
       /\ IF ~Listening
          THEN UNCHANGED <<errors, open, status>> /\ Return(a)
          ELSE /\ errors' = [errors EXCEPT ![g] = Capped(@ + 1)]
               /\ IF Trips(g)
                  THEN /\ status' = [status EXCEPT ![g] = "unhealthy"]
                       /\ open' = [open EXCEPT ![g] = TRUE]
                       /\ pc' = [pc EXCEPT ![a] = "opening"]
                       /\ batch' = [batch EXCEPT ![a] = {}]
                       /\ UNCHANGED <<inst, got, next>>
                  ELSE /\ status' = [status EXCEPT ![g] = "degraded"]
                       /\ UNCHANGED open
                       /\ Return(a)

\* store.get(), connector.poll() or store.set() throws.
PollFails(a) ==
    /\ pc[a] \in {"reading", "polling", "saving"}
    /\ Catch(a)
    /\ UNCHANGED <<sourceVars, moduleVars, timer, fateVars>>

\* processEvent() throws: the rest of the batch goes with it.
HandleFails(a) ==
    /\ pc[a] = "processing"
    /\ lost' = lost \cup batch[a]
    /\ Catch(a)
    /\ UNCHANGED <<sourceVars, moduleVars, timer, handled, crashes>>

------------------------------------------------------------------------------
(* scheduleCircuitRetry()                                                  *)

\* Fault: the timer that is replaced is forgotten, the new one too.
ScheduleForgets(a) ==
    /\ pc[a] = "opening"
    /\ timer' = ~timer
    /\ Return(a)
    /\ UNCHANGED <<sourceVars, moduleVars, healthVars, fateVars>>

\* The circuit is logged as open; a timer replaces the one there may be.
Schedule(a) ==
    /\ pc[a] = "opening"
    /\ timer' = TRUE
    /\ Return(a)
    /\ UNCHANGED <<sourceVars, moduleVars, healthVars, fateVars>>

TimerFires(a) ==
    /\ timer
    /\ pc[a] = "idle"
    /\ timer' = FALSE
    /\ IF running /\ active /\ open[gen]
       THEN /\ pc' = [pc EXCEPT ![a] = "retrying"]
            /\ inst' = [inst EXCEPT ![a] = gen]
            /\ UNCHANGED <<got, next, batch>>
       ELSE UNCHANGED pollVars
    /\ UNCHANGED <<sourceVars, moduleVars, healthVars, fateVars>>

\* Fault: the retry polls with the circuit still open.
RetryStaysOpen(a) ==
    /\ pc[a] = "retrying"
    /\ IF active /\ ~open[gen] THEN BeginPoll(a, gen) ELSE Return(a)
    /\ UNCHANGED <<sourceVars, moduleVars, timer, healthVars, fateVars>>

\* The retry is logged; the circuit is closed for one poll of whatever
\* instance is registered by now.
Retry(a) ==
    /\ pc[a] = "retrying"
    /\ open' = [open EXCEPT ![inst[a]] = FALSE]
    /\ IF active /\ ~open'[gen] THEN BeginPoll(a, gen) ELSE Return(a)
    /\ UNCHANGED <<sourceVars, moduleVars, timer, errors, status, streak, fateVars>>

------------------------------------------------------------------------------
PollStep(a) == \/ ReadCheckpoint(a)
               \/ PollReturns(a)
               \/ SaveCheckpoint(a)
               \/ Recover(a)
               \/ Handle(a)
               \/ PollFails(a)
               \/ HandleFails(a)
               \/ Schedule(a)
               \/ Retry(a)

Next == \/ Happen
        \/ Deactivate
        \/ Stop
        \/ Crash
        \/ \E a \in Poller : Load(a) \/ Tick(a) \/ TimerFires(a) \/ PollStep(a)

Spec == Init /\ [][Next]_vars

\* Intervals and timers keep firing, every await settles, and an outage of
\* the source does not last for ever.
Fairness ==
    /\ WF_vars(\E a \in Poller : Tick(a))
    /\ WF_vars(\E a \in Poller : TimerFires(a))
    /\ \A a \in Poller : /\ WF_vars(PollStep(a))
                         /\ SF_vars(ReadCheckpoint(a))
                         /\ SF_vars(PollReturns(a))
                         /\ SF_vars(SaveCheckpoint(a))

FairSpec == Spec /\ Fairness

------------------------------------------------------------------------------
(* Properties                                                              *)

Point == {"idle", "reading", "polling", "saving", "recovered", "processing",
          "opening", "retrying"}

TypeOK ==
    /\ upstream \in 0 .. MaxEvent
    /\ cp \in 0 .. MaxEvent
    /\ running \in BOOLEAN
    /\ active \in BOOLEAN
    /\ gen \in 0 .. MaxInstance
    /\ active => gen # 0
    /\ timer \in BOOLEAN
    /\ errors \in [Instance -> 0 .. Threshold]
    /\ open \in [Instance -> BOOLEAN]
    /\ status \in [Instance -> {"healthy", "degraded", "unhealthy"}]
    /\ streak \in [Instance -> 0 .. Threshold]
    /\ pc \in [Poller -> Point]
    /\ inst \in [Poller -> 0 .. MaxInstance]
    /\ \A a \in Poller : pc[a] # "idle" => inst[a] \in Instance
    /\ got \in [Poller -> 0 .. MaxEvent]
    /\ next \in [Poller -> 0 .. MaxEvent]
    /\ batch \in [Poller -> SUBSET Event]
    /\ handled \subseteq Event
    /\ lost \subseteq Event
    /\ crashes \in 0 .. MaxCrash

\* Polling never stops for good: while a module runs with an open circuit,
\* a timer is set, or an activation is about to set it or to close the
\* circuit (overlapping polls, retries, unloads and reloads included).
OpenCircuitIsRetried ==
    running /\ active /\ open[gen] =>
        \/ timer
        \/ \E a \in Poller : pc[a] = "opening"
        \/ \E a \in Poller : pc[a] = "retrying" /\ inst[a] = gen

Covered(e) == e \in handled \cup lost \/ \E a \in Poller : e \in Passed(a)

\* The checkpoint never runs ahead of the work: an event at or before it has
\* been processed, is in the hands of an activation, or was in a batch that
\* a crash or an exception cut short.
CheckpointCovered == \A e \in 1 .. cp : Covered(e)

\* health-tracking.test.ts, "opens circuit after N consecutive failures": a
\* source in service that has failed Threshold times in a row is not polled,
\* but for polls that had begun or that the retry timer began.
OutageOpensCircuit ==
    active /\ streak[gen] >= Threshold =>
        \/ open[gen]
        \/ \E a \in Poller : /\ inst[a] = gen
                            /\ pc[a] \in {"reading", "polling", "saving", "recovered"}

\* Every event of the source is eventually processed, unless it was in a
\* batch cut short or the module is not running.
EventsHandled ==
    \A e \in Event : e <= upstream ~> e \in handled \cup lost \/ ~active

\* scale-design.md: "Guarantee: At-least-once delivery."
AtLeastOnce == \A e \in 1 .. cp : e \in handled \/ \E a \in Poller : e \in Passed(a)
==============================================================================
