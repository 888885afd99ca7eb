------------------------- MODULE SourcePollingProofs -------------------------
(***************************************************************************)
(* Theorems about SourcePolling, for every number of overlapping polls,    *)
(* events, reloads and crashes, and every failure threshold.               *)
(***************************************************************************)
EXTENDS SourcePolling, TLAPS

\* The locals of an activation keep their shape where it returns ...
LEMMA ReturnType ==
    ASSUME TypeOK, NEW a \in Poller, Return(a)
    PROVE  /\ pc' \in [Poller -> Point]
           /\ inst' \in [Poller -> 0 .. MaxInstance]
           /\ \A b \in Poller : pc'[b] # "idle" => inst'[b] \in Instance
           /\ got' \in [Poller -> 0 .. MaxEvent]
           /\ next' \in [Poller -> 0 .. MaxEvent]
           /\ batch' \in [Poller -> SUBSET Event]
BY PollingAssumption DEF Return, TypeOK, Point

\* ... and where it begins to poll.
LEMMA BeginType ==
    ASSUME TypeOK, NEW a \in Poller, NEW g \in Instance, BeginPoll(a, g)
    PROVE  /\ pc' \in [Poller -> Point]
           /\ inst' \in [Poller -> 0 .. MaxInstance]
           /\ \A b \in Poller : pc'[b] # "idle" => inst'[b] \in Instance
           /\ got' \in [Poller -> 0 .. MaxEvent]
           /\ next' \in [Poller -> 0 .. MaxEvent]
           /\ batch' \in [Poller -> SUBSET Event]
BY PollingAssumption DEF BeginPoll, TypeOK, Point, Instance

\* The catch block keeps the shape of the health records and the locals.
LEMMA CatchType ==
    ASSUME TypeOK, NEW a \in Poller, pc[a] # "idle", Catch(a)
    PROVE  /\ errors' \in [Instance -> 0 .. Threshold]
           /\ open' \in [Instance -> BOOLEAN]
           /\ status' \in [Instance -> {"healthy", "degraded", "unhealthy"}]
           /\ streak' \in [Instance -> 0 .. Threshold]
           /\ pc' \in [Poller -> Point]
           /\ inst' \in [Poller -> 0 .. MaxInstance]
           /\ \A b \in Poller : pc'[b] # "idle" => inst'[b] \in Instance
           /\ got' \in [Poller -> 0 .. MaxEvent]
           /\ next' \in [Poller -> 0 .. MaxEvent]
           /\ batch' \in [Poller -> SUBSET Event]
<1> USE PollingAssumption
<1>1. inst[a] \in Instance
  BY DEF TypeOK
<1>2. \A n \in 0 .. Threshold : Capped(n + 1) \in 0 .. Threshold
  BY DEF Capped
<1>3. streak' \in [Instance -> 0 .. Threshold]
  BY <1>1, <1>2 DEF Catch, TypeOK
<1>4. CASE ~Listening
  BY <1>3, <1>4, ReturnType DEF Catch, TypeOK
<1>5. CASE Listening /\ Trips(inst[a])
  <2>1. errors' \in [Instance -> 0 .. Threshold]
    BY <1>1, <1>2, <1>5 DEF Catch, TypeOK
  <2> QED BY <1>1, <1>3, <1>5, <2>1 DEF Catch, TypeOK, Point
<1>6. CASE Listening /\ ~Trips(inst[a])
  <2>1. errors' \in [Instance -> 0 .. Threshold]
    BY <1>1, <1>2, <1>6 DEF Catch, TypeOK
  <2>2. Return(a)
    BY <1>6 DEF Catch
  <2>3. /\ open' = open
        /\ status' \in [Instance -> {"healthy", "degraded", "unhealthy"}]
    BY <1>1, <1>6 DEF Catch, TypeOK
  <2> QED BY <1>3, <2>1, <2>2, <2>3, ReturnType DEF TypeOK
<1> QED BY <1>4, <1>5, <1>6

\* Type correctness: every variable keeps its shape, an activation that is
\* under way works for an instance, and a module in service has one.
THEOREM TypeCorrect == Spec => []TypeOK
<1> USE PollingAssumption
<1>1. Init => TypeOK
  <2> SUFFICES ASSUME Init PROVE TypeOK
    OBVIOUS
  <2>1. /\ errors \in [Instance -> 0 .. Threshold]
        /\ open \in [Instance -> BOOLEAN]
        /\ status \in [Instance -> {"healthy", "degraded", "unhealthy"}]
        /\ streak \in [Instance -> 0 .. Threshold]
    BY DEF Init
  <2>2. /\ pc \in [Poller -> Point]
        /\ inst \in [Poller -> 0 .. MaxInstance]
        /\ \A a \in Poller : pc[a] # "idle" => inst[a] \in Instance
        /\ got \in [Poller -> 0 .. MaxEvent]
        /\ next \in [Poller -> 0 .. MaxEvent]
        /\ batch \in [Poller -> SUBSET Event]
    BY DEF Init, Point
  <2>3. /\ running \in BOOLEAN /\ timer \in BOOLEAN
        /\ active \in BOOLEAN /\ ~active
    BY DEF Init
  <2>4. /\ upstream \in 0 .. MaxEvent /\ cp \in 0 .. MaxEvent
        /\ gen \in 0 .. MaxInstance /\ crashes \in 0 .. MaxCrash
        /\ handled \subseteq Event /\ lost \subseteq Event
    BY DEF Init
  <2> QED BY <2>1, <2>2, <2>3, <2>4 DEF TypeOK
<1>2. TypeOK /\ [Next]_vars => TypeOK'
  <2> SUFFICES ASSUME TypeOK, [Next]_vars PROVE TypeOK'
    OBVIOUS
  <2> USE DEF sourceVars, moduleVars, healthVars, pollVars, fateVars
  <2>1. CASE UNCHANGED vars
    BY <2>1 DEF TypeOK, vars
  <2>2. CASE Happen
    BY <2>2 DEF Happen, TypeOK
  <2>3. CASE Deactivate
    BY <2>3 DEF Deactivate, TypeOK
  <2>4. CASE Stop
    BY <2>4 DEF Stop, TypeOK
  <2>5. CASE Crash
    <3>1. UNION {Passed(a) : a \in Poller} \subseteq Event
      BY DEF Passed, TypeOK
    <3>2. /\ errors' \in [Instance -> 0 .. Threshold]
          /\ open' \in [Instance -> BOOLEAN]
          /\ status' \in [Instance -> {"healthy", "degraded", "unhealthy"}]
          /\ streak' \in [Instance -> 0 .. Threshold]
      BY <2>5 DEF Crash, FreshHealth
    <3>3. /\ pc' \in [Poller -> Point]
          /\ inst' \in [Poller -> 0 .. MaxInstance]
          /\ \A a \in Poller : pc'[a] = "idle"
          /\ got' \in [Poller -> 0 .. MaxEvent]
          /\ next' \in [Poller -> 0 .. MaxEvent]
          /\ batch' \in [Poller -> SUBSET Event]
      BY <2>5 DEF Crash, Point
    <3>4. /\ running' \in BOOLEAN /\ timer' \in BOOLEAN
          /\ active' \in BOOLEAN /\ ~active'
      BY <2>5 DEF Crash
    <3>5. /\ upstream' \in 0 .. MaxEvent /\ cp' \in 0 .. MaxEvent
          /\ gen' \in 0 .. MaxInstance /\ crashes' \in 0 .. MaxCrash
          /\ handled' \subseteq Event /\ lost' \subseteq Event
      BY <2>5, <3>1 DEF Crash, TypeOK
    <3> QED BY <3>2, <3>3, <3>4, <3>5 DEF TypeOK
  <2>6. ASSUME NEW a \in Poller, Load(a) PROVE TypeOK'
    <3>1. gen + 1 \in Instance /\ BeginPoll(a, gen + 1)
      BY <2>6 DEF Load, TypeOK, Instance
    <3>2. gen' \in 0 .. MaxInstance /\ gen' # 0
      BY <2>6 DEF Load, TypeOK
    <3> QED BY <2>6, <3>1, <3>2, BeginType DEF Load, TypeOK
  <2>7. ASSUME NEW a \in Poller, Tick(a) PROVE TypeOK'
    <3>1. gen \in Instance /\ BeginPoll(a, gen)
      BY <2>7 DEF Tick, TypeOK, Instance
    <3> QED BY <2>7, <3>1, BeginType DEF Tick, TypeOK
  <2>8. ASSUME NEW a \in Poller, TimerFires(a) PROVE TypeOK'
    <3>1. CASE running /\ active /\ open[gen]
      <4>1. gen \in Instance
        BY <3>1 DEF TypeOK, Instance
      <4> QED BY <2>8, <3>1, <4>1 DEF TimerFires, TypeOK, Point
    <3>2. CASE ~(running /\ active /\ open[gen])
      BY <2>8, <3>2 DEF TimerFires, TypeOK
    <3> QED BY <3>1, <3>2
  <2>9. ASSUME NEW a \in Poller, PollStep(a) PROVE TypeOK'
    <3>1. CASE ReadCheckpoint(a)
      BY <3>1 DEF ReadCheckpoint, Goto, TypeOK, Point
    <3>2. CASE PollReturns(a)
      <4>1. got[a] + 1 .. upstream \subseteq Event
        BY DEF TypeOK, Event
      <4> QED BY <3>2, <4>1 DEF PollReturns, Goto, TypeOK, Point
    <3>3. CASE SaveCheckpoint(a)
      <4>1. inst[a] \in Instance
        BY <3>3 DEF SaveCheckpoint, TypeOK
      <4>2. cp' \in 0 .. MaxEvent
        BY <3>3 DEF SaveCheckpoint, Stored, TypeOK
      <4>3. CASE errors[inst[a]] > 0
        BY <3>3, <4>2, <4>3 DEF SaveCheckpoint, Goto, TypeOK, Point
      <4>4. CASE ~(errors[inst[a]] > 0) /\ batch[a] = {}
        <5>1. Return(a)
          BY <3>3, <4>4 DEF SaveCheckpoint
        <5> QED
          BY <3>3, <4>1, <4>2, <4>4, <5>1, ReturnType DEF SaveCheckpoint, TypeOK
      <4>5. CASE ~(errors[inst[a]] > 0) /\ batch[a] # {}
        BY <3>3, <4>1, <4>2, <4>5 DEF SaveCheckpoint, Goto, TypeOK, Point
      <4> QED BY <4>3, <4>4, <4>5
    <3>4. CASE Recover(a)
      <4>1. inst[a] \in Instance
        BY <3>4 DEF Recover, TypeOK
      <4>2. CASE batch[a] = {}
        <5>1. Return(a)
          BY <3>4, <4>2 DEF Recover
        <5> QED BY <3>4, <4>1, <5>1, ReturnType DEF Recover, TypeOK
      <4>3. CASE batch[a] # {}
        BY <3>4, <4>1, <4>3 DEF Recover, Goto, TypeOK, Point
      <4> QED BY <4>2, <4>3
    <3>5. CASE Handle(a)
      <4>1. PICK e \in batch[a] :
              /\ handled' = handled \cup {e}
              /\ IF batch[a] = {e}
                 THEN Return(a)
                 ELSE /\ batch' = [batch EXCEPT ![a] = @ \ {e}]
                      /\ UNCHANGED <<pc, inst, got, next>>
        BY <3>5 DEF Handle
      <4>2. handled' \subseteq Event
        BY <4>1 DEF TypeOK
      <4>3. CASE Return(a)
        BY <3>5, <4>2, <4>3, ReturnType DEF Handle, TypeOK
      <4>4. CASE batch' = [batch EXCEPT ![a] = @ \ {e}] /\ UNCHANGED <<pc, inst, got, next>>
        BY <3>5, <4>2, <4>4 DEF Handle, TypeOK
      <4> QED BY <4>1, <4>3, <4>4
    <3>6. CASE PollFails(a)
      BY <3>6, CatchType DEF PollFails, TypeOK
    <3>7. CASE HandleFails(a)
      BY <3>7, CatchType DEF HandleFails, TypeOK
    <3>8. CASE Schedule(a)
      BY <3>8, ReturnType DEF Schedule, TypeOK
    <3>9. CASE Retry(a)
      <4>1. inst[a] \in Instance /\ open' \in [Instance -> BOOLEAN]
        BY <3>9 DEF Retry, TypeOK
      <4>2. CASE active /\ ~open'[gen]
        <5>1. gen \in Instance /\ BeginPoll(a, gen)
          BY <3>9, <4>2 DEF Retry, TypeOK, Instance
        <5> QED BY <3>9, <4>1, <5>1, BeginType DEF Retry, TypeOK
      <4>3. CASE ~(active /\ ~open'[gen])
        <5>1. Return(a)
          BY <3>9, <4>3 DEF Retry
        <5> QED BY <3>9, <4>1, <5>1, ReturnType DEF Retry, TypeOK
      <4> QED BY <4>2, <4>3
    <3> QED
      BY <2>9, <3>1, <3>2, <3>3, <3>4, <3>5, <3>6, <3>7, <3>8, <3>9 DEF PollStep
  <2> QED BY <2>1, <2>2, <2>3, <2>4, <2>5, <2>6, <2>7, <2>8, <2>9 DEF Next
<1> QED BY <1>1, <1>2, PTL DEF Spec

\* An instance that has not been loaded yet has no activations, no errors and
\* a closed circuit.
Fresh == /\ \A a \in Poller : inst[a] <= gen
         /\ \A g \in Instance : g > gen => ~open[g] /\ errors[g] = 0 /\ streak[g] = 0

\* Fresh needs no more than this of an action that loads nothing: at most one
\* activation changes its instance, to the one that is registered or to none,
\* and a health record changes only at the instance of an activation.
LEMMA FreshKept ==
    ASSUME TypeOK, Fresh, NEW a \in Poller, gen' = gen,
           \/ UNCHANGED inst
           \/ inst' = [inst EXCEPT ![a] = 0]
           \/ inst' = [inst EXCEPT ![a] = gen],
           \A g \in Instance : g # inst[a] =>
               open'[g] = open[g] /\ errors'[g] = errors[g] /\ streak'[g] = streak[g]
    PROVE  Fresh'
<1>1. \A b \in Poller : inst'[b] <= gen
  BY DEF Fresh, TypeOK
<1>2. \A g \in Instance : g > gen => g # inst[a]
  BY DEF Fresh, TypeOK, Instance
<1> QED BY <1>1, <1>2 DEF Fresh

LEMMA FreshInvariant == Spec => []Fresh
<1>1. Init => Fresh
  BY DEF Init, Fresh, Instance
<1>2. TypeOK /\ Fresh /\ [Next]_vars => Fresh'
  <2> SUFFICES ASSUME TypeOK, Fresh, [Next]_vars PROVE Fresh'
    OBVIOUS
  <2> USE PollingAssumption DEF sourceVars, moduleVars, healthVars, pollVars, fateVars
  <2>1. CASE UNCHANGED vars
    BY <2>1 DEF Fresh, vars
  <2>2. CASE Happen \/ Deactivate \/ Stop
    BY <2>2 DEF Happen, Deactivate, Stop, Fresh
  <2>3. CASE Crash
    BY <2>3 DEF Crash, FreshHealth, Fresh, Instance
  <2>4. ASSUME NEW a \in Poller, Load(a) PROVE Fresh'
    <3>1. gen' = gen + 1 /\ inst' = [inst EXCEPT ![a] = gen + 1]
          /\ UNCHANGED healthVars
      BY <2>4 DEF Load, BeginPoll
    <3>2. \A b \in Poller : inst'[b] <= gen'
      BY <3>1 DEF Fresh, TypeOK
    <3>3. \A g \in Instance : g > gen' => g > gen
      BY <3>1 DEF TypeOK, Instance
    <3> QED BY <3>1, <3>2, <3>3 DEF Fresh
  <2>5. ASSUME NEW a \in Poller, Tick(a) \/ TimerFires(a) PROVE Fresh'
    BY <2>5, FreshKept DEF Tick, TimerFires, BeginPoll
  <2>6. ASSUME NEW a \in Poller, PollStep(a) PROVE Fresh'
    <3> USE FreshKept
    <3>1. CASE ReadCheckpoint(a) \/ PollReturns(a) \/ Schedule(a)
      BY <3>1 DEF ReadCheckpoint, PollReturns, Schedule, Return
    <3>2. CASE SaveCheckpoint(a) \/ Recover(a)
      BY <3>2 DEF SaveCheckpoint, Recover, Return, TypeOK
    <3>3. CASE Handle(a)
      BY <3>3 DEF Handle, Return
    <3>4. CASE PollFails(a) \/ HandleFails(a)
      BY <3>4 DEF PollFails, HandleFails, Catch, Return, TypeOK
    <3>5. CASE Retry(a)
      BY <3>5 DEF Retry, BeginPoll, Return, TypeOK
    <3> QED BY <2>6, <3>1, <3>2, <3>3, <3>4, <3>5 DEF PollStep
  <2> QED BY <2>1, <2>2, <2>3, <2>4, <2>5, <2>6 DEF Next
<1> QED BY <1>1, <1>2, TypeCorrect, PTL DEF Spec

\* A module in service whose circuit is open always has a retry coming: a
\* timer is set, or an activation is about to set it or to close the circuit.
THEOREM RetryPending == Spec => []OpenCircuitIsRetried
<1>1. Init => OpenCircuitIsRetried
  BY DEF Init, OpenCircuitIsRetried
<1>2. TypeOK /\ Fresh /\ OpenCircuitIsRetried /\ [Next]_vars => OpenCircuitIsRetried'
  <2> SUFFICES ASSUME TypeOK, Fresh, OpenCircuitIsRetried, [Next]_vars,
                      running', active', open'[gen']
               PROVE  \/ timer'
                      \/ \E a \in Poller : pc'[a] = "opening"
                      \/ \E a \in Poller : pc'[a] = "retrying" /\ inst'[a] = gen'
    BY DEF OpenCircuitIsRetried
  <2> USE DEF sourceVars, moduleVars, healthVars, pollVars, fateVars
  <2> DEFINE Goal == \/ timer'
                     \/ \E a \in Poller : pc'[a] = "opening"
                     \/ \E a \in Poller : pc'[a] = "retrying" /\ inst'[a] = gen'
  <2>1. CASE UNCHANGED vars
    BY <2>1 DEF OpenCircuitIsRetried, vars
  <2>2. CASE Happen
    BY <2>2 DEF Happen, OpenCircuitIsRetried
  <2>3. CASE Deactivate \/ Stop \/ Crash
    BY <2>3 DEF Deactivate, Stop, Crash
  <2>4. ASSUME NEW a \in Poller, Load(a) PROVE Goal
    <3>1. gen + 1 \in Instance /\ gen + 1 > gen /\ gen' = gen + 1 /\ open' = open
      BY <2>4, PollingAssumption DEF Load, TypeOK, Instance
    <3> QED BY <3>1 DEF Fresh
  <2>5. ASSUME NEW a \in Poller, Tick(a) PROVE Goal
    BY <2>5 DEF Tick
  <2>6. ASSUME NEW a \in Poller, TimerFires(a) PROVE Goal
    <3>1. running /\ active /\ open[gen]
      BY <2>6 DEF TimerFires
    <3> QED BY <2>6, <3>1 DEF TimerFires, TypeOK
  <2>7. ASSUME NEW a \in Poller, PollStep(a) PROVE Goal
    \* An activation that is not the one waiting to retry leaves the witness.
    <3>1. CASE ReadCheckpoint(a) \/ PollReturns(a) \/ SaveCheckpoint(a)
                  \/ Recover(a) \/ Handle(a)
      <4>1. /\ running /\ active /\ open[gen] /\ gen' = gen /\ timer' = timer
            /\ pc[a] \notin {"opening", "retrying"}
            /\ \A b \in Poller \ {a} : pc'[b] = pc[b] /\ inst'[b] = inst[b]
        BY <3>1 DEF ReadCheckpoint, PollReturns, SaveCheckpoint, Recover, Handle,
                    Goto, Return, TypeOK
      <4> QED BY <4>1 DEF OpenCircuitIsRetried
    <3>2. CASE PollFails(a) \/ HandleFails(a)
      <4>1. /\ running /\ active /\ gen' = gen /\ timer' = timer /\ Catch(a)
            /\ pc[a] \notin {"opening", "retrying"}
        BY <3>2 DEF PollFails, HandleFails
      <4>2. CASE pc'[a] = "opening"
        BY <4>2
      <4>3. CASE pc'[a] # "opening"
        <5>1. /\ open' = open
              /\ \A b \in Poller \ {a} : pc'[b] = pc[b] /\ inst'[b] = inst[b]
          BY <4>1, <4>3 DEF Catch, Return, TypeOK
        <5> QED BY <4>1, <5>1 DEF OpenCircuitIsRetried
      <4> QED BY <4>2, <4>3
    <3>3. CASE Schedule(a)
      BY <3>3 DEF Schedule
    <3>4. CASE Retry(a)
      <4>1. /\ running /\ active /\ gen' = gen /\ timer' = timer /\ pc[a] = "retrying"
            /\ open' = [open EXCEPT ![inst[a]] = FALSE]
            /\ \A b \in Poller \ {a} : pc'[b] = pc[b] /\ inst'[b] = inst[b]
        BY <3>4 DEF Retry, BeginPoll, Return, TypeOK
      <4>2. gen \in Instance /\ inst[a] # gen /\ open[gen]
        BY <4>1 DEF TypeOK, Instance
      <4> QED BY <4>1, <4>2 DEF OpenCircuitIsRetried
    <3> QED BY <2>7, <3>1, <3>2, <3>3, <3>4 DEF PollStep
  <2> QED BY <2>1, <2>2, <2>3, <2>4, <2>5, <2>6, <2>7 DEF Next
<1> QED BY <1>1, <1>2, TypeCorrect, FreshInvariant, PTL DEF Spec

\* What an activation that has read the checkpoint knows: the events up to it
\* are covered, and its batch is all that lies between it and the cursor.
Grounded == \A a \in Poller :
    /\ pc[a] \in {"polling", "saving"} => \A e \in 1 .. got[a] : Covered(e)
    /\ pc[a] = "saving" => batch[a] = got[a] + 1 .. next[a]

\* Covered is for good: an event in a batch stays there until it is handled or
\* the batch is dropped, which counts it as lost.
LEMMA CoveredForGood ==
    ASSUME TypeOK, [Next]_vars, NEW e \in Event, Covered(e)
    PROVE  Covered(e)'
<1> USE DEF sourceVars, moduleVars, healthVars, pollVars, fateVars
<1>1. CASE UNCHANGED vars
  BY <1>1 DEF Covered, Passed, vars
<1>2. CASE Happen \/ Deactivate \/ Stop
  BY <1>2 DEF Happen, Deactivate, Stop, Covered, Passed
<1>3. CASE Crash
  BY <1>3 DEF Crash, Covered
\* Elsewhere one activation moves, and it is enough to look at its events.
<1>4. ASSUME NEW a \in Poller,
             \A b \in Poller \ {a} : pc'[b] = pc[b] /\ batch'[b] = batch[b],
             handled \subseteq handled', lost \subseteq lost',
             e \in Passed(a) => e \in Passed(a)' \cup handled' \cup lost'
      PROVE  Covered(e)'
  <2>1. CASE e \in handled \cup lost
    BY <1>4, <2>1 DEF Covered
  <2>2. ASSUME NEW b \in Poller, e \in Passed(b) PROVE Covered(e)'
    <3>1. CASE b = a
      BY <1>4, <2>2, <3>1 DEF Covered
    <3>2. CASE b # a
      BY <1>4, <2>2, <3>2 DEF Covered, Passed
    <3> QED BY <3>1, <3>2
  <2> QED BY <2>1, <2>2 DEF Covered
<1>5. ASSUME NEW a \in Poller, Load(a) \/ Tick(a) \/ TimerFires(a) PROVE Covered(e)'
  <2>1. /\ pc[a] = "idle" /\ handled' = handled /\ lost' = lost
        /\ \A b \in Poller \ {a} : pc'[b] = pc[b] /\ batch'[b] = batch[b]
    BY <1>5 DEF Load, Tick, TimerFires, BeginPoll, TypeOK
  <2> QED BY <2>1, <1>4 DEF Passed
<1>6. ASSUME NEW a \in Poller, PollStep(a) PROVE Covered(e)'
  <2>1. CASE \/ ReadCheckpoint(a) \/ PollReturns(a) \/ SaveCheckpoint(a)
             \/ PollFails(a) \/ Schedule(a) \/ Retry(a)
    <3>1. /\ pc[a] \notin {"recovered", "processing"}
          /\ handled' = handled /\ lost' = lost
      BY <2>1 DEF ReadCheckpoint, PollReturns, SaveCheckpoint, PollFails,
                  Schedule, Retry, Goto
    <3>2. \A b \in Poller \ {a} : pc'[b] = pc[b] /\ batch'[b] = batch[b]
      BY <2>1 DEF ReadCheckpoint, PollReturns, SaveCheckpoint, PollFails, Catch,
                  Schedule, Retry, Goto, Return, BeginPoll, TypeOK
    <3> QED BY <3>1, <3>2, <1>4 DEF Passed
  <2>2. CASE Recover(a)
    <3>1. /\ pc[a] = "recovered" /\ handled' = handled /\ lost' = lost
          /\ \A b \in Poller \ {a} : pc'[b] = pc[b] /\ batch'[b] = batch[b]
          /\ \/ batch[a] = {}
             \/ pc'[a] = "processing" /\ batch'[a] = batch[a]
      BY <2>2 DEF Recover, Goto, Return, TypeOK
    <3> QED BY <3>1, <1>4 DEF Passed
  <2>3. CASE Handle(a)
    <3>1. PICK i \in batch[a] :
            /\ handled' = handled \cup {i}
            /\ IF batch[a] = {i}
               THEN Return(a)
               ELSE /\ batch' = [batch EXCEPT ![a] = @ \ {i}]
                    /\ UNCHANGED <<pc, inst, got, next>>
      BY <2>3 DEF Handle
    <3>2. /\ pc[a] = "processing" /\ lost' = lost
          /\ \A b \in Poller \ {a} : pc'[b] = pc[b] /\ batch'[b] = batch[b]
          /\ \/ batch[a] = {i}
             \/ pc'[a] = "processing" /\ batch'[a] = batch[a] \ {i}
      BY <2>3, <3>1 DEF Handle, Return, TypeOK
    <3> QED BY <3>1, <3>2, <1>4 DEF Passed
  <2>4. CASE HandleFails(a)
    <3>1. /\ handled' = handled /\ lost' = lost \cup batch[a]
          /\ \A b \in Poller \ {a} : pc'[b] = pc[b] /\ batch'[b] = batch[b]
      BY <2>4 DEF HandleFails, Catch, Return, TypeOK
    <3> QED BY <3>1, <1>4 DEF Passed
  <2> QED BY <1>6, <2>1, <2>2, <2>3, <2>4 DEF PollStep
<1> QED BY <1>1, <1>2, <1>3, <1>5, <1>6 DEF Next

\* The checkpoint never runs ahead of the work: every event at or before it
\* was processed, is in a batch under way, or was in a batch cut short.
THEOREM CheckpointsCovered == Spec => []CheckpointCovered
<1> DEFINE IInv == CheckpointCovered /\ Grounded
<1>1. Init => IInv
  BY DEF Init, CheckpointCovered, Grounded
<1>2. TypeOK /\ IInv /\ [Next]_vars => IInv'
  <2> SUFFICES ASSUME TypeOK, CheckpointCovered, Grounded, [Next]_vars
               PROVE  CheckpointCovered' /\ Grounded'
    OBVIOUS
  <2> USE DEF sourceVars, moduleVars, healthVars, pollVars, fateVars
  <2>1. \A e \in Event : Covered(e) => Covered(e)'
    BY CoveredForGood
  <2>2. \A n \in 0 .. MaxEvent : 1 .. n \subseteq Event
    BY PollingAssumption DEF Event
  <2>3. CASE UNCHANGED vars
    BY <2>3 DEF CheckpointCovered, Grounded, Covered, Passed, vars
  \* Most steps leave the checkpoint alone and no activation newly in
  \* "polling" or "saving".
  <2>4. ASSUME cp' = cp,
               \A a \in Poller : pc'[a] \in {"polling", "saving"} =>
                   /\ pc'[a] = pc[a]
                   /\ got'[a] = got[a] /\ next'[a] = next[a] /\ batch'[a] = batch[a]
        PROVE  CheckpointCovered' /\ Grounded'
    <3>1. CheckpointCovered'
      BY <2>1, <2>2, <2>4 DEF CheckpointCovered, TypeOK
    <3>2. \A a \in Poller : pc'[a] \in {"polling", "saving"} =>
            \A e \in 1 .. got'[a] : Covered(e)'
      BY <2>1, <2>2, <2>4 DEF Grounded, TypeOK
    <3>3. \A a \in Poller : pc'[a] = "saving" => batch'[a] = got'[a] + 1 .. next'[a]
      BY <2>4 DEF Grounded
    <3> QED BY <3>1, <3>2, <3>3 DEF Grounded
  <2>5. CASE Happen \/ Deactivate \/ Stop
    BY <2>5, <2>4 DEF Happen, Deactivate, Stop
  <2>6. CASE Crash
    BY <2>6, <2>4 DEF Crash
  <2>7. ASSUME NEW a \in Poller, Load(a) \/ Tick(a) \/ TimerFires(a)
        PROVE  CheckpointCovered' /\ Grounded'
    BY <2>7, <2>4 DEF Load, Tick, TimerFires, BeginPoll, TypeOK
  <2>8. ASSUME NEW a \in Poller, PollStep(a) PROVE CheckpointCovered' /\ Grounded'
    <3>1. CASE ReadCheckpoint(a)
      <4>1. /\ cp' = cp /\ got'[a] = cp /\ pc'[a] = "polling"
            /\ \A b \in Poller \ {a} : /\ pc'[b] = pc[b] /\ got'[b] = got[b]
                                       /\ next'[b] = next[b] /\ batch'[b] = batch[b]
        BY <3>1 DEF ReadCheckpoint, Goto, TypeOK
      <4>2. CheckpointCovered'
        BY <2>1, <2>2, <4>1 DEF CheckpointCovered, TypeOK
      <4>3. \A e \in 1 .. got'[a] : Covered(e)'
        BY <4>1, <4>2 DEF CheckpointCovered
      <4>4. \A b \in Poller \ {a} : pc'[b] \in {"polling", "saving"} =>
              \A e \in 1 .. got'[b] : Covered(e)'
        BY <2>1, <2>2, <4>1 DEF Grounded, TypeOK
      <4> QED BY <4>1, <4>2, <4>3, <4>4 DEF Grounded
    <3>2. CASE PollReturns(a)
      <4>1. /\ cp' = cp /\ got' = got /\ pc[a] = "polling"
            /\ next'[a] = upstream /\ batch'[a] = got[a] + 1 .. upstream
            /\ \A b \in Poller \ {a} : /\ pc'[b] = pc[b]
                                       /\ next'[b] = next[b] /\ batch'[b] = batch[b]
        BY <3>2 DEF PollReturns, Goto, TypeOK
      <4>2. CheckpointCovered'
        BY <2>1, <2>2, <4>1 DEF CheckpointCovered, TypeOK
      <4>3. \A b \in Poller : pc'[b] \in {"polling", "saving"} =>
              \A e \in 1 .. got'[b] : Covered(e)'
        BY <2>1, <2>2, <4>1 DEF Grounded, TypeOK
      <4>4. \A b \in Poller : pc'[b] = "saving" => batch'[b] = got'[b] + 1 .. next'[b]
        BY <4>1 DEF Grounded
      <4> QED BY <4>2, <4>3, <4>4 DEF Grounded
    <3>3. CASE SaveCheckpoint(a)
      <4>1. /\ pc[a] = "saving" /\ cp' = next[a]
            /\ batch[a] = {} \/ /\ pc'[a] \in {"recovered", "processing"}
                                /\ batch'[a] = batch[a]
            /\ pc'[a] \notin {"polling", "saving"}
            /\ \A b \in Poller \ {a} : /\ pc'[b] = pc[b] /\ got'[b] = got[b]
                                       /\ next'[b] = next[b] /\ batch'[b] = batch[b]
        BY <3>3 DEF SaveCheckpoint, Stored, Goto, Return, TypeOK
      <4>2. \A e \in 1 .. next[a] : Covered(e)'
        <5> SUFFICES ASSUME NEW e \in 1 .. next[a] PROVE Covered(e)'
          OBVIOUS
        <5>1. CASE e \in 1 .. got[a]
          BY <2>1, <2>2, <4>1, <5>1 DEF Grounded, TypeOK
        <5>2. CASE e \notin 1 .. got[a]
          <6>1. e \in batch[a]
            BY <4>1, <5>2 DEF Grounded, TypeOK
          <6> QED BY <4>1, <6>1 DEF Covered, Passed
        <5> QED BY <5>1, <5>2
      <4>3. CheckpointCovered'
        BY <4>1, <4>2 DEF CheckpointCovered
      <4>4. \A b \in Poller : pc'[b] \in {"polling", "saving"} =>
              \A e \in 1 .. got'[b] : Covered(e)'
        BY <2>1, <2>2, <4>1 DEF Grounded, TypeOK
      <4>5. \A b \in Poller : pc'[b] = "saving" => batch'[b] = got'[b] + 1 .. next'[b]
        BY <4>1 DEF Grounded
      <4> QED BY <4>3, <4>4, <4>5 DEF Grounded
    <3>4. CASE Recover(a)
      BY <3>4, <2>4 DEF Recover, Goto, Return, TypeOK
    <3>5. CASE Handle(a)
      BY <3>5, <2>4 DEF Handle, Return, TypeOK
    <3>6. CASE PollFails(a) \/ HandleFails(a)
      BY <3>6, <2>4 DEF PollFails, HandleFails, Catch, Return, TypeOK
    <3>7. CASE Schedule(a) \/ Retry(a)
      BY <3>7, <2>4 DEF Schedule, Retry, BeginPoll, Return, TypeOK
    <3> QED
      BY <2>8, <3>1, <3>2, <3>3, <3>4, <3>5, <3>6, <3>7 DEF PollStep
  <2> QED BY <2>3, <2>5, <2>6, <2>7, <2>8 DEF Next
<1> QED BY <1>1, <1>2, TypeCorrect, PTL DEF Spec

\* With a listener, the counter the code keeps is the number of failures.
Counted == \A g \in Instance : errors[g] = streak[g]

LEMMA CountedInvariant == ASSUME Listening PROVE Spec => []Counted
<1>1. Init => Counted
  BY DEF Init, Counted
<1>2. TypeOK /\ Counted /\ [Next]_vars => Counted'
  <2> SUFFICES ASSUME TypeOK, Counted, [Next]_vars PROVE Counted'
    OBVIOUS
  <2> USE DEF sourceVars, moduleVars, healthVars, pollVars, fateVars
  <2>1. CASE UNCHANGED <<errors, streak>>
    BY <2>1 DEF Counted
  <2>2. CASE Crash
    BY <2>2 DEF Crash, FreshHealth, Counted
  <2>3. ASSUME NEW a \in Poller, SaveCheckpoint(a) PROVE Counted'
    <3>1. inst[a] \in Instance
      BY <2>3 DEF SaveCheckpoint, TypeOK
    <3> QED BY <2>3, <3>1 DEF SaveCheckpoint, Counted, TypeOK
  <2>4. ASSUME NEW a \in Poller, Recover(a) PROVE Counted'
    BY <2>4 DEF Recover, Counted, TypeOK
  <2>5. ASSUME NEW a \in Poller, PollFails(a) \/ HandleFails(a) PROVE Counted'
    BY <2>5 DEF PollFails, HandleFails, Catch, Counted, TypeOK
  <2> QED
    BY <2>1, <2>2, <2>3, <2>4, <2>5
    DEF Next, vars, Happen, Deactivate, Stop, Load, Tick, TimerFires, PollStep,
        ReadCheckpoint, PollReturns, Handle, Schedule, Retry
<1> QED BY <1>1, <1>2, TypeCorrect, PTL DEF Spec

\* A source in service that has failed Threshold times in a row is not polled,
\* but for polls that had begun or that the retry timer began: provided that
\* somebody listens to "error".
THEOREM OutagesOpenCircuit == ASSUME Listening PROVE Spec => []OutageOpensCircuit
<1> DEFINE Busy(a, g) == inst[a] = g /\ pc[a] \in {"reading", "polling", "saving", "recovered"}
<1>1. Init => OutageOpensCircuit
  BY DEF Init, OutageOpensCircuit
<1>2. TypeOK /\ Fresh /\ Counted /\ OutageOpensCircuit /\ [Next]_vars => OutageOpensCircuit'
  <2> SUFFICES ASSUME TypeOK, Fresh, Counted, OutageOpensCircuit, [Next]_vars,
                      active', streak'[gen'] >= Threshold, ~open'[gen']
               PROVE  \E a \in Poller : Busy(a, gen)'
    BY DEF OutageOpensCircuit
  <2> USE PollingAssumption DEF sourceVars, moduleVars, healthVars, pollVars, fateVars
  <2>1. CASE UNCHANGED vars \/ Happen \/ Stop
    BY <2>1 DEF OutageOpensCircuit, vars, Happen, Stop
  <2>2. CASE Deactivate \/ Crash
    BY <2>2 DEF Deactivate, Crash
  <2>3. ASSUME NEW a \in Poller, Load(a) PROVE FALSE
    <3>1. /\ gen + 1 \in Instance /\ gen + 1 > gen
          /\ gen' = gen + 1 /\ streak' = streak
      BY <2>3 DEF Load, TypeOK, Instance
    <3> QED BY <3>1 DEF Fresh
  \* Elsewhere the registered instance stays, and its record says what it said,
  \* as long as the activation that moves is not of this instance.
  <2>4. ASSUME NEW a \in Poller, active, gen' = gen, gen \in Instance,
               streak[gen] >= Threshold, ~open[gen],
               \A b \in Poller \ {a} : pc'[b] = pc[b] /\ inst'[b] = inst[b],
               Busy(a, gen) => Busy(a, gen)'
        PROVE  \E b \in Poller : Busy(b, gen)'
    BY <2>4 DEF OutageOpensCircuit
  <2>5. ASSUME NEW a \in Poller, Tick(a) \/ TimerFires(a)
        PROVE  \E b \in Poller : Busy(b, gen)'
    <3>0. /\ active' = active /\ gen' = gen
          /\ streak' = streak /\ open' = open /\ pc[a] = "idle"
      BY <2>5 DEF Tick, TimerFires
    <3>1. active /\ gen \in Instance
      BY <3>0 DEF TypeOK, Instance
    <3>2. \A b \in Poller \ {a} : pc'[b] = pc[b] /\ inst'[b] = inst[b]
      BY <2>5 DEF Tick, TimerFires, BeginPoll, TypeOK
    <3> QED BY <3>0, <3>1, <3>2, <2>4
  <2>6. ASSUME NEW a \in Poller, PollStep(a) PROVE \E b \in Poller : Busy(b, gen)'
    <3>0. active /\ gen' = gen /\ gen \in Instance
      <4>1. active' = active /\ gen' = gen
        BY <2>6 DEF PollStep, ReadCheckpoint, PollReturns, SaveCheckpoint, Recover,
                    Handle, PollFails, HandleFails, Schedule, Retry
      <4> QED BY <4>1 DEF TypeOK, Instance
    <3>1. CASE ReadCheckpoint(a) \/ PollReturns(a)
      BY <3>0, <3>1, <2>4 DEF ReadCheckpoint, PollReturns, Goto, TypeOK
    <3>2. CASE SaveCheckpoint(a)
      <4>1. CASE errors[inst[a]] > 0
        BY <3>0, <3>2, <4>1, <2>4 DEF SaveCheckpoint, Goto, TypeOK
      <4>2. CASE ~(errors[inst[a]] > 0)
        <5>1. streak' = [streak EXCEPT ![inst[a]] = 0] /\ open' = open
          BY <3>2, <4>2 DEF SaveCheckpoint
        <5>2. inst[a] # gen
          BY <3>0, <5>1 DEF TypeOK
        <5>3. \A b \in Poller \ {a} : pc'[b] = pc[b] /\ inst'[b] = inst[b]
          BY <3>2 DEF SaveCheckpoint, Goto, Return, TypeOK
        <5> QED BY <3>0, <5>1, <5>2, <5>3, <2>4 DEF TypeOK
      <4> QED BY <4>1, <4>2
    <3>3. CASE Recover(a)
      <4>1. streak' = [streak EXCEPT ![inst[a]] = 0] /\ open' = open
        BY <3>3 DEF Recover
      <4>2. inst[a] # gen
        BY <3>0, <4>1 DEF TypeOK
      <4>3. \A b \in Poller \ {a} : pc'[b] = pc[b] /\ inst'[b] = inst[b]
        BY <3>3 DEF Recover, Goto, Return, TypeOK
      <4> QED BY <3>0, <4>1, <4>2, <4>3, <2>4 DEF TypeOK
    <3>4. CASE Handle(a)
      <4>1. /\ streak' = streak /\ open' = open /\ pc[a] = "processing"
            /\ \A b \in Poller \ {a} : pc'[b] = pc[b] /\ inst'[b] = inst[b]
        BY <3>4 DEF Handle, Return, TypeOK
      <4> QED BY <3>0, <4>1, <2>4
    <3>5. CASE PollFails(a) \/ HandleFails(a)
      <4>1. Catch(a) /\ pc[a] # "idle" /\ inst[a] \in Instance
        BY <3>5 DEF PollFails, HandleFails, TypeOK
      <4>2. \A b \in Poller \ {a} : pc'[b] = pc[b] /\ inst'[b] = inst[b]
        BY <4>1 DEF Catch, Return, TypeOK
      <4>3. inst[a] # gen
        <5> SUFFICES ASSUME inst[a] = gen PROVE FALSE
          OBVIOUS
        <5>1. streak'[gen] = Capped(streak[gen] + 1)
          BY <4>1, <3>0 DEF Catch, TypeOK
        <5>2. streak[gen] + 1 >= Threshold
          BY <5>1, <3>0 DEF Capped, TypeOK
        <5>3. Trips(gen)
          BY <5>2, <3>0 DEF Trips, Counted
        <5> QED BY <4>1, <5>3, <3>0 DEF Catch, TypeOK
      <4>4. streak'[gen] = streak[gen] /\ open'[gen] = open[gen]
        BY <4>1, <4>3, <3>0 DEF Catch, TypeOK
      <4> QED BY <3>0, <4>2, <4>3, <4>4, <2>4
    <3>6. CASE Schedule(a)
      <4>1. /\ streak' = streak /\ open' = open /\ pc[a] = "opening"
            /\ \A b \in Poller \ {a} : pc'[b] = pc[b] /\ inst'[b] = inst[b]
        BY <3>6 DEF Schedule, Return, TypeOK
      <4> QED BY <3>0, <4>1, <2>4
    <3>7. CASE Retry(a)
      \* The circuit is closed now, so the retry polls at once.
      <4>1. BeginPoll(a, gen)
        BY <3>0, <3>7 DEF Retry
      <4> QED BY <3>0, <4>1 DEF BeginPoll, TypeOK
    <3> QED
      BY <2>6, <3>1, <3>2, <3>3, <3>4, <3>5, <3>6, <3>7 DEF PollStep
  <2> QED BY <2>1, <2>2, <2>3, <2>5, <2>6 DEF Next
<1> QED BY <1>1, <1>2, TypeCorrect, FreshInvariant, CountedInvariant, PTL DEF Spec

-------------------------------------------------------------------------------
(* Where the documented guarantee holds.                                   *)

\* A step that is neither a crash nor an exception out of processEvent()
Undisturbed == Next /\ ~Crash /\ \A a \in Poller : ~HandleFails(a)

LEMMA NothingIsLost == lost = {} /\ [Undisturbed]_vars => lost' = {}
<1> SUFFICES ASSUME lost = {}, [Undisturbed]_vars PROVE lost' = {}
  OBVIOUS
<1> USE DEF fateVars
<1>1. CASE UNCHANGED vars
  BY <1>1 DEF vars
<1>2. CASE Happen \/ Deactivate \/ Stop
  BY <1>2 DEF Happen, Deactivate, Stop
<1>3. ASSUME NEW a \in Poller, Load(a) \/ Tick(a) \/ TimerFires(a) PROVE lost' = {}
  BY <1>3 DEF Load, Tick, TimerFires
<1>4. ASSUME NEW a \in Poller, PollStep(a), ~HandleFails(a) PROVE lost' = {}
  BY <1>4 DEF PollStep, ReadCheckpoint, PollReturns, SaveCheckpoint, Recover, Handle,
              PollFails, Schedule, Retry
<1> QED
  BY <1>1, <1>2, <1>3, <1>4 DEF Undisturbed, Next

\* "At-least-once delivery" (scale-design.md:209) holds as long as the process does
\* not crash and processing an event does not throw, whatever polls overlap, fail,
\* or are cut off from their module: each event up to the stored checkpoint was
\* processed, or is in the hands of an activation.
THEOREM AtLeastOnceUndisturbed == Init /\ [][Undisturbed]_vars => []AtLeastOnce
<1>1. Init => lost = {}
  BY DEF Init
<1>2. lost = {} /\ [Undisturbed]_vars => (lost = {})'
  BY NothingIsLost
<1>3. [Undisturbed]_vars => [Next]_vars
  BY DEF Undisturbed
<1>4. lost = {} /\ CheckpointCovered => AtLeastOnce
  BY DEF CheckpointCovered, Covered, AtLeastOnce
<1>5. Init /\ [][Next]_vars => []CheckpointCovered
  BY CheckpointsCovered DEF Spec
<1> QED
  BY <1>1, <1>2, <1>3, <1>4, <1>5, PTL
==============================================================================
