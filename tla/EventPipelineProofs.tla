------------------------- MODULE EventPipelineProofs -------------------------
(* Theorems about EventPipeline, for any calls, events, modules and routes. *)
EXTENDS EventPipeline, TLAPS

(***************************************************************************)
(* Type correctness.  What TypeOK says of the calls is kept apart: every   *)
(* step of a call goes through Goto, Return, Resolve or Abort.             *)
(***************************************************************************)
CallOK(c) ==
    /\ pc[c] \in Engaged \cup {"idle"}
    /\ ev[c] \in Event
    /\ mod[c] \in Module
    /\ todo[c] \in SUBSET Route
    /\ rest[c] \in SUBSET Module
    /\ todo[c] \subseteq Matched(ev[c], mod[c])
    /\ todo[c] # {} => pc[c] \in {"routing", "delivering"}
    /\ pc[c] = "delivering" => todo[c] # {}

Functional ==
    /\ pc = [c \in Call |-> pc[c]]
    /\ ev = [c \in Call |-> ev[c]]
    /\ mod = [c \in Call |-> mod[c]]
    /\ todo = [c \in Call |-> todo[c]]
    /\ rest = [c \in Call |-> rest[c]]

CallsOK == Functional /\ \A c \in Call : CallOK(c)

SharedOK ==
    /\ active \subseteq Module
    /\ wal \subseteq Event
    /\ acked \subseteq Event
    /\ marked \subseteq Event
    /\ history \subseteq Event \X Module
    /\ ended \subseteq Event \X Module \X Route
    /\ broken \subseteq Event
    /\ crashes \in 0 .. MaxCrash

LEMMA TypeParts == TypeOK <=> CallsOK /\ SharedOK
<1>1. ASSUME TypeOK PROVE CallsOK /\ SharedOK
  BY <1>1 DEF TypeOK, CallsOK, Functional, CallOK, SharedOK
<1>2. ASSUME CallsOK, SharedOK PROVE TypeOK
  BY <1>2 DEF TypeOK, CallsOK, Functional, CallOK, SharedOK
<1>3. QED
  BY <1>1, <1>2

LEMMA NobodyType == NoEvent \in Event /\ NoModule \in Module
BY PipelineAssumption DEF NoEvent, NoModule

LEMMA MatchedType == \A e \in Event, m \in Module : Matched(e, m) \subseteq Route
BY DEF Matched

\* A call that returns is as good as a new one.
LEMMA ReturnOK ==
    ASSUME CallsOK, NEW c \in Call, Return(c)
    PROVE  CallsOK'
<1>1. Functional'
  BY DEF CallsOK, Functional, Return
<1>2. CallOK(c)'
  BY NobodyType DEF CallsOK, Functional, CallOK, Return
<1>3. ASSUME NEW d \in Call, d # c PROVE CallOK(d)'
  BY <1>3 DEF CallsOK, Functional, CallOK, Return, Matched
<1>4. QED
  BY <1>1, <1>2, <1>3 DEF CallsOK

\* So is one that has taken a route.
LEMMA ResolveOK ==
    ASSUME CallsOK, NEW c \in Call, NEW r, First(c, r), Resolve(c, r)
    PROVE  CallsOK'
<1>1. Functional'
  BY DEF CallsOK, Functional, Resolve, Goto
<1>2. CallOK(c)'
  BY DEF CallsOK, Functional, CallOK, Resolve, Goto, Matched, Engaged
<1>3. ASSUME NEW d \in Call, d # c PROVE CallOK(d)'
  BY <1>3 DEF CallsOK, Functional, CallOK, Resolve, Goto, Matched
<1>4. QED
  BY <1>1, <1>2, <1>3 DEF CallsOK

\* A route that is taken, and a call that is aborted, leave the observer's
\* sets well typed.
LEMMA FateOK ==
    ASSUME CallsOK, SharedOK, NEW c \in Call, NEW r \in Route, 
           \/ Resolve(c, r)
           \/ Abort(c) /\ UNCHANGED ended
    PROVE  ended' \subseteq Event \X Module \X Route
BY DEF CallsOK, CallOK, SharedOK, Resolve, Abort

LEMMA FailOK ==
    ASSUME CallsOK, NEW c \in Call, NEW r, First(c, r), Fail(c, r)
    PROVE  CallsOK'
<1>1. Resolve(c, r) \/ Return(c)
  BY DEF Fail, Abort
<1>2. QED
  BY <1>1, ResolveOK, ReturnOK

LEMMA RouteTyped ==
    ASSUME CallsOK, SharedOK, NEW c \in Call, NEW r \in Route, RouteStep(c, r)
    PROVE  CallsOK' /\ SharedOK'
<1>1. CASE TransformPasses(c, r)
  <2>1. Functional'
    BY <1>1 DEF CallsOK, Functional, TransformPasses, Goto
  <2>2. CallOK(c)'
    BY <1>1 DEF CallsOK, Functional, CallOK, TransformPasses, Goto, First, Matched, Engaged
  <2>3. ASSUME NEW d \in Call, d # c PROVE CallOK(d)'
    BY <1>1, <2>3 DEF CallsOK, Functional, CallOK, TransformPasses, Goto, Matched
  <2>4. SharedOK'
    BY <1>1 DEF SharedOK, TransformPasses, busVars, fateVars
  <2>5. QED
    BY <2>1, <2>2, <2>3, <2>4 DEF CallsOK
<1>2. ASSUME First(c, r), Fail(c, r),
             UNCHANGED <<active, busVars, history, broken, crashes>>
      PROVE  CallsOK' /\ SharedOK'
  <2>1. CallsOK'
    BY <1>2, FailOK
  <2>2. ended' \subseteq Event \X Module \X Route
    BY <1>2, FateOK DEF Fail
  <2>3. QED
    BY <1>2, <2>1, <2>2 DEF SharedOK, busVars
<1>3. ASSUME First(c, r), Resolve(c, r),
             UNCHANGED <<active, busVars, history, broken, crashes>>
      PROVE  CallsOK' /\ SharedOK'
  <2>1. CallsOK'
    BY <1>3, ResolveOK
  <2>2. ended' \subseteq Event \X Module \X Route
    BY <1>3, FateOK
  <2>3. QED
    BY <1>3, <2>1, <2>2 DEF SharedOK, busVars
<1>4. CASE Misconfigured(c, r)
  BY <1>2, <1>4 DEF Misconfigured
<1>5. CASE TransformDrops(c, r)
  BY <1>3, <1>5 DEF TransformDrops
<1>6. CASE TransformThrows(c, r)
  BY <1>2, <1>6 DEF TransformThrows
<1>7. CASE Deliver(c, r)
  BY <1>3, <1>7 DEF Deliver
<1>8. CASE DeliverThrows(c, r)
  BY <1>2, <1>8 DEF DeliverThrows
<1>9. QED
  BY <1>1, <1>4, <1>5, <1>6, <1>7, <1>8 DEF RouteStep

\* A step that touches no call but c, and leaves c well typed.
LEMMA OtherCalls ==
    ASSUME CallsOK, NEW c \in Call, Functional', CallOK(c)',
           \A d \in Call \ {c} : /\ pc'[d] = pc[d]
                                 /\ ev'[d] = ev[d]
                                 /\ mod'[d] = mod[d]
                                 /\ todo'[d] = todo[d]
                                 /\ rest'[d] = rest[d]
    PROVE  CallsOK'
BY DEF CallsOK, CallOK, Matched

LEMMA TypeInvariant == TypeOK /\ [Next]_vars => TypeOK'
<1> SUFFICES ASSUME CallsOK, SharedOK, [Next]_vars
             PROVE  CallsOK' /\ SharedOK'
  <2>1. TypeOK <=> CallsOK /\ SharedOK
    BY TypeParts
  <2>2. TypeOK' <=> CallsOK' /\ SharedOK'
    BY TypeParts, PTL
  <2>3. QED
    BY <2>1, <2>2
<1>1. ASSUME NEW c \in Call, NEW e \in Event, InjectAll(c, e)
      PROVE  CallsOK' /\ SharedOK'
  <2>1. CallsOK'
    BY <1>1, OtherCalls DEF CallsOK, Functional, CallOK, InjectAll, Goto, Matched, Engaged
  <2>2. QED
    BY <1>1, <2>1 DEF SharedOK, InjectAll, busVars, fateVars
<1>2. ASSUME NEW c \in Call, NEW e \in Event, NEW m \in Module, Inject(c, e, m)
      PROVE  CallsOK' /\ SharedOK'
  <2>1. CallsOK'
    BY <1>2, OtherCalls DEF CallsOK, Functional, CallOK, Inject, Goto, Matched, Engaged
  <2>2. QED
    BY <1>2, <2>1 DEF SharedOK, Inject, busVars, fateVars
<1>3. ASSUME NEW c \in Call, CallStep(c)
      PROVE  CallsOK' /\ SharedOK'
  <2>1. ASSUME NEW m \in Module, Visit(c, m)
        PROVE  CallsOK' /\ SharedOK'
    <3>1. Functional'
      BY <2>1 DEF CallsOK, Functional, Visit, Goto
    <3>2. CallOK(c)'
      BY <2>1 DEF CallsOK, Functional, CallOK, Visit, Goto, Matched, Engaged
    <3>3. CallsOK'
      BY <2>1, <3>1, <3>2, OtherCalls DEF CallsOK, Functional, Visit, Goto
    <3>4. QED
      BY <2>1, <3>3 DEF SharedOK, Visit, busVars, fateVars
  <2>2. CASE InjectReturns(c)
    BY <2>2, ReturnOK DEF InjectReturns, SharedOK, busVars, fateVars
  <2>3. CASE BreakLoop(c)
    <3>1. CallsOK'
      BY <2>3, OtherCalls DEF CallsOK, Functional, CallOK, BreakLoop, Goto, Matched, Engaged
    <3>2. QED
      BY <2>3, <3>1 DEF CallsOK, CallOK, SharedOK, BreakLoop, busVars
  <2>4. CASE Publish(c)
    <3>1. Functional'
      BY <2>4 DEF CallsOK, Functional, Publish, Goto
    <3>2. CallOK(c)'
      BY <2>4, MatchedType DEF CallsOK, Functional, CallOK, Publish, Goto, Matched, Engaged
    <3>3. CallsOK'
      BY <2>4, <3>1, <3>2, OtherCalls DEF CallsOK, Functional, Publish, Goto
    <3>4. QED
      BY <2>4, <3>3 DEF CallsOK, CallOK, SharedOK, Publish, fateVars
  <2>5. CASE PublishFails(c)
    BY <2>5, ReturnOK DEF PublishFails, Abort, CallsOK, CallOK, SharedOK, busVars
  <2>6. ASSUME NEW r \in Route, RouteStep(c, r)
        PROVE  CallsOK' /\ SharedOK'
    BY <2>6, RouteTyped
  <2>7. CASE Record(c)
    <3>1. CallsOK'
      BY <2>7, OtherCalls DEF CallsOK, Functional, CallOK, Record, Goto, Matched, Engaged
    <3>2. QED
      BY <2>7, <3>1 DEF CallsOK, CallOK, SharedOK, Record, busVars, fateVars
  <2>8. CASE Ack(c)
    <3>1. SharedOK'
      BY <2>8 DEF CallsOK, CallOK, SharedOK, Ack, fateVars
    <3>2. CASE rest[c] = {}
      BY <2>8, <3>1, <3>2, ReturnOK DEF Ack
    <3>3. CASE rest[c] # {}
      <4>1. CallsOK'
        BY <2>8, <3>3, OtherCalls DEF CallsOK, Functional, CallOK, Ack, Goto, Matched, Engaged
      <4>2. QED
        BY <3>1, <4>1
    <3>4. QED
      BY <3>2, <3>3
  <2>9. CASE AckFails(c)
    BY <2>9, ReturnOK DEF AckFails, Abort, CallsOK, CallOK, SharedOK
  <2>10. QED
    BY <1>3, <2>1, <2>2, <2>3, <2>4, <2>5, <2>6, <2>7, <2>8, <2>9 DEF CallStep
<1>4. ASSUME NEW m \in Module, Deactivate(m)
      PROVE  CallsOK' /\ SharedOK'
  BY <1>4 DEF Deactivate, CallsOK, Functional, CallOK, SharedOK, Matched,
              busVars, callVars, fateVars
<1>5. CASE Crash
  <2>1. CallsOK'
    BY <1>5, NobodyType DEF Crash, CallsOK, Functional, CallOK
  <2>2. crashes' \in 0 .. MaxCrash
    BY <1>5, PipelineAssumption DEF Crash, SharedOK
  <2>3. QED
    BY <1>5, <2>1, <2>2 DEF Crash, SharedOK
<1>6. CASE UNCHANGED vars
  BY <1>6 DEF vars, busVars, callVars, fateVars, CallsOK, Functional, CallOK, SharedOK, Matched
<1>7. QED
  BY <1>1, <1>2, <1>3, <1>4, <1>5, <1>6 DEF Next

\* Every reachable state is well typed, and a call has only routes before it
\* that match its event, between its publish() and its ack().
THEOREM TypeCorrect == Spec => []TypeOK
<1>1. Init => TypeOK
  BY NobodyType, PipelineAssumption DEF Init, TypeOK
<1>2. TypeOK /\ [Next]_vars => TypeOK'
  BY TypeInvariant
<1>3. QED
  BY <1>1, <1>2, PTL DEF Spec

(***************************************************************************)
(* What an acknowledgement says.  AckedIsResolved is not inductive: one    *)
(* has to know of a call that is about to acknowledge that its event is    *)
(* done, and for that, of a call in the loop over the routes that those    *)
(* behind it are.                                                          *)
(***************************************************************************)
Answered(e, m, r) == <<e, m, r>> \in ended

Pursued(c) ==
    /\ pc[c] \in {"routing", "delivering"} =>
          \A r \in Matched(ev[c], mod[c]) : r \in todo[c] \/ Answered(ev[c], mod[c], r)
    /\ pc[c] = "acking" => ev[c] \in broken \/ Resolved(ev[c], mod[c])

\* Nobody revokes an ended.
LEMMA FateGrows ==
    ASSUME [Next]_vars
    PROVE  ended \subseteq ended' /\ broken \subseteq broken'
<1>1. ASSUME NEW c \in Call, CallStep(c)
      PROVE  ended \subseteq ended' /\ broken \subseteq broken'
  <2>1. ASSUME NEW r \in Route, RouteStep(c, r)
        PROVE  ended \subseteq ended' /\ broken \subseteq broken'
    BY <2>1 DEF RouteStep, TransformPasses, Misconfigured, TransformDrops,
                TransformThrows, Deliver, DeliverThrows, Fail, Resolve, Abort, fateVars
  <2>2. QED
    BY <1>1, <2>1 DEF CallStep, Visit, InjectReturns, BreakLoop, Publish,
                      PublishFails, Record, Ack, AckFails, Abort, fateVars
<1>2. QED
  BY <1>1 DEF Next, InjectAll, Inject, Deactivate, Crash, vars, fateVars

LEMMA ResolvedStays ==
    ASSUME ended \subseteq ended', NEW e, NEW m
    PROVE  /\ Resolved(e, m) => Resolved(e, m)'
           /\ \A r : Answered(e, m, r) => Answered(e, m, r)'
BY DEF Resolved, Answered, Matched

\* A step of one call leaves the others where they are.
LEMMA OwnSteps ==
    ASSUME CallsOK, NEW c \in Call, CallStep(c), NEW d \in Call, d # c
    PROVE  pc'[d] = pc[d] /\ ev'[d] = ev[d] /\ mod'[d] = mod[d] /\ todo'[d] = todo[d]
<1>1. ASSUME Return(c)
      PROVE  pc'[d] = pc[d] /\ ev'[d] = ev[d] /\ mod'[d] = mod[d] /\ todo'[d] = todo[d]
  BY <1>1 DEF CallsOK, Functional, Return
<1>2. ASSUME NEW r \in Route, Resolve(c, r)
      PROVE  pc'[d] = pc[d] /\ ev'[d] = ev[d] /\ mod'[d] = mod[d] /\ todo'[d] = todo[d]
  BY <1>2 DEF CallsOK, Functional, Resolve, Goto
<1>3. ASSUME NEW r \in Route, RouteStep(c, r)
      PROVE  pc'[d] = pc[d] /\ ev'[d] = ev[d] /\ mod'[d] = mod[d] /\ todo'[d] = todo[d]
  <2>1. CASE TransformPasses(c, r)
    BY <2>1 DEF TransformPasses, Goto, CallsOK, Functional
  <2>2. CASE ~TransformPasses(c, r)
    BY <1>1, <1>2, <1>3, <2>2 DEF RouteStep, Misconfigured, TransformDrops,
       TransformThrows, Deliver, DeliverThrows, Fail, Abort
  <2>3. QED
    BY <2>1, <2>2
<1>4. CASE \E m \in Module : Visit(c, m)
  BY <1>4 DEF Visit, Goto, CallsOK, Functional
<1>5. CASE InjectReturns(c) \/ PublishFails(c) \/ AckFails(c)
  BY <1>1, <1>5 DEF InjectReturns, PublishFails, AckFails, Abort
<1>6. CASE BreakLoop(c) \/ Publish(c) \/ Record(c)
  BY <1>6 DEF BreakLoop, Publish, Record, Goto, CallsOK, Functional
<1>7. CASE Ack(c)
  BY <1>1, <1>7 DEF Ack, Goto, CallsOK, Functional
<1>8. QED
  BY <1>3, <1>4, <1>5, <1>6, <1>7 DEF CallStep

\* A call that does not move keeps what it has.
LEMMA StandsStill ==
    ASSUME NEW c \in Call, Pursued(c),
           ended \subseteq ended', broken \subseteq broken',
           pc'[c] = pc[c], ev'[c] = ev[c], mod'[c] = mod[c], todo'[c] = todo[c]
    PROVE  Pursued(c)'
<1>1. /\ Resolved(ev[c], mod[c]) => Resolved(ev[c], mod[c])'
      /\ \A r : Answered(ev[c], mod[c], r) => Answered(ev[c], mod[c], r)'
  BY ResolvedStays
<1>2. Matched(ev[c], mod[c])' = Matched(ev[c], mod[c])
  BY DEF Matched
<1>3. QED
  BY <1>1, <1>2 DEF Pursued, Resolved, Answered, Matched

\* A call that has taken a route has it answered.
LEMMA RouteTaken ==
    ASSUME CallsOK, NEW c \in Call, Pursued(c), NEW r \in Route, 
           pc[c] \in {"routing", "delivering"}, Resolve(c, r)
    PROVE  Pursued(c)'
<1>1. /\ ended' = ended \cup {<<ev[c], mod[c], r>>}
      /\ ev' = ev /\ mod' = mod
      /\ pc'[c] = "routing"
      /\ todo'[c] = todo[c] \ {r}
  BY DEF Resolve, Goto, CallsOK, Functional
<1>2. ASSUME NEW q \in Matched(ev[c], mod[c])
      PROVE  q \in todo'[c] \/ Answered(ev[c], mod[c], q)'
  BY <1>1, <1>2 DEF Pursued, Answered
<1>3. Matched(ev[c], mod[c])' = Matched(ev[c], mod[c])
  BY <1>1 DEF Matched
<1>4. QED
  BY <1>1, <1>2, <1>3 DEF Pursued, Answered

LEMMA Idle == ASSUME CallsOK, NEW c \in Call, Return(c) PROVE Pursued(c)'
BY DEF CallsOK, Functional, Return, Pursued

LEMMA CallPursues ==
    ASSUME CallsOK, NEW c \in Call, Pursued(c), CallStep(c),
           ended \subseteq ended', broken \subseteq broken'
    PROVE  Pursued(c)'
<1>1. ASSUME NEW r \in Route, RouteStep(c, r)
      PROVE  Pursued(c)'
  <2>1. CASE TransformPasses(c, r)
    BY <2>1 DEF TransformPasses, Goto, CallsOK, Functional, Pursued, Answered, Matched, fateVars
  <2>3. CASE ~TransformPasses(c, r)
    BY <1>1, <2>3, RouteTaken, Idle DEF RouteStep, Misconfigured, TransformDrops,
       TransformThrows, Deliver, DeliverThrows, Fail, Abort
  <2>4. QED
    BY <2>1, <2>3
<1>2. CASE \E m \in Module : Visit(c, m)
  BY <1>2 DEF Visit, Goto, CallsOK, Functional, Pursued
<1>3. CASE InjectReturns(c) \/ PublishFails(c) \/ AckFails(c)
  BY <1>3, Idle DEF InjectReturns, PublishFails, AckFails, Abort
<1>4. CASE BreakLoop(c)
  BY <1>4 DEF BreakLoop, Goto, CallsOK, Functional, Pursued
<1>5. CASE Publish(c)
  BY <1>5 DEF Publish, Goto, CallsOK, Functional, Pursued, Matched
<1>6. CASE Record(c)
  <2>1. Resolved(ev[c], mod[c])
    BY <1>6 DEF Record, Goto, Pursued, Resolved, Answered
  <2>2. QED
    BY <1>6, <2>1, ResolvedStays DEF Record, Goto, CallsOK, Functional, Pursued
<1>7. CASE Ack(c)
  BY <1>7, Idle DEF Ack, Goto, CallsOK, Functional, Pursued
<1>8. QED
  BY <1>1, <1>2, <1>3, <1>4, <1>5, <1>6, <1>7 DEF CallStep

AllPursued == \A c \in Call : Pursued(c)

LEMMA PursuedInvariant == TypeOK /\ AllPursued /\ [Next]_vars => AllPursued'
<1> SUFFICES ASSUME CallsOK, AllPursued, [Next]_vars
             PROVE  AllPursued'
  BY TypeParts
<1>1. ended \subseteq ended' /\ broken \subseteq broken'
  BY FateGrows
<1>2. ASSUME NEW c \in Call, CallStep(c)
      PROVE  AllPursued'
  <2>1. ASSUME NEW d \in Call, d # c PROVE Pursued(d)'
    BY <1>1, <1>2, <2>1, OwnSteps, StandsStill DEF AllPursued
  <2>2. Pursued(c)'
    BY <1>1, <1>2, CallPursues DEF AllPursued
  <2>3. QED
    BY <2>1, <2>2 DEF AllPursued
<1>3. ASSUME NEW c \in Call, NEW e \in Event,
             InjectAll(c, e) \/ \E m \in Module : Inject(c, e, m)
      PROVE  AllPursued'
  <2>1. ASSUME NEW d \in Call, d # c PROVE Pursued(d)'
    BY <1>1, <1>3, <2>1, StandsStill
       DEF AllPursued, InjectAll, Inject, Goto, CallsOK, Functional
  <2>2. Pursued(c)'
    BY <1>3 DEF InjectAll, Inject, Goto, CallsOK, Functional, Pursued
  <2>3. QED
    BY <2>1, <2>2 DEF AllPursued
<1>4. CASE (\E m \in Module : Deactivate(m)) \/ UNCHANGED vars
  BY <1>1, <1>4, StandsStill DEF AllPursued, Deactivate, vars, callVars
<1>5. CASE Crash
  BY <1>5 DEF Crash, AllPursued, Pursued
<1>6. QED
  BY <1>2, <1>3, <1>4, <1>5 DEF Next

LEMMA AckedInvariant ==
    TypeOK /\ AllPursued /\ AckedIsResolved /\ [Next]_vars => AckedIsResolved'
<1> SUFFICES ASSUME CallsOK, AllPursued, AckedIsResolved, [Next]_vars,
                    NEW e \in (acked \cup marked)'
             PROVE  e \in broken' \/ \E m \in Module : Resolved(e, m)'
  BY TypeParts DEF AckedIsResolved
<1>1. ended \subseteq ended' /\ broken \subseteq broken'
  BY FateGrows
<1>2. CASE e \in acked \cup marked
  BY <1>1, <1>2, ResolvedStays DEF AckedIsResolved
<1>3. ASSUME NEW c \in Call, pc[c] = "acking", e = ev[c]
      PROVE  e \in broken' \/ \E m \in Module : Resolved(e, m)'
  <2>1. e \in broken \/ Resolved(e, mod[c])
    BY <1>3 DEF AllPursued, Pursued
  <2>2. mod[c] \in Module
    BY DEF CallsOK, CallOK
  <2>3. QED
    BY <1>1, <2>1, <2>2, ResolvedStays
<1>4. ASSUME e \notin acked \cup marked
      PROVE  \E c \in Call : pc[c] = "acking" /\ e = ev[c]
  <2>1. ASSUME NEW c \in Call, CallStep(c)
        PROVE  pc[c] = "acking" /\ e = ev[c]
    <3>1. ASSUME NEW r \in Route, RouteStep(c, r) PROVE FALSE
      BY <1>4, <3>1 DEF RouteStep, TransformPasses, Misconfigured, TransformDrops,
         TransformThrows, Deliver, DeliverThrows, busVars
    <3>2. QED
      BY <1>4, <2>1, <3>1 DEF CallStep, Visit, InjectReturns, BreakLoop, Publish,
         PublishFails, Record, Ack, AckFails, Goto, busVars
  <2>2. QED
    BY <1>4, <2>1 DEF Next, InjectAll, Inject, Deactivate, Crash, vars, busVars
<1>5. QED
  BY <1>2, <1>3, <1>4

\* The bus is never told that an event is done before every route of some
\* module that it matches has been taken to its end: no break, exception or
\* interleaving in processEvent() comes to its ack() too early.
THEOREM AcksAreEarned == Spec => []AckedIsResolved
<1>1. Init => AllPursued /\ AckedIsResolved
  BY DEF Init, AllPursued, Pursued, AckedIsResolved
<1>2. TypeOK /\ AllPursued /\ [Next]_vars => AllPursued'
  BY PursuedInvariant
<1>3. TypeOK /\ AllPursued /\ AckedIsResolved /\ [Next]_vars => AckedIsResolved'
  BY AckedInvariant
<1>4. QED
  BY <1>1, <1>2, <1>3, TypeCorrect, PTL DEF Spec

(***************************************************************************)
(* What the end of processEvent() says.                                    *)
(***************************************************************************)
\* Only Record() writes the history, and only of an event that is done.
LEMMA RecordedIsResolved ==
    ASSUME AllPursued, [Next]_vars, NEW t \in history', t \notin history
    PROVE  Resolved(t[1], t[2])'
<1>1. ASSUME NEW c \in Call, Record(c)
      PROVE  Resolved(t[1], t[2])'
  <2>1. Resolved(ev[c], mod[c])
    BY <1>1 DEF Record, Goto, AllPursued, Pursued, Resolved, Answered
  <2>2. t = <<ev[c], mod[c]>>
    BY <1>1 DEF Record
  <2>3. Resolved(t[1], t[2])
    BY <2>1, <2>2
  <2>4. QED
    BY <2>3, FateGrows, ResolvedStays
<1>2. ASSUME NEW c \in Call, NEW r \in Route, RouteStep(c, r)
      PROVE  FALSE
  BY <1>2 DEF RouteStep, TransformPasses, Misconfigured, TransformDrops,
     TransformThrows, Deliver, DeliverThrows
<1>3. \E c \in Call : Record(c)
  BY <1>2 DEF Next, CallStep, InjectAll, Inject, Deactivate, Crash, Visit, InjectReturns,
     BreakLoop, Publish, PublishFails, Ack, AckFails, vars
<1>4. QED
  BY <1>1, <1>3

\* When processEvent() is over, each matched route has come to its end,
\* whatever failed on the others and whatever else ran meanwhile.
THEOREM RoutesAnswered == Spec => []EveryRouteAnswered
<1>1. Init => AllPursued /\ EveryRouteAnswered
  BY DEF Init, AllPursued, Pursued, EveryRouteAnswered
<1>2. TypeOK /\ AllPursued /\ [Next]_vars => AllPursued'
  BY PursuedInvariant
<1>3. AllPursued /\ EveryRouteAnswered /\ [Next]_vars => EveryRouteAnswered'
  <2> SUFFICES ASSUME AllPursued, EveryRouteAnswered, [Next]_vars, NEW t \in history'
               PROVE  Resolved(t[1], t[2])'
    BY DEF EveryRouteAnswered
  <2>1. CASE t \notin history
    BY <2>1, RecordedIsResolved
  <2>2. CASE t \in history
    BY <2>2, FateGrows, ResolvedStays DEF EveryRouteAnswered
  <2>3. QED
    BY <2>1, <2>2
<1>4. QED
  BY <1>1, <1>2, <1>3, TypeCorrect, PTL DEF Spec

(***************************************************************************)
(* What the WAL knows of an event under way.  With one module, an          *)
(* acknowledgement of an id is about the only processing it can have.      *)
(***************************************************************************)
Published == \A c \in Call : pc[c] \in {"routing", "delivering"} => ev[c] \in wal

LEMMA PublishedInvariant == TypeOK /\ Published /\ [Next]_vars => Published'
<1> SUFFICES ASSUME CallsOK, Published, [Next]_vars
             PROVE  Published'
  BY TypeParts
<1>1. CASE Crash
  BY <1>1 DEF Crash, Published
<1>2. ASSUME NEW c \in Call, NEW e \in Event,
             InjectAll(c, e) \/ \E m \in Module : Inject(c, e, m)
      PROVE  Published'
  BY <1>2 DEF InjectAll, Inject, Goto, Published, CallsOK, Functional, busVars
<1>3. CASE (\E m \in Module : Deactivate(m)) \/ UNCHANGED vars
  BY <1>3 DEF Published, Deactivate, vars, callVars, busVars
<1>4. ASSUME NEW c \in Call, CallStep(c)
      PROVE  Published'
  <2>1. wal \subseteq wal'
    <3>1. ASSUME NEW r \in Route, RouteStep(c, r) PROVE wal' = wal
      BY <3>1 DEF RouteStep, TransformPasses, Misconfigured, TransformDrops,
         TransformThrows, Deliver, DeliverThrows, busVars
    <3>2. QED
      BY <1>4, <3>1 DEF CallStep, Visit, InjectReturns, BreakLoop, Publish,
         PublishFails, Record, Ack, AckFails, busVars
  <2>2. ASSUME NEW d \in Call, d # c, pc'[d] \in {"routing", "delivering"}
        PROVE  ev'[d] \in wal'
    BY <1>4, <2>1, <2>2, OwnSteps DEF Published
  <2>3. ASSUME pc'[c] \in {"routing", "delivering"}
        PROVE  ev'[c] \in wal'
    <3>1. ASSUME NEW r \in Route, RouteStep(c, r)
          PROVE  ev[c] \in wal /\ ev'[c] = ev[c]
      <4>1. pc[c] \in {"routing", "delivering"}
        BY <3>1 DEF RouteStep, TransformPasses, Misconfigured, TransformDrops,
           TransformThrows, Deliver, DeliverThrows, Goto
      <4>2. ~Return(c)
        BY <2>3 DEF Return, CallsOK, Functional
      <4>3. ev' = ev
        BY <3>1, <4>2 DEF RouteStep, TransformPasses, Misconfigured, TransformDrops,
           TransformThrows, Deliver, DeliverThrows, Fail, Resolve, Abort
      <4>4. QED
        BY <4>1, <4>3 DEF Published
    <3>2. CASE Publish(c)
      BY <3>2 DEF Publish
    <3>3. CASE \E r \in Route : RouteStep(c, r)
      BY <2>1, <3>1, <3>3
    <3>4. CASE ~Publish(c) /\ ~\E r \in Route : RouteStep(c, r)
      <4>1. ~Return(c)
        BY <2>3 DEF Return, CallsOK, Functional
      <4>2. FALSE
        BY <1>4, <2>3, <3>4, <4>1 DEF CallStep, Visit, InjectReturns, BreakLoop,
           PublishFails, Record, Ack, AckFails, Abort, Goto, CallsOK, Functional
      <4>3. QED
        BY <4>2
    <3>5. QED
      BY <3>2, <3>3, <3>4
  <2>4. QED
    BY <2>2, <2>3 DEF Published
<1>5. QED
  BY <1>1, <1>2, <1>3, <1>4 DEF Next

\* With a single module, an event whose routes are not all at their end is in
\* unacked() of the bus, through repeated injections, failing writes and
\* crashes: what is lost is lost because nothing reads it there.
THEOREM UnfinishedInWal ==
    ASSUME \A m, n \in Module : m = n
    PROVE  Spec => []UnfinishedStaysInWal
<1>1. Init => Published
  BY DEF Init, Published
<1>2. TypeOK /\ Published /\ [Next]_vars => Published'
  BY PublishedInvariant
<1>3. TypeOK /\ Published /\ AckedIsResolved => UnfinishedStaysInWal
  <2> SUFFICES ASSUME TypeOK, Published, AckedIsResolved,
                      NEW c \in Call, pc[c] \in {"routing", "delivering"}
               PROVE  ev[c] \in Unacked \cup broken \/ Resolved(ev[c], mod[c])
    BY DEF UnfinishedStaysInWal
  <2>1. ev[c] \in wal
    BY DEF Published
  <2>2. mod[c] \in Module
    BY DEF TypeOK
  <2>3. ASSUME ev[c] \in acked \cup marked
        PROVE  ev[c] \in broken \/ Resolved(ev[c], mod[c])
    BY <2>2, <2>3 DEF AckedIsResolved
  <2>4. QED
    BY <2>1, <2>3 DEF Unacked
<1>4. QED
  BY <1>1, <1>2, <1>3, TypeCorrect, AcksAreEarned, PTL DEF Spec
==============================================================================
