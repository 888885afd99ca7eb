----------------------------- MODULE LoopDetector -----------------------------
(***************************************************************************)
(* The loop detector (packages/core/src/loop-detector.ts) and its use in   *)
(* inject() and processEvent() (runtime.ts).                               *)
(*                                                                         *)
(* check() runs once for each event and module.  An event that is injected *)
(* for all modules is checked once for each of them, with its one trace.   *)
(* Times are kept as ages, in ticks.  What the flags do is log.            *)
(***************************************************************************)
EXTENDS Naturals, FiniteSets

CONSTANTS Trace,       \* trace ids
          BreakDepth,  \* circuitBreakerDepth
          Window,      \* windowMs
          MaxTraces,   \* maxTraces
          Modules      \* active modules, which an event visits in turn

ASSUME LoopAssumption ==
  /\ {BreakDepth, Window, MaxTraces, Modules} \subseteq Nat \ {0}
  /\ IsFiniteSet(Trace)

VARIABLES
  depth,     \* length of a trace's chain, up to BreakDepth; 0: it has none
  chainAge,  \* age of the chain's last node
  tripped,   \* brokenCircuits
  tripAge,   \* age of the entry there
  visits,    \* modules that the latest event of a trace has visited
  passed     \* observer: visits that went through since the trace was last
             \* silent for Window, evicted or new

chainVars == <<depth, chainAge, tripped, tripAge>>
loopVars == <<chainVars, visits, passed>>

LoopTypeOK ==
  /\ depth \in [Trace -> 0..BreakDepth]
  /\ chainAge \in [Trace -> 0..Window + 1]
  /\ tripped \subseteq Trace
  /\ tripAge \in [Trace -> 0..Window + 1]
  /\ visits \in [Trace -> 0..Modules]
  /\ passed \in [Trace -> Nat]
  /\ Cardinality({t \in Trace : depth[t] > 0}) <= MaxTraces + 1

LoopInit ==
  /\ depth = [t \in Trace |-> 0]
  /\ chainAge = [t \in Trace |-> 0]
  /\ tripped = {}
  /\ tripAge = [t \in Trace |-> 0]
  /\ visits = [t \in Trace |-> 0]
  /\ passed = [t \in Trace |-> 0]

-----------------------------------------------------------------------------
(* cleanup(), which every check() begins with.                             *)

Young(age) == age <= Window
Tracked == {t \in Trace : depth[t] > 0 /\ Young(chainAge[t])}
StillTripped == {t \in tripped : Young(tripAge[t])}

\* Fault: nothing is evicted.
KeptAll == {Tracked}
\* The chains that stay: the sort puts those with the oldest last node first,
\* and among equals those that were created first; which these are is open.
Kept ==
  {K \in SUBSET Tracked :
     /\ IF Cardinality(Tracked) > MaxTraces THEN Cardinality(K) = MaxTraces
                                            ELSE K = Tracked
     /\ \A t \in K, u \in Tracked \ K : chainAge[t] <= chainAge[u]}

\* A trace that is new, silent for Window or evicted begins anew.
UpTo(max, n) == IF n <= max THEN n ELSE max
Begins(t, K) == t \notin K /\ t \notin StillTripped

-----------------------------------------------------------------------------
(* check()                                                                 *)

\* The circuit is broken already: no node is added.
CheckBroken(t, K) ==
  /\ t \in StillTripped
  /\ depth' = [u \in Trace |-> IF u \in K THEN depth[u] ELSE 0]
  /\ tripped' = StillTripped
  /\ UNCHANGED <<chainAge, tripAge, passed>>

\* Fault: the limit itself is let through.
TripsLate(d) == d > BreakDepth
Trips(d) == d >= BreakDepth

CheckChain(t, K) ==
  /\ t \notin StillTripped
  /\ LET d == IF t \in K THEN UpTo(BreakDepth, depth[t] + 1) ELSE 1 IN
       /\ depth' = [u \in Trace |-> IF u = t THEN d
                                    ELSE IF u \in K THEN depth[u] ELSE 0]
       /\ chainAge' = [chainAge EXCEPT ![t] = 0]
       /\ tripped' = IF Trips(d) THEN StillTripped \cup {t} ELSE StillTripped
       /\ tripAge' = IF Trips(d) THEN [tripAge EXCEPT ![t] = 0] ELSE tripAge
       /\ passed' = [passed EXCEPT ![t] =
                       (IF Begins(t, K) THEN 0 ELSE @) + (IF Trips(d) THEN 0 ELSE 1)]

Check(t) == \E K \in Kept : CheckBroken(t, K) \/ CheckChain(t, K)

\* The first module of a new event of the trace, and the next module of it.
NewEvent(t) ==
  /\ visits' = [visits EXCEPT ![t] = 1]
  /\ Check(t)

NextModule(t) ==
  /\ visits[t] \in 1..Modules - 1
  /\ visits' = [visits EXCEPT ![t] = @ + 1]
  /\ Check(t)

\* resetCircuit() leaves the chain, whose next node trips the circuit again.
ResetCircuit(t) ==
  /\ t \in tripped
  /\ tripped' = tripped \ {t}
  /\ UNCHANGED <<depth, chainAge, tripAge, visits, passed>>

Older(age, S) == [t \in Trace |-> IF t \in S /\ age[t] <= Window THEN age[t] + 1 ELSE age[t]]

LoopTick ==
  /\ chainAge' = Older(chainAge, {t \in Trace : depth[t] > 0})
  /\ tripAge' = Older(tripAge, tripped)
  /\ UNCHANGED <<depth, tripped, visits, passed>>

LoopNext ==
  \/ \E t \in Trace : NewEvent(t) \/ NextModule(t) \/ ResetCircuit(t)
  \/ LoopTick

LoopSpec == LoopInit /\ [][LoopNext]_loopVars

-----------------------------------------------------------------------------
(* Properties.                                                             *)

(***************************************************************************)
(* "If the result has circuit_broken=true, the event should NOT be         *)
(* processed": however a trace, its expiry, the eviction of other traces   *)
(* and a manual reset alternate, fewer than circuitBreakerDepth visits of  *)
(* a trace go through before it is silent for windowMs or evicted.         *)
(***************************************************************************)
LoopsAreBroken == \A t \in Trace : passed[t] < BreakDepth
=============================================================================
