----------------------------- MODULE HostProofs ------------------------------
(***************************************************************************)
(* The components of MCHost, whatever their sizes, limits, times and       *)
(* configurations: the loop detector, the event history, the loggers, the  *)
(* transforms, the supervisor and the checks before a start.               *)
(***************************************************************************)
EXTENDS MCHost, FiniteSetTheorems, TLAPS

-----------------------------------------------------------------------------
(* The loop detector.                                                      *)

Types ==
  /\ depth \in [Trace -> 0..BreakDepth]
  /\ chainAge \in [Trace -> 0..Window + 1]
  /\ tripped \subseteq Trace
  /\ tripAge \in [Trace -> 0..Window + 1]
  /\ visits \in [Trace -> 0..Modules]
  /\ passed \in [Trace -> Nat]

\* Each visit that went through has left a node in the chain.
ChainsCount == \A t \in Trace : depth[t] > 0 => passed[t] <= depth[t]

Chained == {t \in Trace : depth[t] > 0}
FewChains == Cardinality(Chained) <= MaxTraces + 1

LoopInv == Types /\ ChainsCount /\ LoopsAreBroken /\ FewChains

LEMMA Sizes ==
  /\ BreakDepth \in Nat \ {0} /\ Window \in Nat \ {0}
  /\ MaxTraces \in Nat \ {0} /\ Modules \in Nat \ {0}
BY LoopAssumption

LEMMA FiniteTraces == ASSUME NEW S \in SUBSET Trace PROVE IsFiniteSet(S)
BY LoopAssumption, FS_Subset

-----------------------------------------------------------------------------
LEMMA LoopInvInit == LoopInit => LoopInv
<1> SUFFICES ASSUME LoopInit PROVE LoopInv
  OBVIOUS
<1>1. Types
  BY Sizes, SMT DEF LoopInit, Types
<1>2. ChainsCount /\ LoopsAreBroken
  BY Sizes, SMT DEF LoopInit, ChainsCount, LoopsAreBroken
<1>3. Chained = {}
  BY SMT DEF LoopInit, Chained
<1>4. FewChains
  BY <1>3, FS_EmptySet, Sizes, SMT DEF FewChains
<1> QED
  BY <1>1, <1>2, <1>4 DEF LoopInv

-----------------------------------------------------------------------------
(* cleanup() leaves at most MaxTraces chains, all of traces that had one.  *)

LEMMA KeptIsSmall ==
  ASSUME LoopInv, NEW K \in Kept
  PROVE  /\ K \subseteq Chained
         /\ IsFiniteSet(K)
         /\ Cardinality(K) <= MaxTraces
<1>1. K \subseteq Tracked
  BY DEF Kept
<1>2. Tracked \subseteq Chained /\ Chained \subseteq Trace
  BY DEF Tracked, Chained
<1>3. IsFiniteSet(K) /\ IsFiniteSet(Tracked)
  BY <1>1, <1>2, FiniteTraces
<1>4. Cardinality(Tracked) \in Nat
  BY <1>3, FS_CardinalityType
<1>5. Cardinality(K) <= MaxTraces
  BY <1>4, Sizes, SMT DEF Kept
<1> QED
  BY <1>1, <1>2, <1>3, <1>5

LEMMA OneMoreChain ==
  ASSUME LoopInv, NEW K \in Kept, NEW t \in Trace,
         NEW S, S \subseteq K \cup {t}
  PROVE  Cardinality(S) <= MaxTraces + 1
<1>1. IsFiniteSet(K) /\ Cardinality(K) <= MaxTraces /\ Cardinality(K) \in Nat
  BY KeptIsSmall, FS_CardinalityType
<1>2. /\ IsFiniteSet(K \cup {t})
      /\ Cardinality(K \cup {t}) = IF t \in K THEN Cardinality(K) ELSE Cardinality(K) + 1
  BY <1>1, FS_AddElement
<1>3. Cardinality(S) <= Cardinality(K \cup {t}) /\ Cardinality(S) \in Nat
  BY <1>2, FS_Subset, FS_CardinalityType
<1> QED
  BY <1>1, <1>2, <1>3, Sizes, SMT

-----------------------------------------------------------------------------
(* check().                                                                *)

LEMMA BrokenKeeps ==
  ASSUME LoopInv, NEW t \in Trace, NEW K \in Kept, CheckBroken(t, K),
         visits' \in [Trace -> 0..Modules]
  PROVE  LoopInv'
<1>1. /\ depth' = [u \in Trace |-> IF u \in K THEN depth[u] ELSE 0]
      /\ UNCHANGED <<chainAge, tripAge, passed>>
      /\ tripped' \subseteq Trace
  BY DEF CheckBroken, StillTripped, LoopInv, Types
<1>2. Types'
  BY <1>1, Sizes, SMT DEF LoopInv, Types
<1>3. ChainsCount' /\ LoopsAreBroken'
  BY <1>1, SMT DEF LoopInv, Types, ChainsCount, LoopsAreBroken
<1>4. Chained' \subseteq K \cup {t}
  BY <1>1, SMT DEF Chained
<1>5. FewChains'
  BY <1>4, OneMoreChain DEF FewChains
<1> QED
  BY <1>2, <1>3, <1>5 DEF LoopInv

LEMMA ChainKeeps ==
  ASSUME LoopInv, NEW t \in Trace, NEW K \in Kept, CheckChain(t, K),
         visits' \in [Trace -> 0..Modules]
  PROVE  LoopInv'
<1> DEFINE d == IF t \in K THEN UpTo(BreakDepth, depth[t] + 1) ELSE 1
<1>1. /\ depth' = [u \in Trace |-> IF u = t THEN d ELSE IF u \in K THEN depth[u] ELSE 0]
      /\ chainAge' = [chainAge EXCEPT ![t] = 0]
      /\ tripAge' = IF Trips(d) THEN [tripAge EXCEPT ![t] = 0] ELSE tripAge
      /\ passed' = [passed EXCEPT ![t] =
                      (IF t \notin K THEN 0 ELSE passed[t]) + (IF Trips(d) THEN 0 ELSE 1)]
      /\ tripped' \subseteq Trace
  BY DEF CheckChain, StillTripped, LoopInv, Types, Begins
<1>2. /\ depth \in [Trace -> 0..BreakDepth] /\ passed \in [Trace -> Nat]
      /\ \A u \in Trace : passed[u] < BreakDepth /\ (depth[u] > 0 => passed[u] <= depth[u])
      /\ t \in K => depth[t] > 0
  BY KeptIsSmall DEF LoopInv, Types, ChainsCount, LoopsAreBroken, Chained
<1>3. /\ d \in 1..BreakDepth
      /\ t \in K => depth[t] + 1 <= d \/ d = BreakDepth
      /\ Trips(d) <=> d = BreakDepth
  BY <1>2, Sizes, SMT DEF UpTo, Trips
<1> HIDE DEF d
<1>4. Types'
  <2>1. depth' \in [Trace -> 0..BreakDepth]
    BY <1>1, <1>2, <1>3, Sizes, SMT
  <2>2. passed' \in [Trace -> Nat]
    BY <1>1, <1>2, SMT
  <2>3. chainAge' \in [Trace -> 0..Window + 1] /\ tripAge' \in [Trace -> 0..Window + 1]
    BY <1>1, Sizes, SMT DEF LoopInv, Types
  <2> QED
    BY <1>1, <2>1, <2>2, <2>3 DEF Types
<1>5. passed'[t] <= d /\ passed'[t] < BreakDepth
  BY <1>1, <1>2, <1>3, Sizes, SMT
<1>6. ChainsCount' /\ LoopsAreBroken'
  <2>1. ASSUME NEW u \in Trace
        PROVE  passed'[u] < BreakDepth /\ (depth'[u] > 0 => passed'[u] <= depth'[u])
    <3>1. CASE u = t
      BY <1>1, <1>5, <3>1
    <3>2. CASE u # t
      BY <1>1, <1>2, <3>2, SMT
    <3> QED
      BY <3>1, <3>2
  <2> QED
    BY <2>1 DEF ChainsCount, LoopsAreBroken
<1>7. Chained' \subseteq K \cup {t}
  BY <1>1, SMT DEF Chained
<1>8. FewChains'
  BY <1>7, OneMoreChain DEF FewChains
<1> QED
  BY <1>4, <1>6, <1>8 DEF LoopInv

LEMMA CheckKeeps ==
  ASSUME LoopInv, NEW t \in Trace, Check(t), visits' \in [Trace -> 0..Modules]
  PROVE  LoopInv'
BY BrokenKeeps, ChainKeeps DEF Check

-----------------------------------------------------------------------------
LEMMA TickKeeps == LoopInv /\ LoopTick => LoopInv'
<1> SUFFICES ASSUME LoopInv, LoopTick PROVE LoopInv'
  OBVIOUS
<1>1. ASSUME NEW age \in [Trace -> 0..Window + 1], NEW S
      PROVE  Older(age, S) \in [Trace -> 0..Window + 1]
  BY Sizes, SMT DEF Older
<1>2. Types'
  BY <1>1 DEF LoopInv, Types, LoopTick
<1> QED
  BY <1>2 DEF LoopInv, LoopTick, ChainsCount, LoopsAreBroken, FewChains, Chained

LEMMA LoopInvStep == LoopInv /\ [LoopNext]_loopVars => LoopInv'
<1> SUFFICES ASSUME LoopInv, [LoopNext]_loopVars PROVE LoopInv'
  OBVIOUS
<1>1. ASSUME NEW t \in Trace, NewEvent(t) PROVE LoopInv'
  <2>1. visits' \in [Trace -> 0..Modules]
    BY <1>1, Sizes, SMT DEF NewEvent, LoopInv, Types
  <2> QED
    BY <1>1, <2>1, CheckKeeps DEF NewEvent
<1>2. ASSUME NEW t \in Trace, NextModule(t) PROVE LoopInv'
  <2>1. visits' \in [Trace -> 0..Modules]
    BY <1>2, Sizes, SMT DEF NextModule, LoopInv, Types
  <2> QED
    BY <1>2, <2>1, CheckKeeps DEF NextModule
<1>3. ASSUME NEW t \in Trace, ResetCircuit(t) PROVE LoopInv'
  BY <1>3 DEF ResetCircuit, LoopInv, Types, ChainsCount, LoopsAreBroken, FewChains, Chained
<1>4. CASE LoopTick
  BY <1>4, TickKeeps
<1>5. CASE UNCHANGED loopVars
  BY <1>5 DEF loopVars, chainVars, LoopInv, Types, ChainsCount, LoopsAreBroken, FewChains, Chained
<1> QED
  BY <1>1, <1>2, <1>3, <1>4, <1>5 DEF LoopNext

\* The chains of check() and cleanup() keep their types, and there are never
\* more of them than maxTraces and one.
THEOREM LoopTypeCorrect == LoopSpec => []LoopTypeOK
<1>1. LoopInv => LoopTypeOK
  BY DEF LoopInv, Types, FewChains, Chained, LoopTypeOK
<1> QED
  BY <1>1, LoopInvInit, LoopInvStep, PTL DEF LoopSpec

\* No trace gets circuitBreakerDepth visits through before it is silent for
\* the window or evicted.
THEOREM LoopsAlwaysBroken == LoopSpec => []LoopsAreBroken
<1>1. LoopInv => LoopsAreBroken
  BY DEF LoopInv
<1> QED
  BY <1>1, LoopInvInit, LoopInvStep, PTL DEF LoopSpec

-----------------------------------------------------------------------------
(* The ring buffers.                                                       *)

\* Until the ring is full, the head is where the count is.
RingInv == RingTypeOK /\ (count < RingSize => head = count)

-----------------------------------------------------------------------------
(* Arithmetic modulo the size.                                             *)

\* Below the size the remainder changes nothing, and one round is taken off.
LEMMA WrapOnce ==
  ASSUME NEW n \in Nat \ {0}, NEW a \in Nat, a < 2 * n
  PROVE  a % n = IF a < n THEN a ELSE a - n
<1>1. CASE a < n
  BY <1>1, SMT
<1>2. CASE ~(a < n)
  BY <1>2, SMT
<1> QED
  BY <1>1, <1>2

\* The slot of the i-th latest record when the next one goes to h.
Slot(h, i) == IF i <= h THEN h - i ELSE h + RingSize - i

LEMMA SlotArithmetic ==
  ASSUME NEW h \in 0..RingSize - 1, NEW k \in 0..RingSize, k < RingSize => h = k,
         NEW i \in 1..k
  PROVE  (((h + RingSize - k) % RingSize) + (k - i)) % RingSize = Slot(h, i)
<1>1. RingSize \in Nat \ {0}
  BY RingAssumption
<1> DEFINE oldest == h + RingSize - k
           first == oldest % RingSize
           a == first + (k - i)
<1>2. first = IF k < RingSize THEN 0 ELSE h
  <2>1. oldest \in Nat /\ oldest < 2 * RingSize
    BY <1>1, SMT
  <2>2. oldest % RingSize = IF oldest < RingSize THEN oldest ELSE oldest - RingSize
    <3> HIDE DEF oldest
    <3> QED
      BY <1>1, <2>1, WrapOnce
  <2> QED
    BY <1>1, <2>2, SMT
<1>3. a \in Nat /\ a < 2 * RingSize /\ (IF a < RingSize THEN a ELSE a - RingSize) = Slot(h, i)
  <2> HIDE DEF first
  <2> QED
    BY <1>1, <1>2, SMT DEF Slot
<1>4. a % RingSize = IF a < RingSize THEN a ELSE a - RingSize
  <2> HIDE DEF a
  <2> QED
    BY <1>1, <1>3, WrapOnce
<1> QED
  BY <1>3, <1>4

LEMMA ToArraySlot ==
  ASSUME RingInv, NEW i \in 1..count
  PROVE  ToArray[i] = ring[Slot(head, i)]
<1>1. /\ head \in 0..RingSize - 1 /\ count \in 0..RingSize
      /\ count < RingSize => head = count
  BY DEF RingInv, RingTypeOK
<1>2. (Oldest + (count - i)) % RingSize = Slot(head, i)
  BY <1>1, SlotArithmetic DEF Oldest
<1> QED
  BY <1>2 DEF ToArray

-----------------------------------------------------------------------------
(* The invariant.                                                          *)

LEMMA RingInvInit == RingInit => RingInv
BY RingAssumption DEF RingInit, RingInv, RingTypeOK

LEMMA NextHead ==
  ASSUME RingInv, NEW r \in Rec, PushRecord(r)
  PROVE  /\ head' = IF head + 1 < RingSize THEN head + 1 ELSE 0
         /\ count' = IF count < RingSize THEN count + 1 ELSE count
         /\ ring' = [ring EXCEPT ![head] = r]
<1>1. RingSize \in Nat \ {0} /\ head \in 0..RingSize - 1
  BY RingAssumption DEF RingInv, RingTypeOK
<1>2. head + 1 \in Nat /\ head + 1 < 2 * RingSize
  BY <1>1, SMT
<1> DEFINE h == head + 1
<1>3. h % RingSize = IF h < RingSize THEN h ELSE h - RingSize
  <2> HIDE DEF h
  <2> QED
    BY <1>1, <1>2, WrapOnce DEF h
<1> QED
  BY <1>1, <1>3, SMT DEF PushRecord, Counted

LEMMA RingInvStep == RingInv /\ [RingNext]_ringVars => RingInv'
<1> SUFFICES ASSUME RingInv, [RingNext]_ringVars PROVE RingInv'
  OBVIOUS
<1>1. ASSUME NEW r \in Rec, PushRecord(r) PROVE RingInv'
  <2>1. /\ RingSize \in Nat \ {0} /\ head \in 0..RingSize - 1 /\ count \in 0..RingSize
        /\ count < RingSize => head = count
        /\ ring \in [0..RingSize - 1 -> Rec \cup {Empty}]
    BY RingAssumption DEF RingInv, RingTypeOK
  <2>2. ring' \in [0..RingSize - 1 -> Rec \cup {Empty}]
    BY <1>1, <2>1, NextHead
  <2>3. head' \in 0..RingSize - 1 /\ count' \in 0..RingSize
    BY <1>1, <2>1, NextHead, SMT
  <2>4. count' < RingSize => head' = count'
    BY <1>1, <2>1, NextHead, SMT
  <2> QED
    BY <2>2, <2>3, <2>4 DEF RingInv, RingTypeOK
<1>2. CASE UNCHANGED ringVars
  BY <1>2 DEF ringVars, RingInv, RingTypeOK
<1> QED
  BY <1>1, <1>2 DEF RingNext

\* The indices of both classes stay inside their arrays, and the count stays
\* within maxSize.
THEOREM RingTypeCorrect == RingSpec => []RingTypeOK
<1>1. RingInv => RingTypeOK
  BY DEF RingInv
<1> QED
  BY <1>1, RingInvInit, RingInvStep, PTL DEF RingSpec

-----------------------------------------------------------------------------
(* The refinement.                                                         *)

LEMMA ToArrayType ==
  ASSUME RingInv
  PROVE  /\ ToArray \in Seq(Rec \cup {Empty})
         /\ Len(ToArray) = count
         /\ DOMAIN ToArray = 1..count
<1>1. /\ RingSize \in Nat \ {0} /\ head \in 0..RingSize - 1 /\ count \in 0..RingSize
      /\ ring \in [0..RingSize - 1 -> Rec \cup {Empty}]
  BY RingAssumption DEF RingInv, RingTypeOK
<1>2. \A i \in 1..count : Slot(head, i) \in 0..RingSize - 1
  BY <1>1, SMT DEF Slot
<1>3. \A i \in 1..count : ToArray[i] \in Rec \cup {Empty}
  BY <1>1, <1>2, ToArraySlot
<1>4. DOMAIN ToArray = 1..count /\ ToArray = [i \in 1..count |-> ToArray[i]]
  BY DEF ToArray
<1>5. ToArray \in [1..count -> Rec \cup {Empty}]
  BY <1>3, <1>4
<1> QED
  BY <1>1, <1>4, <1>5

\* A record that is added comes first, and moves the others down by one.
LEMMA ShiftedByOne ==
  ASSUME RingInv, NEW r \in Rec, PushRecord(r), RingInv', NEW i \in 1..count'
  PROVE  ToArray'[i] = IF i = 1 THEN r ELSE ToArray[i - 1]
<1>1. /\ RingSize \in Nat \ {0} /\ head \in 0..RingSize - 1 /\ count \in 0..RingSize
      /\ count < RingSize => head = count
      /\ ring \in [0..RingSize - 1 -> Rec \cup {Empty}]
  BY RingAssumption DEF RingInv, RingTypeOK
<1>2. ToArray'[i] = ring'[Slot(head', i)]
  <2>1. /\ head' \in 0..RingSize - 1 /\ count' \in 0..RingSize
        /\ count' < RingSize => head' = count'
    BY DEF RingInv, RingTypeOK
  <2>2. (Oldest' + (count' - i)) % RingSize = Slot(head', i)
    <3>1. Oldest' = (head' + RingSize - count') % RingSize
      BY DEF Oldest
    <3> QED
      BY <2>1, <3>1, SlotArithmetic
  <2> QED
    BY <2>2 DEF ToArray
<1>3. CASE i = 1
  <2>1. Slot(head', 1) = head
    BY <1>1, NextHead, SMT DEF Slot
  <2> QED
    BY <1>1, <1>2, <1>3, <2>1, NextHead
<1>4. CASE i # 1
  <2>1. i - 1 \in 1..count /\ Slot(head', i) = Slot(head, i - 1)
        /\ Slot(head, i - 1) \in 0..RingSize - 1 /\ Slot(head, i - 1) # head
    BY <1>1, <1>4, NextHead, SMT DEF Slot
  <2>2. ring'[Slot(head', i)] = ring[Slot(head, i - 1)]
    BY <1>1, <2>1, NextHead
  <2> QED
    BY <1>2, <1>4, <2>1, <2>2, ToArraySlot
<1> QED
  BY <1>3, <1>4

LEMMA RingStepRefines ==
  ASSUME RingInv, RingInv', NEW r \in Rec, PushRecord(r)
  PROVE  Recent!Remember(r)
<1> DEFINE long == <<r>> \o ToArray
<1>1. /\ RingSize \in Nat \ {0} /\ count \in 0..RingSize /\ count' \in 0..RingSize
      /\ count' = IF count < RingSize THEN count + 1 ELSE count
  BY RingAssumption, NextHead DEF RingInv, RingTypeOK
<1>2. /\ ToArray \in Seq(Rec \cup {Empty}) /\ Len(ToArray) = count
      /\ long \in Seq(Rec \cup {Empty}) /\ Len(long) = count + 1
  BY ToArrayType
<1>3. \A i \in 1..count + 1 : long[i] = IF i = 1 THEN r ELSE ToArray[i - 1]
  BY <1>1, <1>2, SMT
<1>4. ToArray' = [i \in 1..count' |-> ToArray'[i]]
  BY DEF ToArray
<1>5. ToArray' = [i \in 1..count' |-> long[i]]
  <2>1. \A i \in 1..count' : i \in 1..count + 1
    BY <1>1, SMT
  <2>2. \A i \in 1..count' : ToArray'[i] = long[i]
    BY <1>3, <2>1, ShiftedByOne
  <2> QED
    BY <1>4, <2>2
<1>6. CASE count < RingSize
  <2>1. long = [i \in 1..count + 1 |-> long[i]]
    BY <1>2
  <2> QED
    BY <1>1, <1>2, <1>5, <1>6, <2>1 DEF Recent!Remember, Recent!Longer
<1>7. CASE ~(count < RingSize)
  <2>1. count' = RingSize /\ 1..RingSize \subseteq 1..Len(long)
    BY <1>1, <1>2, <1>7, SMT
  <2>2. SubSeq(long, 1, RingSize) = [i \in 1..RingSize |-> long[i]]
    BY <1>1, <1>2, <2>1, SMT
  <2> QED
    BY <1>1, <1>2, <1>5, <1>7, <2>1, <2>2 DEF Recent!Remember, Recent!Longer
<1> QED
  BY <1>6, <1>7

\* What the audit trail and the event history list is always the latest
\* records in their order, for every size of the ring.
THEOREM RingRefines == RingSpec => RingIsRecentLog
<1>1. RingInit => Recent!RecentInit
  <2> SUFFICES ASSUME RingInit PROVE ToArray = <<>>
    BY DEF Recent!RecentInit
  <2>1. count = 0
    BY DEF RingInit
  <2>2. ToArray \in [1..0 -> Rec]
    <3>1. \A i \in 1..0 : FALSE
      OBVIOUS
    <3> QED
      BY <2>1, <3>1 DEF ToArray
  <2> QED
    BY <2>2, SMT
<1>2. RingInv /\ RingInv' /\ [RingNext]_ringVars => [Recent!RecentNext]_ToArray
  <2> SUFFICES ASSUME RingInv, RingInv', [RingNext]_ringVars
               PROVE  [Recent!RecentNext]_ToArray
    OBVIOUS
  <2>1. CASE RingNext
    BY <2>1, RingStepRefines DEF RingNext, Recent!RecentNext
  <2>2. CASE UNCHANGED ringVars
    BY <2>2 DEF ringVars, ToArray, Oldest
  <2> QED
    BY <2>1, <2>2
<1> QED
  BY <1>1, <1>2, RingInvInit, RingInvStep, PTL DEF RingSpec, RingIsRecentLog, Recent!RecentSpec

-----------------------------------------------------------------------------
(* The file logger.                                                        *)

Stages == {"idle", "append", "stat"} \cup Rotating

\* Calls that have added a file to the directory and not listed it yet
Adding(f) == flushPc[f] \in {"compress", "unlink", "list"}

\* What is left when the calls that have listed the directory have deleted
\* what they are going to.
Survivors == {n \in rotated : \A f \in Flush : flushPc[f] = "clean" => n \notin doomed[f]}

LogInv ==
  /\ flushPc \in [Flush -> Stages]
  /\ doomed \in [Flush -> SUBSET Name]
  /\ nameOf \in [Flush -> Name]
  /\ rotated \subseteq Name /\ IsFiniteSet(rotated)
  /\ (\A f \in Flush : ~Adding(f)) => Cardinality(Survivors) <= MaxFiles

LEMMA LogInvInit == LogInit => LogInv
<1> SUFFICES ASSUME LogInit PROVE LogInv
  OBVIOUS
<1>1. Survivors = {} /\ rotated = {}
  BY DEF LogInit, Survivors
<1>2. Cardinality(Survivors) <= MaxFiles /\ IsFiniteSet(rotated)
  BY <1>1, FS_EmptySet, LogAssumption
<1> QED
  BY <1>1, <1>2 DEF LogInit, LogInv, Stages, Rotating, Name

\* Whatever is left of a bounded set is bounded.
LEMMA FewRemain ==
  ASSUME NEW S, NEW U, IsFiniteSet(S), U \subseteq S, Cardinality(S) <= MaxFiles
  PROVE  Cardinality(U) <= MaxFiles
<1>1. IsFiniteSet(U) /\ Cardinality(U) <= Cardinality(S)
  BY FS_Subset
<1>2. Cardinality(S) \in Nat /\ Cardinality(U) \in Nat
  BY <1>1, FS_CardinalityType
<1> QED
  BY <1>1, <1>2, LogAssumption

\* The calls that touch no rotated file
LEMMA OthersKeep ==
  ASSUME LogInv, NEW f \in Flush, Takes(f) \/ Appends(f) \/ Stats(f)
  PROVE  LogInv'
<1>1. /\ rotated' = rotated /\ doomed' = doomed
      /\ flushPc[f] \in {"idle", "append", "stat"}
      /\ \E pc \in {"idle", "append", "stat", "rename"} : flushPc' = [flushPc EXCEPT ![f] = pc]
      /\ nameOf' \in [Flush -> Name]
  <2>1. CASE Takes(f)
    BY <2>1 DEF Takes, At, Goes, LogInv, disk
  <2>2. CASE Appends(f)
    BY <2>2 DEF Appends, At, Goes, LogInv
  <2>3. CASE Stats(f)
    <3>1. \A t \in Stamp : [stamp |-> t, gz |-> FALSE] \in Name
      BY DEF Name
    <3>2. nameOf' \in [Flush -> Name]
      BY <2>3, <3>1 DEF Stats, LogInv
    <3>3. rotated' = rotated /\ doomed' = doomed /\ flushPc[f] = "stat"
      BY <2>3 DEF Stats, At, disk
    <3>4. \E pc \in {"idle", "rename"} : flushPc' = [flushPc EXCEPT ![f] = pc]
      BY <2>3 DEF Stats, Goes
    <3> QED
      BY <3>2, <3>3, <3>4
  <2> QED
    BY <2>1, <2>2, <2>3
<1>2. \A g \in Flush : flushPc'[g] = "clean" <=> flushPc[g] = "clean"
  BY <1>1 DEF LogInv
<1>3. \A g \in Flush : Adding(g)' <=> Adding(g)
  BY <1>1 DEF LogInv, Adding
<1>4. Survivors' = Survivors
  BY <1>1, <1>2 DEF Survivors
<1> QED
  BY <1>1, <1>3, <1>4 DEF LogInv, Stages, Rotating

\* A call that has added a file has it listed before it ends.
LEMMA AddingKeeps ==
  ASSUME LogInv, NEW f \in Flush,
         Renames(f) \/ Compresses(f) \/ Unlinks(f) \/ CompressFails(f)
  PROVE  LogInv'
<1>1. CASE Renames(f) /\ ~logThere
  <2>1. /\ rotated' = rotated /\ doomed' = doomed /\ nameOf' = nameOf /\ flushPc[f] = "rename"
        /\ flushPc' = [flushPc EXCEPT ![f] = "idle"]
    BY <1>1 DEF Renames, At, Goes, disk
  <2>2. \A g \in Flush : /\ flushPc'[g] = "clean" <=> flushPc[g] = "clean"
                         /\ Adding(g)' <=> Adding(g)
    BY <2>1 DEF LogInv, Adding
  <2>3. Survivors' = Survivors
    BY <2>1, <2>2 DEF Survivors
  <2> QED
    BY <2>1, <2>2, <2>3 DEF LogInv, Stages
<1>2. CASE ~(Renames(f) /\ ~logThere)
  <2>1. \E pc \in {"compress", "unlink", "list"} : flushPc' = [flushPc EXCEPT ![f] = pc]
    BY <1>2 DEF Renames, Compresses, Unlinks, CompressFails, At, Goes
  <2>2. /\ doomed' = doomed /\ nameOf' = nameOf
        /\ \E n \in Name : rotated' \subseteq rotated \cup {n}
    <3>1. nameOf[f] \in Name /\ [nameOf[f] EXCEPT !.gz = TRUE] \in Name
      BY DEF LogInv, Name
    <3> QED
      BY <1>2, <3>1 DEF Renames, Compresses, Unlinks, CompressFails, disk
  <2>3. IsFiniteSet(rotated') /\ rotated' \subseteq Name
    <3>1. PICK n \in Name : rotated' \subseteq rotated \cup {n}
      BY <2>2
    <3>2. IsFiniteSet(rotated \cup {n})
      BY FS_AddElement DEF LogInv
    <3> QED
      BY <3>1, <3>2, FS_Subset DEF LogInv
  <2>4. Adding(f)'
    BY <2>1 DEF LogInv, Adding
  <2> QED
    BY <2>1, <2>2, <2>3, <2>4 DEF LogInv, Stages, Rotating
<1> QED
  BY <1>1, <1>2

\* The last call to list the files has seen all that are left.
LEMMA ListsKeeps == ASSUME LogInv, NEW f \in Flush, Lists(f) PROVE LogInv'
<1>1. PICK kept \in SUBSET rotated, expired \in SUBSET rotated :
        /\ expired \subseteq kept /\ Newest(kept)
        /\ doomed' = [doomed EXCEPT ![f] = (rotated \ kept) \cup expired]
  BY DEF Lists
<1>2. rotated' = rotated /\ nameOf' = nameOf /\ flushPc' = [flushPc EXCEPT ![f] = "clean"]
  BY DEF Lists, Goes, disk
<1>3. Survivors' \subseteq kept
  BY <1>1, <1>2 DEF Survivors, LogInv
<1>4. IsFiniteSet(kept) /\ Cardinality(kept) <= MaxFiles
  BY <1>1, FS_Subset DEF LogInv, Newest
<1>5. Cardinality(Survivors') <= MaxFiles
  BY <1>3, <1>4, FewRemain
<1> QED
  BY <1>1, <1>2, <1>5 DEF LogInv, Stages, Rotating

LEMMA CleansKeeps == ASSUME LogInv, NEW f \in Flush, Cleans(f) PROVE LogInv'
<1>1. /\ rotated' = rotated \ doomed[f] /\ doomed' = [doomed EXCEPT ![f] = {}]
      /\ nameOf' = nameOf /\ flushPc[f] = "clean" /\ flushPc' = [flushPc EXCEPT ![f] = "idle"]
  BY DEF Cleans, At, Goes
<1>2. \A g \in Flush : Adding(g)' <=> Adding(g)
  BY <1>1 DEF LogInv, Adding
<1>3. Survivors' \subseteq Survivors
  BY <1>1 DEF Survivors, LogInv
<1>4. IsFiniteSet(Survivors) /\ IsFiniteSet(rotated')
  <2>1. Survivors \subseteq rotated /\ rotated' \subseteq rotated
    BY <1>1 DEF Survivors
  <2> QED
    BY <2>1, FS_Subset DEF LogInv
<1>5. Cardinality(Survivors) <= MaxFiles => Cardinality(Survivors') <= MaxFiles
  BY <1>3, <1>4, FewRemain
<1> QED
  BY <1>1, <1>2, <1>4, <1>5 DEF LogInv, Stages

LEMMA LogInvStep == LogInv /\ [LogNext]_logVars => LogInv'
<1> SUFFICES ASSUME LogInv, [LogNext]_logVars PROVE LogInv'
  OBVIOUS
<1>1. CASE LogEntry \/ UNCHANGED logVars
  <2>1. UNCHANGED <<flushPc, nameOf, doomed, rotated>>
    BY <1>1 DEF LogEntry, logVars, disk
  <2>2. Survivors' = Survivors /\ \A f \in Flush : Adding(f)' <=> Adding(f)
    BY <2>1 DEF Survivors, Adding
  <2> QED
    BY <2>1, <2>2 DEF LogInv
<1> QED
  BY <1>1, OthersKeep, AddingKeeps, ListsKeeps, CleansKeeps DEF LogNext

\* However many calls of flush() overlap, and whatever names the clock gives
\* them: when no rotation is under way at most rotation.maxFiles rotated files
\* are left (rotation.ts, cleanupOldFiles).
THEOREM RotationIsBounded == LogSpec => []RotatedBounded
<1>1. ASSUME LogInv PROVE RotatedBounded
  <2> SUFFICES ASSUME \A f \in Flush : flushPc[f] \notin Rotating
               PROVE  Cardinality(rotated) <= MaxFiles
    BY DEF RotatedBounded
  <2>1. \A f \in Flush : ~Adding(f) /\ flushPc[f] # "clean"
    BY DEF Adding, Rotating
  <2>2. Survivors = rotated
    BY <2>1 DEF Survivors
  <2> QED
    BY <1>1, <2>1, <2>2 DEF LogInv
<1> QED
  BY <1>1, LogInvInit, LogInvStep, PTL DEF LogSpec

-----------------------------------------------------------------------------
(* No entry of the log is counted twice.                                   *)

\* Entry k of the batch of call f
Taken == {e \in Flush \X (1..MaxEntries) : e[2] <= batch[e[1]]}

\* Each entry is in the buffer, in a batch or in the log, or has left it.
LogCount ==
  /\ LogTypeOK
  /\ \A f \in Flush : flushPc[f] # "append" => batch[f] = 0
  /\ IsFiniteSet(Taken)
  /\ Cardinality(Taken) + lines + size <= logged

Batch(f, n) == {f} \X (1..n)

LEMMA BatchSize ==
  ASSUME NEW f, NEW n \in Nat
  PROVE  IsFiniteSet(Batch(f, n)) /\ Cardinality(Batch(f, n)) = n
<1>1. IsFiniteSet(1..n) /\ Cardinality(1..n) = n
  BY FS_Interval
<1>2. IsFiniteSet({f}) /\ Cardinality({f}) = 1
  BY FS_Singleton
<1>3. IsFiniteSet({f} \X (1..n)) /\ Cardinality({f} \X (1..n)) = 1 * n
  BY <1>1, <1>2, FS_Product
<1> QED
  BY <1>3 DEF Batch

LEMMA LogCountInit == LogInit => LogCount
<1> SUFFICES ASSUME LogInit PROVE LogCount
  OBVIOUS
<1>1. Taken = {}
  BY DEF LogInit, Taken
<1>2. LogTypeOK
  BY LogAssumption DEF LogInit, LogTypeOK, Name, Rotating
<1> QED
  BY <1>1, <1>2, FS_EmptySet DEF LogInit, LogCount

LEMMA TakesCounts == ASSUME LogCount, NEW f \in Flush, Takes(f) PROVE LogCount'
<1>1. /\ lines \in Nat /\ lines > 0 /\ lines <= MaxEntries /\ MaxEntries \in Nat /\ size \in Nat
      /\ logged \in Nat /\ batch \in [Flush -> Nat] /\ batch[f] = 0
  BY LogAssumption DEF LogCount, LogTypeOK, Takes, At
<1>2. /\ batch' = [batch EXCEPT ![f] = lines] /\ lines' = 0
      /\ flushPc' = [flushPc EXCEPT ![f] = "append"]
      /\ UNCHANGED <<logged, nameOf, doomed, size, logThere, rotated>>
  BY DEF Takes, Goes, disk
<1>3. LogTypeOK'
  BY <1>1, <1>2 DEF LogCount, LogTypeOK
<1>4. \A g \in Flush : flushPc'[g] # "append" => batch'[g] = 0
  BY <1>2 DEF LogCount, LogTypeOK
<1>5. Taken' = Taken \cup Batch(f, lines) /\ Taken \cap Batch(f, lines) = {}
  BY <1>1, <1>2 DEF Taken, Batch
<1>6. IsFiniteSet(Taken') /\ Cardinality(Taken') = Cardinality(Taken) + lines
  <2>1. IsFiniteSet(Taken) /\ Cardinality(Taken) \in Nat
    BY FS_CardinalityType DEF LogCount
  <2> QED
    BY <1>1, <1>5, <2>1, BatchSize, FS_Union, FS_EmptySet
<1> QED
  BY <1>1, <1>2, <1>3, <1>4, <1>6, FS_CardinalityType DEF LogCount

LEMMA AppendsCounts == ASSUME LogCount, NEW f \in Flush, Appends(f) PROVE LogCount'
<1>1. /\ lines \in Nat /\ MaxEntries \in Nat /\ size \in Nat /\ logged \in 0..MaxEntries
      /\ batch \in [Flush -> Nat] /\ batch[f] \in 0..MaxEntries
      /\ IsFiniteSet(Taken) /\ Cardinality(Taken) \in Nat
      /\ Cardinality(Taken) + lines + size <= logged
  BY LogAssumption, FS_CardinalityType DEF LogCount, LogTypeOK
<1>2. /\ batch' = [batch EXCEPT ![f] = 0]
      /\ size' \in {size, size + batch[f]} /\ logThere' \in BOOLEAN
      /\ \E pc \in {"stat", "idle"} : flushPc' = [flushPc EXCEPT ![f] = pc]
      /\ UNCHANGED <<logged, lines, nameOf, doomed, rotated>>
  BY DEF Appends, Goes, LogCount, LogTypeOK
<1>3. Taken = Taken' \cup Batch(f, batch[f]) /\ Taken' \cap Batch(f, batch[f]) = {}
  BY <1>1, <1>2 DEF Taken, Batch
<1>4. /\ IsFiniteSet(Taken') /\ Cardinality(Taken') \in Nat
      /\ Cardinality(Taken) = Cardinality(Taken') + batch[f]
  <2>1. Taken' \in SUBSET Taken
    BY <1>3
  <2>2. IsFiniteSet(Taken') /\ Cardinality(Taken') \in Nat
    BY <1>1, <2>1, FS_Subset, FS_CardinalityType
  <2> QED
    BY <1>1, <1>3, <2>2, BatchSize, FS_Union, FS_EmptySet
<1>5. Cardinality(Taken') + lines' + size' <= logged'
  BY <1>1, <1>2, <1>4
<1>6. size' \in 0..MaxEntries
  BY <1>1, <1>2, <1>4, <1>5
<1>7. LogTypeOK'
  BY <1>1, <1>2, <1>6 DEF LogCount, LogTypeOK
<1>8. \A g \in Flush : flushPc'[g] # "append" => batch'[g] = 0
  BY <1>2 DEF LogCount, LogTypeOK
<1> QED
  BY <1>4, <1>5, <1>7, <1>8 DEF LogCount

\* The other steps leave the batches alone, and empty the log if they change it.
LEMMA OthersCount ==
  ASSUME LogCount, NEW f \in Flush,
         Stats(f) \/ Renames(f) \/ Compresses(f) \/ Unlinks(f) \/ CompressFails(f)
         \/ Lists(f) \/ Cleans(f)
  PROVE  LogCount'
<1>1. /\ UNCHANGED <<logged, lines, batch>> /\ size' \in {size, 0}
      /\ \E pc \in {"idle"} \cup Rotating : flushPc' = [flushPc EXCEPT ![f] = pc]
      /\ flushPc[f] # "append"
  BY DEF Stats, Renames, Compresses, Unlinks, CompressFails, Lists, Cleans, Goes, At, disk, Rotating
<1>2. Taken' = Taken
  BY <1>1 DEF Taken
<1>3. /\ Cardinality(Taken) \in Nat /\ lines \in Nat /\ size \in Nat /\ logged \in Nat
      /\ IsFiniteSet(Taken) /\ size' \in 0..MaxEntries
      /\ Cardinality(Taken) + lines + size' <= logged
  BY <1>1, LogAssumption, FS_CardinalityType DEF LogCount, LogTypeOK
<1>4. nameOf' \in [Flush -> Name] /\ doomed' \in [Flush -> SUBSET Name]
  <2>1. CASE Stats(f)
    BY <2>1 DEF Stats, disk, LogCount, LogTypeOK, Name
  <2>2. CASE Lists(f)
    <3>4. nameOf' = nameOf
      BY <2>2 DEF Lists
    <3>1. PICK kept \in SUBSET rotated : \E expired \in SUBSET kept :
            doomed' = [doomed EXCEPT ![f] = (rotated \ kept) \cup expired]
      BY <2>2 DEF Lists
    <3>2. PICK expired \in SUBSET kept :
            doomed' = [doomed EXCEPT ![f] = (rotated \ kept) \cup expired]
      BY <3>1
    <3>3. (rotated \ kept) \cup expired \subseteq Name
      BY DEF LogCount, LogTypeOK
    <3> QED
      BY <3>4, <3>2, <3>3 DEF LogCount, LogTypeOK
  <2>3. CASE Cleans(f)
    BY <2>3 DEF Cleans, LogCount, LogTypeOK
  <2>4. CASE Renames(f) \/ Compresses(f) \/ Unlinks(f) \/ CompressFails(f)
    BY <2>4 DEF Renames, Compresses, Unlinks, CompressFails, LogCount, LogTypeOK
  <2> QED
    BY <2>1, <2>2, <2>3, <2>4
<1>5. logThere' \in BOOLEAN /\ rotated' \subseteq Name
  <2>1. CASE Renames(f)
    <3>1. \/ rotated' = rotated /\ logThere' = logThere
          \/ rotated' = rotated \cup {nameOf[f]} /\ logThere' = FALSE
      BY <2>1 DEF Renames, disk
    <3>2. nameOf[f] \in Name /\ rotated \subseteq Name /\ logThere \in BOOLEAN
      BY DEF LogCount, LogTypeOK
    <3> QED
      BY <3>1, <3>2
  <2>2. CASE Compresses(f)
    <3>1. [nameOf[f] EXCEPT !.gz = TRUE] \in Name
      BY DEF LogCount, LogTypeOK, Name
    <3> QED
      BY <2>2, <3>1 DEF Compresses, LogCount, LogTypeOK
  <2>3. CASE Stats(f) \/ CompressFails(f) \/ Lists(f)
    BY <2>3 DEF Stats, CompressFails, Lists, disk, LogCount, LogTypeOK
  <2>4. CASE Unlinks(f) \/ Cleans(f)
    BY <2>4 DEF Unlinks, Cleans, LogCount, LogTypeOK
  <2> QED
    BY <2>1, <2>2, <2>3, <2>4
<1>6. LogTypeOK'
  BY <1>1, <1>3, <1>4, <1>5 DEF LogCount, LogTypeOK
<1>7. \A g \in Flush : flushPc'[g] # "append" => batch'[g] = 0
  BY <1>1 DEF LogCount, LogTypeOK, Rotating
<1> QED
  BY <1>1, <1>2, <1>3, <1>6, <1>7 DEF LogCount

LEMMA LogCountStep == LogCount /\ [LogNext]_logVars => LogCount'
<1> SUFFICES ASSUME LogCount, [LogNext]_logVars PROVE LogCount'
  OBVIOUS
<1>1. CASE UNCHANGED logVars
  BY <1>1 DEF logVars, LogCount, LogTypeOK, Taken
<1>2. CASE LogEntry
  <2>1. Taken' = Taken /\ IsFiniteSet(Taken) /\ Cardinality(Taken) \in Nat
    BY <1>2, FS_CardinalityType DEF LogEntry, Taken, LogCount
  <2>2. /\ logged' = logged + 1 /\ lines' = lines + 1 /\ logged < MaxEntries
        /\ UNCHANGED <<flushPc, batch, nameOf, doomed, size, logThere, rotated>>
        /\ logged \in Nat /\ lines \in Nat /\ size \in Nat /\ MaxEntries \in Nat
        /\ Cardinality(Taken) + lines + size <= logged
    BY <1>2, LogAssumption DEF LogEntry, LogCount, LogTypeOK, disk
  <2>3. LogTypeOK'
    BY <2>1, <2>2 DEF LogCount, LogTypeOK
  <2> QED
    BY <2>1, <2>2, <2>3 DEF LogCount
<1> QED
  BY <1>1, <1>2, TakesCounts, AppendsCounts, OthersCount DEF LogNext

-----------------------------------------------------------------------------
(* The transforms of a route.                                              *)

Value == Datum \cup {Absent}
EventIn(nodes) == [payload : Value, node : 1..Len(nodes)]

\* The routes from the one under way on have got nothing yet, and those that a
\* failure should have stopped are behind.
RoutesInTurn ==
  /\ \A r \in Routes : r >= route => given[r] = Absent /\ audit[r] = Absent
  /\ \A r \in misled : r < route /\ given[r] = Absent

\* What follows a filter has passed it.
FilterPassed ==
  route \in Routes /\ step > 1 /\ Transforms(route)[step - 1].kind = "filter" =>
    Keeps(Transforms(route)[step - 1], Now(current))

EventsTyped == event \in EventIn(heap) /\ current \in EventIn(heap)

TransformInv ==
  TransformTypeOK /\ EventsTyped /\ RoutesInTurn /\ FilterPassed /\ DeliveredIsVetted

LEMMA SetupsAreFinite ==
  ASSUME TransformTypeOK
  PROVE  /\ Len(setup) \in Nat
         /\ \A r \in Routes : Len(Transforms(r)) \in Nat
         /\ \A r \in Routes : \A i \in 1..Len(Transforms(r)) :
              Transforms(r)[i].kind = "enrich" => Enriching(Transforms(r)[i])
BY SetupAssumption DEF TransformTypeOK, Routes, Transforms

LEMMA TransformInvInit == TransformInit => TransformInv
<1> SUFFICES ASSUME TransformInit PROVE TransformInv
  OBVIOUS
<1>1. emitted.payload \in Value /\ emitted.provenance \in Value
  BY DEF TransformInit, Contents, Value
<1>2. heap \in Seq(Value) /\ Len(heap) = 1 /\ heap[1] = emitted.provenance
  BY <1>1 DEF TransformInit
<1>3. EventsTyped
  BY <1>1, <1>2 DEF TransformInit, EventsTyped, EventIn
<1>4. Len(setup) \in Nat /\ matched \subseteq Routes
  BY SetupAssumption DEF TransformInit
<1>5. TransformTypeOK
  BY <1>1, <1>2, <1>3, <1>4
  DEF TransformInit, TransformTypeOK, Contents, Of, EventsTyped, EventIn, Value, Routes
<1>6. RoutesInTurn /\ FilterPassed /\ DeliveredIsVetted
  BY DEF TransformInit, RoutesInTurn, FilterPassed, DeliveredIsVetted, Routes
<1> QED
  BY <1>3, <1>5, <1>6 DEF TransformInv

\* The loop goes on to a later route, or ends.
LEMMA GoOnSteps ==
  ASSUME TransformInv, GoOn
  PROVE  /\ route' \in route + 1..Len(setup) + 1 \/ (route' = route /\ route = Len(setup) + 1)
         /\ route' \in 0..Len(setup) + 1
         /\ route' \in Routes => step' = 1
         /\ current' \in {current, event}
<1> USE SetupsAreFinite DEF TransformInv
<1>1. route \in 0..Len(setup) + 1 /\ matched \subseteq Routes /\ Len(setup) \in Nat
  BY DEF TransformTypeOK
<1>2. CASE After(route) = {}
  BY <1>1, <1>2 DEF GoOn, Routes
<1>3. CASE After(route) # {}
  <2>1. PICK q \in After(route) : NextRoute(q)
    BY <1>3 DEF GoOn
  <2>2. q \in Routes /\ q > route
    BY <1>1 DEF After
  <2> QED
    BY <1>1, <2>1, <2>2 DEF NextRoute, Routes
<1> QED
  BY <1>2, <1>3

Configured == <<setup, validator, emitted, matched, event>>

\* What the routes were given stays as it is while a transform runs.
LEMMA GivenStays ==
  ASSUME TransformInv, route \in Routes, UNCHANGED <<setup, validator, given, audit>>,
         misled' \subseteq misled \cup {route}, given[route] = Absent
  PROVE  DeliveredIsVetted'
<1>1. \A r \in Routes : given[r] # Absent => r \notin misled'
  BY DEF TransformInv, DeliveredIsVetted
<1>2. Routes' = Routes /\ \A r \in Routes : Transforms(r)' = Transforms(r)
  BY DEF Routes, Transforms
<1>3. \A r \in Routes : Vouched(r)' = Vouched(r)
  BY DEF Vouched, Transforms
<1>4. \A r \in Routes : Inspected(r)' = Inspected(r)
  BY DEF Inspected, Quotes
<1> QED
  BY <1>1, <1>2, <1>3, <1>4 DEF TransformInv, DeliveredIsVetted

\* A transform that hands on an event, which has passed it if it is a filter.
LEMMA HandingOnKeeps ==
  ASSUME TransformInv, route \in Routes, step <= Len(Transforms(route)),
         UNCHANGED <<Configured, given, audit, misled, route>>, step' = step + 1,
         heap' \in Seq(Value), Len(heap') >= Len(heap), current' \in EventIn(heap'),
         Here.kind = "filter" => Keeps(Here, Of(current', heap'))
  PROVE  TransformInv'
<1> USE SetupsAreFinite DEF TransformInv, Configured
<1>1. given[route] = Absent
  BY DEF RoutesInTurn, Routes, TransformTypeOK
<1>2. DeliveredIsVetted'
  BY <1>1, GivenStays
<1>3. Len(heap) \in Nat /\ Len(heap') \in Nat
  BY DEF TransformTypeOK
<1>4. EventsTyped'
  BY <1>3 DEF EventsTyped, EventIn
<1>5. Of(current', heap') \in Contents
  <2>1. current'.payload \in Value /\ current'.node \in 1..Len(heap')
    BY DEF EventIn
  <2>2. heap'[current'.node] \in Value
    BY <2>1
  <2> QED
    BY <2>1, <2>2 DEF Of, Contents, Value
<1>6. step \in 1..Len(Transforms(route)) + 1 /\ Len(Transforms(route)) \in Nat
  BY DEF TransformTypeOK
<1>7. TransformTypeOK'
  <2>1. route' \in Routes' => step' \in 1..Len(Transforms(route))' + 1
    BY <1>6 DEF Transforms
  <2>2. event'.node \in 1..Len(heap')
    BY <1>4 DEF EventsTyped, EventIn
  <2> QED
    BY <1>5, <2>1, <2>2 DEF TransformTypeOK, EventIn, Value, Routes, Of
<1>8. RoutesInTurn'
  BY DEF RoutesInTurn, Routes
<1>9. FilterPassed'
  <2>1. step' - 1 = step
    BY <1>6
  <2> QED
    BY <2>1 DEF FilterPassed, Here, Transforms, Now, Keeps, MatchesAny, MatchesAll
<1> QED
  BY <1>2, <1>4, <1>7, <1>8, <1>9

\* A transform that ends the route.
LEMMA EndingKeeps ==
  ASSUME TransformInv, route \in Routes, GoOn,
         UNCHANGED <<Configured, heap, given, audit>>,
         misled' = misled \/ misled' = misled \cup {route}
  PROVE  TransformInv'
<1> USE SetupsAreFinite DEF TransformInv, Configured
<1>1. given[route] = Absent
  BY DEF RoutesInTurn, Routes, TransformTypeOK
<1>2. DeliveredIsVetted'
  BY <1>1, GivenStays
<1>3. /\ route' \in 0..Len(setup) + 1 /\ route' > route
      /\ route' \in Routes => step' = 1
      /\ current' \in {current, event}
  BY GoOnSteps DEF Routes
<1>4. EventsTyped'
  BY <1>3 DEF EventsTyped, EventIn
<1>5. Of(current, heap)' \in Contents
  <2>1. current'.payload \in Value /\ current'.node \in 1..Len(heap)
    BY <1>4 DEF EventsTyped, EventIn
  <2>2. heap[current'.node] \in Value
    BY <2>1 DEF TransformTypeOK, Value
  <2> QED
    BY <2>1, <2>2 DEF Of, Contents, Value
<1>6. TransformTypeOK'
  <2>1. route' \in Routes' => step' \in 1..Len(setup'[route'].transforms) + 1
    BY <1>3 DEF Transforms, Routes
  <2>2. event'.node \in 1..Len(heap') /\ current'.node \in 1..Len(heap')
    BY <1>4 DEF EventsTyped, EventIn
  <2>3. misled' \subseteq Routes
    BY DEF TransformTypeOK
  <2> QED
    BY <1>3, <1>5, <2>1, <2>2, <2>3 DEF TransformTypeOK, Value, Routes
<1>7. RoutesInTurn'
  <2>1. route \in Nat /\ route' \in Nat /\ \A r \in Routes : r \in Nat
    BY <1>3 DEF Routes
  <2>2. \A r \in misled : r \in Nat
    BY <2>1 DEF TransformTypeOK
  <2>3. Routes' = Routes /\ given' = given /\ audit' = audit
    BY DEF Routes
  <2>4. \A r \in Routes : r >= route' => given'[r] = Absent /\ audit'[r] = Absent
    BY <1>3, <2>1, <2>3 DEF RoutesInTurn
  <2>5. \A r \in misled : r < route' /\ given'[r] = Absent
    BY <1>3, <2>1, <2>2, <2>3 DEF RoutesInTurn
  <2>6. route < route' /\ given'[route] = Absent
    BY <1>1, <1>3, <2>3
  <2> QED
    BY <2>3, <2>4, <2>5, <2>6 DEF RoutesInTurn
<1>8. FilterPassed'
  BY <1>3 DEF FilterPassed, Routes
<1> QED
  BY <1>2, <1>4, <1>6, <1>7, <1>8

\* What a transform makes anew is an event.
LEMMA NewEventsKeep ==
  ASSUME TransformInv, route \in Routes, step <= Len(Transforms(route)),
         Here.kind # "filter", UNCHANGED <<Configured, given, audit, misled>>,
         NEW c \in Contents, HandsOnNew(c)
  PROVE  TransformInv'
<1>1. c.payload \in Value /\ c.provenance \in Value
  BY DEF Contents, Value
<1>2. heap \in Seq(Value)
  BY DEF TransformInv, TransformTypeOK, Value
<1>3. heap' \in Seq(Value) /\ Len(heap') = Len(heap) + 1 /\ Len(heap) \in Nat
  BY <1>1, <1>2 DEF HandsOnNew
<1>4. current' \in EventIn(heap')
  BY <1>1, <1>3 DEF HandsOnNew, HandsOn, EventIn
<1> QED
  BY <1>3, <1>4, HandingOnKeeps DEF HandsOnNew, HandsOn, Configured

LEMMA SameEventKeeps ==
  ASSUME TransformInv, route \in Routes, step <= Len(Transforms(route)),
         HandsOn(current), UNCHANGED <<Configured, given, audit, misled, heap>>,
         Here.kind = "filter" => Keeps(Here, Now(current))
  PROVE  TransformInv'
<1>1. heap \in Seq(Value) /\ Len(heap) \in Nat /\ current \in EventIn(heap)
  BY DEF TransformInv, TransformTypeOK, Value, EventsTyped
<1> QED
  BY <1>1, HandingOnKeeps DEF HandsOn, Now, Configured

LEMMA DroppingKeeps ==
  ASSUME TransformInv, route \in Routes, Drops
  PROVE  TransformInv'
BY EndingKeeps DEF Drops, Same, Configured

\* A failure that should have stopped the event does stop it.
LEMMA FailingKeeps ==
  ASSUME TransformInv, route \in Routes, step <= Len(Transforms(route)),
         Here.kind # "filter", Fails, UNCHANGED heap
  PROVE  TransformInv'
<1>1. CASE Policy(Here) = "pass"
  <2>1. ~Closed(Here)
    BY <1>1 DEF Policy, Closed
  <2> QED
    BY <1>1, <2>1, HandingOnKeeps, SameEventKeeps DEF Fails, HandsOn, Same, Configured
<1>2. CASE Policy(Here) # "pass"
  BY <1>2, EndingKeeps DEF Fails, Configured
<1> QED
  BY <1>1, <1>2

\* What enrich makes of an event is one.
LEMMA EnrichedIsAnEvent ==
  ASSUME NEW t, Enriching(t), NEW c \in Contents
  PROVE  Enriched(t, c).payload \in Value /\ Enriched(t, c).provenance \in Value
<1> USE TransformAssumption DEF Value
<1> DEFINE Filled == [Field -> Value]
<1>1. c.payload \in Value /\ c.provenance \in Value
  BY DEF Contents
<1>2. c["payload"] \in Value /\ c["provenance"] \in Value
  BY <1>1
<1>3. Constants(t, c) \in Filled
  BY <1>2 DEF Constants, Field, Enriching
<1>4. \A f : \A d \in Filled, v \in Value : Put(d, f, v) \in Filled
  BY DEF Put
<1>5. Copied(t, Constants(t, c)) \in Filled
  <2>1. CASE t.copy = <<>>
    BY <1>3, <2>1 DEF Copied
  <2>2. CASE t.copy # <<>>
    <3>1. Constants(t, c)[t.copy[2]] \in Value
      BY <1>3, <2>2 DEF Enriching
    <3> QED
      BY <1>3, <1>4, <3>1, <2>2 DEF Copied, Enriching
  <2> QED
    BY <2>1, <2>2
<1>6. Yes \in Value /\ No \in Value
  OBVIOUS
<1>7. Enriched(t, c) \in Filled
  <2> DEFINE d == Copied(t, Constants(t, c))
  <2>1. CASE t.compute = <<>>
    BY <1>5, <2>1 DEF Enriched, Computed
  <2>2. CASE t.compute # <<>>
    <3>1. \A f : \A v \in Value : Put(d, f, v) \in Filled
      BY <1>4, <1>5
    <3>2. Enriched(t, c) = Put(d, t.compute[1], IF d[t.compute[2]] = t.compute[3] THEN Yes ELSE No)
      BY <2>2 DEF Enriched, Computed
    <3> QED
      BY <1>6, <3>1, <3>2
  <2> QED
    BY <2>1, <2>2
<1> QED
  BY <1>7 DEF Field

LEMMA EnrichKeeps == ASSUME TransformInv, Enrich PROVE TransformInv'
<1> DEFINE c == Enriched(Here, Now(current))
<1>1. route \in Routes /\ step <= Len(Transforms(route)) /\ Here.kind = "enrich"
  BY DEF Enrich, Runs
<1>2. Now(current) \in Contents
  BY DEF TransformInv, TransformTypeOK, Now
<1>3. Enriching(Here)
  <2>1. step \in 1..Len(Transforms(route)) + 1 /\ Len(Transforms(route)) \in Nat
    BY <1>1, SetupsAreFinite DEF TransformInv, TransformTypeOK
  <2>2. step \in 1..Len(Transforms(route))
    BY <1>1, <2>1
  <2> QED
    BY <1>1, <2>2, SetupsAreFinite DEF TransformInv, Here
<1>4. c.payload \in Value /\ c.provenance \in Value
  BY <1>2, <1>3, EnrichedIsAnEvent
<1>5. heap \in Seq(Value) /\ Len(heap) \in Nat /\ current \in EventIn(heap)
  BY DEF TransformInv, TransformTypeOK, Value, EventsTyped
<1>6. /\ heap' = [heap EXCEPT ![current.node] = c.provenance]
      /\ HandsOn([current EXCEPT !.payload = c.payload])
  BY DEF Enrich
<1> HIDE DEF c
<1>7. heap' \in Seq(Value) /\ Len(heap') = Len(heap)
  BY <1>4, <1>5, <1>6 DEF EventIn
<1>8. current' \in EventIn(heap')
  BY <1>4, <1>5, <1>6, <1>7 DEF EventIn, HandsOn
<1> QED
  BY <1>1, <1>5, <1>6, <1>7, <1>8, HandingOnKeeps DEF HandsOn, Same, Configured

LEMMA TransformsKeep ==
  ASSUME TransformInv, Missing \/ Script \/ Filter \/ Jq \/ Gate \/ Package
  PROVE  TransformInv'
<1>1. CASE Missing
  BY <1>1, DroppingKeeps DEF Missing, Runs
<1>2. CASE Script
  <2>1. route \in Routes /\ step <= Len(Transforms(route)) /\ Here.kind # "filter"
    BY <1>2 DEF Script, Runs
  <2>2. CASE \E c \in Contents : HandsOnNew(c)
    BY <2>1, <2>2, NewEventsKeep DEF HandsOnNew, HandsOn, Same, Configured
  <2>3. CASE HandsOn(current) /\ UNCHANGED heap
    BY <2>1, <2>3, SameEventKeeps DEF HandsOn, Same, Configured
  <2> QED
    BY <1>2, <2>1, <2>2, <2>3, DroppingKeeps, FailingKeeps DEF Script
<1>3. CASE Filter
  <2>1. route \in Routes /\ step <= Len(Transforms(route))
    BY <1>3 DEF Filter, Runs
  <2>2. CASE Keeps(Here, Now(current))
    BY <1>3, <2>1, <2>2, SameEventKeeps DEF Filter, HandsOn, Same, Configured
  <2> QED
    BY <1>3, <2>1, <2>2, DroppingKeeps DEF Filter
<1>4. CASE Jq
  <2>1. route \in Routes /\ step <= Len(Transforms(route)) /\ Here.kind # "filter"
    BY <1>4 DEF Jq, Runs
  <2>2. CASE \E c \in Contents : HandsOnNew(c)
    BY <2>1, <2>2, NewEventsKeep DEF HandsOnNew, HandsOn, Same, Configured
  <2>3. CASE HandsOn(current) /\ UNCHANGED heap
    BY <2>1, <2>3, SameEventKeeps DEF HandsOn, Same, Configured
  <2> QED
    BY <1>4, <2>1, <2>2, <2>3, DroppingKeeps DEF Jq
<1>5. CASE Gate
  <2>1. route \in Routes /\ step <= Len(Transforms(route)) /\ Here.kind # "filter"
    BY <1>5 DEF Gate, Runs
  <2>2. CASE HandsOn(current) /\ UNCHANGED heap
    BY <2>1, <2>2, SameEventKeeps DEF HandsOn, Same, Configured
  <2> QED
    BY <1>5, <2>1, <2>2, DroppingKeeps DEF Gate
<1>6. CASE Package
  <2>1. route \in Routes /\ step <= Len(Transforms(route)) /\ Here.kind # "filter"
    BY <1>6 DEF Package, Runs
  <2>2. CASE \E c \in Contents : HandsOnNew(c)
    BY <2>1, <2>2, NewEventsKeep DEF HandsOnNew, HandsOn, Same, Configured
  <2> QED
    BY <1>6, <2>1, <2>2, DroppingKeeps, FailingKeeps DEF Package
<1> QED
  BY <1>1, <1>2, <1>3, <1>4, <1>5, <1>6

\* The end of a route, whatever its actor was given.
LEMMA RouteDoneKeeps ==
  ASSUME TransformInv, RouteDone, DeliveredIsVetted',
         DOMAIN given' = Routes, DOMAIN audit' = Routes,
         \A r \in Routes \ {route} : given'[r] = given[r] /\ audit'[r] = audit[r],
         given'[route] \in Contents \cup {Absent},
         audit'[route] # Absent =>
           audit'[route].status \in Status /\ audit'[route].flags \subseteq Flag
  PROVE  TransformInv'
<1> USE SetupsAreFinite DEF TransformInv
<1>1. /\ route' \in 0..Len(setup) + 1 /\ route' > route
      /\ route' \in Routes => step' = 1
      /\ current' \in {current, event}
  BY GoOnSteps DEF RouteDone, Routes
<1>2. EventsTyped'
  BY <1>1 DEF EventsTyped, EventIn, RouteDone
<1>3. Of(current, heap)' \in Contents
  <2>1. current'.payload \in Value /\ current'.node \in 1..Len(heap) /\ heap' = heap
    BY <1>2 DEF EventsTyped, EventIn, RouteDone
  <2>2. heap[current'.node] \in Value
    BY <2>1 DEF TransformTypeOK, Value
  <2> QED
    BY <2>1, <2>2 DEF Of, Contents, Value
<1>4. TransformTypeOK'
  <2>1. route' \in Routes' => step' \in 1..Len(setup'[route'].transforms) + 1
    BY <1>1 DEF Transforms, Routes, RouteDone
  <2>2. event'.node \in 1..Len(heap') /\ current'.node \in 1..Len(heap')
    BY <1>2 DEF EventsTyped, EventIn
  <2>3. /\ \A r \in Routes : given'[r] \in Contents \cup {Absent}
        /\ \A r \in Routes : audit'[r] # Absent =>
             audit'[r].status \in Status /\ audit'[r].flags \subseteq Flag
    BY DEF TransformTypeOK
  <2> QED
    BY <1>1, <1>3, <2>1, <2>2, <2>3 DEF TransformTypeOK, Value, Routes, RouteDone
<1>5. RoutesInTurn'
  <2>1. route \in Nat /\ route' \in Nat /\ \A r \in Routes : r \in Nat
    BY <1>1 DEF Routes, RouteDone
  <2>2. \A r \in misled : r \in Routes /\ r # route
    BY <2>1 DEF TransformTypeOK, RoutesInTurn
  <2>3. Routes' = Routes /\ misled' = misled
    BY DEF Routes, RouteDone
  <2>4. ASSUME NEW r \in Routes, r >= route' PROVE given'[r] = Absent /\ audit'[r] = Absent
    <3>1. r \in Nat /\ r # route /\ r >= route
      BY <1>1, <2>1, <2>4
    <3> QED
      BY <3>1 DEF RoutesInTurn
  <2>5. ASSUME NEW r \in misled PROVE r < route' /\ given'[r] = Absent
    <3>1. r \in Nat /\ r \in Routes \ {route}
      BY <2>1, <2>2
    <3>2. r < route /\ given[r] = Absent
      BY DEF RoutesInTurn
    <3> QED
      BY <1>1, <2>1, <3>1, <3>2
  <2> QED
    BY <2>3, <2>4, <2>5 DEF RoutesInTurn
<1>6. FilterPassed'
  BY <1>1 DEF FilterPassed, Routes, RouteDone
<1> QED
  BY <1>2, <1>4, <1>5, <1>6

\* An instruction in a field that the text quotes is flagged, and held.
LEMMA InstructionsAreFlagged ==
  ASSUME NEW c, NEW text \in Texts(route, c), NEW likeness \in Likeness, Quotes(route, c),
         validator.instructions
  PROVE  /\ Flags(text, likeness) # {}
         /\ validator.hold => HoldForReview(Flags(text, likeness))
<1>1. "instruction" \in text
  BY DEF Texts, Interpolated
<1>2. [type |-> "instruction_content", severity |-> "critical"] \in Flags(text, likeness)
  BY <1>1 DEF Flags, Instructions
<1> QED
  BY <1>2 DEF HoldForReview

LEMMA FlagsAreFlags ==
  ASSUME NEW text, NEW likeness PROVE Flags(text, likeness) \subseteq Flag
BY DEF Flags, Instructions, Echo, Violations, Flag

LEMMA DeliverRouteKeeps == ASSUME TransformInv, DeliverRoute PROVE TransformInv'
<1> DEFINE c == Now(current)
<1>1. route \in Routes /\ RouteDone /\ UNCHANGED <<setup, validator, misled>>
  BY DEF DeliverRoute, RouteDone
<1>2. given[route] = Absent /\ c \in Contents /\ route \notin misled
  BY <1>1 DEF TransformInv, TransformTypeOK, RoutesInTurn, Routes, Now
<1>3. c # Absent
  BY <1>2, SetupAssumption
<1>4. Routes' = Routes /\ DOMAIN given = Routes /\ DOMAIN audit = Routes
  BY <1>1 DEF Routes, TransformInv, TransformTypeOK
<1>5. PICK text \in Texts(route, c), likeness \in Likeness :
        LET flags == Flags(text, likeness) IN
         IF HoldForReview(flags)
         THEN Records("held", flags) /\ UNCHANGED given
         ELSE /\ given' = [given EXCEPT ![route] = c]
              /\ \E status \in Status \ {"held"} : Records(status, flags)
  BY DEF DeliverRoute
<1> DEFINE flags == Flags(text, likeness)
<1>6. flags \subseteq Flag
  BY FlagsAreFlags
<1>7. Quotes(route, c) /\ validator.instructions =>
        flags # {} /\ (validator.hold => HoldForReview(flags))
  BY InstructionsAreFlagged
<1>8. Len(Transforms(route)) > 0 /\ Transforms(route)[Len(Transforms(route))].kind = "filter" =>
        Keeps(Transforms(route)[Len(Transforms(route))], c)
  <2>1. step \in 1..Len(Transforms(route)) + 1 /\ step > Len(Transforms(route))
    BY <1>1 DEF TransformInv, TransformTypeOK, RouteDone
  <2>2. Len(Transforms(route)) \in Nat
    BY <1>1, SetupsAreFinite DEF TransformInv
  <2>3. step - 1 = Len(Transforms(route)) /\ (Len(Transforms(route)) > 0 => step > 1)
    BY <2>1, <2>2
  <2> QED
    BY <1>1, <2>3 DEF TransformInv, FilterPassed
<1> HIDE DEF c, flags
<1>9. CASE HoldForReview(flags)
  <2>1. audit' = [audit EXCEPT ![route] = [status |-> "held", flags |-> flags]] /\ given' = given
    BY <1>5, <1>9 DEF Records, flags
  <2>2. DeliveredIsVetted'
    BY <1>1, <1>2, <1>4, <2>1
    DEF TransformInv, DeliveredIsVetted, Vouched, Transforms, Inspected, Quotes
  <2> QED
    BY <1>1, <1>2, <1>4, <1>6, <2>1, <2>2, RouteDoneKeeps DEF Status
<1>10. CASE ~HoldForReview(flags)
  <2>1. PICK status \in Status \ {"held"} :
          audit' = [audit EXCEPT ![route] = [status |-> status, flags |-> flags]]
    BY <1>5, <1>10 DEF Records, flags
  <2>2. given' = [given EXCEPT ![route] = c]
    BY <1>5, <1>10 DEF flags
  <2>3. given'[route] = c /\ audit'[route] = [status |-> status, flags |-> flags]
    BY <1>1, <1>4, <2>1, <2>2
  <2>4. \A r \in Routes \ {route} : given'[r] = given[r] /\ audit'[r] = audit[r]
    BY <1>1, <1>4, <2>1, <2>2
  <2>5. ASSUME NEW q \in Routes, q = route PROVE Vouched(q)'
    <3> DEFINE last == Transforms(route)[Len(Transforms(route))]
    <3>1. Keeps(last, c) =>
            /\ \A f \in Field : last.exclude # Absent /\ f \in DOMAIN last.exclude =>
                 c[f] \notin last.exclude[f]
            /\ last.match # Absent => \A f \in DOMAIN last.match : c[f] \in last.match[f]
      BY DEF Keeps, MatchesAny, MatchesAll
    <3> HIDE DEF last
    <3>2. Len(Transforms(route)) > 0 /\ last.kind = "filter" => Keeps(last, c)
      BY <1>8 DEF last
    <3> SUFFICES ASSUME Len(Transforms(route)) > 0, last.kind = "filter"
                 PROVE  /\ \A f \in Field : last.exclude # Absent /\ f \in DOMAIN last.exclude =>
                             c[f] \notin last.exclude[f]
                        /\ last.match # Absent =>
                             \A f \in DOMAIN last.match : c[f] \in last.match[f]
      BY <1>1, <2>3, <2>5 DEF Vouched, Transforms, last
    <3> QED
      BY <3>1, <3>2
  <2>6. ASSUME NEW q \in Routes, q = route PROVE Inspected(q)'
    BY <1>1, <1>7, <1>10, <2>3, <2>6 DEF Inspected, Quotes
  <2>7. \A r \in Routes \ {route} : Vouched(r)' = Vouched(r) /\ Inspected(r)' = Inspected(r)
    BY <1>1, <2>4 DEF Vouched, Inspected, Transforms, Quotes
  <2>8. DeliveredIsVetted'
    BY <1>1, <1>2, <1>3, <1>4, <2>3, <2>4, <2>5, <2>6, <2>7 DEF TransformInv, DeliveredIsVetted
  <2> QED
    BY <1>1, <1>2, <1>4, <1>6, <2>1, <2>2, <2>3, <2>4, <2>8, RouteDoneKeeps
<1> QED
  BY <1>9, <1>10

LEMMA TransformInvStep == TransformInv /\ [TransformNext]_transformVars => TransformInv'
<1> SUFFICES ASSUME TransformInv, [TransformNext]_transformVars PROVE TransformInv'
  OBVIOUS
<1>1. CASE Begin
  <2>1. /\ route' \in 0..Len(setup) + 1 /\ route' > route
        /\ route' \in Routes => step' = 1
        /\ current' \in {current, event}
    BY <1>1, GoOnSteps, SetupsAreFinite DEF Begin, TransformInv
  <2>2. UNCHANGED <<Configured, heap, given, audit, misled>>
    BY <1>1 DEF Begin, Configured
  <2>3. EventsTyped'
    BY <2>1, <2>2 DEF EventsTyped, EventIn, TransformInv, Configured
  <2>4. Of(current, heap)' \in Contents
    <3>1. current'.payload \in Value /\ current'.node \in 1..Len(heap)
      BY <2>2, <2>3 DEF EventsTyped, EventIn
    <3>2. heap[current'.node] \in Value
      BY <3>1 DEF TransformInv, TransformTypeOK, Value
    <3> QED
      BY <2>2, <3>1, <3>2 DEF Of, Contents, Value
  <2>5. TransformTypeOK'
    <3>1. route' \in Routes' => step' \in 1..Len(setup'[route'].transforms) + 1
      BY <2>1, <2>2, SetupsAreFinite DEF Transforms, Routes, Configured, TransformInv
    <3>2. event'.node \in 1..Len(heap') /\ current'.node \in 1..Len(heap')
      BY <2>3 DEF EventsTyped, EventIn
    <3> QED
      BY <2>1, <2>2, <2>4, <3>1, <3>2 DEF TransformTypeOK, Value, Routes, Configured, TransformInv
  <2>6. RoutesInTurn'
    <3>1. route \in Nat /\ route' \in Nat /\ \A r \in Routes : r \in Nat
      BY <2>1, SetupsAreFinite DEF Routes, TransformInv, TransformTypeOK
    <3>2. \A r \in misled : r \in Routes
      BY DEF TransformInv, TransformTypeOK
    <3> QED
      BY <2>1, <2>2, <3>1, <3>2 DEF RoutesInTurn, Routes, Configured, TransformInv
  <2>7. FilterPassed'
    BY <2>1, <2>2 DEF FilterPassed, Routes, Configured
  <2>8. DeliveredIsVetted'
    BY <2>2 DEF TransformInv, DeliveredIsVetted, Vouched, Inspected, Transforms, Quotes,
                Routes, Configured
  <2> QED
    BY <2>3, <2>5, <2>6, <2>7, <2>8 DEF TransformInv
<1>2. CASE NoActor
  <2>1. DeliveredIsVetted'
    BY <1>2 DEF NoActor, RouteDone, TransformInv, DeliveredIsVetted, Vouched, Inspected,
                Transforms, Quotes, Routes
  <2> QED
    BY <1>2, <2>1, RouteDoneKeeps DEF NoActor, RouteDone, TransformInv, TransformTypeOK
<1>3. CASE ToInbox
  <2>1. /\ route \in Routes /\ RouteDone /\ UNCHANGED <<setup, validator, misled, given>>
        /\ setup[route].inbox
        /\ audit' = [audit EXCEPT ![route] = [status |-> "delivered", flags |-> {}]]
    BY <1>3 DEF ToInbox, RouteDone, Records
  <2>2. given[route] = Absent /\ DOMAIN given = Routes /\ DOMAIN audit = Routes
    BY <2>1 DEF TransformInv, TransformTypeOK, RoutesInTurn, Routes
  <2>3. DeliveredIsVetted'
    BY <2>1, <2>2
    DEF TransformInv, DeliveredIsVetted, Vouched, Inspected, Transforms, Quotes, Routes
  <2> QED
    BY <2>1, <2>2, <2>3, RouteDoneKeeps DEF Status
<1>4. CASE UNCHANGED transformVars
  BY <1>4 DEF transformVars, TransformInv, TransformTypeOK, EventsTyped, EventIn, RoutesInTurn,
              FilterPassed, DeliveredIsVetted, Vouched, Inspected, Transforms, Quotes, Routes,
              Of, Now
<1> QED
  BY <1>1, <1>2, <1>3, <1>4, TransformsKeep, EnrichKeeps, DeliverRouteKeeps DEF TransformNext

\* Whatever the module's routes, their transforms and error policies, and
\* whatever these make of the objects they share: what a route delivers has
\* passed the filter it ends in, no transform that should have stopped it
\* failed on it, and the validator has seen it (transform.ts, runtime.ts).
THEOREM RoutesVetDeliveries == TransformSpec => []DeliveredIsVetted
<1>1. TransformInit => TransformInv
  BY TransformInvInit
<1>2. TransformInv /\ [TransformNext]_transformVars => TransformInv'
  BY TransformInvStep
<1>3. TransformInv => DeliveredIsVetted
  BY DEF TransformInv
<1> QED
  BY <1>1, <1>2, <1>3, PTL DEF TransformSpec

\* The events of a pipeline stay events, and its records records.
THEOREM TransformsTyped == TransformSpec => []TransformTypeOK
<1>1. TransformInv => TransformTypeOK
  BY DEF TransformInv
<1> QED
  BY <1>1, TransformInvInit, TransformInvStep, PTL DEF TransformSpec

-----------------------------------------------------------------------------
(* Where the event that came stays as it was.                              *)

\* No enrichment writes into an object that it has not copied.
WritesPayload(t) ==
  /\ DOMAIN t.set \subseteq {"payload"}
  /\ t.copy = <<>> \/ t.copy[1] = "payload"
  /\ t.compute = <<>> \/ t.compute[1] = "payload"
PayloadOnly ==
  \A s \in Setups : \A r \in 1..Len(s) : \A i \in 1..Len(s[r].transforms) :
    s[r].transforms[i].kind = "enrich" => WritesPayload(s[r].transforms[i])

LEMMA EnrichLeavesProvenance ==
  ASSUME NEW c \in Contents, NEW t, WritesPayload(t)
  PROVE  Enriched(t, c).provenance = c.provenance
<1>1. Constants(t, c).provenance = c.provenance
  BY DEF Constants, Field, WritesPayload, Contents
<1>2. \A d, v : Put(d, "payload", v).provenance = d.provenance
  BY DEF Put
<1>3. Copied(t, Constants(t, c)).provenance = c.provenance
  BY <1>1, <1>2 DEF Copied, WritesPayload
<1> QED
  BY <1>2, <1>3 DEF Enriched, Computed, WritesPayload

LEMMA EnrichLeavesHeap == ASSUME TransformInv, PayloadOnly, Enrich PROVE heap' = heap
<1>1. route \in Routes /\ step \in 1..Len(Transforms(route)) /\ Here.kind = "enrich"
  BY SetupsAreFinite DEF Enrich, Runs, TransformInv, TransformTypeOK
<1>2. WritesPayload(Here)
  BY <1>1 DEF PayloadOnly, TransformInv, TransformTypeOK, Here, Transforms, Routes
<1>3. Now(current) \in Contents /\ Now(current).provenance = heap[current.node]
  BY DEF TransformInv, TransformTypeOK, Now, Of
<1>4. heap' = [heap EXCEPT ![current.node] = heap[current.node]]
  BY <1>2, <1>3, EnrichLeavesProvenance DEF Enrich
<1> QED
  BY <1>4 DEF TransformInv, TransformTypeOK

LEMMA UntouchedStep ==
  ASSUME PayloadOnly, TransformInv, InputUntouched, [TransformNext]_transformVars
  PROVE  InputUntouched'
<1>1. /\ event.node \in 1..Len(heap) /\ Len(heap) \in Nat
      /\ heap \in Seq(Datum \cup {Absent})
  BY DEF TransformInv, TransformTypeOK
<1>2. CASE UNCHANGED <<event, emitted, heap>>
  BY <1>2 DEF InputUntouched, Now, Of
<1>3. CASE \E c \in Contents : HandsOnNew(c)
  <2>1. PICK c \in Contents : heap' = Append(heap, c.provenance) /\ UNCHANGED <<event, emitted>>
    BY <1>3 DEF HandsOnNew, HandsOn, Same
  <2>2. heap'[event.node] = heap[event.node]
    BY <1>1, <2>1
  <2> QED
    BY <2>1, <2>2 DEF InputUntouched, Now, Of
<1>4. CASE Enrich
  BY <1>2, <1>4, EnrichLeavesHeap DEF Enrich, HandsOn, Same
<1>5. CASE Script \/ Jq \/ Package
  BY <1>2, <1>3, <1>5 DEF Script, Jq, Package, HandsOn, Drops, Fails, Same
<1>6. CASE Missing \/ Filter \/ Gate
  BY <1>2, <1>6 DEF Missing, Filter, Gate, HandsOn, Drops, Same
<1>7. CASE Begin \/ NoActor \/ ToInbox \/ DeliverRoute \/ UNCHANGED transformVars
  BY <1>2, <1>7 DEF Begin, NoActor, ToInbox, DeliverRoute, RouteDone, transformVars
<1> QED
  BY <1>4, <1>5, <1>6, <1>7 DEF TransformNext

\* The shallow copy is enough (enrich.ts:138) where enrichments write no field
\* of a nested object: then every route, and whoever else holds the event,
\* finds it as it came, whatever scripts, packages and failures there are.
THEOREM InputsUntouched == ASSUME PayloadOnly PROVE TransformSpec => []InputUntouched
<1>1. TransformInit => InputUntouched
  <2> SUFFICES ASSUME TransformInit PROVE InputUntouched
    OBVIOUS
  <2>1. Now(event) = [payload |-> emitted.payload, provenance |-> emitted.provenance]
    BY DEF TransformInit, Now, Of
  <2> QED
    BY <2>1 DEF TransformInit, Contents, InputUntouched
<1>2. TransformInv /\ InputUntouched /\ [TransformNext]_transformVars => InputUntouched'
  BY UntouchedStep
<1> QED
  BY <1>1, <1>2, TransformInvInit, TransformInvStep, PTL DEF TransformSpec

-----------------------------------------------------------------------------
(* The syslog transport.                                                   *)

\* A connection attempt that is said to be under way is, or has failed and
\* not yet reported it.
AttemptKnown == connecting => \E c \in Conn : life[c] \in {"opening", "broken"}

\* The transport's socket is open, or has not yet reported its end.
SocketKnown == socket # NoConn => life[socket] \in {"open", "broken", "closing"}

SyslogInv == SyslogTypeOK /\ AttemptKnown /\ SocketKnown /\ NeverStranded

USE SyslogAssumption

-----------------------------------------------------------------------------
LEMMA SyslogInvInit == SyslogInit => SyslogInv
<1> SUFFICES ASSUME SyslogInit PROVE SyslogInv
  OBVIOUS
<1>1. PICK c \in Conn : life = [x \in Conn |-> IF x = c THEN "opening" ELSE "unused"]
  BY DEF SyslogInit
<1>2. SyslogTypeOK
  <2>1. life \in [Conn -> Lives] /\ waiting \in 0..WaitingMax /\ reconnects \in Nat
    BY <1>1, SMT DEF SyslogInit, Lives
  <2>2. socket \in Conn \cup {NoConn} /\ connecting \in BOOLEAN /\ transportClosed \in BOOLEAN
    BY DEF SyslogInit
  <2> QED
    BY <2>1, <2>2 DEF SyslogTypeOK
<1>3. life[c] = "opening"
  BY <1>1
<1> QED
  BY <1>2, <1>3 DEF SyslogInit, SyslogInv, AttemptKnown, SocketKnown, NeverStranded, Stirring

-----------------------------------------------------------------------------
(* One lemma for each step.                                                *)

LEMMA ReconnectKeeps == SyslogInv /\ Reconnect => SyslogInv'
<1> SUFFICES ASSUME SyslogInv, Reconnect PROVE SyslogInv'
  OBVIOUS
<1> USE DEF SyslogInv, SyslogTypeOK, Lives
<1>1. CASE transportClosed \/ connecting
  <2>1. UNCHANGED <<life, connecting, socket, transportClosed, waiting>> /\ reconnects' \in Nat
    BY <1>1, SMT DEF Reconnect
  <2>2. NeverStranded'
    BY <1>1, <2>1 DEF NeverStranded, Stirring, AttemptKnown
  <2> QED
    BY <2>1, <2>2 DEF AttemptKnown, SocketKnown
<1>2. CASE ~(transportClosed \/ connecting)
  <2>1. PICK c \in Conn : life[c] = "unused" /\ life' = [life EXCEPT ![c] = "opening"]
    BY <1>2 DEF Reconnect
  <2>2. life'[c] = "opening" /\ \A x \in Conn \ {c} : life'[x] = life[x]
    BY <2>1
  <2>3. SyslogTypeOK'
    BY <1>2, <2>1, SMT DEF Reconnect
  <2>4. AttemptKnown' /\ NeverStranded'
    BY <2>2 DEF AttemptKnown, NeverStranded, Stirring
  <2>5. SocketKnown'
    BY <2>1, <2>2 DEF SocketKnown, Reconnect
  <2> QED
    BY <2>3, <2>4, <2>5
<1> QED
  BY <1>1, <1>2

LEMMA ConnectedKeeps ==
  ASSUME SyslogInv, NEW c \in Conn, Connected(c)
  PROVE  SyslogInv'
<1> USE DEF SyslogInv, SyslogTypeOK, Lives
<1>1. SyslogTypeOK'
  <2>1. life' \in [Conn -> Lives] /\ waiting' \in 0..WaitingMax
    BY SMT DEF Connected
  <2>2. socket' \in Conn \cup {NoConn} /\ connecting' \in BOOLEAN
        /\ UNCHANGED <<transportClosed, reconnects>>
    BY DEF Connected
  <2> QED
    BY <2>1, <2>2
<1>2. life'[c] = "open" /\ socket' = c /\ ~connecting' /\ waiting' = 0
  BY DEF Connected
<1>3. AttemptKnown' /\ SocketKnown' /\ NeverStranded'
  BY <1>2 DEF AttemptKnown, SocketKnown, NeverStranded
<1> QED
  BY <1>1, <1>3

LEMMA DestroyedKeeps ==
  ASSUME SyslogInv, NEW c \in Conn, Destroyed(c)
  PROVE  SyslogInv'
<1> USE DEF SyslogInv, SyslogTypeOK, Lives
<1>1. SyslogTypeOK'
  BY DEF Destroyed
<1>2. /\ life[c] \in {"opening", "open"}
      /\ life'[c] = "broken" \/ (life[c] = "open" /\ life'[c] = "closing")
      /\ \A x \in Conn \ {c} : life'[x] = life[x]
  BY DEF Destroyed
<1>3. AttemptKnown' /\ SocketKnown'
  BY <1>2 DEF AttemptKnown, SocketKnown, Destroyed
<1>4. NeverStranded'
  BY <1>2 DEF NeverStranded, Stirring
<1> QED
  BY <1>1, <1>3, <1>4

LEMMA ReportKeeps ==
  ASSUME SyslogInv, NEW c \in Conn, OnError(c) \/ OnClose(c)
  PROVE  SyslogInv'
<1> USE DEF SyslogInv, SyslogTypeOK, Lives
<1>1. SyslogTypeOK'
  <2>1. life' \in [Conn -> Lives] /\ reconnects' \in Nat
    BY SMT DEF OnError, OnClose, TryAgain
  <2>2. socket' \in Conn \cup {NoConn} /\ connecting' \in BOOLEAN
        /\ UNCHANGED <<transportClosed, waiting>>
    BY DEF OnError, OnClose, TryAgain
  <2> QED
    BY <2>1, <2>2
<1>2. socket' = NoConn /\ ~connecting'
  BY DEF OnError, OnClose, TryAgain
<1>3. transportClosed' \/ reconnects' > 0
  BY SMT DEF OnError, OnClose, TryAgain
<1> QED
  BY <1>1, <1>2, <1>3 DEF AttemptKnown, SocketKnown, NeverStranded, Stirring

LEMMA SendKeeps == SyslogInv /\ SendMessage => SyslogInv'
<1> SUFFICES ASSUME SyslogInv, SendMessage PROVE SyslogInv'
  OBVIOUS
<1> USE DEF SyslogInv, SyslogTypeOK, Lives
<1>1. UNCHANGED <<life, socket, connecting, transportClosed, reconnects>>
      /\ waiting' \in 0..WaitingMax
  BY SMT DEF SendMessage
<1>2. socket = NoConn \/ life[socket] \in {"broken", "closing"}
  BY DEF SendMessage, SocketKnown
<1>3. ~transportClosed => Stirring
  BY <1>2 DEF NeverStranded, Stirring
<1>4. NeverStranded'
  BY <1>1, <1>3 DEF NeverStranded, Stirring
<1> QED
  BY <1>1, <1>4 DEF AttemptKnown, SocketKnown

LEMMA CloseKeeps == SyslogInv /\ CloseTransport => SyslogInv'
<1> SUFFICES ASSUME SyslogInv, CloseTransport PROVE SyslogInv'
  OBVIOUS
<1> USE DEF SyslogInv, SyslogTypeOK, Lives
<1>1. SyslogTypeOK'
  BY DEF CloseTransport
<1>2. \A x \in Conn : life'[x] = life[x] \/ (life[x] = "open" /\ life'[x] = "closing")
  BY DEF CloseTransport
<1>3. AttemptKnown'
  BY <1>2 DEF AttemptKnown, CloseTransport
<1>4. SocketKnown'
  BY <1>2 DEF SocketKnown, CloseTransport
<1>5. NeverStranded'
  BY DEF NeverStranded, CloseTransport
<1> QED
  BY <1>1, <1>3, <1>4, <1>5

-----------------------------------------------------------------------------
LEMMA SyslogInvStep == SyslogInv /\ [SyslogNext]_syslogVars => SyslogInv'
<1> SUFFICES ASSUME SyslogInv, [SyslogNext]_syslogVars PROVE SyslogInv'
  OBVIOUS
<1>1. CASE SyslogNext
  BY <1>1, ReconnectKeeps, ConnectedKeeps, DestroyedKeeps, ReportKeeps, SendKeeps, CloseKeeps
     DEF SyslogNext
<1>2. CASE UNCHANGED syslogVars
  BY <1>2 DEF syslogVars, SyslogInv, SyslogTypeOK, AttemptKnown, SocketKnown, NeverStranded,
              Stirring
<1> QED
  BY <1>1, <1>2

\* The fields of the transport keep their types, and no more messages wait
\* than the buffer holds.
THEOREM SyslogTypeCorrect == SyslogSpec => []SyslogTypeOK
<1>1. SyslogInv => SyslogTypeOK
  BY DEF SyslogInv
<1> QED
  BY <1>1, SyslogInvInit, SyslogInvStep, PTL DEF SyslogSpec

\* A transport without an open socket always has something on the way that
\* will make it try again.
THEOREM SyslogNeverStranded == SyslogSpec => []NeverStranded
<1>1. SyslogInv => NeverStranded
  BY DEF SyslogInv
<1> QED
  BY <1>1, SyslogInvInit, SyslogInvStep, PTL DEF SyslogSpec

-----------------------------------------------------------------------------
(* The supervisor.                                                         *)

LEMMA SupervisorLimits ==
  /\ MaxRestarts \in Nat \ {0} /\ CrashWindow \in Nat \ {0} /\ InitialBackoff \in Nat \ {0}
  /\ MaxBackoff \in Nat \ {0} /\ StableThreshold \in Nat \ {0} /\ StopGrace \in Nat \ {0}
  /\ InitialBackoff <= MaxBackoff
BY SupervisorAssumption

\* A restart is pending only after a death, and for a supervisor at work, whose
\* restarts are not used up; one that has not started has no child.
Quiet ==
  /\ timer # NoTimer => child \in Dead
  /\ supPc \in {"new", "starting", "stopping", "over", "gone"} => timer = NoTimer
  /\ supPc \in {"new", "starting"} => child = "none"
  /\ supPc \in {"new", "starting", "running"} => windowCount < MaxRestarts

SupervisorInv == SupervisorTypeOK /\ Quiet /\ ChildAccountedFor

LEMMA SupervisorInvInit == SupervisorInit => SupervisorInv
<1> SUFFICES ASSUME SupervisorInit PROVE SupervisorInv
  OBVIOUS
<1>1. NoTimer \in Nat
  BY SupervisorLimits DEF NoTimer
<1>2. SupervisorTypeOK
  <2>1. hosted \in BOOLEAN /\ crashLoop \in BOOLEAN
    BY DEF SupervisorInit
  <2>2. windowCount \in 0..MaxRestarts /\ backoff \in InitialBackoff..MaxBackoff
    BY SupervisorLimits DEF SupervisorInit
  <2>3. uptime \in 0..StableThreshold /\ windowAge \in 0..CrashWindow + 1 /\ grace \in 0..StopGrace
    BY SupervisorLimits DEF SupervisorInit
  <2> QED
    BY <1>1, <2>1, <2>2, <2>3 DEF SupervisorInit, SupervisorTypeOK
<1>3. Quiet /\ ChildAccountedFor
  BY SupervisorLimits DEF SupervisorInit, Quiet, ChildAccountedFor
<1> QED
  BY <1>2, <1>3 DEF SupervisorInv

LEMMA SupervisorInvNext == SupervisorInv /\ SupervisorNext => SupervisorInv'
<1> SUFFICES ASSUME SupervisorInv, SupervisorNext PROVE SupervisorInv'
  OBVIOUS
<1> USE SupervisorLimits
    DEF SupervisorInv, SupervisorTypeOK, Quiet, ChildAccountedFor, NoTimer, Dead, Lesser
<1>1. CASE StartSupervisor
  <2>1. SupervisorTypeOK'
    BY <1>1 DEF StartSupervisor
  <2>2. Quiet' /\ ChildAccountedFor'
    BY <1>1 DEF StartSupervisor
  <2> QED
    BY <2>1, <2>2
<1>2. CASE FirstSpawn
  <2>1. SupervisorTypeOK'
    BY <1>2 DEF FirstSpawn, SpawnChild
  <2>2. Quiet' /\ ChildAccountedFor'
    BY <1>2 DEF FirstSpawn, SpawnChild
  <2> QED
    BY <2>1, <2>2
<1>3. CASE HostExits
  <2>1. SupervisorTypeOK'
    BY <1>3 DEF HostExits
  <2>2. Quiet' /\ ChildAccountedFor'
    BY <1>3 DEF HostExits
  <2> QED
    BY <2>1, <2>2
<1>4. CASE DiesCleanly
  <2>1. SupervisorTypeOK'
    BY <1>4 DEF DiesCleanly
  <2>2. Quiet' /\ ChildAccountedFor'
    BY <1>4 DEF DiesCleanly
  <2> QED
    BY <2>1, <2>2
<1>5. CASE DiesUnwatched
  <2>1. SupervisorTypeOK'
    BY <1>5 DEF DiesUnwatched
  <2>2. Quiet' /\ ChildAccountedFor'
    BY <1>5 DEF DiesUnwatched
  <2> QED
    BY <2>1, <2>2
<1>6. CASE DiesAndRestarts
  <2>1. SupervisorTypeOK'
    <3>1. BackoffNow \in InitialBackoff..MaxBackoff
      BY DEF BackoffNow
    <3>2. NextBackoff \in InitialBackoff..MaxBackoff
      BY <3>1 DEF NextBackoff
    <3>3. windowCount' \in 0..MaxRestarts
      BY <1>6 DEF DiesAndRestarts, Dies, CountAfterDeath
    <3>4. windowAge' \in 0..CrashWindow + 1 /\ quick' \in Nat
      BY <1>6 DEF DiesAndRestarts, Dies
    <3> QED
      BY <1>6, <3>1, <3>2, <3>3, <3>4 DEF DiesAndRestarts, Dies
  <2>2. Quiet' /\ ChildAccountedFor'
    BY <1>6 DEF DiesAndRestarts, Dies, CountAfterDeath, Stable, WindowOver, BackoffNow, NextBackoff
  <2> QED
    BY <2>1, <2>2
<1>7. CASE DiesAndGivesUp
  <2>1. SupervisorTypeOK'
    <3>1. hosted' \in BOOLEAN /\ crashLoop' \in BOOLEAN
      BY <1>7 DEF DiesAndGivesUp, Dies
    <3>2. windowCount' \in 0..MaxRestarts
      BY <1>7 DEF DiesAndGivesUp, Dies, CountAfterDeath
    <3>3. backoff' \in InitialBackoff..MaxBackoff
      BY <1>7 DEF DiesAndGivesUp, BackoffNow
    <3>4. windowAge' \in 0..CrashWindow + 1 /\ quick' \in Nat
      BY <1>7 DEF DiesAndGivesUp, Dies
    <3> QED
      BY <1>7, <3>1, <3>2, <3>3, <3>4 DEF DiesAndGivesUp, Dies
  <2>2. Quiet' /\ ChildAccountedFor'
    BY <1>7 DEF DiesAndGivesUp, Dies, CountAfterDeath, Stable, WindowOver, BackoffNow
  <2> QED
    BY <2>1, <2>2
<1>8. CASE Restart
  <2>1. SupervisorTypeOK'
    BY <1>8 DEF Restart, SpawnChild
  <2>2. Quiet' /\ ChildAccountedFor'
    BY <1>8 DEF Restart, SpawnChild
  <2> QED
    BY <2>1, <2>2
<1>9. CASE Stop
  <2>1. SupervisorTypeOK'
    BY <1>9 DEF Stop
  <2>2. Quiet' /\ ChildAccountedFor'
    BY <1>9 DEF Stop
  <2> QED
    BY <2>1, <2>2
<1>10. CASE StopTimesOut
  <2>1. SupervisorTypeOK'
    BY <1>10 DEF StopTimesOut
  <2>2. Quiet' /\ ChildAccountedFor'
    BY <1>10 DEF StopTimesOut
  <2> QED
    BY <2>1, <2>2
<1>11. CASE SupervisorTick
  <2>1. SupervisorTypeOK'
    BY <1>11 DEF SupervisorTick
  <2>2. Quiet' /\ ChildAccountedFor'
    BY <1>11 DEF SupervisorTick
  <2> QED
    BY <2>1, <2>2
<1> QED
  BY <1>1, <1>2, <1>3, <1>4, <1>5, <1>6, <1>7, <1>8, <1>9, <1>10, <1>11
     DEF SupervisorNext

LEMMA SupervisorInvStep == SupervisorInv /\ [SupervisorNext]_supVars => SupervisorInv'
<1>1. SupervisorInv /\ UNCHANGED supVars => SupervisorInv'
  BY DEF supVars, SupervisorInv, SupervisorTypeOK, Quiet, ChildAccountedFor
<1> QED
  BY <1>1, SupervisorInvNext

\* The counters, timers and ages of the supervisor stay within their limits.
THEOREM SupervisorTypeCorrect == SupervisorSpec => []SupervisorTypeOK
<1>1. SupervisorInv => SupervisorTypeOK
  BY DEF SupervisorInv
<1> QED
  BY <1>1, SupervisorInvInit, SupervisorInvStep, PTL DEF SupervisorSpec

\* A supervisor at work has a child or a restart pending, and leaves neither
\* behind, for all times and limits.
THEOREM ChildrenAccountedFor == SupervisorSpec => []ChildAccountedFor
<1>1. SupervisorInv => ChildAccountedFor
  BY DEF SupervisorInv
<1> QED
  BY <1>1, SupervisorInvInit, SupervisorInvStep, PTL DEF SupervisorSpec

-----------------------------------------------------------------------------
(* Crash loops.                                                            *)

\* The longest time from one quick death to the next
Beat == MaxBackoff + QuickDeath

(***************************************************************************)
(* A streak of quick deaths that is longer than the window's count began   *)
(* in the window before, which counted fewer than MaxRestarts; in the      *)
(* present window every death was quick, so it is not old.                 *)
(***************************************************************************)
StreakTimed ==
  /\ supPc \in {"new", "starting"} => quick = 0
  /\ supPc = "running" /\ quick > windowCount =>
       /\ quick <= MaxRestarts - 1 + windowCount
       /\ timer # NoTimer => windowAge + QuickDeath + timer <= windowCount * Beat
       /\ child = "up" /\ uptime <= QuickDeath =>
            windowAge + QuickDeath <= windowCount * Beat + uptime

LEMMA Beats ==
  /\ Beat \in Nat
  /\ \A n \in Nat : n * Beat \in Nat /\ (n + 1) * Beat = n * Beat + Beat
  /\ 1 * Beat = Beat /\ MaxRestarts - 1 \in Nat
  /\ \A n \in Nat : n <= MaxRestarts - 1 => n * Beat <= (MaxRestarts - 1) * Beat
<1>1. Beat \in Nat /\ MaxRestarts - 1 \in Nat
  BY SupervisorAssumption, SupervisorLimits DEF Beat
<1>2. \A b \in Nat, n \in Nat : n * b \in Nat /\ (n + 1) * b = n * b + b
  OBVIOUS
<1>3. \A b, n, m \in Nat : n <= m => n * b <= m * b
  OBVIOUS
<1> QED
  BY <1>1, <1>2, <1>3

LEMMA QuickDeathKeepsTime ==
  ASSUME SupervisorInv, StreakTimed, DiesAndRestarts,
         (MaxRestarts - 1) * Beat <= CrashWindow
  PROVE  StreakTimed'
<1> USE SupervisorLimits, SupervisorAssumption, Beats
<1> DEFINE c == windowCount
           cb == windowCount * Beat
<1>1. /\ supPc = "running" /\ supPc' = "running" /\ child = "up" /\ child' # "up"
      /\ timer' = BackoffNow /\ CountAfterDeath < MaxRestarts /\ c' = CountAfterDeath
  BY DEF DiesAndRestarts, Dies
<1>2. BackoffNow \in Nat /\ BackoffNow <= MaxBackoff
  BY DEF BackoffNow, SupervisorInv, SupervisorTypeOK
<1>3. /\ c \in Nat /\ c <= MaxRestarts - 1 /\ windowAge \in Nat /\ quick \in Nat
      /\ uptime \in Nat /\ QuickDeath \in Nat
  BY <1>1 DEF SupervisorInv, SupervisorTypeOK, Quiet
<1>4. CASE uptime > QuickDeath
  <2>1. quick' = 0
    BY <1>3, <1>4 DEF DiesAndRestarts, Dies
  <2>2. c' \in Nat
    BY <1>1, <1>3 DEF CountAfterDeath
  <2> QED
    BY <1>1, <2>1, <2>2 DEF StreakTimed
<1>5. CASE uptime <= QuickDeath
  <2>1. ~Stable /\ quick' = quick + 1
    BY <1>3, <1>5 DEF DiesAndRestarts, Dies, Stable
  <2>2. cb \in Nat /\ cb <= (MaxRestarts - 1) * Beat /\ (c + 1) * Beat = cb + Beat
    BY <1>3
  <2>3. quick > c => windowAge + QuickDeath <= cb + uptime /\ quick <= MaxRestarts - 1 + c
    BY <1>1, <1>5 DEF StreakTimed
  <2> HIDE DEF cb
  <2>4. CASE WindowOver
    <3>1. c' = 1 /\ windowAge' = 0
      BY <1>1, <2>1, <2>4 DEF CountAfterDeath, DiesAndRestarts, Dies
    <3>2. ~(quick > c)
      BY <1>3, <1>5, <2>2, <2>3, <2>4 DEF WindowOver
    <3>3. quick' <= MaxRestarts - 1 + c'
      BY <1>3, <2>1, <3>1, <3>2
    <3>4. windowAge' + QuickDeath + timer' <= Beat
      BY <1>1, <1>2, <1>3, <3>1 DEF Beat
    <3>5. c' * Beat = Beat
      BY <3>1
    <3> QED
      BY <1>1, <3>3, <3>4, <3>5 DEF StreakTimed
  <2>5. CASE ~WindowOver
    <3>1. c' = c + 1 /\ windowAge' = windowAge
      BY <1>1, <2>1, <2>5 DEF CountAfterDeath, DiesAndRestarts, Dies
    <3>2. c' * Beat = cb + Beat
      BY <2>2, <3>1
    <3>3. quick' > c' => quick > c
      BY <1>3, <2>1, <3>1
    <3>4. quick > c => quick' <= MaxRestarts - 1 + c'
      BY <1>3, <2>1, <2>3, <3>1
    <3>5. quick > c => windowAge' + QuickDeath + timer' <= cb + Beat
      BY <1>1, <1>2, <1>3, <1>5, <2>2, <2>3, <3>1 DEF Beat
    <3> QED
      BY <1>1, <3>2, <3>3, <3>4, <3>5 DEF StreakTimed
  <2> QED
    BY <2>4, <2>5
<1> QED
  BY <1>3, <1>4, <1>5

LEMMA StreakStep ==
  ASSUME SupervisorInv, StreakTimed, [SupervisorNext]_supVars,
         (MaxRestarts - 1) * Beat <= CrashWindow
  PROVE  StreakTimed'
<1> USE SupervisorLimits, SupervisorAssumption
<1>1. CASE StartSupervisor \/ DiesCleanly \/ DiesUnwatched \/ DiesAndGivesUp \/ HostExits
           \/ Stop \/ StopTimesOut
  BY <1>1 DEF StartSupervisor, DiesCleanly, DiesUnwatched, DiesAndGivesUp, Dies, HostExits,
              Stop, StopTimesOut, StreakTimed, SupervisorInv, Quiet, SupervisorTypeOK
<1>2. CASE FirstSpawn
  BY <1>2 DEF FirstSpawn, StreakTimed, SupervisorInv, SupervisorTypeOK
<1>3. CASE Restart
  <2>1. supPc' = supPc /\ quick' = quick /\ windowCount' = windowCount /\ windowAge' = windowAge
        /\ timer = 0 /\ timer' = NoTimer
    BY <1>3 DEF Restart
  <2>2. supPc = "running" => uptime' = 0
    BY <1>3 DEF Restart, SpawnChild
  <2>3. 0 # NoTimer /\ windowAge \in Nat /\ windowCount * Beat \in Nat
    BY Beats DEF NoTimer, SupervisorInv, SupervisorTypeOK
  <2> QED
    BY <2>1, <2>2, <2>3 DEF StreakTimed
<1>4. CASE SupervisorTick
  <2> DEFINE cb == windowCount * Beat
  <2>1. /\ supPc' = supPc /\ child' = child /\ quick' = quick /\ windowCount' = windowCount
        /\ uptime' = (IF child = "up" THEN Lesser(uptime + 1, StableThreshold) ELSE uptime)
        /\ windowAge' = Lesser(windowAge + 1, CrashWindow + 1)
        /\ timer' = IF timer = NoTimer THEN NoTimer ELSE timer - 1
    BY <1>4 DEF SupervisorTick
  <2>2. cb \in Nat /\ windowAge \in Nat /\ uptime \in Nat /\ timer \in Nat /\ NoTimer \in Nat
    BY Beats DEF NoTimer, SupervisorInv, SupervisorTypeOK
  <2>3. supPc = "new" \/ supPc = "starting" => quick' = 0
    BY <2>1 DEF StreakTimed
  <2>4. windowAge' \in Nat /\ windowAge' <= windowAge + 1
    BY <2>1, <2>2 DEF Lesser
  <2>5. timer' # NoTimer => timer # NoTimer /\ timer' = timer - 1
    BY <2>1
  <2>6. child = "up" /\ uptime' <= QuickDeath => uptime <= QuickDeath /\ uptime' = uptime + 1
    BY <2>1, <2>2 DEF Lesser
  <2>7. cb' = cb
    BY <2>1 DEF Beat
  <2> HIDE DEF cb
  <2>8. ASSUME supPc = "running", quick > windowCount
        PROVE  /\ quick <= MaxRestarts - 1 + windowCount
               /\ timer # NoTimer => windowAge + QuickDeath + timer <= cb
               /\ child = "up" /\ uptime <= QuickDeath => windowAge + QuickDeath <= cb + uptime
    BY <2>8 DEF StreakTimed, cb
  <2>9. ASSUME supPc = "running", quick > windowCount
        PROVE  /\ timer' # NoTimer => windowAge' + QuickDeath + timer' <= cb
               /\ child = "up" /\ uptime' <= QuickDeath => windowAge' + QuickDeath <= cb + uptime'
    BY <2>2, <2>4, <2>5, <2>6, <2>8, <2>9
  <2> QED
    BY <2>1, <2>3, <2>7, <2>8, <2>9 DEF StreakTimed, cb, NoTimer
<1>5. CASE UNCHANGED supVars
  BY <1>5 DEF supVars, StreakTimed, NoTimer, Beat
<1> QED
  BY <1>1, <1>2, <1>3, <1>4, <1>5, QuickDeathKeepsTime DEF SupervisorNext

\* Children that die quickly are not restarted for ever, for all times and
\* limits with a window that outlasts MaxRestarts - 1 quick deaths, each after
\* the longest back-off.  The defaults of supervisor.ts are such (10 restarts,
\* 30 s and 5 min) where a quick death takes up to 3 s.
THEOREM CrashLoopsEnd ==
  ASSUME (MaxRestarts - 1) * (MaxBackoff + QuickDeath) <= CrashWindow
  PROVE  SupervisorSpec => []CrashLoopBounded
<1>1. (MaxRestarts - 1) * Beat <= CrashWindow
  BY DEF Beat
<1>2. SupervisorInit => StreakTimed
  BY SupervisorLimits DEF SupervisorInit, StreakTimed
<1>3. SupervisorInv /\ StreakTimed /\ [SupervisorNext]_supVars => StreakTimed'
  BY <1>1, StreakStep
<1>4. SupervisorInv /\ StreakTimed => CrashLoopBounded
  BY SupervisorLimits DEF SupervisorInv, SupervisorTypeOK, Quiet, StreakTimed, CrashLoopBounded
<1> QED
  BY <1>2, <1>3, <1>4, SupervisorInvInit, SupervisorInvStep, PTL DEF SupervisorSpec

-----------------------------------------------------------------------------
(* The checks before a start.                                              *)

\* What `orgloop start` comes to, if the doctor lets it.
Started ==
  IF ~Loads THEN "no config"
  ELSE IF Is("connectors", {"ok"}) /\ ~Importable("connectorPackage") THEN "no connector"
  ELSE "running"

\* The doctor speaks of the project as it is, and so does the start.
PreFlightInv ==
  /\ PreFlightTypeOK
  /\ verdict \in {"unasked", Diagnosis}
  /\ outcome # "none" /\ verdict = "ok" =>
       outcome = Started /\ (outcome = "running" => active = RoutesLoaded)

LEMMA SoundIsAState == \A piece \in Part : Sound[piece] \in States(piece)
BY DEF Sound, States, Part, Listed, RouteFile, FileState

LEMMA PreFlightInvInit == PreFlightInit => PreFlightInv
<1> SUFFICES ASSUME PreFlightInit PROVE PreFlightInv
  OBVIOUS
<1>1. PICK p \in Part, q \in Part :
        \E s \in States(p), t \in States(q) : project = [Sound EXCEPT ![p] = s, ![q] = t]
  BY DEF PreFlightInit, Projects
<1>2. DOMAIN Sound = Part
  BY DEF Sound
<1>3. DOMAIN project = Part /\ \A piece \in Part : project[piece] \in States(piece)
  BY <1>1, <1>2, SoundIsAState
<1> QED
  BY <1>3 DEF PreFlightInit, PreFlightInv, PreFlightTypeOK

LEMMA PreFlightInvStep == PreFlightInv /\ [PreFlightNext]_preFlightVars => PreFlightInv'
<1> SUFFICES ASSUME PreFlightInv, [PreFlightNext]_preFlightVars PROVE PreFlightInv'
  OBVIOUS
<1>1. ASSUME project' = project
      PROVE  Diagnosis' = Diagnosis /\ Started' = Started /\ RoutesLoaded' = RoutesLoaded
  <2>1. \A p, s : Is(p, s)' = Is(p, s)
    BY <1>1 DEF Is
  <2>2. /\ Loads' = Loads /\ RoutesLoaded' = RoutesLoaded /\ RoutesRead' = RoutesRead
        /\ PackageUsed' = PackageUsed
    BY <2>1 DEF Loads, RoutesLoaded, RoutesRead, PackageUsed, Unreadable
  <2>3. \A p : Importable(p)' = Importable(p) /\ Parsed(p)' = Parsed(p)
    BY <2>1 DEF Importable, Parsed
  <2>4. ValidationError' = ValidationError
    BY <2>1, <2>2, <2>3
    DEF ValidationError, ManifestError, FileError, ReferenceError, ScriptError, ConfigError
  <2>5. /\ Undeclared' = Undeclared /\ Registered' = Registered /\ Unset' = Unset
        /\ GraphWarning' = GraphWarning
    BY <2>1, <2>2, <2>3 DEF Undeclared, Registered, Unset, GraphWarning, ManifestError
  <2> QED
    BY <2>1, <2>2, <2>3, <2>4, <2>5 DEF Diagnosis, Started
<1>2. Diagnosis \in {"error", "degraded", "ok"}
  BY DEF Diagnosis
<1>3. CASE Doctor
  BY <1>1, <1>2, <1>3 DEF Doctor, PreFlightInv, PreFlightTypeOK
<1>4. ASSUME NEW force \in BOOLEAN, StartProject(force) PROVE PreFlightInv'
  <2>1. outcome' = (IF ~force /\ Diagnosis = "error" THEN "refused" ELSE Started)
    BY <1>4 DEF StartProject, Started
  <2>2. active' \in {RoutesLoaded, {}} /\ (outcome' = "running" => active' = RoutesLoaded)
    BY <1>4 DEF StartProject
  <2>3. verdict' \in {verdict, Diagnosis} /\ (~force => verdict' = Diagnosis) /\ project' = project
    BY <1>4 DEF StartProject
  <2>4. RoutesLoaded \subseteq RouteFile
    BY DEF RoutesLoaded
  <2>5. Started \in {"no config", "no connector", "running"}
    BY DEF Started
  <2>6. PreFlightTypeOK'
    BY <1>2, <2>1, <2>2, <2>3, <2>4, <2>5 DEF PreFlightInv, PreFlightTypeOK
  <2>7. verdict' = "ok" => outcome' = Started
    BY <2>1, <2>3
  <2> QED
    BY <1>1, <2>2, <2>3, <2>6, <2>7 DEF PreFlightInv
<1>5. ASSUME NEW piece \in Part, Mend(piece) PROVE PreFlightInv'
  BY <1>5, SoundIsAState DEF Mend, PreFlightInv, PreFlightTypeOK
<1>6. CASE UNCHANGED preFlightVars
  BY <1>1, <1>6 DEF preFlightVars, PreFlightInv, PreFlightTypeOK
<1> QED
  BY <1>3, <1>4, <1>5, <1>6 DEF PreFlightNext

\* What the doctor has nothing to say about is sound, but for route files that
\* are not there and packages that are not installed.
LEMMA NothingToSay ==
  ASSUME PreFlightTypeOK, Diagnosis = "ok"
  PROVE  /\ \A f \in Listed : project[f] = "ok"
         /\ project["manifest"] = "ok"
         /\ \A r \in RouteFile : project[r] \in {"ok", "absent"}
<1>1. ~ManifestError /\ ~FileError /\ ~ReferenceError /\ ~Unset
  BY DEF Diagnosis, ValidationError
<1>2. project["manifest"] = "ok"
  BY <1>1 DEF ManifestError, Unset, Is
<1>3. ASSUME NEW f \in Listed \cup RouteFile PROVE project[f] # "unset"
  BY <1>1, <1>2, <1>3 DEF Unset, Is
<1>4. ASSUME NEW f \in Listed PROVE project[f] = "ok"
  BY <1>1, <1>3, <1>4 DEF FileError, Parsed, Is
<1>5. ASSUME NEW r \in RouteFile PROVE project[r] \in {"ok", "absent"}
  <2>1. project[r] \in FileState \cup {"dangling", "promptless"}
    BY <1>5 DEF PreFlightTypeOK, States, Part, Listed, RouteFile
  <2>2. project[r] # "garbled"
    BY <1>1, <1>5 DEF FileError, Is
  <2>3. project[r] \notin {"dangling", "promptless"}
    BY <1>1, <1>5, <2>2 DEF ReferenceError, RoutesRead, Is
  <2> QED
    BY <1>3, <1>5, <2>1, <2>2, <2>3 DEF FileState
<1> QED
  BY <1>2, <1>4, <1>5

LEMMA OkIsWhole == PreFlightInv => OkMeansWhole
<1> SUFFICES ASSUME PreFlightInv, outcome # "none", verdict = "ok", Importable("connectorPackage"),
                    PackageUsed => Importable("transformPackage")
             PROVE  /\ outcome = "running"
                    /\ active = {r \in RouteFile : project[r] # "absent"}
                    /\ \A r \in active : InPlace(r)
  BY DEF OkMeansWhole
<1>1. PreFlightTypeOK /\ Diagnosis = "ok" /\ outcome = Started
  BY DEF PreFlightInv
<1>2. /\ \A f \in Listed : project[f] = "ok"
      /\ project["manifest"] = "ok"
      /\ \A r \in RouteFile : project[r] \in {"ok", "absent"}
  BY <1>1, NothingToSay
<1>3. project["connectors"] = "ok" /\ project["transforms"] = "ok"
  BY <1>2 DEF Listed
<1>4. outcome = "running"
  BY <1>1, <1>2 DEF Started, Loads, Is
<1>5. active = {r \in RouteFile : project[r] # "absent"}
  <2>1. active = RoutesLoaded
    BY <1>4 DEF PreFlightInv
  <2>2. \A r \in RouteFile : ~Unreadable(r)
    BY <1>2 DEF Unreadable, Is
  <2> QED
    BY <2>1, <2>2 DEF RoutesLoaded, Is, RouteFile
<1>6. ASSUME NEW r \in active PROVE InPlace(r)
  <2>1. r \in RouteFile /\ project[r] = "ok"
    BY <1>2, <1>5
  <2>2. Is("transform", {"script", "package"})
    <3>1. project["transform"] \in {"script", "noScript", "notExecutable", "package", "misfit"}
      BY <1>1 DEF PreFlightTypeOK, States, Part, Listed, RouteFile
    <3>2. ~ScriptError /\ ~ConfigError
      BY <1>1 DEF Diagnosis, ValidationError
    <3> QED
      BY <1>3, <3>1, <3>2 DEF ScriptError, ConfigError, Parsed, PackageUsed, Is
  <2> QED
    BY <1>3, <2>1, <2>2 DEF InPlace
<1> QED
  BY <1>4, <1>5, <1>6

\* The checks and the start read the same files with different loaders, and
\* agree: what doctor says nothing about starts and is whole, however often
\* the user mends and asks again (validate.ts, doctor.ts, start.ts).
THEOREM DoctorSpeaksTrue == PreFlightSpec => []OkMeansWhole
BY PreFlightInvInit, PreFlightInvStep, OkIsWhole, PTL DEF PreFlightSpec

\* The parts of a project stay in the states they can be in.
THEOREM PreFlightTyped == PreFlightSpec => []PreFlightTypeOK
<1>1. PreFlightInv => PreFlightTypeOK
  BY DEF PreFlightInv
<1> QED
  BY <1>1, PreFlightInvInit, PreFlightInvStep, PTL DEF PreFlightSpec

-----------------------------------------------------------------------------
(* The host: each component keeps its own invariant, and none touches the  *)
(* state of another.                                                       *)

HostInv ==
  /\ SupervisorInv /\ PreFlightInv /\ LoopInv /\ RingInv
  /\ SyslogInv /\ LogCount /\ TransformInv

LEMMA HostInvInit == HostInit => HostInv
BY SupervisorInvInit, PreFlightInvInit, LoopInvInit, RingInvInit, SyslogInvInit, LogCountInit,
   TransformInvInit DEF HostInit, HostInv

LEMMA HostInvStep == HostInv /\ [HostNext]_hostVars => HostInv'
<1> SUFFICES ASSUME HostInv, [HostNext]_hostVars PROVE HostInv'
  OBVIOUS
<1>1. /\ [SupervisorNext]_supVars /\ [PreFlightNext]_preFlightVars /\ [LoopNext]_loopVars
      /\ [RingNext]_ringVars /\ [SyslogNext]_syslogVars /\ [LogNext]_logVars
      /\ [TransformNext]_transformVars
  BY DEF HostNext, hostVars, SupervisorStep, PreFlightStep, LoopStep, RingStep, SyslogStep,
         LogStep, TransformStep, Alone
<1> QED
  BY <1>1, SupervisorInvStep, PreFlightInvStep, LoopInvStep, RingInvStep, SyslogInvStep,
     LogCountStep, TransformInvStep DEF HostInv

\* Every component of the host keeps to its types and bounds, whatever the sizes,
\* limits, times and configurations: the indices of the ring buffers stay inside the
\* array, the supervisor's back-off at or below its maximum, no more log lines than entries.
THEOREM HostTypesKept == HostSpec => []HostTypeOK
<1>1. HostInv => HostTypeOK
  <2>1. LoopInv => LoopTypeOK
    BY DEF LoopInv, Types, FewChains, Chained, LoopTypeOK
  <2> QED
    BY <2>1 DEF HostInv, HostTypeOK, SupervisorInv, PreFlightInv, RingInv, SyslogInv, LogCount,
                TransformInv
<1> QED
  BY <1>1, HostInvInit, HostInvStep, PTL DEF HostSpec
=============================================================================
