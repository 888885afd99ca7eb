----------------------------- MODULE InboxProofs -----------------------------
(***************************************************************************)
(* Theorems about Inbox, for every number of sessions, calls and entries.  *)
(***************************************************************************)
EXTENDS Inbox, FiniteSetTheorems, TLAPS

LEMMA NoKeyIsKey == NoKey \in Key
BY InboxAssumption DEF NoKey

\* splice() hands out stored entries only.
LEMMA BatchIsPart == ASSUME NEW S, NEW n PROVE Batch(S, n) \subseteq S
BY DEF Batch

\* Where Release is used, the locks stay calls or "no call".
LEMMA ReleaseType ==
    ASSUME TypeOK, NEW c \in Reader, Release(c)
    PROVE  /\ lock' \in [Key -> Reader \cup {NoCall}]
           /\ prev' \in [Reader -> Reader \cup {NoCall}]
BY DEF TypeOK, Release

\* Suspending a call on a count, and ending it, keep the shape of callVars.
LEMMA AwaitCountType ==
    ASSUME TypeOK, NEW c \in Call, NEW from, NEW to \in Point, AwaitCount(c, from, to)
    PROVE  /\ pc' \in [Call -> Point] /\ key' \in [Call -> Key]
           /\ limit' \in [Reader -> Nat] /\ found' \in [Call -> BOOLEAN]
<1>1. found' \in [Call -> BOOLEAN]
  <2> DEFINE some == Live(key[c]) # {}
  <2>1. some \in BOOLEAN
    OBVIOUS
  <2>2. found' = [found EXCEPT ![c] = some]
    BY DEF AwaitCount
  <2> HIDE DEF some
  <2> QED BY <2>1, <2>2 DEF TypeOK
<1> QED BY <1>1 DEF AwaitCount, Goto, TypeOK

LEMMA ReturnType ==
    ASSUME TypeOK, NEW c \in Call, NEW from, Return(c, from)
    PROVE  /\ pc' \in [Call -> Point] /\ key' \in [Call -> Key]
           /\ limit' \in [Reader -> Nat] /\ found' \in [Call -> BOOLEAN]
BY NoKeyIsKey DEF Return, Goto, TypeOK, Point

\* Type correctness: every variable of the inbox keeps its shape.
THEOREM TypeCorrect == Spec => []TypeOK
<1>1. Init => TypeOK
  <2> SUFFICES ASSUME Init PROVE TypeOK
    OBVIOUS
  <2>1. nextId \in 1 .. MaxEntry + 1
    BY InboxAssumption DEF Init
  <2>2. /\ queue \in [Key -> SUBSET (1 .. MaxEntry)]
        /\ given \in [Key -> SUBSET (1 .. MaxEntry)]
        /\ expired \subseteq 1 .. MaxEntry
        /\ wiped \subseteq 1 .. MaxEntry
    BY DEF Init
  <2>3. /\ flag \in [Key -> BOOLEAN]
        /\ found \in [Call -> BOOLEAN]
        /\ told \in [Key -> BOOLEAN]
        /\ failed \in [Key -> BOOLEAN]
        /\ refused \in [Key -> BOOLEAN]
        /\ closed \in BOOLEAN
    BY DEF Init
  <2>4. /\ lock \in [Key -> Reader \cup {NoCall}]
        /\ prev \in [Reader -> Reader \cup {NoCall}]
        /\ pc \in [Call -> Point]
        /\ key \in [Call -> Key]
        /\ limit \in [Reader -> Nat]
    BY NoKeyIsKey DEF Init, Point
  <2> QED BY <2>1, <2>2, <2>3, <2>4 DEF TypeOK
<1>2. TypeOK /\ [Next]_vars => TypeOK'
  <2> SUFFICES ASSUME TypeOK, [Next]_vars PROVE TypeOK'
    OBVIOUS
  <2> USE NoKeyIsKey, InboxAssumption
  <2>1. CASE UNCHANGED vars
    BY <2>1 DEF TypeOK, vars, lockVars, wakeVars, callVars
  <2>2. ASSUME NEW c \in Sender, SenderStep(c) PROVE TypeOK'
    <3>1. ASSUME NEW k \in Key, Enqueue(c, k) PROVE TypeOK'
      BY <3>1 DEF Enqueue, EntryId, TypeOK, Goto, lockVars, wakeVars, Point, Call
    <3>2. CASE CheckFlag(c)
      <4> c \in Call
        BY DEF Call
      <4>1. /\ pc' \in [Call -> Point] /\ key' \in [Call -> Key]
            /\ limit' \in [Reader -> Nat] /\ found' \in [Call -> BOOLEAN]
        BY <3>2, AwaitCountType, ReturnType DEF CheckFlag, Point
      <4> QED BY <3>2, <4>1 DEF CheckFlag, TypeOK, storeVars, lockVars, wakeVars
    <3> QED BY <2>2, <3>1, <3>2 DEF SenderStep
  <2>3. ASSUME NEW c \in Reader, ReaderStep(c) PROVE TypeOK'
    <3>1. ASSUME NEW k \in Key, NEW n \in Limit, DrainCall(c, k, n) PROVE TypeOK'
      BY <3>1 DEF DrainCall, TypeOK, Goto, Point, Call
    <3>2. CASE DoDrain(c)
      <4>1. /\ lock' \in [Key -> Reader \cup {NoCall}]
            /\ prev' \in [Reader -> Reader \cup {NoCall}]
        BY <3>2, ReleaseType DEF DoDrain
      <4>2. /\ queue' \in [Key -> SUBSET (1 .. MaxEntry)]
            /\ given' \in [Key -> SUBSET (1 .. MaxEntry)]
        BY <3>2, BatchIsPart DEF DoDrain, TypeOK, Live, Call
      <4> QED
        BY <3>2, <4>1, <4>2 DEF DoDrain, TypeOK, Goto, wakeVars, Point, Call
    <3>3. CASE DoDrainThrows(c)
      <4>1. /\ lock' \in [Key -> Reader \cup {NoCall}]
            /\ prev' \in [Reader -> Reader \cup {NoCall}]
        BY <3>3, ReleaseType DEF DoDrainThrows
      <4> QED
        BY <3>3, <4>1 DEF DoDrainThrows, TypeOK, Return, Goto, Live, Point, Call
    <3>4. CASE ClearFlag(c)
      <4>1. /\ pc' \in [Call -> Point] /\ key' \in [Call -> Key]
            /\ limit' \in [Reader -> Nat] /\ found' \in [Call -> BOOLEAN]
        BY <3>4, AwaitCountType DEF ClearFlag, Point, Call
      <4> QED BY <3>4, <4>1 DEF ClearFlag, TypeOK, storeVars, lockVars
    <3>5. CASE Recount(c)
      <4>1. /\ pc' \in [Call -> Point] /\ key' \in [Call -> Key]
            /\ limit' \in [Reader -> Nat] /\ found' \in [Call -> BOOLEAN]
        BY <3>5, AwaitCountType, ReturnType DEF Recount, Point, Call
      <4> QED BY <3>5, <4>1 DEF Recount, TypeOK, storeVars, lockVars, wakeVars
    <3> QED BY <2>3, <3>1, <3>2, <3>3, <3>4, <3>5 DEF ReaderStep
  <2>4. ASSUME NEW c \in Call, NotifyStep(c) PROVE TypeOK'
    <3> USE DEF TypeOK, Return, Goto, storeVars, lockVars, wakeVars, Point
    <3>1. CASE Notify(c)
      <4>1. CASE found[c]
        BY <3>1, <4>1 DEF Notify
      <4>2. CASE ~found[c]
        BY <3>1, <4>2 DEF Notify
      <4> QED BY <4>1, <4>2
    <3>2. CASE Reach(c)
      BY <3>2 DEF Reach
    <3>3. CASE NotifySucceeds(c)
      BY <3>3 DEF NotifySucceeds
    <3>4. CASE NotifyRefused(c)
      BY <3>4 DEF NotifyRefused
    <3>5. CASE NotifyThrows(c)
      <4>1. PICK from \in {"notifying", "reached"} : Return(c, from)
        BY <3>5 DEF NotifyThrows
      <4>2. /\ pc' \in [Call -> Point] /\ key' \in [Call -> Key]
            /\ limit' \in [Reader -> Nat] /\ found' \in [Call -> BOOLEAN]
        BY <4>1, ReturnType
      <4> QED BY <3>5, <4>2 DEF NotifyThrows
    <3> QED BY <2>4, <3>1, <3>2, <3>3, <3>4, <3>5 DEF NotifyStep
  <2>5. ASSUME NEW k \in Key, NEW i \in Live(k), Expire(k, i) PROVE TypeOK'
    BY <2>5 DEF Expire, TypeOK, Live, lockVars, wakeVars, callVars
  <2>6. CASE ExpireStale
    BY <2>6 DEF ExpireStale, TypeOK, Live, lockVars, wakeVars, callVars
  <2>7. CASE Close
    <3>1. wiped' \subseteq 1 .. MaxEntry
      <4>1. \A k \in Key : queue[k] \subseteq 1 .. MaxEntry
        BY DEF TypeOK
      <4>2. wiped' = wiped \cup UNION {queue[k] : k \in Key}
        BY <2>7 DEF Close
      <4>3. wiped \subseteq 1 .. MaxEntry
        BY DEF TypeOK
      <4> QED BY <4>1, <4>2, <4>3, Zenon
    <3>2. /\ queue' \in [Key -> SUBSET (1 .. MaxEntry)]
          /\ lock' \in [Key -> Reader \cup {NoCall}]
          /\ closed' \in BOOLEAN
      BY <2>7 DEF Close
    <3> QED BY <2>7, <3>1, <3>2 DEF Close, TypeOK, wakeVars, callVars
  <2> QED BY <2>1, <2>2, <2>3, <2>4, <2>5, <2>6, <2>7 DEF Next
<1> QED BY <1>1, <1>2, PTL DEF Spec

------------------------------------------------------------------------------
(* No lost wake-up.  The invariant splits in two: the first part follows   *)
(* the entries (whoever lets the flag down looks at the queue afterwards), *)
(* the second the flag (whoever raises it goes on to wake the agent, whose *)
(* next drain lets it down).  Each is inductive over the typed states.     *)

\* An entry that waits behind a lowered flag is pursued.
THEOREM WaitingPursued == Spec => []WaitingIsPursued
<1>1. Init => WaitingIsPursued
  BY DEF Init, WaitingIsPursued, Live
<1>2. TypeOK /\ WaitingIsPursued /\ [Next]_vars => WaitingIsPursued'
  <2> SUFFICES ASSUME TypeOK, WaitingIsPursued, [Next]_vars,
                      NEW k \in Key, Live(k)' # {}, ~flag'[k], ~failed'[k]
               PROVE  \E d \in Call : Pursuing(d, k)'
    BY DEF WaitingIsPursued
  <2>0. ASSUME Live(k) # {}, ~flag[k], ~failed[k]
        PROVE  \E d \in Call : Pursuing(d, k)
    BY <2>0 DEF WaitingIsPursued
  <2>1. CASE UNCHANGED vars
    <3>1. Live(k) # {} /\ ~flag[k] /\ ~failed[k]
      BY <2>1 DEF vars, Live, wakeVars
    <3>2. PICK d \in Call : Pursuing(d, k)
      BY <3>1, <2>0
    <3>3. Pursuing(d, k)'
      BY <3>2, <2>1 DEF vars, callVars, Pursuing
    <3> QED BY <3>3
  <2>2. ASSUME NEW c \in Sender, SenderStep(c) PROVE \E d \in Call : Pursuing(d, k)'
    <3> c \in Call
      BY DEF Call
    <3>1. ASSUME NEW j \in Key, Enqueue(c, j) PROVE \E d \in Call : Pursuing(d, k)'
      <4>1. CASE j = k
        <5>1. Pursuing(c, k)'
          BY <3>1, <4>1 DEF Enqueue, EntryId, Goto, Pursuing, TypeOK
        <5> QED BY <5>1
      <4>2. CASE j # k
        <5>1. Live(k) # {} /\ ~flag[k] /\ ~failed[k]
          BY <3>1, <4>2 DEF Enqueue, EntryId, Live, wakeVars, TypeOK
        <5>2. PICK d \in Call : Pursuing(d, k)
          BY <5>1, <2>0
        <5>3. d # c
          BY <3>1, <5>2 DEF Enqueue, EntryId, Goto, Pursuing
        <5>4. Pursuing(d, k)'
          BY <3>1, <5>2, <5>3 DEF Enqueue, EntryId, Goto, Pursuing, TypeOK
        <5> QED BY <5>4
      <4> QED BY <4>1, <4>2
    <3>2. CASE CheckFlag(c)
      <4>1. Live(k) # {} /\ ~flag[k] /\ ~failed[k]
        BY <3>2 DEF CheckFlag, Live, storeVars, wakeVars
      <4>2. PICK d \in Call : Pursuing(d, k)
        BY <4>1, <2>0
      <4>3. CASE d = c
        <5>1. Pursuing(c, k)'
          BY <3>2, <4>1, <4>2, <4>3 DEF CheckFlag, AwaitCount, Goto, Pursuing, TypeOK
        <5> QED BY <5>1
      <4>4. CASE d # c
        <5>1. Pursuing(d, k)'
          BY <3>2, <4>2, <4>4 DEF CheckFlag, AwaitCount, Return, Goto, Pursuing, TypeOK
        <5> QED BY <5>1
      <4> QED BY <4>3, <4>4
    <3> QED BY <2>2, <3>1, <3>2 DEF SenderStep
  <2>3. ASSUME NEW c \in Reader, ReaderStep(c) PROVE \E d \in Call : Pursuing(d, k)'
    <3> c \in Call
      BY DEF Call
    <3>1. ASSUME NEW j \in Key, NEW n \in Limit, DrainCall(c, j, n)
          PROVE  \E d \in Call : Pursuing(d, k)'
      <4>1. Live(k) # {} /\ ~flag[k] /\ ~failed[k]
        BY <3>1 DEF DrainCall, Live
      <4>2. PICK d \in Call : Pursuing(d, k)
        BY <4>1, <2>0
      <4>3. d # c
        BY <3>1, <4>2 DEF DrainCall, Goto, Pursuing
      <4>4. Pursuing(d, k)'
        BY <3>1, <4>2, <4>3 DEF DrainCall, Goto, Pursuing, TypeOK
      <4> QED BY <4>4
    <3>2. CASE DoDrain(c)
      <4>1. CASE key[c] = k
        <5>1. Pursuing(c, k)'
          BY <3>2, <4>1 DEF DoDrain, Goto, Pursuing, TypeOK
        <5> QED BY <5>1
      <4>2. CASE key[c] # k
        <5>1. Live(k) # {} /\ ~flag[k] /\ ~failed[k]
          BY <3>2, <4>2 DEF DoDrain, Live, wakeVars, TypeOK
        <5>2. PICK d \in Call : Pursuing(d, k)
          BY <5>1, <2>0
        <5>3. d # c
          BY <4>2, <5>2 DEF Pursuing
        <5>4. Pursuing(d, k)'
          BY <3>2, <5>2, <5>3 DEF DoDrain, Goto, Pursuing, TypeOK
        <5> QED BY <5>4
      <4> QED BY <4>1, <4>2
    <3>3. CASE DoDrainThrows(c)
      <4>1. Live(k) # {} /\ ~flag[k] /\ ~failed[k]
        BY <3>3 DEF DoDrainThrows, Live, TypeOK
      <4>2. PICK d \in Call : Pursuing(d, k)
        BY <4>1, <2>0
      <4>3. d # c
        BY <3>3, <4>2 DEF DoDrainThrows, Return, Goto, Pursuing
      <4>4. Pursuing(d, k)'
        BY <3>3, <4>2, <4>3 DEF DoDrainThrows, Return, Goto, Pursuing, TypeOK
      <4> QED BY <4>4
    <3>4. CASE ClearFlag(c)
      <4>1. CASE key[c] = k
        <5>1. Live(k) # {}
          BY <3>4 DEF ClearFlag, storeVars, Live
        <5>2. Pursuing(c, k)'
          BY <3>4, <4>1, <5>1 DEF ClearFlag, AwaitCount, Goto, Pursuing, TypeOK
        <5> QED BY <5>2
      <4>2. CASE key[c] # k
        <5>1. Live(k) # {} /\ ~flag[k] /\ ~failed[k]
          BY <3>4, <4>2 DEF ClearFlag, storeVars, Live, TypeOK
        <5>2. PICK d \in Call : Pursuing(d, k)
          BY <5>1, <2>0
        <5>3. d # c
          BY <4>2, <5>2 DEF Pursuing
        <5>4. Pursuing(d, k)'
          BY <3>4, <5>2, <5>3 DEF ClearFlag, AwaitCount, Goto, Pursuing, TypeOK
        <5> QED BY <5>4
      <4> QED BY <4>1, <4>2
    <3>5. CASE Recount(c)
      <4>1. Live(k) # {} /\ ~flag[k] /\ ~failed[k]
        BY <3>5 DEF Recount, storeVars, wakeVars, Live
      <4>2. PICK d \in Call : Pursuing(d, k)
        BY <4>1, <2>0
      <4>3. CASE d = c
        <5>1. Pursuing(c, k)'
          BY <3>5, <4>1, <4>2, <4>3 DEF Recount, AwaitCount, Return, Goto, Pursuing, TypeOK
        <5> QED BY <5>1
      <4>4. CASE d # c
        <5>1. Pursuing(d, k)'
          BY <3>5, <4>2, <4>4 DEF Recount, AwaitCount, Return, Goto, Pursuing, TypeOK
        <5> QED BY <5>1
      <4> QED BY <4>3, <4>4
    <3> QED BY <2>3, <3>1, <3>2, <3>3, <3>4, <3>5 DEF ReaderStep
  <2>4. ASSUME NEW c \in Call, NotifyStep(c) PROVE \E d \in Call : Pursuing(d, k)'
    <3>1. key[c] # k \/ ~NotifyThrows(c)
      BY DEF NotifyThrows, TypeOK
    <3>2. key[c] # k \/ ~(Notify(c) /\ found[c])
      BY DEF Notify, TypeOK
    <3>3. Live(k) # {} /\ ~flag[k] /\ ~failed[k]
      BY <2>4, <3>1, <3>2 DEF NotifyStep, Notify, Reach, NotifySucceeds, NotifyRefused,
         NotifyThrows, storeVars, wakeVars, Live, TypeOK
    <3>4. PICK d \in Call : Pursuing(d, k)
      BY <3>3, <2>0
    <3>5. d # c
      BY <2>4, <3>2, <3>4 DEF NotifyStep, Notify, Reach, NotifySucceeds, NotifyRefused,
         NotifyThrows, Return, Goto, Pursuing
    <3>6. Pursuing(d, k)'
      BY <2>4, <3>4, <3>5 DEF NotifyStep, Notify, Reach, NotifySucceeds, NotifyRefused,
         NotifyThrows, Return, Goto, Pursuing, TypeOK
    <3> QED BY <3>6
  <2>5. ASSUME UNCHANGED <<wakeVars, callVars>>, Live(k) # {}
        PROVE  \E d \in Call : Pursuing(d, k)'
    <3>1. PICK d \in Call : Pursuing(d, k)
      BY <2>5, <2>0 DEF wakeVars
    <3>2. Pursuing(d, k)'
      BY <2>5, <3>1 DEF callVars, Pursuing
    <3> QED BY <3>2
  <2>6. ASSUME NEW j \in Key, NEW i \in Live(j), Expire(j, i)
        PROVE  \E d \in Call : Pursuing(d, k)'
    BY <2>5, <2>6 DEF Expire, Live
  <2>7. CASE ExpireStale
    BY <2>5, <2>7 DEF ExpireStale, Live
  <2>8. CASE Close
    BY <2>8 DEF Close, Live
  <2> QED BY <2>1, <2>2, <2>3, <2>4, <2>6, <2>7, <2>8 DEF Next
<1> QED BY <1>1, <1>2, TypeCorrect, PTL DEF Spec

\* A raised flag stands for a wake-up that is delivered, on its way, or known
\* to have been turned down.
THEOREM FlagOwned == Spec => []FlagIsOwned
<1>1. Init => FlagIsOwned
  BY DEF Init, FlagIsOwned
<1>2. TypeOK /\ FlagIsOwned /\ [Next]_vars => FlagIsOwned'
  <2> SUFFICES ASSUME TypeOK, FlagIsOwned, [Next]_vars,
                      NEW k \in Key, flag'[k], ~told'[k], ~refused'[k]
               PROVE  \E d \in Call : Answering(d, k)'
    BY DEF FlagIsOwned
  <2>0. ASSUME flag[k], ~told[k], ~refused[k]
        PROVE  \E d \in Call : Answering(d, k)
    BY <2>0 DEF FlagIsOwned
  <2>1. ASSUME NEW c \in Sender, SenderStep(c) PROVE \E d \in Call : Answering(d, k)'
    <3> USE <2>1 DEF SenderStep, Enqueue, CheckFlag
    <3>1. flag[k] /\ ~told[k] /\ ~refused[k]
      BY DEF wakeVars
    <3>2. PICK d \in Call : Answering(d, k)
      BY <3>1, <2>0
    <3>3. d # c
      BY <3>2 DEF Answering, Return, AwaitCount, Goto
    <3>4. Answering(d, k)'
      BY <3>2, <3>3 DEF Answering, Return, AwaitCount, Goto, TypeOK
    <3> QED BY <3>4
  <2>2. ASSUME NEW c \in Reader, ReaderStep(c) PROVE \E d \in Call : Answering(d, k)'
    <3> c \in Call
      BY DEF Call
    <3>1. ASSUME NEW j \in Key, NEW n \in Limit, DrainCall(c, j, n)
          PROVE  \E d \in Call : Answering(d, k)'
      <4>1. CASE j = k
        <5>1. Answering(c, k)'
          BY <3>1, <4>1 DEF DrainCall, Goto, Answering, TypeOK
        <5> QED BY <5>1
      <4>2. CASE j # k
        <5>1. flag[k] /\ ~told[k] /\ ~refused[k]
          BY <3>1, <4>2 DEF DrainCall, TypeOK
        <5>2. PICK d \in Call : Answering(d, k)
          BY <5>1, <2>0
        <5>3. Answering(d, k)'
          BY <3>1, <5>2 DEF DrainCall, Goto, Answering, TypeOK
        <5> QED BY <5>3
      <4> QED BY <4>1, <4>2
    <3>2. CASE DoDrain(c)
      <4>1. flag[k] /\ ~told[k] /\ ~refused[k]
        BY <3>2 DEF DoDrain, wakeVars
      <4>2. PICK d \in Call : Answering(d, k)
        BY <4>1, <2>0
      <4>3. Answering(d, k)'
        BY <3>2, <4>2 DEF DoDrain, Goto, Answering, TypeOK
      <4> QED BY <4>3
    <3>3. CASE DoDrainThrows(c)
      <4>1. key[c] # k /\ flag[k] /\ ~told[k] /\ ~refused[k]
        BY <3>3 DEF DoDrainThrows, TypeOK
      <4>2. PICK d \in Call : Answering(d, k)
        BY <4>1, <2>0
      <4>3. Answering(d, k)'
        BY <3>3, <4>1, <4>2 DEF DoDrainThrows, Return, Goto, Answering, TypeOK
      <4> QED BY <4>3
    <3>4. CASE ClearFlag(c)
      <4>1. key[c] # k /\ flag[k] /\ ~told[k] /\ ~refused[k]
        BY <3>4 DEF ClearFlag, TypeOK
      <4>2. PICK d \in Call : Answering(d, k)
        BY <4>1, <2>0
      <4>3. Answering(d, k)'
        BY <3>4, <4>1, <4>2 DEF ClearFlag, AwaitCount, Goto, Answering, TypeOK
      <4> QED BY <4>3
    <3>5. CASE Recount(c)
      <4>1. flag[k] /\ ~told[k] /\ ~refused[k]
        BY <3>5 DEF Recount, wakeVars
      <4>2. PICK d \in Call : Answering(d, k)
        BY <4>1, <2>0
      <4>3. d # c
        BY <3>5, <4>2 DEF Recount, Return, AwaitCount, Goto, Answering
      <4>4. Answering(d, k)'
        BY <3>5, <4>2, <4>3 DEF Recount, Return, AwaitCount, Goto, Answering, TypeOK
      <4> QED BY <4>4
    <3> QED BY <2>2, <3>1, <3>2, <3>3, <3>4, <3>5 DEF ReaderStep
  <2>3. ASSUME NEW c \in Call, NotifyStep(c) PROVE \E d \in Call : Answering(d, k)'
    <3>1. CASE Notify(c) /\ found[c] /\ key[c] = k
      <4>1. Answering(c, k)'
        BY <3>1 DEF Notify, Goto, Answering, TypeOK
      <4> QED BY <4>1
    <3>2. CASE ~(Notify(c) /\ found[c] /\ key[c] = k)
      <4> USE DEF NotifyStep, Notify, Reach, NotifySucceeds, NotifyRefused, NotifyThrows
      <4>1. /\ flag[k] /\ ~told[k] /\ ~refused[k]
            /\ pc[c] = "notifying" => key[c] # k
        BY <2>3, <3>2 DEF Return, Goto, wakeVars, TypeOK
      <4>2. PICK d \in Call : Answering(d, k)
        BY <4>1, <2>0
      <4>3. d # c
        BY <2>3, <4>1, <4>2 DEF Return, Goto, Answering
      <4>4. Answering(d, k)'
        BY <2>3, <4>2, <4>3 DEF Return, Goto, Answering, TypeOK
      <4> QED BY <4>4
    <3> QED BY <3>1, <3>2
  <2>4. CASE UNCHANGED <<wakeVars, callVars>>
    <3>1. PICK d \in Call : Answering(d, k)
      BY <2>4, <2>0 DEF wakeVars
    <3>2. Answering(d, k)'
      BY <2>4, <3>1 DEF callVars, Answering
    <3> QED BY <3>2
  <2>5. ASSUME NEW j \in Key, NEW i \in Live(j), Expire(j, i)
        PROVE  UNCHANGED <<wakeVars, callVars>>
    BY <2>5 DEF Expire
  <2>6. ExpireStale \/ Close \/ UNCHANGED vars => UNCHANGED <<wakeVars, callVars>>
    BY DEF ExpireStale, Close, vars
  <2> QED BY <2>1, <2>2, <2>3, <2>4, <2>5, <2>6 DEF Next
<1> QED BY <1>1, <1>2, TypeCorrect, PTL DEF Spec

\* No lost wake-up, for any number of sessions, events and concurrent calls.
THEOREM WakeupsNotLost == Spec => []NoLostWakeup
<1>1. WaitingIsPursued /\ FlagIsOwned => NoLostWakeup
  BY DEF WaitingIsPursued, FlagIsOwned, NoLostWakeup
<1> QED BY <1>1, WaitingPursued, FlagOwned, PTL

------------------------------------------------------------------------------
(* Conservation of entries, and the store as a Mailbox                     *)

\* Every stored or expired entry has been numbered, and is stored once.
Numbered == /\ expired \subseteq 1 .. nextId - 1
            /\ \A k \in Key : queue[k] \subseteq 1 .. nextId - 1
            /\ \A j, k \in Key : j # k => queue[j] \cap queue[k] = {}

LEMMA NumberedInvariant == Spec => []Numbered
<1>1. Init => Numbered
  BY DEF Init, Numbered
<1>2. TypeOK /\ Numbered /\ [Next]_vars => Numbered'
  <2> SUFFICES ASSUME TypeOK, Numbered, [Next]_vars PROVE Numbered'
    OBVIOUS
  <2> USE DEF Numbered, storeVars
  <2>1. ASSUME NEW c \in Sender, NEW j \in Key, Enqueue(c, j) PROVE Numbered'
    BY <2>1 DEF Enqueue, EntryId, TypeOK
  <2>2. ASSUME NEW c \in Reader, DoDrain(c) PROVE Numbered'
    BY <2>2 DEF DoDrain, Live, TypeOK
  <2>3. ASSUME NEW c \in Reader, DoDrainThrows(c) PROVE Numbered'
    BY <2>3 DEF DoDrainThrows, Live, TypeOK
  <2>4. ASSUME NEW c \in Reader, ReaderStep(c), ~DoDrain(c), ~DoDrainThrows(c)
        PROVE  Numbered'
    BY <2>4 DEF ReaderStep, DrainCall, ClearFlag, Recount
  <2>5. ASSUME NEW c \in Call, NotifyStep(c) \/ CheckFlag(c) PROVE Numbered'
    BY <2>5 DEF CheckFlag, NotifyStep, Notify, Reach, NotifySucceeds, NotifyRefused,
                NotifyThrows
  <2>6. ASSUME NEW j \in Key, NEW i \in Live(j), Expire(j, i) PROVE Numbered'
    BY <2>6 DEF Expire, Live
  <2>7. CASE ExpireStale
    BY <2>7 DEF ExpireStale, Live
  <2>8. CASE Close
    BY <2>8 DEF Close
  <2>9. CASE UNCHANGED vars
    BY <2>9 DEF vars
  <2> QED BY <2>1, <2>2, <2>3, <2>4, <2>5, <2>6, <2>7, <2>8, <2>9
          DEF Next, SenderStep, Call
<1> QED BY <1>1, <1>2, TypeCorrect, PTL DEF Spec

\* What is left behind by a batch is younger than the batch.
LEMMA BatchIsOldest ==
    ASSUME NEW S \in SUBSET Nat, IsFiniteSet(S), NEW n \in Nat,
           NEW i \in Batch(S, n), NEW j \in S \ Batch(S, n)
    PROVE  i < j
<1> DEFINE Older(x) == {y \in S : y < x}
<1>0. i \in Nat /\ j \in Nat /\ i # j
  BY DEF Batch
<1>1. IsFiniteSet(Older(i))
  <2>1. Older(i) \in SUBSET S
    OBVIOUS
  <2> QED BY <2>1, FS_Subset, Zenon
<1>2. Cardinality(Older(i)) < n
  BY DEF Batch
<1>3. ASSUME j < i PROVE FALSE
  <2>1. Older(j) \subseteq Older(i)
    <3> SUFFICES ASSUME NEW y \in S, y < j PROVE y < i
      OBVIOUS
    <3> y \in Nat
      OBVIOUS
    <3> QED BY <1>0, <1>3
  <2>2. Cardinality(Older(j)) <= Cardinality(Older(i))
    <3>1. Older(j) \in SUBSET Older(i)
      BY <2>1
    <3> HIDE DEF Older
    <3> QED BY <3>1, <1>1, FS_Subset
  <2>3. Cardinality(Older(j)) \in Nat /\ Cardinality(Older(i)) \in Nat
    <3>1. Older(j) \in SUBSET Older(i)
      BY <2>1
    <3> HIDE DEF Older
    <3> QED BY <3>1, <1>1, FS_Subset, FS_CardinalityType
  <2>4. Cardinality(Older(j)) < n
    BY <2>2, <2>3, <1>2
  <2> QED BY <2>4 DEF Batch
<1> QED BY <1>0, <1>3

\* No entry disappears: enqueued entries are stored, handed over, out of time,
\* or discarded by close().
THEOREM EntriesConserved == Spec => []NothingVanishes
<1>1. Init => NothingVanishes
  BY DEF Init, NothingVanishes
<1>2. TypeOK /\ NothingVanishes /\ [Next]_vars => NothingVanishes'
  <2> SUFFICES ASSUME TypeOK, NothingVanishes, [Next]_vars PROVE NothingVanishes'
    OBVIOUS
  <2> USE DEF NothingVanishes, storeVars
  <2>1. ASSUME NEW c \in Sender, NEW j \in Key, Enqueue(c, j) PROVE NothingVanishes'
    <3> SUFFICES ASSUME NEW i \in 1 .. nextId' - 1, i \notin expired, i \notin wiped
                 PROVE  \E k \in Key : i \in queue'[k] \cup given'[k]
      BY <2>1 DEF Enqueue, EntryId
    <3>1. CASE i = nextId
      BY <2>1, <3>1 DEF Enqueue, EntryId, TypeOK
    <3>2. CASE i # nextId
      <4>1. i \in 1 .. nextId - 1
        BY <2>1, <3>2 DEF Enqueue, EntryId, TypeOK
      <4>2. PICK k \in Key : i \in queue[k] \cup given[k]
        BY <4>1
      <4> QED BY <2>1, <4>2 DEF Enqueue, EntryId, TypeOK
    <3> QED BY <3>1, <3>2
  <2>2. ASSUME NEW c \in Reader, DoDrain(c) PROVE NothingVanishes'
    <3> SUFFICES ASSUME NEW i \in 1 .. nextId - 1, i \notin expired, i \notin wiped
                 PROVE  \E k \in Key : i \in queue'[k] \cup given'[k]
      BY <2>2 DEF DoDrain
    <3>1. PICK k \in Key : i \in queue[k] \cup given[k]
      OBVIOUS
    <3>2. i \in queue'[k] \cup given'[k]
      BY <2>2, <3>1 DEF DoDrain, Live, TypeOK
    <3> QED BY <3>2
  <2>3. ASSUME NEW c \in Reader, DoDrainThrows(c) PROVE NothingVanishes'
    BY <2>3 DEF DoDrainThrows, Live, TypeOK
  <2>4. ASSUME NEW c \in Reader, ReaderStep(c), ~DoDrain(c), ~DoDrainThrows(c)
        PROVE  NothingVanishes'
    BY <2>4 DEF ReaderStep, DrainCall, ClearFlag, Recount
  <2>5. ASSUME NEW c \in Call, NotifyStep(c) \/ CheckFlag(c) PROVE NothingVanishes'
    BY <2>5 DEF CheckFlag, NotifyStep, Notify, Reach, NotifySucceeds, NotifyRefused,
                NotifyThrows
  <2>6. ASSUME NEW j \in Key, NEW i \in Live(j), Expire(j, i) PROVE NothingVanishes'
    BY <2>6 DEF Expire
  <2>7. CASE ExpireStale
    BY <2>7 DEF ExpireStale, Live, TypeOK
  <2>8. CASE Close
    BY <2>8 DEF Close, TypeOK
  <2>9. CASE UNCHANGED vars
    BY <2>9 DEF vars
  <2> QED BY <2>1, <2>2, <2>3, <2>4, <2>5, <2>6, <2>7, <2>8, <2>9
          DEF Next, SenderStep, Call
<1> QED BY <1>1, <1>2, TypeCorrect, PTL DEF Spec

\* Entries leave the store once, and oldest first: the inbox implements the
\* Mailbox.
THEOREM InboxIsMailbox == Spec => ImplementsMailbox
<1> DEFINE box == [k \in Key |-> Live(k)]
<1>1. Init => MB!Init
  BY DEF Init, MB!Init, Live
<1>2. TypeOK /\ Numbered /\ [Next]_vars => [MB!Next]_(MB!vars)
  <2> SUFFICES ASSUME TypeOK, Numbered, [Next]_vars
               PROVE  MB!Next \/ UNCHANGED MB!vars
    OBVIOUS
  <2>1. ASSUME NEW c \in Sender, NEW j \in Key, Enqueue(c, j) PROVE MB!Next
    <3>1. nextId \notin expired /\ nextId \in Nat
      BY DEF Numbered, TypeOK
    <3>2. box' = [box EXCEPT ![j] = @ \cup {nextId}]
      BY <2>1, <3>1 DEF Enqueue, EntryId, Live, TypeOK
    <3>3. nextId' - 1 = (nextId - 1) + 1 /\ (nextId - 1) + 1 = nextId
      BY <2>1, <3>1 DEF Enqueue, EntryId
    <3>4. MB!Deposit(j)
      BY <2>1, <3>2, <3>3 DEF MB!Deposit, Enqueue
    <3> QED BY <3>4 DEF MB!Next
  <2>2. ASSUME NEW c \in Reader, DoDrain(c) PROVE MB!Next
    <3> DEFINE k == key[c]
               batch == Batch(Live(k), limit[c])
    <3>1. k \in Key /\ limit[c] \in Nat
      BY DEF TypeOK, Call
    <3>2. batch \subseteq Live(k)
      BY BatchIsPart
    <3>3. Live(k) \in SUBSET Nat /\ IsFiniteSet(Live(k))
      <4>1. Live(k) \subseteq 1 .. MaxEntry
        BY <3>1 DEF Live, TypeOK
      <4>2. IsFiniteSet(1 .. MaxEntry)
        BY FS_Interval, InboxAssumption
      <4> QED BY <4>1, <4>2, FS_Subset, InboxAssumption
    <3>4. \A i \in batch, j \in Live(k) \ batch : i < j
      BY <3>1, <3>3, BatchIsOldest
    <3>5. box' = [box EXCEPT ![k] = @ \ batch]
      BY <2>2, <3>1, <3>2 DEF DoDrain, Live, TypeOK
    <3>6. given' = [given EXCEPT ![k] = @ \cup batch] /\ nextId' = nextId
      BY <2>2 DEF DoDrain
    <3> HIDE DEF batch
    <3>7. MB!Collect(k, batch)
      BY <3>1, <3>2, <3>4, <3>5, <3>6 DEF MB!Collect
    <3>8. batch \in SUBSET box[k]
      BY <3>1, <3>2
    <3> QED BY <3>1, <3>7, <3>8 DEF MB!Next
  <2>3. ASSUME NEW c \in Reader, DoDrainThrows(c) PROVE UNCHANGED MB!vars
    BY <2>3 DEF DoDrainThrows, Live, TypeOK, MB!vars
  <2>4. ASSUME NEW c \in Reader, ReaderStep(c), ~DoDrain(c), ~DoDrainThrows(c)
        PROVE  UNCHANGED MB!vars
    BY <2>4 DEF ReaderStep, DrainCall, ClearFlag, Recount, storeVars, Live, MB!vars
  <2>5. ASSUME NEW c \in Call, NotifyStep(c) \/ CheckFlag(c) PROVE UNCHANGED MB!vars
    BY <2>5 DEF CheckFlag, NotifyStep, Notify, Reach, NotifySucceeds, NotifyRefused,
                NotifyThrows, storeVars, Live, MB!vars
  <2>6. ASSUME NEW j \in Key, NEW i \in Live(j), Expire(j, i) PROVE MB!Next
    <3>1. box' = [box EXCEPT ![j] = @ \ {i}]
      <4>1. \A m \in Key : m # j => i \notin queue[m]
        BY <2>6 DEF Live, Numbered
      <4>2. \A m \in Key : Live(m)' = IF m = j THEN Live(m) \ {i} ELSE Live(m)
        BY <2>6, <4>1 DEF Expire, Live
      <4> HIDE DEF Live
      <4> QED BY <4>2
    <3>2. MB!Lapse(j, i)
      BY <2>6, <3>1 DEF Expire, MB!Lapse
    <3>3. i \in box[j]
      BY <2>6
    <3> QED BY <3>2, <3>3 DEF MB!Next
  <2>7. CASE ExpireStale
    BY <2>7 DEF ExpireStale, Live, MB!vars
  <2>8. CASE Close
    <3>1. box' = [k \in Key |-> {}]
      BY <2>8 DEF Close, Live
    <3>2. MB!Wipe
      BY <2>8, <3>1 DEF Close, MB!Wipe
    <3> QED BY <3>2 DEF MB!Next
  <2>9. CASE UNCHANGED vars
    BY <2>9 DEF vars, Live, storeVars, MB!vars
  <2> QED BY <2>1, <2>2, <2>3, <2>4, <2>5, <2>6, <2>7, <2>8, <2>9
          DEF Next, SenderStep, Call
<1> QED BY <1>1, <1>2, TypeCorrect, NumberedInvariant, PTL DEF Spec, ImplementsMailbox, MB!Spec

(***************************************************************************)
(* The queue behind a key's lock.  To show that a drain joins no circle    *)
(* one has to know that what the lock holds is a drain under way, too.     *)
(***************************************************************************)
LockIsWaiting ==
    \A k \in Key : lock[k] # NoCall => pc[lock[k]] = "waiting" /\ key[lock[k]] = k

WaitsOnWaiting ==
    \A c \in Reader : prev[c] # NoCall =>
        pc[prev[c]] = "waiting" /\ key[prev[c]] = key[c]

NoCircle == \A S \in SUBSET Reader : S # {} => \E c \in S : prev[c] \notin S

OnlyWaiting == \A c \in Reader : prev[c] # NoCall => pc[c] = "waiting"

Queued == LockIsWaiting /\ WaitsOnWaiting /\ OnlyWaiting /\ NoCircle

\* A drain joins the queue at its end.
LEMMA JoinsQueue ==
    ASSUME TypeOK, Queued, NEW c \in Reader, NEW k \in Key, NEW n \in Limit,
           DrainCall(c, k, n)
    PROVE  Queued'
<1>1. /\ pc[c] = "idle" /\ pc' = [pc EXCEPT ![c] = "waiting"]
      /\ key' = [key EXCEPT ![c] = k]
      /\ prev' = [prev EXCEPT ![c] = lock[k]]
      /\ lock' = [lock EXCEPT ![k] = c]
  BY DEF DrainCall, Goto
<1>2. \A d \in Reader : prev[d] # c
  BY <1>1, InboxAssumption DEF Queued, WaitsOnWaiting
<1>3. \A j \in Key : lock[j] # c
  BY <1>1, InboxAssumption DEF Queued, LockIsWaiting
<1>4. LockIsWaiting'
  BY <1>1, <1>3 DEF Queued, LockIsWaiting, TypeOK, Call
<1>5. WaitsOnWaiting'
  BY <1>1, <1>2, <1>3, InboxAssumption DEF Queued, LockIsWaiting, WaitsOnWaiting, TypeOK, Call
<1>6. NoCircle'
  <2> SUFFICES ASSUME NEW S \in SUBSET Reader, S # {}
               PROVE  \E d \in S : prev'[d] \notin S
    BY DEF NoCircle
  <2>1. CASE S \ {c} = {}
    <3>1. S = {c}
      BY <2>1
    <3>2. prev'[c] = lock[k]
      BY <1>1 DEF TypeOK
    <3> QED BY <1>3, <3>1, <3>2
  <2>2. CASE S \ {c} # {}
    <3>1. PICK d \in S \ {c} : prev[d] \notin S \ {c}
      BY <2>2 DEF Queued, NoCircle
    <3>2. prev'[d] = prev[d]
      BY <1>1, <3>1 DEF TypeOK
    <3> QED BY <1>2, <3>1, <3>2
  <2> QED BY <2>1, <2>2
<1>7. OnlyWaiting'
  BY <1>1 DEF Queued, OnlyWaiting, TypeOK, Call
<1> QED BY <1>4, <1>5, <1>6, <1>7 DEF Queued

\* A drain that has cut its batch, or that throws, lets the next one go on.
LEMMA LeavesQueue ==
    ASSUME TypeOK, Queued, NEW c \in Reader, prev[c] = NoCall, Release(c), NEW to,
           pc' = [pc EXCEPT ![c] = to],
           key' = key \/ key' = [key EXCEPT ![c] = NoKey]
    PROVE  Queued'
<1>1. /\ prev' = [d \in Reader |-> IF prev[d] = c THEN NoCall ELSE prev[d]]
      /\ lock' = [k \in Key |-> IF lock[k] = c THEN NoCall ELSE lock[k]]
  BY DEF Release
<1>2. LockIsWaiting'
  BY <1>1 DEF Queued, LockIsWaiting, TypeOK, Call
<1>3. WaitsOnWaiting'
  <2> SUFFICES ASSUME NEW d \in Reader, prev'[d] # NoCall
               PROVE  pc'[prev'[d]] = "waiting" /\ key'[prev'[d]] = key'[d]
    BY DEF WaitsOnWaiting
  <2>1. prev'[d] = prev[d] /\ prev[d] # c
    BY <1>1
  <2>2. pc[prev[d]] = "waiting" /\ key[prev[d]] = key[d] /\ prev[d] \in Reader
    BY <2>1 DEF Queued, WaitsOnWaiting, TypeOK
  <2>3. d # c
    BY <1>1
  <2> QED BY <2>1, <2>2, <2>3 DEF TypeOK, Call
<1>4. NoCircle'
  BY <1>1, InboxAssumption DEF Queued, NoCircle
<1>5. OnlyWaiting'
  BY <1>1 DEF Queued, OnlyWaiting, TypeOK, Call
<1> QED BY <1>2, <1>3, <1>4, <1>5 DEF Queued

\* The other steps of a call are about nothing that waits.
LEMMA NotInQueue ==
    ASSUME TypeOK, Queued, NEW c \in Call, pc[c] # "waiting", UNCHANGED lockVars,
           NEW to, NEW k, pc' = [pc EXCEPT ![c] = to],
           key' = key \/ key' = [key EXCEPT ![c] = k]
    PROVE  Queued'
<1>1. \A d \in Call : pc[d] = "waiting" => pc'[d] = pc[d] /\ key'[d] = key[d]
  BY DEF TypeOK
<1>2. LockIsWaiting'
  BY <1>1 DEF Queued, LockIsWaiting, lockVars, TypeOK, Call
<1>3. WaitsOnWaiting' /\ OnlyWaiting'
  BY <1>1 DEF Queued, WaitsOnWaiting, OnlyWaiting, lockVars, TypeOK, Call
<1>4. NoCircle'
  BY DEF Queued, NoCircle, lockVars
<1> QED BY <1>2, <1>3, <1>4 DEF Queued

\* However many drains of however many sessions are asked for, and whether
\* they return or throw, those that wait do so in line, behind one that may
\* go on.
THEOREM DrainsInLine == Spec => []DrainsTakeTurns
<1>1. Init => Queued
  BY InboxAssumption DEF Init, Queued, LockIsWaiting, WaitsOnWaiting, OnlyWaiting, NoCircle
<1>2. TypeOK /\ Queued /\ [Next]_vars => Queued'
  <2> SUFFICES ASSUME TypeOK, Queued, [Next]_vars PROVE Queued'
    OBVIOUS
  <2>1. ASSUME NEW c \in Reader, NEW k \in Key, NEW n \in Limit, DrainCall(c, k, n)
        PROVE  Queued'
    BY <2>1, JoinsQueue
  <2>2. ASSUME NEW c \in Reader, DoDrain(c) \/ DoDrainThrows(c)
        PROVE  Queued'
    <3>1. prev[c] = NoCall /\ Release(c)
      BY <2>2 DEF DoDrain, DoDrainThrows
    <3>2. \/ pc' = [pc EXCEPT ![c] = "drained"] /\ key' = key
          \/ pc' = [pc EXCEPT ![c] = "idle"] /\ key' = [key EXCEPT ![c] = NoKey]
      BY <2>2 DEF DoDrain, DoDrainThrows, Return, Goto
    <3> QED BY <3>1, <3>2, LeavesQueue
  <2>3. ASSUME NEW c \in Call, NEW from, NEW to, from # "waiting", UNCHANGED lockVars,
               AwaitCount(c, from, to) \/ Return(c, from)
        PROVE  Queued'
    <3>1. CASE AwaitCount(c, from, to)
      BY <2>3, <3>1, NotInQueue DEF AwaitCount, Goto
    <3>2. CASE Return(c, from)
      BY <2>3, <3>2, NotInQueue DEF Return, Goto
    <3> QED BY <2>3, <3>1, <3>2
  <2>4. ASSUME NEW c \in Sender, SenderStep(c) PROVE Queued'
    <3>1. ASSUME NEW k \in Key, Enqueue(c, k) PROVE Queued'
      BY <3>1, NotInQueue DEF Enqueue, Goto, Call
    <3>2. CASE CheckFlag(c)
      BY <2>3, <3>2 DEF CheckFlag, storeVars, Call
    <3> QED BY <2>4, <3>1, <3>2 DEF SenderStep
  <2>5. ASSUME NEW c \in Call, NotifyStep(c) PROVE Queued'
    <3>1. CASE Notify(c)
      <4>1. CASE found[c]
        BY <3>1, <4>1, NotInQueue DEF Notify, Goto, storeVars
      <4>2. CASE ~found[c]
        BY <2>3, <3>1, <4>2 DEF Notify, storeVars
      <4> QED BY <4>1, <4>2
    <3>2. CASE Reach(c)
      BY <3>2, NotInQueue DEF Reach, Goto, storeVars
    <3>3. CASE NotifySucceeds(c)
      BY <2>3, <3>3 DEF NotifySucceeds, storeVars
    <3>4. CASE NotifyRefused(c)
      BY <2>3, <3>4 DEF NotifyRefused, storeVars
    <3>5. CASE NotifyThrows(c)
      BY <2>3, <3>5 DEF NotifyThrows, storeVars
    <3> QED BY <2>5, <3>1, <3>2, <3>3, <3>4, <3>5 DEF NotifyStep
  <2>6. ASSUME NEW c \in Reader, ClearFlag(c) \/ Recount(c) PROVE Queued'
    BY <2>3, <2>6 DEF ClearFlag, Recount, storeVars, Call
  <2>7. CASE Close
    BY <2>7, InboxAssumption DEF Close, callVars, Queued, LockIsWaiting, WaitsOnWaiting,
                                 OnlyWaiting, NoCircle
  <2>8. CASE UNCHANGED <<lockVars, callVars>>
    BY <2>8 DEF lockVars, callVars, Queued, LockIsWaiting, WaitsOnWaiting,
                OnlyWaiting, NoCircle
  <2>9. ASSUME (\E k \in Key : \E i \in Live(k) : Expire(k, i))
               \/ ExpireStale \/ UNCHANGED vars
        PROVE  UNCHANGED <<lockVars, callVars>>
    BY <2>9 DEF Expire, ExpireStale, vars
  <2> QED
    BY <2>1, <2>2, <2>4, <2>5, <2>6, <2>7, <2>8, <2>9 DEF Next, ReaderStep
<1> QED
  BY <1>1, <1>2, TypeCorrect, PTL DEF Spec, DrainsTakeTurns, Queued, WaitsOnWaiting, NoCircle
==============================================================================
