----------------------------- MODULE HistoryRing -----------------------------
(***************************************************************************)
(* The ring buffers of the audit trail and of the event history:           *)
(*   packages/core/src/audit.ts          AuditTrail                        *)
(*   packages/core/src/event-history.ts  EventHistory                      *)
(* The two classes have the same text; indices start at 0 as in the code.  *)
(***************************************************************************)
EXTENDS Naturals, Sequences

CONSTANTS Rec,       \* records
          RingSize,  \* maxSize
          Empty      \* what a slot holds before it is written

ASSUME RingAssumption == RingSize \in Nat \ {0} /\ Empty \notin Rec

VARIABLES ring,      \* buffer
          head,      \* the slot written next
          count      \* slots in use

ringVars == <<ring, head, count>>

RingTypeOK ==
  /\ ring \in [0..RingSize - 1 -> Rec \cup {Empty}]
  /\ head \in 0..RingSize - 1
  /\ count \in 0..RingSize

RingInit ==
  /\ ring = [i \in 0..RingSize - 1 |-> Empty]
  /\ head = 0
  /\ count = 0

\* Fault: a full ring counts on.
CountOn == count + 1
Counted == IF count < RingSize THEN count + 1 ELSE count

\* record(), push()
PushRecord(r) ==
  /\ ring' = [ring EXCEPT ![head] = r]
  /\ head' = (head + 1) % RingSize
  /\ count' = Counted

RingNext == \E r \in Rec : PushRecord(r)

RingSpec == RingInit /\ [][RingNext]_ringVars

\* Fault: the oldest record is looked for where the next one goes.
OldestAtHead == head
\* The slot of the oldest record
Oldest == (head + RingSize - count) % RingSize

\* toArray(): from the newest record to the oldest
ToArray == [i \in 1..count |-> ring[(Oldest + (count - i)) % RingSize]]

-----------------------------------------------------------------------------
(***************************************************************************)
(* The arithmetic modulo maxSize keeps exactly the latest records in their *)
(* order, before, while and after the head passes the end of the array     *)
(* (AuditTrail.record and toArray, EventHistory.push and toArray).         *)
(***************************************************************************)
Recent == INSTANCE RecentLog WITH Size <- RingSize, recent <- ToArray

RingIsRecentLog == Recent!RecentSpec
=============================================================================
