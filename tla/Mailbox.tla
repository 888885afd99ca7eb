------------------------------- MODULE Mailbox -------------------------------
(***************************************************************************)
(* What the inbox of packages/core/src/inbox-store.ts promises a session,  *)
(* with no timers, flags, locks or calls: entries are numbered in the      *)
(* order they are deposited, an entry leaves the box exactly once, and it  *)
(* is handed over only when no older entry is left behind.                 *)
(***************************************************************************)
EXTENDS Naturals

CONSTANT Key              \* session keys

VARIABLES box,            \* box[k]: entries a session could still collect
          given,          \* given[k]: entries handed to the session
          last            \* number of the newest entry, 0 before the first

vars == <<box, given, last>>

Init == /\ box = [k \in Key |-> {}]
        /\ given = [k \in Key |-> {}]
        /\ last = 0

Deposit(k) == /\ last' = last + 1
              /\ box' = [box EXCEPT ![k] = @ \cup {last + 1}]
              /\ UNCHANGED given

Collect(k, batch) ==
    /\ batch \subseteq box[k]
    /\ \A i \in batch, j \in box[k] \ batch : i < j
    /\ box' = [box EXCEPT ![k] = @ \ batch]
    /\ given' = [given EXCEPT ![k] = @ \cup batch]
    /\ UNCHANGED last

\* The time to live of an entry runs out before the session collects it.
Lapse(k, i) == /\ i \in box[k]
               /\ box' = [box EXCEPT ![k] = @ \ {i}]
               /\ UNCHANGED <<given, last>>

\* The runtime shuts down and discards every box.
Wipe == /\ box' = [k \in Key |-> {}]
        /\ UNCHANGED <<given, last>>

Next == \/ \E k \in Key :
              \/ Deposit(k)
              \/ \E batch \in SUBSET box[k] : Collect(k, batch)
              \/ \E i \in box[k] : Lapse(k, i)
        \/ Wipe

Spec == Init /\ [][Next]_vars
==============================================================================
