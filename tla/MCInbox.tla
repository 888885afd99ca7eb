------------------------------- MODULE MCInbox -------------------------------
(* Instances of Inbox for TLC.                                             *)
EXTENDS Inbox, TLC

\* Concurrent calls of one kind are interchangeable (safety runs only).
CallSymmetry == Permutations(Sender) \cup Permutations(Reader)
==============================================================================
