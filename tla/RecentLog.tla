------------------------------ MODULE RecentLog ------------------------------
(***************************************************************************)
(* What a history of bounded size promises: the latest Size records, the   *)
(* newest first.                                                           *)
(***************************************************************************)
EXTENDS Naturals, Sequences

CONSTANTS Rec,    \* records
          Size    \* how many are kept

VARIABLE recent

RecentInit == recent = <<>>

Longer(r) == <<r>> \o recent

Remember(r) == recent' = IF Len(recent) < Size THEN Longer(r)
                                               ELSE SubSeq(Longer(r), 1, Size)

RecentNext == \E r \in Rec : Remember(r)

RecentSpec == RecentInit /\ [][RecentNext]_recent
=============================================================================
