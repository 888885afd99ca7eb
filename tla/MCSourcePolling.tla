--------------------------- MODULE MCSourcePolling ---------------------------
(* Instances of SourcePolling for TLC.                                     *)
EXTENDS SourcePolling, TLC

\* Activations of pollSource are interchangeable (safety runs only).
PollerSymmetry == Permutations(Poller)
==============================================================================
