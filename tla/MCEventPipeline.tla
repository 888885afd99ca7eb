---------------------------- MODULE MCEventPipeline ----------------------------
(* Small instances of EventPipeline for TLC.                               *)
EXTENDS EventPipeline, TLC

\* Every event matches two routes of the first module, the second of them
\* without an actor, and one route of the second module.
MCMatch  == {<<e, 1, 1>> : e \in Event} \cup {<<e, 1, 2>> : e \in Event}
                \cup {<<e, 2, 1>> : e \in Event}
MCManned == {<<1, 1>>, <<2, 1>>}
==============================================================================
