--------------------------- MODULE MCModuleLifecycle ---------------------------
(* Small instances of ModuleLifecycle for TLC.                             *)
EXTENDS ModuleLifecycle, TLC

CONSTANTS mod1, mod2, feed, hook1    \* model values

\* Both modules poll a source of the same id; the first one has a webhook.
MCPolled == (mod1 :> {feed}) @@ (mod2 :> {feed})
MCHooked == (mod1 :> {hook1}) @@ (mod2 :> {})

\* Two projects that both name their webhook source hook1.
MCShared == (mod1 :> {hook1}) @@ (mod2 :> {hook1})

CallerSymmetry == Permutations(Caller)
==============================================================================
