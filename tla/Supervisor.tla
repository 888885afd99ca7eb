----------------------------- MODULE Supervisor -----------------------------
(***************************************************************************)
(* The supervisor (packages/core/src/supervisor.ts) restarts the daemon's  *)
(* process when it dies, and `orgloop start --supervised`, which hosts it. *)
(*                                                                         *)
(* Time is counted in ticks.  What the code reads off the clock is kept as *)
(* an age or as what is left of a timer, so that no clock has to grow.     *)
(***************************************************************************)
EXTENDS Naturals

CONSTANTS
  MaxRestarts,      \* maxRestarts, at most so many deaths in one window
  CrashWindow,      \* crashWindowMs
  InitialBackoff,   \* initialBackoffMs
  MaxBackoff,       \* maxBackoffMs
  StableThreshold,  \* stableThresholdMs
  StopGrace,        \* the five seconds stop() waits for the child
  QuickDeath        \* observer: a child dies quickly if it lives no longer

ASSUME SupervisorAssumption ==
  /\ {MaxRestarts, CrashWindow, InitialBackoff, MaxBackoff, StableThreshold,
      StopGrace} \subseteq Nat \ {0}
  /\ InitialBackoff <= MaxBackoff
  /\ QuickDeath \in Nat /\ QuickDeath < StableThreshold

VARIABLES
  hosted,       \* its host lives as long as it does (a program that embeds
                \* core); the command line's exits once it has started
  supPc,        \* "new", "starting", "running", "stopping", "over", "gone"
  child,        \* the last child: "none", "up", "unborn" (its fork failed),
                \* "clean" (code 0), "failed" (another code), "killed" (signal)
  uptime,       \* age of the child, up to StableThreshold
  windowAge,    \* age of the crash window, up to CrashWindow + 1
  windowCount,  \* windowRestartCount
  backoff,      \* currentBackoffMs
  timer,        \* what is left of restartTimer, NoTimer if there is none
  grace,        \* what is left of the wait in stop()
  crashLoop,    \* crashLoopDetected
  quick         \* observer: quick deaths in a row

supVars == <<hosted, supPc, child, uptime, windowAge, windowCount, backoff,
             timer, grace, crashLoop, quick>>

NoTimer == MaxBackoff + 1
Lesser(a, b) == IF a <= b THEN a ELSE b
Dead == {"clean", "failed", "killed"}

SupervisorTypeOK ==
  /\ hosted \in BOOLEAN
  /\ supPc \in {"new", "starting", "running", "stopping", "over", "gone"}
  /\ child \in {"none", "up", "unborn"} \cup Dead
  /\ uptime \in 0..StableThreshold
  /\ windowAge \in 0..CrashWindow + 1
  /\ windowCount \in 0..MaxRestarts
  /\ backoff \in InitialBackoff..MaxBackoff
  /\ timer \in 0..NoTimer
  /\ grace \in 0..StopGrace
  /\ crashLoop \in BOOLEAN
  /\ quick \in Nat

SupervisorInit ==
  /\ hosted \in BOOLEAN
  /\ supPc = "new"
  /\ child = "none"
  /\ uptime = 0
  /\ windowAge = 0
  /\ windowCount = 0
  /\ backoff = InitialBackoff
  /\ timer = NoTimer
  /\ grace = 0
  /\ crashLoop = FALSE
  /\ quick = 0

-----------------------------------------------------------------------------
(* start(), and spawnChild(): a fork that fails says "error", not "exit".  *)

SpawnChild ==
  /\ child' \in {"up", "unborn"}
  /\ uptime' = 0

StartSupervisor ==
  /\ supPc = "new"
  /\ supPc' = "starting"
  /\ windowAge' = 0
  /\ UNCHANGED <<hosted, child, uptime, windowCount, backoff, timer, grace, crashLoop, quick>>

\* The PID file is written.
FirstSpawn ==
  /\ supPc = "starting"
  /\ supPc' = "running"
  /\ SpawnChild
  /\ UNCHANGED <<hosted, windowAge, windowCount, backoff, timer, grace, crashLoop, quick>>

\* `orgloop start --daemon --supervised` calls process.exit(0) when start()
\* has returned: the supervisor dies with its timers, the child lives on.
HostExits ==
  /\ ~hosted
  /\ supPc = "running"
  /\ supPc' = "gone"
  /\ timer' = NoTimer
  /\ UNCHANGED <<hosted, child, uptime, windowAge, windowCount, backoff, grace, crashLoop, quick>>

-----------------------------------------------------------------------------
(* handleChildExit().                                                      *)

DiesCleanly ==
  /\ child = "up"
  /\ child' = "clean"
  /\ quick' = 0
  /\ supPc' = IF supPc \in {"running", "stopping"} THEN "over" ELSE supPc
  /\ UNCHANGED <<hosted, uptime, windowAge, windowCount, backoff, timer, grace, crashLoop>>

\* During stop(), or with nobody to hear it.
DiesUnwatched ==
  /\ child = "up"
  /\ supPc # "running"
  /\ child' \in {"failed", "killed"}
  /\ supPc' = IF supPc = "stopping" THEN "over" ELSE supPc
  /\ UNCHANGED <<hosted, uptime, windowAge, windowCount, backoff, timer, grace, crashLoop, quick>>

Stable == uptime >= StableThreshold
WindowOver == windowAge > CrashWindow
\* Fault: the death is not counted.
CountUnchanged == IF Stable \/ WindowOver THEN 0 ELSE windowCount
CountAfterDeath == (IF Stable \/ WindowOver THEN 0 ELSE windowCount) + 1
BackoffNow == IF Stable THEN InitialBackoff ELSE backoff
\* Fault: no upper bound.
NextBackoffUncapped == 2 * BackoffNow
NextBackoff == Lesser(2 * BackoffNow, MaxBackoff)

Dies ==
  /\ child = "up"
  /\ supPc = "running"
  /\ child' \in {"failed", "killed"}
  /\ windowAge' = IF Stable \/ WindowOver THEN 0 ELSE windowAge
  /\ windowCount' = CountAfterDeath
  /\ quick' = IF uptime <= QuickDeath THEN quick + 1 ELSE 0
  /\ UNCHANGED <<hosted, uptime, grace>>

\* Fault: no restart is scheduled after a death by a signal.
DiesUnanswered ==
  /\ Dies
  /\ CountAfterDeath < MaxRestarts
  /\ timer' = IF child' = "killed" THEN timer ELSE BackoffNow
  /\ backoff' = NextBackoff
  /\ UNCHANGED <<supPc, crashLoop>>
DiesAndRestarts ==
  /\ Dies
  /\ CountAfterDeath < MaxRestarts
  /\ timer' = BackoffNow
  /\ backoff' = NextBackoff
  /\ UNCHANGED <<supPc, crashLoop>>

DiesAndGivesUp ==
  /\ Dies
  /\ CountAfterDeath >= MaxRestarts
  /\ crashLoop' = TRUE
  /\ supPc' = "over"
  /\ backoff' = BackoffNow
  /\ UNCHANGED timer

Restart ==
  /\ timer = 0
  /\ timer' = NoTimer
  /\ IF supPc = "running" THEN SpawnChild ELSE UNCHANGED <<child, uptime>>
  /\ UNCHANGED <<hosted, supPc, windowAge, windowCount, backoff, grace, crashLoop, quick>>

-----------------------------------------------------------------------------
(* stop().  A child that a signal killed has no exit code: stop() takes it *)
(* for alive and waits for an "exit" that was reported long ago.  Its host *)
(* waits for start() first.                                                *)

\* Fault: the restart timer is not cleared.
StopLeavesTimer ==
  /\ supPc = "running"
  /\ \/ child \in {"up", "killed", "unborn"} /\ supPc' = "stopping" /\ grace' = StopGrace
     \/ child \in {"clean", "failed", "unborn"} /\ supPc' = "over" /\ UNCHANGED grace
  /\ UNCHANGED <<hosted, child, uptime, windowAge, windowCount, backoff, timer, crashLoop, quick>>

Stop ==
  /\ supPc = "running"
  /\ timer' = NoTimer
  /\ \/ child \in {"up", "killed", "unborn"} /\ supPc' = "stopping" /\ grace' = StopGrace
     \/ child \in {"clean", "failed", "unborn"} /\ supPc' = "over" /\ UNCHANGED grace
  /\ UNCHANGED <<hosted, child, uptime, windowAge, windowCount, backoff, crashLoop, quick>>

StopTimesOut ==
  /\ supPc = "stopping"
  /\ grace = 0
  /\ supPc' = "over"
  /\ child' = IF child = "up" THEN "killed" ELSE child
  /\ UNCHANGED <<hosted, uptime, windowAge, windowCount, backoff, timer, grace, crashLoop, quick>>

\* Timers are punctual: no tick passes over one that is due.
SupervisorTick ==
  /\ supPc \in {"running", "stopping"}
  /\ timer # 0
  /\ supPc = "stopping" => grace > 0
  /\ uptime' = IF child = "up" THEN Lesser(uptime + 1, StableThreshold) ELSE uptime
  /\ windowAge' = Lesser(windowAge + 1, CrashWindow + 1)
  /\ timer' = IF timer = NoTimer THEN NoTimer ELSE timer - 1
  /\ grace' = IF supPc = "stopping" THEN grace - 1 ELSE grace
  /\ UNCHANGED <<hosted, supPc, child, windowCount, backoff, crashLoop, quick>>

SupervisorNext ==
  \/ StartSupervisor \/ FirstSpawn \/ HostExits
  \/ DiesCleanly \/ DiesUnwatched \/ DiesAndRestarts \/ DiesAndGivesUp
  \/ Restart \/ Stop \/ StopTimesOut \/ SupervisorTick

SupervisorSpec == SupervisorInit /\ [][SupervisorNext]_supVars

\* Node fires timers that are due, and time goes on.
SupervisorFairness ==
  /\ WF_supVars(FirstSpawn)
  /\ WF_supVars(HostExits)
  /\ WF_supVars(Restart)
  /\ WF_supVars(StopTimesOut)
  /\ WF_supVars(SupervisorTick)

SupervisorFairSpec == SupervisorSpec /\ SupervisorFairness

-----------------------------------------------------------------------------
(* Properties.                                                             *)

(***************************************************************************)
(* A supervisor at work has a child up or a restart pending, except after  *)
(* a fork that failed; one that has ended leaves neither behind            *)
(* (handleChildExit, stop: the timer, the signals and the flags).          *)
(***************************************************************************)
ChildAccountedFor ==
  /\ supPc = "running" => child \in {"up", "unborn"} \/ timer # NoTimer
  /\ supPc = "over" => child # "up" /\ timer = NoTimer

(***************************************************************************)
(* Children that die quickly are not restarted for ever.  The window is    *)
(* fixed, not sliding: a streak may start in an old window and be counted  *)
(* anew in the next, so that it takes up to 2 * MaxRestarts - 1 deaths.    *)
(***************************************************************************)
CrashLoopBounded == supPc = "running" => quick <= 2 * (MaxRestarts - 1)

(***************************************************************************)
(* An abnormal death is answered by another child, unless the supervisor   *)
(* gives up or is stopped (runtime-lifecycle.md: the supervisor            *)
(* "automatically restarts it on crash"), in a host that stays.            *)
(***************************************************************************)
CrashAnswered ==
  hosted /\ child \in {"failed", "killed"} /\ supPc # "over"
    ~> child \in {"up", "unborn"} \/ supPc = "over"
=============================================================================
