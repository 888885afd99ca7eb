---------------------------- MODULE DaemonProofs ----------------------------
(***************************************************************************)
(* The processes of the daemon.  A stop that reports success leaves        *)
(* nothing running, for any number of commands and however they overlap: a *)
(* process that was the daemon stays on its way to the end, and one that   *)
(* has ended does not come back.  Between commands that do not overlap,    *)
(* the files tell the truth.                                               *)
(***************************************************************************)
EXTENDS Daemon, TLAPS

Place == Living \cup Handling \cup Asking \cup Stopping \cup Settled
Unaimed == {"idle", "stopPid", "shutPid"}
Gone == {"sweep", "clear", "stopped"}
Hunting == {"stopPort", "stopModule", "kill", "ask", "term", "wait"} \cup Gone

\* A command that has not looked for a daemon has none; what a stop hunts is
\* a daemon or was one; it has ended when the stop cleans up after it.
TargetsKnown ==
  \A c \in Command :
    /\ at[c] \in Unaimed => target[c] = NoCommand
    /\ at[c] \in Hunting => target[c] = NoCommand \/ at[target[c]] \in Living \cup {"ended"}
    /\ at[c] \in Gone => target[c] = NoCommand \/ at[target[c]] = "ended"

DaemonInv == DaemonTypeOK /\ TargetsKnown

-----------------------------------------------------------------------------
LEMMA DaemonInvInit == DaemonInit => DaemonInv
BY DaemonAssumption
   DEF DaemonInit, DaemonInv, DaemonTypeOK, TargetsKnown, Settled, Unaimed, Hunting, Gone

\* The end of a process keeps the types, whoever brings it about.
LEMMA EndsTyped ==
  ASSUME DaemonTypeOK, NEW p \in Command, NEW c \in Command, NEW place \in Place,
         Ends(p, c, place)
  PROVE  /\ at' \in [Command -> Place]
         /\ port' \in Command \cup {NoCommand}
         /\ loaded' \in [Command -> SUBSET Dir]
BY DEF DaemonTypeOK, Ends, Serves, Place, Settled

-----------------------------------------------------------------------------
(* The invariant holds after every step.                                   *)

\* A start that becomes the daemon.
LEMMA StartKeeps ==
  ASSUME DaemonInv, NEW c \in Command,
         Start(c) \/ CheckPid(c) \/ CheckPort(c) \/ Resolve(c) \/ Probe(c)
         \/ Bind(c) \/ LoadOwn(c) \/ Record(c) \/ RecordWrite(c) \/ Restore(c)
         \/ WritePid(c) \/ WritePort(c) \/ StartFails(c)
  PROVE  DaemonInv'
<1> USE DaemonAssumption
    DEF DaemonInv, DaemonTypeOK, TargetsKnown, Place, Unaimed, Gone, Hunting,
          Living, Starting, Handling, Asking, Stopping, Settled,
          Go, Runs, Ends, Serves, files, calls
<1>1. CASE Start(c)
  <2>1. DaemonTypeOK'
    BY <1>1 DEF Start
  <2>2. TargetsKnown'
    BY <1>1 DEF Start
  <2> QED
    BY <2>1, <2>2
<1>2. CASE CheckPid(c)
  <2>1. DaemonTypeOK'
    BY <1>2 DEF CheckPid
  <2>2. TargetsKnown'
    BY <1>2 DEF CheckPid
  <2> QED
    BY <2>1, <2>2
<1>3. CASE CheckPort(c)
  <2>1. DaemonTypeOK'
    BY <1>3 DEF CheckPort
  <2>2. TargetsKnown'
    BY <1>3 DEF CheckPort
  <2> QED
    BY <2>1, <2>2
<1>4. CASE Resolve(c)
  <2>1. DaemonTypeOK'
    BY <1>4 DEF Resolve
  <2>2. TargetsKnown'
    BY <1>4 DEF Resolve
  <2> QED
    BY <2>1, <2>2
<1>5. CASE Probe(c)
  <2>1. DaemonTypeOK'
    BY <1>5 DEF Probe
  <2>2. TargetsKnown'
    BY <1>5 DEF Probe
  <2> QED
    BY <2>1, <2>2
<1>6. CASE Bind(c)
  <2>1. DaemonTypeOK'
    BY <1>6 DEF Bind
  <2>2. TargetsKnown'
    BY <1>6 DEF Bind
  <2> QED
    BY <2>1, <2>2
<1>7. CASE LoadOwn(c)
  <2>1. DaemonTypeOK'
    BY <1>7 DEF LoadOwn
  <2>2. TargetsKnown'
    BY <1>7 DEF LoadOwn
  <2> QED
    BY <2>1, <2>2
<1>8. CASE Record(c)
  <2>1. DaemonTypeOK'
    BY <1>8 DEF Record
  <2>2. TargetsKnown'
    BY <1>8 DEF Record
  <2> QED
    BY <2>1, <2>2
<1>9. CASE RecordWrite(c)
  <2>1. DaemonTypeOK'
    BY <1>9 DEF RecordWrite
  <2>2. TargetsKnown'
    BY <1>9 DEF RecordWrite
  <2> QED
    BY <2>1, <2>2
<1>10. CASE Restore(c)
  <2>1. DaemonTypeOK'
    BY <1>10 DEF Restore
  <2>2. TargetsKnown'
    BY <1>10 DEF Restore
  <2> QED
    BY <2>1, <2>2
<1>11. CASE WritePid(c)
  <2>1. DaemonTypeOK'
    BY <1>11 DEF WritePid
  <2>2. TargetsKnown'
    BY <1>11 DEF WritePid
  <2> QED
    BY <2>1, <2>2
<1>12. CASE WritePort(c)
  <2>1. DaemonTypeOK'
    BY <1>12 DEF WritePort
  <2>2. TargetsKnown'
    BY <1>12 DEF WritePort
  <2> QED
    BY <2>1, <2>2
<1>13. CASE StartFails(c)
  <2>1. DaemonTypeOK'
    BY <1>13 DEF StartFails
  <2>2. TargetsKnown'
    BY <1>13 DEF StartFails
  <2> QED
    BY <2>1, <2>2
<1> QED
  BY <1>1, <1>2, <1>3, <1>4, <1>5, <1>6, <1>7, <1>8, <1>9, <1>10, <1>11, <1>12, <1>13

\* A start that finds a daemon.
LEMMA RegisterKeeps ==
  ASSUME DaemonInv, NEW c \in Command,
         Register(c) \/ Reload(c)
  PROVE  DaemonInv'
<1> USE DaemonAssumption
    DEF DaemonInv, DaemonTypeOK, TargetsKnown, Place, Unaimed, Gone, Hunting,
          Living, Starting, Handling, Asking, Stopping, Settled,
          Go, Runs, Ends, Serves, files, calls
<1>1. CASE Register(c)
  <2>1. DaemonTypeOK'
    BY <1>1 DEF Register
  <2>2. TargetsKnown'
    BY <1>1 DEF Register
  <2> QED
    BY <2>1, <2>2
<1>2. CASE Reload(c)
  <2>1. DaemonTypeOK'
    BY <1>2 DEF Reload
  <2>2. TargetsKnown'
    BY <1>2 DEF Reload
  <2> QED
    BY <2>1, <2>2
<1> QED
  BY <1>1, <1>2

\* The daemon ends.
LEMMA DeathKeeps ==
  ASSUME DaemonInv, NEW c \in Command,
         Signal(c) \/ Unwind(c) \/ CleanUp(c) \/ Crash(c)
  PROVE  DaemonInv'
<1> USE DaemonAssumption
    DEF DaemonInv, DaemonTypeOK, TargetsKnown, Place, Unaimed, Gone, Hunting,
          Living, Starting, Handling, Asking, Stopping, Settled,
          Go, Runs, Ends, Serves, files, calls
<1>1. CASE Signal(c)
  <2>1. DaemonTypeOK'
    BY <1>1 DEF Signal
  <2>2. TargetsKnown'
    BY <1>1 DEF Signal
  <2> QED
    BY <2>1, <2>2
<1>2. CASE Unwind(c)
  <2>1. DaemonTypeOK'
    BY <1>2 DEF Unwind
  <2>2. TargetsKnown'
    BY <1>2 DEF Unwind
  <2> QED
    BY <2>1, <2>2
<1>3. CASE CleanUp(c)
  <2>1. TargetsKnown'
    BY <1>3 DEF CleanUp
  <2>2. Ends(c, c, "ended")
    BY <1>3 DEF CleanUp
  <2>3. /\ at' \in [Command -> Place] /\ port' \in Command \cup {NoCommand}
        /\ loaded' \in [Command -> SUBSET Dir]
    BY <2>2, EndsTyped
  <2>4. /\ pidFile' \in Command \cup {NoCommand} /\ portFile' \in BOOLEAN
        /\ registry' \subseteq Dir
    BY <1>3 DEF CleanUp
  <2> QED
    BY <1>3, <2>1, <2>3, <2>4 DEF CleanUp
<1>4. CASE Crash(c)
  <2>1. TargetsKnown'
    BY <1>4 DEF Crash
  <2>2. Ends(c, c, "ended")
    BY <1>4 DEF Crash
  <2>3. /\ at' \in [Command -> Place] /\ port' \in Command \cup {NoCommand}
        /\ loaded' \in [Command -> SUBSET Dir]
    BY <2>2, EndsTyped
  <2>4. /\ pidFile' \in Command \cup {NoCommand} /\ portFile' \in BOOLEAN
        /\ registry' \subseteq Dir
    BY <1>4 DEF Crash
  <2> QED
    BY <1>4, <2>1, <2>3, <2>4 DEF Crash
<1> QED
  BY <1>1, <1>2, <1>3, <1>4

\* A stop finds out whom to stop, and how.
LEMMA StopKeeps ==
  ASSUME DaemonInv, NEW c \in Command,
         BeginStop(c) \/ StopPid(c) \/ StopPort(c) \/ StopModule(c)
         \/ ShutPid(c) \/ Unload(c) \/ Strike(c) \/ StrikeWrite(c)
  PROVE  DaemonInv'
<1> USE DaemonAssumption
    DEF DaemonInv, DaemonTypeOK, TargetsKnown, Place, Unaimed, Gone, Hunting,
          Living, Starting, Handling, Asking, Stopping, Settled,
          Go, Runs, Ends, Serves, files, calls
<1>1. CASE BeginStop(c)
  <2>1. DaemonTypeOK'
    BY <1>1 DEF BeginStop
  <2>2. TargetsKnown'
    BY <1>1 DEF BeginStop
  <2> QED
    BY <2>1, <2>2
<1>2. CASE StopPid(c)
  <2>1. DaemonTypeOK'
    BY <1>2 DEF StopPid
  <2>2. TargetsKnown'
    BY <1>2 DEF StopPid
  <2> QED
    BY <2>1, <2>2
<1>3. CASE StopPort(c)
  <2>1. DaemonTypeOK'
    BY <1>3 DEF StopPort, Means
  <2>2. TargetsKnown'
    BY <1>3 DEF StopPort, Means
  <2> QED
    BY <2>1, <2>2
<1>4. CASE StopModule(c)
  <2>1. DaemonTypeOK'
    BY <1>4 DEF StopModule, Means
  <2>2. TargetsKnown'
    BY <1>4 DEF StopModule, Means
  <2> QED
    BY <2>1, <2>2
<1>5. CASE ShutPid(c)
  <2>1. DaemonTypeOK'
    BY <1>5 DEF ShutPid, Means
  <2>2. TargetsKnown'
    BY <1>5 DEF ShutPid, Means
  <2> QED
    BY <2>1, <2>2
<1>6. CASE Unload(c)
  <2>1. DaemonTypeOK'
    BY <1>6 DEF Unload
  <2>2. TargetsKnown'
    BY <1>6 DEF Unload
  <2> QED
    BY <2>1, <2>2
<1>7. CASE Strike(c)
  <2>1. DaemonTypeOK'
    BY <1>7 DEF Strike
  <2>2. TargetsKnown'
    BY <1>7 DEF Strike
  <2> QED
    BY <2>1, <2>2
<1>8. CASE StrikeWrite(c)
  <2>1. DaemonTypeOK'
    BY <1>8 DEF StrikeWrite
  <2>2. TargetsKnown'
    BY <1>8 DEF StrikeWrite
  <2> QED
    BY <2>1, <2>2
<1> QED
  BY <1>1, <1>2, <1>3, <1>4, <1>5, <1>6, <1>7, <1>8

\* A stop makes its daemon end.
LEMMA ChaseKeeps ==
  ASSUME DaemonInv, NEW c \in Command,
         Kill(c) \/ Ask(c) \/ Term(c) \/ Wait(c) \/ GiveUp(c) \/ Sweep(c)
         \/ Clear(c)
  PROVE  DaemonInv'
<1> USE DaemonAssumption
    DEF DaemonInv, DaemonTypeOK, TargetsKnown, Place, Unaimed, Gone, Hunting,
          Living, Starting, Handling, Asking, Stopping, Settled,
          Go, Runs, Ends, Serves, files, calls
<1>1. CASE Kill(c)
  <2>1. DaemonTypeOK'
    BY <1>1 DEF Kill
  <2>2. TargetsKnown'
    BY <1>1 DEF Kill
  <2> QED
    BY <2>1, <2>2
<1>2. CASE Ask(c)
  <2>1. DaemonTypeOK'
    BY <1>2 DEF Ask
  <2>2. TargetsKnown'
    BY <1>2 DEF Ask
  <2> QED
    BY <2>1, <2>2
<1>3. CASE Term(c)
  <2>1. DaemonTypeOK'
    BY <1>3 DEF Term
  <2>2. TargetsKnown'
    BY <1>3 DEF Term
  <2> QED
    BY <2>1, <2>2
<1>4. CASE Wait(c)
  <2>1. DaemonTypeOK'
    BY <1>4 DEF Wait
  <2>2. TargetsKnown'
    BY <1>4 DEF Wait
  <2> QED
    BY <2>1, <2>2
<1>5. CASE GiveUp(c)
  <2>1. DaemonTypeOK'
    BY <1>5 DEF GiveUp
  <2>2. TargetsKnown'
    BY <1>5 DEF GiveUp
  <2> QED
    BY <2>1, <2>2
<1>6. CASE Sweep(c)
  <2>1. DaemonTypeOK'
    BY <1>6 DEF Sweep
  <2>2. TargetsKnown'
    BY <1>6 DEF Sweep
  <2> QED
    BY <2>1, <2>2
<1>7. CASE Clear(c)
  <2>1. DaemonTypeOK'
    BY <1>7 DEF Clear
  <2>2. TargetsKnown'
    BY <1>7 DEF Clear
  <2> QED
    BY <2>1, <2>2
<1> QED
  BY <1>1, <1>2, <1>3, <1>4, <1>5, <1>6, <1>7

-----------------------------------------------------------------------------
LEMMA DaemonInvStep == DaemonInv /\ [DaemonNext]_daemonVars => DaemonInv'
<1> SUFFICES ASSUME DaemonInv, [DaemonNext]_daemonVars PROVE DaemonInv'
  OBVIOUS
<1>1. CASE DaemonNext
  <2>1. CASE \E d \in Dir : Break(d)
    BY <2>1 DEF DaemonInv, DaemonTypeOK, TargetsKnown, Break, files, calls
  <2> QED
    BY <1>1, <2>1, StartKeeps, RegisterKeeps, DeathKeeps, StopKeeps, ChaseKeeps
       DEF DaemonNext
<1>2. CASE UNCHANGED daemonVars
  BY <1>2 DEF daemonVars, files, calls, DaemonInv, DaemonTypeOK, TargetsKnown
<1> QED
  BY <1>1, <1>2

\* The processes, what they know and the files they share keep their types.
THEOREM DaemonTypeCorrect == DaemonSpec => []DaemonTypeOK
<1>1. DaemonInv => DaemonTypeOK
  BY DEF DaemonInv
<1> QED
  BY <1>1, DaemonInvInit, DaemonInvStep, PTL DEF DaemonSpec

\* When stop or shutdown say that the daemon has stopped, its process has
\* ended, also when other commands and signals came in between.
THEOREM StopsAreMeant == DaemonSpec => []StopMeansStopped
<1>1. DaemonInv => StopMeansStopped
  BY DEF DaemonInv, TargetsKnown, StopMeansStopped, Gone, Runs, Living, Starting
<1> QED
  BY <1>1, DaemonInvInit, DaemonInvStep, PTL DEF DaemonSpec
-----------------------------------------------------------------------------
(* One command at a time.                                                  *)

Ending == {"terminating", "cleanup"}
OnFile == {"up", "silent"}
Bound == {"load", "record", "recordWrite", "restore", "writePid", "writePort"}
Chasing == Hunting \ Gone

\* Nothing is under way beside a command but the end that it waits for.
OneAtATime ==
  \A x, y \in Command : x # y /\ at[x] \notin Settled /\ at[y] \notin Settled =>
    (at[x] = "wait" /\ at[y] \in Ending) \/ (at[y] = "wait" /\ at[x] \in Ending)

\* Who listens, and whom the files name
Listeners ==
  \A p \in Command :
    /\ at[p] \in Bound \cup {"up", "stray"} => port = p
    /\ at[p] \in OnFile => pidFile = p /\ portFile
    /\ at[p] = "writePort" => pidFile = p
    /\ at[p] = "stray" => pidFile = NoCommand

\* A daemon that the files name has no other beside it that could change them,
\* and nobody talks to another one.
NoRival ==
  \A p, c \in Command :
    /\ c # p /\ at[p] \in OnFile => at[c] \notin {"resolve", "sweep", "clear"} \cup Starting \cup Ending
    /\ at[c] \in Chasing /\ at[p] \in Living => p = target[c]
    /\ at[c] \in Handling /\ at[p] = "up" => p = target[c]

\* What was read is what is there; and what is in a runtime is recorded, up to
\* the module that a command is about to add or has taken away.
Adding == {dir[c] : c \in {c \in Command : at[c] \in {"peerRecord", "peerWrite"}}}
Removing == {dir[c] : c \in {c \in Command : at[c] \in {"reload", "strike", "strikeWrite"}}}
Recorded ==
  \A p, c \in Command :
    /\ at[c] \in {"recordWrite", "peerWrite", "strikeWrite"} => snapshot[c] = registry
    /\ at[c] \in {"record", "recordWrite", "restore"} => loaded[c] = {dir[c]}
    /\ at[c] = "restore" => dir[c] \in registry
    /\ at[c] \in {"peerRecord", "peerWrite"} /\ at[p] = "up" => dir[c] \in loaded[p]
    /\ at[c] \in {"strike", "strikeWrite"} /\ at[p] = "up" => dir[c] \notin loaded[p]
    /\ at[p] \in {"writePid", "writePort", "up"} =>
         loaded[p] \subseteq registry \cup Adding /\ registry \ broken \subseteq loaded[p] \cup Removing

RecordInv == DaemonInv /\ OneAtATime /\ Listeners /\ NoRival /\ Recorded

-----------------------------------------------------------------------------
LEMMA RecordInvInit == DaemonInit => RecordInv
BY DaemonInvInit, DaemonAssumption
   DEF DaemonInit, RecordInv, OneAtATime, Listeners, NoRival, Recorded, Settled, Living, Starting,
       Handling, Ending, OnFile, Bound, Chasing, Hunting, Gone

\* A start that becomes the daemon.
LEMMA AloneStartKeeps ==
  ASSUME RecordInv, ~Overlap, NEW c \in Command,
         Start(c) \/ CheckPid(c) \/ CheckPort(c) \/ Resolve(c) \/ Probe(c) \/ Bind(c) \/ LoadOwn(c) \/ Record(c) \/ RecordWrite(c) \/ Restore(c) \/ WritePid(c) \/ WritePort(c) \/ StartFails(c)
  PROVE  (OneAtATime /\ Listeners /\ NoRival /\ Recorded)'
<1> USE DaemonAssumption
    DEF RecordInv, DaemonInv, DaemonTypeOK, Settled, Living, Starting, Handling, Asking, Stopping,
        Ending, OnFile, Bound, Chasing, Hunting, Gone, MayBegin, Go, Runs, Ends, Serves,
        files, calls
<1>1. CASE Start(c)
  <2>1. OneAtATime'
    BY <1>1 DEF Start, OneAtATime, Listeners, NoRival
  <2>2. Listeners'
    BY <1>1 DEF Start, OneAtATime, Listeners, NoRival
  <2>3. NoRival'
    BY <1>1 DEF Start, OneAtATime, Listeners, NoRival
  <2>4. Recorded'
    BY <1>1 DEF Start, OneAtATime, Listeners, NoRival, Recorded, Adding, Removing
  <2> QED
    BY <2>1, <2>2, <2>3, <2>4
<1>2. CASE CheckPid(c)
  <2>1. OneAtATime'
    BY <1>2 DEF CheckPid, OneAtATime, Listeners, NoRival
  <2>2. Listeners'
    BY <1>2 DEF CheckPid, OneAtATime, Listeners, NoRival
  <2>3. NoRival'
    BY <1>2 DEF CheckPid, OneAtATime, Listeners, NoRival
  <2>4. Recorded'
    BY <1>2 DEF CheckPid, OneAtATime, Listeners, NoRival, Recorded, Adding, Removing
  <2> QED
    BY <2>1, <2>2, <2>3, <2>4
<1>3. CASE CheckPort(c)
  <2>1. OneAtATime'
    BY <1>3 DEF CheckPort, OneAtATime, Listeners, NoRival
  <2>2. Listeners'
    BY <1>3 DEF CheckPort, OneAtATime, Listeners, NoRival
  <2>3. NoRival'
    BY <1>3 DEF CheckPort, OneAtATime, Listeners, NoRival
  <2>4. Recorded'
    BY <1>3 DEF CheckPort, OneAtATime, Listeners, NoRival, Recorded, Adding, Removing
  <2> QED
    BY <2>1, <2>2, <2>3, <2>4
<1>4. CASE Resolve(c)
  <2>1. OneAtATime'
    BY <1>4 DEF Resolve, OneAtATime, Listeners, NoRival
  <2>2. Listeners'
    BY <1>4 DEF Resolve, OneAtATime, Listeners, NoRival
  <2>3. NoRival'
    BY <1>4 DEF Resolve, OneAtATime, Listeners, NoRival
  <2>4. Recorded'
    BY <1>4 DEF Resolve, OneAtATime, Listeners, NoRival, Recorded, Adding, Removing
  <2> QED
    BY <2>1, <2>2, <2>3, <2>4
<1>5. CASE Probe(c)
  <2>1. OneAtATime'
    BY <1>5 DEF Probe, OneAtATime, Listeners, NoRival
  <2>2. Listeners'
    BY <1>5 DEF Probe, OneAtATime, Listeners, NoRival
  <2>3. NoRival'
    BY <1>5 DEF Probe, OneAtATime, Listeners, NoRival
  <2>4. Recorded'
    BY <1>5 DEF Probe, OneAtATime, Listeners, NoRival, Recorded, Adding, Removing
  <2> QED
    BY <2>1, <2>2, <2>3, <2>4
<1>6. CASE Bind(c)
  <2>1. OneAtATime'
    BY <1>6 DEF Bind, OneAtATime, Listeners, NoRival
  <2>2. Listeners'
    BY <1>6 DEF Bind, OneAtATime, Listeners, NoRival
  <2>3. NoRival'
    BY <1>6 DEF Bind, OneAtATime, Listeners, NoRival
  <2>4. Recorded'
    BY <1>6 DEF Bind, OneAtATime, Listeners, NoRival, Recorded, Adding, Removing
  <2> QED
    BY <2>1, <2>2, <2>3, <2>4
<1>7. CASE LoadOwn(c)
  <2>1. OneAtATime'
    BY <1>7 DEF LoadOwn, OneAtATime, Listeners, NoRival
  <2>2. Listeners'
    BY <1>7 DEF LoadOwn, OneAtATime, Listeners, NoRival
  <2>3. NoRival'
    BY <1>7 DEF LoadOwn, OneAtATime, Listeners, NoRival
  <2>4. Recorded'
    BY <1>7 DEF LoadOwn, OneAtATime, Listeners, NoRival, Recorded, Adding, Removing
  <2> QED
    BY <2>1, <2>2, <2>3, <2>4
<1>8. CASE Record(c)
  <2>1. OneAtATime'
    BY <1>8 DEF Record, OneAtATime, Listeners, NoRival
  <2>2. Listeners'
    BY <1>8 DEF Record, OneAtATime, Listeners, NoRival
  <2>3. NoRival'
    BY <1>8 DEF Record, OneAtATime, Listeners, NoRival
  <2>4. Recorded'
    BY <1>8 DEF Record, OneAtATime, Listeners, NoRival, Recorded, Adding, Removing
  <2> QED
    BY <2>1, <2>2, <2>3, <2>4
<1>9. CASE RecordWrite(c)
  <2>1. OneAtATime'
    BY <1>9 DEF RecordWrite, OneAtATime, Listeners, NoRival
  <2>2. Listeners'
    BY <1>9 DEF RecordWrite, OneAtATime, Listeners, NoRival
  <2>3. NoRival'
    BY <1>9 DEF RecordWrite, OneAtATime, Listeners, NoRival
  <2>4. Recorded'
    <3>1. /\ \A x \in Command \ {c} : at[x] \in Settled /\ at'[x] = at[x]
          /\ registry' = registry \cup {dir[c]}
      BY <1>9 DEF RecordWrite, OneAtATime, Recorded
    <3>2. CASE at[c] = "recordWrite"
      BY <1>9, <3>1, <3>2 DEF RecordWrite, NoRival, Recorded, Adding, Removing
    <3>3. CASE at[c] = "peerWrite"
      <4>1. at' = [at EXCEPT ![c] = "ended"] /\ UNCHANGED <<dir, snapshot, loaded, broken>>
        BY <1>9, <3>3 DEF RecordWrite
      <4>2. Adding = {dir[c]} /\ Removing = {} /\ Adding' = {} /\ Removing' = {}
        BY <3>1, <3>3, <4>1 DEF Adding, Removing
      <4> QED
        BY <3>1, <3>3, <4>1, <4>2 DEF Recorded
    <3> QED
      BY <1>9, <3>2, <3>3 DEF RecordWrite
  <2> QED
    BY <2>1, <2>2, <2>3, <2>4
<1>10. CASE Restore(c)
  <2>1. OneAtATime'
    BY <1>10 DEF Restore, OneAtATime, Listeners, NoRival
  <2>2. Listeners'
    BY <1>10 DEF Restore, OneAtATime, Listeners, NoRival
  <2>3. NoRival'
    BY <1>10 DEF Restore, OneAtATime, Listeners, NoRival
  <2>4. Recorded'
    BY <1>10 DEF Restore, OneAtATime, Listeners, NoRival, Recorded, Adding, Removing
  <2> QED
    BY <2>1, <2>2, <2>3, <2>4
<1>11. CASE WritePid(c)
  <2>1. OneAtATime'
    BY <1>11 DEF WritePid, OneAtATime, Listeners, NoRival
  <2>2. Listeners'
    BY <1>11 DEF WritePid, OneAtATime, Listeners, NoRival
  <2>3. NoRival'
    BY <1>11 DEF WritePid, OneAtATime, Listeners, NoRival
  <2>4. Recorded'
    BY <1>11 DEF WritePid, OneAtATime, Listeners, NoRival, Recorded, Adding, Removing
  <2> QED
    BY <2>1, <2>2, <2>3, <2>4
<1>12. CASE WritePort(c)
  <2>1. OneAtATime'
    BY <1>12 DEF WritePort, OneAtATime, Listeners, NoRival
  <2>2. Listeners'
    BY <1>12 DEF WritePort, OneAtATime, Listeners, NoRival
  <2>3. NoRival'
    BY <1>12 DEF WritePort, OneAtATime, Listeners, NoRival
  <2>4. Recorded'
    BY <1>12 DEF WritePort, OneAtATime, Listeners, NoRival, Recorded, Adding, Removing
  <2> QED
    BY <2>1, <2>2, <2>3, <2>4
<1>13. CASE StartFails(c)
  <2>1. OneAtATime'
    BY <1>13 DEF StartFails, OneAtATime, Listeners, NoRival
  <2>2. Listeners'
    BY <1>13 DEF StartFails, OneAtATime, Listeners, NoRival
  <2>3. NoRival'
    BY <1>13 DEF StartFails, OneAtATime, Listeners, NoRival
  <2>4. Recorded'
    BY <1>13 DEF StartFails, OneAtATime, Listeners, NoRival, Recorded, Adding, Removing
  <2> QED
    BY <2>1, <2>2, <2>3, <2>4
<1> QED
  BY <1>1, <1>2, <1>3, <1>4, <1>5, <1>6, <1>7, <1>8, <1>9, <1>10, <1>11, <1>12, <1>13

\* A start that finds a daemon.
LEMMA AloneRegisterKeeps ==
  ASSUME RecordInv, ~Overlap, NEW c \in Command,
         Register(c) \/ Reload(c)
  PROVE  (OneAtATime /\ Listeners /\ NoRival /\ Recorded)'
<1> USE DaemonAssumption
    DEF RecordInv, DaemonInv, DaemonTypeOK, Settled, Living, Starting, Handling, Asking, Stopping,
        Ending, OnFile, Bound, Chasing, Hunting, Gone, MayBegin, Go, Runs, Ends, Serves,
        files, calls
<1>1. CASE Register(c)
  <2>1. OneAtATime'
    BY <1>1 DEF Register, OneAtATime, Listeners, NoRival
  <2>2. Listeners'
    BY <1>1 DEF Register, OneAtATime, Listeners, NoRival
  <2>3. NoRival'
    BY <1>1 DEF Register, OneAtATime, Listeners, NoRival
  <2>4. Recorded'
    BY <1>1 DEF Register, OneAtATime, Listeners, NoRival, Recorded, Adding, Removing
  <2> QED
    BY <2>1, <2>2, <2>3, <2>4
<1>2. CASE Reload(c)
  <2>1. OneAtATime'
    BY <1>2 DEF Reload, OneAtATime, Listeners, NoRival
  <2>2. Listeners'
    BY <1>2 DEF Reload, OneAtATime, Listeners, NoRival
  <2>3. NoRival'
    BY <1>2 DEF Reload, OneAtATime, Listeners, NoRival
  <2>4. Recorded'
    BY <1>2 DEF Reload, OneAtATime, Listeners, NoRival, Recorded, Adding, Removing
  <2> QED
    BY <2>1, <2>2, <2>3, <2>4
<1> QED
  BY <1>1, <1>2

\* The daemon ends.
LEMMA AloneDeathKeeps ==
  ASSUME RecordInv, ~Overlap, NEW c \in Command,
         Signal(c) \/ Unwind(c) \/ CleanUp(c) \/ Crash(c)
  PROVE  (OneAtATime /\ Listeners /\ NoRival /\ Recorded)'
<1> USE DaemonAssumption
    DEF RecordInv, DaemonInv, DaemonTypeOK, Settled, Living, Starting, Handling, Asking, Stopping,
        Ending, OnFile, Bound, Chasing, Hunting, Gone, MayBegin, Go, Runs, Ends, Serves,
        files, calls
<1>1. CASE Signal(c)
  <2>1. OneAtATime'
    BY <1>1 DEF Signal, OneAtATime, Listeners, NoRival
  <2>2. Listeners'
    BY <1>1 DEF Signal, OneAtATime, Listeners, NoRival
  <2>3. NoRival'
    BY <1>1 DEF Signal, OneAtATime, Listeners, NoRival
  <2>4. Recorded'
    BY <1>1 DEF Signal, OneAtATime, Listeners, NoRival, Recorded, Adding, Removing
  <2> QED
    BY <2>1, <2>2, <2>3, <2>4
<1>2. CASE Unwind(c)
  <2>1. OneAtATime'
    BY <1>2 DEF Unwind, OneAtATime, Listeners, NoRival
  <2>2. Listeners'
    BY <1>2 DEF Unwind, OneAtATime, Listeners, NoRival
  <2>3. NoRival'
    BY <1>2 DEF Unwind, OneAtATime, Listeners, NoRival
  <2>4. Recorded'
    BY <1>2 DEF Unwind, OneAtATime, Listeners, NoRival, Recorded, Adding, Removing
  <2> QED
    BY <2>1, <2>2, <2>3, <2>4
<1>3. CASE CleanUp(c)
  <2>1. OneAtATime'
    BY <1>3 DEF CleanUp, OneAtATime, Listeners, NoRival
  <2>2. Listeners'
    BY <1>3 DEF CleanUp, OneAtATime, Listeners, NoRival
  <2>3. NoRival'
    BY <1>3 DEF CleanUp, OneAtATime, Listeners, NoRival
  <2>4. Recorded'
    BY <1>3 DEF CleanUp, OneAtATime, Listeners, NoRival, Recorded, Adding, Removing
  <2> QED
    BY <2>1, <2>2, <2>3, <2>4
<1>4. CASE Crash(c)
  <2>1. OneAtATime'
    BY <1>4 DEF Crash, OneAtATime, Listeners, NoRival
  <2>2. Listeners'
    BY <1>4 DEF Crash, OneAtATime, Listeners, NoRival
  <2>3. NoRival'
    BY <1>4 DEF Crash, OneAtATime, Listeners, NoRival
  <2>4. Recorded'
    BY <1>4 DEF Crash, OneAtATime, Listeners, NoRival, Recorded, Adding, Removing
  <2> QED
    BY <2>1, <2>2, <2>3, <2>4
<1> QED
  BY <1>1, <1>2, <1>3, <1>4

\* A stop finds out whom to stop, and how.
LEMMA AloneStopKeeps ==
  ASSUME RecordInv, ~Overlap, NEW c \in Command,
         BeginStop(c) \/ StopPid(c) \/ StopPort(c) \/ StopModule(c) \/ ShutPid(c) \/ Unload(c) \/ Strike(c) \/ StrikeWrite(c)
  PROVE  (OneAtATime /\ Listeners /\ NoRival /\ Recorded)'
<1> USE DaemonAssumption
    DEF RecordInv, DaemonInv, DaemonTypeOK, Settled, Living, Starting, Handling, Asking, Stopping,
        Ending, OnFile, Bound, Chasing, Hunting, Gone, MayBegin, Go, Runs, Ends, Serves,
        files, calls
<1>1. CASE BeginStop(c)
  <2>1. OneAtATime'
    BY <1>1 DEF BeginStop, OneAtATime, Listeners, NoRival
  <2>2. Listeners'
    BY <1>1 DEF BeginStop, OneAtATime, Listeners, NoRival
  <2>3. NoRival'
    BY <1>1 DEF BeginStop, OneAtATime, Listeners, NoRival
  <2>4. Recorded'
    BY <1>1 DEF BeginStop, OneAtATime, Listeners, NoRival, Recorded, Adding, Removing
  <2> QED
    BY <2>1, <2>2, <2>3, <2>4
<1>2. CASE StopPid(c)
  <2>1. OneAtATime'
    BY <1>2 DEF StopPid, OneAtATime, Listeners, NoRival
  <2>2. Listeners'
    BY <1>2 DEF StopPid, OneAtATime, Listeners, NoRival
  <2>3. NoRival'
    BY <1>2 DEF StopPid, OneAtATime, Listeners, NoRival
  <2>4. Recorded'
    BY <1>2 DEF StopPid, OneAtATime, Listeners, NoRival, Recorded, Adding, Removing
  <2> QED
    BY <2>1, <2>2, <2>3, <2>4
<1>3. CASE StopPort(c)
  <2>1. OneAtATime'
    BY <1>3 DEF StopPort, Means, OneAtATime, Listeners, NoRival
  <2>2. Listeners'
    BY <1>3 DEF StopPort, Means, OneAtATime, Listeners, NoRival
  <2>3. NoRival'
    BY <1>3 DEF StopPort, Means, OneAtATime, Listeners, NoRival
  <2>4. Recorded'
    BY <1>3 DEF StopPort, Means, OneAtATime, Listeners, NoRival, Recorded, Adding, Removing
  <2> QED
    BY <2>1, <2>2, <2>3, <2>4
<1>4. CASE StopModule(c)
  <2>1. OneAtATime'
    BY <1>4 DEF StopModule, Means, OneAtATime, Listeners, NoRival
  <2>2. Listeners'
    BY <1>4 DEF StopModule, Means, OneAtATime, Listeners, NoRival
  <2>3. NoRival'
    BY <1>4 DEF StopModule, Means, OneAtATime, Listeners, NoRival
  <2>4. Recorded'
    BY <1>4 DEF StopModule, Means, OneAtATime, Listeners, NoRival, Recorded, Adding, Removing
  <2> QED
    BY <2>1, <2>2, <2>3, <2>4
<1>5. CASE ShutPid(c)
  <2>1. OneAtATime'
    BY <1>5 DEF ShutPid, OneAtATime, Listeners, NoRival
  <2>2. Listeners'
    BY <1>5 DEF ShutPid, OneAtATime, Listeners, NoRival
  <2>3. NoRival'
    BY <1>5 DEF ShutPid, OneAtATime, Listeners, NoRival
  <2>4. Recorded'
    BY <1>5 DEF ShutPid, OneAtATime, Listeners, NoRival, Recorded, Adding, Removing
  <2> QED
    BY <2>1, <2>2, <2>3, <2>4
<1>6. CASE Unload(c)
  <2>1. OneAtATime'
    BY <1>6 DEF Unload, OneAtATime, Listeners, NoRival
  <2>2. Listeners'
    BY <1>6 DEF Unload, OneAtATime, Listeners, NoRival
  <2>3. NoRival'
    BY <1>6 DEF Unload, OneAtATime, Listeners, NoRival
  <2>4. Recorded'
    BY <1>6 DEF Unload, OneAtATime, Listeners, NoRival, Recorded, Adding, Removing
  <2> QED
    BY <2>1, <2>2, <2>3, <2>4
<1>7. CASE Strike(c)
  <2>1. OneAtATime'
    BY <1>7 DEF Strike, OneAtATime, Listeners, NoRival
  <2>2. Listeners'
    BY <1>7 DEF Strike, OneAtATime, Listeners, NoRival
  <2>3. NoRival'
    BY <1>7 DEF Strike, OneAtATime, Listeners, NoRival
  <2>4. Recorded'
    BY <1>7 DEF Strike, OneAtATime, Listeners, NoRival, Recorded, Adding, Removing
  <2> QED
    BY <2>1, <2>2, <2>3, <2>4
<1>8. CASE StrikeWrite(c)
  <2>1. OneAtATime'
    BY <1>8 DEF StrikeWrite, OneAtATime, Listeners, NoRival
  <2>2. Listeners'
    BY <1>8 DEF StrikeWrite, OneAtATime, Listeners, NoRival
  <2>3. NoRival'
    BY <1>8 DEF StrikeWrite, OneAtATime, Listeners, NoRival
  <2>4. Recorded'
    BY <1>8 DEF StrikeWrite, OneAtATime, Listeners, NoRival, Recorded, Adding, Removing
  <2> QED
    BY <2>1, <2>2, <2>3, <2>4
<1> QED
  BY <1>1, <1>2, <1>3, <1>4, <1>5, <1>6, <1>7, <1>8

\* A stop makes its daemon end.
LEMMA AloneChaseKeeps ==
  ASSUME RecordInv, ~Overlap, NEW c \in Command,
         Kill(c) \/ Ask(c) \/ Term(c) \/ Wait(c) \/ GiveUp(c) \/ Sweep(c) \/ Clear(c)
  PROVE  (OneAtATime /\ Listeners /\ NoRival /\ Recorded)'
<1> USE DaemonAssumption
    DEF RecordInv, DaemonInv, DaemonTypeOK, Settled, Living, Starting, Handling, Asking, Stopping,
        Ending, OnFile, Bound, Chasing, Hunting, Gone, MayBegin, Go, Runs, Ends, Serves,
        files, calls
<1>1. CASE Kill(c)
  <2>1. OneAtATime'
    BY <1>1 DEF Kill, OneAtATime, Listeners, NoRival
  <2>2. Listeners'
    BY <1>1 DEF Kill, OneAtATime, Listeners, NoRival
  <2>3. NoRival'
    BY <1>1 DEF Kill, OneAtATime, Listeners, NoRival
  <2>4. Recorded'
    BY <1>1 DEF Kill, OneAtATime, Listeners, NoRival, Recorded, Adding, Removing
  <2> QED
    BY <2>1, <2>2, <2>3, <2>4
<1>2. CASE Ask(c)
  <2>1. OneAtATime'
    BY <1>2 DEF Ask, OneAtATime, Listeners, NoRival
  <2>2. Listeners'
    BY <1>2 DEF Ask, OneAtATime, Listeners, NoRival
  <2>3. NoRival'
    BY <1>2 DEF Ask, OneAtATime, Listeners, NoRival
  <2>4. Recorded'
    BY <1>2 DEF Ask, OneAtATime, Listeners, NoRival, Recorded, Adding, Removing
  <2> QED
    BY <2>1, <2>2, <2>3, <2>4
<1>3. CASE Term(c)
  <2>1. OneAtATime'
    BY <1>3 DEF Term, OneAtATime, Listeners, NoRival
  <2>2. Listeners'
    BY <1>3 DEF Term, OneAtATime, Listeners, NoRival
  <2>3. NoRival'
    BY <1>3 DEF Term, OneAtATime, Listeners, NoRival
  <2>4. Recorded'
    BY <1>3 DEF Term, OneAtATime, Listeners, NoRival, Recorded, Adding, Removing
  <2> QED
    BY <2>1, <2>2, <2>3, <2>4
<1>4. CASE Wait(c)
  <2>1. OneAtATime'
    BY <1>4 DEF Wait, OneAtATime, Listeners, NoRival
  <2>2. Listeners'
    BY <1>4 DEF Wait, OneAtATime, Listeners, NoRival
  <2>3. NoRival'
    BY <1>4 DEF Wait, OneAtATime, Listeners, NoRival
  <2>4. Recorded'
    BY <1>4 DEF Wait, OneAtATime, Listeners, NoRival, Recorded, Adding, Removing
  <2> QED
    BY <2>1, <2>2, <2>3, <2>4
<1>5. CASE GiveUp(c)
  <2>1. OneAtATime'
    BY <1>5 DEF GiveUp, OneAtATime, Listeners, NoRival
  <2>2. Listeners'
    BY <1>5 DEF GiveUp, OneAtATime, Listeners, NoRival
  <2>3. NoRival'
    BY <1>5 DEF GiveUp, OneAtATime, Listeners, NoRival
  <2>4. Recorded'
    BY <1>5 DEF GiveUp, OneAtATime, Listeners, NoRival, Recorded, Adding, Removing
  <2> QED
    BY <2>1, <2>2, <2>3, <2>4
<1>6. CASE Sweep(c)
  <2>1. OneAtATime'
    BY <1>6 DEF Sweep, OneAtATime, Listeners, NoRival
  <2>2. Listeners'
    BY <1>6 DEF Sweep, OneAtATime, Listeners, NoRival
  <2>3. NoRival'
    BY <1>6 DEF Sweep, OneAtATime, Listeners, NoRival
  <2>4. Recorded'
    BY <1>6 DEF Sweep, OneAtATime, Listeners, NoRival, Recorded, Adding, Removing
  <2> QED
    BY <2>1, <2>2, <2>3, <2>4
<1>7. CASE Clear(c)
  <2>1. OneAtATime'
    BY <1>7 DEF Clear, OneAtATime, Listeners, NoRival
  <2>2. Listeners'
    BY <1>7 DEF Clear, OneAtATime, Listeners, NoRival
  <2>3. NoRival'
    BY <1>7 DEF Clear, OneAtATime, Listeners, NoRival
  <2>4. Recorded'
    BY <1>7 DEF Clear, OneAtATime, Listeners, NoRival, Recorded, Adding, Removing
  <2> QED
    BY <2>1, <2>2, <2>3, <2>4
<1> QED
  BY <1>1, <1>2, <1>3, <1>4, <1>5, <1>6, <1>7

-----------------------------------------------------------------------------
LEMMA RecordInvStep == ASSUME ~Overlap, RecordInv, [DaemonNext]_daemonVars PROVE RecordInv'
<1>1. DaemonInv'
  BY DaemonInvStep DEF RecordInv
<1>2. CASE DaemonNext
  <2>1. CASE \E d \in Dir : Break(d)
    BY <1>1, <2>1 DEF RecordInv, OneAtATime, Listeners, NoRival, Recorded, Adding, Removing,
                      Break, files, calls
  <2> QED
    BY <1>1, <1>2, <2>1, AloneStartKeeps, AloneRegisterKeeps, AloneDeathKeeps, AloneStopKeeps,
       AloneChaseKeeps DEF DaemonNext, RecordInv
<1>3. CASE UNCHANGED daemonVars
  BY <1>1, <1>3 DEF daemonVars, files, calls, RecordInv, OneAtATime, Listeners, NoRival, Recorded,
                    Adding, Removing
<1> QED
  BY <1>2, <1>3

\* For any number of commands, one at a time, whatever fails or is killed between and
\* during them: a daemon that is up is the one that the files name, and modules.json
\* names what it has loaded (writePidFile, registerModule, unregisterModule,
\* cleanupFiles, clearModulesState).
THEOREM DaemonIsRecorded == ASSUME ~Overlap PROVE DaemonSpec => []DaemonAsRecorded
<1>1. RecordInv => DaemonAsRecorded
  <2> SUFFICES ASSUME RecordInv PROVE DaemonFound /\ RegistryMatches
    BY DEF DaemonAsRecorded
  <2>1. DaemonFound
    BY DEF RecordInv, Listeners, OnFile, DaemonFound
  <2>2. RegistryMatches
    BY DEF RecordInv, Recorded, Adding, Removing, Settled, RegistryMatches
  <2> QED
    BY <2>1, <2>2
<1>2. RecordInv /\ [DaemonNext]_daemonVars => RecordInv'
  BY RecordInvStep
<1> QED
  BY <1>1, <1>2, RecordInvInit, PTL DEF DaemonSpec
=============================================================================
