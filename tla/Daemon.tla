------------------------------- MODULE Daemon -------------------------------
(***************************************************************************)
(* The daemon's life as the command line sees it:                          *)
(*   packages/cli/src/commands/start.ts     start, or register a module    *)
(*   packages/cli/src/commands/stop.ts      stop [--all] [--force]         *)
(*   packages/cli/src/commands/shutdown.ts  shutdown [--force]             *)
(*   packages/cli/src/daemon-client.ts, module-registry.ts                 *)
(*                                                                         *)
(* The commands and the daemon are processes that share three files (the   *)
(* daemon's PID, its port, the registered modules) and one port.  A start  *)
(* that finds no daemon becomes the daemon, in the foreground or, with     *)
(* --daemon, in a child that runs the same code.  An action is one stretch *)
(* of a process between two awaits.  A module is its project's directory.  *)
(***************************************************************************)
EXTENDS Naturals, FiniteSets

CONSTANTS Command,    \* the commands typed, each one once
          Dir,        \* project directories
          NoCommand,
          Overlap     \* may a command begin while another is under way?

ASSUME DaemonAssumption == NoCommand \notin Command /\ Overlap \in BOOLEAN

VARIABLES
  at,         \* where a process is
  dir,        \* the directory a command was typed in
  opts,       \* its options, and "port" once it has read the port file
  target,     \* the daemon a command talks to
  snapshot,   \* what it read of modules.json
  pidFile,    \* orgloop.pid: a process, or NoCommand
  portFile,   \* does runtime.port exist?
  registry,   \* modules.json
  port,       \* the process that listens on the port
  loaded,     \* the modules in a daemon's runtime
  broken      \* modules that fail to load from now on

files == <<pidFile, portFile, registry>>
calls == <<dir, opts, target, snapshot>>
daemonVars == <<at, files, calls, port, loaded, broken>>

\* A process that will be a daemon, from the probe of the port on; "stray"
\* failed to start but listens, "silent" has stopped its runtime but lives.
Starting == {"probe", "bind", "load", "record", "recordWrite", "restore",
             "writePid", "writePort", "failed"}
Living == Starting \cup {"up", "stray", "silent", "terminating", "cleanup"}
Handling == {"reload", "peerRecord", "peerWrite"}
Asking == {"checkPid", "checkPort", "resolve", "register"}
Stopping == {"stopPid", "stopPort", "stopModule", "unload", "strike", "strikeWrite",
             "shutPid", "kill", "ask", "term", "wait", "sweep", "clear"}
Settled == {"idle", "up", "stray", "silent", "ended", "stopped"}

DaemonTypeOK ==
  /\ at \in [Command -> Living \cup Handling \cup Asking \cup Stopping \cup Settled]
  /\ dir \in [Command -> Dir]
  /\ opts \in [Command -> SUBSET {"all", "force", "port"}]
  /\ target \in [Command -> Command \cup {NoCommand}]
  /\ snapshot \in [Command -> SUBSET Dir]
  /\ {pidFile, port} \subseteq Command \cup {NoCommand}
  /\ portFile \in BOOLEAN
  /\ registry \subseteq Dir
  /\ loaded \in [Command -> SUBSET Dir]
  /\ broken \subseteq Dir

DaemonInit ==
  /\ at = [c \in Command |-> "idle"]
  /\ dir \in [Command -> Dir]
  /\ opts = [c \in Command |-> {}]
  /\ target = [c \in Command |-> NoCommand]
  /\ snapshot = [c \in Command |-> {}]
  /\ pidFile = NoCommand
  /\ portFile = FALSE
  /\ registry = {}
  /\ port = NoCommand
  /\ loaded = [c \in Command |-> {}]
  /\ broken = {}

Go(c, place) == at' = [at EXCEPT ![c] = place]
\* isProcessRunning; the PID of a process that is gone is not given again.
Runs(p) == p # NoCommand /\ at[p] \in Living
MayBegin == Overlap \/ \A c \in Command : at[c] \in Settled

\* The process p ends, and c goes on at place: p's port is free, the calls it
\* was serving fail.
Serves(p, x) == target[x] = p /\ at[x] \in Handling
Ends(p, c, place) ==
  /\ at' = [x \in Command |-> IF x = c THEN place
                              ELSE IF x = p \/ Serves(p, x) THEN "ended" ELSE at[x]]
  /\ port' = IF port = p THEN NoCommand ELSE port
  /\ loaded' = [loaded EXCEPT ![p] = {}]

-----------------------------------------------------------------------------
(* start.                                                                  *)

Start(c) ==
  /\ at[c] = "idle"
  /\ MayBegin
  /\ Go(c, "checkPid")
  /\ UNCHANGED <<files, calls, port, loaded, broken>>

\* getDaemonInfo()
CheckPid(c) ==
  /\ at[c] = "checkPid"
  /\ IF Runs(pidFile) THEN Go(c, "checkPort") ELSE Go(c, "resolve")
  /\ UNCHANGED <<files, calls, port, loaded, broken>>

CheckPort(c) ==
  /\ at[c] = "checkPort"
  /\ IF portFile THEN Go(c, "register") ELSE Go(c, "resolve")
  /\ UNCHANGED <<files, calls, port, loaded, broken>>

\* The doctor, loadCliConfig() and resolveModuleResources().
Resolve(c) ==
  /\ at[c] = "resolve"
  /\ \/ Go(c, "probe")
     \/ dir[c] \in broken /\ Go(c, "ended")
  /\ UNCHANGED <<files, calls, port, loaded, broken>>

\* isPortInUse()
Probe(c) ==
  /\ at[c] = "probe"
  /\ IF port = NoCommand THEN Go(c, "bind") ELSE Go(c, "failed")
  /\ UNCHANGED <<files, calls, port, loaded, broken>>

Bind(c) ==
  /\ at[c] = "bind"
  /\ IF port = NoCommand
     THEN port' = c /\ Go(c, "load")
     ELSE UNCHANGED port /\ Go(c, "failed")
  /\ UNCHANGED <<files, calls, loaded, broken>>

LoadOwn(c) ==
  /\ at[c] = "load"
  /\ IF dir[c] \in broken
     THEN UNCHANGED loaded /\ Go(c, "failed")
     ELSE loaded' = [loaded EXCEPT ![c] = {dir[c]}] /\ Go(c, "record")
  /\ UNCHANGED <<files, calls, port, broken>>

\* registerModule() reads the file, changes what it read, and writes it.
Record(c) ==
  /\ at[c] \in {"record", "peerRecord"}
  /\ snapshot' = [snapshot EXCEPT ![c] = registry]
  /\ Go(c, IF at[c] = "record" THEN "recordWrite" ELSE "peerWrite")
  /\ UNCHANGED <<files, dir, opts, target, port, loaded, broken>>

\* Fault: the file is overwritten.
RecordAlone(c) ==
  /\ at[c] \in {"recordWrite", "peerWrite"}
  /\ registry' = {dir[c]}
  /\ Go(c, IF at[c] = "recordWrite" THEN "restore" ELSE "ended")
  /\ UNCHANGED <<pidFile, portFile, calls, port, loaded, broken>>

RecordWrite(c) ==
  /\ at[c] \in {"recordWrite", "peerWrite"}
  /\ registry' = snapshot[c] \cup {dir[c]}
  /\ Go(c, IF at[c] = "recordWrite" THEN "restore" ELSE "ended")
  /\ UNCHANGED <<pidFile, portFile, calls, port, loaded, broken>>

\* The modules of an earlier daemon; one that fails to load is skipped.
Restore(c) ==
  /\ at[c] = "restore"
  /\ loaded' = [loaded EXCEPT ![c] = @ \cup (registry \ broken)]
  /\ Go(c, "writePid")
  /\ UNCHANGED <<files, calls, port, broken>>

WritePid(c) ==
  /\ at[c] = "writePid"
  /\ pidFile' = c
  /\ Go(c, "writePort")
  /\ UNCHANGED <<portFile, registry, calls, port, loaded, broken>>

WritePort(c) ==
  /\ at[c] = "writePort"
  /\ portFile' = TRUE
  /\ Go(c, "up")
  /\ UNCHANGED <<pidFile, registry, calls, port, loaded, broken>>

\* The catch block removes both files, whoever wrote them, and returns.  The
\* process ends by itself only if it does not listen.
StartFails(c) ==
  /\ at[c] = "failed"
  /\ pidFile' = NoCommand
  /\ portFile' = FALSE
  /\ Go(c, IF port = c THEN "stray" ELSE "ended")
  /\ UNCHANGED <<registry, calls, port, loaded, broken>>

-----------------------------------------------------------------------------
(* start with a daemon running: POST /control/module/load-project.         *)

\* The handler reads the configuration and unloads what is to be replaced.
Register(c) ==
  /\ at[c] = "register"
  /\ IF port = NoCommand \/ dir[c] \in broken
     THEN Go(c, "ended") /\ UNCHANGED <<target, loaded>>
     ELSE /\ target' = [target EXCEPT ![c] = port]
          /\ loaded' = [loaded EXCEPT ![port] = @ \ {dir[c]}]
          /\ Go(c, "reload")
  /\ UNCHANGED <<files, dir, opts, snapshot, port, broken>>

Reload(c) ==
  /\ at[c] = "reload"
  /\ IF dir[c] \in broken
     THEN UNCHANGED loaded /\ Go(c, "ended")
     ELSE /\ loaded' = [loaded EXCEPT ![target[c]] = @ \cup {dir[c]}]
          /\ Go(c, "peerRecord")
  /\ UNCHANGED <<files, calls, port, broken>>

-----------------------------------------------------------------------------
(* The daemon ends.                                                        *)

\* SIGTERM or SIGINT from outside.
Signal(p) ==
  /\ at[p] \in {"up", "stray", "silent"}
  /\ MayBegin
  /\ Go(p, "terminating")
  /\ UNCHANGED <<files, calls, port, loaded, broken>>

\* runtime.stop() in the signal handler
Unwind(p) ==
  /\ at[p] = "terminating"
  /\ port' = IF port = p THEN NoCommand ELSE port
  /\ loaded' = [loaded EXCEPT ![p] = {}]
  /\ Go(p, "cleanup")
  /\ UNCHANGED <<files, calls, broken>>

\* cleanupPidFile(), exit, and the exit handler
CleanUp(p) ==
  /\ at[p] = "cleanup"
  /\ Ends(p, p, "ended")
  /\ pidFile' = NoCommand
  /\ portFile' = FALSE
  /\ UNCHANGED <<registry, calls, broken>>

\* Killed, or ended by an uncaught exception, in which case the exit handler
\* runs.  A modules.json half written is read as one without modules.
Crash(p) ==
  /\ at[p] \in Living
  /\ Ends(p, p, "ended")
  /\ \/ UNCHANGED <<pidFile, portFile>>
     \/ pidFile' = NoCommand /\ portFile' = FALSE
  /\ registry' \in IF \E c \in Command : \/ c = p /\ at[c] = "recordWrite"
                                         \/ target[c] = p /\ at[c] = "peerWrite"
                   THEN {registry, {}} ELSE {registry}
  /\ UNCHANGED <<calls, broken>>

Break(d) ==
  /\ d \notin broken
  /\ broken' = broken \cup {d}
  /\ UNCHANGED <<at, files, calls, port, loaded>>

-----------------------------------------------------------------------------
(* stop and shutdown.                                                      *)

BeginStop(c) ==
  /\ at[c] = "idle"
  /\ MayBegin
  /\ \E command \in {"stopPid", "shutPid"} : Go(c, command)
  /\ \E o \in SUBSET {"all", "force"} : opts' = [opts EXCEPT ![c] = o]
  /\ UNCHANGED <<files, dir, target, snapshot, port, loaded, broken>>

StopPid(c) ==
  /\ at[c] = "stopPid"
  /\ IF pidFile = NoCommand THEN Go(c, "ended") /\ UNCHANGED target
     ELSE IF ~Runs(pidFile) THEN Go(c, "sweep") /\ UNCHANGED target
     ELSE Go(c, "stopPort") /\ target' = [target EXCEPT ![c] = pidFile]
  /\ UNCHANGED <<files, dir, opts, snapshot, port, loaded, broken>>

\* Where fullShutdown() begins.
Means(c, o) == IF "force" \in o THEN "kill"
               ELSE IF "port" \in o THEN "ask" ELSE "term"

StopPort(c) ==
  /\ at[c] = "stopPort"
  /\ LET o == IF portFile THEN opts[c] \cup {"port"} ELSE opts[c] IN
       /\ opts' = [opts EXCEPT ![c] = o]
       /\ Go(c, IF "all" \in o THEN Means(c, o) ELSE "stopModule")
  /\ UNCHANGED <<files, dir, target, snapshot, port, loaded, broken>>

\* findModuleByDir() and readModulesState() read the file one after the other.
StopModule(c) ==
  /\ at[c] = "stopModule"
  /\ Go(c, IF dir[c] \notin registry \/ Cardinality(registry) <= 1 \/ "port" \notin opts[c]
           THEN Means(c, opts[c]) ELSE "unload")
  /\ UNCHANGED <<files, calls, port, loaded, broken>>

\* shutdown: getDaemonInfo(), else a look at the PID file
ShutPid(c) ==
  /\ at[c] = "shutPid"
  /\ IF Runs(pidFile) /\ portFile
     THEN /\ target' = [target EXCEPT ![c] = pidFile]
          /\ opts' = [opts EXCEPT ![c] = @ \cup {"port"}]
          /\ Go(c, IF "force" \in opts[c] THEN "kill" ELSE "ask")
     ELSE /\ Go(c, IF pidFile = NoCommand THEN "ended" ELSE "sweep")
          /\ UNCHANGED <<target, opts>>
  /\ UNCHANGED <<files, dir, snapshot, port, loaded, broken>>

\* POST /control/module/unload, then unregisterModule()
Unload(c) ==
  /\ at[c] = "unload"
  /\ IF port # NoCommand /\ dir[c] \in loaded[port]
     THEN loaded' = [loaded EXCEPT ![port] = @ \ {dir[c]}] /\ Go(c, "strike")
     ELSE UNCHANGED loaded /\ Go(c, "ended")
  /\ UNCHANGED <<files, calls, port, broken>>

Strike(c) ==
  /\ at[c] = "strike"
  /\ snapshot' = [snapshot EXCEPT ![c] = registry]
  /\ Go(c, "strikeWrite")
  /\ UNCHANGED <<files, dir, opts, target, port, loaded, broken>>

StrikeWrite(c) ==
  /\ at[c] = "strikeWrite"
  /\ registry' = snapshot[c] \ {dir[c]}
  /\ Go(c, "ended")
  /\ UNCHANGED <<pidFile, portFile, calls, port, loaded, broken>>

\* SIGKILL; to kill a process that is gone is an error.
Kill(c) ==
  /\ at[c] = "kill"
  /\ IF Runs(target[c])
     THEN Ends(target[c], c, "sweep")
     ELSE Go(c, "ended") /\ UNCHANGED <<port, loaded>>
  /\ UNCHANGED <<files, calls, broken>>

\* POST /control/shutdown stops the runtime, not the process: the timer that
\* saves the state keeps the process alive.  One that has no such timer ends.
Ask(c) ==
  /\ at[c] = "ask"
  /\ IF port # NoCommand
     THEN /\ at' = [at EXCEPT ![c] = "wait",
                              ![port] = IF @ = "up" THEN "silent"
                                       ELSE IF @ = "stray" THEN "terminating" ELSE @]
          /\ port' = NoCommand
          /\ loaded' = [loaded EXCEPT ![port] = {}]
     ELSE Go(c, "term") /\ UNCHANGED <<port, loaded>>
  /\ UNCHANGED <<files, calls, broken>>

Term(c) ==
  /\ at[c] = "term"
  /\ IF Runs(target[c])
     THEN at' = [at EXCEPT ![c] = "wait", ![target[c]] = "terminating"]
     ELSE Go(c, "ended")
  /\ UNCHANGED <<files, calls, port, loaded, broken>>

\* Fault: the process that does not go is left alone.
WaitOnly(c) ==
  /\ at[c] = "wait"
  /\ Go(c, "sweep")
  /\ UNCHANGED <<files, calls, port, loaded, broken>>

\* waitForExit(): the process is gone, or is killed after ten seconds.
Wait(c) ==
  /\ at[c] = "wait"
  /\ IF Runs(target[c])
     THEN Ends(target[c], c, "sweep")
     ELSE Go(c, "sweep") /\ UNCHANGED <<port, loaded>>
  /\ UNCHANGED <<files, calls, broken>>

\* The operator does not wait.
GiveUp(c) ==
  /\ at[c] = "wait"
  /\ Go(c, "ended")
  /\ UNCHANGED <<files, calls, port, loaded, broken>>

\* cleanupFiles() and clearModulesState()
Sweep(c) ==
  /\ at[c] = "sweep"
  /\ pidFile' = NoCommand
  /\ portFile' = FALSE
  /\ Go(c, "clear")
  /\ UNCHANGED <<registry, calls, port, loaded, broken>>

Clear(c) ==
  /\ at[c] = "clear"
  /\ registry' = {}
  /\ Go(c, "stopped")
  /\ UNCHANGED <<pidFile, portFile, calls, port, loaded, broken>>
-----------------------------------------------------------------------------
DaemonNext ==
  \/ \E c \in Command :
       \/ Start(c) \/ CheckPid(c) \/ CheckPort(c) \/ Resolve(c) \/ Probe(c)
       \/ Bind(c) \/ LoadOwn(c) \/ Record(c) \/ RecordWrite(c) \/ Restore(c)
       \/ WritePid(c) \/ WritePort(c) \/ StartFails(c) \/ Register(c) \/ Reload(c)
       \/ Signal(c) \/ Unwind(c) \/ CleanUp(c) \/ Crash(c)
       \/ BeginStop(c) \/ StopPid(c) \/ StopPort(c) \/ StopModule(c) \/ ShutPid(c)
       \/ Unload(c) \/ Strike(c) \/ StrikeWrite(c) \/ Kill(c) \/ Ask(c) \/ Term(c)
       \/ Wait(c) \/ GiveUp(c) \/ Sweep(c) \/ Clear(c)
  \/ \E d \in Dir : Break(d)

DaemonSpec == DaemonInit /\ [][DaemonNext]_daemonVars

-----------------------------------------------------------------------------
(* Properties.                                                             *)

(***************************************************************************)
(* While commands do not overlap, and whatever fails or is killed between  *)
(* them, a daemon that has started is the one the files name ("returns     *)
(* null if no daemon is running", getDaemonInfo), and modules.json names   *)
(* its modules, but for those that do not load any more: what a restart    *)
(* brings back is what was running.                                        *)
(***************************************************************************)
DaemonFound == \A p \in Command : at[p] = "up" => pidFile = p /\ portFile

RegistryMatches ==
  (\A c \in Command : at[c] \in Settled) =>
    \A p \in Command : at[p] = "up" => /\ loaded[p] \subseteq registry
                                       /\ registry \ broken \subseteq loaded[p]

DaemonAsRecorded == DaemonFound /\ RegistryMatches

(***************************************************************************)
(* A stop that reports success leaves no process of the daemon behind,     *)
(* whichever way it went (API, SIGTERM, SIGKILL), also when commands       *)
(* overlap.                                                                *)
(***************************************************************************)
StopMeansStopped == \A c \in Command : at[c] = "stopped" => ~Runs(target[c])
=============================================================================
