--------------------------- MODULE ModuleLifecycle ---------------------------
(***************************************************************************)
(* Loading, unloading and reloading modules in a running runtime, and      *)
(* stopping it.                                                            *)
(*   packages/core/src/runtime.ts          loadModule, unloadModule,       *)
(*                                         reloadModule, stop              *)
(*   packages/core/src/module-instance.ts  the states of an instance       *)
(*   packages/core/src/registry.ts         one instance per name           *)
(*   packages/core/src/scheduler.ts, http.ts, logger.ts                    *)
(*                                         what the modules share          *)
(*   packages/cli/src/commands/start.ts    module/load-project, signals    *)
(*                                                                         *)
(* The calls come from requests to the control API, from the CLI's start   *)
(* and from signals.  Nothing keeps two of them apart, so they interleave  *)
(* at their awaits.  A module is its name; every load builds an instance   *)
(* of it, and instances are numbered in the order they are built.          *)
(***************************************************************************)
EXTENDS Naturals, FiniteSets

CONSTANTS Caller,      \* concurrent calls
          Name,        \* module names
          Source,      \* source ids
          Polled,      \* Polled[n]: the sources of module n that are polled
          Hooked,      \* Hooked[n]: its sources with a webhook handler
          MaxInstance  \* bound on the instances of a behaviour

ASSUME LifecycleAssumption ==
    /\ Name # {}
    /\ Polled \in [Name -> SUBSET Source]
    /\ Hooked \in [Name -> SUBSET Source]
    /\ MaxInstance \in Nat

Instance == 1 .. MaxInstance

VARIABLES
    built,     \* instances built so far
    owner,     \* owner[i]: the module that i is an instance of
    state,     \* state[i]: ModuleInstance.state
    registry,  \* registry[n]: the registered instance of n, or 0
    entries,   \* <<i, s>>: the scheduler's entry for source s, added for i;
               \* the scheduler itself knows the module's name only
    handlers,  \* handlers[s]: the instance whose webhook handler has the id
    loggers,   \* instances whose loggers the LoggerManager writes to
    config,    \* modules whose config is stored for a reload
    http,      \* httpStarted
    ticking,   \* the scheduler runs
    running,   \* Runtime.running
    pc,        \* where a call is suspended
    name,      \* the module a call is about
    target,    \* the instance it works on
    again,     \* an unload that is the first half of a reload
    list,      \* instances that a stop() has still to shut down
    overlapped \* modules that two calls have unloaded at the same time

moduleVars == <<built, owner, state, registry, config>>
sharedVars == <<entries, handlers, loggers, http, ticking, running>>
callVars   == <<pc, name, target, again, list>>
vars == <<moduleVars, sharedVars, callVars, overlapped>>

------------------------------------------------------------------------------
(* Helpers                                                                 *)

NoName == CHOOSE n \in Name : TRUE      \* the module of a call not running

Goto(c, from, to) == /\ pc[c] = from
                     /\ pc' = [pc EXCEPT ![c] = to]

Return(c) == /\ pc' = [pc EXCEPT ![c] = "idle"]
             /\ name' = [name EXCEPT ![c] = NoName]
             /\ target' = [target EXCEPT ![c] = 0]
             /\ again' = [again EXCEPT ![c] = FALSE]
             /\ list' = [list EXCEPT ![c] = {}]

\* Calls in the middle of unloadModule(n), before it unregisters n.
Unloading(c, n) == pc[c] \in {"unloading", "shutting"} /\ name[c] = n

\* Fault: removeSource(id) for each source of the module.
RemovedById(n) == {e \in entries : e[2] \notin Polled[n]}

\* Scheduler.removeSources(n): the entries that stay.
Removed(n) == {e \in entries : owner[e[1]] # n}

------------------------------------------------------------------------------
\* The runtime has started; the CLI has bound the port, an embedder has not.
Init ==
    /\ built = 0
    /\ owner = [i \in Instance |-> NoName]
    /\ state = [i \in Instance |-> "none"]
    /\ registry = [n \in Name |-> 0]
    /\ entries = {}
    /\ handlers = [s \in Source |-> 0]
    /\ loggers = {}
    /\ config = {}
    /\ http \in BOOLEAN
    /\ ticking = TRUE
    /\ running = TRUE
    /\ pc = [c \in Caller |-> "idle"]
    /\ name = [c \in Caller |-> NoName]
    /\ target = [c \in Caller |-> 0]
    /\ again = [c \in Caller |-> FALSE]
    /\ list = [c \in Caller |-> {}]
    /\ overlapped = {}

------------------------------------------------------------------------------
(* loadModule()                                                            *)

\* Build an instance of n and initialize its connectors.
Build(c, n) ==
    /\ built < MaxInstance
    /\ built' = built + 1
    /\ owner' = [owner EXCEPT ![built + 1] = n]
    /\ state' = [state EXCEPT ![built + 1] = "loading"]
    /\ pc' = [pc EXCEPT ![c] = "initializing"]
    /\ name' = [name EXCEPT ![c] = n]
    /\ target' = [target EXCEPT ![c] = built + 1]
    /\ again' = [again EXCEPT ![c] = FALSE]
    /\ UNCHANGED <<registry, config, sharedVars, list, overlapped>>

LoadCall(c, n) == pc[c] = "idle" /\ Build(c, n)

\* Fault: a module whose connectors do not start is registered all the same.
InitFailsKept(c) ==
    /\ pc[c] = "initializing"
    /\ registry' = [registry EXCEPT ![name[c]] = target[c]]
    /\ Return(c)
    /\ UNCHANGED <<built, owner, state, config, sharedVars, overlapped>>

InitFails(c) ==
    /\ pc[c] = "initializing"
    /\ Return(c)
    /\ UNCHANGED <<moduleVars, sharedVars, overlapped>>

\* The name has been taken meanwhile: register() throws, and nobody shuts
\* down the instance that is active by now.
Conflict(c) ==
    /\ pc[c] = "initializing"
    /\ registry[name[c]] # 0
    /\ state' = [state EXCEPT ![target[c]] = "active"]
    /\ Return(c)
    /\ UNCHANGED <<built, owner, registry, config, sharedVars, overlapped>>

\* Activate and register the instance, give it its loggers, poll entries and
\* webhook handlers, and start the HTTP server for the latter if need be.
Activate(c) ==
    LET n == name[c]
        i == target[c]
    IN /\ pc[c] = "initializing"
       /\ registry[n] = 0
       /\ state' = [state EXCEPT ![i] = "active"]
       /\ registry' = [registry EXCEPT ![n] = i]
       /\ loggers' = loggers \cup {i}
       /\ entries' = entries \cup {<<i, s>> : s \in Polled[n]}
       /\ handlers' = [s \in Source |-> IF s \in Hooked[n] THEN i ELSE handlers[s]]
       /\ IF Hooked[n] # {} /\ ~http
          THEN /\ pc' = [pc EXCEPT ![c] = "binding"]
               /\ UNCHANGED <<name, target, again, list, config>>
          ELSE /\ config' = config \cup {n}
               /\ Return(c)
       /\ UNCHANGED <<built, owner, http, ticking, running, overlapped>>

BindSucceeds(c) ==
    /\ pc[c] = "binding"
    /\ ~http
    /\ http' = TRUE
    /\ config' = config \cup {name[c]}
    /\ Return(c)
    /\ UNCHANGED <<built, owner, state, registry, entries, handlers, loggers,
                   ticking, running, overlapped>>

\* The port is in use, maybe by the server of a load that was faster: the
\* call throws and leaves the module in service.
BindFails(c) ==
    /\ pc[c] = "binding"
    /\ Return(c)
    /\ UNCHANGED <<moduleVars, sharedVars, overlapped>>

------------------------------------------------------------------------------
(* unloadModule(), reloadModule(), module/load-project                     *)

\* The instance is looked up, then the unloading is logged.
BeginUnload(c, n, reload) ==
    /\ registry[n] # 0
    /\ Goto(c, "idle", "unloading")
    /\ name' = [name EXCEPT ![c] = n]
    /\ target' = [target EXCEPT ![c] = registry[n]]
    /\ again' = [again EXCEPT ![c] = reload]
    /\ overlapped' = IF \E d \in Caller : Unloading(d, n)
                     THEN overlapped \cup {n} ELSE overlapped
    /\ UNCHANGED <<moduleVars, sharedVars, list>>

UnloadCall(c, n) == BeginUnload(c, n, FALSE)

ReloadCall(c, n) == n \in config /\ BeginUnload(c, n, TRUE)

\* The CLI's handler for a project that is loaded; for another one it is a
\* LoadCall.
LoadProjectCall(c, n) == BeginUnload(c, n, TRUE)

\* Fault: the polling goes on until the connectors are shut down.
WithdrawLate(c) ==
    /\ Goto(c, "unloading", "shutting")
    /\ state' = [state EXCEPT ![target[c]] = "unloading"]
    /\ handlers' = [s \in Source |-> IF s \in Hooked[name[c]] THEN 0 ELSE handlers[s]]
    /\ UNCHANGED <<built, owner, registry, config, entries, loggers, http,
                   ticking, running, name, target, again, list, overlapped>>

\* Deactivate, then take the module's poll entries and webhook handlers away.
Withdraw(c) ==
    /\ Goto(c, "unloading", "shutting")
    /\ state' = [state EXCEPT ![target[c]] = "unloading"]
    /\ entries' = Removed(name[c])
    /\ handlers' = [s \in Source |-> IF s \in Hooked[name[c]] THEN 0 ELSE handlers[s]]
    /\ UNCHANGED <<built, owner, registry, config, loggers, http, ticking,
                   running, name, target, again, list, overlapped>>

\* The connectors are shut down; loggers and registration go by the name.
Unregister(c) ==
    LET n == name[c]
    IN /\ pc[c] = "shutting"
       /\ state' = [state EXCEPT ![target[c]] = "removed"]
       /\ loggers' = {i \in loggers : owner[i] # n}
       /\ registry' = [registry EXCEPT ![n] = 0]
       /\ config' = config \ {n}
       /\ IF again[c] THEN pc' = [pc EXCEPT ![c] = "removed"]
                           /\ UNCHANGED <<name, target, again, list>>
                      ELSE Return(c)
       /\ UNCHANGED <<built, owner, entries, handlers, http, ticking, running,
                      overlapped>>

LoadAgain(c) == pc[c] = "removed" /\ Build(c, name[c])

\* The new configuration of the project cannot be resolved.
ReloadFails(c) ==
    /\ pc[c] = "removed"
    /\ Return(c)
    /\ UNCHANGED <<moduleVars, sharedVars, overlapped>>

------------------------------------------------------------------------------
(* stop()                                                                  *)

StopCall(c) ==
    /\ running
    /\ Goto(c, "idle", "stopping")
    /\ UNCHANGED <<moduleVars, sharedVars, name, target, again, list, overlapped>>

\* The modules still to be shut down: at first registry.list(), a copy.
Pending(c) == IF pc[c] = "stopping" THEN {registry[n] : n \in Name} \ {0}
                                    ELSE list[c]

\* The next of them, in any order; it stays registered, with its handlers.
StopModule(c, i) ==
    /\ pc[c] \in {"stopping", "closing"}
    /\ i \in Pending(c)
    /\ pc' = [pc EXCEPT ![c] = "quitting"]
    /\ target' = [target EXCEPT ![c] = i]
    /\ list' = [list EXCEPT ![c] = Pending(c) \ {i}]
    /\ state' = [state EXCEPT ![i] = "unloading"]
    /\ entries' = Removed(owner[i])
    /\ UNCHANGED <<built, owner, registry, config, handlers, loggers, http,
                   ticking, running, name, again, overlapped>>

ModuleStopped(c) ==
    /\ Goto(c, "quitting", "closing")
    /\ state' = [state EXCEPT ![target[c]] = "removed"]
    /\ target' = [target EXCEPT ![c] = 0]
    /\ UNCHANGED <<built, owner, registry, config, sharedVars, name, again,
                   list, overlapped>>

\* The HTTP server has closed its last connection; the scheduler stops.
CloseServer(c) ==
    /\ pc[c] \in {"stopping", "closing"}
    /\ Pending(c) = {}
    /\ pc' = [pc EXCEPT ![c] = "flushing"]
    /\ http' = FALSE
    /\ ticking' = FALSE
    /\ UNCHANGED <<moduleVars, entries, handlers, loggers, running, name,
                   target, again, list, overlapped>>

StopEnds(c) ==
    /\ pc[c] = "flushing"
    /\ running' = FALSE
    /\ Return(c)
    /\ UNCHANGED <<moduleVars, entries, handlers, loggers, http, ticking,
                   overlapped>>

------------------------------------------------------------------------------
LoadStep(c) == \/ InitFails(c)
               \/ Conflict(c)
               \/ Activate(c)
               \/ BindSucceeds(c)
               \/ BindFails(c)

UnloadStep(c) == \/ Withdraw(c)
                 \/ Unregister(c)
                 \/ LoadAgain(c)
                 \/ ReloadFails(c)

StopStep(c) == \/ StopCall(c)
               \/ \E i \in Pending(c) : StopModule(c, i)
               \/ ModuleStopped(c)
               \/ CloseServer(c)
               \/ StopEnds(c)

CallFor(c, n) == \/ LoadCall(c, n)
                 \/ UnloadCall(c, n)
                 \/ ReloadCall(c, n)
                 \/ LoadProjectCall(c, n)

Next == \E c \in Caller : \/ \E n \in Name : CallFor(c, n)
                          \/ LoadStep(c)
                          \/ UnloadStep(c)
                          \/ StopStep(c)

Spec == Init /\ [][Next]_vars

------------------------------------------------------------------------------
(* Correctness                                                             *)

Point == {"idle", "initializing", "binding", "unloading", "shutting",
          "removed", "stopping", "closing", "quitting", "flushing"}

\* Every variable has its type, and what the registry holds is an instance of
\* the module that has come up.
TypeOK ==
    /\ built \in 0 .. MaxInstance
    /\ owner \in [Instance -> Name]
    /\ state \in [Instance -> {"none", "loading", "active", "unloading", "removed"}]
    /\ registry \in [Name -> 0 .. MaxInstance]
    /\ entries \subseteq Instance \X Source
    /\ handlers \in [Source -> 0 .. MaxInstance]
    /\ loggers \subseteq Instance
    /\ config \subseteq Name
    /\ http \in BOOLEAN
    /\ ticking \in BOOLEAN
    /\ running \in BOOLEAN
    /\ pc \in [Caller -> Point]
    /\ name \in [Caller -> Name]
    /\ target \in [Caller -> 0 .. MaxInstance]
    /\ again \in [Caller -> BOOLEAN]
    /\ list \in [Caller -> SUBSET Instance]
    /\ overlapped \subseteq Name
    /\ \A n \in Name : registry[n] # 0 =>
          owner[registry[n]] = n /\ state[registry[n]] \notin {"none", "loading"}

\* A stop() has begun to shut modules down, or is over.
Stopping == ~running \/ \E c \in Caller : pc[c] \in {"closing", "quitting", "flushing"}

\* The scheduler, the webhook server and the log fan-out hold nothing of an
\* instance that is out of service: a poll entry belongs to the registered,
\* active instance of its module and its loggers to the registered one, unless
\* two unloads of the module overlapped (loads, reloads, load conflicts and a
\* stop() at the same time included).
NothingLeftBehind ==
    \A n \in Name \ overlapped :
        /\ \A e \in entries : owner[e[1]] = n =>
              e[1] = registry[n] /\ state[e[1]] = "active"
        /\ \A i \in loggers : owner[i] = n => i = registry[n]

\* No other module has a webhook source of this id.
Exclusive(n, s) == \A m \in Name \ {n} : s \notin Hooked[m]

\* A module in service is served, whatever happens to the others: all its
\* sources are polled, also those whose id another module uses, its webhooks
\* lead to its own connectors, and its loggers get the log.  Again unless two
\* unloads of it overlapped.
ServedWhileActive ==
    \A n \in Name \ overlapped :
        LET i == registry[n]
        IN i # 0 /\ state[i] = "active" /\ ~Stopping =>
              /\ \A s \in Polled[n] : <<i, s>> \in entries
              /\ \A s \in Hooked[n] : Exclusive(n, s) => handlers[s] = i
              /\ i \in loggers

\* multi-module-runtime.test.ts, "unloading one module does not affect
\* others": as long as a module is in service, somebody answers its webhooks.
OthersUnaffected ==
    \A n \in Name \ overlapped :
        registry[n] # 0 /\ state[registry[n]] = "active" /\ ~Stopping =>
            \A s \in Hooked[n] : handlers[s] # 0
==============================================================================
