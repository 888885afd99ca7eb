---------------------------- MODULE EventPipeline ----------------------------
(***************************************************************************)
(* The way of an event through the runtime, from inject() or a poll to its *)
(* acknowledgement on the bus.                                             *)
(*   packages/core/src/runtime.ts    inject, processEvent, deliverToActor  *)
(*   packages/core/src/bus.ts        InMemoryBus, FileWalBus               *)
(*   packages/core/src/store.ts      FileEventStore                        *)
(*   packages/core/src/router.ts, transform.ts   which routes, what is left*)
(*                                                                         *)
(* A Call is an activation of inject(), which every webhook makes, or of   *)
(* the processEvent() that a poll makes; calls interleave at their awaits.  Routes are  *)
(* numbered in the order of the configuration.  The bus identifies events  *)
(* by their id alone: an event is its id here.                             *)
(***************************************************************************)
EXTENDS Naturals, FiniteSets

CONSTANTS Call,       \* concurrent activations
          Event,      \* event ids
          Module,     \* numbers of modules, in the order they were loaded
          Route,      \* numbers of routes
          Match,      \* <<event, module, route>>: the route matches the event
          Manned,     \* <<module, route>>: its transforms and its actor exist
          Durable,    \* FileWalBus, which may fail, or InMemoryBus?
          Listening,  \* does anybody listen to the runtime's "error" event?
          MaxCrash    \* bound on the crashes

ASSUME PipelineAssumption ==
    /\ Event # {}
    /\ Module # {}
    /\ Module \subseteq Nat
    /\ Route \subseteq Nat
    /\ Match \subseteq Event \X Module \X Route
    /\ Manned \subseteq Module \X Route
    /\ Durable \in BOOLEAN
    /\ Listening \in BOOLEAN
    /\ MaxCrash \in Nat

VARIABLES
    active,   \* modules in state "active"
    wal,      \* events written to the bus
    acked,    \* events this process knows to be acknowledged
    marked,   \* events with an acknowledgement in the WAL file
    pc,       \* where a call is suspended
    ev,       \* the event of a call
    mod,      \* the module a call processes it for
    todo,     \* matched routes of that module a call has still to take
    rest,     \* modules that inject() has still to visit
    history,  \* <<event, module>>: EventHistory has recorded it
    \* What an observer knows; the code keeps none of it.
    ended,    \* <<event, module, route>>: something became of it, good or bad
    broken,   \* events that loop detection stopped
    crashes

busVars  == <<wal, acked, marked>>
callVars == <<pc, ev, mod, todo, rest>>
fateVars == <<ended, broken, crashes>>
vars == <<active, busVars, callVars, history, fateVars>>

------------------------------------------------------------------------------
(* Helpers                                                                 *)

NoEvent  == CHOOSE e \in Event : TRUE       \* of a call that is not running
NoModule == CHOOSE m \in Module : TRUE

\* matchRoutes()
Matched(e, m) == {r \in Route : <<e, m, r>> \in Match}

\* unacked() of either bus: the acknowledgement of an id is about every
\* write of it.
Unacked == wal \ (acked \cup marked)

Goto(c, from, to) == /\ pc[c] = from
                     /\ pc' = [pc EXCEPT ![c] = to]

\* A call ends.
Return(c) == /\ pc' = [pc EXCEPT ![c] = "idle"]
             /\ ev' = [ev EXCEPT ![c] = NoEvent]
             /\ mod' = [mod EXCEPT ![c] = NoModule]
             /\ todo' = [todo EXCEPT ![c] = {}]
             /\ rest' = [rest EXCEPT ![c] = {}]

\* An exception leaves processEvent(), and with it inject() and its loop over
\* the modules.
Abort(c) == Return(c)

\* The first matched route that a call has not taken.
First(c, r) == r \in todo[c] /\ \A q \in todo[c] : r <= q

\* The loop over the matched routes goes on after route r.
Resolve(c, r) ==
    /\ ended' = ended \cup {<<ev[c], mod[c], r>>}
    /\ todo' = [todo EXCEPT ![c] = @ \ {r}]
    /\ Goto(c, pc[c], "routing")
    /\ UNCHANGED <<ev, mod, rest>>

\* Fault: a route that fails ends the loop over the routes ("break").
FailBreaks(c, r) ==
    /\ ended' = ended \cup {<<ev[c], mod[c], r>>}
    /\ todo' = [todo EXCEPT ![c] = {}]
    /\ Goto(c, pc[c], "routing")
    /\ UNCHANGED <<ev, mod, rest>>

\* emit("error") throws if nobody listens; otherwise the route is given up.
Fail(c, r) == IF Listening THEN Resolve(c, r)
                           ELSE Abort(c) /\ UNCHANGED ended

------------------------------------------------------------------------------
Init ==
    /\ active = Module
    /\ wal = {}
    /\ acked = {}
    /\ marked = {}
    /\ pc = [c \in Call |-> "idle"]
    /\ ev = [c \in Call |-> NoEvent]
    /\ mod = [c \in Call |-> NoModule]
    /\ todo = [c \in Call |-> {}]
    /\ rest = [c \in Call |-> {}]
    /\ history = {}
    /\ ended = {}
    /\ broken = {}
    /\ crashes = 0

------------------------------------------------------------------------------
(* inject()                                                                *)

\* For one module: by name, or from a poll.
Inject(c, e, m) ==
    /\ Goto(c, "idle", "entered")
    /\ ev' = [ev EXCEPT ![c] = e]
    /\ mod' = [mod EXCEPT ![c] = m]
    /\ UNCHANGED <<active, busVars, todo, rest, history, fateVars>>

\* For all modules, one after the other: any event of a webhook.
InjectAll(c, e) ==
    /\ Goto(c, "idle", "choosing")
    /\ ev' = [ev EXCEPT ![c] = e]
    /\ rest' = [rest EXCEPT ![c] = Module]
    /\ UNCHANGED <<active, busVars, mod, todo, history, fateVars>>

Visit(c, m) ==
    /\ pc[c] = "choosing"
    /\ m \in rest[c] /\ \A n \in rest[c] : m <= n
    /\ rest' = [rest EXCEPT ![c] = @ \ {m}]
    /\ IF m \in active
       THEN Goto(c, "choosing", "entered") /\ mod' = [mod EXCEPT ![c] = m]
       ELSE UNCHANGED <<pc, mod>>
    /\ UNCHANGED <<active, busVars, ev, todo, history, fateVars>>

InjectReturns(c) ==
    /\ pc[c] = "choosing"
    /\ rest[c] = {}
    /\ Return(c)
    /\ UNCHANGED <<active, busVars, history, fateVars>>

------------------------------------------------------------------------------
(* processEvent()                                                          *)

\* The loop detector finds the chain of the trace too long.
BreakLoop(c) ==
    /\ Goto(c, "entered", "acking")
    /\ broken' = broken \cup {ev[c]}
    /\ UNCHANGED <<active, busVars, ev, mod, todo, rest, history,
                   ended, crashes>>

\* Fault: the routes are not filtered by the event.
PublishForAll(c) ==
    /\ Goto(c, "entered", "routing")
    /\ wal' = wal \cup {ev[c]}
    /\ acked' = IF Durable THEN acked ELSE acked \ {ev[c]}
    /\ todo' = [todo EXCEPT ![c] = Route]
    /\ UNCHANGED <<active, marked, ev, mod, rest, history, fateVars>>

\* The in-memory bus forgets the acknowledgement of an id that comes again.
Publish(c) ==
    /\ Goto(c, "entered", "routing")
    /\ wal' = wal \cup {ev[c]}
    /\ acked' = IF Durable THEN acked ELSE acked \ {ev[c]}
    /\ todo' = [todo EXCEPT ![c] = Matched(ev[c], mod[c])]
    /\ UNCHANGED <<active, marked, ev, mod, rest, history, fateVars>>

PublishFails(c) ==
    /\ Durable
    /\ pc[c] = "entered"
    /\ Abort(c)
    /\ UNCHANGED <<active, busVars, history, ended, broken, crashes>>

\* executeTransformPipeline() lets the event through, drops it, or throws:
\* error policy "halt".
TransformPasses(c, r) ==
    /\ Goto(c, "routing", "delivering")
    /\ First(c, r)
    /\ <<mod[c], r>> \in Manned
    /\ UNCHANGED <<active, busVars, ev, mod, todo, rest, history, fateVars>>

\* A transform or the actor of the route is not there.
Misconfigured(c, r) ==
    /\ pc[c] = "routing"
    /\ First(c, r)
    /\ <<mod[c], r>> \notin Manned
    /\ Fail(c, r)
    /\ UNCHANGED <<active, busVars, history, broken, crashes>>

TransformDrops(c, r) ==
    /\ pc[c] = "routing"
    /\ First(c, r)
    /\ Resolve(c, r)
    /\ UNCHANGED <<active, busVars, history, broken, crashes>>

TransformThrows(c, r) ==
    /\ pc[c] = "routing"
    /\ First(c, r)
    /\ Fail(c, r)
    /\ UNCHANGED <<active, busVars, history, broken, crashes>>

------------------------------------------------------------------------------
(* deliverToActor()                                                        *)

\* Fault: the event is acknowledged with its first delivery.
DeliverAcks(c, r) ==
    /\ pc[c] = "delivering"
    /\ First(c, r)
    /\ Resolve(c, r)
    /\ acked' = acked \cup {ev[c]}
    /\ UNCHANGED <<active, wal, marked, history, broken, crashes>>

\* The inbox or the actor takes the event; or the actor answers that it does
\* not, or the output validator holds the event for review.
Deliver(c, r) ==
    /\ pc[c] = "delivering"
    /\ First(c, r)
    /\ Resolve(c, r)
    /\ UNCHANGED <<active, busVars, history, broken, crashes>>

DeliverThrows(c, r) ==
    /\ pc[c] = "delivering"
    /\ First(c, r)
    /\ Fail(c, r)
    /\ UNCHANGED <<active, busVars, history, broken, crashes>>

------------------------------------------------------------------------------
(* The end of processEvent()                                               *)

\* Fault: processEvent() returns from where it records the event.
RecordReturns(c) ==
    /\ pc[c] = "routing"
    /\ todo[c] = {}
    /\ history' = history \cup {<<ev[c], mod[c]>>}
    /\ Return(c)
    /\ UNCHANGED <<active, busVars, fateVars>>

Record(c) ==
    /\ Goto(c, "routing", "acking")
    /\ todo[c] = {}
    /\ history' = history \cup {<<ev[c], mod[c]>>}
    /\ UNCHANGED <<active, busVars, ev, mod, todo, rest, fateVars>>

\* inject() goes on with the next module, if it has more to visit.
Ack(c) ==
    /\ pc[c] = "acking"
    /\ acked' = acked \cup {ev[c]}
    /\ marked' = IF Durable THEN marked \cup {ev[c]} ELSE marked
    /\ IF rest[c] = {}
       THEN Return(c)
       ELSE Goto(c, "acking", "choosing") /\ UNCHANGED <<ev, mod, todo, rest>>
    /\ UNCHANGED <<active, wal, history, fateVars>>

\* FileEventStore remembers the acknowledgement before it writes it.
AckFails(c) ==
    /\ Durable
    /\ pc[c] = "acking"
    /\ acked' = acked \cup {ev[c]}
    /\ Abort(c)
    /\ UNCHANGED <<active, wal, marked, history, ended, broken, crashes>>

------------------------------------------------------------------------------
(* Modules and the process                                                 *)

\* unloadModule() and stop() do not wait for the calls under way.
Deactivate(m) ==
    /\ m \in active
    /\ active' = active \ {m}
    /\ UNCHANGED <<busVars, callVars, history, fateVars>>

\* After a crash the modules are loaded again, and nothing reads unacked().
Crash ==
    /\ crashes < MaxCrash
    /\ crashes' = crashes + 1
    /\ active' = Module
    /\ wal' = IF Durable THEN wal ELSE {}
    /\ acked' = {}
    /\ pc' = [c \in Call |-> "idle"]
    /\ ev' = [c \in Call |-> NoEvent]
    /\ mod' = [c \in Call |-> NoModule]
    /\ todo' = [c \in Call |-> {}]
    /\ rest' = [c \in Call |-> {}]
    /\ history' = {}
    /\ UNCHANGED <<marked, ended, broken>>

------------------------------------------------------------------------------
RouteStep(c, r) == \/ TransformPasses(c, r)
                   \/ Misconfigured(c, r)
                   \/ TransformDrops(c, r)
                   \/ TransformThrows(c, r)
                   \/ Deliver(c, r)
                   \/ DeliverThrows(c, r)

CallStep(c) == \/ \E m \in Module : Visit(c, m)
               \/ InjectReturns(c)
               \/ BreakLoop(c)
               \/ Publish(c)
               \/ PublishFails(c)
               \/ \E r \in Route : RouteStep(c, r)
               \/ Record(c)
               \/ Ack(c)
               \/ AckFails(c)

Next == \/ \E c \in Call, e \in Event : InjectAll(c, e) \/ \E m \in Module : Inject(c, e, m)
        \/ \E c \in Call : CallStep(c)
        \/ \E m \in Module : Deactivate(m)
        \/ Crash

Spec == Init /\ [][Next]_vars

\* Every await of a call settles: a script transform has a timeout, package
\* transforms and connectors are assumed to answer.
FairSpec == Spec /\ \A c \in Call : WF_vars(CallStep(c))

------------------------------------------------------------------------------
(* Correctness                                                             *)

Engaged == {"entered", "choosing", "routing", "delivering", "acking"}

\* Every variable has its type; the routes that a call has still to take
\* match its event, and only a call that has published has any.
TypeOK ==
    /\ active \subseteq Module
    /\ wal \subseteq Event
    /\ acked \subseteq Event
    /\ marked \subseteq Event
    /\ pc \in [Call -> Engaged \cup {"idle"}]
    /\ ev \in [Call -> Event]
    /\ mod \in [Call -> Module]
    /\ todo \in [Call -> SUBSET Route]
    /\ rest \in [Call -> SUBSET Module]
    /\ history \subseteq Event \X Module
    /\ ended \subseteq Event \X Module \X Route
    /\ broken \subseteq Event
    /\ crashes \in 0 .. MaxCrash
    /\ \A c \in Call :
          /\ todo[c] \subseteq Matched(ev[c], mod[c])
          /\ todo[c] # {} => pc[c] \in {"routing", "delivering"}
          /\ pc[c] = "delivering" => todo[c] # {}

\* Something became of the event on every route of the module it matches.
Resolved(e, m) == \A r \in Matched(e, m) : <<e, m, r>> \in ended

\* The bus is told that an event is done only when it is: every route of some
\* module that it matches has been taken to its end, or its trace was a loop.
\* With the WAL this must hold of what a crash leaves behind, too.
AckedIsResolved ==
    \A e \in acked \cup marked :
        e \in broken \/ \E m \in Module : Resolved(e, m)

\* While processEvent() is between its publish() and its ack(), unacked() of
\* the bus knows the event: a crash there finds it in the WAL.
UnfinishedStaysInWal ==
    \A c \in Call : pc[c] \in {"routing", "delivering"} =>
        ev[c] \in Unacked \cup broken \/ Resolved(ev[c], mod[c])

\* An event that got into the history of its module has come to an end on
\* every route of it: a failure on one route takes nothing from the others.
EveryRouteAnswered == \A t \in history : Resolved(t[1], t[2])

\* An event on the bus is acknowledged at last, whatever its transforms and
\* its actors do, if the process lives.
EventsSettle ==
    \A e \in Event : e \in Unacked ~> e \notin Unacked \/ crashes > 0
==============================================================================
