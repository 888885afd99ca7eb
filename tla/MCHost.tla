-------------------------------- MODULE MCHost --------------------------------
(***************************************************************************)
(* Small instances, for TLC, of the components that share no state with    *)
(* one another: a behaviour explores one of them, `part`, while the others *)
(* stay in one initial state.                                              *)
(***************************************************************************)
EXTENDS Supervisor, PreFlight, LoopDetector, HistoryRing, SyslogSocket, LogFile,
        RouteTransforms, TLC

CONSTANT Explored       \* the parts to consider
CONSTANTS v1, yes, no, absent    \* model values
VARIABLE part

AllParts == {"supervisor", "preflight", "loops", "history", "syslog", "logfile",
             "transforms"}
ASSUME HostAssumption == Explored \subseteq AllParts

hostVars == <<part, supVars, preFlightVars, loopVars, ringVars, syslogVars,
              logVars, transformVars>>

-----------------------------------------------------------------------------
(* Three modules for RouteTransforms.                                      *)

AnyEvent == <<>>
T(kind) == [kind |-> kind, ofRoute |-> "none", ofDefinition |-> "none"]
WithPolicy(t, r, d) == [t EXCEPT !.ofRoute = r, !.ofDefinition = d]
FilterOn(exclude, match, any) ==
  T("filter") @@ [exclude |-> exclude, match |-> match, any |-> any]
EnrichWith(set, copy, compute) ==
  T("enrich") @@ [set |-> set, copy |-> copy, compute |-> compute]
RouteOf(when, transforms) ==
  [when |-> when, transforms |-> transforms, actor |-> TRUE, inbox |-> FALSE,
   config |-> {}, quotes |-> {}, prompt |-> absent]

\* An enrichment before another route looks at what it has changed.
Sharing ==
  << RouteOf(AnyEvent, <<EnrichWith("provenance" :> v1, <<"payload", "provenance">>,
                                    <<"provenance", "payload", v1>>)>>),
     RouteOf("payload" :> v1, <<T("gate"), FilterOn("provenance" :> {v1, absent}, absent, absent)>>) >>

\* Failing transforms under every policy, before filters of every kind.
Policies ==
  << RouteOf(AnyEvent, <<WithPolicy(T("script"), "halt", "pass"),
                         FilterOn("payload" :> {yes}, "provenance" :> {v1}, "payload" :> {v1, absent})>>),
     RouteOf(AnyEvent, <<WithPolicy(T("package"), "none", "drop"), T("jq"),
                         FilterOn(absent, "payload" :> {v1}, absent)>>) >>

\* What is not there.
Gaps == << RouteOf(AnyEvent, <<T("script"), T("unknown")>>),
           RouteOf(AnyEvent, <<T("unloaded")>>), RouteOf(AnyEvent, <<>>) >>

\* Deliveries that the output validator objects to, an inbox and no actor.
Speaking ==
  << [RouteOf("provenance" :> v1, <<T("jq")>>) EXCEPT !.quotes = {"payload"},
                                   !.prompt = {"shell"}],
     [RouteOf(AnyEvent, <<>>) EXCEPT !.config = {"foreign"}, !.inbox = TRUE,
                                   !.prompt = {"instruction"}],
     [RouteOf(AnyEvent, <<>>) EXCEPT !.actor = FALSE] >>

MCSetups == {Sharing, Policies, Gaps, Speaking}

Holding == [instructions |-> TRUE, echo |-> TRUE, scope |-> TRUE, limited |-> TRUE,
            hold |-> TRUE]
MCValidators == {Holding, [Holding EXCEPT !.limited = FALSE, !.hold = FALSE],
                 [Holding EXCEPT !.instructions = FALSE, !.echo = FALSE, !.scope = FALSE]}
MCTelling == {v1}

-----------------------------------------------------------------------------
HostInit ==
  /\ part \in Explored
  /\ IF part = "supervisor" THEN TRUE ELSE hosted = FALSE
  /\ SupervisorInit
  /\ IF part = "preflight" THEN TRUE ELSE project = Sound
  /\ PreFlightInit
  /\ LoopInit
  /\ RingInit
  /\ IF part = "syslog" THEN TRUE
     ELSE life = [c \in Conn |-> IF c = CHOOSE d \in Conn : TRUE THEN "opening" ELSE "unused"]
  /\ SyslogInit
  /\ IF part = "logfile" THEN TRUE
     ELSE nameOf = [f \in Flush |-> [stamp |-> CHOOSE t \in Stamp : TRUE, gz |-> FALSE]]
  /\ LogInit
  /\ IF part = "transforms" THEN TRUE
     ELSE setup = Gaps /\ emitted = [payload |-> v1, provenance |-> v1]
          /\ validator = Holding
  /\ TransformInit

\* Whatever is not explored stays as it is.
Alone(p) ==
  /\ part = p /\ UNCHANGED part
  /\ p # "supervisor" => UNCHANGED supVars
  /\ p # "preflight" => UNCHANGED preFlightVars
  /\ p # "loops" => UNCHANGED loopVars
  /\ p # "history" => UNCHANGED ringVars
  /\ p # "syslog" => UNCHANGED syslogVars
  /\ p # "logfile" => UNCHANGED logVars
  /\ p # "transforms" => UNCHANGED transformVars

SupervisorStep == Alone("supervisor") /\ SupervisorNext
PreFlightStep == Alone("preflight") /\ PreFlightNext
LoopStep == Alone("loops") /\ LoopNext
RingStep == Alone("history") /\ RingNext
SyslogStep == Alone("syslog") /\ SyslogNext
LogStep == Alone("logfile") /\ LogNext
TransformStep == Alone("transforms") /\ TransformNext

HostNext ==
  \/ SupervisorStep \/ PreFlightStep \/ LoopStep \/ RingStep \/ SyslogStep
  \/ LogStep \/ TransformStep

\* Where the supervisor is not explored none of its actions is enabled.
HostSpec == HostInit /\ [][HostNext]_hostVars /\ SupervisorFairness

(***************************************************************************)
(* Every component keeps to its types and bounds: in the ring buffers the  *)
(* indices stay inside the array, in the supervisor the back-off stays at  *)
(* or below its maximum, and so on.                                        *)
(***************************************************************************)
HostTypeOK ==
  /\ SupervisorTypeOK /\ PreFlightTypeOK /\ LoopTypeOK /\ RingTypeOK
  /\ SyslogTypeOK /\ LogTypeOK /\ TransformTypeOK
===============================================================================
