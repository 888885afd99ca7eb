---------------------------- MODULE RouteTransforms ----------------------------
(***************************************************************************)
(* What the routes of a module make of one event:                          *)
(*   packages/core/src/router.ts      which routes match                   *)
(*   packages/core/src/transform.ts   the transforms of a route, in turn   *)
(*   transforms/filter, enrich, agent-gate       the package transforms    *)
(*   packages/core/src/output-validator.ts       what holds a delivery     *)
(*                                                                         *)
(* An event is a JavaScript object with a payload, which enrich copies,    *)
(* and a provenance object, which it does not: two events may share one.   *)
(* So an event is its payload and the number of its provenance object in   *)
(* the heap.  One field of each stands for all.                            *)
(***************************************************************************)
EXTENDS Naturals, Sequences

CONSTANTS Datum,    \* values of a field
          Absent,   \* undefined or null
          Yes, No,  \* the Booleans that enrich computes, values too
          Telling,  \* values whose text is an instruction to an agent
          Setups,   \* modules: sequences of routes, see Routes
          Validators    \* options of the output validator

ASSUME TransformAssumption ==
  /\ {Yes, No} \cup Telling \subseteq Datum
  /\ Absent \notin Datum
  /\ Validators \subseteq [instructions : BOOLEAN, echo : BOOLEAN, scope : BOOLEAN,
                           limited : BOOLEAN, hold : BOOLEAN]

Contents == [payload : Datum \cup {Absent}, provenance : Datum \cup {Absent}]
Field == {"payload", "provenance"}

\* A module is a finite sequence of finite routes, and the values and the
\* paths of an enrichment are a value's and a field's.
Enriching(t) ==
  /\ \A f \in DOMAIN t.set : t.set[f] \in Datum \cup {Absent}
  /\ t.copy = <<>> \/ t.copy[2] \in Field
ASSUME SetupAssumption ==
  /\ Absent \notin Contents
  /\ \A s \in Setups :
       /\ Len(s) \in Nat
       /\ \A r \in 1..Len(s) :
            /\ Len(s[r].transforms) \in Nat
            /\ \A i \in 1..Len(s[r].transforms) :
                 s[r].transforms[i].kind = "enrich" => Enriching(s[r].transforms[i])

VARIABLES
  setup,      \* the routes of the module, a sequence
  validator,  \* the options of the runtime's output validator
  heap,       \* provenance objects, a sequence
  event,      \* the event in processEvent()
  emitted,    \* what it was when it came
  matched,    \* the routes it matched
  route,      \* the route under way; 0 before the first
  step,       \* the transform that is next there
  current,    \* the event as the transforms have left it
  given,      \* what the actor of a route was given, or Absent
  audit,      \* the audit record of a route, or Absent
  misled      \* routes with a failure that should have stopped the event

transformVars == <<setup, validator, heap, event, emitted, matched, route, step,
                   current, given, audit, misled>>

(***************************************************************************)
(* A route: its `when.filter`, a partial function from fields to values,   *)
(* and its transforms, records with a kind and two error policies: the     *)
(* route's, and the definition's.  Criteria of a filter are partial        *)
(* functions from fields to the sets of values that a pattern (a value,    *)
(* null, a list, a comma-separated list, a regular expression) matches.    *)
(***************************************************************************)
\* Its actor may be missing; it may deliver to an inbox.  The text of its
\* delivery is its config, the fields of the event that the config quotes, and
\* the file of its prompt; a text bears marks, the prompt is Absent if none is
\* configured.
\* A kind is "filter", "jq", "enrich", "gate", "script", "package" (any other
\* package), "unknown" (no such definition) or "unloaded" (no such package).

Of(e, nodes) == [payload |-> e.payload, provenance |-> nodes[e.node]]
Now(e) == Of(e, heap)
Routes == 1..Len(setup)
Transforms(r) == setup[r].transforms
Here == Transforms(route)[step]

Mark == {"instruction", "foreign", "shell"}
Flag == [type : {"instruction_content", "input_echo", "scope_violation"},
         severity : {"critical", "warning"}]
Status == {"delivered", "rejected", "error", "held"}

TransformTypeOK ==
  /\ setup \in Setups
  /\ heap \in Seq(Datum \cup {Absent})
  /\ event.node \in 1..Len(heap)
  /\ emitted \in Contents
  /\ matched \subseteq Routes
  /\ route \in 0..Len(setup) + 1
  /\ route \in Routes => step \in 1..Len(Transforms(route)) + 1
  /\ current.node \in 1..Len(heap)
  /\ Of(current, heap) \in Contents
  /\ DOMAIN given = Routes
  /\ \A r \in Routes : given[r] \in Contents \cup {Absent}
  /\ misled \subseteq Routes
  /\ validator \in Validators
  /\ DOMAIN audit = Routes
  /\ \A r \in Routes : audit[r] # Absent =>
       audit[r].status \in Status /\ audit[r].flags \subseteq Flag

-----------------------------------------------------------------------------
(* router.ts: strict equality, on the event as it came.                    *)

MatchesRoute(r, c) == \A f \in DOMAIN setup[r].when : c[f] = setup[r].when[f]

TransformInit ==
  /\ setup \in Setups
  /\ validator \in Validators
  /\ emitted \in Contents
  /\ heap = <<emitted.provenance>>
  /\ event = [payload |-> emitted.payload, node |-> 1]
  /\ matched = {r \in Routes : MatchesRoute(r, emitted)}
  /\ route = 0
  /\ step = 1
  /\ current = event
  /\ given = [r \in Routes |-> Absent]
  /\ audit = [r \in Routes |-> Absent]
  /\ misled = {}

\* The loop over the matched routes; each one starts from the same object.
NextRoute(r) ==
  /\ route' = r
  /\ step' = 1
  /\ current' = event

After(r) == {q \in matched : q > r}
GoOn ==
  IF After(route) = {}
  THEN route' = Len(setup) + 1 /\ UNCHANGED <<step, current>>
  ELSE \E q \in After(route) : (\A p \in After(route) : q <= p) /\ NextRoute(q)

Begin ==
  /\ route = 0
  /\ GoOn
  /\ UNCHANGED <<setup, validator, heap, event, emitted, matched, given, audit, misled>>

-----------------------------------------------------------------------------
(* One transform, step by step.                                            *)

Runs(kind) == route \in Routes /\ step <= Len(Transforms(route)) /\ Here.kind = kind

Same == <<setup, validator, event, emitted, matched, given, audit, misled>>

\* The transform hands on an event, or drops it.
HandsOn(e) ==
  /\ current' = e
  /\ step' = step + 1
  /\ UNCHANGED <<route, Same>>

Drops == GoOn /\ UNCHANGED <<heap, Same>>

HandsOnNew(c) ==
  /\ heap' = Append(heap, c.provenance)
  /\ HandsOn([payload |-> c.payload, node |-> Len(heap) + 1])

\* Fault: the definition's policy comes first.
DefinitionFirst(t) == IF t.ofDefinition # "none" THEN t.ofDefinition
                      ELSE IF t.ofRoute # "none" THEN t.ofRoute ELSE "pass"
Policy(t) == IF t.ofRoute # "none" THEN t.ofRoute
             ELSE IF t.ofDefinition # "none" THEN t.ofDefinition ELSE "pass"

\* What the configuration says, route before definition: an event that the
\* transform failed on is not to go on.
Closed(t) == \/ t.ofRoute \in {"drop", "halt"}
             \/ t.ofRoute = "none" /\ t.ofDefinition \in {"drop", "halt"}

\* applyErrorPolicy(): "pass" goes on with what there was; "drop" and "halt"
\* end the route.
Fails ==
  /\ IF Policy(Here) = "pass"
     THEN current' = current /\ step' = step + 1 /\ UNCHANGED route
     ELSE GoOn
  /\ misled' = IF Closed(Here) THEN misled \cup {route} ELSE misled
  /\ UNCHANGED <<setup, validator, event, emitted, matched, given, audit>>

\* No such definition, or its package was not loaded: an exception, whatever
\* the policy.
Missing ==
  /\ Runs("unknown") \/ Runs("unloaded")
  /\ Drops

\* Exit code 0 with an event, with "null" or with nothing; 1; another code, a
\* timeout, or text that is not JSON.
Script ==
  /\ Runs("script")
  /\ \/ \E c \in Contents : HandsOnNew(c)
     \/ HandsOn(current) /\ UNCHANGED heap
     \/ Drops
     \/ Fails /\ UNCHANGED heap

-----------------------------------------------------------------------------
(* The package transforms.                                                 *)

MatchesAll(c, criteria) == \A f \in DOMAIN criteria : c[f] \in criteria[f]
MatchesAny(c, criteria) == \E f \in DOMAIN criteria : c[f] \in criteria[f]

\* Fault: an event that the `exclude` criteria name is let through if it
\* meets the `match` criteria.
KeepsMatched(t, c) ==
  \/ t.exclude = Absent \/ ~MatchesAny(c, t.exclude)
  \/ t.match # Absent /\ MatchesAll(c, t.match)
\* executeMatchExclude()
Keeps(t, c) ==
  /\ t.exclude # Absent => ~MatchesAny(c, t.exclude)
  /\ t.match # Absent => MatchesAll(c, t.match)
  /\ t.any # Absent => MatchesAny(c, t.any)

Filter ==
  /\ Runs("filter")
  /\ IF Keeps(Here, Now(current))
     THEN HandsOn(current) /\ UNCHANGED heap
     ELSE Drops

\* executeJq(): an object with an id replaces the event, other output keeps
\* it, an error or a false result drops it.
Jq ==
  /\ Runs("jq")
  /\ \/ \E c \in Contents : HandsOnNew(c)
     \/ HandsOn(current) /\ UNCHANGED heap
     \/ Drops

\* The three passes of enrich, each on the result of the one before.
Put(c, f, v) == [c EXCEPT ![f] = v]
Constants(t, c) == [f \in Field |-> IF f \in DOMAIN t.set THEN t.set[f] ELSE c[f]]
Copied(t, c) ==
  IF t.copy = <<>> \/ c[t.copy[2]] = Absent THEN c ELSE Put(c, t.copy[1], c[t.copy[2]])
Computed(t, c) ==
  IF t.compute = <<>> THEN c
  ELSE Put(c, t.compute[1], IF c[t.compute[2]] = t.compute[3] THEN Yes ELSE No)
Enriched(t, c) == Computed(t, Copied(t, Constants(t, c)))

\* setByPath() writes into the object it finds: the payload is a copy, the
\* provenance is the one of the event that came.
Enrich ==
  /\ Runs("enrich")
  /\ LET c == Enriched(Here, Now(current)) IN
       /\ heap' = [heap EXCEPT ![current.node] = c.provenance]
       /\ HandsOn([current EXCEPT !.payload = c.payload])

\* Sessions are running, or none is, or the command cannot tell.
Gate ==
  /\ Runs("gate")
  /\ \/ Drops
     \/ HandsOn(current) /\ UNCHANGED heap

\* Any other package: an event of its own, null, or an exception.
Package ==
  /\ Runs("package")
  /\ \/ \E c \in Contents : HandsOnNew(c)
     \/ Drops
     \/ Fails /\ UNCHANGED heap

-----------------------------------------------------------------------------
(* deliverToActor() and the output validator.                              *)

RouteDone ==
  /\ route \in Routes
  /\ step > Len(Transforms(route))
  /\ GoOn
  /\ UNCHANGED <<setup, validator, heap, event, emitted, matched, misled>>

\* this.auditTrail.record()
Records(status, flags) ==
  audit' = [audit EXCEPT ![route] = [status |-> status, flags |-> flags]]

NoActor ==
  /\ RouteDone
  /\ ~setup[route].actor
  /\ UNCHANGED <<given, audit>>

\* An inbox takes the event, and nothing is validated.
ToInbox ==
  /\ RouteDone
  /\ setup[route].actor
  /\ setup[route].inbox
  /\ Records("delivered", {})
  /\ UNCHANGED given

\* The text of the delivery config: interpolateConfig(), and the prompt unless
\* its file cannot be read.
Quotes(r, c) == \E f \in setup[r].quotes : c[f] \in Telling
Interpolated(r, c) ==
  setup[r].config \cup (IF Quotes(r, c) THEN {"instruction"} ELSE {})
Texts(r, c) ==
  {Interpolated(r, c)} \cup
    (IF setup[r].prompt = Absent THEN {} ELSE {Interpolated(r, c) \cup setup[r].prompt})

\* The similarity of the text to the payload: below the threshold, above it,
\* or above nine tenths as well.
Likeness == {"other", "alike", "same"}

Instructions(text) ==
  IF validator.instructions /\ "instruction" \in text
  THEN {[type |-> "instruction_content", severity |-> "critical"]} ELSE {}
Echo(likeness) ==
  IF validator.echo /\ likeness # "other"
  THEN {[type |-> "input_echo",
         severity |-> IF likeness = "same" THEN "critical" ELSE "warning"]} ELSE {}
Violations(text) ==
  IF validator.scope /\ ("shell" \in text \/ (validator.limited /\ "foreign" \in text))
  THEN {[type |-> "scope_violation", severity |-> "warning"]} ELSE {}
Flags(text, likeness) == Instructions(text) \cup Echo(likeness) \cup Violations(text)

HoldForReview(flags) ==
  validator.hold /\ \E f \in flags : f.severity = "critical"

\* The actor delivers, rejects or fails, or the delivery is held.  An inbox
\* that fails leaves the delivery to the actor.
DeliverRoute ==
  /\ RouteDone
  /\ setup[route].actor
  /\ \E text \in Texts(route, Now(current)), likeness \in Likeness :
       LET flags == Flags(text, likeness) IN
         IF HoldForReview(flags)
         THEN Records("held", flags) /\ UNCHANGED given
         ELSE /\ given' = [given EXCEPT ![route] = Now(current)]
              /\ \E status \in Status \ {"held"} : Records(status, flags)

TransformNext ==
  \/ Begin \/ Missing \/ Script \/ Filter \/ Jq \/ Enrich \/ Gate \/ Package
  \/ NoActor \/ ToInbox \/ DeliverRoute

TransformSpec == TransformInit /\ [][TransformNext]_transformVars

-----------------------------------------------------------------------------
(* Properties.                                                             *)

(***************************************************************************)
(* A route that drops or halts on errors delivers nothing that one of its  *)
(* transforms failed on, and what a route delivers has passed the filters  *)
(* that end it: exclude over match, match over match_any, whatever other   *)
(* routes and the transforms before them did to the shared objects.  Where *)
(* the validator holds what is critical, no actor is given an instruction  *)
(* that came with the event; the audit record says "held" exactly where    *)
(* the actor was given nothing, but for an inbox.                          *)
(***************************************************************************)
Vouched(r) ==
  LET last == Transforms(r)[Len(Transforms(r))] IN
    Len(Transforms(r)) > 0 /\ last.kind = "filter" =>
      /\ \A f \in Field : last.exclude # Absent /\ f \in DOMAIN last.exclude =>
           given[r][f] \notin last.exclude[f]
      /\ last.match # Absent =>
           \A f \in DOMAIN last.match : given[r][f] \in last.match[f]

\* Nothing is handed over unseen.
Inspected(r) ==
  /\ validator.hold /\ validator.instructions => ~Quotes(r, given[r])
  /\ validator.instructions /\ Quotes(r, given[r]) => audit[r].flags # {}
  /\ audit[r].status # "held"

DeliveredIsVetted ==
  \A r \in Routes :
    /\ given[r] # Absent => r \notin misled /\ Vouched(r) /\ Inspected(r)
    /\ given[r] = Absent /\ audit[r] # Absent /\ ~setup[r].inbox =>
         audit[r].status = "held"

(***************************************************************************)
(* "Shallow clone to avoid mutating the input" (enrich.ts:138): the event  *)
(* that the next route, the next module and the bus see is the one that    *)
(* came.                                                                   *)
(***************************************************************************)
InputUntouched == Now(event) = emitted
=============================================================================
