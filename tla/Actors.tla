-------------------------------- MODULE Actors --------------------------------
(***************************************************************************)
(* The actor connectors, connectors/{openclaw,webhook,docker}/src/target.ts*)
(* What they answer to deliver() is what EventPipeline and Inbox act on.   *)
(***************************************************************************)
EXTENDS Naturals, FiniteSets

CONSTANT Delivery      \* deliveries under way at a time

VARIABLES
  job,       \* what a delivery is about
  deed,      \* "new", "callback", "normal", "waiting" (for the delay), "over"
  answer,    \* its DeliveryResult, NoAnswer before
  effects,   \* observer: the sessions or commands it has set off
  unheard    \* observer: has an answer to a request that had an effect been lost?

actorVars == <<job, deed, answer, effects, unheard>>

\* callback: the agent that the event's session wants to be called back through;
\* unnamed: no agent, or no container, is given.
OpenClawJobs == [actor : {"openclaw"}, agent : {"mine", "unnamed"},
                 callback : {"none", "mine", "other", "unnamed"}]
WebhookJobs == [actor : {"webhook"}]
DockerJobs == [actor : {"docker"}, valid : BOOLEAN, delay : 0..1, unnamed : BOOLEAN]
Jobs == OpenClawJobs \cup WebhookJobs \cup DockerJobs

NoAnswer == "none"
Statuses == {"delivered", "skipped", "rejected", "error"}

ActorsTypeOK ==
  /\ \A d \in Delivery : job[d] \in Jobs
  /\ deed \in [Delivery -> {"new", "callback", "normal", "waiting", "over"}]
  /\ answer \in [Delivery -> Statuses \cup {NoAnswer}]
  /\ effects \in [Delivery -> 0..2]
  /\ unheard \in [Delivery -> BOOLEAN]

ActorsInit ==
  /\ job \in [Delivery -> Jobs]
  /\ deed = [d \in Delivery |-> "new"]
  /\ answer = [d \in Delivery |-> NoAnswer]
  /\ effects = [d \in Delivery |-> 0]
  /\ unheard = [d \in Delivery |-> FALSE]

\* What comes of a request: [did, status].  2xx, or an answer lost after the
\* request was accepted; 429, 5xx, or a request lost; 4xx.
Outcomes == {[did |-> 1, status |-> "delivered"], [did |-> 1, status |-> "error"],
             [did |-> 0, status |-> "error"], [did |-> 0, status |-> "rejected"]}
\* A command that fails or takes too long
Executions == {o \in Outcomes : o.status # "rejected"}

Goes(d, where) == deed' = [deed EXCEPT ![d] = where]
Answers(d, status) == Goes(d, "over") /\ answer' = [answer EXCEPT ![d] = status]
Does(d, o) ==
  /\ effects' = [effects EXCEPT ![d] = @ + o.did]
  /\ unheard' = [unheard EXCEPT ![d] = @ \/ (o.did = 1 /\ o.status # "delivered")]

-----------------------------------------------------------------------------
(* OpenClaw.                                                               *)

\* The event is another agent's, if both are known.
Skips(d) ==
  /\ job[d].actor = "openclaw" /\ deed[d] = "new"
  /\ job[d].callback = "other" /\ job[d].agent = "mine"
  /\ Answers(d, "skipped")
  /\ UNCHANGED <<job, effects, unheard>>

\* A callback session comes first.
ChoosesSession(d) ==
  /\ job[d].actor = "openclaw" /\ deed[d] = "new"
  /\ ~(job[d].callback = "other" /\ job[d].agent = "mine")
  /\ Goes(d, IF job[d].callback = "none" THEN "normal" ELSE "callback")
  /\ UNCHANGED <<job, answer, effects, unheard>>

\* Fault: the session of the route is told as well.
FallsBackAlways(d, o) == Goes(d, "normal") /\ UNCHANGED answer
\* Whatever is not delivered to it goes to the session of the route.
FallsBack(d, o) == IF o.status = "delivered" THEN Answers(d, "delivered")
                   ELSE Goes(d, "normal") /\ UNCHANGED answer

PostsToCallback(d) ==
  /\ deed[d] = "callback"
  /\ \E o \in Outcomes : Does(d, o) /\ FallsBack(d, o)
  /\ UNCHANGED job

PostsToSession(d) ==
  /\ deed[d] = "normal"
  /\ \E o \in Outcomes : Does(d, o) /\ Answers(d, o.status)
  /\ UNCHANGED job

-----------------------------------------------------------------------------
(* The generic webhook.                                                    *)

PostsToUrl(d) ==
  /\ job[d].actor = "webhook" /\ deed[d] = "new"
  /\ \E o \in Outcomes : Does(d, o) /\ Answers(d, o.status)
  /\ UNCHANGED job

-----------------------------------------------------------------------------
(* Docker and Kind.                                                        *)

RejectsAction(d) ==
  /\ job[d].actor = "docker" /\ deed[d] = "new"
  /\ ~job[d].valid
  /\ Answers(d, "rejected")
  /\ UNCHANGED <<job, effects, unheard>>

Delays(d) ==
  /\ job[d].actor = "docker" /\ deed[d] = "new"
  /\ job[d].valid /\ job[d].delay > 0
  /\ Goes(d, "waiting")
  /\ UNCHANGED <<job, answer, effects, unheard>>

\* The delay of another delivery does not hold this one up.
Executes(d) ==
  /\ job[d].actor = "docker"
  /\ job[d].valid
  /\ deed[d] = IF job[d].delay > 0 THEN "waiting" ELSE "new"
  /\ IF job[d].unnamed THEN Answers(d, "rejected") /\ UNCHANGED <<effects, unheard>>
     ELSE \E o \in Executions : Does(d, o) /\ Answers(d, o.status)
  /\ UNCHANGED job

ActorsNext ==
  \E d \in Delivery :
    \/ Skips(d) \/ ChoosesSession(d) \/ PostsToCallback(d) \/ PostsToSession(d)
    \/ PostsToUrl(d) \/ RejectsAction(d) \/ Delays(d) \/ Executes(d)

ActorsSpec == ActorsInit /\ [][ActorsNext]_actorVars

-----------------------------------------------------------------------------
(* Properties.                                                             *)

(***************************************************************************)
(* What an actor answers is what it did.  "delivered" says that something  *)
(* was set off, and once, unless the answer to a first attempt was lost;   *)
(* "skipped" and "rejected", which nobody retries, say that nothing was,   *)
(* with the same exception (deliver, postToAgent).                         *)
(***************************************************************************)
AnswersAreTrue ==
  \A d \in Delivery :
    /\ answer[d] = "delivered" => effects[d] = IF unheard[d] THEN 2 ELSE 1
    /\ answer[d] \in {"skipped", "rejected"} => effects[d] = IF unheard[d] THEN 1 ELSE 0
=============================================================================
