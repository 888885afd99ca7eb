-------------------------------- MODULE MCEdges --------------------------------
(***************************************************************************)
(* Small instances, for TLC, of the command line, the connectors and the   *)
(* webhook path.  They share no state: a behaviour explores one of them,   *)
(* `part`, while the others stay in one initial state.                     *)
(***************************************************************************)
EXTENDS Daemon, Webhooks, AgentSessions, GithubWebhook, GithubSource,
        LinearSource, GogSource, CronSource, Actors, TLC

CONSTANT Explored       \* the parts to consider
VARIABLE part

AllParts == {"daemon", "webhooks", "agents", "githubWebhook", "github", "linear",
             "gog", "cron", "actors"}
ASSUME EdgesAssumption == Explored \subseteq AllParts

edgesVars == <<part, daemonVars, webhookVars, agentVars, hookVars, githubVars,
               linearVars, gogVars, cronVars, actorVars>>

-----------------------------------------------------------------------------
MCConnectors == Hooked \cup {"webhook", "linear-webhook"}
MCFilters == {{}, {<<"issue_comment">>, <<"pull_request", "merged">>}}
MCFeeds == <<"pulls", "runs">>

\* Minute fields "1", "*/2" and "1-4/2,5" of an hour of six minutes.
MCCronFields ==
  { {[from |-> 1, to |-> 1, step |-> 1]},
    {[from |-> 0, to |-> 5, step |-> 2]},
    {[from |-> 1, to |-> 4, step |-> 2], [from |-> 5, to |-> 5, step |-> 1]} }

\* Up to renaming, three commands in two directories: all in one, or one
\* elsewhere.
MCDirs ==
  LET home == CHOOSE d \in Dir : TRUE
      other == CHOOSE d \in Dir : d # home
      last == CHOOSE c \in Command : TRUE
  IN {[c \in Command |-> home], [c \in Command |-> IF c = last THEN other ELSE home]}

-----------------------------------------------------------------------------
EdgesInit ==
  /\ part \in Explored
  /\ dir \in IF part = "daemon" THEN MCDirs
             ELSE {[c \in Command |-> CHOOSE d \in Dir : TRUE]}
  /\ DaemonInit
  /\ IF part = "webhooks" THEN TRUE ELSE connector = "webhook" /\ buffered = FALSE
  /\ WebhookInit
  /\ AgentInit
  /\ IF part = "githubWebhook" THEN TRUE ELSE filter = {} /\ onDisk = FALSE
  /\ GithubWebhookInit
  /\ GithubSourceInit
  /\ LinearInit
  /\ IF part = "gog" THEN TRUE ELSE query = (TRUE \in Queries) /\ checkpoint = 0
  /\ GogInit
  /\ IF part = "cron" THEN TRUE ELSE field = CHOOSE f \in CronFields : TRUE
  /\ CronInit
  /\ IF part = "actors" THEN TRUE
     ELSE job = [d \in Delivery |-> [actor |-> "webhook"]]
  /\ ActorsInit

\* Whatever is not explored stays as it is.
Alone(p) ==
  /\ part = p /\ UNCHANGED part
  /\ p # "daemon" => UNCHANGED daemonVars
  /\ p # "webhooks" => UNCHANGED webhookVars
  /\ p # "agents" => UNCHANGED agentVars
  /\ p # "githubWebhook" => UNCHANGED hookVars
  /\ p # "github" => UNCHANGED githubVars
  /\ p # "linear" => UNCHANGED linearVars
  /\ p # "gog" => UNCHANGED gogVars
  /\ p # "cron" => UNCHANGED cronVars
  /\ p # "actors" => UNCHANGED actorVars

DaemonStep == Alone("daemon") /\ DaemonNext
WebhookStep == Alone("webhooks") /\ WebhookNext
AgentStep == Alone("agents") /\ AgentNext
GithubWebhookStep == Alone("githubWebhook") /\ GithubWebhookNext
GithubStep == Alone("github") /\ GithubSourceNext
LinearStep == Alone("linear") /\ LinearNext
GogStep == Alone("gog") /\ GogNext
CronStep == Alone("cron") /\ CronNext
ActorStep == Alone("actors") /\ ActorsNext

EdgesNext ==
  \/ DaemonStep \/ WebhookStep \/ AgentStep \/ GithubWebhookStep \/ GithubStep
  \/ LinearStep \/ GogStep \/ CronStep \/ ActorStep

EdgesSpec == EdgesInit /\ [][EdgesNext]_edgesVars

(***************************************************************************)
(* Every component keeps to its types and bounds: without a buffer file    *)
(* nothing is in it, a poll's events are mails that have arrived, a        *)
(* session is reported as long as it is tracked, and so on.                *)
(***************************************************************************)
EdgesTypeOK ==
  /\ DaemonTypeOK /\ WebhookTypeOK /\ AgentTypeOK /\ GithubWebhookTypeOK
  /\ GithubSourceTypeOK /\ LinearTypeOK /\ GogTypeOK /\ CronTypeOK /\ ActorsTypeOK
================================================================================
