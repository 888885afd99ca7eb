---------------------------- MODULE AgentSessions ----------------------------
(***************************************************************************)
(* Coding sessions as the agent-ctl source sees them                       *)
(* (connectors/agent-ctl/src/source.ts): each poll lists the sessions,     *)
(* compares the list with the one before, and reports the difference as    *)
(* life-cycle events (packages/sdk/src/lifecycle.ts).                      *)
(***************************************************************************)
EXTENDS Naturals, FiniteSets

CONSTANTS Agent,      \* sessions
          Poll,       \* polls that may overlap
          MaxPolls    \* bound on the polls begun
ASSUME AgentAssumption == MaxPolls \in Nat

VARIABLES
  real,        \* the state of a session: "absent" if it is not listed
  listed,      \* what the agent-ctl of a poll printed, NotListed outside polls
  polls,       \* polls begun, up to MaxPolls
  previous,    \* previousState
  phase,       \* observer: the phase last reported of a session
  forgotten    \* observer: sessions in previousState when it was last cleared

agentVars == <<real, listed, polls, previous, phase, forgotten>>

Alive == {"running", "idle"}
Over == {"stopped", "error"}
Listing == [Agent -> Alive \cup Over \cup {"absent"}]
NotListed == [s \in {} |-> "absent"]
Nobody == [s \in Agent |-> "absent"]

TerminalPhases == {"completed", "failed", "stopped"}
Phases == TerminalPhases \cup {"started", "active"}
NoReport == "none"

AgentTypeOK ==
  /\ real \in Listing
  /\ \A q \in Poll : listed[q] \in Listing \cup {NotListed}
  /\ polls \in 0..MaxPolls
  /\ previous \in Listing
  /\ phase \in [Agent -> Phases \cup {NoReport}]
  /\ forgotten \subseteq Agent
  \* A session is reported as long as it is tracked.
  /\ \A s \in Agent : previous[s] # "absent" => phase[s] # NoReport

AgentInit ==
  /\ real = Nobody
  /\ listed = [q \in Poll |-> NotListed]
  /\ polls = 0
  /\ previous = Nobody
  /\ phase = [s \in Agent |-> NoReport]
  /\ forgotten = {}

-----------------------------------------------------------------------------
\* A session starts, pauses, ends, is resumed, or leaves the list.
SessionMoves(s) ==
  /\ \E state \in Alive \cup Over \cup {"absent"} :
       /\ state # real[s]
       /\ real[s] = "absent" => state \in Alive
       /\ real' = [real EXCEPT ![s] = state]
  /\ UNCHANGED <<listed, polls, previous, phase, forgotten>>

\* `agent-ctl list --json`
ListSessions(q) ==
  /\ listed[q] = NotListed
  /\ polls < MaxPolls
  /\ polls' = polls + 1
  /\ listed' = [listed EXCEPT ![q] = real]
  /\ UNCHANGED <<real, previous, phase, forgotten>>

\* It fails or takes too long: listSessions() answers that there are none.
ListFails(q) ==
  /\ listed[q] # NotListed
  /\ listed[q] # Nobody
  /\ listed' = [listed EXCEPT ![q] = Nobody]
  /\ UNCHANGED <<real, polls, previous, phase, forgotten>>

\* Fault: a session that is no longer listed is passed over.
TransitionPassesOver(old, new) ==
  CASE new = old -> NoReport
    [] old = "absent" /\ new \in Alive -> "started"
    [] new = "stopped" -> "stopped"
    [] new = "error" -> "failed"
    [] old = "running" /\ new = "idle" -> "active"
    [] old # "absent" /\ new = "running" -> "active"
    [] OTHER -> NoReport

\* diffState() with resolveLifecycle(): the phase to report
Transition(old, new) ==
  CASE new = old -> NoReport
    [] new = "absent" -> IF old = "stopped" THEN NoReport ELSE "stopped"
    [] old = "absent" /\ new \in Alive -> "started"
    [] new = "stopped" -> "stopped"
    [] new = "error" -> "failed"
    [] old = "running" /\ new = "idle" -> "active"
    [] old # "absent" /\ new = "running" -> "active"
    [] OTHER -> NoReport

Reported(q) == {s \in Agent : Transition(previous[s], listed[q][s]) # NoReport}

Diff(q) ==
  /\ listed[q] # NotListed
  /\ phase' = [s \in Agent |-> IF s \in Reported(q)
                               THEN Transition(previous[s], listed[q][s]) ELSE phase[s]]
  /\ forgotten' = forgotten \ Reported(q)
  /\ previous' = listed[q]
  /\ listed' = [listed EXCEPT ![q] = NotListed]
  /\ UNCHANGED <<real, polls>>

\* shutdown(), of a module that is reloaded
Forget ==
  /\ previous # Nobody
  /\ previous' = Nobody
  /\ forgotten' = forgotten \cup {s \in Agent : previous[s] # "absent"}
  /\ UNCHANGED <<real, listed, polls, phase>>

AgentNext ==
  \/ \E s \in Agent : SessionMoves(s)
  \/ \E q \in Poll : ListSessions(q) \/ ListFails(q) \/ Diff(q)
  \/ Forget

AgentSpec == AgentInit /\ [][AgentNext]_agentVars

-----------------------------------------------------------------------------
(* Properties.                                                             *)

(***************************************************************************)
(* Nobody waits for a session the connector has lost sight of: one last    *)
(* reported alive is alive in previousState, however polls overlap and     *)
(* whatever agent-ctl answers, unless a reload has cleared that state.     *)
(***************************************************************************)
NoGhostSession ==
  \A s \in Agent : phase[s] \in {"started", "active"}
                   => previous[s] \in Alive \/ s \in forgotten
=============================================================================
