----------------------------- MODULE AgentTeam -----------------------------
(***************************************************************************)
(* The agent team: four roles in a row, each with the artifact of the one  *)
(* before as input, and the state the release gate ends in.  Team 0.1 runs *)
(* on a serialized case (lane LEGACY), team 0.2 on the raw bytes of a      *)
(* source pack (lane SOURCE).  A hash is the value it is taken of; a run   *)
(* is [lane, of, status], of standing for the case it was made on.         *)
(***************************************************************************)
EXTENDS Sequences, Naturals

CheckStatuses == {"PASS", "CONTRADICTED", "UNVERIFIABLE"}
Ready == "READY_FOR_HUMAN_RELEASE_REVIEW"
Blocked == "BLOCKED_PENDING_RESOLUTION"

\* _team_state_for_status, which team 0.2 uses; team 0.1 is never ready.
TeamStateForStatus(status) == IF status = "PASS" THEN Ready ELSE Blocked
FinalState(run) == IF run.lane = "SOURCE" THEN TeamStateForStatus(run.status) ELSE Blocked

Roles == <<"QCI-MANAGER", "QCI-IMPACT", "QCI-EVIDENCE", "QCI-GATEKEEPER">>
States == <<"RECEIVED", "SCOPED", "PLANNED", "CHECKED">>

\* What the roles hand on: the case, the task, the impact plan, the run, the decision.
Handed(run) ==
  <<<<"CASE", run.lane, run.of>>, <<"TASK", run.lane, run.of>>, <<"IMPACT", run.lane, run.of>>,
    <<"RUN", run>>, <<"DECISION", run, FinalState(run)>>>>

\* run_agent_team and run_agent_team_with_source_bundle
Team(run) ==
  [state |-> FinalState(run),
   trace |-> [i \in 1..4 |-> [agent |-> Roles[i], from |-> States[i],
                              to |-> IF i = 4 THEN FinalState(run) ELSE States[i + 1],
                              input |-> Handed(run)[i], output |-> Handed(run)[i + 1]]]]

\* The trace is one chain of the four roles about the run.
TraceIsAccepted(trace, state, run) ==
  /\ DOMAIN trace = 1..4 /\ \A i \in 1..4 : trace[i].agent = Roles[i]
  /\ trace[1].from = "RECEIVED" /\ trace[4].to = state
  /\ trace[1].input = Handed(run)[1] /\ trace[4].output = Handed(run)[5]
  /\ \A i \in 1..3 : trace[i].to = trace[i + 1].from /\ trace[i].output = trace[i + 1].input

\* _validate_legacy_team_result and _validate_source_rooted_team_result: a result
\* that is not about its run cannot be constructed.
TeamIsAccepted(team, run) ==
  team.state = FinalState(run) /\ TraceIsAccepted(team.trace, team.state, run)
=============================================================================
