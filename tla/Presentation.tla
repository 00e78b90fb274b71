----------------------------- MODULE Presentation -----------------------------
(***************************************************************************)
(* What the command line shows of a governed run: the label, the agent's   *)
(* activity (cli/agent_activity.py) and the assurance claims               *)
(* (cli/assurance_presentation.py), as the Front Door bridge projects them *)
(* from the result of GovernedRun.  Operators only: the projections have   *)
(* no state.  Reasons and layout are left out.                             *)
(***************************************************************************)
EXTENDS GovernedRun

(* ---- agent activity ------------------------------------------------------ *)

\* Every _block call after the adapter answered passes the exit code and the
\* digest of the output on; the calls before it leave them None.
AgentAnswered == result.stage = "AGENT_PROCESS" \/ "agent" \in history.ran

\* failure_class, passed on by the calls that pass process_started on
AgentClass ==
    IF result.stage = "AGENT_PROCESS"
    THEN IF "agent" \in result.attempted THEN "PROCESS_FAILURE" ELSE "PROCESS_LAUNCH_ERROR"
    ELSE IF "agent" \in result.attempted THEN "PROCESS_SUCCESS" ELSE None

\* source_from_result: the signals of one result
Signals == [started |-> "agent" \in result.attempted, class |-> AgentClass,
            answered |-> AgentAnswered, stage |-> result.stage]

\* Mutant: an unstarted process is believed whatever else the result carries.
ActivityByFlag(s) ==
    IF s.started
    THEN IF s.class = "PROCESS_SUCCESS" /\ s.stage # "AGENT_PROCESS" THEN "COMPLETED"
         ELSE "FAILED"
    ELSE IF s.class = "PROCESS_LAUNCH_ERROR" THEN "FAILED" ELSE "NOT_RUN"

\* activity_for_agent_source: an unstarted process with evidence of a started
\* one is a contradiction and stays UNKNOWN.
Activity(s) ==
    IF s.started
    THEN IF s.class = "PROCESS_SUCCESS" /\ s.stage # "AGENT_PROCESS" THEN "COMPLETED"
         ELSE "FAILED"
    ELSE IF s.class = "PROCESS_LAUNCH_ERROR" THEN "FAILED"
    ELSE IF s.class # None \/ s.answered THEN "UNKNOWN"
    ELSE "NOT_RUN"

(* ---- assurance ----------------------------------------------------------- *)

\* Mutants: a missing receipt is read as no write; the write count is not read.
MutationOrZero(apply, attempted) ==
    IF "applicator" \notin attempted THEN "NOT_ATTEMPTED"
    ELSE IF apply # None /\ apply.writes > 0 THEN "OBSERVED"
    ELSE "ATTEMPTED_NO_WRITE"
MutationByReceipt(apply, attempted) ==
    IF "applicator" \notin attempted THEN "NOT_ATTEMPTED"
    ELSE IF apply = None THEN "UNAVAILABLE"
    ELSE "OBSERVED"

\* mutation_state and changed_files_state, which go together
Mutation_(apply, attempted) ==
    IF "applicator" \notin attempted THEN "NOT_ATTEMPTED"
    ELSE IF apply = None THEN "UNAVAILABLE"
    ELSE IF apply.writes > 0 THEN "OBSERVED"
    ELSE "ATTEMPTED_NO_WRITE"
MutationState == Mutation_(result.receipts.apply, result.attempted)

\* changed_files: the applied paths of a receipt with a write
ChangedFiles == IF MutationState = "OBSERVED" THEN {result.receipts.apply.file} ELSE {}

\* scope_state: only the whole chain of ALLOW is an authorized scope
Decided(receipt) == IF receipt = None THEN None ELSE receipt.decision
ScopeState ==
    LET decisions == <<Decided(result.receipts.admission), Decided(result.receipts.pathGate)>> IN
    IF decisions = <<"ALLOW", "ALLOW">> THEN "AUTHORIZED"
    ELSE IF "DENY" \in {decisions[1], decisions[2]} THEN "DENIED"
    ELSE IF decisions = <<None, None>> THEN "NOT_EVALUATED"
    ELSE IF decisions = <<"ALLOW", None>> THEN "PARTIAL"
    ELSE "UNKNOWN"

\* The command a result reports: _block puts a sentinel under blocked-0.
Sentinel == "blocked-0"

\* No program is called by the sentinel: it would not be shown if it were run.
ASSUME SentinelAssumption ==
    /\ Sentinel \notin Commands
    /\ None \notin {"PROCESS_FAILURE", "PROCESS_LAUNCH_ERROR", "PROCESS_SUCCESS"}

ReportedCommand == IF result.decision = "BLOCKED" THEN Sentinel ELSE verification.command

\* Mutant: the sentinels are shown.
AnyCommand(command) == TRUE
RealCommand(command) == command # Sentinel

\* verification_command: never a sentinel, never of a verification not attempted
ShownCommand ==
    IF "verifier" \in result.attempted /\ RealCommand(ReportedCommand)
    THEN ReportedCommand ELSE None

\* verification_state and evidence_state; every result carries a sealed envelope
VerificationState == result.verdict.status
EvidenceState ==
    [e \in {"VALID", "INVALID", "NOT_RUN"} |->
        IF e = "VALID" THEN "QUALIFIED" ELSE e][result.verdict.evidence]

\* _map_to_presentation and PRESENTATION_MAP
Label == [COMPLETED |-> "VERIFIED", FAILED |-> "FAILED",
          BLOCKED |-> "NEEDS_ATTENTION"][result.decision]

-----------------------------------------------------------------------------
(* Properties, of every result                                             *)

\* The agent section says what the agent did, whatever the run came to
\* (agent_activity.py): Completed only of an agent that ran and was DONE, Not
\* run only of one that never ran, and Unavailable only of a run blocked
\* because the workspace changed under the agent.
ActivityIsTrue ==
    pc = "done" =>
        LET shown == Activity(Signals) IN
        /\ shown = "COMPLETED" => "agent" \in history.ran /\ result.stage # "AGENT_PROCESS"
        /\ shown = "NOT_RUN" => "agent" \notin history.ran
        /\ shown = "UNKNOWN" => Revision(tree) # before.revision

\* The Changes section hides no write (assurance_presentation.py): the files it
\* names are the files that differ from the workspace the agent was given, a
\* run that wrote is shown as such or as unavailable, and one whose scope is
\* shown as denied left the workspace as it was.
ChangesAreNotHidden ==
    (pc = "done" /\ edits = 0 /\ history.captured # None) =>
        LET changed == {f \in Files : tree[f] # history.captured[f]} IN
        /\ MutationState = "OBSERVED" => ChangedFiles = changed
        /\ changed # {} => MutationState \in {"OBSERVED", "UNAVAILABLE"}
        /\ ScopeState \in {"DENIED", "PARTIAL"} => changed = {}

\* VERIFIED stands under a page of ticks and nowhere else: the agent completed,
\* a mutation was observed in an authorized scope, a command was run and
\* passed, and the evidence is qualified (frontdoor.py PRESENTATION_MAP).
VerifiedIsEveryTick ==
    pc = "done" =>
        (Label = "VERIFIED" <=>
            /\ Activity(Signals) = "COMPLETED"
            /\ MutationState = "OBSERVED"
            /\ ScopeState = "AUTHORIZED"
            /\ VerificationState = "PASS"
            /\ ShownCommand # None
            /\ EvidenceState = "QUALIFIED")

\* A verification shown with its command was run: by that command, and PASS
\* exactly when it exited 0 (assurance_presentation.py, truth rules).
ShownVerificationIsEarned ==
    (pc = "done" /\ ShownCommand # None) =>
        /\ "verifier" \in history.ran
        /\ ShownCommand = verification.command
        /\ VerificationState = "PASS" <=> history.verified.run.exit = 0
=============================================================================
