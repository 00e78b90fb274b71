-------------------------- MODULE PresentationProofs --------------------------
(***************************************************************************)
(* What the command line shows of a governed run is true of the run, for   *)
(* every workspace, agent and number of other writers.  The projections    *)
(* read a result, and IInv says that a result has one of six shapes, and   *)
(* what has happened by the time it has it: each proof goes through the    *)
(* shapes.                                                                 *)
(***************************************************************************)
EXTENDS Presentation, GovernedRunProofs

\* A run that is done has a result of one of the six shapes.
LEMMA DoneShapes ==
  ASSUME IInv, pc = "done"
  PROVE  RefusedEarly \/ AgentStopped \/ WorkspaceTouched \/ ChainStopped
         \/ NoVerifier \/ Judged
BY DEF IInv, ResultIsOneOf

\* The agent section of every shape (activity_for_agent_source).
LEMMA ActivityOfShapes ==
  /\ RefusedEarly => Activity(Signals) = "NOT_RUN"
  /\ AgentStopped => Activity(Signals) = "FAILED"
  /\ WorkspaceTouched => Activity(Signals) = "UNKNOWN"
  /\ (ChainStopped \/ NoVerifier \/ Judged) => Activity(Signals) = "COMPLETED"
<1> USE NoneAssumption, SentinelAssumption DEF Activity, Signals, AgentClass, AgentAnswered, Blocked,
                           DefaultAttempted, Stages
<1>1. RefusedEarly => Activity(Signals) = "NOT_RUN"
  BY DEF RefusedEarly
<1>2. AgentStopped => Activity(Signals) = "FAILED"
  BY DEF AgentStopped
<1>3. WorkspaceTouched => Activity(Signals) = "UNKNOWN"
  BY DEF WorkspaceTouched
<1>4. (ChainStopped \/ NoVerifier) => Activity(Signals) = "COMPLETED"
  BY DEF ChainStopped, NoVerifier
<1>5. ASSUME Judged PROVE Activity(Signals) = "COMPLETED"
  <2>1. result.stage = None /\ "agent" \in result.attempted
    BY <1>5 DEF Judged
  <2>2. QED
    BY <2>1
<1>6. QED
  BY <1>1, <1>2, <1>3, <1>4, <1>5

\* The agent section is true of what the agent did: Completed only of an agent
\* that ran and was not at fault, Not run only of one that never ran, Unavailable
\* only when the workspace changed under it.
THEOREM ActivityTrue == Spec => []ActivityIsTrue
<1>1. IInv => ActivityIsTrue
  <2> SUFFICES ASSUME IInv, pc = "done"
               PROVE  /\ Activity(Signals) = "COMPLETED" =>
                            "agent" \in history.ran /\ result.stage # "AGENT_PROCESS"
                      /\ Activity(Signals) = "NOT_RUN" => "agent" \notin history.ran
                      /\ Activity(Signals) = "UNKNOWN" => Revision(tree) # before.revision
    BY DEF ActivityIsTrue
  <2>1. CASE RefusedEarly
    BY <2>1, ActivityOfShapes DEF RefusedEarly
  <2>2. CASE AgentStopped
    BY <2>2, ActivityOfShapes
  <2>3. CASE WorkspaceTouched
    BY <2>3, ActivityOfShapes DEF WorkspaceTouched
  <2>4. CASE ChainStopped \/ NoVerifier
    BY <2>4, ActivityOfShapes DEF ChainStopped, NoVerifier, Blocked
  <2>5. CASE Judged
    BY <2>5, ActivityOfShapes, NoneAssumption DEF Judged, Stages
  <2>6. QED
    BY <2>1, <2>2, <2>3, <2>4, <2>5, DoneShapes
<1>2. QED
  BY <1>1, Invariance, PTL

\* A blocked result shows no command: it carries the sentinel.
LEMMA BlockedShowsNoCommand ==
  ASSUME result.decision = "BLOCKED"
  PROVE  ShownCommand = None
BY DEF ShownCommand, ReportedCommand, RealCommand

\* A judged run shows the command that judged it.
LEMMA JudgedShowsItsCommand ==
  ASSUME IInv, Judged
  PROVE  ShownCommand = verification.command /\ ShownCommand # None
<1>1. result.decision # "BLOCKED" /\ "verifier" \in result.attempted
  BY ProposedOutcomeIsNotBlocked DEF Judged, Stages
<1>2. verification.command \in Commands
  BY DEF Judged, IInv, TypeOK, Verifications, Option
<1>3. QED
  BY <1>1, <1>2, SentinelAssumption, NoneAssumption
  DEF ShownCommand, ReportedCommand, RealCommand

\* Only a judged run shows a command.
LEMMA InvariantGivesVerification == IInv => ShownVerificationIsEarned
<1> SUFFICES ASSUME IInv, pc = "done", ShownCommand # None
             PROVE  /\ "verifier" \in history.ran
                    /\ ShownCommand = verification.command
                    /\ VerificationState = "PASS" <=> history.verified.run.exit = 0
  BY DEF ShownVerificationIsEarned
<1>1. Judged
  BY DoneShapes, BlockedShowsNoCommand
  DEF RefusedEarly, AgentStopped, WorkspaceTouched, ChainStopped, NoVerifier, Blocked
<1>2. verification.verdict.status = "PASS" <=> verification.verdict = Passing
  BY DEF IInv, TypeOK, Verifications, VerdictRecords, NotRun, Failing, Passing
<1>3. QED
  BY <1>1, <1>2, JudgedShowsItsCommand DEF Judged, Stages, VerificationState

\* A verification shown with its command was run, by that command, and is PASS
\* exactly when the command exited 0 (truth rules of assurance_presentation.py).
THEOREM VerificationEarned == Spec => []ShownVerificationIsEarned
BY Invariance, InvariantGivesVerification, PTL

\* What the Changes and Scope sections say of a judged run.
LEMMA JudgedSections ==
  ASSUME IInv, Judged
  PROVE  /\ ScopeState = "AUTHORIZED"
         /\ receipts.apply \in ApplyReceipts
         /\ MutationState = IF Wrote THEN "OBSERVED" ELSE "ATTEMPTED_NO_WRITE"
         /\ VerificationState = "PASS" <=> Verified
         /\ EvidenceState = "QUALIFIED" <=> Verified
<1>1. /\ result.receipts = receipts /\ result.attempted = Stages
      /\ result.verdict = verification.verdict
  BY DEF Judged
<1>2. ScopeState = "AUTHORIZED"
  BY <1>1 DEF Judged, ScopeState, Decided
<1>3. receipts.apply \in ApplyReceipts
  BY DEF Judged, IInv, TypeOK, ReceiptRecords, Option
<1>4. MutationState = IF Wrote THEN "OBSERVED" ELSE "ATTEMPTED_NO_WRITE"
  BY <1>1, <1>3 DEF Judged, MutationState, Mutation_, Wrote, Stages, ApplyReceipts
<1>5. /\ VerificationState = "PASS" <=> Verified
      /\ EvidenceState = "QUALIFIED" <=> Verified
  BY <1>1 DEF VerificationState, EvidenceState, Verified, IInv, TypeOK, Verifications,
              VerdictRecords, NotRun, Failing, Passing
<1>6. QED
  BY <1>2, <1>3, <1>4, <1>5

\* VERIFIED stands under a page of ticks and nowhere else (PRESENTATION_MAP).
THEOREM VerifiedEveryTick == Spec => []VerifiedIsEveryTick
<1>1. IInv => VerifiedIsEveryTick
  <2> SUFFICES ASSUME IInv, pc = "done"
               PROVE  Label = "VERIFIED" <=>
                        /\ Activity(Signals) = "COMPLETED"
                        /\ MutationState = "OBSERVED"
                        /\ ScopeState = "AUTHORIZED"
                        /\ VerificationState = "PASS"
                        /\ ShownCommand # None
                        /\ EvidenceState = "QUALIFIED"
    BY DEF VerifiedIsEveryTick
  <2>1. CASE result.decision = "BLOCKED"
    BY <2>1, BlockedShowsNoCommand DEF Label
  <2>2. CASE Judged
    <3>1. Label = "VERIFIED" <=> Wrote /\ Verified
      BY <2>2 DEF Judged, Label, ProposedOutcome
    <3>2. QED
      BY <2>2, <3>1, ActivityOfShapes, JudgedSections, JudgedShowsItsCommand
  <2>3. QED
    BY <2>1, <2>2, DoneShapes
    DEF RefusedEarly, AgentStopped, WorkspaceTouched, ChainStopped, NoVerifier, Blocked
<1>2. QED
  BY <1>1, Invariance, PTL

\* Shape by shape, what the Changes section says of a run that was alone.
LEMMA InvariantGivesChanges == IInv => ChangesAreNotHidden
<1> DEFINE changed == {f \in Files : tree[f] # history.captured[f]}
<1> SUFFICES ASSUME IInv, pc = "done", edits = 0, history.captured # None
             PROVE  /\ MutationState = "OBSERVED" => ChangedFiles = changed
                    /\ changed # {} => MutationState \in {"OBSERVED", "UNAVAILABLE"}
                    /\ ScopeState \in {"DENIED", "PARTIAL"} => changed = {}
  BY DEF ChangesAreNotHidden
<1>1. tree \in Trees /\ history.captured \in Trees
  BY DEF IInv, TypeOK, Histories, Option
<1>2. IF receipts.apply # None /\ receipts.apply.writes = 1
      THEN tree = [history.captured EXCEPT ![receipts.apply.file] = receipts.apply.to]
      ELSE tree = history.captured
  BY DEF IInv, AloneNothingMoves, SoloRevisionsAreTrue
<1>3. CASE AgentStopped \/ ChainStopped
  <2>1. changed = {}
    BY <1>2, <1>3 DEF AgentStopped, ChainStopped, NoReceipts
  <2>2. MutationState = "NOT_ATTEMPTED"
    BY <1>3 DEF AgentStopped, ChainStopped, Blocked, MutationState, Mutation_
  <2>3. QED
    BY <2>1, <2>2
<1>4. CASE NoVerifier
  <2>1. MutationState = "UNAVAILABLE"
    BY <1>4 DEF NoVerifier, Blocked, MutationState, Mutation_, NoReceipts
  <2>2. ScopeState = "NOT_EVALUATED"
    BY <1>4, NoneAssumption DEF NoVerifier, Blocked, ScopeState, Decided, NoReceipts
  <2>3. QED
    BY <2>1, <2>2
<1>5. CASE Judged
  <2>1. ScopeState = "AUTHORIZED"
    BY <1>5, JudgedSections
  <2>2. CASE Wrote
    <3>1. MutationState = "OBSERVED" /\ ChangedFiles = {receipts.apply.file}
      BY <1>5, <2>2, JudgedSections DEF ChangedFiles, Judged
    <3>2. /\ receipts.apply.file \in Files
          /\ receipts.apply.from = history.captured[receipts.apply.file]
          /\ receipts.apply.from # receipts.apply.to
      BY <1>5, <2>2
      DEF Judged, Wrote, IInv, AuthorityChain, ReceiptsInOrder, AloneNothingMoves
    <3>3. changed = {receipts.apply.file}
      BY <1>1, <1>2, <1>5, <2>2, <3>2 DEF Judged, Wrote, Trees
    <3>4. QED
      BY <2>1, <3>1, <3>3
  <2>3. CASE ~Wrote
    <3>1. changed = {}
      BY <1>2, <2>3 DEF Wrote
    <3>2. QED
      BY <1>5, <2>1, <2>3, <3>1, JudgedSections
  <2>4. QED
    BY <2>2, <2>3
<1>6. ~WorkspaceTouched
  BY <1>2 DEF WorkspaceTouched, NoReceipts, IInv, RevisionKnown
<1>7. QED
  BY <1>3, <1>4, <1>5, <1>6, DoneShapes DEF RefusedEarly

\* The Changes section hides no write of a run that was alone: what it names is
\* what differs from the workspace the agent was given.
THEOREM ChangesShown == Spec => []ChangesAreNotHidden
BY Invariance, InvariantGivesChanges, PTL
=============================================================================
