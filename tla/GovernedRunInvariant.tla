------------------------- MODULE GovernedRunInvariant -------------------------
(***************************************************************************)
(* The inductive invariant of GovernedRun: what each stage may rely on of  *)
(* the stages before it, while other processes write to the workspace.     *)
(***************************************************************************)
EXTENDS GovernedRun

BeforeRed == {"start", "capture", "captureRevision", "contract", "agent",
              "readOnlyCheck", "redSeam", "redExpectation", "redObserve"}
AfterWrite == {"postApply", "resolveGreen", "verify", "finalize"}
Admitted   == {"pathGate", "apply", "write"} \cup AfterWrite

\* Every stage after the capture has the revision of the tree, and every result
\* of a run whose agent was started.
RevisionKnown ==
    /\ pc \in {"start", "capture", "captureRevision"} \cup Terminal \/ before.revision # None
    /\ IF history.captured = None THEN before.revision = None
       ELSE before.revision = Revision(history.captured)
    /\ history.ran # {} => before.revision # None

\* A verifier is only run when one is known.
VerifierKnown ==
    /\ pc = "redObserve" => contract.command # None
    /\ pc = "verify" => verification.command # None

\* RED is qualified late, and in the comparator tier only by the bound
\* expectation and a run of the contract's verifier that matches it.
RedIsBound ==
    /\ pc \in BeforeRed => ~red.qualified
    /\ pc \in BeforeRed \ {"redObserve"} => red.expectation = None
    /\ pc = "redSeam" => request.tier = "seam"
    /\ pc = "redObserve" => red.expectation # None
    /\ red.expectation # None => red.expectation = contract.binding
    /\ (red.qualified /\ request.tier = "comparator") =>
          /\ red.expectation # None
          /\ history.observed # None
          /\ RedMatches(red.expectation, before.revision, contract.command,
                        history.observed.run)

\* From admission on, the receipts carry the captured revision; when the
\* applicator holds bytes they are the captured ones of one declared file.
AuthorityChain ==
    /\ pc \in {"validate", "admit"} \cup Admitted => proposal \in Proposals
    /\ pc \in Admitted =>
          /\ red.qualified
          /\ receipts.admission = [decision |-> "ALLOW", revision |-> before.revision]
    /\ pc \in Admitted \ {"pathGate"} =>
          receipts.pathGate = [decision |-> "ALLOW", authorized |-> request.allowed,
                               revision |-> before.revision]
    /\ pc = "write" =>
          /\ revisions.pre = before.revision
          /\ held # None
          /\ DOMAIN proposal = {held.file}
          /\ held.file \in request.allowed
          /\ held.bytes = before.expected[held.file]
          /\ Rewrite[proposal[held.file]][held.bytes] # NoMatch
    /\ pc \in AfterWrite => receipts.apply # None
    /\ receipts.apply # None => pc \in AfterWrite \cup Terminal
    /\ (receipts.apply # None /\ receipts.apply.writes = 1) =>
          /\ receipts.apply.file \in request.allowed
          /\ receipts.apply.from = before.expected[receipts.apply.file]

\* The verdict is that of the verifier's last run, and a decision is final.
VerdictIsTrue ==
    /\ pc = "finalize" => history.verified # None
    /\ verification.verdict = Passing =>
          history.verified # None /\ history.verified.run.exit = 0
    /\ result.decision # None => pc \in Terminal
    /\ result.decision = "COMPLETED" =>
          /\ red.qualified
          /\ verification.verdict = Passing
          /\ receipts.apply # None
          /\ receipts.apply.writes = 1

BeforeAgent == {"start", "capture", "captureRevision", "contract", "agent"}
AfterAgent  == {"readOnlyCheck", "redSeam", "redExpectation", "redObserve", "preApply", "parse"}
InChain     == {"validate", "admit", "pathGate", "apply"}
AfterApply  == {"write", "postApply", "resolveGreen", "verify"}

\* What has run is where the run is; only a fault escapes a run once the agent
\* was started, and never one that has an apply receipt or a verdict.
StagesRanInOrder ==
    /\ pc \in BeforeAgent => history.ran = {}
    /\ pc \in AfterAgent => history.ran = {"agent"}
    /\ pc \in InChain => history.ran = {"agent", "parser"}
    /\ pc \in AfterApply => history.ran = {"agent", "parser", "applicator"}
    /\ pc = "finalize" => history.ran = Stages
    /\ pc = "raised" => history.ran = {} \/ history.fault

\* No receipt or verdict comes before its stage, and the receipt of a write
\* records a change of a file.
ReceiptsInOrder ==
    /\ pc \notin {"start"} \cup Terminal => request.task = "declared"
    /\ pc \notin Admitted \cup Terminal => receipts = NoReceipts
    /\ pc = "pathGate" => receipts.pathGate = None
    /\ pc \in {"pathGate", "apply", "write", "raised"} => receipts.apply = None
    /\ pc \notin {"finalize", "done"} => verification.verdict = NotRun
    /\ pc = "finalize" =>
          /\ verification.command # None
          /\ verification.verdict = Passing <=> history.verified.run.exit = 0
    /\ (receipts.apply # None /\ receipts.apply.writes = 1) =>
          /\ receipts.apply.file \in Files
          /\ receipts.apply.from \in Contents
          /\ receipts.apply.to \in Contents
          /\ receipts.apply.from # receipts.apply.to

\* Between the applicator's read and its write the file is what it read, unless
\* another process wrote then; what the write replaced is remembered.
WriteIsWatched ==
    /\ history.overwritten # None => pc \in AfterWrite \cup Terminal
    /\ (pc = "write" /\ ~history.raced) => tree[held.file] = held.bytes
    /\ LostUpdateOnlyIfRaced

\* The six shapes of a result (_block's callers and the finalizer): what each
\* reports, and what has happened by then.
Blocked(stage, attempted, kept) ==
    /\ result.decision = "BLOCKED"
    /\ result.stage = stage
    /\ result.attempted = attempted
    /\ result.receipts = kept
RefusedEarly ==
    /\ \/ Blocked(None, DefaultAttempted, NoReceipts)
       \/ Blocked(None, {}, NoReceipts)
    /\ history.ran = {} /\ history.overwritten = None /\ receipts = NoReceipts
    /\ history.captured = None
AgentStopped ==
    /\ history.ran \subseteq {"agent"} /\ history.overwritten = None
    /\ Blocked("AGENT_PROCESS", history.ran, NoReceipts)
    /\ receipts = NoReceipts
WorkspaceTouched ==
    /\ Blocked(None, DefaultAttempted, NoReceipts)
    /\ history.ran = {"agent"} /\ history.overwritten = None /\ receipts = NoReceipts
    /\ Revision(tree) # before.revision
ChainStopped ==
    /\ history.ran = {"agent", "parser"} /\ history.overwritten = None
    /\ Blocked("PROPOSAL_PARSE_OR_ADMISSION", history.ran, receipts)
    /\ receipts.apply = None
    /\ \/ receipts = NoReceipts
       \/ receipts.admission # None /\ receipts.admission.decision = "DENY"
          /\ receipts.pathGate = None
       \/ receipts.admission # None /\ receipts.admission.decision = "ALLOW"
          /\ receipts.pathGate # None /\ receipts.pathGate.decision = "DENY"
NoVerifier ==
    /\ history.ran = {"agent", "parser", "applicator"}
    /\ Blocked("VERIFICATION_COMMAND_RESOLUTION", history.ran, NoReceipts)
    /\ receipts.apply # None
Judged ==
    /\ history.ran = Stages
    /\ result = [decision |-> ProposedOutcome, stage |-> None, attempted |-> Stages,
                 verdict |-> verification.verdict, proposal |-> proposal,
                 receipts |-> receipts]
    /\ receipts.admission # None /\ receipts.admission.decision = "ALLOW"
    /\ receipts.pathGate # None /\ receipts.pathGate.decision = "ALLOW"
    /\ receipts.apply # None
    /\ verification.command # None
    /\ verification.verdict = Passing <=> history.verified.run.exit = 0

ResultIsOneOf ==
    /\ pc # "done" => result = NoResult
    /\ pc = "done" => \/ RefusedEarly \/ AgentStopped \/ WorkspaceTouched
                      \/ ChainStopped \/ NoVerifier \/ Judged

\* As long as nobody else has written, what was captured is what is there.
AloneNothingMoves ==
    /\ pc \in {"start", "capture", "captureRevision"} => history.captured = None
    /\ edits = 0 =>
          /\ pc = "captureRevision" => before.expected = [f \in request.allowed |-> tree[f]]
          /\ history.captured # None =>
                before.expected = [f \in request.allowed |-> history.captured[f]]
          /\ pc \in {"parse", "write"} \cup InChain => revisions.pre = Revision(tree)
          /\ pc \in {"resolveGreen", "verify", "finalize"} => revisions.post = Revision(tree)
          /\ pc = "finalize" => history.verified.tree = tree
    /\ SoloRevisionsAreTrue

\* Together they are preserved by every step of the harness and of the other
\* writers (run_governed_execution keeps all of them at once).
IInv == /\ TypeOK /\ RevisionKnown /\ VerifierKnown
        /\ RedIsBound /\ AuthorityChain /\ VerdictIsTrue
        /\ StagesRanInOrder /\ ReceiptsInOrder /\ WriteIsWatched
        /\ ResultIsOneOf /\ AloneNothingMoves
=============================================================================
