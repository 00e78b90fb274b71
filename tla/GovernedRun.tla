----------------------------- MODULE GovernedRun -----------------------------
(***************************************************************************)
(* One call of run_governed_execution (kernel/governed_execution.py): the  *)
(* public lifecycle from the task to the terminal decision, with the       *)
(* mutation chain of kernel/mutation_authority.py, the RED qualification   *)
(* of kernel/red_qualification.py and the finalizer of                     *)
(* kernel/terminal_finalizer.py inlined at the points where it calls them. *)
(*                                                                         *)
(* The harness is one sequential process; it shares the workspace with     *)
(* whatever else writes there (an editor, the agent's process tree, the    *)
(* test run it started, a second harness).  An action is the code between  *)
(* two accesses to the workspace, so every interleaving of the harness's   *)
(* reads and writes with those writers is a behaviour.                     *)
(*                                                                         *)
(* Abstractions.  SHA-256 is injective, so a digest is the value it        *)
(* digests: a source revision is the part of the tree it covers, the       *)
(* binding of an expectation is the expectation.  Contents are             *)
(* CRLF-normalised bytes, as every digest and every comparison of the code *)
(* takes them.  A tree hash, and a run of the verifier, read the workspace *)
(* at one instant.  So do the test that a file exists and the read that    *)
(* follows it, unless the file vanishes in between, which FileVanishes is  *)
(* about.  The staged expectation is a variable and no file of the tree: a *)
(* write set that names .synapx_red_expectation.json is not modelled.      *)
(***************************************************************************)
EXTENDS Integers

CONSTANTS
    Files,         \* paths of the workspace
    Hashed,        \* those the tree hash covers; it skips build output,
                   \* caches, virtual environments and .synapx_* files
    Contents,      \* contents of an existing file
    Absent,        \* no file at a path
    Empty,         \* the content of a file opened for writing
    LockFile,      \* uv.lock
    ProjectFile,   \* pyproject.toml
    PoetryTables,  \* contents of pyproject.toml with a [tool.poetry] table
    Spellings,     \* raw paths a proposal may name; the files among them
    Normal,        \* normalize_write_token_path, as a function on Spellings
    Unsafe,        \* its ValueError
    Hunks,         \* OLD/NEW pairs
    Rewrite,       \* Rewrite[h][c]: c with the one occurrence of OLD replaced
    NoMatch,       \* OLD does not occur exactly once
    Proposals,     \* well-formed proposals the agent may print
    Tests,         \* test identifiers
    Commands,      \* verifier command lines
    Verdicts,      \* Verdicts[cmd][tree]: the outcomes a verifier run can have
    Expectations,  \* staged .synapx_red_expectation.json files
    None,          \* Python's None
    Requests,      \* the requests the run may be given
    InitialTrees,  \* workspaces it may find
    MaxEdits       \* bound on the writes of other processes during the run

Trees     == [Files -> Contents \cup {Absent}]
Revisions == [Hashed -> Contents \cup {Absent}]

VerifierRun == [exit : -1 .. 5, failed : SUBSET Tests, errors : SUBSET Tests]

Option(S) == S \cup {None}

AdmissionReceipts == [decision : {"ALLOW", "DENY"}, revision : Revisions]
PathGateReceipts  == [decision : {"ALLOW", "DENY"}, authorized : SUBSET Files,
                      revision : Revisions]
ApplyReceipts     == [writes : {0, 1}, file : Option(Files),
                      from : Option(Contents), to : Option(Contents)]
HeldBytes         == [file : Files, bytes : Contents]
Observations      == [tree : Trees, run : VerifierRun]

Tasks == {"empty", "unsafe", "noWriteSet", "declared"}
Tiers == {"comparator", "seam"}

\* The parts of the pipeline whose execution a result reports:
\* process_started, proposal_parsing_attempted, mutation_attempted and
\* verification_attempted.
Stages == {"agent", "parser", "applicator", "verifier"}

ASSUME WorkspaceAssumption ==
    /\ {LockFile, ProjectFile} \subseteq Hashed /\ Hashed \subseteq Files
    /\ Absent \notin Contents /\ Empty \in Contents
    /\ PoetryTables \subseteq Contents
    /\ InitialTrees \subseteq Trees
    /\ MaxEdits \in Nat

ASSUME ProposalAssumption ==
    /\ Files \subseteq Spellings
    /\ Normal \in [Spellings -> Files \cup {Unsafe}]
    /\ Unsafe \notin Files
    /\ \A f \in Files : Normal[f] = f
    /\ Rewrite \in [Hunks -> [Contents -> Contents \cup {NoMatch}]]
    /\ NoMatch \notin Contents
    \* OLD and NEW differ, so replacing the one occurrence changes the file
    /\ \A h \in Hunks, c \in Contents : Rewrite[h][c] # c
    /\ \A p \in Proposals : \E S \in SUBSET Spellings : S # {} /\ p \in [S -> Hunks]

ASSUME VerifierAssumption ==
    /\ {"uv", "poetry"} \subseteq Commands
    /\ Verdicts \in [Commands -> [Trees -> SUBSET VerifierRun]]
    /\ \A cmd \in Commands, t \in Trees : Verdicts[cmd][t] # {}

ASSUME RequestAssumption ==
    /\ Requests \subseteq [task : Tasks, allowed : SUBSET Files,
                           command : Commands \cup {None}, tier : Tiers]
    /\ \A r \in Requests : (r.task = "declared") <=> (r.allowed # {})
    /\ Expectations \subseteq [json : {"identified", "anonymous", "notObject"},
                               qualified : BOOLEAN,
                               revision : Revisions, command : Commands,
                               exit : 0 .. 5, ids : SUBSET Tests]

\* None is Python's None and nothing else.
ASSUME NoneAssumption ==
    /\ None \notin Files /\ None \notin Contents \cup {Absent} /\ None \notin Commands
    /\ None \notin Proposals /\ None \notin Expectations
    /\ None \notin Trees \cup Revisions /\ None \notin Observations
    /\ None \notin {"COMPLETED", "FAILED", "BLOCKED", "ALLOW", "DENY", "AGENT_PROCESS"}
    /\ None \notin AdmissionReceipts /\ None \notin PathGateReceipts
    /\ None \notin ApplyReceipts /\ None \notin HeldBytes
    /\ None \notin [file : Files, from : Contents, to : Contents]

VARIABLES
    \* the workspace, shared with the other writers
    tree,          \* contents of every file
    expectation,   \* the staged expectation file, None when absent
    edits,         \* writes of other processes so far
    \* the run
    pc,            \* where run_governed_execution is
    request,       \* GovernedExecutionRequest
    before,        \* BeforeState: per-path pre-image and tree revision
    contract,      \* the WorkContract's verifier scope and RED binding
    proposal,      \* the agent's stdout: a proposal, or None for anything else
    red,           \* RED qualification verdict
    revisions,     \* pre_apply_source_revision, post_apply_source_revision
    receipts,      \* admission, path-gate and apply receipts
    held,          \* before_bytes the applicator holds between read and write
    verification,  \* VerificationOutcome and the command that gives it
    result,        \* GovernedExecutionResult
    history        \* what really happened, kept for the properties

workspace == <<tree, expectation, edits>>
setup     == <<request, before, contract>>
chain     == <<proposal, red, revisions, receipts, held>>
outcome   == <<verification, result>>
vars      == <<workspace, pc, setup, chain, outcome, history>>

Terminal == {"done", "raised"}

-----------------------------------------------------------------------------
(* Verifier resolution and the RED comparator                              *)

\* Mutant: discovery falls back to the harness's own interpreter.
ResolveTargetOrHarness(t) ==
    IF t[LockFile] # Absent THEN "uv"
    ELSE IF t[ProjectFile] \in PoetryTables THEN "poetry"
    ELSE "sys.executable"

\* _fixture_root_sha: what it skips is not part of a revision
Revision(t) == [f \in Hashed |-> t[f]]

\* resolve_target_verification_command: uv.lock, then [tool.poetry], else none
ResolveTarget(t) ==
    IF t[LockFile] # Absent THEN "uv"
    ELSE IF t[ProjectFile] \in PoetryTables THEN "poetry"
    ELSE None

\* _effective_verification_command: the caller's command wins over discovery
EffectiveCommand(r, t) == IF r.command # None THEN r.command ELSE ResolveTarget(t)

\* _bind_expectation_for_workcontract: None when absent or without id/version
BindExpectation(e) == IF e # None /\ e.json = "identified" THEN e ELSE None

\* classify_pytest_failure_kind
FailureKind(v) ==
    IF v.exit = 1 /\ v.failed # {} /\ v.errors = {} THEN "TEST_FAILURE"
    ELSE IF v.exit = 2 THEN "COLLECTION_ERROR"
    ELSE IF v.exit \in {3, 4, 5} \/ v.exit < 0 THEN "INFRASTRUCTURE_ERROR"
    ELSE IF v.errors # {} THEN "COLLECTION_ERROR"
    ELSE "UNKNOWN"

\* Mutant: the expected failures may be among others.
RedMatchesSubset(e, revision, command, v) ==
    /\ revision = e.revision
    /\ command = e.command
    /\ v.exit = e.exit
    /\ FailureKind(v) = "TEST_FAILURE"
    /\ e.ids # {}
    /\ e.ids \subseteq v.failed

\* Mutant: the expectation is not bound to a revision.
RedMatchesAnyRevision(e, revision, command, v) ==
    /\ command = e.command
    /\ e.exit = 1
    /\ v.exit = e.exit
    /\ FailureKind(v) = "TEST_FAILURE"
    /\ e.ids # {}
    /\ v.failed = e.ids

\* compare_red_qualification: every condition of EXACT_FAILED_TEST_IDS
RedMatches(e, revision, command, v) ==
    /\ revision = e.revision
    /\ command = e.command
    /\ e.exit = 1
    /\ v.exit = e.exit
    /\ FailureKind(v) = "TEST_FAILURE"
    /\ e.ids # {}
    /\ v.failed = e.ids

-----------------------------------------------------------------------------
(* Results                                                                 *)

NotRun  == [status |-> "NOT_RUN", evidence |-> "NOT_RUN", blockers |-> 1]
Failing == [status |-> "FAIL", evidence |-> "INVALID", blockers |-> 1]
Passing == [status |-> "PASS", evidence |-> "VALID", blockers |-> 0]

NoReceipts == [admission |-> None, pathGate |-> None, apply |-> None]
NoResult   == [decision |-> None, stage |-> None, attempted |-> {},
               verdict |-> NotRun, proposal |-> None, receipts |-> NoReceipts]

\* _enforce_verification_invariants_for_completion
CompletionAllowed(proposed, verdict) ==
    proposed = "COMPLETED" => verdict = Passing

\* The keyword defaults of _block: verification and parsing attempted,
\* process not started, nothing mutated.
DefaultAttempted == {"parser", "verifier"}

\* _block: a fail-closed result with a synthetic verification, sealed and
\* finalized as BLOCKED.  It never carries an apply receipt.
Block(stage, attempted, keptProposal, keptReceipts) ==
    /\ result' = [decision |-> "BLOCKED", stage |-> stage, attempted |-> attempted,
                  verdict |-> IF "verifier" \in attempted THEN Failing ELSE NotRun,
                  proposal |-> keptProposal,
                  receipts |-> [keptReceipts EXCEPT !.apply = None]]
    /\ pc' = "done"

\* An exception no caller up to the Front Door handles.
Raise == pc' = "raised"

-----------------------------------------------------------------------------
\* No run has begun: what run_governed_execution starts from.
FreshRun ==
    /\ pc = "start"
    /\ before = [expected |-> [f \in {} |-> None], revision |-> None]
    /\ contract = [command |-> None, binding |-> None]
    /\ proposal = None
    /\ red = [qualified |-> FALSE, evidence |-> None, expectation |-> None]
    /\ revisions = [pre |-> None, post |-> None]
    /\ receipts = NoReceipts
    /\ held = None
    /\ verification = [command |-> None, verdict |-> NotRun]
    /\ result = NoResult
    /\ history = [ran |-> {}, captured |-> None, observed |-> None, verified |-> None,
                   overwritten |-> None, raced |-> FALSE, fault |-> FALSE]

Init ==
    /\ tree \in InitialTrees
    /\ expectation \in Expectations \cup {None}
    /\ edits = 0
    /\ request \in Requests
    /\ FreshRun

(* ---- preflight: before the agent runs ---------------------------------- *)

\* An empty task goes to _block, whose WorkContract rejects an empty objective:
\* the ValidationError escapes.  An unsafe path escapes from the parser itself.
Start ==
    /\ pc = "start"
    /\ \/ /\ request.task \in {"empty", "unsafe"}
          /\ Raise
          /\ UNCHANGED result
       \/ /\ request.task = "noWriteSet"
          /\ Block(None, DefaultAttempted, None, NoReceipts)
       \/ /\ request.task = "declared"
          /\ pc' = "capture"
          /\ UNCHANGED result
    /\ UNCHANGED <<workspace, setup, chain, verification, history>>

\* capture_before_state, the per-path pre-images
CaptureExpected ==
    /\ pc = "capture"
    /\ \/ /\ \E f \in request.allowed : tree[f] = Absent
          /\ Block(None, {}, None, NoReceipts)
          /\ UNCHANGED before
       \/ /\ \A f \in request.allowed : tree[f] # Absent
          /\ before' = [before EXCEPT !.expected = [f \in request.allowed |-> tree[f]]]
          /\ pc' = "captureRevision"
          /\ UNCHANGED result
    /\ UNCHANGED <<workspace, request, contract, chain, verification, history>>

\* capture_before_state, the tree revision
CaptureRevision ==
    /\ pc = "captureRevision"
    /\ before' = [before EXCEPT !.revision = Revision(tree)]
    /\ history' = [history EXCEPT !.captured = tree]
    /\ pc' = "contract"
    /\ UNCHANGED <<workspace, request, contract, chain, outcome>>

\* Verifier resolution and expectation binding go into the WorkContract.  The
\* TypeError of subscripting a staged JSON value that is no object escapes.
BuildContract ==
    /\ pc = "contract"
    /\ IF expectation # None /\ expectation.json = "notObject"
       THEN /\ Raise
            /\ UNCHANGED contract
       ELSE /\ contract' = [command |-> EffectiveCommand(request, tree),
                            binding |-> BindExpectation(expectation)]
            /\ pc' = "agent"
    /\ UNCHANGED <<workspace, request, before, chain, outcome, history>>

(* ---- the agent ---------------------------------------------------------- *)

\* The adapter answers DONE; its stdout is a proposal or something else.
AgentDone ==
    /\ pc = "agent"
    /\ proposal' \in Proposals \cup {None}
    /\ history' = [history EXCEPT !.ran = @ \cup {"agent"}]
    /\ pc' = "readOnlyCheck"
    /\ UNCHANGED <<workspace, setup, red, revisions, receipts, held, outcome>>

\* Launch failure, timeout, cancellation or a non-zero exit.
AgentFails ==
    /\ pc = "agent"
    /\ \E started \in BOOLEAN :
          LET now == IF started THEN {"agent"} ELSE {} IN
          /\ history' = [history EXCEPT !.ran = @ \cup now]
          /\ Block("AGENT_PROCESS", now, None, NoReceipts)
    /\ UNCHANGED <<workspace, setup, chain, verification>>

\* assert_codex_did_not_mutate; its _block call leaves every stage flag at
\* its default.
CheckReadOnly ==
    /\ pc = "readOnlyCheck"
    /\ \/ /\ Revision(tree) # before.revision
          /\ Block(None, DefaultAttempted, None, NoReceipts)
       \/ /\ Revision(tree) = before.revision
          /\ pc' = IF request.tier = "comparator" THEN "redExpectation" ELSE "redSeam"
          /\ UNCHANGED result
    /\ UNCHANGED <<workspace, setup, chain, verification, history>>

(* ---- RED qualification -------------------------------------------------- *)

\* red_qualified_override or the legacy evidence file of red_qualification_ref
QualifyBySeam ==
    /\ pc = "redSeam"
    /\ \E q \in BOOLEAN : red' = [red EXCEPT !.qualified = q]
    /\ pc' = "preApply"
    /\ UNCHANGED <<workspace, setup, proposal, revisions, receipts, held, outcome, history>>

\* Mutant: what was bound when the contract was built is not compared.
UnboundExpectationAccepted ==
    /\ expectation # None
    /\ expectation.json # "notObject"
    /\ expectation.qualified
    /\ contract.command # None

ExpectationAccepted ==
    /\ expectation # None
    /\ expectation = contract.binding
    /\ expectation.qualified
    /\ contract.command # None

\* _qualify_red_by_comparator up to the observation: the staged file is read
\* again and must be the bound one, qualified, with a verifier to observe with.
VerifyExpectation ==
    /\ pc = "redExpectation"
    /\ IF ExpectationAccepted
       THEN /\ red' = [red EXCEPT !.expectation = expectation]
            /\ pc' = "redObserve"
       ELSE /\ red' = red
            /\ pc' = "preApply"
    /\ UNCHANGED <<workspace, setup, proposal, revisions, receipts, held, outcome, history>>

\* Mutant: a mismatch is observed again until it matches.
AfterObservationRetry(match) == IF match THEN "preApply" ELSE "redObserve"
AfterObservation(match) == "preApply"

\* _observe_red_state and the comparator.  The observation carries the
\* revision captured before the agent, not one taken when the verifier runs.
ObserveRed ==
    /\ pc = "redObserve"
    /\ \E v \in Verdicts[contract.command][tree] :
          LET match == RedMatches(red.expectation, before.revision, contract.command, v) IN
          /\ red' = [red EXCEPT !.qualified = match,
                                !.evidence = IF match THEN "MATCH" ELSE "MISMATCH"]
          /\ history' = [history EXCEPT !.observed = [tree |-> tree, run |-> v]]
          /\ pc' = AfterObservation(match)
    /\ UNCHANGED <<workspace, setup, proposal, revisions, receipts, held, outcome>>

\* RedObservationError: the controlled run is refused or cannot start.
ObserveRedFails ==
    /\ pc = "redObserve"
    /\ pc' = "preApply"
    /\ UNCHANGED <<workspace, setup, chain, outcome, history>>

(* ---- the mutation chain ------------------------------------------------- *)

CapturePreApply ==
    /\ pc = "preApply"
    /\ revisions' = [revisions EXCEPT !.pre = Revision(tree)]
    /\ pc' = "parse"
    /\ UNCHANGED <<workspace, setup, proposal, red, receipts, held, outcome, history>>

\* Mutant: verification_attempted is left at the default of _block.
AttemptedBeforeApplyOrDefault == {"agent", "parser", "verifier"}
AttemptedBeforeApply == {"agent", "parser"}

\* The chain stopped before the applicator: PROPOSAL_PARSE_OR_ADMISSION.
Reject(now) == Block("PROPOSAL_PARSE_OR_ADMISSION", AttemptedBeforeApply, proposal, now)

\* parse_structured
ParseProposal ==
    /\ pc = "parse"
    /\ history' = [history EXCEPT !.ran = @ \cup {"parser"}]
    /\ \/ /\ proposal = None
          /\ Reject(NoReceipts)
       \/ /\ proposal # None
          /\ pc' = "validate"
          /\ UNCHANGED result
    /\ UNCHANGED <<workspace, setup, chain, verification>>

\* validate_mutation_proposal: one section, judged on the normalised path
SectionValid(raw, h) ==
    LET f == Normal[raw] IN
    /\ f # Unsafe
    /\ f \in request.allowed
    /\ tree[f] # Absent
    /\ tree[f] = before.expected[f]
    /\ Rewrite[h][tree[f]] # NoMatch

ValidateProposal ==
    /\ pc = "validate"
    /\ \/ /\ \A raw \in DOMAIN proposal : SectionValid(raw, proposal[raw])
          /\ pc' = "admit"
          /\ UNCHANGED result
       \/ /\ \E raw \in DOMAIN proposal : ~SectionValid(raw, proposal[raw])
          /\ Reject(NoReceipts)
    /\ UNCHANGED <<workspace, setup, chain, verification, history>>

\* Mutant: the receipt says ALLOW whatever the RED verdict is.
AdmissionAlwaysAllows(qualified) == "ALLOW"
AdmissionDecision(qualified) == IF qualified THEN "ALLOW" ELSE "DENY"

\* MutationAdmissionGate.admit: ALLOW iff RED qualified
AdmitMutation ==
    /\ pc = "admit"
    /\ receipts' = [receipts EXCEPT !.admission =
                       [decision |-> AdmissionDecision(red.qualified),
                        revision |-> before.revision]]
    /\ \/ /\ red.qualified
          /\ pc' = "pathGate"
          /\ UNCHANGED result
       \/ /\ ~red.qualified
          /\ Reject(receipts')
    /\ UNCHANGED <<workspace, setup, proposal, red, revisions, held, verification, history>>

\* ExactPathMutationGate.check: the raw paths, a non-empty subset
CheckExactPaths ==
    /\ pc = "pathGate"
    /\ LET ok == DOMAIN proposal # {} /\ DOMAIN proposal \subseteq request.allowed IN
       /\ receipts' = [receipts EXCEPT !.pathGate =
                          [decision |-> IF ok THEN "ALLOW" ELSE "DENY",
                           authorized |-> request.allowed, revision |-> before.revision]]
       /\ \/ /\ ok
             /\ pc' = "apply"
             /\ UNCHANGED result
          \/ /\ ~ok
             /\ Reject(receipts')
    /\ UNCHANGED <<workspace, setup, proposal, red, revisions, held, verification, history>>

\* ControlledPatchApplicator.apply, before it looks at the file; f is the one
\* path of the proposal.
ApplyAuthorised(f) ==
    /\ DOMAIN proposal = {f}
    /\ f \in receipts.pathGate.authorized
    /\ receipts.admission.decision = "ALLOW"
    /\ receipts.pathGate.decision = "ALLOW"
    /\ receipts.admission.revision = receipts.pathGate.revision
    /\ receipts.admission.revision = revisions.pre

\* Mutant: the per-path before-hash is not compared.
ApplyPreconditionsNoBeforeHash(f) ==
    /\ ApplyAuthorised(f)
    /\ tree[f] # Absent
    /\ Rewrite[proposal[f]][tree[f]] # NoMatch

\* ControlledPatchApplicator.apply, every precondition
ApplyPreconditions(f) ==
    /\ ApplyAuthorised(f)
    /\ tree[f] # Absent
    /\ tree[f] = before.expected[f]
    /\ Rewrite[proposal[f]][tree[f]] # NoMatch

ZeroWrite == [writes |-> 0, file |-> None, from |-> None, to |-> None]

\* The applicator up to the write: it reads the target and decides.
ApplyCheck ==
    /\ pc = "apply"
    /\ history' = [history EXCEPT !.ran = @ \cup {"applicator"}]
    /\ \/ \E f \in DOMAIN proposal :
             /\ ApplyPreconditions(f)
             /\ held' = [file |-> f, bytes |-> tree[f]]
             /\ pc' = "write"
             /\ UNCHANGED <<receipts, revisions>>
       \/ /\ \A f \in DOMAIN proposal : ~ApplyPreconditions(f)
          /\ receipts' = [receipts EXCEPT !.apply = ZeroWrite]
          /\ revisions' = [revisions EXCEPT !.post = revisions.pre]
          /\ pc' = "resolveGreen"
          /\ UNCHANGED held
    /\ UNCHANGED <<workspace, setup, proposal, red, outcome>>

\* write_bytes of the text computed from the bytes read before
ApplyWrite ==
    /\ pc = "write"
    /\ LET f   == held.file
           new == Rewrite[proposal[f]][held.bytes] IN
       /\ tree' = [tree EXCEPT ![f] = new]
       /\ receipts' = [receipts EXCEPT !.apply =
                          [writes |-> 1, file |-> f, from |-> held.bytes, to |-> new]]
       /\ history' = [history EXCEPT !.overwritten = tree[f]]
    /\ pc' = "postApply"
    /\ UNCHANGED <<expectation, edits, setup, proposal, red, revisions, held, outcome>>

\* Mutant: the revision is not captured again after the write.
PreApplyRevision == revisions.pre
PostApplyRevision == Revision(tree)

CapturePostApply ==
    /\ pc = "postApply"
    /\ revisions' = [revisions EXCEPT !.post = PostApplyRevision]
    /\ pc' = "resolveGreen"
    /\ UNCHANGED <<workspace, setup, proposal, red, receipts, held, outcome, history>>

(* ---- verification and the terminal decision ----------------------------- *)

\* The verifier is resolved again, now over the patched workspace (D3).
ResolveGreen ==
    /\ pc = "resolveGreen"
    /\ LET cmd == EffectiveCommand(request, tree) IN
       \/ /\ cmd = None
          /\ Block("VERIFICATION_COMMAND_RESOLUTION", {"agent", "parser", "applicator"},
                   None, NoReceipts)
          /\ UNCHANGED verification
       \/ /\ cmd # None
          /\ verification' = [verification EXCEPT !.command = cmd]
          /\ pc' = "verify"
          /\ UNCHANGED result
    /\ UNCHANGED <<workspace, setup, chain, history>>

\* verify_workspace: PASS / VALID / 0 iff the command exits 0
Verify ==
    /\ pc = "verify"
    /\ \E v \in Verdicts[verification.command][tree] :
          /\ verification' = [verification EXCEPT
                                 !.verdict = IF v.exit = 0 THEN Passing ELSE Failing]
          /\ history' = [history EXCEPT !.ran = @ \cup {"verifier"},
                                        !.verified = [tree |-> tree, run |-> v]]
    /\ pc' = "finalize"
    /\ UNCHANGED <<workspace, setup, chain, result>>

Verified == verification.verdict.status = "PASS"
Wrote    == receipts.apply.writes = 1

\* Mutants: the applicator's refusal is forgotten; the verdict is forgotten; a
\* failing verification blocks instead of failing.
OutcomeOfVerdictAlone == IF Verified THEN "COMPLETED" ELSE "FAILED"
OutcomeOfWriteAlone   == IF Wrote THEN "COMPLETED" ELSE "FAILED"
OutcomeBlocked        == IF Wrote /\ Verified THEN "COMPLETED" ELSE "BLOCKED"

\* The outcome run_governed_execution proposes to the finalizer: a run whose
\* applicator wrote nothing is FAILED whatever the verifier says.
ProposedOutcome == IF Wrote /\ Verified THEN "COMPLETED" ELSE "FAILED"

\* seal_execution_evidence, finalize_from_sealed_evidence and the result; the
\* finalizer's ValueError would escape.
Finalize ==
    /\ pc = "finalize"
    /\ LET allowed == CompletionAllowed(ProposedOutcome, verification.verdict) IN
       /\ result' = IF allowed
                    THEN [decision |-> ProposedOutcome, stage |-> None, attempted |-> Stages,
                          verdict |-> verification.verdict, proposal |-> proposal,
                          receipts |-> receipts]
                    ELSE result
       /\ pc' = IF allowed THEN "done" ELSE "raised"
    /\ UNCHANGED <<workspace, setup, chain, verification, history>>

(* ---- faults: exceptions of the workspace, which nobody catches ---------- *)

\* The files that are tested with is_file() and then read with read_bytes().
FilesRead ==
    {f \in Files :
        \/ pc = "capture" /\ f \in request.allowed
        \/ /\ pc = "validate" /\ f \in request.allowed
           /\ \E raw \in DOMAIN proposal : Normal[raw] = f
        \/ pc = "apply" /\ f \in DOMAIN proposal /\ ApplyAuthorised(f)}

\* Another process removes such a file between the two.
FileVanishes ==
    /\ edits < MaxEdits
    /\ \E f \in FilesRead :
          /\ tree[f] # Absent
          /\ tree' = [tree EXCEPT ![f] = Absent]
    /\ edits' = edits + 1
    /\ history' = [history EXCEPT !.fault = TRUE]
    /\ Raise
    /\ UNCHANGED <<expectation, setup, chain, outcome>>

\* write_bytes opens the file, which empties it, and then writes.
CutShort == [tree EXCEPT ![held.file] = Empty]

\* The file cannot be opened, or not be written once it is open.
WriteFails ==
    /\ pc = "write"
    /\ tree' \in {tree, CutShort}
    /\ history' = [history EXCEPT !.fault = TRUE,
                      !.overwritten = IF tree' = tree THEN @ ELSE tree[held.file]]
    /\ Raise
    /\ UNCHANGED <<expectation, edits, setup, chain, outcome>>

(* ---- the other writers --------------------------------------------------- *)

\* MaxEdits bounds how often other processes write while the run lasts.

ExternalWrite ==
    /\ pc \notin Terminal
    /\ edits < MaxEdits
    /\ \E f \in Files, c \in Contents \cup {Absent} :
          /\ c # tree[f]
          /\ tree' = [tree EXCEPT ![f] = c]
    /\ edits' = edits + 1
    /\ history' = [history EXCEPT !.raced = @ \/ pc = "write"]
    /\ UNCHANGED <<expectation, pc, setup, chain, outcome>>

ExternalStage ==
    /\ pc \notin Terminal
    /\ edits < MaxEdits
    /\ \E e \in Expectations \cup {None} :
          /\ e # expectation
          /\ expectation' = e
    /\ edits' = edits + 1
    /\ UNCHANGED <<tree, pc, setup, chain, outcome, history>>

Preflight == Start \/ CaptureExpected \/ CaptureRevision \/ BuildContract
Agent     == AgentDone \/ AgentFails \/ CheckReadOnly
Red       == QualifyBySeam \/ VerifyExpectation \/ ObserveRed \/ ObserveRedFails
Mutation  == \/ CapturePreApply \/ ParseProposal \/ ValidateProposal \/ AdmitMutation
             \/ CheckExactPaths \/ ApplyCheck \/ ApplyWrite \/ CapturePostApply
Green     == ResolveGreen \/ Verify \/ Finalize
Faults    == FileVanishes \/ WriteFails

Harness  == Preflight \/ Agent \/ Red \/ Mutation \/ Green \/ Faults
External == ExternalWrite \/ ExternalStage
Finished == pc \in Terminal /\ UNCHANGED vars

Next == Harness \/ External \/ Finished

\* The harness is a running thread; the agent and the verifier it waits for
\* are bounded by the timeouts it gives them.
Spec == Init /\ [][Next]_vars /\ WF_vars(Harness)

-----------------------------------------------------------------------------
(* Properties                                                              *)

Stops == Terminal \cup
    {"start", "capture", "captureRevision", "contract", "agent", "readOnlyCheck",
     "redSeam", "redExpectation", "redObserve", "preApply", "parse", "validate",
     "admit", "pathGate", "apply", "write", "postApply", "resolveGreen", "verify",
     "finalize"}

BlockStages == {"AGENT_PROCESS", "PROPOSAL_PARSE_OR_ADMISSION",
                "VERIFICATION_COMMAND_RESOLUTION"}

BeforeStates    == [expected : UNION {[S -> Contents] : S \in SUBSET Files},
                    revision : Option(Revisions)]
ContractRecords == [command : Option(Commands), binding : Option(Expectations)]
RedRecords      == [qualified : BOOLEAN, evidence : Option({"MATCH", "MISMATCH"}),
                    expectation : Option(Expectations)]
RevisionRecords == [pre : Option(Revisions), post : Option(Revisions)]
ReceiptRecords  == [admission : Option(AdmissionReceipts),
                    pathGate : Option(PathGateReceipts),
                    apply : Option(ApplyReceipts)]
VerdictRecords  == {NotRun, Failing, Passing}
Verifications   == [command : Option(Commands), verdict : VerdictRecords]
Results         == [decision : Option({"COMPLETED", "FAILED", "BLOCKED"}),
                    stage : Option(BlockStages), attempted : SUBSET Stages,
                    verdict : VerdictRecords, proposal : Option(Proposals),
                    receipts : ReceiptRecords]
Histories       == [ran : SUBSET Stages, captured : Option(Trees),
                    observed : Option(Observations), verified : Option(Observations),
                    overwritten : Option(Contents \cup {Absent}),
                    raced : BOOLEAN, fault : BOOLEAN]

\* Every variable keeps its type; a verifier that is set is a known command,
\* never the harness's own interpreter (resolve_target_verification_command).
TypeOK ==
    /\ tree \in Trees
    /\ expectation \in Option(Expectations)
    /\ edits \in 0 .. MaxEdits
    /\ pc \in Stops
    /\ request \in Requests
    /\ before \in BeforeStates
    /\ contract \in ContractRecords
    /\ proposal \in Option(Proposals)
    /\ red \in RedRecords
    /\ revisions \in RevisionRecords
    /\ receipts \in ReceiptRecords
    /\ held \in Option(HeldBytes)
    /\ verification \in Verifications
    /\ result \in Results
    /\ history \in Histories

\* A COMPLETED run went from red to green: the verifier that ran last exited 0
\* after exactly one write, on a declared file that still held the content
\* captured before the agent, and (comparator tier) the verifier had failed on
\* exactly the tests of the expectation bound when the contract was built.
CompletedIsRedToGreen ==
    result.decision = "COMPLETED" =>
        /\ history.verified.run.exit = 0
        /\ receipts.apply.writes = 1
        /\ receipts.apply.file \in request.allowed
        /\ receipts.apply.from = before.expected[receipts.apply.file]
        /\ request.tier = "comparator" =>
              /\ contract.binding # None
              /\ contract.binding.revision = before.revision
              /\ contract.binding.ids # {}
              /\ history.observed.run.exit = 1
              /\ history.observed.run.errors = {}
              /\ history.observed.run.failed = contract.binding.ids

\* The harness writes only under full authority: whatever other processes did
\* to the workspace or to the staged expectation in between, its one write
\* rewrites one declared file, from the content captured before the agent, in a
\* workspace whose revision was the captured one just before the chain, with
\* RED qualified by the expectation the contract is bound to.  A write that is
\* cut short empties that file, under the same authority, and ends the run.
AuthorisedWrite ==
    (tree' # tree /\ edits' = edits) =>
        /\ \E f \in request.allowed \cap DOMAIN proposal :
              \/ tree' = [tree EXCEPT ![f] = Rewrite[proposal[f]][before.expected[f]]]
              \/ pc' = "raised" /\ tree' = [tree EXCEPT ![f] = Empty]
        /\ revisions.pre = before.revision
        /\ red.qualified
        /\ request.tier = "comparator" =>
              /\ red.expectation # None
              /\ red.expectation = contract.binding

\* Every step of a governed run is such a step (execute_mutation_chain).
WriteIsAuthorised == [][AuthorisedWrite]_vars

\* When nobody else writes, the recorded revisions are the truth: RED was
\* observed on the captured workspace, the workspace is the captured one with
\* at most the one rewrite of the apply receipt (or with one file emptied, when
\* the run ended in the middle of its write), in the files no revision covers
\* too, and what the verifier judged has the post-apply revision of the result.
SoloRevisionsAreTrue ==
    edits = 0 =>
        /\ history.observed # None => history.observed.tree = history.captured
        /\ history.captured # None =>
              IF receipts.apply # None /\ receipts.apply.writes = 1
              THEN tree = [history.captured EXCEPT ![receipts.apply.file] = receipts.apply.to]
              ELSE \/ tree = history.captured
                   \/ pc = "raised" /\ held # None
                      /\ tree = [history.captured EXCEPT ![held.file] = Empty]
        /\ result.decision \in {"COMPLETED", "FAILED"} =>
              /\ revisions.post = Revision(tree)
              /\ history.verified.tree = tree

\* The stage flags of a result say what ran (the Q2 stage truth of
\* MutationExecutionResult), unless they are the keyword defaults of _block.
StageTruth ==
    (pc = "done" /\ result.attempted # DefaultAttempted) =>
        result.attempted = history.ran

\* The receipts of a result form a chain: an apply receipt has an allowing path
\* gate under it, a path gate an allowing admission, and a run blocked in the
\* chain ends with the receipt that denied it.
ReceiptsFormAChain ==
    LET r == result.receipts IN
    /\ r.apply # None => r.pathGate # None /\ r.pathGate.decision = "ALLOW"
    /\ r.pathGate # None => r.admission # None /\ r.admission.decision = "ALLOW"
    /\ result.decision \in {"COMPLETED", "FAILED"} => r.apply # None
    /\ result.decision = "BLOCKED" =>
          /\ r.pathGate # None => r.pathGate.decision = "DENY"
          /\ (r.admission # None /\ r.pathGate = None) => r.admission.decision = "DENY"

\* The write replaces what was captured before the agent, unless another
\* process wrote between the applicator's last read and its write.
LostUpdateOnlyIfRaced ==
    (history.overwritten # None /\ ~history.raced) =>
        history.overwritten = before.expected[held.file]

\* Once the agent ran, only a fault of the workspace can escape as an exception:
\* every other path of run_governed_execution ends in a result, the finalizer
\* never refuses what the pipeline proposes, and what a run has written and
\* receipted it always gets to report.
OnlyFaultsEscape ==
    pc = "raised" =>
        /\ history.ran = {} \/ history.fault
        /\ receipts.apply = None

\* A BLOCKED run left the workspace alone, except when no verifier could be
\* resolved for the patched workspace (there is no rollback).
BlockedRunsWroteNothing ==
    (result.decision = "BLOCKED" /\ history.overwritten # None) =>
        result.stage = "VERIFICATION_COMMAND_RESOLUTION"

\* Whatever the other writers do, the run ends.
Termination == <>(pc \in Terminal)
=============================================================================
