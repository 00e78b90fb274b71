# SynapX Harness: a verification project

This directory holds TLA+ specifications of the SynapX Harness (`src/synapx_harness`),
the TLC configurations that model-check them on small instances, and theorems about
them proved with TLAPS. The harness takes a task, lets a coding agent propose a patch,
and is the only party that may apply it: it admits the mutation when the task's tests
are known to fail (RED), applies the patch itself, runs the verifier (GREEN), and issues
a terminal decision. What it must get right is the order and the binding of these steps
while the workspace is shared with the agent, the tests it starts, an editor, or another
harness.

Paths below are relative to `src/src/synapx_harness/`.

## 1. Inventory

### Governed run: `kernel/governed_execution.py`
- **State.** None between calls. Within one `run_governed_execution`: the request, the
  `BeforeState` (pre-image of every declared path and the tree revision), the
  `WorkContract` (verifier scope, RED expectation binding), the agent's output, the RED
  verdict, pre- and post-apply revisions, receipts, the verification outcome, the result.
- **Operations.** `derive_allowed_write_paths`, `capture_before_state`, verifier
  resolution, expectation binding, agent execution, `assert_codex_did_not_mutate`, RED
  qualification, `execute_mutation_chain`, verifier resolution again,
  `verify_workspace`, sealing and finalizing, and `_block`, the common fail-closed exit.
- **Interactions.** Calls every other kernel component in sequence; shares the workspace
  and the staged `.synapx_red_expectation.json` with other processes.
- **Hard.** Every value read from the workspace may be stale when it is used; some forty
  early returns, each of which must report truthfully what has run; exceptions that an
  `except` clause does not list.
- **Correct when.** The one write happens under full authority; COMPLETED means red to
  green; a result tells what ran; every run ends.

### Mutation authority: `kernel/mutation_authority.py`
- **State.** Receipts (admission, path gate, apply), handed from stage to stage; the
  applicator holds the bytes it read until it writes.
- **Operations.** `parse_structured`, `MutationAdmissionGate.admit`,
  `ExactPathMutationGate.check`, `ControlledPatchApplicator.apply`,
  `GovernedMutationExecutor`.
- **Hard.** Read-then-write on a shared file; a chain of receipts that has to refer to
  the same revision; two path normalisations.
- **Correct when.** A receipt exists only on top of an allowing one; no write without
  all of them; the write replaces what was captured.

### Proposal contract: `kernel/mutation_proposal_contract.py`
Pure: the write set of a task, the instruction, and `validate_mutation_proposal`, which
reads the workspace. Correct when a valid section has a declared, existing, unchanged
file in which OLD occurs exactly once.

### RED qualification: `kernel/red_qualification.py`, `evidence/pytest_result_parser.py`
Pure, over a staged expectation and an observation. Correct when only a test failure
with exactly the expected failing tests, by the same command on the same revision,
qualifies. Hard: the expectation is read twice, the observation is stamped with a
revision captured earlier.

### Terminal finalizer: `kernel/terminal_finalizer.py`
Pure; raises `ValueError` for a COMPLETED that its evidence does not support. Correct
when the pipeline never proposes what it refuses.

### Codex runtime adapter: `adapters/codex/`
- **State.** Cancel flags per attempt (kept for the adapter's life), the child process,
  two reader threads and their holders.
- **Operations.** `execute`, `cancel`, `invoke` (launch, write stdin, start readers, poll
  loop, kill, wait, join), `_normalize`.
- **Interactions.** Threads: harness, two readers, a canceller; processes: the agent
  and whatever it starts, through three pipes.
- **Hard.** Pipe back-pressure, exit against cancel against deadline, the exit between
  the last poll and the kill, a descendant that holds the pipes.
- **Correct when.** A DONE is uncontested, byte counts are exact, no agent is left
  running, and `execute` answers.

### Controlled command runner: `evidence/`
`run_command`, `run_controlled` (refuses a command outside its scope), receipts and
their validator. One process per call; on a timeout with `shell=True` only the shell is
killed. Correct when exit codes, including -1 for a timeout, reach the verdict.

### Run storage garbage collector: `storage/`
- **State.** On disk: the directory of runs, with the files that mark a run as active,
  finished, sealed, pinned; the documents that mention a run. In memory: catalog, plan,
  fresh plan per candidate, receipts.
- **Operations.** Reference scan, census, classification, `build_dry_run` (TTL or quota),
  `execute_gc` (revalidate against a whole new plan, `rmtree`, receipt).
- **Interacts** with running harnesses through the file system only; no lock.
- **Hard.** A run becomes active between the revalidation (`gc.py:319`) and the deletion
  (`:343`); `rmtree` fails half way; every deletion changes the plan the next candidate is
  revalidated against; the quota is met exactly.
- **Correct when.** Nothing active, guarded or mentioned is removed outside that window,
  what was planned is done and no more, and the receipts tell it.

### Command line and console: `cli/`
- **State.** Per process: the cached readiness of the bridge, the console's loop. Across
  processes: the workspace, the staged expectation, the file at `--receipt-out`.
- **Operations.** `synapx [task]`, the console, `synapx run [--receipt-out]`; the bridge
  (`governed_runtime_bridge.py`), which probes the agent, runs the governed execution and
  lets its exceptions escape; the projections of a result to a label, an activity section,
  assurance claims and an exit code.
- **Hard.** Ctrl-C in the middle of a run; a receipt that cannot be written after a
  COMPLETED run, or is left over from an earlier one; a cached probe; a result that must be
  shown truthfully from flags with defaults.
- **Correct when.** Exit code, screen and receipt tell the same story, the true one.

### Review pipeline: `review/`, `cli/main.py`
- **State.** On disk: the review directory, the package (a ZIP), its `.sha256`, the seal
  receipt. In memory: the gates of a pipeline run until it writes the candidate state.
- **Operations.** `run_pipeline` (commands, manifests, summary, negative exploits, location
  receipt, provenance, candidate state, index), `review build`, `review seal`,
  `review verify-seal`; the structural, semantic and C3-R1 verifiers.
- **Hard.** A dozen files, each hashed by a later one; a stage that fails and is passed over;
  two runs in one directory; a crash between stages and the directory handed over as it is;
  a package replaced between two reads of it.
- **Correct when.** An accepted package holds the evidence of one run, and a certificate
  beside it certifies that package.

### Legacy mutation session and provider: `kernel/mutation_session.py`, `kernel/governed_runtime_provider.py`, `kernel/mutation_qualification_port.py`
An earlier phase machine over the same chain, and a port with independent checks of
qualification evidence. `GovernedRuntimeProvider` is used by tests only;
`GovernedMutationSession.run` passes keywords its callee no longer has.

### Contract builders and lineage: `kernel/work_contract_builder.py`, `verification_planner.py`, `risk_classifier.py`, `c3_r1_lineage.py`
Pure construction of records, hashes and risk classes. Correct when the lineage envelope is
the one of the run just shown.

### Context scanner, validators, contracts, Kiro adapter, test support
`context/` walks a directory and renders it; `validators/` check governance documents, each
in one reading; `contracts/` and `_schemas/` declare record types; `adapters/kiro/` is a
second adapter without concurrency; `testing/` holds fixtures.

## 2. Modules

| Module | What it is |
| --- | --- |
| `GovernedRun` | one `run_governed_execution`, with the mutation chain, RED qualification and finalizer inlined where it calls them; its properties |
| `GovernedRunInvariant` | the inductive invariant `IInv` |
| `GovernedRunSteps` | proofs: every action keeps `TypeOK` and what a result says of its run |
| `GovernedRunProofs` | proofs: `IInv` is an invariant, and what follows from it |
| `GovernedChange` | abstract specification: grant, change, verify, decide |
| `GovernedChangeProofs` | proofs: the refinement, action by action |
| `GovernedRunClaims` | the refinement of `GovernedChange`; what comments say and the code does not do |
| `MCGovernedRun` | instances for TLC |
| `Presentation` | what the command line shows of a result of `GovernedRun`; its properties |
| `PresentationProofs` | proofs: what is shown is true of the run |
| `FrontDoor`, `MCFrontDoor` | the processes a user runs one after another, composed with `GovernedRun`; the inductive invariant `FrontDoorInv` |
| `FrontDoorProofs` | proofs: `FrontDoorInv` is an invariant, and the properties of `FrontDoor` |
| `CodexRuntime` | one adapter execution: harness thread, readers, canceller, agent, descendant |
| `CodexRuntimeProofs` | proofs: its inductive invariant and its safety properties |
| `MCCodexRuntime` | for TLC |
| `RunStorageGC`, `MCRunStorageGC` | one garbage collection beside the harnesses that own the runs |
| `RunStorageGCProofs` | proofs: the selection of a plan, the inductive invariant, the safety properties |
| `ReviewArtifacts` | the files of a review directory and a package as data; the verifiers and seals |
| `ReviewAttacks` | the 18 attacks of the negative exploit matrix, the C3-R1 form and its six mutants |
| `ReviewPackage`, `MCReviewPackage` | pipeline, build and seal over one review directory; the inductive invariant `IInv` |
| `ReviewPackageProofs` | proofs: what each stage writes, the inductive invariant, the attacks, the safety properties |

`MCFrontDoor` is the composition of `FrontDoor` with `GovernedRun`; `GovernedRun` sees
`CodexRuntime` as `AgentDone` or `AgentFails`; the collector and the review pipeline meet
the others only through files, which are the edits of other processes in their models.

### GovernedRun and the code
`pc` is the place in `run_governed_execution`. An action is the code between two
accesses to shared state, so every interleaving with other writers is a behaviour:

| `pc` | Action | Code (`governed_execution.py` unless named) |
| --- | --- | --- |
| `start` | `Start` | the task and its write set, 1653-1682 |
| `capture`, `captureRevision` | `CaptureExpected`, `CaptureRevision` | `capture_before_state` |
| `contract` | `BuildContract` | verifier resolution and expectation binding, 1720-1740 |
| `agent` | `AgentDone`, `AgentFails` | adapter result, 1742-1843 |
| `readOnlyCheck` | `CheckReadOnly` | `assert_codex_did_not_mutate` |
| `redSeam` / `redExpectation`, `redObserve` | `QualifyBySeam` / `VerifyExpectation`, `ObserveRed`, `ObserveRedFails` | the override or legacy evidence / `_qualify_red_by_comparator` |
| `preApply` ... `validate` | `CapturePreApply`, `ParseProposal`, `ValidateProposal` | `execute_mutation_chain`, `validate_mutation_proposal` |
| `admit`, `pathGate` | `AdmitMutation`, `CheckExactPaths` | the gates of `mutation_authority.py` |
| `apply`, `write`, `postApply` | `ApplyCheck`, `ApplyWrite`, `CapturePostApply` | the applicator: its last read, then its write |
| `resolveGreen`, `verify`, `finalize` | `ResolveGreen`, `Verify`, `Finalize` | D3, `verify_workspace`, seal and finalize |
| `capture`, `validate`, `apply` | `FileVanishes` | a file removed between `is_file` and `read_bytes` |
| `write` | `WriteFails` | `write_bytes` cannot open the file, or not write it once it is emptied |
| any | `ExternalWrite`, `ExternalStage` | another process writes a file or the staged expectation |

`done` is a returned result, `raised` an exception that nobody up to the entry point
handles: it ends the process. `history` records what really happened, for the properties only.
`_block` is the operator `Block`; its keyword defaults for the stage flags are
`DefaultAttempted`.

Abstractions: digests are injective, hence a digest is what it digests. Contents are the
CRLF-normalised bytes. A proposal is a function from raw paths to OLD/NEW pairs (an
ill-formed one is `None`); `Rewrite` says what a pair does to a content, `Normal` what
`normalize_write_token_path` does to a raw path. A verifier run is any member of
`Verdicts[command][tree]`: exit code, failed tests, error tests. A tree hash and a verifier
run each see one instant, and so does the pair `is_file`/`read_bytes` unless the file
vanishes between the two. The envelope, identities,
timestamps and messages are left out.

### CodexRuntime and the code
`pc` follows `execute` and `invoke`: `execute`, `launch`, `write`, `threads`, then the poll
loop `poll`, `pollCancel`, `pollDeadline`, then `kill`, `wait`, `killAgain`, `joinOut`,
`joinErr`, `normalize`. `Popen.kill` is a pending SIGKILL (and nothing at all for a process
that its own poll finds exited). `holders` is, per stream, who holds the write end of the
pipe: a reader sees the end of the stream when the pipe is empty and nobody holds it. The
agent is any program; it commits to a blocking read or write before it can do anything
else, which is what makes a deadlock possible. Bytes are counted in chunks, time is one
bit.

### Presentation, FrontDoor and the code
`Presentation` holds operators over `result`: `Activity` (`cli/agent_activity.py`),
`MutationState`, `ScopeState`, `VerificationState`, `EvidenceState`, `ShownCommand`
(`cli/assurance_presentation.py`), `Label` (`frontdoor.py`, `PRESENTATION_MAP`).

`FrontDoor` puts a process around the run. `cli.at` is where the process is, `cli.shape`
what it was started as:

| `cli.at` | Action | Code (`cli/frontdoor.py` unless named) |
| --- | --- | --- |
| `open` | `Refuse`, `CheckAgent`, `RunCommand` | option and workspace checks; the readiness gate, which `run` does not have |
| `task` | `ReadTask`, `ConsoleTask`, `ConsoleQuit` | the prompt, a piped task, the console's loop |
| `invoke` | `Invoke` | `invoke` of `governed_runtime_bridge.py`: probe once, block or run |
| `working` | `Work` | one step `Harness` of `GovernedRun` |
| `receipt` | `WriteReceipt` | `run --receipt-out`, before anything is shown |
| `show` | `Show` | label, screen, `_enforce_public_exit_contract` |
| `idle`, `exited` | `Again` | the next line of the console, or the next process |
| any | `Interrupt`, `CodexGoes` | Ctrl-C; the executable is uninstalled |

`Again` resets the variables of one run and keeps what outlives it: workspace, staged
expectation, receipt file, and in a console the cached probe. Requests that the command line
cannot express (a verification command, the RED seam) belong to the shape `library`, a
program that calls the bridge.

### RunStorageGC and the code
A run directory is the set of kinds of file in it, which is all the classifier looks at, and
its mtime. `pc` follows `execute_gc`: `list` and `census` (`build_catalog`: the reference scan, then
directory after directory), `recheck`, `relist`, `recensus` (`_revalidate_candidate`: the
direct checks, then the whole plan anew), `remove`, `rmtree` (unlinking entry by entry in any
order, failing anywhere), `report`. Other processes write files, remove markers, remove runs,
mention runs, or make the scanned directories unreadable, between any two steps.
`history.raced` notes an edit of the candidate after the last look the collector takes at
it; `history.quiet` that there was neither an edit nor an I/O error.

### ReviewArtifacts, ReviewAttacks, ReviewPackage and the code
A file name is a tuple, a content a record, and `Sha` wraps what it digests. Every builder and
every verifier is an operator on these: `TestEvidenceManifest` and `VerifyTestEvidence`,
`BuildIndex` and `VerifyIndex`, `Structural`, `Semantic`, `SealReceipt`, `VerifySeal`. So what
a verifier binds, and what it does not, is computed and not assumed. The attacks of
`negative_exploit.py` are run by these operators on broken artifacts. Where an attack of the code
is refused for another reason than the one it is named for, the model refuses it for that
reason too.

In `ReviewPackage` a run is one of two kinds: `build` (`review build`, which runs the pipeline
itself) and `given` (`review build --review-artifacts`). A receipt carries the run it is of (`run`, for
`started_at` and `finished_at`), so those of two runs differ even where the outputs are the same bytes,
as those of a clean checker are, and the directory its paths are relative to (`base`). `run_pipeline`
writes paths relative to the review directory and accepts no others; the semantic verifier accepts only
paths relative to the package (`claim_own_directory`). So a directory as the pipeline leaves it is
refused as a package, and a canonical package stands for a directory that somebody has prepared and
handed in: `Readdress`, an external step, makes the paths of the receipts package-relative and
changes nothing else, at any time when no run is at work. `run[i].at` walks through the stages of `run_pipeline`
(`commands`, `evidence`, `attacks`, `scm`, `candidate`, `index`) and of `review build` (`payload`,
`check`, `sidecar`). `sealer` is one `review seal`, a step per read. Around them: an edit and a commit
of the core repository, a failing command stage, a scratch directory that cannot be removed, a
crash, a second run at the same time. Stages 3 to 5 are one step, so is packing the
directory; one sealing per behaviour.

## 3. What the runs check

| Run | Question | Size |
| --- | --- | --- |
| `governed_solo` | Two tasks one after the other, from any shape of process, alone: is a result what it claims, and do screen, exit code and receipt file say so? Five workspaces (uv, poetry, no verifier, missing file, already fixed), twelve requests, seven proposals and garbage, nine expectations and none | 1,068,684 states |
| `governed_shared` | One run beside other writers that write or remove a file, or restage the expectation, twice and anywhere | 811,715 states |
| `codex_run` | One execution against any agent, a canceller, a deadline and a child | 248,312 states |
| `storage_gc` | One collection over three runs, alone and beside two edits anywhere | 246,037 states |
| `review_package` | Three runs over one review directory, two of them pipelines, a directory prepared by hand at any time between them, one disturbance, one sealing | 253,346 states |

**governed_solo.** `CompletedIsRedToGreen`: COMPLETED means that the last verifier run
exited 0 after one write on a declared file from its captured content, and in the
comparator tier that the verifier had failed on exactly the tests of the bound
expectation. `SoloRevisionsAreTrue`: without interference the recorded revisions are the
workspace's, and the workspace is the captured one with at most the one rewrite, in the files no
revision covers too. `StageTruth`: the stage flags of a result are the stages that ran.
`ReceiptsFormAChain`: no receipt without an allowing one below it. `ChangesAreNotHidden`: the
Changes section names the files that differ, and a run that wrote is never shown as one that did
not. `ShownVerificationIsEarned`: a verification shown with its command was run by that command.
`ExitTellsTheDecision`: a process exits 0 exactly when VERIFIED was shown, and then the workspace
holds the one verified repair. `ReceiptIsOfTheRunShown`: a label shown by `run --receipt-out` has
the receipt of this very run on disk. `ExpectationIsSpent`: the first write that moves the
revision is the last one a staged expectation authorises, however many tasks follow and wherever that
one was interrupted; a write to a file the revision skips does not spend it (section 4).
`ReadinessIsHonoured`: without `--receipt-out` nothing runs on an agent
that was not found ready. `FrontDoorInv` is the invariant of the proofs.

**governed_shared.** `IInv`, the invariant of the proofs. `WriteIsAuthorised` (action
property): every change of the workspace that is not another writer's is the rewrite of
one declared file from its captured content under RED, gates and revision, or that same
write cut short with the file emptied.
`LostUpdateOnlyIfRaced`: an edit of another process is lost only if it falls between the
applicator's last read and its write. `OnlyFaultsEscape`: once the agent was started, an
exception escapes only from a file that vanished or could not be written, never after a
receipt of the applicator, so the finalizer never refuses what the pipeline proposes.
`BlockedRunsWroteNothing`: a BLOCKED run wrote nothing, except when no verifier
was found afterwards. `ImplementsGovernedChange`: the run refines `GovernedChange`; the
step that is hard for it is the applicator refusing late, after every gate allowed, in a
workspace that somebody else has repaired, so that the verifier passes all the same.
`ActivityIsTrue`: the agent section says what the agent did, and Unavailable stands only for a run
blocked because the workspace changed under the agent. `VerifiedIsEveryTick`: VERIFIED stands over a
completed agent, an observed mutation, an authorized scope, a passed command and qualified
evidence, and nowhere else. `Termination`.

**codex_run.** `OutputIsComplete`: every byte written by the agent or its child is counted,
and nobody can write any more. `NoAgentLeftRunning`. `ExitCodeIsTheAgents`: 0 means the
agent exited with 0; -1 only when a killed agent could not be waited for.
`DoneIsUncontested` (action property): DONE is answered only if nobody has asked for
cancellation by then, the deadline did not fire, and the agent exited with 0 by itself.
`IInv` is the invariant of the proofs. `Termination`.

**storage_gc.** `UnsafeRemovalOnlyIfRaced`: a removal of an active, guarded or mentioned run
begins only if that came after the last look. `ReceiptsTellTheTruth`: receipts, counts and disk agree at
the end; a half-finished removal is reported as failed. `PlanIsCarriedOut`: alone, the plan
survives its own deletions, candidate after candidate, and leaves what it projected.
`QuotaPlanIsTight`: the oldest eligible runs and not one more than needed. `IInv` is the
invariant of the proofs. `Termination`.

**review_package.** `ReadyIsEarned`: a package that calls itself READY and agrees with its own index
and test manifest, canonical or not, holds recorded receipts, outputs, exit codes, summary, report and
provenance of one run, whose checkers passed, whose pytest was heard to pass and whose attacks were all
detected. This is what the packages that the pipeline makes by itself are held to. There are two
exceptions, and TLC finds a package for each: two pipelines overlapped, or the command stage of the
run failed, in
which case it writes READY over the receipts of the run before and then ends "not ok".
`SealAcceptance`: `verify-seal`
accepts only the receipt that describes the package in every field, those included that it does not
compare, unless the package was replaced during the sealing. `SidecarCertifiesVerified`: a
matching `.sha256` stands beside a canonical package, with the same exception. `MembersAreBound`: no
member can be exchanged for what any run left in the directory, manifest and all, without the package
ceasing to be canonical, overlaps and crashes included. What can be exchanged is stated: the
receipt of a command for another of the same outputs and exit code (the semantic verifier compares no receipt
with the digest that the command manifest lists); the sources and the copies of the outputs; and, in
a package that is not READY, the receipts recorded in `test_evidence/`, which its manifest may not list
(it takes more runs and disturbances than the bounds have to make such a package).
`SettledDirectoryIsConsistent`: after a pipeline the index and the test manifest describe the
directory. `NegativesAreDetected`: all attacks are detected, after a scratch directory that was not removed
all but the one on the census, and all C3-R1 mutants. `IInv` is the invariant of the
proofs.

### Bounds, and why they are enough
- *Four files.* One source file, the two that decide which verifier is found, and one under `build/`
  that no revision covers. The applicator changes one file, so a second source file would behave like
  `pyproject.toml`, which a proposal may also name.
- *Five contents.* With the defect or repaired, each with or without somebody else's edit:
  a lost update is the difference between `fixed` and `fixed+edit`; and the emptied file
  that a write cut short leaves.
- *`MaxEdits` = 2* in `governed_shared`: enough to change and restore a file, or to change
  both a file and the expectation, around any check; 0 in `governed_solo`. The theorems hold
  for every `MaxEdits`.
- *`governed_shared`* uses two requests (one per RED tier), two proposals and three
  expectations; the full product is in `governed_solo`.
- *`MaxRuns` = 2 tasks* in `governed_solo`: one task that leaves something behind, and one
  that finds it. Any longer history of processes meets the same three leftovers: workspace,
  expectation, receipt file.
- *Collections.* `Now` = `Ttl` = 2, three runs, `Quota` 5 where a run weighs 0 to 4: within and over the
  quota, met exactly and not met by all that may go. Quiet worlds combine eleven shapes of directory;
  contended ones take a few shapes and two edits, enough for a change and its reversal around any
  look of the collector.
- *Review.* Two pipelines and a third run are what it takes to mix the files of two runs and pack
  them; one disturbance at a time (the theorems hold for any number), because two independent
  faults are excused by the same exceptions. Two commands: pytest and one static checker. Pytest is
  heard to pass, in the run where one error goes unheard (a clean run is the same to every later stage)
  and prints one of two things, or is killed and heard as nothing; a checker prints the same in every
  run that ends alike. So two runs can differ in an output or in nothing but their receipts. Three
  versions: the initial one, a change, and one whose paths
  collide.
- *Chunks.* Payload 2; two chunks per stream against a cap and a pipe of one, so a stream
  can exceed both. The stdin pipe holds the payload (2 chunks) except in
  `claim_pipe_deadlock`, where it holds one.

### Fairness
`GovernedRun`: `WF_vars(Harness)`. The harness is one running thread, and what it waits for
is bounded: the agent by the adapter (`CodexRuntime`), the verifier by the timeout of
`run_command`. Nothing is assumed of the other writers. The bound on the agent is what
`codex_run` shows and `claim_finite_limits` limits: it needs every descendant of the agent
to give up the pipes.

`CodexRuntime`: weak fairness of the harness thread, of each reader, of time, and of the
death of a killed process (`Spec`). Nothing is assumed of the agent, which may hang in a
read, a write or by itself. `SpecChildEnds` adds that the child goes away in the end;
`codex_run` uses it, `claim_finite_limits` shows that it is needed.

`RunStorageGC`: `WF_vars(Collector)`, one thread that waits for nobody; nothing of the others.

`FrontDoor` and `ReviewPackage` state no fairness and no liveness: a console may wait at its prompt
for ever, and the end of the run inside it is `Termination` of `GovernedRun`.

## 4. What the code does otherwise than its comments say

Each has a run that ends with TLC's counterexample.

- `claim_write_receipt`: a patch that removes the `[tool.poetry]` table leaves no verifier.
  The run is BLOCKED with the write in place and without an apply receipt, although
  `_block` is to preserve "evidence lineage" (`kernel/governed_execution.py:2273`).
- `claim_path_spelling`: `./calc.py` passes validation, which normalises, and is denied by
  the path gate, which does not, although the two "cannot diverge"
  (`evidence/command_runner.py:248`).
- `claim_expectation_shape`: a staged expectation that is a JSON array raises `TypeError`
  out of the run instead of being "unbound" (`kernel/governed_execution.py:1383`).
- `claim_pipe_deadlock`: the stdin payload is written before the readers exist, outside the
  deadline; an agent that prints first deadlocks with it once both pipes are full
  (`adapters/codex/runtime.py:18`).
- `claim_broken_pipe`: an agent that exits with 0 without reading its instruction is
  `PROCESS_SUCCESS` (`adapters/codex/runtime.py:401`).
- `claim_finite_limits`: a descendant that keeps the pipes holds `execute` after the
  deadline (`adapters/codex/models.py:101`).
- `claim_own_directory`: `review build` without `--review-artifacts` records the outputs relative to the
  review directory, and the semantic verifier wants them relative to the package; nothing
  `run_pipeline` leaves is canonical, whoever calls it, because it passes `artifact_root=review_root` itself
  (`review/evidence_pipeline.py:292`), although "If absent, the pipeline generates it" (`cli/main.py:207`).

Visible in the models, without a run of their own: an empty task raises a
`ValidationError` out of `_block` (`Start`); results of tasks without a write set, and of
direct mutation by the agent, report the parser and the verifier as attempted
(`DefaultAttempted`, which `StageTruth` therefore excepts); the command resolved for the
contract is resolved again after the write (`ResolveGreen`); the RED observation carries
the revision from before the agent (`ObserveRed`); a source revision skips `build/`, `dist/`, `.venv/`,
`node_modules/`, the caches and `.synapx_*` files (`Revision`, 325-348), which
`parse_allowed_write_paths` accepts as targets and the agent may write to unnoticed: such a write leaves
the staged expectation good for another one (`ExpectationIsSpent`); a cancelled agent that outlives the
five seconds of `wait` is reported CANCELLED (`Status`); a file that vanishes while it is read,
or a write that fails (perhaps with the file already emptied), ends the process with no
result and no receipt (`Faults`).

*Command line.* The bridge's comment says that unready runs are rejected before execution, but the
receipt path probes nothing (`RunCommand`). A task of spaces is BLOCKED by `run` and raises a
`ValidationError` with `--receipt-out`. A receipt that cannot be written turns a COMPLETED run into
exit 1 with nothing shown, and a run that raises leaves the earlier receipt in place
(`WriteReceipt`, `Work`). The console exits 0 whatever its tasks came to (`ConsoleQuit`). A run blocked by
the read-only proof or for want of a write set shows "Verification FAILED" although no verifier ran
(`VerificationState`); a run blocked after its write shows its changed files as unavailable.

*Collector.* Under quota pressure an expired run that is not needed gets no receipt and is counted
nowhere (`ReceiptsTellTheTruth` excepts it). A candidate touched after the plan is still removed if a
new plan selects it again, although the docstring of `_revalidate_candidate` rejects on any change of
state. A reference in a file over 5 MB is no reference (`ScanResult`). A run whose terminal
evidence is its `final_seal.json` is protected for ever (`Guards`).

*Review.* A command stage that fails leaves the receipts of the run before to be counted
(`CommandStageFails`): the pipeline then writes READY and ends "not ok". The semantic verifier does not
compare a packaged receipt with the digest in the command manifest (`PackagedReceiptHolds`,
`review/semantic_verifier.py:224`), so that another run's receipt of the same outcome passes for it.
The exit code of pytest is not used, and "1 error" is heard as a clean run
(`Leading`, `SummaryIsClean`). A scratch directory that could not be removed hides attack 9 or, with its
`.git`, makes later pipelines raise (`AttacksRaise`). The location receipt is not recounted after stage
7. The snapshot manifest lists files the package leaves out. `verify-seal` compares the digests of the
package and of the state, the phase and the verdict (`VerifySeal`), and accepts packages whose
verdict is FAIL. A package that is rejected stays at the output path. Tests run in the working tree
while the package holds the commit of `--core-ref` (`Outcomes`, `BuildPackage`); nothing binds the packaged
sources to the provenance records, and nothing reads the copies of the outputs that lie beside the
copied receipts (`Copied`); `MembersAreBound` therefore excepts both.

## 5. What is proved

TLAPS checks, for all values of the constants that satisfy the assumptions:

| Module | Theorem | Statement |
| --- | --- | --- |
| `GovernedRunProofs` | `TypeCorrect`, `Invariance` | `Spec => []TypeOK`, `Spec => []IInv` |
| | `RedToGreen` | `Spec => []CompletedIsRedToGreen` |
| | `AuthorisedWrites` | `Spec => WriteIsAuthorised` |
| | `LostUpdatesAreRaces` | `Spec => []LostUpdateOnlyIfRaced` |
| | `SoloRevisions` | `Spec => []SoloRevisionsAreTrue` |
| | `EscapesAreFaults` | `Spec => []OnlyFaultsEscape` |
| | `BlockedWroteNothing` | `Spec => []BlockedRunsWroteNothing` |
| | `StageFlagsAreTrue` | `Spec => []StageTruth` |
| | `ReceiptChains` | `Spec => []ReceiptsFormAChain` |
| `GovernedChangeProofs` | `Refinement` | `Spec => ImplementsGovernedChange` |
| `PresentationProofs` | `ActivityTrue` | `Spec => []ActivityIsTrue` |
| | `VerificationEarned` | `Spec => []ShownVerificationIsEarned` |
| | `VerifiedEveryTick` | `Spec => []VerifiedIsEveryTick` |
| | `ChangesShown` | `Spec => []ChangesAreNotHidden` |
| `FrontDoorProofs` | `FrontDoorInvariance` | `FrontDoorSpec => []FrontDoorInv` |
| | `EveryRunOfAProcess` | `FrontDoorSpec => [](` the properties of one run that `governed_solo` checks `)` |
| | `ReceiptShown` | `FrontDoorSpec => []ReceiptIsOfTheRunShown` |
| | `ExitIsTrue` | `FrontDoorSpec => [](edits = 0 => ExitTellsTheDecision)` |
| | `ExpectationSpentOnce` | `FrontDoorSpec => [](edits = 0 => ExpectationIsSpent)` |
| | `ReadinessHonoured` | `FrontDoorSpec => [](edits = 0 => ReadinessIsHonoured)` |
| `CodexRuntimeProofs` | `Invariance` | `Spec => []IInv`, which contains `TypeOK` |
| | `CompleteOutput` | `Spec => []OutputIsComplete` |
| | `NoAgentLeft` | `Spec => []NoAgentLeftRunning` |
| | `ExitCodeTrue` | `Spec => []ExitCodeIsTheAgents` |
| | `UncontestedDone` | `Spec => DoneIsUncontested` |
| | `DeadlineIsFinal` | `Spec => NoTurnAfterTheDeadline` |
| | `JoinsAreFree` | `Spec => []JoinsWaitForNoAgent` |
| `RunStorageGCProofs` | `Invariance` | `Spec => []IInv`, which contains `TypeOK` |
| | `RemovalsAreSafe` | `Spec => []UnsafeRemovalOnlyIfRaced` |
| | `ReceiptsAreTrue` | `Spec => []ReceiptsTellTheTruth` |
| | `PlanCarriedOut` | `Spec => []PlanIsCarriedOut` |
| | `QuotaIsTight` | `Spec => []QuotaPlanIsTight` |
| | `CollectionIsBounded` | `Spec => [](StepsLeft \in 0 .. MaxSteps)` |
| | `CollectionEnds` | `Spec => CollectorComesNearer` |
| `ReviewPackageProofs` | `Invariance`, `TypeCorrect` | `Spec => []IInv`, `Spec => []TypeOK` |
| | `SealsAreOfThePackage` | `Spec => []SealAcceptance` |
| | `SidecarsCertify` | `Spec => []SidecarCertifiesVerified` |
| | `SettledDirectory` | `Spec => []SettledDirectoryIsConsistent` |
| | `ReadyEarned` | `Spec => []ReadyIsEarned` |
| | `MembersBound` | `Spec => []MembersAreBound` |
| | `NegativesDetected` | `Spec => []NegativesAreDetected` |

### Assumptions
All are named, stand in the module that declares the constants, and are evaluated by TLC in the
passing runs.
- `GovernedRun`: `WorkspaceAssumption`, `ProposalAssumption`, `VerifierAssumption`,
  `RequestAssumption` describe the constants. Three say something of the code: a proposal names at
  least one path; OLD and NEW of a pair differ, so that a rewrite changes the file; a verifier run
  always has some outcome. `NoneAssumption`, and in the modules above it `SentinelAssumption` and
  `NoLabelAssumption`, keep Python's `None` and the synthetic command of a blocked result apart
  from every value they might be confused with.
- `CodexRuntime`: payload, pipes, output and cap are numbers.
- `RunStorageGC`: the runs are a finite set of numbers (a number stands for the order of the ids),
  times and quota are numbers, the weights of the kinds of file are numbers.
- `FrontDoor`: `MaxRuns` is a positive number. It only bounds how many tasks TLC gives.
- `ReviewArtifacts`, `ReviewPackage`: pytest is among the commands and the harness core among the
  repositories; the initial version is one of the versions; `MaxRuns` is a number. How pytest
  and the checkers can end is not restricted.

### The governed run
`CompletedIsRedToGreen` is not inductive: it speaks of the end of the run, and what makes it true was
established stages earlier, with other writers active since. `IInv` says what each stage may rely on:
- `RevisionKnown`, `VerifierKnown`: what is captured or resolved is never lost before its use, and a
  run whose agent was started has its revision to the end;
- `RedIsBound`: RED is not qualified before its stage; in the comparator tier it is qualified only by
  an expectation equal to the contract's, with a matching run;
- `AuthorityChain`: from admission on, the receipts allow and carry the captured revision; while the
  applicator holds bytes they are the captured ones, of one declared file that the proposal names, and
  OLD occurs in them;
- `VerdictIsTrue`: a passing verdict comes from a run that exited 0, and COMPLETED needs RED, a write
  and such a verdict;
- `StagesRanInOrder`, `ReceiptsInOrder`: what has run and which receipts exist are functions of the
  place in the code; this is what makes the flags of a result provable at its ten exits, and what
  shows that an exception never meets a receipt of the applicator;
- `WriteIsWatched`: between the applicator's last read and its write the file is what it read, unless
  a race has been noted;
- `ResultIsOneOf`: a result has one of six shapes (`RefusedEarly`, `AgentStopped`,
  `WorkspaceTouched`, `ChainStopped`, `NoVerifier`, `Judged`), each with what has happened by then.
  Every statement about a result (stage flags, receipts, all of `Presentation`) is proved by going
  through the shapes;
- `AloneNothingMoves`: as long as nobody else has written, the captured pre-images and revisions are
  those of the workspace at every stage, hence `SoloRevisionsAreTrue`.

The conjuncts before `WriteIsWatched` do not mention the present content of a file, which is why
other writers cannot disturb them; the last ones do, under the condition that nobody has interfered.
Type correctness is proved action by action (`GovernedRunSteps`); it needs `AuthorityChain` for the
write (the rewrite succeeds on the bytes held) and `VerifierKnown` for the verifier runs. Then one
lemma per conjunct goes through the actions (`GovernedRunSteps` for those about results,
`GovernedRunProofs` for the others).

*Refinement.* Under the mapping of `GovernedRunClaims`, an allowing `CheckExactPaths` is `Grant`, the
write is `Change`, a passing `Verify` is `Pass`, and every block, the finalizer and every exception is
`Decide`; all other steps, those of other writers included, are stutters. `IInv` supplies what the
abstract guards ask for: the authority is the declared write set, nothing is changed before the write
and nothing verified before the verifier, and COMPLETED stands on both.

### The command line
`FrontDoorInv` is `IInv` of the run inside, and what relates it to the process around it:
`RunOfProcess` (no run before "working", a result before "show"), `ScreenAndExit`, `ReceiptOnDisk`,
`AgentIsThere`, and `ExpectationBound`: after the first write under the staged expectation that moves
the revision, the workspace is no longer at the one revision the expectation is bound to. The last
one is what makes
`ExpectationIsSpent` inductive over any number of tasks, interrupted ones included: `Work` writes in
the comparator tier only at that revision (`BoundWrite`, from `RedIsBound` and `AloneNothingMoves`)
and a write to a file the revision covers leaves it; one to a skipped file does not, and is not counted
as long as it comes before. `Again` starts a run in a state from which `CalledInvariant` gives `IInv`
whatever the workspace holds; so the properties of one run hold of every run of every process.

The hypothesis `edits = 0` means that no file has vanished while a run was reading it, the only step
of somebody else that `FrontDoor` has. It is not dropped because the statements are false without it:
somebody who deletes a file after the write leaves a workspace that is not the repair. `governed_solo`
has `MaxEdits` = 0, where the hypothesis always holds. `ReceiptIsOfTheRunShown` needs none.

### The Codex runtime
`PipesBalance`: what was written to a stream has been read or is in its pipe, only processes that can
still run hold its write end, and a reader that ended has seen an empty pipe nobody holds; hence
`OutputIsComplete`. `StagesInOrder`: the readers start after the agent, the poll loop ends with an
agent that exited or was signalled, both readers run from then on and are joined; hence
`NoAgentLeftRunning`.
`ReturncodeIsTrue` and `ResultIsFinal`: a return code is the agent's, a result is what `_normalize` read,
and nothing it read changes afterwards; hence `ExitCodeIsTheAgents`.

Of `Termination` the part that needs no fairness is proved. After the deadline every step of the harness
leaves fewer to come (`HarnessSteps`: the stages ahead and the chunks to write), and no step of
another thread or process changes that number. In the joins, which have no timeout, it never waits
for an agent that may run on:
a reader has not ended only because there is something to read, a killed agent has yet to die, or
a process left behind still holds the pipe. So, killed processes being
mortal, a hang of `execute` after its poll loop is always that last process, the one `SpecChildEnds` assumes
away.

### The collector
The size of a run is the cardinality of a set of bytes and the order of candidates a rank, so that
what a plan frees is the cardinality of a union of disjoint sets, and the facts about a plan (the
oldest safe runs, enough of them, not one more) need no induction over the list. Among them is the
re-selection lemma: when the first candidates of a quota plan are gone, a new plan of the rest
starts with the next one. The invariant has `PlanOfCatalog` (the plan is the selection of the catalog it
was made of), `Bookkeeping` (receipts, index and what was touched agree), `LastLook` (what was
checked last still holds unless an edit of the candidate was noted) and `Undisturbed` (alone and
without an I/O error, the disk is the catalog without what the plan has removed so far).
`UnsafeRemovalOnlyIfRaced` needs the third, `PlanIsCarriedOut` the fourth and the re-selection lemma.

`StepsLeft` counts the steps a collection has yet to take, at most: a look at a candidate costs up to
`Stations` steps (two listings, a census of all runs, the entries of a directory), and a receipt
ends it. A plan selects no run twice, so it has at most as many candidates as there are runs, and the
whole is quadratic in them, because every candidate is planned anew. Each step of the collector lowers
the count, and no step of another process changes it: whoever keeps editing runs cannot
keep the collector busy.

### The review package
`IInv` has one conjunct per way in which a later reader relies on an earlier writer:
- `Sealing`: unless the package was replaced under a reader, the sealing process holds the package
  that lies there, whoever writes a `.sha256` file has verified it, and a receipt or a `.sha256` file
  describes the package as it was then. `SealAcceptance` and `SidecarCertifiesVerified` follow
  because digests are injective;
- `OneByOne`, `Settling`: without an overlap only the pipeline started last is active, and the directory
  holds what the last pipeline has written so far, stage by stage, consistent with itself; earlier
  runs, crashed ones included, may have left any file of theirs, and the proof is that each stage
  overwrites or counts in what it finds. At the end of the pipeline this is
  `SettledDirectoryIsConsistent`;
- `Earning`: a pipeline at work has in the directory the receipts, outputs, summary and records of its
  own (`OwnEvidence`, `EntriesAreOf`), what its gates say is what it heard (`Heard`), and every index that
  lists a READY state lists the evidence of one run that was heard to pass, or the summary of a run that
  ended "not ok" (`Earned`, `Unearned`). The last part is about the index and not about the files,
  because a later run may by then have replaced some of them; the members of a package that agrees with its
  index and its manifest are those they list (`AgreeingContents`), which gives `ReadyIsEarned`;
- `Attacking`: no file is what the attacks put in the place of one, and what is undetected comes of a
  scratch directory that was not removed. `AllDetected` evaluates the 18 attacks by the definitions of
  the verifiers, `MostDetected` does so beside what is left in a scratch directory, and
  `EveryMutantRefused` shows that no C3-R1 mutant of any package is accepted;
  together they give `NegativesAreDetected`;
- `Binding`: what holds a member that no index lists. A receipt lies beside the files it is of, and an
  index is written in one go (`Whole`). A file of the test evidence may lie in the directory unlisted:
  commands write before the manifest is made, and a run that dies never makes it. But READY is
  written only by a run whose receipt gate passed, hence when all receipts and so all of the test evidence
  lay there, none of which is ever removed; from then on every manifest lists all of it,
  whoever writes it (`Manifested`, `Listed`). So a READY package lists all its test evidence, overlapping
  pipelines or not.

`Readdress` touches no file that an index or a test manifest lists, and no run is at work when it happens.

From `Binding` follows `MembersAreBound`: what the index lists is what the index says, test evidence is
what the manifest says, an output or exit code that no manifest lists is what the receipt says, and an
index is what the listed members say, so an exchanged member leaves the package canonical only if it is
the member that was there, or a receipt that says the same.

`ReadyIsEarned`, `SettledDirectoryIsConsistent` and `MembersAreBound` are proved for any number of runs,
crashes, kills and edits, where TLC checks three runs and one disturbance.

### Only model-checked
- `Termination` of `GovernedRun`, `CodexRuntime` and `RunStorageGC`: liveness is out of the prover's
  reach. For the collector the measure that decreases is proved, so that what is left to TLC is
  that a step can be taken and, by fairness, is; for the runtime the measure after the deadline and
  whom the joins wait for. `CollectorComesNearer`, `NoTurnAfterTheDeadline` and `JoinsWaitForNoAgent`
  are stated for these theorems and are in no run.
- The runs named `claim_...` are counterexamples, there is nothing to prove.

What a recursive algorithm computes for every input (the parsers) is out of reach of the proofs as
well.

## 6. What is not modelled, and why

- The non-atomic tree hash (a mixture of two trees under concurrent writes), a verifier's children
  that go on writing
  after a timeout as part of the verifier (they are other writers).
- The cancel flags an adapter keeps per attempt (`adapters/codex/contract.py:242`): the attempt ids
  of the governed run are fresh, so no flag is met twice.
- A crash inside one run other than by Ctrl-C: nothing is persisted that a restart would
  read but the workspace, which `Interrupt` covers.
- Text: parsing of proposals, of pytest output and of paths is a choice of its result, or a class of
  its input; redaction, rendering, logging. Hashing is injective.
- Of the command line: `synapx doctor` and the help (output only), the retry of the bridge without
  `timeout_seconds` (no builder of the repository raises that `TypeError`), the legacy
  `FrontDoorRuntimeBridge`, which no entry point constructs. `storage_census` prints the catalog.
- Of the review pipeline: `kilo_diff`, the report builder, `path_resolver`, `package_scope`,
  `terminal_receipt`. Reading the directory while it is packed is one step.
- A task whose write set names the staged expectation `.synapx_red_expectation.json` itself: the
  expectation is a variable of its own, which only other processes change.
- Legacy session, provider and qualification port: no entry point reaches them. The port may read the
  evidence of an earlier run from a reused root.
- `validators/`, `context/`, `contracts/`, `_schemas/`, `testing/` and the Kiro adapter hold no
  behaviour over time; what they accept is text.

## 7. Plan

Done: all the modules above with their runs, and the proofs of section 5. Left: pure algorithms with
a reference definition each, over bounded inputs: `parse_structured` (line automaton),
`normalize_write_token_path`, the scope gate of `run_controlled`, the pytest summary parser.
