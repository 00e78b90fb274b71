------------------------------- MODULE FrontDoor -------------------------------
(***************************************************************************)
(* The processes a user runs one after another in a workspace: `synapx`    *)
(* with a task or a piped one, its console, `synapx run` with and without  *)
(* --receipt-out (cli/frontdoor.py), each over the governed bridge         *)
(* (cli/governed_runtime_bridge.py), which composes with GovernedRun: at   *)
(* "working" the steps are those of run_governed_execution.  The workspace *)
(* and the receipt file outlive a process; nothing else does.              *)
(*                                                                         *)
(* Requests the command line cannot make (a verification command, the RED  *)
(* seam) come from a program that calls the bridge: shape "library".       *)
(***************************************************************************)
EXTENDS Presentation, GovernedRunInvariant

CONSTANT MaxRuns  \* bound on the tasks given, over all processes

ASSUME MaxRunsAssumption == MaxRuns \in Nat \ {0}

Labels == {"VERIFIED", "FAILED", "NEEDS_ATTENTION"}
Probes == {"ready", "broken", "absent"}

\* None is no label, no answer of the probe and no exit code.
ASSUME NoLabelAssumption == None \notin Labels \cup Probes /\ None \notin {0, 1}

VARIABLES
    codex,    \* the codex CLI of the host: "ready", "absent", or "broken": it
              \* is there and its version probe fails
    cli,      \* the process: where it is (at), what it was started as (shape),
              \* whether an empty task is given as spaces (blank), the cached
              \* probe (readiness), the number of the task (run), the label
              \* shown (screen) and the exit code (exit), None while there is none
    receipt,  \* the file at --receipt-out, None when absent
    changes   \* writes of comparator runs, from the first that moved the
              \* revision of the workspace on

user  == <<codex, cli, receipt, changes>>
fvars == <<vars, user>>

OneShot == {"frontdoor", "run", "receipt"}
Shapes  == OneShot \cup {"console"}

\* invoke passes neither a verification command nor a RED seam on.
Public == {r \in Requests : r.command = None /\ r.tier = "comparator"}

Opened(shape, blank, run) ==
    [at |-> IF shape = "library" THEN "working" ELSE "open", shape |-> shape,
     blank |-> blank, readiness |-> None, run |-> run, screen |-> None, exit |-> None]

\* Only --task passes spaces on: the prompts strip their line.
Blanks(shape, r) == IF r.task = "empty" /\ shape \in OneShot THEN BOOLEAN ELSE {FALSE}

FrontDoorInit ==
    /\ Init
    /\ codex \in Probes
    /\ \E shape \in IF request \in Public THEN Shapes ELSE {"library"} :
          \E blank \in Blanks(shape, request) : cli = Opened(shape, blank, 1)
    /\ receipt = None
    /\ changes = 0

At(place) == cli.at = place
Move(place) == cli' = [cli EXCEPT !.at = place]
Exit(code) == cli' = [cli EXCEPT !.at = "exited", !.exit = code]

NoTask == request.task = "empty" /\ ~cli.blank

-----------------------------------------------------------------------------
(* Before a run                                                            *)

\* An option out of range, or a workspace that is no directory.
Refuse ==
    /\ At("open")
    /\ Exit(1)
    /\ UNCHANGED <<vars, codex, receipt, changes>>

\* `synapx` probes the agent before it has a task.
CheckAgent ==
    /\ At("open")
    /\ cli.shape \in {"frontdoor", "console"}
    /\ cli' = [cli EXCEPT !.readiness = codex,
                          !.at = IF codex = "ready" THEN "task" ELSE "exited",
                          !.exit = IF codex = "ready" THEN None ELSE 1]
    /\ UNCHANGED <<vars, codex, receipt, changes>>

\* `synapx run` does not: with --receipt-out it goes straight to
\* invoke_governed_with_result, which probes nothing either.
RunCommand ==
    /\ At("open")
    /\ cli.shape \in {"run", "receipt"}
    /\ IF NoTask THEN Exit(1)
       ELSE Move(IF cli.shape = "run" THEN "invoke" ELSE "working")
    /\ UNCHANGED <<vars, codex, receipt, changes>>

ReadTask ==
    /\ At("task")
    /\ cli.shape = "frontdoor"
    /\ IF NoTask THEN Exit(1) ELSE Move("invoke")
    /\ UNCHANGED <<vars, codex, receipt, changes>>

\* The console sends a task on; any other line leaves it at its prompt.
ConsoleTask ==
    /\ At("task")
    /\ cli.shape = "console"
    /\ ~NoTask
    /\ Move("invoke")
    /\ UNCHANGED <<vars, codex, receipt, changes>>

\* :quit, ESC, an idle Ctrl-C, end of input
ConsoleQuit ==
    /\ cli.shape = "console"
    /\ cli.at \in {"task", "idle"}
    /\ Exit(0)
    /\ UNCHANGED <<vars, codex, receipt, changes>>

\* Mutant: only FAILED fails the process.
ExitOnlyFailed(label) == IF label = "FAILED" THEN 1 ELSE 0

\* _enforce_public_exit_contract
ExitCode(label) == IF label = "VERIFIED" THEN 0 ELSE 1

\* The label is shown; a one-shot process ends, the console goes on.
Present(label) ==
    cli' = [cli EXCEPT !.screen = label,
                       !.at = IF cli.shape = "console" THEN "idle" ELSE "exited",
                       !.exit = IF cli.shape \in OneShot THEN ExitCode(label) ELSE None]

\* Mutant: the bridge relies on the probe of its caller.
ProbeIgnored(readiness) == TRUE
ProbeAdmits(readiness) == readiness = "ready"

\* The bridge's invoke: the probe is made once and cached; a blank task and an
\* agent that was not ready are blocked without a run.
Invoke ==
    /\ At("invoke")
    /\ LET probe == IF cli.readiness = None THEN codex ELSE cli.readiness IN
       IF request.task # "empty" /\ ProbeAdmits(probe)
       THEN cli' = [cli EXCEPT !.at = "working", !.readiness = probe]
       ELSE Present("NEEDS_ATTENTION")
    /\ UNCHANGED <<vars, codex, receipt, changes>>

-----------------------------------------------------------------------------
(* The run and after it                                                    *)

\* Mutant: the outcome is shown, and the process exits on it, before the receipt.
ShowFirst(shape) == "show"
AfterRun(shape) == IF shape = "receipt" THEN "receipt" ELSE "show"

\* One step of run_governed_execution.  An executable that is gone cannot be
\* launched.  An exception ends the process.
Work ==
    /\ At("working")
    /\ Harness
    /\ (pc = "agent" /\ codex = "absent" /\ cli.shape # "library") => history'.ran = {}
    /\ IF pc' = "raised" THEN Exit(1)
       ELSE Move(IF pc' = "done" THEN AfterRun(cli.shape) ELSE "working")
    /\ changes' = IF /\ tree' # tree /\ request.tier = "comparator"
                     /\ changes > 0 \/ Revision(tree') # Revision(tree)
                  THEN changes + 1 ELSE changes
    /\ UNCHANGED <<codex, receipt>>

\* build_lineage_envelope, from the result in memory
Envelope == [run |-> cli.run, decision |-> result.decision, apply |-> result.receipts.apply]

\* The file is written, or an OSError ends the process before anything is shown.
WriteReceipt ==
    /\ At("receipt")
    /\ \/ receipt' = Envelope /\ Move("show")
       \/ Exit(1) /\ UNCHANGED receipt
    /\ UNCHANGED <<vars, codex, changes>>

Show ==
    /\ At("show")
    /\ Present(Label)
    /\ UNCHANGED <<vars, codex, receipt, changes>>

\* Ctrl-C outside the console's prompt ends the process where it is.  In the
\* middle of a write it leaves the file as a failing write does (Work).
Interrupt ==
    /\ cli.shape \in Shapes
    /\ \/ cli.at \in {"working", "receipt", "show"}
       \/ At("task") /\ cli.shape = "frontdoor"
    /\ Exit(1)
    /\ UNCHANGED <<vars, codex, receipt, changes>>

\* The next task: in the console's loop, or in a new process.  The run starts
\* afresh in the workspace as it is, with the expectation still staged.
Again ==
    /\ cli.run < MaxRuns
    /\ request' \in Public
    /\ \/ /\ At("idle")
          /\ cli' = [cli EXCEPT !.at = "task", !.run = @ + 1, !.screen = None]
       \/ /\ At("exited")
          /\ \E shape \in Shapes : \E blank \in Blanks(shape, request') :
                cli' = Opened(shape, blank, cli.run + 1)
    /\ pc' = "start"
    /\ before' = [expected |-> [f \in {} |-> None], revision |-> None]
    /\ contract' = [command |-> None, binding |-> None]
    /\ proposal' = None
    /\ red' = [qualified |-> FALSE, evidence |-> None, expectation |-> None]
    /\ revisions' = [pre |-> None, post |-> None]
    /\ receipts' = NoReceipts
    /\ held' = None
    /\ verification' = [command |-> None, verdict |-> NotRun]
    /\ result' = NoResult
    /\ history' = [ran |-> {}, captured |-> None, observed |-> None, verified |-> None,
                   overwritten |-> None, raced |-> FALSE, fault |-> FALSE]
    /\ UNCHANGED <<workspace, codex, receipt, changes>>

\* The agent is uninstalled while its cached readiness says otherwise.
CodexGoes ==
    /\ cli.at \in {"task", "invoke"}
    /\ codex # "absent"
    /\ codex' = "absent"
    /\ UNCHANGED <<vars, cli, receipt, changes>>

Over == At("exited") /\ UNCHANGED fvars

FrontDoorNext ==
    \/ Refuse \/ CheckAgent \/ RunCommand \/ ReadTask \/ ConsoleTask \/ ConsoleQuit
    \/ Invoke \/ Work \/ WriteReceipt \/ Show \/ Interrupt \/ Again \/ CodexGoes \/ Over

FrontDoorSpec == FrontDoorInit /\ [][FrontDoorNext]_fvars

-----------------------------------------------------------------------------
(* Properties                                                              *)

\* A script may trust the exit code (frontdoor.py, _enforce_public_exit_contract):
\* 0 exactly when VERIFIED was shown, and then the workspace holds the one
\* verified repair; a run that died, was interrupted or whose receipt could not
\* be written exits 1 with nothing shown, even if it was COMPLETED.
ExitTellsTheDecision ==
    (cli.at = "exited" /\ cli.shape \in OneShot) =>
        /\ cli.exit = 0 <=> cli.screen = "VERIFIED"
        /\ cli.exit = 0 =>
              /\ result.decision = "COMPLETED"
              /\ tree = [history.captured EXCEPT ![receipts.apply.file] = receipts.apply.to]
              /\ history.verified.tree = tree
              /\ history.verified.run.exit = 0
        /\ (pc \notin Terminal \/ pc = "raised") =>
              cli.screen \in {None, "NEEDS_ATTENTION"}

\* A label shown by `run --receipt-out` has its receipt on disk, of this very
\* run and not of an earlier one (frontdoor.py, the same-run receipt seam).
ReceiptIsOfTheRunShown ==
    (cli.shape = "receipt" /\ cli.screen # None) =>
        /\ receipt = Envelope
        /\ cli.screen = "VERIFIED" <=> receipt.decision = "COMPLETED"

\* A staged expectation is spent by the first write that moves the revision it
\* is bound to, whether that run completed, failed, was blocked or was
\* interrupted: no later task of any process writes under it, to no file at
\* all.  Writes to files no revision covers do not spend it: _fixture_root_sha
\* skips them, parse_allowed_write_paths accepts them as targets.
ExpectationIsSpent == changes <= 1

\* Without --receipt-out no run is started on an agent the probe did not find
\* ready, and one that has gone since the probe was cached ends as
\* NEEDS_ATTENTION with the workspace as it was (governed_runtime_bridge.py).
ReadinessIsHonoured ==
    cli.shape \in Shapes \ {"receipt"} =>
        /\ pc # "start" => cli.readiness = "ready"
        /\ (codex = "absent" /\ cli.screen # None) =>
              /\ cli.screen = "NEEDS_ATTENTION"
              /\ history.ran = {}
              /\ history.captured \in {None, tree}

-----------------------------------------------------------------------------
(* The inductive invariant                                                 *)

Places == {"open", "task", "invoke", "working", "receipt", "show", "idle", "exited"}

ProcessTypes ==
    /\ codex \in Probes
    /\ cli \in [at : Places, shape : Shapes \cup {"library"}, blank : BOOLEAN,
                readiness : Option(Probes), run : 1 .. MaxRuns,
                screen : Option(Labels), exit : Option({0, 1})]
    /\ changes \in Nat

\* The run begins at "working" and has its result when the process goes on.
RunOfProcess ==
    /\ cli.at \in {"open", "task", "invoke"} => pc = "start"
    /\ cli.at \in {"receipt", "show"} => pc = "done"
    /\ cli.at = "receipt" => cli.shape = "receipt"
    /\ cli.shape = "receipt" => cli.at \notin {"task", "invoke", "idle"}

\* A label is that of the result, or of a task that got no run; the exit code
\* is that of the label.
ScreenAndExit ==
    /\ cli.screen # None =>
          /\ cli.at \in {"idle", "exited"}
          /\ \/ pc = "done" /\ cli.screen = Label
             \/ pc = "start" /\ cli.screen = "NEEDS_ATTENTION" /\ cli.shape # "receipt"
    /\ (cli.at = "exited" /\ cli.shape \in OneShot) =>
          cli.exit = IF cli.screen = "VERIFIED" THEN 0 ELSE 1

\* Nothing is shown before the receipt of this run is on disk.
ReceiptOnDisk ==
    (cli.shape = "receipt" /\ (cli.at = "show" \/ cli.screen # None)) => receipt = Envelope

\* A run behind the gate has a ready probe; an agent that is gone has not run.
AgentIsThere ==
    /\ (cli.shape \in Shapes \ {"receipt"} /\ (cli.at = "working" \/ pc # "start")) =>
          cli.readiness = "ready"
    /\ (codex = "absent" /\ cli.shape # "library") => history.ran = {}

\* A write under the staged expectation to a file the revision covers moves the
\* workspace away from the one revision it is bound to; later tasks are all of the comparator tier.
ExpectationBound ==
    /\ red.expectation \in {None, expectation}
    /\ edits = 0 =>
          /\ changes <= 1
          /\ changes = 1 =>
                /\ expectation # None
                /\ Revision(tree) # expectation.revision
                /\ request.tier = "comparator"

\* Every process that may be started in the workspace keeps all of it, and the
\* invariant of its run (frontdoor.py, governed_runtime_bridge.py).
FrontDoorInv ==
    /\ IInv /\ ProcessTypes /\ RunOfProcess /\ ScreenAndExit
    /\ ReceiptOnDisk /\ AgentIsThere /\ ExpectationBound
=============================================================================
