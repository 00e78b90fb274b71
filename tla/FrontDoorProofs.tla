--------------------------- MODULE FrontDoorProofs ---------------------------
(***************************************************************************)
(* What a user may trust of the command line, for every history of         *)
(* processes: each action of a process keeps FrontDoorInv, and the         *)
(* properties of FrontDoor follow from it.                                 *)
(***************************************************************************)
EXTENDS FrontDoor, PresentationProofs

-----------------------------------------------------------------------------
(* Facts about one run                                                     *)

\* A run that begins in a workspace, whoever has been at it before, begins in
\* the invariant.
LEMMA CalledNext == Called' => IInv'
<1>1. Called => IInv
  BY CalledInvariant
<1>2. QED
  BY <1>1, PTL

\* What a step of run_governed_execution leaves alone, and how far it reads the
\* staged expectation.
LEMMA HarnessFrame ==
  ASSUME IInv, Harness
  PROVE  /\ pc \notin Terminal /\ pc' # "start"
         /\ expectation' = expectation /\ request' = request
         /\ edits' = 0 => edits = 0
         /\ red'.expectation \in {red.expectation, expectation}
<1>1. CASE Preflight
  BY <1>1 DEF Preflight, Start, CaptureExpected, CaptureRevision, BuildContract, Block, Raise,
     Terminal, workspace, setup, chain
<1>2. CASE Agent
  BY <1>2 DEF Agent, AgentDone, AgentFails, CheckReadOnly, Block, Terminal, workspace, setup, chain
<1>3. CASE Red
  BY <1>3 DEF Red, QualifyBySeam, VerifyExpectation, ObserveRed, ObserveRedFails,
     AfterObservation, Terminal, workspace, setup, chain, IInv, TypeOK, RedRecords
<1>4. CASE Mutation
  BY <1>4 DEF Mutation, CapturePreApply, ParseProposal, ValidateProposal, AdmitMutation,
     CheckExactPaths, ApplyCheck, ApplyWrite, CapturePostApply, Reject, Block, Terminal,
     workspace, setup, chain
<1>5. CASE Green
  BY <1>5 DEF Green, ResolveGreen, Verify, Finalize, Block, Terminal, workspace, setup, chain
<1>6. CASE Faults
  <2>1. edits \in Nat
    BY WorkspaceAssumption DEF IInv, TypeOK
  <2>2. QED
    BY <1>6, <2>1 DEF Faults, FileVanishes, FilesRead, WriteFails, Raise, Terminal, setup, chain
<1>7. QED
  BY <1>1, <1>2, <1>3, <1>4, <1>5, <1>6 DEF Harness

\* An agent that has not been started has run in no later stage either.
LEMMA StaysAbsent ==
  ASSUME IInv, Harness, history.ran = {}, pc = "agent" => history'.ran = {}
  PROVE  history'.ran = {}
<1>1. CASE Preflight
  BY <1>1 DEF Preflight, Start, CaptureExpected, CaptureRevision, BuildContract, IInv, TypeOK, Histories
<1>2. CASE Agent
  BY <1>2 DEF Agent, AgentDone, AgentFails, CheckReadOnly
<1>3. pc \in BeforeAgent
  BY HarnessFrame DEF IInv, StagesRanInOrder, AfterAgent, InChain, AfterApply, BeforeAgent, Stages,
     Terminal, TypeOK, Stops
<1>4. ~(Red \/ Mutation \/ Green)
  BY <1>3 DEF BeforeAgent, Red, QualifyBySeam, VerifyExpectation, ObserveRed, ObserveRedFails,
     Mutation, CapturePreApply, ParseProposal, ValidateProposal, AdmitMutation,
     CheckExactPaths, ApplyCheck, ApplyWrite, CapturePostApply, Green, ResolveGreen, Verify, Finalize
<1>5. CASE Faults
  BY <1>5 DEF Faults, FileVanishes, WriteFails, IInv, TypeOK, Histories
<1>6. QED
  BY <1>1, <1>2, <1>4, <1>5 DEF Harness

\* Alone, a run of the comparator tier writes in the workspace its expectation is
\* bound to (compare_red_qualification).
LEMMA BoundWrite ==
  ASSUME IInv, Harness, tree' # tree, edits' = 0, request.tier = "comparator"
  PROVE  red.expectation # None /\ Revision(tree) = red.expectation.revision
<1>1. edits = 0
  BY HarnessFrame
<1>2. pc = "write"
  BY <1>1, WriteStep DEF Next, ApplyWrite, WriteFails
<1>3. red.qualified /\ revisions.pre = before.revision /\ revisions.pre = Revision(tree)
  BY <1>1, <1>2 DEF IInv, AuthorityChain, Admitted, AloneNothingMoves
<1>4. /\ red.expectation # None
      /\ RedMatches(red.expectation, before.revision, contract.command, history.observed.run)
  BY <1>3 DEF IInv, RedIsBound
<1>5. QED
  BY <1>3, <1>4 DEF RedMatches

\* A result has a label, and only COMPLETED has VERIFIED.
LEMMA LabelOfResult ==
  ASSUME IInv, pc = "done"
  PROVE  Label \in Labels /\ (Label = "VERIFIED" <=> result.decision = "COMPLETED")
<1>1. result.decision \in {"COMPLETED", "FAILED", "BLOCKED"}
  BY DoneShapes, ProposedOutcomeIsNotBlocked
  DEF RefusedEarly, AgentStopped, WorkspaceTouched, ChainStopped, NoVerifier, Judged, Blocked
<1>2. QED
  BY <1>1 DEF Label, Labels

-----------------------------------------------------------------------------
(* The steps of a process between its runs                                 *)

\* What a step that does nothing to the run keeps.
LEMMA BetweenRuns ==
  ASSUME FrontDoorInv, UNCHANGED vars, UNCHANGED changes
  PROVE  /\ IInv' /\ ExpectationBound' /\ pc' = pc /\ Label' = Label
         /\ history' = history /\ result' = result
<1>1. IInv'
  BY Inductive DEF FrontDoorInv
<1>2. UNCHANGED <<tree, expectation, edits, red, request, pc, result, history>>
  BY DEF vars, workspace, setup, chain, outcome
<1>3. ExpectationBound'
  BY <1>2 DEF FrontDoorInv, ExpectationBound
<1>4. QED
  BY <1>1, <1>2, <1>3 DEF Label

\* The steps before a run (frontdoor.py: run, governed_callback, run_console).
LEMMA BeforeTheRunKeeps ==
  ASSUME FrontDoorInv, Refuse \/ CheckAgent \/ RunCommand \/ ReadTask \/ ConsoleTask \/ ConsoleQuit
  PROVE  FrontDoorInv'
<1>1. /\ IInv' /\ ExpectationBound' /\ pc' = pc /\ Label' = Label
      /\ history' = history /\ result' = result /\ codex' = codex /\ receipt' = receipt
      /\ changes' = changes
  BY BetweenRuns DEF Refuse, CheckAgent, RunCommand, ReadTask, ConsoleTask, ConsoleQuit
<1> USE <1>1, NoLabelAssumption
    DEF FrontDoorInv, ProcessTypes, RunOfProcess, ScreenAndExit, ReceiptOnDisk, AgentIsThere,
        Envelope, At, Move, Exit, Places, Shapes, OneShot, Option, Probes, Labels
<1>2. CASE Refuse
  BY <1>2 DEF Refuse
<1>3. CASE CheckAgent
  BY <1>3 DEF CheckAgent
<1>4. CASE RunCommand
  <2>1. /\ cli.at = "open" /\ cli.shape \in {"run", "receipt"} /\ codex' = codex
        /\ \/ cli' = [cli EXCEPT !.at = "exited", !.exit = 1]
           \/ cli.shape = "run" /\ cli' = [cli EXCEPT !.at = "invoke"]
           \/ cli.shape = "receipt" /\ cli' = [cli EXCEPT !.at = "working"]
    <3>1. CASE NoTask
      BY <1>4, <3>1 DEF RunCommand
    <3>2. CASE ~NoTask
      BY <1>4, <3>2 DEF RunCommand
    <3>3. QED
      BY <3>1, <3>2
  <2>2. CASE cli' = [cli EXCEPT !.at = "exited", !.exit = 1]
    BY <2>1, <2>2
  <2>3. CASE cli.shape = "run" /\ cli' = [cli EXCEPT !.at = "invoke"]
    BY <2>1, <2>3
  <2>4. CASE cli.shape = "receipt" /\ cli' = [cli EXCEPT !.at = "working"]
    BY <2>1, <2>4
  <2>5. QED
    BY <2>1, <2>2, <2>3, <2>4
<1>5. CASE ReadTask
  <2>1. /\ cli.at = "task" /\ cli.shape = "frontdoor" /\ codex' = codex
        /\ \/ cli' = [cli EXCEPT !.at = "exited", !.exit = 1]
           \/ cli' = [cli EXCEPT !.at = "invoke"]
    <3>1. CASE NoTask
      BY <1>5, <3>1 DEF ReadTask
    <3>2. CASE ~NoTask
      BY <1>5, <3>2 DEF ReadTask
    <3>3. QED
      BY <3>1, <3>2
  <2>2. CASE cli' = [cli EXCEPT !.at = "exited", !.exit = 1]
    BY <2>1, <2>2
  <2>3. CASE cli' = [cli EXCEPT !.at = "invoke"]
    BY <2>1, <2>3
  <2>4. QED
    BY <2>1, <2>2, <2>3
<1>6. CASE ConsoleTask
  BY <1>6 DEF ConsoleTask
<1>7. CASE ConsoleQuit
  BY <1>7 DEF ConsoleQuit
<1>8. QED
  BY <1>2, <1>3, <1>4, <1>5, <1>6, <1>7

\* A label on the screen ends a one-shot process and no other.
LEMMA LabelShown ==
  ASSUME ProcessTypes, NEW label \in Labels, Present(label), UNCHANGED <<codex, changes>>
  PROVE  /\ ProcessTypes'
         /\ cli'.screen = label /\ cli'.shape = cli.shape /\ cli'.run = cli.run
         /\ cli'.readiness = cli.readiness
         /\ cli'.at = IF cli.shape = "console" THEN "idle" ELSE "exited"
         /\ cli.shape \in OneShot => cli'.exit = IF label = "VERIFIED" THEN 0 ELSE 1
<1> DEFINE at == IF cli.shape = "console" THEN "idle" ELSE "exited"
           exit == IF cli.shape \in OneShot THEN ExitCode(label) ELSE None
<1>1. at \in Places /\ label \in Option(Labels) /\ exit \in Option({0, 1})
  BY DEF Places, Option, ExitCode
<1>2. cli' = [cli EXCEPT !.screen = label, !.at = at, !.exit = exit]
  BY DEF Present
<1>3. cli' \in [at : Places, shape : Shapes \cup {"library"}, blank : BOOLEAN,
                readiness : Option(Probes), run : 1 .. MaxRuns,
                screen : Option(Labels), exit : Option({0, 1})]
  <2> HIDE DEF at, exit
  <2> QED BY <1>1, <1>2 DEF ProcessTypes
<1>4. QED
  BY <1>2, <1>3 DEF ProcessTypes, ExitCode

\* The bridge's invoke starts a run behind a ready probe, or shows that the task
\* got none.
LEMMA InvokeKeeps == FrontDoorInv /\ Invoke => FrontDoorInv'
<1> SUFFICES ASSUME FrontDoorInv, Invoke PROVE FrontDoorInv'
  OBVIOUS
<1>1. /\ IInv' /\ ExpectationBound' /\ pc' = pc /\ Label' = Label
      /\ history' = history /\ result' = result /\ codex' = codex /\ receipt' = receipt
      /\ changes' = changes
  BY BetweenRuns DEF Invoke
<1>2. /\ cli.at = "invoke" /\ cli.shape # "receipt" /\ pc = "start" /\ cli.screen = None
      /\ codex \in Probes
  BY NoLabelAssumption
  DEF Invoke, At, FrontDoorInv, RunOfProcess, ScreenAndExit, ProcessTypes
<1>3. \/ cli' = [cli EXCEPT !.at = "working", !.readiness = "ready"]
      \/ Present("NEEDS_ATTENTION")
  BY DEF Invoke, ProbeAdmits
<1> USE <1>1, <1>2, NoLabelAssumption
    DEF FrontDoorInv, ProcessTypes, RunOfProcess, ScreenAndExit, ReceiptOnDisk, AgentIsThere,
        Places, Shapes, OneShot, Option, Probes, Labels
<1>4. CASE cli' = [cli EXCEPT !.at = "working", !.readiness = "ready"]
  <2>1. ProcessTypes'
    BY <1>4
  <2>2. RunOfProcess' /\ ScreenAndExit' /\ ReceiptOnDisk' /\ AgentIsThere'
    BY <1>4
  <2>3. QED
    BY <2>1, <2>2
<1>5. CASE Present("NEEDS_ATTENTION")
  <2>1. "NEEDS_ATTENTION" \in Labels /\ ProcessTypes
    OBVIOUS
  <2> HIDE DEF ProcessTypes, Labels, Places, Option
  <2> QED BY <1>5, <2>1, LabelShown
<1>6. QED
  BY <1>3, <1>4, <1>5

-----------------------------------------------------------------------------
(* The steps of a run, and after it                                        *)

\* A step of the run keeps the count of writes and what they are bound to.
LEMMA WorkKeepsExpectation == FrontDoorInv /\ Work => ExpectationBound'
<1> SUFFICES ASSUME FrontDoorInv, Work PROVE ExpectationBound'
  OBVIOUS
<1>1. /\ IInv /\ Harness /\ ExpectationBound /\ changes \in Nat
      /\ changes' = IF /\ tree' # tree /\ request.tier = "comparator"
                       /\ changes > 0 \/ Revision(tree') # Revision(tree)
                    THEN changes + 1 ELSE changes
  BY DEF FrontDoorInv, ProcessTypes, Work
<1>2. /\ expectation' = expectation /\ request' = request
      /\ edits' = 0 => edits = 0
      /\ red'.expectation \in {red.expectation, expectation}
  BY <1>1, HarnessFrame
<1>3. red'.expectation \in {None, expectation'}
  BY <1>1, <1>2 DEF ExpectationBound
<1>4. ASSUME edits' = 0
      PROVE  /\ changes' <= 1
             /\ changes' = 1 =>
                   /\ expectation' # None
                   /\ Revision(tree') # expectation'.revision
                   /\ request'.tier = "comparator"
  <2>1. CASE tree' = tree
    BY <1>1, <1>2, <1>4, <2>1 DEF ExpectationBound
  <2>2. CASE tree' # tree /\ request.tier # "comparator"
    BY <1>1, <1>2, <1>4, <2>2 DEF ExpectationBound
  <2>3. CASE tree' # tree /\ request.tier = "comparator"
    <3>1. red.expectation # None /\ Revision(tree) = red.expectation.revision
      BY <1>1, <1>4, <2>3, BoundWrite
    <3>2. expectation # None /\ Revision(tree) = expectation.revision
      BY <1>1, <3>1 DEF ExpectationBound
    <3>3. changes = 0
      BY <1>1, <1>2, <1>4, <3>2 DEF ExpectationBound
    <3>4. QED
      BY <1>1, <1>2, <2>3, <3>2, <3>3
  <2>4. QED
    BY <2>1, <2>2, <2>3
<1>5. QED
  BY <1>3, <1>4 DEF ExpectationBound

LEMMA WorkKeeps == FrontDoorInv /\ Work => FrontDoorInv'
<1> SUFFICES ASSUME FrontDoorInv, Work PROVE FrontDoorInv'
  OBVIOUS
<1>1. /\ IInv /\ Harness /\ cli.at = "working" /\ codex' = codex /\ receipt' = receipt
      /\ (pc = "agent" /\ codex = "absent" /\ cli.shape # "library") => history'.ran = {}
  BY DEF FrontDoorInv, Work, At
<1>2. IInv'
  BY <1>1, Inductive DEF Next
<1>3. ExpectationBound'
  BY WorkKeepsExpectation
<1>4. pc \notin Terminal /\ pc' # "start"
  BY <1>1, HarnessFrame
<1>5. ASSUME codex = "absent", cli.shape # "library" PROVE history'.ran = {}
  BY <1>1, <1>5, StaysAbsent DEF FrontDoorInv, AgentIsThere
<1>6. \/ pc' = "raised" /\ cli' = [cli EXCEPT !.at = "exited", !.exit = 1]
      \/ pc' = "done" /\ cli.shape = "receipt" /\ cli' = [cli EXCEPT !.at = "receipt"]
      \/ pc' = "done" /\ cli.shape # "receipt" /\ cli' = [cli EXCEPT !.at = "show"]
      \/ pc' \notin Terminal /\ cli' = [cli EXCEPT !.at = "working"]
  <2>1. CASE pc' = "raised"
    BY <2>1 DEF Work, Exit
  <2>2. CASE pc' # "raised"
    <3>1. cli' = [cli EXCEPT !.at = IF pc' = "done" THEN AfterRun(cli.shape) ELSE "working"]
      BY <2>2 DEF Work, Move
    <3>2. QED
      BY <2>2, <3>1 DEF AfterRun, Terminal
  <2>3. QED
    BY <2>1, <2>2
<1>7. changes' \in Nat
  BY DEF FrontDoorInv, ProcessTypes, Work
<1>8. cli.screen = None
  BY <1>1 DEF FrontDoorInv, ScreenAndExit
<1>9. ProcessTypes' /\ RunOfProcess' /\ ScreenAndExit' /\ ReceiptOnDisk'
  <2> USE <1>1, <1>4, <1>7, <1>8, NoLabelAssumption
      DEF FrontDoorInv, ProcessTypes, RunOfProcess, ScreenAndExit, ReceiptOnDisk,
          Places, Shapes, OneShot, Option, Probes, Labels, Terminal
  <2>1. CASE pc' = "raised" /\ cli' = [cli EXCEPT !.at = "exited", !.exit = 1]
    BY <2>1
  <2>2. CASE pc' = "done" /\ cli.shape = "receipt" /\ cli' = [cli EXCEPT !.at = "receipt"]
    BY <2>2
  <2>3. CASE pc' = "done" /\ cli.shape # "receipt" /\ cli' = [cli EXCEPT !.at = "show"]
    BY <2>3
  <2>4. CASE pc' \notin Terminal /\ cli' = [cli EXCEPT !.at = "working"]
    BY <2>4
  <2>5. QED
    BY <1>6, <2>1, <2>2, <2>3, <2>4
<1>10. AgentIsThere'
  BY <1>1, <1>5, <1>6 DEF FrontDoorInv, ProcessTypes, AgentIsThere
<1>11. QED
  BY <1>2, <1>3, <1>9, <1>10 DEF FrontDoorInv

\* The receipt is written of the result in memory, and the label shown is its.
LEMMA AfterTheRunKeeps ==
  ASSUME FrontDoorInv, WriteReceipt \/ Show \/ Interrupt
  PROVE  FrontDoorInv'
<1>1. /\ IInv' /\ ExpectationBound' /\ pc' = pc /\ Label' = Label
      /\ history' = history /\ result' = result /\ codex' = codex /\ changes' = changes
  BY BetweenRuns DEF WriteReceipt, Show, Interrupt
<1> USE <1>1, NoLabelAssumption
    DEF FrontDoorInv, ProcessTypes, RunOfProcess, ScreenAndExit, ReceiptOnDisk, AgentIsThere,
        Envelope, At, Move, Exit, Places, Shapes, OneShot, Option, Probes, Labels
<1>2. CASE WriteReceipt
  <2>1. CASE receipt' = Envelope /\ Move("show")
    BY <1>2, <2>1 DEF WriteReceipt
  <2>2. CASE Exit(1)
    BY <1>2, <2>2 DEF WriteReceipt
  <2>3. QED
    BY <1>2, <2>1, <2>2 DEF WriteReceipt
<1>3. CASE Show
  <2>1. Label \in Labels
    BY <1>3, LabelOfResult DEF Show
  <2>2. Present(Label) /\ receipt' = receipt /\ cli.at = "show" /\ ProcessTypes
    BY <1>3 DEF Show
  <2> HIDE DEF ProcessTypes, Labels, Places, Option
  <2> QED BY <2>1, <2>2, LabelShown
<1>4. CASE Interrupt
  BY <1>4 DEF Interrupt
<1>5. QED
  BY <1>2, <1>3, <1>4

\* The next task is called in the workspace the last one left, and only the
\* bridge's requests are made of it.
LEMMA AgainKeeps == FrontDoorInv /\ Again => FrontDoorInv'
<1> SUFFICES ASSUME FrontDoorInv, Again PROVE FrontDoorInv'
  OBVIOUS
<1>1. /\ UNCHANGED <<workspace, codex, receipt, changes>> /\ pc' = "start"
      /\ request' \in Requests /\ request'.tier = "comparator"
      /\ red'.expectation = None /\ history'.ran = {}
  BY DEF Again, Public
<1>2. Called'
  BY <1>1 DEF Again, FrontDoorInv, IInv, TypeOK, Called, FreshRun, workspace
<1>3. IInv'
  BY <1>2, CalledNext
<1>4. ExpectationBound'
  BY <1>1 DEF FrontDoorInv, ExpectationBound, workspace
<1>5. \/ cli' = [cli EXCEPT !.at = "task", !.run = @ + 1, !.screen = None] /\ cli.at = "idle"
      \/ \E shape \in Shapes, blank \in BOOLEAN : cli' = Opened(shape, blank, cli.run + 1)
  BY DEF Again, At, Blanks
<1>6. cli.run + 1 \in 1 .. MaxRuns
  BY MaxRunsAssumption DEF Again, FrontDoorInv, ProcessTypes
<1>7. ProcessTypes' /\ RunOfProcess' /\ ScreenAndExit' /\ ReceiptOnDisk' /\ AgentIsThere'
  <2> USE <1>1, <1>6, NoLabelAssumption
      DEF FrontDoorInv, ProcessTypes, RunOfProcess, ScreenAndExit, ReceiptOnDisk,
          AgentIsThere, Places, Shapes, OneShot, Option, Probes, Labels
  <2>1. CASE cli' = [cli EXCEPT !.at = "task", !.run = @ + 1, !.screen = None] /\ cli.at = "idle"
    <3>1. ProcessTypes'
      BY <2>1
    <3>2. RunOfProcess' /\ ScreenAndExit' /\ ReceiptOnDisk' /\ AgentIsThere'
      BY <2>1
    <3>3. QED
      BY <3>1, <3>2
  <2>2. ASSUME NEW shape \in Shapes, NEW blank \in BOOLEAN,
               cli' = Opened(shape, blank, cli.run + 1)
        PROVE  ProcessTypes' /\ RunOfProcess' /\ ScreenAndExit' /\ ReceiptOnDisk' /\ AgentIsThere'
    BY <2>2 DEF Opened
  <2>3. QED
    BY <1>5, <2>1, <2>2
<1>8. QED
  BY <1>3, <1>4, <1>7 DEF FrontDoorInv

LEMMA CodexGoesKeeps == FrontDoorInv /\ CodexGoes => FrontDoorInv'
<1> SUFFICES ASSUME FrontDoorInv, CodexGoes PROVE FrontDoorInv'
  OBVIOUS
<1>1. /\ IInv' /\ ExpectationBound' /\ pc' = pc /\ Label' = Label
      /\ history' = history /\ result' = result
  BY BetweenRuns DEF CodexGoes
<1>2. pc = "start" /\ history.ran = {}
  BY DEF CodexGoes, FrontDoorInv, RunOfProcess, IInv, StagesRanInOrder, BeforeAgent
<1>3. QED
  BY <1>1, <1>2
  DEF CodexGoes, FrontDoorInv, ProcessTypes, RunOfProcess, ScreenAndExit, ReceiptOnDisk,
      AgentIsThere, Envelope, Probes

-----------------------------------------------------------------------------
(* The theorems                                                            *)

\* The first process is started in a workspace where nothing has been run.
LEMMA FrontDoorInitially == FrontDoorInit => FrontDoorInv
<1> SUFFICES ASSUME FrontDoorInit PROVE FrontDoorInv
  OBVIOUS
<1>1. IInv
  BY InitCalled, CalledInvariant DEF FrontDoorInit
<1>2. pc = "start" /\ history.ran = {} /\ red.expectation = None /\ changes = 0
  BY DEF FrontDoorInit, Init, FreshRun
<1>3. \E shape \in Shapes \cup {"library"}, blank \in BOOLEAN : cli = Opened(shape, blank, 1)
  BY DEF FrontDoorInit, Blanks
<1>4. codex \in Probes /\ 1 \in 1 .. MaxRuns
  BY MaxRunsAssumption DEF FrontDoorInit
<1>5. ExpectationBound
  BY <1>2 DEF ExpectationBound
<1>6. ProcessTypes /\ RunOfProcess /\ ScreenAndExit /\ ReceiptOnDisk /\ AgentIsThere
  <2> SUFFICES ASSUME NEW shape \in Shapes \cup {"library"}, NEW blank \in BOOLEAN,
                      cli = Opened(shape, blank, 1)
               PROVE  ProcessTypes /\ RunOfProcess /\ ScreenAndExit /\ ReceiptOnDisk /\ AgentIsThere
    BY <1>3
  <2>1. QED
    BY <1>2, <1>4, NoLabelAssumption
    DEF Opened, ProcessTypes, RunOfProcess, ScreenAndExit, ReceiptOnDisk, AgentIsThere,
        Places, Shapes, OneShot, Option, Probes, Labels
<1>7. QED
  BY <1>1, <1>5, <1>6 DEF FrontDoorInv

\* Whatever processes are started one after another, and whichever tasks are
\* given to them, each of them keeps the invariant.
THEOREM FrontDoorInvariance == FrontDoorSpec => []FrontDoorInv
<1>1. FrontDoorInv /\ [FrontDoorNext]_fvars => FrontDoorInv'
  <2> SUFFICES ASSUME FrontDoorInv, [FrontDoorNext]_fvars PROVE FrontDoorInv'
    OBVIOUS
  <2>1. CASE UNCHANGED fvars
    <3>1. /\ IInv' /\ ExpectationBound' /\ pc' = pc /\ Label' = Label
          /\ history' = history /\ result' = result
      BY <2>1, BetweenRuns DEF fvars, user
    <3>2. QED
      BY <2>1, <3>1
      DEF fvars, user, FrontDoorInv, ProcessTypes, RunOfProcess, ScreenAndExit,
          ReceiptOnDisk, AgentIsThere, Envelope
  <2>2. QED
    BY <2>1, BeforeTheRunKeeps, InvokeKeeps, WorkKeeps, AfterTheRunKeeps, AgainKeeps,
       CodexGoesKeeps DEF FrontDoorNext, Over
<1>2. QED
  BY <1>1, FrontDoorInitially, PTL DEF FrontDoorSpec

\* The properties of a run hold of every run of every process, in whatever state
\* the ones before have left the workspace and the staged expectation.
THEOREM EveryRunOfAProcess ==
  FrontDoorSpec => [](/\ TypeOK /\ CompletedIsRedToGreen /\ SoloRevisionsAreTrue
                      /\ StageTruth /\ ReceiptsFormAChain
                      /\ ShownVerificationIsEarned /\ ChangesAreNotHidden)
<1>1. FrontDoorInv => /\ TypeOK /\ CompletedIsRedToGreen /\ SoloRevisionsAreTrue
                      /\ StageTruth /\ ReceiptsFormAChain
                      /\ ShownVerificationIsEarned /\ ChangesAreNotHidden
  BY InvariantGivesRedToGreen, InvariantGivesSoloRevisions, InvariantGivesStageTruth,
     InvariantGivesReceiptChains, InvariantGivesVerification, InvariantGivesChanges
  DEF FrontDoorInv, IInv
<1>2. QED
  BY <1>1, FrontDoorInvariance, PTL

\* A label on the screen of `run --receipt-out` has the receipt of this very run
\* on disk (frontdoor.py, the same-run receipt seam).
THEOREM ReceiptShown == FrontDoorSpec => []ReceiptIsOfTheRunShown
<1>1. FrontDoorInv => ReceiptIsOfTheRunShown
  <2> SUFFICES ASSUME FrontDoorInv, cli.shape = "receipt", cli.screen # None
               PROVE  /\ receipt = Envelope
                      /\ cli.screen = "VERIFIED" <=> receipt.decision = "COMPLETED"
    BY DEF ReceiptIsOfTheRunShown
  <2>1. receipt = Envelope
    BY DEF FrontDoorInv, ReceiptOnDisk
  <2>2. pc = "done" /\ cli.screen = Label
    BY DEF FrontDoorInv, ScreenAndExit
  <2>3. QED
    BY <2>1, <2>2, LabelOfResult DEF FrontDoorInv, Envelope
<1>2. QED
  BY <1>1, FrontDoorInvariance, PTL

\* A COMPLETED run that is alone leaves the captured workspace with its one
\* rewrite, and that is the tree on which the verifier exited 0.
LEMMA CompletedAlone ==
  ASSUME IInv, result.decision = "COMPLETED", edits = 0
  PROVE  /\ tree = [history.captured EXCEPT ![receipts.apply.file] = receipts.apply.to]
         /\ history.verified.tree = tree
         /\ history.verified.run.exit = 0
<1>1. Judged
  BY DecidedShapes, NoneAssumption
  DEF RefusedEarly, AgentStopped, WorkspaceTouched, ChainStopped, NoVerifier, Blocked
<1>2. history.captured # None
  BY <1>1 DEF Judged, Stages, IInv, RevisionKnown
<1>3. receipts.apply # None /\ receipts.apply.writes = 1
  BY DEF IInv, VerdictIsTrue
<1>4. QED
  BY <1>2, <1>3, InvariantGivesRedToGreen
  DEF CompletedIsRedToGreen, IInv, AloneNothingMoves, SoloRevisionsAreTrue

\* As long as nobody else has written to the workspace a script may trust the
\* exit code: 0 exactly over VERIFIED, and then the workspace holds the one
\* verified repair (_enforce_public_exit_contract).
THEOREM ExitIsTrue == FrontDoorSpec => [](edits = 0 => ExitTellsTheDecision)
<1>1. FrontDoorInv /\ edits = 0 => ExitTellsTheDecision
  <2> SUFFICES ASSUME FrontDoorInv, edits = 0, cli.at = "exited", cli.shape \in OneShot
               PROVE  /\ cli.exit = 0 <=> cli.screen = "VERIFIED"
                      /\ cli.exit = 0 =>
                            /\ result.decision = "COMPLETED"
                            /\ tree = [history.captured EXCEPT
                                         ![receipts.apply.file] = receipts.apply.to]
                            /\ history.verified.tree = tree
                            /\ history.verified.run.exit = 0
                      /\ (pc \notin Terminal \/ pc = "raised") =>
                            cli.screen \in {None, "NEEDS_ATTENTION"}
    BY DEF ExitTellsTheDecision
  <2>1. cli.exit = IF cli.screen = "VERIFIED" THEN 0 ELSE 1
    BY DEF FrontDoorInv, ScreenAndExit
  <2>2. cli.screen # None =>
          \/ pc = "done" /\ cli.screen = Label
          \/ pc = "start" /\ cli.screen = "NEEDS_ATTENTION"
    BY DEF FrontDoorInv, ScreenAndExit
  <2>3. ASSUME cli.screen = "VERIFIED"
        PROVE  result.decision = "COMPLETED"
    <3>1. pc = "done" /\ Label = "VERIFIED"
      BY <2>2, <2>3, NoLabelAssumption DEF Labels
    <3>2. QED
      BY <3>1, LabelOfResult DEF FrontDoorInv
  <2>4. QED
    BY <2>1, <2>2, <2>3, CompletedAlone DEF FrontDoorInv, Terminal
<1>2. QED
  BY <1>1, FrontDoorInvariance, PTL

\* As long as nobody else has written, a staged expectation authorises nothing
\* after the first write that moved the revision, over all the processes and
\* tasks given (compare_red_qualification, _fixture_root_sha).
THEOREM ExpectationSpentOnce == FrontDoorSpec => [](edits = 0 => ExpectationIsSpent)
<1>1. FrontDoorInv => (edits = 0 => ExpectationIsSpent)
  BY DEF FrontDoorInv, ExpectationBound, ExpectationIsSpent
<1>2. QED
  BY <1>1, FrontDoorInvariance, PTL

\* Only Judged runs have a label other than NEEDS_ATTENTION.
LEMMA OnlyStagesShowMore ==
  ASSUME IInv, pc = "done", history.ran = {}
  PROVE  /\ Label = "NEEDS_ATTENTION"
         /\ edits = 0 => history.captured \in {None, tree}
<1>1. RefusedEarly \/ AgentStopped
  BY DoneShapes DEF WorkspaceTouched, ChainStopped, NoVerifier, Judged, Stages
<1>2. Label = "NEEDS_ATTENTION"
  BY <1>1 DEF RefusedEarly, AgentStopped, Blocked, Label
<1>3. receipts.apply = None
  BY <1>1 DEF RefusedEarly, AgentStopped, NoReceipts
<1>4. edits = 0 => history.captured \in {None, tree}
  BY <1>3 DEF IInv, AloneNothingMoves, SoloRevisionsAreTrue
<1>5. QED
  BY <1>2, <1>4

\* Behind the bridge's gate no run starts on an agent that was not ready, and
\* one whose agent has gone since leaves the workspace as it was.
THEOREM ReadinessHonoured == FrontDoorSpec => [](edits = 0 => ReadinessIsHonoured)
<1>1. FrontDoorInv /\ edits = 0 => ReadinessIsHonoured
  <2> SUFFICES ASSUME FrontDoorInv, edits = 0, cli.shape \in Shapes \ {"receipt"}
               PROVE  /\ pc # "start" => cli.readiness = "ready"
                      /\ (codex = "absent" /\ cli.screen # None) =>
                            /\ cli.screen = "NEEDS_ATTENTION"
                            /\ history.ran = {}
                            /\ history.captured \in {None, tree}
    BY DEF ReadinessIsHonoured
  <2>1. pc # "start" => cli.readiness = "ready"
    BY DEF FrontDoorInv, AgentIsThere
  <2>2. ASSUME codex = "absent", cli.screen # None
        PROVE  /\ cli.screen = "NEEDS_ATTENTION"
               /\ history.ran = {}
               /\ history.captured \in {None, tree}
    <3>1. history.ran = {}
      BY <2>2 DEF FrontDoorInv, AgentIsThere, Shapes, OneShot
    <3>2. CASE pc = "done" /\ cli.screen = Label
      BY <3>1, <3>2, OnlyStagesShowMore DEF FrontDoorInv
    <3>3. CASE pc = "start" /\ cli.screen = "NEEDS_ATTENTION"
      BY <3>1, <3>3 DEF FrontDoorInv, IInv, AloneNothingMoves
    <3>4. QED
      BY <2>2, <3>2, <3>3 DEF FrontDoorInv, ScreenAndExit
  <2>3. QED
    BY <2>1, <2>2
<1>2. QED
  BY <1>1, FrontDoorInvariance, PTL
=============================================================================
