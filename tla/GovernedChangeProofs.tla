------------------------- MODULE GovernedChangeProofs -------------------------
(***************************************************************************)
(* GovernedRun implements GovernedChange: under the refinement mapping of  *)
(* GovernedRunClaims the initial states map to initial states, and every   *)
(* step from a state of the invariant maps to one abstract step or to none.*)
(* Five actions are the abstract ones (CheckExactPaths grants, ApplyWrite  *)
(* changes, Verify passes, a block, the finalizer or an exception decides);*)
(* the others are invisible.                                               *)
(***************************************************************************)
EXTENDS GovernedRunClaims, GovernedRunProofs

\* The refinement mapping by name.
Authority == IF Granted THEN receipts.pathGate.authorized ELSE {}
Passed    == verification.verdict = Passing
Decision  == IF pc = "raised" THEN "ERROR" ELSE result.decision

abstract == <<Authority, Change, Passed, Decision>>

\* A step that keeps the last two receipts, the verdict and the decision is
\* invisible; one that also ends the run in a block is an abstract decision.
Invisible == UNCHANGED <<receipts.pathGate, receipts.apply, verification.verdict>>

\* A run is undecided until it ends.
LEMMA UndecidedUntilTheEnd ==
  ASSUME IInv, pc \notin Terminal
  PROVE  Decision = None /\ result.decision = None
BY DEF IInv, ResultIsOneOf, NoResult, Decision, Terminal

\* Before the verifier ran nothing is verified, and before the applicator wrote
\* nothing is changed.
LEMMA NothingYet ==
  ASSUME IInv
  PROVE  /\ pc \notin {"finalize", "done"} => ~Passed
         /\ receipts.apply = None => Change = None
BY DEF IInv, ReceiptsInOrder, Passed, Change, NotRun, Passing

\* Past the path gate the authority is the declared write set, which is not empty.
LEMMA AuthorityIsTheWriteSet ==
  ASSUME IInv, pc \in Admitted \ {"pathGate"}
  PROVE  Authority = request.allowed /\ Authority # {} /\ Authority \in SUBSET Files
<1>1. receipts.pathGate = [decision |-> "ALLOW", authorized |-> request.allowed,
                           revision |-> before.revision]
  BY DEF IInv, AuthorityChain
<1>2. receipts.pathGate # None
  BY <1>1, NoneAssumption, RequestAssumption
  DEF IInv, RevisionKnown, Terminal, Admitted, AfterWrite, TypeOK, BeforeStates, Option,
      PathGateReceipts
<1>3. request.allowed # {} /\ request.allowed \in SUBSET Files
  BY RequestAssumption DEF IInv, TypeOK, ReceiptsInOrder, Admitted, AfterWrite, Terminal
<1>4. QED
  BY <1>1, <1>2, <1>3 DEF Authority, Granted

\* An invisible step of an undecided run maps to a stutter or, when it blocks or
\* lets an exception out of a run that has changed nothing, to Decide.
LEMMA InvisibleMaps ==
  ASSUME IInv, Invisible,
         \/ pc' # "raised" /\ UNCHANGED result /\ pc \notin Terminal
         \/ pc' # "raised" /\ result'.decision = "BLOCKED" /\ pc \notin Terminal
         \/ pc' = "raised" /\ pc \notin Terminal \cup {"finalize"} /\ receipts.apply = None
  PROVE  [GC!Next]_(GC!vars)
<1>1. UNCHANGED <<Authority, Change, Passed>>
  BY DEF Invisible, Authority, Granted, Change, Passed
<1>2. Decision = None
  BY UndecidedUntilTheEnd
<1>3. CASE pc' # "raised" /\ UNCHANGED result
  <2>1. UNCHANGED Decision
    BY <1>2, <1>3 DEF Decision, Terminal
  <2>2. QED
    BY <1>1, <2>1 DEF GC!vars, Authority, Passed, Decision
<1>4. CASE pc' # "raised" /\ result'.decision = "BLOCKED"
  <2>1. Decision' = "BLOCKED"
    BY <1>4 DEF Decision
  <2>2. GC!Decide
    BY <1>1, <1>2, <2>1 DEF GC!Decide, Authority, Passed, Decision
  <2>3. QED
    BY <2>2 DEF GC!Next
<1>5. CASE pc' = "raised" /\ pc \notin Terminal \cup {"finalize"} /\ receipts.apply = None
  <2>1. Decision' = "ERROR" /\ Change = None /\ ~Passed
    BY <1>5, NothingYet DEF Decision, Terminal
  <2>2. GC!Decide
    BY <1>1, <1>2, <2>1 DEF GC!Decide, Authority, Passed, Decision
  <2>3. QED
    BY <2>2 DEF GC!Next
<1>6. QED
  BY <1>3, <1>4, <1>5

\* The path gate grants the declared write set, or blocks (ExactPathMutationGate).
LEMMA PathGateMaps == IInv /\ CheckExactPaths => [GC!Next]_(GC!vars)
<1> SUFFICES ASSUME IInv, CheckExactPaths PROVE [GC!Next]_(GC!vars)
  OBVIOUS
<1>1. /\ pc = "pathGate" /\ receipts.pathGate = None /\ receipts.apply = None
      /\ verification' = verification
  BY DEF IInv, CheckExactPaths, ReceiptsInOrder
<1>2. /\ Decision = None /\ result.decision = None /\ Authority = {}
      /\ Change = None /\ ~Passed
  BY <1>1, UndecidedUntilTheEnd, NothingYet DEF Terminal, Authority, Granted
<1>3. receipts'.apply = None /\ Change' = None /\ ~Passed'
  BY <1>1, <1>2 DEF CheckExactPaths, IInv, TypeOK, ReceiptRecords, Change, Passed
<1>4. receipts'.pathGate = [decision |-> IF DOMAIN proposal # {} /\ DOMAIN proposal \subseteq request.allowed
                                         THEN "ALLOW" ELSE "DENY",
                            authorized |-> request.allowed, revision |-> before.revision]
  BY DEF CheckExactPaths, IInv, TypeOK, ReceiptRecords
<1>5. CASE pc' = "apply"
  <2>1. receipts'.pathGate = [decision |-> "ALLOW", authorized |-> request.allowed,
                              revision |-> before.revision]
    BY <1>4, <1>5 DEF CheckExactPaths, Reject, Block
  <2>2. request.allowed # {} /\ request.allowed \in SUBSET Files
    BY <1>1, RequestAssumption DEF IInv, TypeOK, ReceiptsInOrder, Terminal
  <2>3. receipts'.pathGate # None
    BY <1>1, <2>1, <2>2, NoneAssumption
    DEF IInv, RevisionKnown, Terminal, TypeOK, BeforeStates, Option, PathGateReceipts
  <2>4. Authority' = request.allowed
    BY <2>1, <2>3 DEF Authority, Granted
  <2>5. Decision' = None
    BY <1>2, <1>5 DEF CheckExactPaths, Reject, Block, Decision
  <2>6. GC!Grant
    BY <1>2, <1>3, <2>2, <2>4, <2>5 DEF GC!Grant, GC!Open, Authority, Passed, Decision
  <2>7. QED
    BY <2>6 DEF GC!Next
<1>6. CASE pc' # "apply"
  <2>1. pc' = "done" /\ Decision' = "BLOCKED" /\ receipts'.pathGate.decision = "DENY"
    BY <1>4, <1>6 DEF CheckExactPaths, Reject, Block, Decision
  <2>2. Authority' = {}
    BY <2>1 DEF Authority, Granted
  <2>3. GC!Decide
    BY <1>2, <1>3, <2>1, <2>2 DEF GC!Decide, Authority, Passed, Decision
  <2>4. QED
    BY <2>3 DEF GC!Next
<1>7. QED
  BY <1>5, <1>6

\* The applicator's write is the one change, of a file under the authority.
LEMMA WriteMaps == IInv /\ ApplyWrite => [GC!Next]_(GC!vars)
<1> SUFFICES ASSUME IInv, ApplyWrite PROVE [GC!Next]_(GC!vars)
  OBVIOUS
<1> DEFINE new == Rewrite[proposal[held.file]][held.bytes]
<1>1. pc = "write" /\ pc' = "postApply" /\ UNCHANGED <<verification, result>>
  BY DEF ApplyWrite, outcome
<1>2. Decision = None /\ Decision' = None /\ ~Passed /\ ~Passed'
  BY <1>1, UndecidedUntilTheEnd, NothingYet DEF Terminal, Decision, Passed
<1>3. Change = None
  BY <1>1, NothingYet DEF IInv, ReceiptsInOrder
<1>4. /\ held.file \in Files /\ held.bytes \in Contents
      /\ new \in Contents /\ new # held.bytes
      /\ [writes |-> 1, file |-> held.file, from |-> held.bytes, to |-> new] \in ApplyReceipts
  BY WrittenReceipt DEF IInv
<1>5. /\ receipts'.apply = [writes |-> 1, file |-> held.file, from |-> held.bytes, to |-> new]
      /\ receipts'.pathGate = receipts.pathGate
  BY DEF ApplyWrite, IInv, TypeOK, ReceiptRecords
<1>6. Change' = [file |-> held.file, from |-> held.bytes, to |-> new]
  BY <1>4, <1>5, NoneAssumption DEF Change
<1>7. held.file \in Authority /\ Authority' = Authority
  BY <1>1, <1>5, AuthorityIsTheWriteSet
  DEF IInv, AuthorityChain, Admitted, Authority, Granted
<1>8. GC!Change
  BY <1>2, <1>3, <1>4, <1>6, <1>7
  DEF GC!Change, GC!Changes, GC!Open, Authority, Passed, Decision
<1>9. QED
  BY <1>8 DEF GC!Next

\* A passing verifier run is the abstract pass; a failing one is invisible.
LEMMA VerifyMaps == IInv /\ Verify => [GC!Next]_(GC!vars)
<1> SUFFICES ASSUME IInv, Verify PROVE [GC!Next]_(GC!vars)
  OBVIOUS
<1>1. pc = "verify" /\ pc' = "finalize" /\ UNCHANGED <<receipts, result>>
  BY DEF Verify, chain
<1>2. Decision = None /\ Decision' = None /\ ~Passed
  BY <1>1, UndecidedUntilTheEnd, NothingYet DEF Terminal, Decision
<1>3. Authority # {} /\ Authority' = Authority /\ Change' = Change
  BY <1>1, AuthorityIsTheWriteSet DEF Admitted, AfterWrite, Authority, Granted, Change
<1>4. CASE Passed'
  <2>1. GC!Pass
    BY <1>2, <1>3, <1>4 DEF GC!Pass, GC!Open, Authority, Passed, Decision
  <2>2. QED
    BY <2>1 DEF GC!Next
<1>5. CASE ~Passed'
  BY <1>2, <1>3, <1>5 DEF GC!vars, Authority, Passed, Decision
<1>6. QED
  BY <1>4, <1>5

\* The finalizer decides: COMPLETED over a change that passed, FAILED under the
\* authority all the same (terminal_finalizer.py).
LEMMA FinalizeMaps == IInv /\ Finalize => [GC!Next]_(GC!vars)
<1> SUFFICES ASSUME IInv, Finalize PROVE [GC!Next]_(GC!vars)
  OBVIOUS
<1>1. CompletionAllowed(ProposedOutcome, verification.verdict)
  BY DEF CompletionAllowed, ProposedOutcome, Verified, IInv, TypeOK, Verifications,
         VerdictRecords, NotRun, Failing, Passing
<1>2. /\ pc = "finalize" /\ pc' = "done" /\ UNCHANGED <<receipts, verification>>
      /\ result'.decision = ProposedOutcome
  BY <1>1 DEF Finalize, chain
<1>3. Decision = None /\ Decision' = ProposedOutcome
  BY <1>2, UndecidedUntilTheEnd DEF Terminal, Decision
<1>4. UNCHANGED <<Authority, Change, Passed>> /\ Authority # {}
  BY <1>2, AuthorityIsTheWriteSet DEF Admitted, AfterWrite, Authority, Granted, Change, Passed
<1>5. ProposedOutcome = "COMPLETED" => Change # None /\ Passed
  <2> SUFFICES ASSUME ProposedOutcome = "COMPLETED" PROVE Change # None /\ Passed
    OBVIOUS
  <2>1. Wrote /\ Verified
    BY DEF ProposedOutcome
  <2>2. Passed
    BY <2>1 DEF Passed, Verified, IInv, TypeOK, Verifications, VerdictRecords, NotRun,
                Failing, Passing
  <2>3. receipts.apply # None /\ receipts.apply.writes = 1
    BY <1>2, <2>1 DEF Wrote, IInv, AuthorityChain, AfterWrite
  <2>4. Change \in [file : Files, from : Contents, to : Contents]
    BY <2>3 DEF Change, IInv, ReceiptsInOrder
  <2>5. QED
    BY <2>2, <2>4, NoneAssumption
<1>6. GC!Decide
  BY <1>3, <1>4, <1>5, ProposedOutcomeIsNotBlocked DEF GC!Decide, Authority, Passed, Decision
<1>7. QED
  BY <1>6 DEF GC!Next

\* The states a run starts in are states the abstract one starts in.
LEMMA RefinementInit == Init => GC!Init
BY NoneAssumption DEF Init, FreshRun, GC!Init, Granted, Change, NoReceipts, NoResult, NotRun, Passing

\* Every step of a run, its faults and the other writers' included, is an abstract
\* step or a stutter.
LEMMA RefinementStep == IInv /\ [Next]_vars => [GC!Next]_(GC!vars)
<1> SUFFICES ASSUME IInv, [Next]_vars PROVE [GC!Next]_(GC!vars)
  OBVIOUS
<1> USE DEF Invisible, Terminal, workspace, setup, chain, outcome
<1>1. CASE Preflight
  <2>1. receipts.apply = None
    BY <1>1 DEF Preflight, Start, CaptureExpected, CaptureRevision, BuildContract,
                IInv, ReceiptsInOrder, Admitted, AfterWrite, NoReceipts
  <2>2. QED
    BY <1>1, <2>1, InvisibleMaps
    DEF Preflight, Start, CaptureExpected, CaptureRevision, BuildContract, Block, Raise
<1>2. CASE Agent
  BY <1>2, InvisibleMaps DEF Agent, AgentDone, AgentFails, CheckReadOnly, Block
<1>3. CASE Red
  BY <1>3, InvisibleMaps
  DEF Red, QualifyBySeam, VerifyExpectation, ObserveRed, ObserveRedFails, AfterObservation
<1>4. CASE CapturePreApply \/ ParseProposal \/ ValidateProposal \/ CapturePostApply
  BY <1>4, InvisibleMaps
  DEF CapturePreApply, ParseProposal, ValidateProposal, CapturePostApply, Reject, Block
<1>5. CASE AdmitMutation
  <2>1. UNCHANGED <<receipts.pathGate, receipts.apply>>
    BY <1>5 DEF AdmitMutation, IInv, TypeOK, ReceiptRecords
  <2>2. QED
    BY <1>5, <2>1, InvisibleMaps DEF AdmitMutation, Reject, Block
<1>6. CASE CheckExactPaths
  BY <1>6, PathGateMaps
<1>7. CASE ApplyCheck
  <2>1. /\ UNCHANGED receipts.pathGate
        /\ receipts'.apply = None \/ receipts'.apply.writes = 0
        /\ receipts.apply = None /\ pc = "apply" /\ pc' # "raised"
    BY <1>7 DEF ApplyCheck, ZeroWrite, IInv, TypeOK, ReceiptRecords, ReceiptsInOrder
  <2>2. UNCHANGED <<Authority, Change, Passed, Decision>>
    BY <1>7, <2>1 DEF ApplyCheck, Authority, Granted, Change, Passed, Decision
  <2>3. QED
    BY <2>2 DEF GC!vars, Authority, Passed, Decision
<1>8. CASE ApplyWrite
  BY <1>8, WriteMaps
<1>9. CASE ResolveGreen
  <2>1. UNCHANGED verification.verdict
    BY <1>9 DEF ResolveGreen, IInv, TypeOK, Verifications
  <2>2. QED
    BY <1>9, <2>1, InvisibleMaps DEF ResolveGreen, Block
<1>10. CASE Verify
  BY <1>10, VerifyMaps
<1>11. CASE Finalize
  BY <1>11, FinalizeMaps
<1>12. CASE Faults
  <2>1. pc \notin Terminal \cup {"finalize"} /\ receipts.apply = None
    BY <1>12 DEF Faults, FileVanishes, FilesRead, WriteFails, IInv, ReceiptsInOrder,
                 Admitted, AfterWrite, NoReceipts
  <2>2. QED
    BY <1>12, <2>1, InvisibleMaps DEF Faults, FileVanishes, WriteFails, Raise
<1>13. CASE External
  BY <1>13, InvisibleMaps DEF External, ExternalWrite, ExternalStage
<1>14. CASE UNCHANGED vars
  BY <1>14 DEF vars, GC!vars, Granted, Change
<1>15. QED
  BY <1>1, <1>2, <1>3, <1>4, <1>5, <1>6, <1>7, <1>8, <1>9, <1>10, <1>11, <1>12, <1>13, <1>14
  DEF Next, Harness, Finished, Mutation, Green

\* run_governed_execution implements the abstract governed change, for every
\* workspace, proposal and number of other writers: one grant, one change under
\* it, verification after it and one decision.
THEOREM Refinement == Spec => ImplementsGovernedChange
<1>1. Init => GC!Init
  BY RefinementInit
<1>2. IInv /\ [Next]_vars => [GC!Next]_(GC!vars)
  BY RefinementStep
<1>3. Spec => GC!Spec
  BY <1>1, <1>2, Invariance, PTL DEF Spec, GC!Spec
<1>4. QED
  BY <1>3 DEF ImplementsGovernedChange
=============================================================================
