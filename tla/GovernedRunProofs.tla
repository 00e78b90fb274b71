--------------------------- MODULE GovernedRunProofs ---------------------------
(***************************************************************************)
(* IInv is an invariant of GovernedRun, for every value of the constants,  *)
(* and gives the properties a governed run is for.  One lemma shows that   *)
(* every step keeps one conjunct of IInv; its proof has a case per action, *)
(* or per group of actions that do not disturb the conjunct.  Here are the *)
(* lemmas on what a run relies on; GovernedRunSteps has the others.        *)
(***************************************************************************)
EXTENDS GovernedRunSteps

\* The revision captured before the agent is never lost.
LEMMA RevisionKnownStep == IInv /\ [Next]_vars => RevisionKnown'
<1> SUFFICES ASSUME IInv, [Next]_vars PROVE RevisionKnown'
  OBVIOUS
<1> USE DEF IInv, RevisionKnown, Terminal, workspace, setup, chain, outcome,
            TypeOK, Histories, StagesRanInOrder, BeforeAgent
<1>1. CASE CaptureRevision
  <2>1. before'.revision = Revision(tree) /\ history'.captured = tree
    BY <1>1 DEF CaptureRevision, TypeOK, BeforeStates
  <2>2. pc' = "contract" /\ history'.ran = history.ran
    BY <1>1 DEF CaptureRevision
  <2>3. QED BY <2>1, <2>2, RevisionTyped, NoneAssumption
<1>2. CASE Preflight /\ ~CaptureRevision
  <2>1. CASE CaptureExpected
    <3>1. before'.revision = before.revision
      BY <2>1 DEF CaptureExpected, BeforeStates
    <3>2. QED BY <2>1, <3>1 DEF CaptureExpected, Block
  <2>2. CASE Start \/ BuildContract
    BY <2>2 DEF Start, BuildContract, Block, Raise
  <2>3. QED BY <1>2, <2>1, <2>2 DEF Preflight
<1>3. CASE Agent
  BY <1>3 DEF Agent, AgentDone, AgentFails, CheckReadOnly, Block
<1>4. CASE Red
  BY <1>4 DEF Red, QualifyBySeam, VerifyExpectation, ObserveRed, ObserveRedFails
<1>5. CASE Mutation
  BY <1>5 DEF Mutation, CapturePreApply, ParseProposal, ValidateProposal, AdmitMutation,
              CheckExactPaths, ApplyCheck, ApplyWrite, CapturePostApply
<1>6. CASE Green
  BY <1>6 DEF Green, ResolveGreen, Verify, Finalize, Block
<1>7. CASE Faults
  BY <1>7 DEF Faults, FileVanishes, WriteFails, Raise
<1>8. CASE External
  BY <1>8 DEF External, ExternalWrite, ExternalStage
<1>9. CASE UNCHANGED vars
  BY <1>9 DEF vars
<1>10. QED
  BY <1>1, <1>2, <1>3, <1>4, <1>5, <1>6, <1>7, <1>8, <1>9 DEF Next, Harness, Finished

\* No step reaches the RED observation or the verification without a command.
LEMMA VerifierKnownStep == IInv /\ [Next]_vars => VerifierKnown'
<1> SUFFICES ASSUME IInv, [Next]_vars PROVE VerifierKnown'
  OBVIOUS
<1> USE DEF IInv, VerifierKnown, Terminal, workspace, setup, chain, outcome
<1>1. CASE VerifyExpectation
  BY <1>1 DEF VerifyExpectation, ExpectationAccepted
<1>2. CASE ResolveGreen
  BY <1>2 DEF ResolveGreen, Block, TypeOK, Verifications
<1>3. CASE Preflight
  BY <1>3 DEF Preflight, Start, CaptureExpected, CaptureRevision, BuildContract, Block, Raise
<1>4. CASE Agent
  BY <1>4 DEF Agent, AgentDone, AgentFails, CheckReadOnly, Block
<1>5. CASE Red /\ ~VerifyExpectation
  BY <1>5 DEF Red, QualifyBySeam, ObserveRed, ObserveRedFails, AfterObservation
<1>6. CASE Mutation
  BY <1>6 DEF Mutation, CapturePreApply, ParseProposal, ValidateProposal, AdmitMutation,
              CheckExactPaths, ApplyCheck, ApplyWrite, CapturePostApply, Reject, Block
<1>7. CASE Green /\ ~ResolveGreen
  BY <1>7 DEF Green, Verify, Finalize
<1>8. CASE Faults
  BY <1>8 DEF Faults, FileVanishes, WriteFails, Raise
<1>9. CASE External \/ UNCHANGED vars
  BY <1>9 DEF External, ExternalWrite, ExternalStage, vars
<1>10. QED
  BY <1>1, <1>2, <1>3, <1>4, <1>5, <1>6, <1>7, <1>8, <1>9 DEF Next, Harness, Finished

\* No step qualifies RED but by the bound expectation, and none after the
\* observation changes what it was bound to (_qualify_red_by_comparator).
LEMMA RedIsBoundStep == IInv /\ [Next]_vars => RedIsBound'
<1> SUFFICES ASSUME IInv, [Next]_vars PROVE RedIsBound'
  OBVIOUS
<1> USE DEF IInv, RedIsBound, BeforeRed, Terminal, workspace, setup, chain, outcome
<1>1. CASE CheckReadOnly
  <2>1. request.tier \in Tiers
    BY RequestAssumption DEF TypeOK
  <2>2. QED BY <1>1, <2>1 DEF CheckReadOnly, Block, Tiers
<1>2. CASE QualifyBySeam
  BY <1>2 DEF QualifyBySeam, TypeOK, RedRecords
<1>3. CASE VerifyExpectation
  BY <1>3 DEF VerifyExpectation, ExpectationAccepted, TypeOK, RedRecords
<1>4. CASE ObserveRed
  <2>1. PICK v \in Verdicts[contract.command][tree] :
          LET match == RedMatches(red.expectation, before.revision, contract.command, v) IN
          /\ red' = [red EXCEPT !.qualified = match,
                                !.evidence = IF match THEN "MATCH" ELSE "MISMATCH"]
          /\ history' = [history EXCEPT !.observed = [tree |-> tree, run |-> v]]
    BY <1>4 DEF ObserveRed
  <2>2. /\ red'.qualified
              = RedMatches(red.expectation, before.revision, contract.command, v)
        /\ red'.expectation = red.expectation
    BY <2>1 DEF TypeOK, RedRecords
  <2>3. history'.observed.run = v /\ history'.observed # None
    <3>1. history'.observed = [tree |-> tree, run |-> v]
      BY <2>1 DEF TypeOK, Histories
    <3>2. contract.command \in Commands
      BY <1>4 DEF TypeOK, VerifierKnown, ObserveRed, ContractRecords, Option
    <3>3. [tree |-> tree, run |-> v] \in Observations
      BY <3>2, VerifierAssumption DEF TypeOK, Observations
    <3>4. QED BY <3>1, <3>3, NoneAssumption
  <2>4. QED BY <1>4, <2>2, <2>3 DEF ObserveRed, AfterObservation
<1>5. CASE Preflight
  BY <1>5 DEF Preflight, Start, CaptureExpected, CaptureRevision, BuildContract, Block, Raise
<1>6. CASE AgentDone \/ AgentFails
  BY <1>6 DEF AgentDone, AgentFails, Block
<1>7. CASE ObserveRedFails
  BY <1>7 DEF ObserveRedFails
<1>8. CASE Mutation
  <2>1. history'.observed = history.observed
    BY <1>8 DEF Mutation, CapturePreApply, ParseProposal, ValidateProposal, AdmitMutation,
                CheckExactPaths, ApplyCheck, ApplyWrite, CapturePostApply, TypeOK, Histories
  <2>2. pc' \notin BeforeRed /\ UNCHANGED <<red, request, before, contract>>
    BY <1>8 DEF Mutation, CapturePreApply, ParseProposal, ValidateProposal, AdmitMutation,
                CheckExactPaths, ApplyCheck, ApplyWrite, CapturePostApply, Reject, Block
  <2>3. QED BY <2>1, <2>2
<1>9. CASE Green
  <2>1. history'.observed = history.observed
    BY <1>9 DEF Green, ResolveGreen, Verify, Finalize, TypeOK, Histories
  <2>2. pc' \notin BeforeRed /\ UNCHANGED <<red, request, before, contract>>
    BY <1>9 DEF Green, ResolveGreen, Verify, Finalize, Block
  <2>3. QED BY <2>1, <2>2
<1>10. CASE External
  <2>1. history'.observed = history.observed
    BY <1>10 DEF External, ExternalWrite, ExternalStage, TypeOK, Histories
  <2>2. UNCHANGED <<pc, red, request, before, contract>>
    BY <1>10 DEF External, ExternalWrite, ExternalStage
  <2>3. QED BY <2>1, <2>2
<1>11. CASE Faults
  <2>1. history'.observed = history.observed
    BY <1>11 DEF Faults, FileVanishes, WriteFails, TypeOK, Histories
  <2>2. pc' \notin BeforeRed /\ UNCHANGED <<red, request, before, contract>>
    BY <1>11 DEF Faults, FileVanishes, WriteFails, Raise
  <2>3. QED BY <1>11, <2>1, <2>2 DEF Faults, FileVanishes, WriteFails, Raise
<1>12. CASE UNCHANGED vars
  BY <1>12 DEF vars
<1>13. QED
  BY <1>1, <1>2, <1>3, <1>4, <1>5, <1>6, <1>7, <1>8, <1>9, <1>10, <1>11, <1>12
  DEF Next, Harness, Finished, Agent, Red

\* Every step keeps the chain of receipts from the RED verdict to the write,
\* whatever the other writers do between two of its links (execute_mutation_chain).
LEMMA AuthorityChainStep == IInv /\ [Next]_vars => AuthorityChain'
<1> SUFFICES ASSUME IInv, [Next]_vars PROVE AuthorityChain'
  OBVIOUS
<1> USE DEF IInv, AuthorityChain, Admitted, AfterWrite, Terminal,
            workspace, setup, chain, outcome
<1>1. CASE Preflight
  BY <1>1 DEF Preflight, Start, CaptureExpected, CaptureRevision, BuildContract, Block, Raise
<1>2. CASE Agent
  BY <1>2 DEF Agent, AgentDone, AgentFails, CheckReadOnly, Block
<1>3. CASE Red
  BY <1>3 DEF Red, QualifyBySeam, VerifyExpectation, ObserveRed, ObserveRedFails,
              AfterObservation
<1>4. CASE CapturePreApply
  BY <1>4 DEF CapturePreApply
<1>5. CASE ParseProposal
  BY <1>5 DEF ParseProposal, Reject, Block, TypeOK, Option
<1>6. CASE ValidateProposal
  BY <1>6 DEF ValidateProposal, Reject, Block
<1>7. CASE AdmitMutation
  <2>1. receipts.apply = None
    BY <1>7 DEF AdmitMutation
  <2>2. /\ receipts'.apply = receipts.apply
        /\ receipts'.admission = [decision |-> AdmissionDecision(red.qualified),
                                  revision |-> before.revision]
    BY <1>7 DEF AdmitMutation, TypeOK, ReceiptRecords
  <2>3. QED
    BY <1>7, <2>1, <2>2 DEF AdmitMutation, AdmissionDecision, Reject, Block
<1>8. CASE CheckExactPaths
  <2>1. receipts.apply = None
    BY <1>8 DEF CheckExactPaths
  <2>2. /\ receipts'.apply = receipts.apply
        /\ receipts'.admission = receipts.admission
    BY <1>8 DEF CheckExactPaths, TypeOK, ReceiptRecords
  <2>3. pc' = "apply" =>
          receipts'.pathGate = [decision |-> "ALLOW", authorized |-> request.allowed,
                                revision |-> before.revision]
    BY <1>8 DEF CheckExactPaths, TypeOK, ReceiptRecords, Reject, Block
  <2>4. QED
    BY <1>8, <2>1, <2>2, <2>3 DEF CheckExactPaths, Reject, Block
<1>9. CASE ApplyCheck
  <2>1. CASE pc' = "write"
    <3>1. PICK f \in DOMAIN proposal :
             /\ ApplyPreconditions(f)
             /\ held' = [file |-> f, bytes |-> tree[f]]
             /\ UNCHANGED <<receipts, revisions>>
      BY <1>9, <2>1 DEF ApplyCheck
    <3>2. /\ f \in request.allowed
          /\ revisions.pre = before.revision
      BY <1>9, <3>1 DEF ApplyCheck, ApplyPreconditions, ApplyAuthorised
    <3>3. held' # None
      <4>1. f \in Files
        BY <3>2, RequestAssumption DEF TypeOK
      <4>2. tree[f] \in Contents
        BY <3>1, <4>1 DEF TypeOK, Trees, ApplyPreconditions
      <4>3. held' \in HeldBytes
        BY <3>1, <4>1, <4>2 DEF HeldBytes
      <4>4. QED BY <4>3, NoneAssumption
    <3>4. /\ DOMAIN proposal = {held'.file}
          /\ held'.file \in request.allowed
          /\ held'.bytes = before.expected[held'.file]
          /\ Rewrite[proposal[held'.file]][held'.bytes] # NoMatch
      BY <3>1, <3>2 DEF ApplyPreconditions, ApplyAuthorised
    <3>5. QED
      BY <1>9, <2>1, <3>1, <3>2, <3>3, <3>4 DEF ApplyCheck
  <2>2. CASE pc' # "write"
    <3>1. /\ receipts' = [receipts EXCEPT !.apply = ZeroWrite]
          /\ pc' = "resolveGreen"
      BY <1>9, <2>2 DEF ApplyCheck
    <3>2. ZeroWrite \in ApplyReceipts
      BY DEF ZeroWrite, ApplyReceipts, Option
    <3>3. /\ receipts'.apply # None
          /\ receipts'.apply.writes = 0
          /\ receipts'.admission = receipts.admission
          /\ receipts'.pathGate = receipts.pathGate
      BY <3>1, <3>2, NoneAssumption DEF ZeroWrite, TypeOK, ReceiptRecords
    <3>4. QED
      BY <1>9, <3>1, <3>3 DEF ApplyCheck
  <2>3. QED BY <2>1, <2>2
<1>10. CASE ApplyWrite
  <2>1. /\ receipts'.apply = [writes |-> 1, file |-> held.file, from |-> held.bytes,
                              to |-> Rewrite[proposal[held.file]][held.bytes]]
        /\ receipts'.admission = receipts.admission
        /\ receipts'.pathGate = receipts.pathGate
    BY <1>10 DEF ApplyWrite, TypeOK, ReceiptRecords
  <2>2. receipts'.apply # None
    BY <1>10, WrittenReceipt, <2>1, NoneAssumption
  <2>3. QED
    BY <1>10, <2>1, <2>2 DEF ApplyWrite
<1>11. CASE CapturePostApply
  BY <1>11 DEF CapturePostApply
<1>12. CASE Green
  BY <1>12 DEF Green, ResolveGreen, Verify, Finalize, Block
<1>13. CASE External
  BY <1>13 DEF External, ExternalWrite, ExternalStage
<1>14. CASE Faults
  BY <1>14 DEF Faults, FileVanishes, WriteFails, Raise
<1>15. CASE UNCHANGED vars
  BY <1>15 DEF vars
<1>16. QED
  BY <1>1, <1>2, <1>3, <1>4, <1>5, <1>6, <1>7, <1>8, <1>9, <1>10, <1>11, <1>12, <1>13,
     <1>14, <1>15
  DEF Next, Harness, Finished, Mutation

\* No step reports a passing verdict without a run that exited 0, or decides
\* COMPLETED without RED, a write and such a verdict (Finalize).
LEMMA VerdictIsTrueStep == IInv /\ [Next]_vars => VerdictIsTrue'
<1> SUFFICES ASSUME IInv, [Next]_vars PROVE VerdictIsTrue'
  OBVIOUS
<1> USE DEF IInv, VerdictIsTrue, Terminal, workspace, setup, chain, outcome
<1>1. CASE Verify
  <2>1. result.decision = None /\ result' = result
    BY <1>1 DEF Verify
  <2>2. PICK v \in Verdicts[verification.command][tree] :
          /\ verification' = [verification EXCEPT
                                 !.verdict = IF v.exit = 0 THEN Passing ELSE Failing]
          /\ history' = [history EXCEPT !.ran = @ \cup {"verifier"},
                                        !.verified = [tree |-> tree, run |-> v]]
    BY <1>1 DEF Verify
  <2>3. history'.verified = [tree |-> tree, run |-> v]
    BY <2>2 DEF TypeOK, Histories
  <2>4. history'.verified # None
    <3>1. verification.command \in Commands
      BY <1>1 DEF TypeOK, VerifierKnown, Verify, Verifications, Option
    <3>2. [tree |-> tree, run |-> v] \in Observations
      BY <3>1, VerifierAssumption DEF TypeOK, Observations
    <3>3. QED BY <2>3, <3>2, NoneAssumption
  <2>5. verification'.verdict = Passing => v.exit = 0
    BY <2>2 DEF TypeOK, Verifications, Passing, Failing
  <2>6. QED
    BY <2>1, <2>3, <2>4, <2>5, NoneAssumption
<1>2. CASE Finalize
  <2>1. UNCHANGED <<verification, history, red, receipts>> /\ pc' \in Terminal
    BY <1>2 DEF Finalize
  <2>2. result.decision = None
    BY <1>2 DEF Finalize
  <2>3. ASSUME result'.decision = "COMPLETED"
        PROVE  /\ red.qualified
               /\ verification.verdict = Passing
               /\ receipts.apply # None
               /\ receipts.apply.writes = 1
    <3>1. result'.decision = ProposedOutcome
      BY <1>2, <2>2, <2>3, NoneAssumption DEF Finalize
    <3>2. Wrote /\ Verified
      BY <2>3, <3>1 DEF ProposedOutcome
    <3>3. verification.verdict = Passing
      BY <3>2 DEF Verified, TypeOK, Verifications, VerdictRecords, NotRun, Failing, Passing
    <3>4. red.qualified /\ receipts.apply # None
      BY <1>2 DEF Finalize, AuthorityChain, Admitted, AfterWrite
    <3>5. QED BY <3>2, <3>3, <3>4 DEF Wrote
  <2>4. QED BY <2>1, <2>3
<1>3. CASE ResolveGreen
  <2>1. verification'.verdict = verification.verdict
    BY <1>3 DEF ResolveGreen, TypeOK, Verifications
  <2>2. result'.decision # "COMPLETED" /\ (result'.decision # None => pc' = "done")
    BY <1>3, NoneAssumption DEF ResolveGreen, Block
  <2>3. QED BY <1>3, <2>1, <2>2 DEF ResolveGreen, Block
<1>4. CASE Preflight \/ Agent \/ Red \/ Mutation \/ Faults \/ External
  <2> DEFINE blocks == result'.decision = "BLOCKED" /\ pc' = "done"
             quiet  == /\ history'.verified = history.verified
                       /\ verification' = verification
                       /\ pc \notin Terminal
                       /\ pc' # "finalize" \/ pc' = pc
                       /\ result' = result \/ blocks
  <2>1. ASSUME Preflight PROVE quiet
    BY <2>1 DEF Preflight, Start, CaptureExpected, CaptureRevision, BuildContract, Block, Raise, TypeOK, Histories
  <2>2. ASSUME Agent PROVE quiet
    BY <2>2 DEF Agent, AgentDone, AgentFails, CheckReadOnly, Block, TypeOK, Histories
  <2>3. ASSUME Red PROVE quiet
    BY <2>3 DEF Red, QualifyBySeam, VerifyExpectation, ObserveRed,
                ObserveRedFails, AfterObservation, TypeOK, Histories
  <2>4. ASSUME Mutation PROVE quiet
    BY <2>4 DEF Mutation, CapturePreApply, ParseProposal, ValidateProposal, AdmitMutation,
                CheckExactPaths, ApplyCheck, ApplyWrite, CapturePostApply, Reject, Block, TypeOK, Histories
  <2>5. ASSUME External PROVE quiet
    BY <2>5 DEF External, ExternalWrite, ExternalStage, TypeOK, Histories
  <2>6. ASSUME Faults PROVE quiet
    BY <2>6 DEF Faults, FileVanishes, FilesRead, WriteFails, Raise, TypeOK, Histories
  <2>7. quiet
    BY <1>4, <2>1, <2>2, <2>3, <2>4, <2>5, <2>6
  <2>8. result'.decision # "COMPLETED" /\ (result'.decision # None => pc' = "done")
    BY <2>7, NoneAssumption
  <2>9. QED BY <2>7, <2>8, NoneAssumption
<1>5. CASE UNCHANGED vars
  BY <1>5 DEF vars
<1>6. QED
  BY <1>1, <1>2, <1>3, <1>4, <1>5 DEF Next, Harness, Finished, Green

\* The state in which run_governed_execution is called satisfies the invariant.
LEMMA CalledInvariant == Called => IInv
<1> SUFFICES ASSUME Called PROVE IInv
  OBVIOUS
<1>1. TypeOK
  BY CalledTyped
<1>2. RevisionKnown /\ VerifierKnown
  BY DEF Called, FreshRun, RevisionKnown, VerifierKnown
<1>3. RedIsBound
  BY DEF Called, FreshRun, RedIsBound, BeforeRed
<1>4. AuthorityChain
  BY DEF Called, FreshRun, AuthorityChain, Admitted, AfterWrite, Terminal, NoReceipts
<1>5. VerdictIsTrue
  BY NoneAssumption DEF Called, FreshRun, VerdictIsTrue, NoResult, NotRun, Passing, Terminal
<1>6. StagesRanInOrder /\ ReceiptsInOrder
  BY NoneAssumption DEF Called, FreshRun, StagesRanInOrder, ReceiptsInOrder, BeforeAgent, AfterAgent,
     InChain, AfterApply, Admitted, AfterWrite, Terminal, NoReceipts
<1>7. WriteIsWatched /\ ResultIsOneOf
  BY DEF Called, FreshRun, WriteIsWatched, LostUpdateOnlyIfRaced, ResultIsOneOf
<1>8. AloneNothingMoves
  BY NoneAssumption DEF Called, FreshRun, AloneNothingMoves, SoloRevisionsAreTrue, InChain, NoResult
<1>9. QED
  BY <1>1, <1>2, <1>3, <1>4, <1>5, <1>6, <1>7, <1>8 DEF IInv

\* Every step of the harness and of the other writers keeps the types.
LEMMA TypeStep == IInv /\ [Next]_vars => TypeOK'
<1> SUFFICES ASSUME IInv, [Next]_vars PROVE TypeOK'
  OBVIOUS
<1>1. TypeOK /\ RevisionKnown /\ VerifierKnown /\ AuthorityChain
  BY DEF IInv
<1>2. CASE Preflight
  BY <1>1, <1>2, StartTyped, CaptureExpectedTyped, CaptureRevisionTyped, BuildContractTyped
  DEF Preflight
<1>3. CASE Agent
  BY <1>1, <1>3, AgentDoneTyped, AgentFailsTyped, CheckReadOnlyTyped DEF Agent
<1>4. CASE Red
  BY <1>1, <1>4, QualifyBySeamTyped, VerifyExpectationTyped, ObserveRedTyped,
     ObserveRedFailsTyped DEF Red
<1>5. CASE Mutation
  BY <1>1, <1>5, CapturePreApplyTyped, ParseProposalTyped, ValidateProposalTyped,
     AdmitMutationTyped, CheckExactPathsTyped, ApplyCheckTyped, ApplyWriteTyped,
     CapturePostApplyTyped DEF Mutation
<1>6. CASE Green
  BY <1>1, <1>6, ResolveGreenTyped, VerifyTyped, FinalizeTyped DEF Green
<1>7. CASE Faults
  BY <1>1, <1>7, FileVanishesTyped, WriteFailsTyped DEF Faults
<1>8. CASE External
  BY <1>1, <1>8, ExternalTyped
<1>9. CASE UNCHANGED vars
  BY <1>1, <1>9 DEF TypeOK, vars, workspace, setup, chain, outcome
<1>10. QED
  BY <1>2, <1>3, <1>4, <1>5, <1>6, <1>7, <1>8, <1>9 DEF Next, Harness, Finished

\* The invariant is inductive.
LEMMA Inductive == IInv /\ [Next]_vars => IInv'
<1> SUFFICES ASSUME IInv, [Next]_vars PROVE IInv'
  OBVIOUS
<1>1. QED
  BY TypeStep, RevisionKnownStep, VerifierKnownStep, RedIsBoundStep, AuthorityChainStep,
     VerdictIsTrueStep, StagesRanInOrderStep, ReceiptsInOrderStep, WriteIsWatchedStep,
     ResultIsOneOfStep, AloneNothingMovesStep DEF IInv

\* In every state of every governed run, beside any number of other writers, the
\* invariant holds: the harness's stages can rely on what the ones before left.
THEOREM Invariance == Spec => []IInv
<1>1. Init => IInv
  BY InitCalled, CalledInvariant
<1>2. QED
  BY <1>1, Inductive, PTL DEF Spec

\* Every variable of a governed run keeps its type; in particular a verifier is
\* never the harness's own interpreter (resolve_target_verification_command).
THEOREM TypeCorrect == Spec => []TypeOK
<1>1. IInv => TypeOK
  BY DEF IInv
<1>2. QED
  BY <1>1, Invariance, PTL

\* A TEST_FAILURE is an exit 1 without collection errors (classify_pytest_failure_kind).
LEMMA FailureOfTests ==
  ASSUME NEW v, FailureKind(v) = "TEST_FAILURE"
  PROVE  v.exit = 1 /\ v.errors = {}
  BY DEF FailureKind

\* The invariant contains what a COMPLETED result claims.
LEMMA InvariantGivesRedToGreen == IInv => CompletedIsRedToGreen
<1> SUFFICES ASSUME IInv, result.decision = "COMPLETED"
             PROVE  /\ history.verified.run.exit = 0
                    /\ receipts.apply.writes = 1
                    /\ receipts.apply.file \in request.allowed
                    /\ receipts.apply.from = before.expected[receipts.apply.file]
                    /\ request.tier = "comparator" =>
                          /\ contract.binding # None
                          /\ contract.binding.revision = before.revision
                          /\ contract.binding.ids # {}
                          /\ history.observed.run.exit = 1
                          /\ history.observed.run.errors = {}
                          /\ history.observed.run.failed = contract.binding.ids
  BY DEF CompletedIsRedToGreen
<1>1. /\ red.qualified
      /\ verification.verdict = Passing
      /\ receipts.apply # None
      /\ receipts.apply.writes = 1
  BY DEF IInv, VerdictIsTrue
<1>2. history.verified.run.exit = 0
  BY <1>1 DEF IInv, VerdictIsTrue
<1>3. /\ receipts.apply.file \in request.allowed
      /\ receipts.apply.from = before.expected[receipts.apply.file]
  BY <1>1 DEF IInv, AuthorityChain
<1>4. ASSUME request.tier = "comparator"
      PROVE  /\ contract.binding # None
             /\ contract.binding.revision = before.revision
             /\ contract.binding.ids # {}
             /\ history.observed.run.exit = 1
             /\ history.observed.run.errors = {}
             /\ history.observed.run.failed = contract.binding.ids
  <2>1. /\ red.expectation # None
        /\ red.expectation = contract.binding
        /\ RedMatches(red.expectation, before.revision, contract.command,
                      history.observed.run)
    BY <1>1, <1>4 DEF IInv, RedIsBound
  <2>2. history.observed.run.exit = 1 /\ history.observed.run.errors = {}
    BY <2>1, FailureOfTests DEF RedMatches
  <2>3. QED
    BY <2>1, <2>2 DEF RedMatches
<1>5. QED
  BY <1>1, <1>2, <1>3, <1>4

\* A COMPLETED governed run went from red to green: its verifier failed on exactly
\* the tests of the bound expectation, one declared file was rewritten from its
\* captured content, and the verifier that ran last exited 0.  This holds for every
\* workspace, proposal, expectation and number of interfering writes.
THEOREM RedToGreen == Spec => []CompletedIsRedToGreen
BY Invariance, InvariantGivesRedToGreen, PTL

\* Only the applicator's write, whole or cut short, changes the workspace without
\* counting as another writer's edit.
LEMMA WriteStep ==
  ASSUME IInv, Next, tree' # tree, edits' = edits
  PROVE  ApplyWrite \/ WriteFails
<1>1. ~Preflight
  BY DEF Preflight, Start, CaptureExpected, CaptureRevision, BuildContract, workspace
<1>2. ~Agent
  BY DEF Agent, AgentDone, AgentFails, CheckReadOnly, workspace
<1>3. ~Red
  BY DEF Red, QualifyBySeam, VerifyExpectation, ObserveRed, ObserveRedFails, workspace
<1>4. Mutation => ApplyWrite
  BY DEF Mutation, CapturePreApply, ParseProposal, ValidateProposal, AdmitMutation,
         CheckExactPaths, ApplyCheck, CapturePostApply, workspace
<1>5. ~Green
  BY DEF Green, ResolveGreen, Verify, Finalize, workspace
<1>6. Faults => WriteFails
  BY WorkspaceAssumption DEF Faults, FileVanishes, IInv, TypeOK
<1>7. ~External
  BY WorkspaceAssumption DEF External, ExternalWrite, ExternalStage, IInv, TypeOK
<1>8. ~Finished
  BY DEF Finished, vars, workspace
<1>9. QED BY <1>1, <1>2, <1>3, <1>4, <1>5, <1>6, <1>7, <1>8 DEF Next, Harness

\* A step that changes the workspace and is not another writer's is the write of
\* the applicator, whole or cut short, under the authority the receipts carry.
LEMMA WritesHaveAuthority == IInv /\ [Next]_vars => [AuthorisedWrite]_vars
<1> SUFFICES ASSUME IInv, Next, tree' # tree, edits' = edits
             PROVE  /\ \E f \in request.allowed \cap DOMAIN proposal :
                          \/ tree' = [tree EXCEPT ![f] = Rewrite[proposal[f]][before.expected[f]]]
                          \/ pc' = "raised" /\ tree' = [tree EXCEPT ![f] = Empty]
                    /\ revisions.pre = before.revision
                    /\ red.qualified
                    /\ request.tier = "comparator" =>
                          /\ red.expectation # None
                          /\ red.expectation = contract.binding
  BY DEF AuthorisedWrite
<1>1. ApplyWrite \/ WriteFails
  BY WriteStep
<1>2. pc = "write"
  BY <1>1 DEF ApplyWrite, WriteFails
<1>3. /\ revisions.pre = before.revision
      /\ DOMAIN proposal = {held.file}
      /\ held.file \in request.allowed
      /\ held.bytes = before.expected[held.file]
      /\ red.qualified
  BY <1>2 DEF IInv, AuthorityChain, Admitted
<1>4. \/ tree' = [tree EXCEPT ![held.file] = Rewrite[proposal[held.file]][before.expected[held.file]]]
      \/ pc' = "raised" /\ tree' = [tree EXCEPT ![held.file] = Empty]
  BY <1>1, <1>3 DEF ApplyWrite, WriteFails, CutShort, Raise
<1>5. request.tier = "comparator" => red.expectation # None /\ red.expectation = contract.binding
  BY <1>3 DEF IInv, RedIsBound
<1>6. QED
  BY <1>3, <1>4, <1>5

\* The harness writes only under full authority, whatever other processes did to
\* the workspace or the staged expectation in between (WriteIsAuthorised).
THEOREM AuthorisedWrites == Spec => WriteIsAuthorised
<1>1. IInv /\ [Next]_vars => [AuthorisedWrite]_vars
  BY WritesHaveAuthority
<1>2. Spec => [][AuthorisedWrite]_vars
  BY <1>1, Invariance, PTL DEF Spec
<1>3. QED
  BY <1>2 DEF WriteIsAuthorised

\* The applicator's write replaces what was captured before the agent, unless
\* another process wrote between its last read and its write: the per-path
\* before-hash leaves no other way to lose an update (ControlledPatchApplicator).
THEOREM LostUpdatesAreRaces == Spec => []LostUpdateOnlyIfRaced
<1>1. IInv => LostUpdateOnlyIfRaced
  BY DEF IInv, WriteIsWatched
<1>2. QED
  BY <1>1, Invariance, PTL

\* It contains that the revisions of a run that is alone are true.
LEMMA InvariantGivesSoloRevisions == IInv => SoloRevisionsAreTrue
BY DEF IInv, AloneNothingMoves

\* When nobody else writes to the workspace, every revision a run records is the
\* workspace's, and the verifier judged the tree of the post-apply revision.
THEOREM SoloRevisions == Spec => []SoloRevisionsAreTrue
BY Invariance, InvariantGivesSoloRevisions, PTL

\* Once the agent was started only a fault of the workspace escapes, and a run
\* that has an apply receipt always gets to report it: in particular the
\* finalizer never refuses what run_governed_execution proposes.
THEOREM EscapesAreFaults == Spec => []OnlyFaultsEscape
<1>1. IInv => OnlyFaultsEscape
  BY DEF IInv, StagesRanInOrder, ReceiptsInOrder, OnlyFaultsEscape
<1>2. QED
  BY <1>1, Invariance, PTL

\* A decided run ended in one of the six shapes.
LEMMA DecidedShapes ==
  ASSUME IInv, result.decision # None
  PROVE  /\ pc = "done"
         /\ RefusedEarly \/ AgentStopped \/ WorkspaceTouched \/ ChainStopped
            \/ NoVerifier \/ Judged
<1>1. pc = "done"
  BY DEF IInv, ResultIsOneOf, NoResult
<1>2. QED
  BY <1>1 DEF IInv, ResultIsOneOf

\* The finalizer never proposes BLOCKED.
LEMMA ProposedOutcomeIsNotBlocked == ProposedOutcome \in {"COMPLETED", "FAILED"}
BY DEF ProposedOutcome

\* A BLOCKED run has written nothing, unless it was blocked after the write for
\* want of a verifier (resolve_target_verification_command on the patched tree).
THEOREM BlockedWroteNothing == Spec => []BlockedRunsWroteNothing
<1>1. IInv => BlockedRunsWroteNothing
  <2> SUFFICES ASSUME IInv, result.decision = "BLOCKED", history.overwritten # None
               PROVE  result.stage = "VERIFICATION_COMMAND_RESOLUTION"
    BY DEF BlockedRunsWroteNothing
  <2>1. NoVerifier \/ Judged
    BY DecidedShapes, NoneAssumption
    DEF RefusedEarly, AgentStopped, WorkspaceTouched, ChainStopped
  <2>2. ~Judged
    BY ProposedOutcomeIsNotBlocked DEF Judged
  <2>3. QED
    BY <2>1, <2>2 DEF NoVerifier, Blocked
<1>2. QED
  BY <1>1, Invariance, PTL

\* Each shape of a result reports the stages that ran.
LEMMA InvariantGivesStageTruth == IInv => StageTruth
<1> SUFFICES ASSUME IInv, pc = "done", result.attempted # DefaultAttempted
             PROVE  result.attempted = history.ran
  BY DEF StageTruth
<1>1. RefusedEarly \/ AgentStopped \/ WorkspaceTouched \/ ChainStopped \/ NoVerifier \/ Judged
  BY DEF IInv, ResultIsOneOf
<1>2. QED
  BY <1>1 DEF RefusedEarly, AgentStopped, WorkspaceTouched, ChainStopped, NoVerifier, Judged,
     Blocked

\* The stage flags of a result are true of the run, whichever of the ten exits
\* of run_governed_execution produced it, or are _block's keyword defaults.
THEOREM StageFlagsAreTrue == Spec => []StageTruth
BY Invariance, InvariantGivesStageTruth, PTL

\* Each shape of a result keeps a chain of receipts.
LEMMA InvariantGivesReceiptChains == IInv => ReceiptsFormAChain
<1> SUFFICES ASSUME IInv PROVE ReceiptsFormAChain
  OBVIOUS
<1>1. CASE pc # "done"
  BY <1>1, NoneAssumption DEF IInv, ResultIsOneOf, ReceiptsFormAChain, NoResult, NoReceipts
<1>2. CASE RefusedEarly \/ AgentStopped \/ WorkspaceTouched \/ NoVerifier
  BY <1>2 DEF RefusedEarly, AgentStopped, WorkspaceTouched, NoVerifier, Blocked,
     ReceiptsFormAChain, NoReceipts
<1>3. CASE ChainStopped
  BY <1>3 DEF ChainStopped, Blocked, ReceiptsFormAChain, NoReceipts
<1>4. CASE Judged
  BY <1>4, ProposedOutcomeIsNotBlocked DEF Judged, ReceiptsFormAChain
<1>5. QED
  BY <1>1, <1>2, <1>3, <1>4 DEF IInv, ResultIsOneOf

\* The receipts of every result form a chain from admission to apply that ends
\* with the link that denied the mutation (execute_mutation_chain).
THEOREM ReceiptChains == Spec => []ReceiptsFormAChain
BY Invariance, InvariantGivesReceiptChains, PTL
=============================================================================
