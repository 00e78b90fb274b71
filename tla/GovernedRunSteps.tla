--------------------------- MODULE GovernedRunSteps ---------------------------
(***************************************************************************)
(* What every action of GovernedRun keeps.  First its types, one lemma per *)
(* action: it shows the type of each variable the action changes, on its   *)
(* own; where a type depends on what the stages before left (a verifier is *)
(* known, a revision is captured), the lemma assumes that part of the      *)
(* invariant.  Then the conjuncts of IInv that say what a run reports:     *)
(* which stages ran, which receipts there are, what was overwritten, the   *)
(* shape of the result, and what holds of a run alone in its workspace.    *)
(***************************************************************************)
EXTENDS GovernedRunInvariant, TLAPS

-----------------------------------------------------------------------------
(* Types                                                                   *)


\* _block yields a well-formed result, whatever stage it is called from, if
\* what it is given is well formed.
LEMMA BlockTyped ==
  ASSUME NEW stage \in Option(BlockStages),
         NEW attempted \in SUBSET Stages,
         NEW keptProposal \in Option(Proposals),
         NEW keptReceipts \in ReceiptRecords,
         Block(stage, attempted, keptProposal, keptReceipts)
  PROVE  result' \in Results /\ pc' \in Stops
<1>1. [keptReceipts EXCEPT !.apply = None] \in ReceiptRecords
  BY DEF ReceiptRecords, Option
<1>2. (IF "verifier" \in attempted THEN Failing ELSE NotRun) \in VerdictRecords
  BY DEF VerdictRecords
<1>3. "BLOCKED" \in Option({"COMPLETED", "FAILED", "BLOCKED"})
  BY DEF Option
<1>4. result' \in Results
  BY <1>1, <1>2, <1>3 DEF Block, Results
<1>5. QED
  BY <1>4 DEF Block, Stops, Terminal

\* What most _block calls of the pipeline pass on is well formed.
LEMMA NothingKept ==
  /\ None \in Option(BlockStages)
  /\ None \in Option(Proposals)
  /\ NoReceipts \in ReceiptRecords
  /\ DefaultAttempted \in SUBSET Stages
  /\ {} \in SUBSET Stages
  BY DEF Option, NoReceipts, ReceiptRecords, DefaultAttempted, Stages

\* So is the result of a chain that stops before the applicator.
LEMMA RejectTyped ==
  ASSUME TypeOK, NEW now \in ReceiptRecords, Reject(now)
  PROVE  result' \in Results /\ pc' \in Stops
<1>1. "PROPOSAL_PARSE_OR_ADMISSION" \in Option(BlockStages)
  BY DEF Option, BlockStages
<1>2. AttemptedBeforeApply \in SUBSET Stages
  BY DEF AttemptedBeforeApply, Stages
<1>3. QED
  BY <1>1, <1>2, BlockTyped DEF Reject, TypeOK

\* _effective_verification_command gives a known command or None.
LEMMA EffectiveCommandTyped ==
  ASSUME NEW r \in Requests, NEW t \in Trees
  PROVE  EffectiveCommand(r, t) \in Option(Commands)
<1>1. r.command \in Option(Commands)
  BY RequestAssumption DEF Option
<1>2. ResolveTarget(t) \in Option(Commands)
  BY VerifierAssumption DEF ResolveTarget, Option
<1>3. QED
  BY <1>1, <1>2 DEF EffectiveCommand

\* _bind_expectation_for_workcontract gives a staged expectation or None.
LEMMA BindExpectationTyped ==
  ASSUME NEW e \in Option(Expectations)
  PROVE  BindExpectation(e) \in Option(Expectations)
  BY DEF BindExpectation, Option

\* _fixture_root_sha of a workspace is a revision, and never None.
LEMMA RevisionTyped ==
  ASSUME NEW t \in Trees
  PROVE  Revision(t) \in Revisions /\ Revision(t) # None
<1>1. Revision(t) \in Revisions
  BY WorkspaceAssumption DEF Revision, Revisions, Trees
<1>2. QED BY <1>1, NoneAssumption

\* A verifier run on a tree is a well-formed observation.
LEMMA RunTyped ==
  ASSUME NEW command \in Commands, NEW t \in Trees, NEW v \in Verdicts[command][t]
  PROVE  [tree |-> t, run |-> v] \in Observations /\ v \in VerifierRun
  BY VerifierAssumption DEF Observations

\* A run is called in a workspace, whoever has been at it before.
Called ==
  /\ tree \in Trees /\ expectation \in Option(Expectations) /\ edits \in 0 .. MaxEdits
  /\ request \in Requests
  /\ FreshRun

LEMMA InitCalled == Init => Called
BY WorkspaceAssumption DEF Init, Called, Option

\* The state in which run_governed_execution is called is well typed.
LEMMA CalledTyped == Called => TypeOK
<1> SUFFICES ASSUME Called PROVE TypeOK
  OBVIOUS
<1>1. /\ tree \in Trees /\ expectation \in Option(Expectations)
      /\ request \in Requests /\ edits \in 0 .. MaxEdits
  BY DEF Called
<1>2. before \in BeforeStates
  <2>1. [f \in {} |-> None] \in [{} -> Contents]
    OBVIOUS
  <2>2. [f \in {} |-> None] \in UNION {[S -> Contents] : S \in SUBSET Files}
    BY <2>1
  <2>3. QED
    BY <2>2 DEF Called, FreshRun, BeforeStates, Option
<1>3. /\ proposal \in Option(Proposals)
      /\ pc \in Stops /\ contract \in ContractRecords /\ held \in Option(HeldBytes)
  BY DEF Called, FreshRun, Option, Stops, ContractRecords
<1>4. red \in RedRecords /\ revisions \in RevisionRecords
  BY DEF Called, FreshRun, RedRecords, RevisionRecords, Option
<1>5. verification \in Verifications
  BY DEF Called, FreshRun, Verifications, VerdictRecords, Option
<1>6. receipts \in ReceiptRecords /\ result \in Results
  <2>1. NotRun \in VerdictRecords
    BY DEF VerdictRecords
  <2>2. None \in Option({"COMPLETED", "FAILED", "BLOCKED"})
    BY DEF Option
  <2>3. QED
    BY <2>1, <2>2, NothingKept DEF Called, FreshRun, NoResult, Results
<1>7. history \in Histories
  BY DEF Called, FreshRun, Histories, Option
<1>8. QED
  BY <1>1, <1>2, <1>3, <1>4, <1>5, <1>6, <1>7 DEF TypeOK

\* The first check of the task keeps the types.
LEMMA StartTyped == TypeOK /\ Start => TypeOK'
<1> SUFFICES ASSUME TypeOK, Start PROVE TypeOK'
  OBVIOUS
<1>1. result' \in Results /\ pc' \in Stops
  <2>1. CASE Block(None, DefaultAttempted, None, NoReceipts)
    BY <2>1, NothingKept, BlockTyped
  <2>2. CASE ~Block(None, DefaultAttempted, None, NoReceipts)
    BY <2>2 DEF Start, Raise, Stops, Terminal, TypeOK
  <2>3. QED BY <2>1, <2>2
<1>2. QED BY <1>1 DEF TypeOK, Start, workspace, setup, chain

\* capture_before_state reads the contents of declared files.
LEMMA CaptureExpectedTyped == TypeOK /\ CaptureExpected => TypeOK'
<1> SUFFICES ASSUME TypeOK, CaptureExpected PROVE TypeOK'
  OBVIOUS
<1>1. result' \in Results /\ pc' \in Stops /\ before' \in BeforeStates
  <2>1. CASE Block(None, {}, None, NoReceipts) /\ UNCHANGED before
    BY <2>1, NothingKept, BlockTyped DEF TypeOK
  <2>2. CASE /\ \A f \in request.allowed : tree[f] # Absent
             /\ before' = [before EXCEPT !.expected = [f \in request.allowed |-> tree[f]]]
             /\ pc' = "captureRevision"
             /\ UNCHANGED result
    <3>1. request.allowed \subseteq Files
      BY RequestAssumption DEF TypeOK
    <3>2. [f \in request.allowed |-> tree[f]] \in [request.allowed -> Contents]
      BY <2>2, <3>1 DEF TypeOK, Trees
    <3>3. QED
      BY <2>2, <3>1, <3>2 DEF TypeOK, BeforeStates, Stops
  <2>3. QED BY <2>1, <2>2 DEF CaptureExpected
<1>2. QED BY <1>1 DEF TypeOK, CaptureExpected, workspace, chain

\* The captured revision is one.
LEMMA CaptureRevisionTyped == TypeOK /\ CaptureRevision => TypeOK'
<1> SUFFICES ASSUME TypeOK, CaptureRevision PROVE TypeOK'
  OBVIOUS
<1>1. before' \in BeforeStates
  BY RevisionTyped DEF TypeOK, CaptureRevision, BeforeStates, Option
<1>2. history' \in Histories
  BY DEF TypeOK, CaptureRevision, Histories, Option
<1>3. QED BY <1>1, <1>2 DEF TypeOK, CaptureRevision, workspace, chain, outcome, Stops

\* The WorkContract has a known verifier or none.
LEMMA BuildContractTyped == TypeOK /\ BuildContract => TypeOK'
<1> SUFFICES ASSUME TypeOK, BuildContract PROVE TypeOK'
  OBVIOUS
<1>1. contract' \in ContractRecords
  BY EffectiveCommandTyped, BindExpectationTyped DEF TypeOK, BuildContract, ContractRecords
<1>2. pc' \in Stops
  BY DEF BuildContract, Raise, Stops, Terminal
<1>3. QED BY <1>1, <1>2 DEF TypeOK, BuildContract, workspace, chain, outcome

\* The agent's stdout is a proposal or nothing usable.
LEMMA AgentDoneTyped == TypeOK /\ AgentDone => TypeOK'
<1> SUFFICES ASSUME TypeOK, AgentDone PROVE TypeOK'
  OBVIOUS
<1>1. history' \in Histories
  BY DEF TypeOK, AgentDone, Histories, Stages
<1>2. pc' \in Stops /\ proposal' \in Option(Proposals)
  BY DEF AgentDone, Stops, Option
<1>3. QED BY <1>1, <1>2 DEF TypeOK, AgentDone, workspace, setup, outcome

\* A failed agent process ends in a well-formed BLOCKED result.
LEMMA AgentFailsTyped == TypeOK /\ AgentFails => TypeOK'
<1> SUFFICES ASSUME TypeOK, AgentFails PROVE TypeOK'
  OBVIOUS
<1>1. PICK now \in SUBSET {"agent"} :
         /\ history' = [history EXCEPT !.ran = @ \cup now]
         /\ Block("AGENT_PROCESS", now, None, NoReceipts)
  BY DEF AgentFails
<1>2. now \in SUBSET Stages /\ "AGENT_PROCESS" \in Option(BlockStages)
  BY DEF Stages, Option, BlockStages
<1>3. history' \in Histories
  BY <1>1, <1>2 DEF TypeOK, Histories
<1>4. result' \in Results /\ pc' \in Stops
  BY <1>1, <1>2, NothingKept, BlockTyped
<1>5. QED BY <1>3, <1>4 DEF TypeOK, AgentFails, workspace, setup, chain

\* assert_codex_did_not_mutate keeps the types.
LEMMA CheckReadOnlyTyped == TypeOK /\ CheckReadOnly => TypeOK'
<1> SUFFICES ASSUME TypeOK, CheckReadOnly PROVE TypeOK'
  OBVIOUS
<1>1. result' \in Results /\ pc' \in Stops
  <2>1. CASE Block(None, DefaultAttempted, None, NoReceipts)
    BY <2>1, NothingKept, BlockTyped
  <2>2. CASE ~Block(None, DefaultAttempted, None, NoReceipts)
    BY <2>2 DEF CheckReadOnly, Stops, TypeOK
  <2>3. QED BY <2>1, <2>2
<1>2. QED BY <1>1 DEF TypeOK, CheckReadOnly, workspace, setup, chain

\* The RED verdict of the override seam is a Boolean.
LEMMA QualifyBySeamTyped == TypeOK /\ QualifyBySeam => TypeOK'
<1> SUFFICES ASSUME TypeOK, QualifyBySeam PROVE TypeOK'
  OBVIOUS
<1>1. red' \in RedRecords
  BY DEF TypeOK, QualifyBySeam, RedRecords
<1>2. QED BY <1>1 DEF TypeOK, QualifyBySeam, workspace, setup, outcome, Stops

\* The expectation read at the RED stage is a staged one.
LEMMA VerifyExpectationTyped == TypeOK /\ VerifyExpectation => TypeOK'
<1> SUFFICES ASSUME TypeOK, VerifyExpectation PROVE TypeOK'
  OBVIOUS
<1>1. red' \in RedRecords
  BY DEF TypeOK, VerifyExpectation, RedRecords
<1>2. pc' \in Stops
  BY DEF VerifyExpectation, Stops
<1>3. QED BY <1>1, <1>2 DEF TypeOK, VerifyExpectation, workspace, setup, outcome

\* A RED observation is a run of the contract's verifier on a tree.
LEMMA ObserveRedTyped == TypeOK /\ VerifierKnown /\ ObserveRed => TypeOK'
<1> SUFFICES ASSUME TypeOK, VerifierKnown, ObserveRed PROVE TypeOK'
  OBVIOUS
<1>1. contract.command \in Commands
  BY DEF TypeOK, VerifierKnown, ObserveRed, ContractRecords, Option
<1>2. PICK v \in Verdicts[contract.command][tree], match \in BOOLEAN :
         /\ red' = [red EXCEPT !.qualified = match,
                               !.evidence = IF match THEN "MATCH" ELSE "MISMATCH"]
         /\ history' = [history EXCEPT !.observed = [tree |-> tree, run |-> v]]
  BY DEF ObserveRed, RedMatches
<1>3. red' \in RedRecords
  BY <1>2 DEF TypeOK, RedRecords, Option
<1>4. [tree |-> tree, run |-> v] \in Option(Observations)
  BY <1>1, RunTyped DEF TypeOK, Option
<1>5. history' \in Histories
  BY <1>2, <1>4 DEF TypeOK, Histories
<1>6. pc' \in Stops
  BY DEF ObserveRed, AfterObservation, Stops
<1>7. QED BY <1>3, <1>5, <1>6 DEF TypeOK, ObserveRed, workspace, setup, outcome

\* A refused observation keeps the types.
LEMMA ObserveRedFailsTyped == TypeOK /\ ObserveRedFails => TypeOK'
  BY DEF TypeOK, ObserveRedFails, workspace, setup, chain, outcome, Stops

\* The pre-apply revision is one.
LEMMA CapturePreApplyTyped == TypeOK /\ CapturePreApply => TypeOK'
<1> SUFFICES ASSUME TypeOK, CapturePreApply PROVE TypeOK'
  OBVIOUS
<1>1. revisions' \in RevisionRecords
  BY RevisionTyped DEF TypeOK, CapturePreApply, RevisionRecords, Option
<1>2. QED BY <1>1 DEF TypeOK, CapturePreApply, workspace, setup, outcome, Stops

\* parse_structured keeps the types.
LEMMA ParseProposalTyped == TypeOK /\ ParseProposal => TypeOK'
<1> SUFFICES ASSUME TypeOK, ParseProposal PROVE TypeOK'
  OBVIOUS
<1>1. history' \in Histories
  BY DEF TypeOK, ParseProposal, Histories, Stages
<1>2. result' \in Results /\ pc' \in Stops
  <2>1. CASE Reject(NoReceipts)
    BY <2>1, NothingKept, RejectTyped
  <2>2. CASE ~Reject(NoReceipts)
    BY <2>2 DEF ParseProposal, Stops, TypeOK
  <2>3. QED BY <2>1, <2>2
<1>3. QED BY <1>1, <1>2 DEF TypeOK, ParseProposal, workspace, setup, chain

\* validate_mutation_proposal keeps the types.
LEMMA ValidateProposalTyped == TypeOK /\ ValidateProposal => TypeOK'
<1> SUFFICES ASSUME TypeOK, ValidateProposal PROVE TypeOK'
  OBVIOUS
<1>1. result' \in Results /\ pc' \in Stops
  <2>1. CASE Reject(NoReceipts)
    BY <2>1, NothingKept, RejectTyped
  <2>2. CASE ~Reject(NoReceipts)
    BY <2>2 DEF ValidateProposal, Stops, TypeOK
  <2>3. QED BY <2>1, <2>2
<1>2. QED BY <1>1 DEF TypeOK, ValidateProposal, workspace, setup, chain

\* An admission receipt carries a captured revision, never None.
LEMMA AdmitMutationTyped == TypeOK /\ RevisionKnown /\ AdmitMutation => TypeOK'
<1> SUFFICES ASSUME TypeOK, RevisionKnown, AdmitMutation PROVE TypeOK'
  OBVIOUS
<1>1. receipts' \in ReceiptRecords
  <2>1. before.revision \in Revisions
    BY DEF TypeOK, BeforeStates, Option, RevisionKnown, AdmitMutation, Terminal
  <2>2. receipts'.admission \in AdmissionReceipts
    BY <2>1 DEF TypeOK, AdmitMutation, AdmissionDecision, AdmissionReceipts, ReceiptRecords
  <2>3. QED
    BY <2>2 DEF TypeOK, AdmitMutation, ReceiptRecords, Option
<1>2. result' \in Results /\ pc' \in Stops
  <2>1. CASE Reject(receipts')
    BY <1>1, <2>1, RejectTyped
  <2>2. CASE ~Reject(receipts')
    BY <2>2 DEF AdmitMutation, Stops, TypeOK
  <2>3. QED BY <2>1, <2>2
<1>3. QED BY <1>1, <1>2 DEF TypeOK, AdmitMutation, workspace, setup

\* A path-gate receipt authorises declared files, at a captured revision.
LEMMA CheckExactPathsTyped == TypeOK /\ RevisionKnown /\ CheckExactPaths => TypeOK'
<1> SUFFICES ASSUME TypeOK, RevisionKnown, CheckExactPaths PROVE TypeOK'
  OBVIOUS
<1>1. receipts' \in ReceiptRecords
  <2>1. before.revision \in Revisions
    BY DEF TypeOK, BeforeStates, Option, RevisionKnown, CheckExactPaths, Terminal
  <2>2. request.allowed \in SUBSET Files
    BY RequestAssumption DEF TypeOK
  <2>3. receipts'.pathGate \in PathGateReceipts
    BY <2>1, <2>2 DEF TypeOK, CheckExactPaths, PathGateReceipts, ReceiptRecords
  <2>4. QED
    BY <2>3 DEF TypeOK, CheckExactPaths, ReceiptRecords, Option
<1>2. result' \in Results /\ pc' \in Stops
  <2>1. CASE Reject(receipts')
    BY <1>1, <2>1, RejectTyped
  <2>2. CASE ~Reject(receipts')
    BY <2>2 DEF CheckExactPaths, Stops, TypeOK
  <2>3. QED BY <2>1, <2>2
<1>3. QED BY <1>1, <1>2 DEF TypeOK, CheckExactPaths, workspace, setup

\* Every section of a proposal has an OLD/NEW pair.
LEMMA SectionTyped ==
  ASSUME NEW p \in Proposals, NEW f \in DOMAIN p
  PROVE  p[f] \in Hunks
  BY ProposalAssumption

\* The applicator holds the bytes of an existing declared file, or gives
\* a zero-write receipt.
LEMMA ApplyCheckTyped == TypeOK /\ AuthorityChain /\ ApplyCheck => TypeOK'
<1> SUFFICES ASSUME TypeOK, AuthorityChain, ApplyCheck PROVE TypeOK'
  OBVIOUS
<1>1. history' \in Histories
  BY DEF TypeOK, ApplyCheck, Histories, Stages
<1>2. CASE \E f \in DOMAIN proposal :
              /\ ApplyPreconditions(f)
              /\ held' = [file |-> f, bytes |-> tree[f]]
              /\ pc' = "write"
              /\ UNCHANGED <<receipts, revisions>>
  <2>1. PICK f \in DOMAIN proposal :
              /\ ApplyPreconditions(f)
              /\ held' = [file |-> f, bytes |-> tree[f]]
              /\ pc' = "write"
              /\ UNCHANGED <<receipts, revisions>>
    BY <1>2
  <2>2. f \in Files
    <3>1. receipts.pathGate.authorized = request.allowed
      BY DEF AuthorityChain, ApplyCheck, Admitted
    <3>2. QED BY <2>1, <3>1, RequestAssumption DEF ApplyPreconditions, ApplyAuthorised, TypeOK
  <2>3. tree[f] \in Contents
    BY <2>1, <2>2 DEF TypeOK, Trees, ApplyPreconditions
  <2>4. held' \in Option(HeldBytes)
    BY <2>1, <2>2, <2>3 DEF Option, HeldBytes
  <2>5. QED
    BY <1>1, <2>1, <2>4 DEF TypeOK, ApplyCheck, workspace, setup, outcome, Stops
<1>3. CASE /\ receipts' = [receipts EXCEPT !.apply = ZeroWrite]
           /\ revisions' = [revisions EXCEPT !.post = revisions.pre]
           /\ pc' = "resolveGreen"
           /\ UNCHANGED held
  <2>1. ZeroWrite \in Option(ApplyReceipts)
    BY DEF ZeroWrite, ApplyReceipts, Option
  <2>2. receipts' \in ReceiptRecords
    BY <1>3, <2>1 DEF TypeOK, ReceiptRecords
  <2>3. revisions' \in RevisionRecords
    BY <1>3 DEF TypeOK, RevisionRecords
  <2>4. QED
    BY <1>1, <1>3, <2>2, <2>3 DEF TypeOK, ApplyCheck, workspace, setup, outcome, Stops
<1>4. QED BY <1>2, <1>3 DEF ApplyCheck

\* What the applicator writes is a content, and its receipt says so: the
\* precondition it checked before it read the file still holds of the bytes it read.
LEMMA WrittenReceipt ==
  ASSUME TypeOK, AuthorityChain, ApplyWrite
  PROVE  /\ held.file \in Files /\ held.bytes \in Contents
         /\ Rewrite[proposal[held.file]][held.bytes] \in Contents
         /\ Rewrite[proposal[held.file]][held.bytes] # held.bytes
         /\ [writes |-> 1, file |-> held.file, from |-> held.bytes,
             to |-> Rewrite[proposal[held.file]][held.bytes]] \in ApplyReceipts
<1> DEFINE f == held.file
           new == Rewrite[proposal[f]][held.bytes]
<1>1. f \in Files /\ held.bytes \in Contents
  BY DEF TypeOK, AuthorityChain, ApplyWrite, Option, HeldBytes
<1>2. proposal \in Proposals /\ f \in DOMAIN proposal
  BY DEF AuthorityChain, ApplyWrite, Admitted
<1>3. new \in Contents /\ new # held.bytes
  <2>1. proposal[f] \in Hunks
    BY <1>2, SectionTyped
  <2>2. Rewrite[proposal[f]] \in [Contents -> Contents \cup {NoMatch}]
    BY <2>1, ProposalAssumption
  <2>3. new # NoMatch
    BY DEF AuthorityChain, ApplyWrite
  <2>4. QED BY <1>1, <2>1, <2>2, <2>3, ProposalAssumption
<1>4. QED
  BY <1>1, <1>3 DEF ApplyReceipts, Option

\* The workspace is a tree after the write.
LEMMA ApplyWriteTyped == TypeOK /\ AuthorityChain /\ ApplyWrite => TypeOK'
<1> SUFFICES ASSUME TypeOK, AuthorityChain, ApplyWrite PROVE TypeOK'
  OBVIOUS
<1>1. tree' \in Trees
  BY WrittenReceipt DEF TypeOK, ApplyWrite, Trees
<1>2. receipts' \in ReceiptRecords
  BY WrittenReceipt DEF TypeOK, ApplyWrite, ReceiptRecords, Option
<1>3. history' \in Histories
  <2>1. tree[held.file] \in Option(Contents \cup {Absent})
    BY WrittenReceipt DEF TypeOK, Trees, Option
  <2>2. QED BY <2>1 DEF TypeOK, ApplyWrite, Histories
<1>4. QED
  BY <1>1, <1>2, <1>3 DEF TypeOK, ApplyWrite, setup, outcome, Stops

\* The post-apply revision is one.
LEMMA CapturePostApplyTyped == TypeOK /\ CapturePostApply => TypeOK'
<1> SUFFICES ASSUME TypeOK, CapturePostApply PROVE TypeOK'
  OBVIOUS
<1>1. revisions' \in RevisionRecords
  BY RevisionTyped DEF TypeOK, CapturePostApply, PostApplyRevision, RevisionRecords, Option
<1>2. QED BY <1>1 DEF TypeOK, CapturePostApply, workspace, setup, outcome, Stops

\* The verifier of the GREEN stage is a known command.
LEMMA ResolveGreenTyped == TypeOK /\ ResolveGreen => TypeOK'
<1> SUFFICES ASSUME TypeOK, ResolveGreen PROVE TypeOK'
  OBVIOUS
<1> DEFINE blocked == Block("VERIFICATION_COMMAND_RESOLUTION",
                            {"agent", "parser", "applicator"}, None, NoReceipts)
<1>1. EffectiveCommand(request, tree) \in Option(Commands)
  BY EffectiveCommandTyped DEF TypeOK
<1>2. verification' \in Verifications
  BY <1>1 DEF TypeOK, ResolveGreen, Verifications
<1>3. result' \in Results /\ pc' \in Stops
  <2>1. CASE blocked
    <3>1. /\ "VERIFICATION_COMMAND_RESOLUTION" \in Option(BlockStages)
          /\ {"agent", "parser", "applicator"} \in SUBSET Stages
      BY DEF Option, BlockStages, Stages
    <3>2. QED BY <2>1, <3>1, NothingKept, BlockTyped
  <2>2. CASE ~blocked
    BY <2>2 DEF ResolveGreen, Stops, TypeOK
  <2>3. QED BY <2>1, <2>2
<1>4. QED BY <1>2, <1>3 DEF TypeOK, ResolveGreen, workspace, setup, chain

\* verify_workspace gives one of three verdicts.
LEMMA VerifyTyped == TypeOK /\ VerifierKnown /\ Verify => TypeOK'
<1> SUFFICES ASSUME TypeOK, VerifierKnown, Verify PROVE TypeOK'
  OBVIOUS
<1>1. verification.command \in Commands
  BY DEF TypeOK, VerifierKnown, Verify, Verifications, Option
<1>2. PICK v \in Verdicts[verification.command][tree] :
          /\ verification' = [verification EXCEPT
                                 !.verdict = IF v.exit = 0 THEN Passing ELSE Failing]
          /\ history' = [history EXCEPT !.ran = @ \cup {"verifier"},
                                        !.verified = [tree |-> tree, run |-> v]]
  BY DEF Verify
<1>3. [tree |-> tree, run |-> v] \in Option(Observations)
  BY <1>1, RunTyped DEF TypeOK, Option
<1>4. history' \in Histories
  BY <1>2, <1>3 DEF TypeOK, Histories, Stages
<1>5. verification' \in Verifications
  BY <1>2 DEF TypeOK, Verifications, VerdictRecords
<1>6. QED BY <1>4, <1>5 DEF TypeOK, Verify, workspace, setup, chain, Stops

\* The result of a finished run is well formed.
LEMMA FinalizeTyped == TypeOK /\ Finalize => TypeOK'
<1> SUFFICES ASSUME TypeOK, Finalize PROVE TypeOK'
  OBVIOUS
<1>1. result' \in Results
  <2>1. [decision |-> ProposedOutcome, stage |-> None, attempted |-> Stages,
         verdict |-> verification.verdict, proposal |-> proposal,
         receipts |-> receipts] \in Results
    BY DEF TypeOK, Results, ProposedOutcome, Verifications, Option
  <2>2. QED BY <2>1 DEF TypeOK, Finalize
<1>2. pc' \in Stops
  BY DEF Finalize, Stops, Terminal
<1>3. QED BY <1>1, <1>2 DEF TypeOK, Finalize, workspace, setup, chain

\* A file that vanishes leaves a tree behind.
LEMMA FileVanishesTyped == TypeOK /\ FileVanishes => TypeOK'
<1> SUFFICES ASSUME TypeOK, FileVanishes PROVE TypeOK'
  OBVIOUS
<1>1. tree' \in Trees
  BY DEF TypeOK, FileVanishes, FilesRead, Trees
<1>2. edits' \in 0 .. MaxEdits
  BY WorkspaceAssumption DEF TypeOK, FileVanishes
<1>3. history' \in Histories
  BY DEF TypeOK, FileVanishes, Histories
<1>4. QED
  BY <1>1, <1>2, <1>3 DEF TypeOK, FileVanishes, Raise, Stops, Terminal, setup, chain, outcome

\* So does a write that is cut short: the file held is one of the workspace.
LEMMA WriteFailsTyped == TypeOK /\ AuthorityChain /\ WriteFails => TypeOK'
<1> SUFFICES ASSUME TypeOK, AuthorityChain, WriteFails PROVE TypeOK'
  OBVIOUS
<1>1. held.file \in Files
  BY DEF TypeOK, AuthorityChain, WriteFails, Option, HeldBytes
<1>2. CutShort \in Trees
  BY <1>1, WorkspaceAssumption DEF TypeOK, CutShort, Trees
<1>3. tree' \in Trees
  BY <1>2 DEF TypeOK, WriteFails
<1>4. history' \in Histories
  <2>1. tree[held.file] \in Option(Contents \cup {Absent})
    BY <1>1 DEF TypeOK, Trees, Option
  <2>2. QED BY <2>1 DEF TypeOK, WriteFails, Histories
<1>5. QED
  BY <1>3, <1>4 DEF TypeOK, WriteFails, Raise, Stops, Terminal, setup, chain, outcome

\* The other writers leave a workspace and a staged file of the right types.
LEMMA ExternalTyped == TypeOK /\ External => TypeOK'
<1> SUFFICES ASSUME TypeOK, External PROVE TypeOK'
  OBVIOUS
<1>1. edits' \in 0 .. MaxEdits
  BY WorkspaceAssumption DEF TypeOK, External, ExternalWrite, ExternalStage
<1>2. CASE ExternalWrite
  <2>1. tree' \in Trees
    BY <1>2 DEF TypeOK, ExternalWrite, Trees
  <2>2. history' \in Histories
    BY <1>2 DEF TypeOK, ExternalWrite, Histories
  <2>3. QED
    BY <1>1, <1>2, <2>1, <2>2 DEF TypeOK, ExternalWrite, setup, chain, outcome
<1>3. CASE ExternalStage
  BY <1>1, <1>3 DEF TypeOK, ExternalStage, Option, setup, chain, outcome
<1>4. QED BY <1>2, <1>3 DEF External

-----------------------------------------------------------------------------
(* What a run reports                                                      *)


\* Each step adds to the stages that ran exactly the one it executes, and only
\* the faults escape once the agent was started (run_governed_execution).
LEMMA StagesRanInOrderStep == IInv /\ [Next]_vars => StagesRanInOrder'
<1> SUFFICES ASSUME IInv, [Next]_vars PROVE StagesRanInOrder'
  OBVIOUS
<1> USE DEF IInv, StagesRanInOrder, BeforeAgent, AfterAgent, InChain, AfterApply, Terminal,
            TypeOK, Histories, workspace, setup, chain, outcome
<1>1. CASE Preflight
  BY <1>1 DEF Preflight, Start, CaptureExpected, CaptureRevision, BuildContract, Block, Raise
<1>2. CASE Agent
  BY <1>2 DEF Agent, AgentDone, AgentFails, CheckReadOnly, Block
<1>3. CASE Red
  BY <1>3 DEF Red, QualifyBySeam, VerifyExpectation, ObserveRed, ObserveRedFails,
              AfterObservation
<1>4. CASE Mutation
  BY <1>4 DEF Mutation, CapturePreApply, ParseProposal, ValidateProposal, AdmitMutation,
              CheckExactPaths, ApplyCheck, ApplyWrite, CapturePostApply, Reject, Block
<1>5. CASE ResolveGreen \/ Verify
  BY <1>5 DEF ResolveGreen, Verify, Block, Stages
<1>6. CASE Finalize
  BY <1>6 DEF Finalize, CompletionAllowed, ProposedOutcome, Verified, Verifications,
              VerdictRecords, NotRun, Failing, Passing
<1>7. CASE Faults
  BY <1>7 DEF Faults, FileVanishes, WriteFails, Raise
<1>8. CASE External
  BY <1>8 DEF External, ExternalWrite, ExternalStage
<1>9. CASE UNCHANGED vars
  BY <1>9 DEF vars
<1>10. QED
  BY <1>1, <1>2, <1>3, <1>4, <1>5, <1>6, <1>7, <1>8, <1>9
  DEF Next, Harness, Finished, Green

\* No step makes a receipt or a verdict before its stage, and the receipt of the
\* write records a change (execute_mutation_chain, verify_workspace).
LEMMA ReceiptsInOrderStep == IInv /\ [Next]_vars => ReceiptsInOrder'
<1> SUFFICES ASSUME IInv, [Next]_vars PROVE ReceiptsInOrder'
  OBVIOUS
<1> USE DEF IInv, ReceiptsInOrder, Admitted, AfterWrite, Terminal,
            workspace, setup, chain, outcome
<1>1. CASE Preflight
  BY <1>1 DEF Preflight, Start, CaptureExpected, CaptureRevision, BuildContract, Block, Raise,
              NoReceipts
<1>2. CASE Agent
  BY <1>2 DEF Agent, AgentDone, AgentFails, CheckReadOnly, Block
<1>3. CASE Red
  BY <1>3 DEF Red, QualifyBySeam, VerifyExpectation, ObserveRed, ObserveRedFails,
              AfterObservation
<1>4. CASE CapturePreApply \/ ParseProposal \/ ValidateProposal
  BY <1>4 DEF CapturePreApply, ParseProposal, ValidateProposal, Reject, Block
<1>5. CASE AdmitMutation
  <2>1. receipts'.apply = None /\ receipts'.pathGate = None
    BY <1>5 DEF AdmitMutation, NoReceipts
  <2>2. QED BY <1>5, <2>1 DEF AdmitMutation, Reject, Block
<1>6. CASE CheckExactPaths
  <2>1. receipts'.apply = None
    BY <1>6 DEF CheckExactPaths, TypeOK, ReceiptRecords
  <2>2. QED BY <1>6, <2>1 DEF CheckExactPaths, Reject, Block
<1>7. CASE ApplyCheck
  <2>1. CASE pc' = "write"
    BY <1>7, <2>1 DEF ApplyCheck
  <2>2. CASE pc' # "write"
    <3>1. receipts'.apply.writes = 0 /\ pc' = "resolveGreen"
      BY <1>7, <2>2 DEF ApplyCheck, ZeroWrite, TypeOK, ReceiptRecords
    <3>2. QED BY <1>7, <3>1 DEF ApplyCheck
  <2>3. QED BY <2>1, <2>2
<1>8. CASE ApplyWrite
  <2>1. /\ held.file \in Files
        /\ held.bytes \in Contents
        /\ Rewrite[proposal[held.file]][held.bytes] \in Contents
        /\ Rewrite[proposal[held.file]][held.bytes] # held.bytes
    BY <1>8, WrittenReceipt
  <2>2. receipts'.apply = [writes |-> 1, file |-> held.file, from |-> held.bytes,
                           to |-> Rewrite[proposal[held.file]][held.bytes]]
    BY <1>8 DEF ApplyWrite, TypeOK, ReceiptRecords
  <2>3. QED BY <1>8, <2>1, <2>2 DEF ApplyWrite
<1>9. CASE CapturePostApply
  BY <1>9 DEF CapturePostApply
<1>10. CASE ResolveGreen
  BY <1>10 DEF ResolveGreen, Block, TypeOK, Verifications
<1>11. CASE Verify
  <2>1. PICK v \in Verdicts[verification.command][tree] :
          /\ verification' = [verification EXCEPT
                                 !.verdict = IF v.exit = 0 THEN Passing ELSE Failing]
          /\ history' = [history EXCEPT !.ran = @ \cup {"verifier"},
                                        !.verified = [tree |-> tree, run |-> v]]
    BY <1>11 DEF Verify
  <2>2. history'.verified.run = v
    BY <2>1 DEF TypeOK, Histories
  <2>3. /\ verification'.command = verification.command
        /\ verification'.verdict = Passing <=> v.exit = 0
    BY <2>1 DEF TypeOK, Verifications, Passing, Failing
  <2>4. QED BY <1>11, <2>2, <2>3 DEF Verify, VerifierKnown
<1>12. CASE Finalize
  <2>1. CompletionAllowed(ProposedOutcome, verification.verdict)
    BY DEF CompletionAllowed, ProposedOutcome, Verified, TypeOK, Verifications,
           VerdictRecords, NotRun, Failing, Passing
  <2>2. QED BY <1>12, <2>1 DEF Finalize
<1>13. CASE Faults
  BY <1>13 DEF Faults, FileVanishes, FilesRead, WriteFails, Raise, NoReceipts
<1>14. CASE External
  <2>1. history'.verified = history.verified
    BY <1>14 DEF External, ExternalWrite, ExternalStage, TypeOK, Histories
  <2>2. QED BY <1>14, <2>1 DEF External, ExternalWrite, ExternalStage
<1>15. CASE UNCHANGED vars
  BY <1>15 DEF vars
<1>16. QED
  BY <1>1, <1>2, <1>3, <1>4, <1>5, <1>6, <1>7, <1>8, <1>9, <1>10, <1>11, <1>12, <1>13,
     <1>14, <1>15
  DEF Next, Harness, Finished, Mutation, Green

\* No step loses sight of what the write replaces: only another process changes
\* the file between the read and the write, and then the run was raced.
LEMMA WriteIsWatchedStep == IInv /\ [Next]_vars => WriteIsWatched'
<1> SUFFICES ASSUME IInv, [Next]_vars PROVE WriteIsWatched'
  OBVIOUS
<1> USE DEF IInv, WriteIsWatched, LostUpdateOnlyIfRaced, AfterWrite, Terminal,
            workspace, setup, chain, outcome
<1>1. CASE Preflight
  <2>1. UNCHANGED <<history.overwritten, history.raced>>
    BY <1>1 DEF Preflight, Start, CaptureExpected, CaptureRevision, BuildContract, TypeOK, Histories
  <2>2. QED
    BY <1>1, <2>1 DEF Preflight, Start, CaptureExpected, CaptureRevision, BuildContract, Block, Raise
<1>2. CASE Agent
  BY <1>2 DEF Agent, AgentDone, AgentFails, CheckReadOnly, Block, TypeOK, Histories
<1>3. CASE Red
  BY <1>3 DEF Red, QualifyBySeam, VerifyExpectation, ObserveRed, ObserveRedFails,
              AfterObservation, TypeOK, Histories
<1>4. CASE CapturePreApply \/ ParseProposal \/ ValidateProposal \/ AdmitMutation \/ CheckExactPaths
  BY <1>4 DEF CapturePreApply, ParseProposal, ValidateProposal, AdmitMutation,
              CheckExactPaths, Reject, Block, TypeOK, Histories
<1>5. CASE ApplyCheck
  BY <1>5 DEF ApplyCheck, TypeOK, Histories
<1>6. CASE ApplyWrite
  <2>1. /\ history'.overwritten = tree[held.file]
        /\ history'.raced = history.raced
    BY <1>6 DEF ApplyWrite, TypeOK, Histories
  <2>2. held.bytes = before.expected[held.file]
    BY <1>6 DEF ApplyWrite, AuthorityChain
  <2>3. QED BY <1>6, <2>1, <2>2 DEF ApplyWrite
<1>7. CASE CapturePostApply
  BY <1>7 DEF CapturePostApply
<1>8. CASE Green
  BY <1>8 DEF Green, ResolveGreen, Verify, Finalize, Block, TypeOK, Histories
<1>9. CASE FileVanishes
  BY <1>9 DEF FileVanishes, FilesRead, Raise, TypeOK, Histories
<1>10. CASE WriteFails
  <2>1. /\ history'.overwritten \in {history.overwritten, tree[held.file]}
        /\ history'.raced = history.raced
    BY <1>10 DEF WriteFails, TypeOK, Histories
  <2>2. held.bytes = before.expected[held.file]
    BY <1>10 DEF WriteFails, AuthorityChain
  <2>3. QED BY <1>10, <2>1, <2>2 DEF WriteFails, Raise
<1>11. CASE External
  BY <1>11 DEF External, ExternalWrite, ExternalStage, TypeOK, Histories
<1>12. CASE UNCHANGED vars
  BY <1>12 DEF vars
<1>13. QED
  BY <1>1, <1>2, <1>3, <1>4, <1>5, <1>6, <1>7, <1>8, <1>9, <1>10, <1>11, <1>12
  DEF Next, Harness, Finished, Mutation, Faults

\* Whichever step ends the run, its result is one of the six shapes, and says
\* what has happened by then (_block, finalize_from_sealed_evidence).
LEMMA ResultIsOneOfStep == IInv /\ [Next]_vars => ResultIsOneOf'
<1> SUFFICES ASSUME IInv, [Next]_vars PROVE ResultIsOneOf'
  OBVIOUS
<1> USE DEF IInv, ResultIsOneOf, Terminal, workspace, setup, chain, outcome
<1>1. CASE Start
  <2>1. CASE pc' = "done"
    <3>1. RefusedEarly'
      BY <1>1, <2>1 DEF Start, Raise, Block, RefusedEarly, Blocked, StagesRanInOrder,
         BeforeAgent, ReceiptsInOrder, Admitted, AfterWrite, WriteIsWatched, AloneNothingMoves,
         NoReceipts
    <3>2. QED BY <2>1, <3>1
  <2>2. CASE pc' # "done"
    BY <1>1, <2>2 DEF Start, Raise, Block
  <2>3. QED BY <2>1, <2>2
<1>2. CASE CaptureExpected
  <2>1. CASE pc' = "done"
    <3>1. RefusedEarly'
      BY <1>2, <2>1 DEF CaptureExpected, Block, RefusedEarly, Blocked, StagesRanInOrder,
         BeforeAgent, ReceiptsInOrder, Admitted, AfterWrite, WriteIsWatched, AloneNothingMoves,
         NoReceipts
    <3>2. QED BY <2>1, <3>1
  <2>2. CASE pc' # "done"
    BY <1>2, <2>2 DEF CaptureExpected, Block
  <2>3. QED BY <2>1, <2>2
<1>3. CASE CaptureRevision \/ BuildContract
  BY <1>3 DEF CaptureRevision, BuildContract, Raise
<1>4. CASE AgentDone
  BY <1>4 DEF AgentDone
<1>5. CASE AgentFails
  <2>1. AgentStopped'
    BY <1>5 DEF AgentFails, Block, AgentStopped, Blocked, StagesRanInOrder,
       BeforeAgent, ReceiptsInOrder, Admitted, AfterWrite, WriteIsWatched, NoReceipts,
       TypeOK, Histories
  <2>2. QED BY <1>5, <2>1 DEF AgentFails, Block
<1>6. CASE CheckReadOnly
  <2>1. CASE pc' = "done"
    <3>1. WorkspaceTouched'
      BY <1>6, <2>1 DEF CheckReadOnly, Block, WorkspaceTouched, Blocked, StagesRanInOrder,
         AfterAgent, ReceiptsInOrder, Admitted, AfterWrite, WriteIsWatched, NoReceipts
    <3>2. QED BY <2>1, <3>1
  <2>2. CASE pc' # "done"
    BY <1>6, <2>2 DEF CheckReadOnly, Block
  <2>3. QED BY <2>1, <2>2
<1>7. CASE Red
  BY <1>7 DEF Red, QualifyBySeam, VerifyExpectation, ObserveRed, ObserveRedFails,
              AfterObservation
<1>8. CASE CapturePreApply \/ ApplyCheck \/ ApplyWrite \/ CapturePostApply \/ Verify
  BY <1>8 DEF CapturePreApply, ApplyCheck, ApplyWrite, CapturePostApply, Verify
<1>9. CASE ParseProposal \/ ValidateProposal
  <2>1. CASE pc' = "done"
    <3>1. Reject(NoReceipts) /\ UNCHANGED receipts
      BY <1>9, <2>1 DEF ParseProposal, ValidateProposal
    <3>2. receipts = NoReceipts /\ history.overwritten = None
      BY <1>9 DEF ParseProposal, ValidateProposal, ReceiptsInOrder, Admitted, AfterWrite,
                  WriteIsWatched
    <3>3. history'.ran = {"agent", "parser"} /\ history'.overwritten = history.overwritten
      BY <1>9 DEF ParseProposal, ValidateProposal, StagesRanInOrder, AfterAgent, InChain,
                  TypeOK, Histories
    <3>4. NoReceipts = [NoReceipts EXCEPT !.apply = None]
      BY DEF NoReceipts
    <3>5. ChainStopped'
      BY <3>1, <3>2, <3>3, <3>4 DEF Reject, Block, ChainStopped, Blocked, AttemptedBeforeApply,
         NoReceipts
    <3>6. QED BY <2>1, <3>5
  <2>2. CASE pc' # "done"
    BY <1>9, <2>2 DEF ParseProposal, ValidateProposal, Reject, Block
  <2>3. QED BY <2>1, <2>2
<1>10. CASE AdmitMutation
  <2>1. CASE pc' = "done"
    <3>1. ~red.qualified /\ Reject(receipts')
      BY <1>10, <2>1 DEF AdmitMutation
    <3>2. receipts = NoReceipts /\ history.ran = {"agent", "parser"} /\ history.overwritten = None
      BY <1>10 DEF AdmitMutation, StagesRanInOrder, InChain, ReceiptsInOrder, Admitted,
                   AfterWrite, WriteIsWatched
    <3>3. receipts' = [admission |-> [decision |-> "DENY", revision |-> before.revision],
                       pathGate |-> None, apply |-> None]
      BY <1>10, <3>1, <3>2 DEF AdmitMutation, AdmissionDecision, NoReceipts
    <3>4. receipts'.admission # None
      BY <1>10, <3>3, NoneAssumption DEF AdmitMutation, AdmissionReceipts, RevisionKnown, TypeOK, BeforeStates, Option
    <3>5. receipts' = [receipts' EXCEPT !.apply = None]
      BY <3>3
    <3>6. ChainStopped'
      BY <1>10, <3>1, <3>2, <3>3, <3>4, <3>5 DEF AdmitMutation, Reject, Block, ChainStopped,
         Blocked, AttemptedBeforeApply
    <3>7. QED BY <2>1, <3>6
  <2>2. CASE pc' # "done"
    BY <1>10, <2>2 DEF AdmitMutation, Reject, Block
  <2>3. QED BY <2>1, <2>2
<1>11. CASE CheckExactPaths
  <2>1. CASE pc' = "done"
    <3>1. /\ receipts' = [receipts EXCEPT !.pathGate =
                            [decision |-> "DENY", authorized |-> request.allowed,
                             revision |-> before.revision]]
          /\ Reject(receipts')
      BY <1>11, <2>1 DEF CheckExactPaths
    <3>2. /\ receipts.apply = None /\ history.ran = {"agent", "parser"}
          /\ history.overwritten = None
          /\ receipts.admission = [decision |-> "ALLOW", revision |-> before.revision]
      BY <1>11 DEF CheckExactPaths, StagesRanInOrder, InChain, ReceiptsInOrder, Admitted,
                   AfterWrite, WriteIsWatched, AuthorityChain
    <3>3. /\ receipts'.apply = None /\ receipts'.admission = receipts.admission
          /\ receipts'.pathGate = [decision |-> "DENY", authorized |-> request.allowed,
                                   revision |-> before.revision]
          /\ receipts' = [receipts' EXCEPT !.apply = None]
      BY <3>1, <3>2 DEF TypeOK, ReceiptRecords
    <3>4. receipts'.admission # None /\ receipts'.pathGate # None
      BY <1>11, <3>2, <3>3, NoneAssumption, RequestAssumption
      DEF CheckExactPaths, AdmissionReceipts, PathGateReceipts, RevisionKnown, TypeOK,
          BeforeStates, Option
    <3>5. ChainStopped'
      BY <1>11, <3>1, <3>2, <3>3, <3>4 DEF CheckExactPaths, Reject, Block, ChainStopped, Blocked,
         AttemptedBeforeApply
    <3>6. QED BY <2>1, <3>5
  <2>2. CASE pc' # "done"
    BY <1>11, <2>2 DEF CheckExactPaths, Reject, Block
  <2>3. QED BY <2>1, <2>2
<1>12. CASE ResolveGreen
  <2>1. CASE pc' = "done"
    <3>1. NoVerifier'
      BY <1>12, <2>1 DEF ResolveGreen, Block, NoVerifier, Blocked, StagesRanInOrder,
         AfterApply, AuthorityChain, AfterWrite, NoReceipts
    <3>2. QED BY <2>1, <3>1
  <2>2. CASE pc' # "done"
    BY <1>12, <2>2 DEF ResolveGreen, Block
  <2>3. QED BY <2>1, <2>2
<1>13. CASE Finalize
  <2>1. CompletionAllowed(ProposedOutcome, verification.verdict)
    BY DEF CompletionAllowed, ProposedOutcome, Verified, TypeOK, Verifications,
           VerdictRecords, NotRun, Failing, Passing
  <2>2. Judged'
    <3>1. /\ receipts.admission = [decision |-> "ALLOW", revision |-> before.revision]
          /\ receipts.pathGate = [decision |-> "ALLOW", authorized |-> request.allowed,
                                  revision |-> before.revision]
          /\ receipts.apply # None
      BY <1>13 DEF Finalize, AuthorityChain, Admitted, AfterWrite
    <3>2. receipts.admission # None /\ receipts.pathGate # None
      BY <1>13, <3>1, NoneAssumption, RequestAssumption
      DEF Finalize, AdmissionReceipts, PathGateReceipts, RevisionKnown, TypeOK,
          BeforeStates, Option
    <3>3. QED
      BY <1>13, <2>1, <3>1, <3>2 DEF Finalize, Judged, StagesRanInOrder, ReceiptsInOrder,
         ProposedOutcome, Wrote, Verified
  <2>3. QED BY <1>13, <2>1, <2>2 DEF Finalize
<1>14. CASE Faults
  BY <1>14 DEF Faults, FileVanishes, FilesRead, WriteFails, Raise
<1>15. CASE External
  BY <1>15 DEF External, ExternalWrite, ExternalStage
<1>16. CASE UNCHANGED vars
  BY <1>16 DEF vars, RefusedEarly, AgentStopped, WorkspaceTouched, ChainStopped, NoVerifier,
               Judged, Blocked, ProposedOutcome, Wrote, Verified
<1>17. QED
  BY <1>1, <1>2, <1>3, <1>4, <1>5, <1>6, <1>7, <1>8, <1>9, <1>10, <1>11, <1>12, <1>13,
     <1>14, <1>15, <1>16
  DEF Next, Harness, Finished, Preflight, Agent, Mutation, Green

\* Until the applicator writes, a harness that is alone has the captured tree.
LEMMA AloneUntilTheWrite ==
  ASSUME IInv, edits = 0, history.captured # None, pc \notin AfterWrite \cup Terminal
  PROVE  tree = history.captured
<1>1. receipts.apply = None
  BY DEF IInv, AuthorityChain
<1>2. QED
  BY <1>1 DEF IInv, AloneNothingMoves, SoloRevisionsAreTrue, Terminal

\* Nothing has been observed before the revision is captured: an observation
\* carries it.
LEMMA AloneUnobserved ==
  ASSUME IInv, edits = 0, pc = "captureRevision"
  PROVE  history.observed = None
<1>1. history.captured = None
  BY DEF IInv, AloneNothingMoves
<1>2. history.observed # None => history.observed.tree \in Trees
  BY DEF IInv, TypeOK, Histories, Option, Observations
<1>3. QED
  BY <1>1, <1>2, NoneAssumption DEF IInv, AloneNothingMoves, SoloRevisionsAreTrue

\* As long as nobody else writes, each step finds the workspace as the one before
\* left it, so every revision it records is the workspace's (capture_before_state,
\* execute_mutation_chain, verify_workspace).
LEMMA AloneNothingMovesStep == IInv /\ [Next]_vars => AloneNothingMoves'
<1> SUFFICES ASSUME IInv, [Next]_vars PROVE AloneNothingMoves'
  OBVIOUS
<1> USE DEF IInv, AloneNothingMoves, SoloRevisionsAreTrue, InChain, Terminal,
            workspace, setup, chain, outcome
<1>1. CASE Start
  BY <1>1, NoneAssumption DEF Start, Raise, Block, ReceiptsInOrder, Admitted, AfterWrite,
     NoReceipts
<1>2. CASE CaptureExpected
  <2>1. before.revision = None /\ history.captured = None /\ UNCHANGED <<tree, history>>
    BY <1>2 DEF CaptureExpected, RevisionKnown
  <2>2. /\ before'.revision = None
        /\ pc' = "captureRevision" => before'.expected = [f \in request.allowed |-> tree[f]]
    BY <1>2, <2>1 DEF CaptureExpected, Block, TypeOK, BeforeStates
  <2>3. QED BY <1>2, <2>1, <2>2, NoneAssumption DEF CaptureExpected, Block
<1>3. CASE CaptureRevision
  <2>1. edits = 0 => history.observed = None
    BY <1>3, AloneUnobserved DEF CaptureRevision
  <2>2. /\ before'.expected = before.expected /\ before'.revision # None
        /\ history'.captured = tree /\ history'.observed = history.observed
    BY <1>3, RevisionTyped DEF CaptureRevision, TypeOK, BeforeStates, Histories
  <2>3. receipts = NoReceipts /\ result = NoResult
    BY <1>3 DEF CaptureRevision, ReceiptsInOrder, Admitted, AfterWrite, ResultIsOneOf
  <2>4. QED BY <1>3, <2>1, <2>2, <2>3, NoneAssumption DEF CaptureRevision, NoReceipts, NoResult
<1>4. CASE BuildContract
  BY <1>4 DEF BuildContract, Raise
<1>5. CASE Agent
  <2>1. UNCHANGED <<history.captured, history.observed, history.verified>>
    BY <1>5 DEF Agent, AgentDone, AgentFails, CheckReadOnly, TypeOK, Histories
  <2>2. pc # "raised" /\ (result'.decision \in {"COMPLETED", "FAILED"} => result' = result)
    BY <1>5 DEF Agent, AgentDone, AgentFails, CheckReadOnly, Block
  <2>3. UNCHANGED <<tree, edits, before, request, receipts, held, revisions>>
    BY <1>5 DEF Agent, AgentDone, AgentFails, CheckReadOnly
  <2>4. pc' \in {"readOnlyCheck", "redExpectation", "redSeam", "done"}
    BY <1>5 DEF Agent, AgentDone, AgentFails, CheckReadOnly, Block
  <2>5. QED BY <1>5, <2>1, <2>2, <2>3, <2>4
<1>6. CASE QualifyBySeam \/ VerifyExpectation \/ ObserveRedFails
  BY <1>6 DEF QualifyBySeam, VerifyExpectation, ObserveRedFails
<1>7. CASE ObserveRed
  <2>1. edits = 0 => tree = history.captured
    BY <1>7, AloneUntilTheWrite DEF ObserveRed, RevisionKnown, AfterWrite
  <2>2. /\ history'.observed.tree = tree
        /\ UNCHANGED <<history.captured, history.verified>>
    BY <1>7 DEF ObserveRed, TypeOK, Histories
  <2>3. QED BY <1>7, <2>1, <2>2 DEF ObserveRed, AfterObservation
<1>8. CASE CapturePreApply
  <2>1. revisions'.pre = Revision(tree) /\ revisions'.post = revisions.post
    BY <1>8 DEF CapturePreApply, TypeOK, RevisionRecords
  <2>2. result = NoResult
    BY <1>8 DEF CapturePreApply, ResultIsOneOf
  <2>3. QED BY <1>8, <2>1, <2>2, NoneAssumption DEF CapturePreApply, NoResult
<1>9. CASE ParseProposal \/ ValidateProposal
  <2>1. UNCHANGED <<history.captured, history.observed, history.verified>>
    BY <1>9 DEF ParseProposal, ValidateProposal, TypeOK, Histories
  <2>2. pc # "raised" /\ (result'.decision \in {"COMPLETED", "FAILED"} => result' = result)
    BY <1>9 DEF ParseProposal, ValidateProposal, Reject, Block
  <2>3. UNCHANGED <<tree, edits, before, request, receipts, held, revisions>>
    BY <1>9 DEF ParseProposal, ValidateProposal
  <2>4. pc' \in {"validate", "admit", "done"} /\ pc \in {"parse", "validate"}
    BY <1>9 DEF ParseProposal, ValidateProposal, Reject, Block
  <2>5. QED BY <2>1, <2>2, <2>3, <2>4
<1>10. CASE AdmitMutation \/ CheckExactPaths
  <2>1. receipts.apply = None /\ receipts'.apply = None
    BY <1>10 DEF AdmitMutation, CheckExactPaths, ReceiptsInOrder, Admitted, AfterWrite,
                 TypeOK, ReceiptRecords, NoReceipts
  <2>2. pc # "raised" /\ (result'.decision \in {"COMPLETED", "FAILED"} => result' = result)
    BY <1>10 DEF AdmitMutation, CheckExactPaths, Reject, Block
  <2>3. UNCHANGED <<tree, edits, before, request, held, revisions, history>>
    BY <1>10 DEF AdmitMutation, CheckExactPaths
  <2>4. pc' \in {"pathGate", "apply", "done"} /\ pc \in {"admit", "pathGate"}
    BY <1>10 DEF AdmitMutation, CheckExactPaths, Reject, Block
  <2>5. result = NoResult
    BY <2>4 DEF ResultIsOneOf
  <2>6. QED BY <2>1, <2>2, <2>3, <2>4, <2>5, NoneAssumption DEF NoResult
<1>11. CASE ApplyCheck
  <2>1. edits = 0 => tree = history.captured
    BY <1>11, AloneUntilTheWrite DEF ApplyCheck, RevisionKnown, AfterWrite
  <2>2. UNCHANGED <<history.captured, history.observed, history.verified>>
    BY <1>11 DEF ApplyCheck, TypeOK, Histories
  <2>3. UNCHANGED <<tree, edits, before, request, result>> /\ result = NoResult
    BY <1>11 DEF ApplyCheck, ResultIsOneOf
  <2>4. \/ pc' = "write" /\ UNCHANGED <<receipts, revisions>>
        \/ /\ pc' = "resolveGreen" /\ receipts'.apply.writes = 0
           /\ revisions'.post = revisions.pre
    BY <1>11 DEF ApplyCheck, ZeroWrite, TypeOK, ReceiptRecords, RevisionRecords
  <2>5. receipts.apply = None
    BY <1>11 DEF ApplyCheck, ReceiptsInOrder
  <2>6. pc = "apply"
    BY <1>11 DEF ApplyCheck
  <2>7. QED BY <2>1, <2>2, <2>3, <2>4, <2>5, <2>6, NoneAssumption DEF NoResult
<1>12. CASE ApplyWrite
  <2>1. edits = 0 => tree = history.captured
    BY <1>12, AloneUntilTheWrite DEF ApplyWrite, RevisionKnown, AfterWrite
  <2>2. UNCHANGED <<history.captured, history.observed, history.verified>>
    BY <1>12 DEF ApplyWrite, TypeOK, Histories
  <2>3. UNCHANGED <<edits, before, request, result>> /\ result = NoResult
    BY <1>12 DEF ApplyWrite, ResultIsOneOf
  <2>4. /\ receipts'.apply = [writes |-> 1, file |-> held.file, from |-> held.bytes,
                              to |-> Rewrite[proposal[held.file]][held.bytes]]
        /\ tree' = [tree EXCEPT ![receipts'.apply.file] = receipts'.apply.to]
    BY <1>12 DEF ApplyWrite, TypeOK, ReceiptRecords
  <2>5. receipts'.apply # None /\ receipts'.apply.writes = 1
    BY <1>12, <2>4, WrittenReceipt, NoneAssumption
  <2>6. pc' = "postApply"
    BY <1>12 DEF ApplyWrite
  <2>7. history.captured # None
    BY <1>12 DEF ApplyWrite, RevisionKnown
  <2>8. QED BY <2>1, <2>2, <2>3, <2>4, <2>5, <2>6, <2>7, NoneAssumption DEF NoResult
<1>13. CASE CapturePostApply
  <2>1. revisions'.post = Revision(tree)
    BY <1>13 DEF CapturePostApply, PostApplyRevision, TypeOK, RevisionRecords
  <2>2. result = NoResult
    BY <1>13 DEF CapturePostApply, ResultIsOneOf
  <2>3. QED BY <1>13, <2>1, <2>2, NoneAssumption DEF CapturePostApply, NoResult
<1>14. CASE ResolveGreen
  BY <1>14 DEF ResolveGreen, Block
<1>15. CASE Verify
  <2>1. /\ history'.verified.tree = tree
        /\ UNCHANGED <<history.captured, history.observed>>
    BY <1>15 DEF Verify, TypeOK, Histories
  <2>2. result = NoResult
    BY <1>15 DEF Verify, ResultIsOneOf
  <2>3. QED BY <1>15, <2>1, <2>2, NoneAssumption DEF Verify, NoResult
<1>16. CASE Finalize
  <2>1. CompletionAllowed(ProposedOutcome, verification.verdict)
    BY DEF CompletionAllowed, ProposedOutcome, Verified, TypeOK, Verifications,
           VerdictRecords, NotRun, Failing, Passing
  <2>2. pc' = "done" /\ pc = "finalize"
    BY <1>16, <2>1 DEF Finalize
  <2>3. QED BY <1>16, <2>2 DEF Finalize
<1>17. CASE WriteFails
  <2>1. edits = 0 => tree = history.captured
    BY <1>17, AloneUntilTheWrite DEF WriteFails, RevisionKnown, AfterWrite
  <2>2. UNCHANGED <<history.captured, history.observed, history.verified>>
    BY <1>17 DEF WriteFails, TypeOK, Histories
  <2>3. held # None /\ receipts.apply = None /\ result = NoResult
    BY <1>17 DEF WriteFails, AuthorityChain, ReceiptsInOrder, ResultIsOneOf
  <2>4. pc' = "raised" /\ (tree' = tree \/ tree' = [tree EXCEPT ![held.file] = Empty])
    BY <1>17 DEF WriteFails, Raise, CutShort
  <2>5. UNCHANGED <<edits, before, request, receipts, held, result>>
    BY <1>17 DEF WriteFails
  <2>6. edits' = 0 => \/ tree' = history'.captured
                      \/ tree' = [history'.captured EXCEPT ![held'.file] = Empty]
    BY <2>1, <2>2, <2>4, <2>5
  <2>7. result'.decision \notin {"COMPLETED", "FAILED"}
    BY <2>3, <2>5, NoneAssumption DEF NoResult
  <2>8. QED BY <2>2, <2>3, <2>4, <2>5, <2>6, <2>7
<1>18. CASE FileVanishes \/ External
  <2>1. edits' # 0 /\ before' = before /\ history'.captured = history.captured
    BY <1>18, WorkspaceAssumption DEF FileVanishes, External, ExternalWrite, ExternalStage,
       TypeOK, Histories
  <2>2. pc' = pc \/ pc' = "raised"
    BY <1>18 DEF FileVanishes, Raise, External, ExternalWrite, ExternalStage
  <2>3. QED BY <2>1, <2>2
<1>19. CASE UNCHANGED vars
  BY <1>19 DEF vars
<1>20. QED
  BY <1>1, <1>2, <1>3, <1>4, <1>5, <1>6, <1>7, <1>8, <1>9, <1>10, <1>11, <1>12, <1>13,
     <1>14, <1>15, <1>16, <1>17, <1>18, <1>19
  DEF Next, Harness, Finished, Preflight, Red, Mutation, Green, Faults
=============================================================================
