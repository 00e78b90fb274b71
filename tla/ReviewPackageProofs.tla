------------------------- MODULE ReviewPackageProofs -------------------------
(***************************************************************************)
(* IInv is an invariant of ReviewPackage, for any number of runs, crashes, *)
(* edits and overlaps, and gives what a reader of a package relies on.     *)
(***************************************************************************)
EXTENDS ReviewPackage, TLAPS

\* What the steps of a run leave alone.
LEMMA RunFrame ==
  ASSUME NEW i \in Runs, Start(i) \/ Step(i) \/ CommandStageFails(i) \/ Crash(i)
  PROVE  UNCHANGED <<tree, head, history, receipt, sealer>>
BY DEF Start, Step, RunCommand, CommandStageFails, WriteEvidence, AttacksRaise, RunAttacks,
       WriteScm, WriteCandidate, WriteIndex, WritePackage, CheckPackage, WriteSidecar, Crash,
       world, package, observed

\* What somebody outside the runs leaves alone.
LEMMA OutsideFrame ==
  ASSUME Seal \/ Edit \/ Commit
  PROVE  UNCHANGED <<review, out, run, faults, overlapped, swapped>>
BY DEF Seal, SealRead, SealDigest, SealWrite, SealSidecar, Edit, Commit,
       world, package, observed

LEMMA ReaddressFrame ==
  ASSUME Readdress
  PROVE  UNCHANGED <<tree, head, history, out, sidecar, receipt, run, sealer, intrusions, faults,
                     overlapped, swapped>>
BY DEF Readdress, world, package, observed

\* Of the review directory it changes only the base of receipts.
IsReceipt(n) == \E c \in Commands : n = Receipt(c)

LEMMA ReaddressWrites ==
  ASSUME Readdress
  PROVE  /\ DOMAIN review' = DOMAIN review
         /\ \A n \in DOMAIN review :
              \/ review'[n] = review[n]
              \/ IsReceipt(n) /\ review'[n] = [review[n] EXCEPT !.base = "package"]
<1> DEFINE rewritten == {n \in DOMAIN review \cap {Receipt(c) : c \in Commands} :
                           review[n].base = "review"}
           files == [n \in rewritten |-> [review[n] EXCEPT !.base = "package"]]
<1>1. review' = Overlay(review, files)
  BY DEF Readdress, Write
<1>2. DOMAIN files = rewritten /\ rewritten \subseteq DOMAIN review
  OBVIOUS
<1>3. \A n \in rewritten : files[n] = [review[n] EXCEPT !.base = "package"] /\ IsReceipt(n)
  BY DEF IsReceipt
<1> HIDE DEF files, rewritten
<1>4. QED
  BY <1>1, <1>2, <1>3 DEF Overlay

-----------------------------------------------------------------------------
(* Types                                                                   *)

\* A verdict of a gate is PASS or FAIL.
LEMMA GateTyped == ASSUME NEW b PROVE Gate(b) \in {Pass, Fail}
BY DEF Gate

\* A run that is at a stage has the record of a live run.
LEMMA LiveRun ==
  ASSUME Types, NEW i \in Runs, run[i].at \in Stages
  PROVE  run[i] \in LiveRuns
<1>1. run[i] \in RunRecords
  BY DEF Types
<1>2. run[i].at # "new" /\ run[i].at # "ended"
  BY DEF Stages
<1>3. QED
  BY <1>1, <1>2 DEF RunRecords, EndedRuns

\* What a run does to its own record.
Kept(i) ==
  /\ run' \in [Runs -> RunRecords]
  /\ \A j \in Runs \ {i} : run'[j] = run[j]
  /\ run'[i].at # "new"
  /\ run'[i].at = "commands" => run'[i].todo # {}
  /\ run[i].at # "new" => run'[i].kind = run[i].kind /\ run'[i].refs = run[i].refs

LEMMA RunGoes ==
  ASSUME Types, NEW i \in Runs, run[i].at \in Stages,
         NEW stage \in Stages \ {"commands"}, Goto(i, stage)
  PROVE  Kept(i)
<1>1. run[i] \in LiveRuns
  BY LiveRun
<1>2. [run[i] EXCEPT !.at = stage] \in LiveRuns
  BY <1>1 DEF LiveRuns
<1>3. run' = [run EXCEPT ![i] = [run[i] EXCEPT !.at = stage]]
  BY DEF Goto
<1>4. QED
  BY <1>1, <1>2, <1>3 DEF Types, Kept, RunRecords, LiveRuns, Stages

LEMMA RunFinishes ==
  ASSUME Types, NEW i \in Runs, run[i].at \in Stages, NEW result \in Results, Finish(i, result)
  PROVE  Kept(i) /\ run'[i].at = "ended"
<1>1. run[i] \in LiveRuns
  BY LiveRun
<1>2. run' = [run EXCEPT ![i] = [at |-> "ended", kind |-> run[i].kind, refs |-> run[i].refs,
                                 result |-> result]]
  BY DEF Finish
<1>3. [at |-> "ended", kind |-> run[i].kind, refs |-> run[i].refs, result |-> result] \in EndedRuns
  BY <1>1 DEF LiveRuns, EndedRuns
<1>4. QED
  BY <1>2, <1>3 DEF Types, Kept, RunRecords

\* The records of the runs keep their shapes, and a run keeps the commits it was
\* asked for.
LEMMA RunTyped ==
  ASSUME Types, NEW i \in Runs, Start(i) \/ Step(i) \/ CommandStageFails(i) \/ Crash(i)
  PROVE  Kept(i)
<1>1. run \in [Runs -> RunRecords]
  BY DEF Types
<1>2. CASE Start(i)
  <2>1. PICK kind \in Kinds, refs \in [Repos -> Versions] :
          run' = [run EXCEPT ![i] =
            [kind |-> kind, refs |-> refs, todo |-> Commands, failed |-> FALSE,
             gates |-> AllPass, at |-> IF kind = "given" THEN "payload" ELSE "commands"]]
    BY <1>2 DEF Start
  <2>2. AllPass \in [GateNames -> {Pass, Fail}]
    BY DEF AllPass
  <2>3. run[i].at = "new"
    BY <1>2 DEF Start, Started
  <2>4. QED
    BY <1>1, <2>1, <2>2, <2>3, CommandsAssumption DEF Kept, RunRecords, LiveRuns, Stages
<1>3. CASE RunCommand(i)
  <2>1. run[i] \in LiveRuns /\ run[i].at = "commands"
    BY <1>3, LiveRun DEF RunCommand, Stages
  <2>2. PICK rest \in SUBSET Commands :
          run' = [run EXCEPT ![i].todo = rest,
                             ![i].at = IF rest = {} THEN "evidence" ELSE "commands"]
    BY <1>3, <2>1 DEF RunCommand, LiveRuns
  <2>3. PICK stage \in Stages :
          stage = (IF rest = {} THEN "evidence" ELSE "commands")
    BY DEF Stages
  <2>4. run' = [run EXCEPT ![i] = [run[i] EXCEPT !.todo = rest, !.at = stage]]
    BY <2>2, <2>3
  <2>5. [run[i] EXCEPT !.todo = rest, !.at = stage] \in LiveRuns
    BY <2>1 DEF LiveRuns
  <2>6. QED
    BY <1>1, <2>1, <2>3, <2>4, <2>5 DEF Kept, RunRecords, LiveRuns
<1>4. CASE CommandStageFails(i)
  <2>1. run[i] \in LiveRuns /\ run[i].at = "commands"
    BY <1>4, LiveRun DEF CommandStageFails, Stages
  <2>2. run' = [run EXCEPT ![i] = [run[i] EXCEPT !.at = "evidence", !.failed = TRUE]]
    BY <1>4 DEF CommandStageFails
  <2>3. [run[i] EXCEPT !.at = "evidence", !.failed = TRUE] \in LiveRuns
    BY <2>1 DEF LiveRuns, Stages
  <2>4. QED
    BY <1>1, <2>1, <2>2, <2>3 DEF Kept, RunRecords, LiveRuns
<1>5. CASE WriteEvidence(i)
  <2>1. run[i] \in LiveRuns /\ run[i].at = "evidence"
    BY <1>5, LiveRun DEF WriteEvidence, Stages
  <2> DEFINE summary == VerificationSummary(review, i)
             a == CommandGate(CommandEvidenceManifest(review))
             b == Gate(SummaryIsClean(summary.pytest))
             c == Gate(summary.pytest.collected /\ summary.checkers)
  <2>2. run' = [run EXCEPT ![i].at = "attacks", ![i].gates["command_receipt"] = a,
                             ![i].gates["test_evidence"] = b, ![i].gates["implementation"] = c]
    BY <1>5 DEF WriteEvidence
  <2>8. a \in {Pass, Fail} /\ b \in {Pass, Fail} /\ c \in {Pass, Fail}
    BY GateTyped DEF CommandGate
  <2> HIDE DEF summary, a, b, c
  <2> DEFINE gates == [run[i].gates EXCEPT !["command_receipt"] = a, !["test_evidence"] = b,
                                           !["implementation"] = c]
  <2>3. gates \in [GateNames -> {Pass, Fail}]
    BY <2>1, <2>8 DEF LiveRuns
  <2>4. run' = [run EXCEPT ![i] = [run[i] EXCEPT !.at = "attacks", !.gates = gates]]
    BY <1>1, <2>1, <2>2, ZenonT(60) DEF LiveRuns
  <2> HIDE DEF gates
  <2>5. [run[i] EXCEPT !.at = "attacks", !.gates = gates] \in LiveRuns
    BY <2>1, <2>3 DEF LiveRuns, Stages
  <2>6. QED
    BY <1>1, <2>1, <2>4, <2>5 DEF Kept, RunRecords, LiveRuns
<1>6. CASE RunAttacks(i)
  <2>1. run[i] \in LiveRuns /\ run[i].at = "attacks"
    BY <1>6, LiveRun DEF RunAttacks, Stages
  <2> DEFINE a == ExploitGate(ExploitMatrix(LeftScratch))
  <2>2. run' = [run EXCEPT ![i].at = "scm", ![i].gates["negative_exploit"] = a]
    BY <1>6 DEF RunAttacks
  <2>8. a \in {Pass, Fail}
    BY GateTyped DEF ExploitGate
  <2> HIDE DEF a
  <2> DEFINE gates == [run[i].gates EXCEPT !["negative_exploit"] = a]
  <2>3. gates \in [GateNames -> {Pass, Fail}]
    BY <2>1, <2>8 DEF LiveRuns
  <2>4. run' = [run EXCEPT ![i] = [run[i] EXCEPT !.at = "scm", !.gates = gates]]
    BY <1>1, <2>1, <2>2 DEF LiveRuns
  <2> HIDE DEF gates
  <2>5. [run[i] EXCEPT !.at = "scm", !.gates = gates] \in LiveRuns
    BY <2>1, <2>3 DEF LiveRuns, Stages
  <2>6. QED
    BY <1>1, <2>1, <2>4, <2>5 DEF Kept, RunRecords, LiveRuns
<1>7. CASE AttacksRaise(i) \/ WriteSidecar(i) \/ Crash(i)
  <2>1. run[i].at \in Stages
    BY <1>7 DEF AttacksRaise, WriteSidecar, Crash, Active, Types, RunRecords, LiveRuns, EndedRuns, Stages
  <2>2. \E result \in Results : Finish(i, result)
    BY <1>7 DEF AttacksRaise, WriteSidecar, Crash, Results
  <2>3. QED
    BY <2>1, <2>2, RunFinishes
<1>8. CASE WriteScm(i) \/ WriteCandidate(i)
  <2>1. run[i].at \in Stages /\ \E stage \in Stages \ {"commands"} : Goto(i, stage)
    BY <1>8 DEF WriteScm, WriteCandidate, Stages
  <2>2. QED
    BY <2>1, RunGoes
<1>9. CASE WriteIndex(i) \/ WritePackage(i) \/ CheckPackage(i)
  <2>1. run[i].at \in Stages
    BY <1>9 DEF WriteIndex, WritePackage, CheckPackage, Stages
  <2>2. \/ \E stage \in Stages \ {"commands"} : Goto(i, stage)
        \/ \E result \in Results : Finish(i, result)
    BY <1>9 DEF WriteIndex, WritePackage, CheckPackage, Stages, Results
  <2>3. QED
    BY <2>1, <2>2, RunGoes, RunFinishes
<1>10. QED
  BY <1>2, <1>3, <1>4, <1>5, <1>6, <1>7, <1>8, <1>9 DEF Step

\* Where each step leaves its run.
LEMMA Moves ==
  ASSUME Types, NEW i \in Runs
  PROVE  /\ Start(i) => run'[i].at \in {"commands", "payload"}
         /\ RunCommand(i) => run'[i].at \in {"commands", "evidence"}
         /\ CommandStageFails(i) => run'[i].at = "evidence"
         /\ WriteEvidence(i) => run'[i].at = "attacks"
         /\ RunAttacks(i) => run'[i].at = "scm"
         /\ WriteScm(i) => run'[i].at = "candidate"
         /\ WriteCandidate(i) => run'[i].at = "index"
         /\ WriteIndex(i) => run'[i].at \in {"payload", "ended"}
         /\ WritePackage(i) => run'[i].at \in {"check", "ended"}
         /\ CheckPackage(i) => run'[i].at \in {"sidecar", "ended"}
         /\ AttacksRaise(i) \/ WriteSidecar(i) \/ Crash(i) => run'[i].at = "ended"
<1>1. run \in [Runs -> RunRecords] /\ (run[i].at \in Stages => run[i] \in LiveRuns)
  BY LiveRun DEF Types
<1>2. \A result : Finish(i, result) => run'[i].at = "ended"
  BY <1>1 DEF Finish
<1>3. \A stage : run[i].at \in Stages /\ Goto(i, stage) => run'[i].at = stage
  BY <1>1 DEF Goto, LiveRuns
<1>4. Start(i) => run'[i].at \in {"commands", "payload"}
  BY <1>1 DEF Start
<1>5. RunCommand(i) => run'[i].at \in {"commands", "evidence"}
  <2> SUFFICES ASSUME RunCommand(i) PROVE run'[i].at \in {"commands", "evidence"}
    OBVIOUS
  <2> DEFINE rest == run[i].todo \ {NextCommand(i)}
             stage == IF rest = {} THEN "evidence" ELSE "commands"
  <2>1. run' = [run EXCEPT ![i] = [run[i] EXCEPT !.todo = rest, !.at = stage]]
    BY DEF RunCommand
  <2>4. stage \in {"commands", "evidence"}
    OBVIOUS
  <2>2. run[i] \in LiveRuns
    BY <1>1 DEF RunCommand, Stages
  <2> HIDE DEF rest, stage
  <2>3. QED
    BY <1>1, <2>1, <2>2, <2>4 DEF LiveRuns
<1>6. CommandStageFails(i) => run'[i].at = "evidence"
  <2> SUFFICES ASSUME CommandStageFails(i) PROVE run'[i].at = "evidence"
    OBVIOUS
  <2>1. run' = [run EXCEPT ![i] = [run[i] EXCEPT !.at = "evidence", !.failed = TRUE]]
    BY DEF CommandStageFails
  <2>2. run[i] \in LiveRuns
    BY <1>1 DEF CommandStageFails, Stages
  <2>3. QED
    BY <1>1, <2>1, <2>2 DEF LiveRuns
<1>7. WriteEvidence(i) => run'[i].at = "attacks"
  <2> SUFFICES ASSUME WriteEvidence(i) PROVE run'[i].at = "attacks"
    OBVIOUS
  <2> DEFINE summary == VerificationSummary(review, i)
             a == CommandGate(CommandEvidenceManifest(review))
             b == Gate(SummaryIsClean(summary.pytest))
             c == Gate(summary.pytest.collected /\ summary.checkers)
  <2>1. run' = [run EXCEPT ![i].at = "attacks", ![i].gates["command_receipt"] = a,
                             ![i].gates["test_evidence"] = b, ![i].gates["implementation"] = c]
    BY DEF WriteEvidence
  <2> HIDE DEF summary, a, b, c
  <2>2. run[i] \in LiveRuns
    BY <1>1 DEF WriteEvidence, Stages
  <2>3. QED
    BY <1>1, <2>1, <2>2 DEF LiveRuns
<1>8. RunAttacks(i) => run'[i].at = "scm"
  <2> SUFFICES ASSUME RunAttacks(i) PROVE run'[i].at = "scm"
    OBVIOUS
  <2>1. PICK gates : run' = [run EXCEPT ![i] = [run[i] EXCEPT !.at = "scm", !.gates = gates]]
    BY DEF RunAttacks
  <2>2. run[i] \in LiveRuns
    BY <1>1 DEF RunAttacks, Stages
  <2>3. QED
    BY <1>1, <2>1, <2>2 DEF LiveRuns
<1>9. /\ WriteScm(i) => run'[i].at = "candidate"
      /\ WriteCandidate(i) => run'[i].at = "index"
  BY <1>3 DEF WriteScm, WriteCandidate, Stages
<1>10. /\ WriteIndex(i) => run'[i].at \in {"payload", "ended"}
       /\ WritePackage(i) => run'[i].at \in {"check", "ended"}
       /\ CheckPackage(i) => run'[i].at \in {"sidecar", "ended"}
  BY <1>2, <1>3 DEF WriteIndex, WritePackage, CheckPackage, Stages
<1>11. AttacksRaise(i) \/ WriteSidecar(i) \/ Crash(i) => run'[i].at = "ended"
  BY <1>2 DEF AttacksRaise, WriteSidecar, Crash
<1>12. QED
  BY <1>4, <1>5, <1>6, <1>7, <1>8, <1>9, <1>10, <1>11

-----------------------------------------------------------------------------
(* The steps keep the types                                                *)

\* The names a step of a run adds to the review directory are names of the
\* pipeline's.
Names == Indexed \cup TestEvidence \cup {Index, Scratch}
           \cup {Receipt(c) : c \in Commands} \cup {Copied(c) : c \in Commands}

LEMMA RecordingNames ==
  ASSUME NEW c \in Commands, NEW i, NEW output, NEW code
  PROVE  DOMAIN Recording(c, i, output, code) \subseteq Names
BY DEF Recording, Names, TestEvidence

LEMMA OverlayNames ==
  ASSUME NEW f, NEW g
  PROVE  DOMAIN Overlay(f, g) = DOMAIN f \cup DOMAIN g
BY DEF Overlay

LEMMA WrittenNames ==
  ASSUME NEW files, Write(files), DOMAIN review \subseteq Names, DOMAIN files \subseteq Names
  PROVE  DOMAIN review' \subseteq Names
BY OverlayNames DEF Write

LEMMA NextCommandIsOne ==
  ASSUME Types, NEW i \in Runs, run[i].at = "commands"
  PROVE  NextCommand(i) \in Commands
<1>1. run[i] \in LiveRuns /\ run[i].todo # {}
  BY LiveRun DEF Stages, Types
<1>2. QED
  BY <1>1 DEF NextCommand, LiveRuns

LEMMA ReviewNames ==
  ASSUME Types, NEW i \in Runs, Start(i) \/ Step(i) \/ CommandStageFails(i) \/ Crash(i)
  PROVE  DOMAIN review' \subseteq Names
<1>1. DOMAIN review \subseteq Names
  BY DEF Types, TypeOK, Names
<1>2. CASE RunCommand(i)
  <2>1. NextCommand(i) \in Commands
    BY <1>2, NextCommandIsOne DEF RunCommand
  <2>2. PICK result \in Outcomes(NextCommand(i)) :
          Write(Recording(NextCommand(i), i, Printed(result), result.code))
    BY <1>2 DEF RunCommand
  <2>3. QED
    BY <1>1, <2>1, <2>2, RecordingNames, OverlayNames DEF Write
<1>3. CASE CommandStageFails(i)
  <2>1. NextCommand(i) \in Commands
    BY <1>3, NextCommandIsOne DEF CommandStageFails
  <2>2. PICK result \in Outcomes(NextCommand(i)),
             names \in Partial(NextCommand(i)) :
          Write(Part(Recording(NextCommand(i), i, Printed(result), result.code), names))
    BY <1>3 DEF CommandStageFails
  <2>3. DOMAIN Recording(NextCommand(i), i, Printed(result), result.code)
          \subseteq Names
    BY <2>1, RecordingNames
  <2>4. DOMAIN Part(Recording(NextCommand(i), i, Printed(result), result.code), names) \subseteq Names
    BY <2>3 DEF Part
  <2>5. QED
    BY <1>1, <2>2, <2>4, OverlayNames DEF Write
<1>4. CASE WriteEvidence(i)
  <2> DEFINE receipts == CommandEvidenceManifest(review)
             summary == VerificationSummary(review, i)
             files == [n \in {CommandManifest, TestManifest, Summary} |->
                         CASE n = CommandManifest -> receipts
                           [] n = TestManifest -> TestEvidenceManifest(review)
                           [] n = Summary -> summary]
  <2>1. Write(files) /\ DOMAIN files = {CommandManifest, TestManifest, Summary}
    BY <1>4 DEF WriteEvidence
  <2> HIDE DEF files
  <2>2. {CommandManifest, TestManifest, Summary} \subseteq Names
    BY DEF Names, Indexed
  <2>3. QED
    BY <1>1, <2>1, <2>2, WrittenNames
<1>5. CASE RunAttacks(i)
  <2>1. DOMAIN review' \subseteq DOMAIN review \cup {Matrix, Scratch, Location}
    BY <1>5 DEF RunAttacks
  <2>2. {Matrix, Scratch, Location} \subseteq Names
    BY DEF Names, Indexed
  <2>3. QED
    BY <1>1, <2>1, <2>2
<1>6. CASE WriteScm(i)
  <2> DEFINE files == [n \in {Report} \cup {Scm(r) : r \in Repos} \cup {Snapshot(r) : r \in Repos} |->
         CASE n = Report -> [run |-> i]
           [] n \in {Scm(r) : r \in Repos} -> ScmRecord(run[i].refs[n[2]])
           [] OTHER -> SnapshotManifest(GitSnapshot(run[i].refs[n[2]]))]
  <2>1. Write(files) /\ DOMAIN files = {Report} \cup {Scm(r) : r \in Repos}
                                               \cup {Snapshot(r) : r \in Repos}
    BY <1>6 DEF WriteScm
  <2> HIDE DEF files
  <2>2. {Report} \cup {Scm(r) : r \in Repos} \cup {Snapshot(r) : r \in Repos} \subseteq Names
    BY DEF Names, Indexed
  <2>3. QED
    BY <1>1, <2>1, <2>2, WrittenNames
<1>7. CASE WriteCandidate(i)
  <2>1. PICK files : Write(files) /\ DOMAIN files = {State, GateSummary, Decision}
    BY <1>7 DEF WriteCandidate
  <2>2. {State, GateSummary, Decision} \subseteq Names
    BY DEF Names, Indexed
  <2>3. QED
    BY <1>1, <2>1, <2>2, WrittenNames
<1>8. CASE WriteIndex(i)
  <2> DEFINE files == [n \in {Index} |-> BuildIndex(review)]
  <2>1. Write(files) /\ DOMAIN files = {Index}
    BY <1>8 DEF WriteIndex
  <2> HIDE DEF files
  <2>2. {Index} \subseteq Names
    BY DEF Names
  <2>3. QED
    BY <1>1, <2>1, <2>2, WrittenNames
<1>9. CASE Start(i) \/ AttacksRaise(i) \/ WritePackage(i) \/ CheckPackage(i) \/ WriteSidecar(i) \/ Crash(i)
  BY <1>1, <1>9 DEF Start, AttacksRaise, WritePackage, CheckPackage, WriteSidecar, Crash
<1>10. QED
  BY <1>2, <1>3, <1>4, <1>5, <1>6, <1>7, <1>8, <1>9 DEF Step

\* A package is changed by one action only, and its sources are what the build
\* was asked for.
LEMMA OutOnlyBuilt ==
  ASSUME NEW i \in Runs, Start(i) \/ Step(i) \/ CommandStageFails(i) \/ Crash(i), ~ WritePackage(i)
  PROVE  out' = out /\ swapped' = swapped
BY DEF Start, Step, RunCommand, CommandStageFails, WriteEvidence, AttacksRaise, RunAttacks,
       WriteScm, WriteCandidate, WriteIndex, CheckPackage, WriteSidecar, Crash, world, package

LEMMA PackagedSources ==
  ASSUME NEW dir, NEW commits, NEW r \in Repos
  PROVE  BuildPackage(dir, commits).members[Source(r)] = [at |-> commits[r]]
<1>1. Source(r) \in {Source(q) : q \in Repos} /\ Source(r)[2] = r
  BY DEF Source
<1>2. QED
  BY <1>1 DEF BuildPackage, PackageOf, Overlay

\* What a run may do to the other variables the types are about.
LEMMA RunCounters ==
  ASSUME Types, NEW i \in Runs, Start(i) \/ Step(i) \/ CommandStageFails(i) \/ Crash(i)
  PROVE  intrusions' \in Nat /\ faults' \in Nat /\ overlapped' \in BOOLEAN
           /\ swapped' \in BOOLEAN
<1> USE DEF Types
<1>1. CASE RunAttacks(i)
  <2>1. faults' = faults \/ faults' = faults + 1
    BY <1>1 DEF RunAttacks
  <2>2. QED
    BY <1>1, <2>1 DEF RunAttacks, package
<1>2. CASE Start(i)
  <2>1. intrusions' = intrusions \/ intrusions' = intrusions + 1
    BY <1>2 DEF Start
  <2>2. \E b \in BOOLEAN : overlapped' = b
    BY <1>2 DEF Start
  <2>3. QED
    BY <1>2, <2>1, <2>2 DEF Start, package
<1>6. CASE CommandStageFails(i)
  BY <1>6 DEF CommandStageFails, package
<1>7. CASE Crash(i)
  BY <1>7 DEF Crash, package
<1>3. CASE RunCommand(i) \/ WriteEvidence(i) \/ AttacksRaise(i) \/ WriteScm(i) \/ WriteCandidate(i)
             \/ WriteIndex(i) \/ CheckPackage(i) \/ WriteSidecar(i)
  BY <1>3 DEF RunCommand, WriteEvidence, AttacksRaise, WriteScm, WriteCandidate, WriteIndex,
              CheckPackage, WriteSidecar, package, observed
<1>4. CASE WritePackage(i)
  BY <1>4 DEF WritePackage, observed, Reading
<1>5. QED
  BY <1>1, <1>2, <1>3, <1>4, <1>6, <1>7 DEF Step

\* A run is started with commits the repositories have.
LEMMA StartedRefs ==
  ASSUME Types, NEW i \in Runs, Start(i)
  PROVE  /\ run[i].at = "new"
         /\ \A r \in Repos : run'[i].refs[r] \in history[r]
<1>1. PICK kind \in Kinds, refs \in [Repos -> Versions] :
        /\ Asked(kind, refs)
        /\ run' = [run EXCEPT ![i] =
             [kind |-> kind, refs |-> refs, todo |-> Commands, failed |-> FALSE,
              gates |-> AllPass, at |-> IF kind = "given" THEN "payload" ELSE "commands"]]
  BY DEF Start
<1>2. QED
  BY <1>1 DEF Start, Started, Asked, RefExists, Types

LEMMA RunStepTypes ==
  ASSUME Types, NEW i \in Runs, Start(i) \/ Step(i) \/ CommandStageFails(i) \/ Crash(i)
  PROVE  Types'
<1>1. Kept(i)
  BY RunTyped
<1>2. UNCHANGED <<tree, head, history, receipt, sealer>>
  BY RunFrame
<1>3. DOMAIN review' \subseteq Indexed \cup TestEvidence \cup {Index, Scratch}
                               \cup {Receipt(c) : c \in Commands} \cup {Copied(c) : c \in Commands}
  BY ReviewNames DEF Names
<1>4. \A j \in Runs : run'[j].at # "new" =>
        run'[j].kind \in Kinds /\ \A r \in Repos : run'[j].refs[r] \in history[r]
  <2> SUFFICES ASSUME NEW j \in Runs, run'[j].at # "new"
               PROVE  run'[j].kind \in Kinds /\ \A r \in Repos : run'[j].refs[r] \in history[r]
    OBVIOUS
  <2>1. run'[j] \in LiveRuns \cup EndedRuns
    BY <1>1 DEF Kept, RunRecords
  <2>2. run'[j].kind \in Kinds
    BY <2>1 DEF LiveRuns, EndedRuns
  <2>3. CASE run[j].at = "new"
    <3>1. j = i
      BY <1>1, <2>3 DEF Kept
    <3>2. Start(i)
      BY <2>3, <3>1 DEF Step, RunCommand, CommandStageFails, WriteEvidence, AttacksRaise,
           RunAttacks, WriteScm, WriteCandidate, WriteIndex, WritePackage, CheckPackage,
           WriteSidecar, Crash, Active
    <3>3. QED
      BY <2>2, <3>1, <3>2, StartedRefs
  <2>4. CASE run[j].at # "new"
    BY <1>1, <2>2, <2>4 DEF Kept, Types, TypeOK, Started
  <2>5. QED
    BY <2>3, <2>4
<1>5. out' # None => \A r \in Repos : out'.members[Source(r)].at \in history[r]
  <2>1. CASE WritePackage(i)
    <3>1. run[i].at # "new"
      BY <2>1 DEF WritePackage
    <3>2. \A r \in Repos : run[i].refs[r] \in history[r]
      BY <3>1 DEF Types, TypeOK, Started
    <3>3. out' = BuildPackage(review, run[i].refs)
      BY <2>1 DEF WritePackage
    <3>4. \A r \in Repos : out'.members[Source(r)] = [at |-> run[i].refs[r]]
      BY <3>3, PackagedSources
    <3>5. ASSUME NEW r \in Repos
          PROVE  out'.members[Source(r)].at = run[i].refs[r]
      <4>1. [at |-> run[i].refs[r]].at = run[i].refs[r]
        OBVIOUS
      <4>2. QED
        BY <3>4, <4>1
    <3>6. QED
      BY <3>2, <3>5
  <2>2. CASE ~ WritePackage(i)
    BY <2>2, OutOnlyBuilt DEF Types, TypeOK
  <2>3. QED
    BY <2>1, <2>2
<1>6. TypeOK'
  <2>1. \A j \in Runs : j \in Started' <=> run'[j].at # "new"
    BY DEF Started
  <2>2. QED
    BY <1>2, <1>3, <1>4, <1>5, <2>1 DEF TypeOK, Types, Started
<1>7. \A j \in Runs : run'[j].at = "commands" => run'[j].todo # {}
  BY <1>1 DEF Kept, Types
<1>8. QED
  BY <1>1, <1>2, <1>6, <1>7, RunCounters DEF Types, Kept

LEMMA OutsideStepTypes ==
  ASSUME Types, Seal \/ Edit \/ Commit \/ Readdress
  PROVE  Types'
<1>1. Seal \/ Edit \/ Commit => UNCHANGED <<review, out, run, faults, overlapped, swapped>>
  BY OutsideFrame
<1>2. CASE Seal
  <2>1. UNCHANGED <<tree, head, history, intrusions>>
    BY <1>2 DEF Seal, SealRead, SealDigest, SealWrite, SealSidecar, world, observed
  <2>2. /\ sealer'.at \in {"idle", "digest", "receipt", "sidecar"}
        /\ sealer'.at = "receipt" => DOMAIN sealer' = {"at", "bytes", "digest"}
    <3>1. CASE SealRead \/ SealDigest \/ SealSidecar
      BY <3>1 DEF SealRead, SealDigest, SealSidecar
    <3>2. CASE SealWrite
      BY <3>2 DEF SealWrite, Types
    <3>3. QED
      BY <1>2, <3>1, <3>2 DEF Seal
  <2>3. QED
    BY <1>1, <1>2, <2>1, <2>2 DEF Types, TypeOK, Started
<1>3. CASE Edit
  <2>1. PICK v \in Versions : tree' = [tree EXCEPT !["core"] = v]
    BY <1>3 DEF Edit
  <2>2. UNCHANGED <<head, history, sealer>> /\ intrusions' = intrusions + 1
    BY <1>3 DEF Edit, package
  <2>3. tree' \in [Repos -> Versions] /\ \A r \in Repos : tree'[r] \in Versions
    BY <2>1 DEF Types
  <2>4. intrusions' \in Nat
    BY <2>2 DEF Types
  <2>5. QED
    BY <1>1, <1>3, <2>2, <2>3, <2>4 DEF Types, TypeOK, Started
<1>4. CASE Commit
  <2>1. /\ head' = [head EXCEPT !["core"] = tree["core"]]
        /\ history' = [history EXCEPT !["core"] = history["core"] \cup {tree["core"]}]
        /\ UNCHANGED <<tree, sealer, intrusions>>
    BY <1>4 DEF Commit, package, observed
  <2>2. head' \in [Repos -> Versions] /\ history' \in [Repos -> SUBSET Versions]
    BY <2>1, ReposAssumption DEF Types
  <2>3. \A r \in Repos : history[r] \subseteq history'[r]
    BY <2>1 DEF Types
  <2>4. \A r \in Repos : head'[r] \in history'[r]
    BY <2>1, <2>3 DEF Types, TypeOK
  <2>5. QED
    BY <1>1, <1>4, <2>1, <2>2, <2>3, <2>4 DEF Types, TypeOK, Started
<1>6. CASE Readdress
  BY <1>6, ReaddressFrame, ReaddressWrites DEF Types, TypeOK, Started
<1>5. QED
  BY <1>2, <1>3, <1>4, <1>6

-----------------------------------------------------------------------------
(* Sealing                                                                 *)

\* Two contents of one digest are equal.
LEMMA ShaInjective ==
  ASSUME NEW a, NEW b, Sha(a) = Sha(b)
  PROVE  a = b
<1>1. Sha(a).sha256 = a /\ Sha(b).sha256 = b
  BY DEF Sha
<1>2. QED
  BY <1>1

LEMMA ReceiptZip ==
  ASSUME NEW bytes, NEW digest
  PROVE  SealReceipt(bytes, digest).zip = digest
BY DEF SealReceipt

\* A package put in the place of another while a reader is at it shows in
\* swapped; a reader that begins afterwards reads the new one.
LEMMA RunStepSealing ==
  ASSUME Types, Sealing, NEW i \in Runs, Start(i) \/ Step(i) \/ CommandStageFails(i) \/ Crash(i)
  PROVE  Sealing'
<1> SUFFICES ASSUME ~ swapped'
             PROVE  /\ sealer'.at = "digest" => sealer'.bytes = out'
                    /\ sealer'.at = "receipt" => sealer'.bytes = out' /\ sealer'.digest = Sha(out')
                    /\ sealer'.at \in {"receipt", "sidecar"} => Canonical(out')
                    /\ \A j \in Runs : run'[j].at = "sidecar" => Canonical(out')
                    /\ sidecar' # None => sidecar' = Sha(sidecar'.sha256) /\ Canonical(sidecar'.sha256)
                    /\ receipt' # None =>
                         receipt' = SealReceipt(receipt'.zip.sha256, Sha(receipt'.zip.sha256))
  BY DEF Sealing
<1>1. sealer' = sealer /\ receipt' = receipt
  BY RunFrame
<1>2. Kept(i) /\ run \in [Runs -> RunRecords]
  BY RunTyped DEF Types
<1>3. CASE WritePackage(i)
  <2>1. ~ swapped /\ ~ Reading(i) /\ sidecar' = sidecar
    BY <1>3 DEF WritePackage
  <2>2. sealer.at = "idle"
    BY <2>1 DEF Reading
  <2>3. run'[i].at # "sidecar"
    BY <1>3, Moves
  <2>4. \A j \in Runs \ {i} : run'[j].at # "sidecar"
    BY <1>2, <2>1 DEF Reading, Active, Kept
  <2>5. QED
    BY <1>1, <2>1, <2>2, <2>3, <2>4 DEF Sealing
<1>4. CASE ~ WritePackage(i)
  <2>1. out' = out /\ ~ swapped
    BY <1>4, OutOnlyBuilt
  <2>2. run'[i].at = "sidecar" => Canonical(out)
    <3>1. CASE CheckPackage(i)
      BY <1>2, <3>1 DEF CheckPackage, Finish
    <3>2. CASE ~ CheckPackage(i)
      BY <1>4, <3>2, Moves DEF Step
    <3>3. QED
      BY <3>1, <3>2
  <2>3. \A j \in Runs : run'[j].at = "sidecar" => Canonical(out)
    BY <1>2, <2>1, <2>2 DEF Kept, Sealing
  <2>4. sidecar' # None => sidecar' = Sha(sidecar'.sha256) /\ Canonical(sidecar'.sha256)
    <3>1. CASE WriteSidecar(i)
      <4>1. sidecar' = Sha(out) /\ Canonical(out)
        BY <2>1, <3>1 DEF WriteSidecar, Sealing
      <4>2. sidecar'.sha256 = out
        BY <4>1 DEF Sha
      <4>3. QED
        BY <4>1, <4>2
    <3>2. CASE ~ WriteSidecar(i)
      <4>1. sidecar' = sidecar
        BY <1>4, <3>2 DEF Start, Step, RunCommand, CommandStageFails, WriteEvidence, AttacksRaise,
             RunAttacks, WriteScm, WriteCandidate, WriteIndex, CheckPackage, Crash, package
      <4>2. QED
        BY <2>1, <4>1 DEF Sealing
    <3>3. QED
      BY <3>1, <3>2
  <2>5. QED
    BY <1>1, <2>1, <2>3, <2>4 DEF Sealing
<1>5. QED
  BY <1>3, <1>4

\* review seal judges the bytes it read, and the receipt is of these.
LEMMA OutsideStepSealing ==
  ASSUME Types, Sealing, Seal \/ Edit \/ Commit \/ Readdress
  PROVE  Sealing'
<1> SUFFICES ASSUME ~ swapped'
             PROVE  /\ sealer'.at = "digest" => sealer'.bytes = out'
                    /\ sealer'.at = "receipt" => sealer'.bytes = out' /\ sealer'.digest = Sha(out')
                    /\ sealer'.at \in {"receipt", "sidecar"} => Canonical(out')
                    /\ \A j \in Runs : run'[j].at = "sidecar" => Canonical(out')
                    /\ sidecar' # None => sidecar' = Sha(sidecar'.sha256) /\ Canonical(sidecar'.sha256)
                    /\ receipt' # None =>
                         receipt' = SealReceipt(receipt'.zip.sha256, Sha(receipt'.zip.sha256))
  BY DEF Sealing
<1>1. UNCHANGED <<out, run, swapped>>
  BY OutsideFrame, ReaddressFrame
<1>2. CASE SealRead
  BY <1>1, <1>2 DEF SealRead, Sealing
<1>3. CASE SealDigest
  <2>1. UNCHANGED <<sidecar, receipt>>
    BY <1>3 DEF SealDigest
  <2>2. CASE Structural(out) /\ Canonical(sealer.bytes)
    <3>1. sealer' = [at |-> "receipt", bytes |-> sealer.bytes, digest |-> Sha(out)]
      BY <1>3, <2>2 DEF SealDigest
    <3>2. sealer.bytes = out
      BY <1>1, <1>3 DEF SealDigest, Sealing
    <3>3. QED
      BY <1>1, <2>1, <2>2, <3>1, <3>2 DEF Sealing
  <2>3. CASE ~ (Structural(out) /\ Canonical(sealer.bytes))
    <3>1. sealer' = [at |-> "idle"]
      BY <1>3, <2>3 DEF SealDigest
    <3>2. QED
      BY <1>1, <2>1, <3>1 DEF Sealing
  <2>4. QED
    BY <2>2, <2>3
<1>4. CASE SealWrite
  <2>1. receipt' = SealReceipt(out, Sha(out)) /\ Canonical(out)
    BY <1>1, <1>4 DEF SealWrite, Sealing
  <2>2. receipt'.zip.sha256 = out
    BY <2>1, ReceiptZip DEF Sha
  <2>3. sealer'.at = "sidecar" /\ sidecar' = sidecar
    BY <1>4 DEF SealWrite, Types
  <2>4. QED
    BY <1>1, <2>1, <2>2, <2>3 DEF Sealing
<1>5. CASE SealSidecar
  <2>1. sidecar' = Sha(out) /\ Canonical(out)
    BY <1>1, <1>5 DEF SealSidecar, Sealing
  <2>2. sidecar'.sha256 = out
    BY <2>1 DEF Sha
  <2>3. sealer' = [at |-> "idle"] /\ receipt' = receipt
    BY <1>5 DEF SealSidecar
  <2>4. QED
    BY <1>1, <2>1, <2>2, <2>3 DEF Sealing
<1>6. CASE Edit \/ Commit \/ Readdress
  BY <1>1, <1>6 DEF Edit, Commit, Readdress, package, Sealing
<1>7. QED
  BY <1>2, <1>3, <1>4, <1>5, <1>6 DEF Seal

-----------------------------------------------------------------------------
(* What each stage writes                                                  *)

\* No two kinds of files have a name in common.
Singles == {State, GateSummary, Decision, Index, Summary, Location, TestManifest,
            CommandManifest, Matrix, Report, Scratch}

LEMMA SinglesDiffer ==
  /\ State \notin {GateSummary, Decision, Index, Summary, Location, TestManifest, CommandManifest,
                   Matrix, Report, Scratch}
  /\ GateSummary \notin {Decision, Index, Summary, Location, TestManifest, CommandManifest,
                         Matrix, Report, Scratch}
  /\ Decision \notin {Index, Summary, Location, TestManifest, CommandManifest, Matrix, Report, Scratch}
  /\ Index \notin {Summary, Location, TestManifest, CommandManifest, Matrix, Report, Scratch}
  /\ Summary \notin {Location, TestManifest, CommandManifest, Matrix, Report, Scratch}
  /\ Location \notin {TestManifest, CommandManifest, Matrix, Report, Scratch}
  /\ TestManifest \notin {CommandManifest, Matrix, Report, Scratch}
  /\ CommandManifest \notin {Matrix, Report, Scratch}
  /\ Matrix \notin {Report, Scratch} /\ Report # Scratch
BY DEF State, GateSummary, Decision, Index, Summary, Location, TestManifest, CommandManifest,
       Matrix, Report, Scratch

LEMMA KindsOfNamesDiffer ==
  ASSUME NEW c, NEW d, NEW r, NEW q
  PROVE  /\ {Output(c), ExitFile(c), Recorded(c), Receipt(c), Copied(c), Scm(r), Snapshot(r), Source(r)}
              \cap Singles = {}
         /\ Output(c) \notin {ExitFile(d), Recorded(d), Receipt(d), Copied(d), Scm(r), Snapshot(r),
                              Source(r)}
         /\ ExitFile(c) \notin {Recorded(d), Receipt(d), Copied(d), Scm(r), Snapshot(r), Source(r)}
         /\ Recorded(c) \notin {Receipt(d), Copied(d), Scm(r), Snapshot(r), Source(r)}
         /\ Receipt(c) \notin {Copied(d), Scm(r), Snapshot(r), Source(r)}
         /\ Copied(c) \notin {Scm(r), Snapshot(r), Source(r)}
         /\ Scm(r) \notin {Snapshot(q), Source(q)} /\ Snapshot(r) # Source(q)
BY DEF Output, ExitFile, Recorded, Receipt, Copied, Scm, Snapshot, Source, Singles,
       State, GateSummary, Decision, Index, Summary, Location, TestManifest, CommandManifest,
       Matrix, Report, Scratch

LEMMA NamesTell ==
  ASSUME NEW c, NEW d
  PROVE  /\ Output(c) = Output(d) => c = d
         /\ ExitFile(c) = ExitFile(d) => c = d
         /\ Recorded(c) = Recorded(d) => c = d
         /\ Receipt(c) = Receipt(d) => c = d
         /\ Scm(c) = Scm(d) => c = d
         /\ Source(c) = Source(d) => c = d
<1>1. /\ Output(c)[2] = c /\ ExitFile(c)[2] = c /\ Recorded(c)[2] = c /\ Receipt(c)[2] = c
      /\ Scm(c)[2] = c /\ Source(c)[2] = c
  BY DEF Output, ExitFile, Recorded, Receipt, Scm, Source
<1>2. /\ Output(d)[2] = d /\ ExitFile(d)[2] = d /\ Recorded(d)[2] = d /\ Receipt(d)[2] = d
      /\ Scm(d)[2] = d /\ Source(d)[2] = d
  BY DEF Output, ExitFile, Recorded, Receipt, Scm, Source
<1>3. QED
  BY <1>1, <1>2

LEMMA Written ==
  ASSUME NEW files, Write(files)
  PROVE  /\ DOMAIN review' = DOMAIN review \cup DOMAIN files
         /\ \A n \in DOMAIN files : review'[n] = files[n]
         /\ \A n \in DOMAIN review \ DOMAIN files : review'[n] = review[n]
BY DEF Write, Overlay

\* The files of command c.
FilesOf(c) == {Output(c), ExitFile(c), Recorded(c), Receipt(c), Copied(c)}

LEMMA RecordingFiles ==
  ASSUME NEW c, NEW i, NEW output, NEW code
  PROVE  LET files == Recording(c, i, output, code) IN
         /\ DOMAIN files = FilesOf(c)
         /\ files[Output(c)] = output
         /\ files[ExitFile(c)] = [code |-> code]
         /\ files[Copied(c)] = output
         /\ \A n \in FilesOf(c) \ {Output(c), ExitFile(c), Copied(c)} :
              files[n] = CommandReceipt(i, output, code, "review")
BY KindsOfNamesDiffer DEF Recording, FilesOf

\* Nothing a run writes has the field of the attacks' replacements.
LEMMA RecordingPlain ==
  ASSUME NEW i, NEW c, NEW result, NEW n \in FilesOf(c)
  PROVE  "text" \notin DOMAIN Recording(c, i, Printed(result), result.code)[n]
<1>1. "text" \notin DOMAIN Printed(result)
  BY DEF Printed
<1>2. "text" \notin DOMAIN [code |-> result.code]
  OBVIOUS
<1>3. "text" \notin DOMAIN CommandReceipt(i, Printed(result), result.code, "review")
  BY DEF CommandReceipt
<1> DEFINE output == Printed(result)
           files == Recording(c, i, output, result.code)
<1>4. /\ files[Output(c)] = output /\ files[ExitFile(c)] = [code |-> result.code]
      /\ files[Copied(c)] = output
      /\ \A m \in FilesOf(c) \ {Output(c), ExitFile(c), Copied(c)} :
           files[m] = CommandReceipt(i, output, result.code, "review")
  BY RecordingFiles
<1> HIDE DEF output, files
<1>5. "text" \notin DOMAIN files[n]
  BY <1>1, <1>2, <1>3, <1>4 DEF output
<1>6. QED
  BY <1>5 DEF files, output

\* A command of run i leaves its files, the receipt being of the output and the
\* exit code beside it.
LEMMA CommandWrites ==
  ASSUME Types, NEW i \in Runs, RunCommand(i)
  PROVE  LET c == NextCommand(i) IN
         /\ c \in Commands /\ c \in run[i].todo
         /\ DOMAIN review' = DOMAIN review \cup FilesOf(c)
         /\ review'[Recorded(c)] =
              CommandReceipt(i, review'[Output(c)], review'[ExitFile(c)].code, "review")
         /\ \A n \in DOMAIN review \ FilesOf(c) : review'[n] = review[n]
         /\ \A n \in FilesOf(c) : "text" \notin DOMAIN review'[n]
         /\ run'[i].todo = run[i].todo \ {c} /\ run'[i].failed = run[i].failed
         /\ run'[i].at = "evidence" => run'[i].todo = {}
<1> DEFINE c == NextCommand(i)
<1>1. c \in Commands /\ c \in run[i].todo
  <2>1. run[i] \in LiveRuns /\ run[i].todo # {}
    BY LiveRun DEF RunCommand, Stages, Types
  <2>2. QED
    BY <2>1 DEF NextCommand, LiveRuns
<1>2. PICK result \in Outcomes(c) : Write(Recording(c, i, Printed(result), result.code))
  BY DEF RunCommand
<1>4. /\ run'[i].todo = run[i].todo \ {c} /\ run'[i].failed = run[i].failed
      /\ run'[i].at = "evidence" => run'[i].todo = {}
  <2> DEFINE rest == run[i].todo \ {c}
             stage == IF rest = {} THEN "evidence" ELSE "commands"
  <2>1. run' = [run EXCEPT ![i] = [run[i] EXCEPT !.todo = rest, !.at = stage]]
    BY DEF RunCommand
  <2>2. stage = "evidence" => rest = {}
    OBVIOUS
  <2>3. run[i] \in LiveRuns /\ run \in [Runs -> RunRecords]
    BY LiveRun DEF RunCommand, Stages, Types
  <2> HIDE DEF rest, stage
  <2>4. run'[i].todo = rest /\ run'[i].at = stage /\ run'[i].failed = run[i].failed
    BY <2>1, <2>3 DEF LiveRuns
  <2>5. QED
    BY <2>2, <2>4 DEF rest
<1> HIDE DEF c
<1> DEFINE output == Printed(result)
           code == result.code
           files == Recording(c, i, output, code)
<1>8. /\ DOMAIN files = FilesOf(c)
      /\ files[Output(c)] = output /\ files[ExitFile(c)] = [code |-> code]
      /\ files[Recorded(c)] = CommandReceipt(i, output, code, "review")
  <2> HIDE DEF output, code
  <2>1. /\ DOMAIN files = FilesOf(c)
        /\ files[Output(c)] = output /\ files[ExitFile(c)] = [code |-> code]
        /\ \A n \in FilesOf(c) \ {Output(c), ExitFile(c), Copied(c)} :
             files[n] = CommandReceipt(i, output, code, "review")
    BY RecordingFiles
  <2>2. Recorded(c) \in FilesOf(c) \ {Output(c), ExitFile(c), Copied(c)}
    BY KindsOfNamesDiffer DEF FilesOf
  <2>3. QED
    BY <2>1, <2>2
<1>9. \A n \in FilesOf(c) : "text" \notin DOMAIN files[n]
  BY RecordingPlain
<1>10. Write(files)
  BY <1>2
<1>11. [code |-> code].code = code
  OBVIOUS
<1> HIDE DEF output, code, files
<1>5. /\ DOMAIN review' = DOMAIN review \cup FilesOf(c)
      /\ \A n \in FilesOf(c) : review'[n] = files[n]
      /\ \A n \in DOMAIN review \ FilesOf(c) : review'[n] = review[n]
  BY <1>8, <1>10, Written
<1>3. review'[Recorded(c)] =
        CommandReceipt(i, review'[Output(c)], review'[ExitFile(c)].code, "review")
  <2>1. {Recorded(c), Output(c), ExitFile(c)} \subseteq FilesOf(c)
    BY DEF FilesOf
  <2>2. QED
    BY <1>5, <1>8, <1>11, <2>1
<1>6. \A n \in FilesOf(c) : "text" \notin DOMAIN review'[n]
  BY <1>5, <1>9
<1>7. QED
  BY <1>1, <1>3, <1>4, <1>5, <1>6 DEF c

LEMMA FailedCommandWrites ==
  ASSUME Types, NEW i \in Runs, CommandStageFails(i)
  PROVE  LET c == NextCommand(i) IN
         /\ c \in Commands
         /\ DOMAIN review \subseteq DOMAIN review'
         /\ DOMAIN review' \subseteq DOMAIN review \cup FilesOf(c)
         /\ \A n \in DOMAIN review \ FilesOf(c) : review'[n] = review[n]
         /\ \A n \in DOMAIN review' : (n \in DOMAIN review /\ review'[n] = review[n])
                                       \/ "text" \notin DOMAIN review'[n]
         /\ Receipt(c) \in DOMAIN review' \ DOMAIN review =>
              {Output(c), ExitFile(c), Recorded(c)} \subseteq DOMAIN review'
         /\ faults' # 0 /\ run'[i].failed
<1> DEFINE c == NextCommand(i)
<1>1. c \in Commands
  BY NextCommandIsOne DEF CommandStageFails
<1>2. PICK result \in Outcomes(c), names \in Partial(c) :
        Write(Part(Recording(c, i, Printed(result), result.code), names))
  BY DEF CommandStageFails
<1>3. faults' # 0 /\ run'[i].failed
  <2>1. run[i] \in LiveRuns /\ run \in [Runs -> RunRecords]
    BY LiveRun DEF CommandStageFails, Stages, Types
  <2>2. run' = [run EXCEPT ![i] = [run[i] EXCEPT !.at = "evidence", !.failed = TRUE]]
    BY DEF CommandStageFails
  <2>3. run'[i].failed
    BY <2>1, <2>2 DEF LiveRuns
  <2>4. QED
    BY <2>3 DEF CommandStageFails, Types
<1> HIDE DEF c
<1> DEFINE whole == Recording(c, i, Printed(result), result.code)
           files == Part(whole, names)
<1>4. /\ DOMAIN files = FilesOf(c) \cap names
      /\ \A n \in DOMAIN files : files[n] = whole[n]
  <2>1. DOMAIN whole = FilesOf(c)
    BY DEF Recording, FilesOf
  <2> HIDE DEF whole
  <2>2. QED
    BY <2>1 DEF Part
<1>9. Receipt(c) \in names => {Output(c), ExitFile(c), Recorded(c)} \subseteq names
  <2>1. Receipt(c) \notin {Output(c), ExitFile(c), Recorded(c)}
    BY KindsOfNamesDiffer
  <2>2. QED
    BY <2>1 DEF Partial
<1>5. \A n \in FilesOf(c) : "text" \notin DOMAIN whole[n]
  BY RecordingPlain
<1> HIDE DEF whole, files
<1>6. Write(files)
  BY <1>2 DEF files, whole
<1>7. /\ DOMAIN review' = DOMAIN review \cup DOMAIN files
      /\ \A n \in DOMAIN files : review'[n] = files[n]
      /\ \A n \in DOMAIN review \ DOMAIN files : review'[n] = review[n]
  BY <1>6, Written
<1>10. {Output(c), ExitFile(c), Recorded(c)} \subseteq FilesOf(c)
  BY DEF FilesOf
<1>8. QED
  BY <1>1, <1>3, <1>4, <1>5, <1>7, <1>9, <1>10 DEF c

LEMMA EvidenceWrites ==
  ASSUME NEW i \in Runs, WriteEvidence(i)
  PROVE  /\ DOMAIN review' = DOMAIN review \cup {CommandManifest, TestManifest, Summary}
         /\ review'[CommandManifest] = CommandEvidenceManifest(review)
         /\ review'[TestManifest] = TestEvidenceManifest(review)
         /\ review'[Summary] = VerificationSummary(review, i)
         /\ \A n \in DOMAIN review \ {CommandManifest, TestManifest, Summary} : review'[n] = review[n]
<1> DEFINE receipts == CommandEvidenceManifest(review)
           manifest == TestEvidenceManifest(review)
           summary == VerificationSummary(review, i)
           files == [n \in {CommandManifest, TestManifest, Summary} |->
                       CASE n = CommandManifest -> receipts
                         [] n = TestManifest -> manifest
                         [] n = Summary -> summary]
<1>1. Write(files)
  BY DEF WriteEvidence
<1> HIDE DEF receipts, manifest, summary
<1>2. /\ DOMAIN files = {CommandManifest, TestManifest, Summary}
      /\ files[CommandManifest] = receipts /\ files[TestManifest] = manifest /\ files[Summary] = summary
  BY SinglesDiffer
<1> HIDE DEF files
<1>3. QED
  BY <1>1, <1>2, Written DEF receipts, manifest, summary

LEMMA AttacksWrite ==
  ASSUME Types, NEW i \in Runs, RunAttacks(i)
  PROVE  /\ DOMAIN review' \ {Scratch} = (DOMAIN review \ {Scratch}) \cup {Matrix, Location}
         /\ review'[Matrix] = ExploitMatrix(LeftScratch)
         /\ \A n \in DOMAIN review \ {Matrix, Location, Scratch} : review'[n] = review[n]
         /\ Scratch \in DOMAIN review' => faults' # 0
         /\ \A n \in {Matrix, Location, Scratch} \cap DOMAIN review' : "text" \notin DOMAIN review'[n]
         /\ faults' = 0 => faults = 0
<1> DEFINE matrix == ExploitMatrix(LeftScratch)
<1>1. PICK left \in {CleanScratch} \cup [git : BOOLEAN, census : BOOLEAN] :
        LET names == ((DOMAIN review \cup {Matrix}) \ {Scratch})
                       \cup {n \in {Scratch} : left # CleanScratch} IN
        /\ review' = [n \in names \cup {Location} |->
                        CASE n = Matrix -> matrix [] n = Scratch -> left
                          [] n = Location -> ReviewLocation(names) [] OTHER -> review[n]]
        /\ faults' = faults + IF left = CleanScratch THEN 0 ELSE 1
  BY DEF RunAttacks
<1> DEFINE names == ((DOMAIN review \cup {Matrix}) \ {Scratch})
                       \cup {n \in {Scratch} : left # CleanScratch}
           location == ReviewLocation(names)
<1>2. /\ review' = [n \in names \cup {Location} |->
                      CASE n = Matrix -> matrix [] n = Scratch -> left
                        [] n = Location -> location [] OTHER -> review[n]]
      /\ faults' = faults + IF left = CleanScratch THEN 0 ELSE 1
  BY <1>1
<1>3. /\ "text" \notin DOMAIN matrix /\ "text" \notin DOMAIN location
      /\ "text" \notin DOMAIN left
  BY DEF ExploitMatrix, ReviewLocation, CleanScratch
<1>4. Scratch \in names => left # CleanScratch
  OBVIOUS
<1>5. names \ {Scratch} = (DOMAIN review \cup {Matrix}) \ {Scratch}
  OBVIOUS
<1> HIDE DEF matrix, location, names
<1>6. Matrix # Scratch /\ Location # Scratch /\ Location # Matrix
  BY SinglesDiffer
<1>7. /\ DOMAIN review' = names \cup {Location}
      /\ Matrix \in names => review'[Matrix] = matrix
      /\ review'[Location] = location
      /\ Scratch \in names => review'[Scratch] = left
      /\ \A n \in names \ {Matrix, Location, Scratch} : review'[n] = review[n]
  BY <1>2, <1>6
<1>8. /\ DOMAIN review' \ {Scratch} = (DOMAIN review \ {Scratch}) \cup {Matrix, Location}
      /\ Matrix \in names
      /\ \A n \in DOMAIN review \ {Matrix, Location, Scratch} : review'[n] = review[n]
  BY <1>5, <1>6, <1>7
<1>9. Scratch \in DOMAIN review' => faults' # 0 /\ "text" \notin DOMAIN review'[Scratch]
  BY <1>2, <1>3, <1>4, <1>6, <1>7 DEF Types
<1>10. faults' = 0 => faults = 0
  BY <1>2 DEF Types
<1>11. QED
  BY <1>3, <1>7, <1>8, <1>9, <1>10 DEF matrix

\* The files of the provenance stage.
Provenance == {Report} \cup {Scm(r) : r \in Repos} \cup {Snapshot(r) : r \in Repos}

LEMMA ScmWrites ==
  ASSUME NEW i \in Runs, WriteScm(i)
  PROVE  /\ DOMAIN review' = DOMAIN review \cup Provenance
         /\ review'[Report].run = i
         /\ \A r \in Repos : review'[Scm(r)].commit = run[i].refs[r]
         /\ \A n \in Provenance : "text" \notin DOMAIN review'[n]
         /\ \A n \in DOMAIN review \ Provenance : review'[n] = review[n]
<1> DEFINE files == [n \in {Report} \cup {Scm(r) : r \in Repos} \cup {Snapshot(r) : r \in Repos} |->
         CASE n = Report -> [run |-> i]
           [] n \in {Scm(r) : r \in Repos} -> ScmRecord(run[i].refs[n[2]])
           [] OTHER -> SnapshotManifest(GitSnapshot(run[i].refs[n[2]]))]
<1>1. Write(files)
  BY DEF WriteScm
<1>2. \A r \in Repos : Scm(r)[2] = r /\ Scm(r) # Report /\ Snapshot(r) # Report
  BY KindsOfNamesDiffer DEF Scm, Singles
<1>3. DOMAIN files = Provenance
  BY DEF Provenance
<1>4. files[Report] = [run |-> i]
  BY <1>2
<1>5. \A r \in Repos : files[Scm(r)] = ScmRecord(run[i].refs[r])
  BY <1>2
<1>6. \A r \in Repos : files[Snapshot(r)] = SnapshotManifest(GitSnapshot(run[i].refs[Snapshot(r)[2]]))
  BY <1>2, KindsOfNamesDiffer
<1>7. \A r \in Repos : files[Scm(r)].commit = run[i].refs[r] /\ "text" \notin DOMAIN files[Scm(r)]
  <2> HIDE DEF files
  <2>1. \A commit : ScmRecord(commit).commit = commit /\ "text" \notin DOMAIN ScmRecord(commit)
    BY DEF ScmRecord
  <2>2. QED
    BY <1>5, <2>1
<1>8. \A r \in Repos : "text" \notin DOMAIN files[Snapshot(r)]
  <2> HIDE DEF files
  <2>1. \A snap : "text" \notin DOMAIN SnapshotManifest(snap)
    BY DEF SnapshotManifest
  <2>2. QED
    BY <1>6, <2>1
<1>9. files[Report].run = i /\ "text" \notin DOMAIN files[Report]
  <2> HIDE DEF files
  <2>1. QED
    BY <1>4
<1> HIDE DEF files
<1>10. \A n \in Provenance : "text" \notin DOMAIN files[n]
  BY <1>7, <1>8, <1>9 DEF Provenance
<1>11. Report \in Provenance /\ \A r \in Repos : Scm(r) \in Provenance
  BY DEF Provenance
<1>12. /\ DOMAIN review' = DOMAIN review \cup Provenance
       /\ \A n \in Provenance : review'[n] = files[n]
       /\ \A n \in DOMAIN review \ Provenance : review'[n] = review[n]
  BY <1>1, <1>3, Written
<1>13. QED
  BY <1>7, <1>9, <1>10, <1>11, <1>12

LEMMA CandidateWrites ==
  ASSUME NEW i \in Runs, WriteCandidate(i)
  PROVE  /\ DOMAIN review' = DOMAIN review \cup {State, GateSummary, Decision}
         /\ review'[State] = CandidateState(run[i].gates, FALSE).state
         /\ review'[GateSummary] = CandidateState(run[i].gates, FALSE).summary
         /\ review'[Decision] = CandidateState(run[i].gates, FALSE).decision
         /\ \A n \in DOMAIN review \ {State, GateSummary, Decision} : review'[n] = review[n]
<1> DEFINE candidate == CandidateState(run[i].gates, FALSE)
           files == [n \in {State, GateSummary, Decision} |->
              CASE n = State -> candidate.state [] n = GateSummary -> candidate.summary
                [] n = Decision -> candidate.decision]
<1>1. Write(files)
  BY DEF WriteCandidate
<1> HIDE DEF candidate
<1>2. /\ DOMAIN files = {State, GateSummary, Decision}
      /\ files[State] = candidate.state /\ files[GateSummary] = candidate.summary
      /\ files[Decision] = candidate.decision
  BY SinglesDiffer
<1> HIDE DEF files
<1>3. QED
  BY <1>1, <1>2, Written DEF candidate

LEMMA IndexWrites ==
  ASSUME NEW i \in Runs, WriteIndex(i)
  PROVE  /\ DOMAIN review' = DOMAIN review \cup {Index}
         /\ review'[Index] = BuildIndex(review)
         /\ \A n \in DOMAIN review \ {Index} : review'[n] = review[n]
<1> DEFINE idx == BuildIndex(review)
           files == [n \in {Index} |-> idx]
<1>1. Write(files)
  <2>1. Write([n \in {Index} |-> BuildIndex(review)])
    BY Zenon DEF WriteIndex
  <2>2. QED
    BY <2>1
<1> HIDE DEF idx
<1>2. DOMAIN files = {Index} /\ files[Index] = idx
  OBVIOUS
<1> HIDE DEF files
<1>3. QED
  BY <1>1, <1>2, Written DEF idx

\* The other steps leave the directory as it is.
LEMMA OthersDoNotWrite ==
  ASSUME NEW i \in Runs,
         Start(i) \/ AttacksRaise(i) \/ WritePackage(i) \/ CheckPackage(i) \/ WriteSidecar(i) \/ Crash(i)
  PROVE  review' = review
<1>1. CASE Start(i)
  BY <1>1 DEF Start
<1>2. CASE AttacksRaise(i) \/ Crash(i)
  BY <1>2 DEF AttacksRaise, Crash
<1>3. CASE WritePackage(i) \/ CheckPackage(i)
  BY <1>3, Zenon DEF WritePackage, CheckPackage
<1>4. CASE WriteSidecar(i)
  BY <1>4 DEF WriteSidecar
<1>5. QED
  BY <1>1, <1>2, <1>3, <1>4

-----------------------------------------------------------------------------
(* One by one                                                              *)

\* Without an overlap an active pipeline is the one started last.
LEMMA ActiveIsLast ==
  ASSUME Types, OneByOne, ~ overlapped, NEW i \in Runs, run[i].at \in Stages
  PROVE  /\ i \in Started
         /\ run[i].kind # "given" => i \in Pipelines /\ \A j \in Pipelines : j <= i
<1>1. i \in Started /\ i \in Active
  BY DEF Started, Active, Stages
<1>2. QED
  BY <1>1 DEF Pipelines, OneByOne, Last

\* Whoever writes to the directory is a pipeline.
LEMMA WritersArePipelines ==
  ASSUME Types, OneByOne, NEW i \in Runs,
         run[i].at \in Stages \ IndexWritten
  PROVE  run[i].kind # "given"
BY DEF OneByOne, Started, Stages, IndexWritten, CandidateWritten, ProvenanceWritten, AttacksRun,
       EvidenceWritten

\* Without an overlap there is one active pipeline at most.
LEMMA OneActivePipeline ==
  ASSUME Types, OneByOne, ~ overlapped, NEW i \in Active \cap Pipelines,
         NEW k \in Active \cap Pipelines
  PROVE  i = k
<1>1. i <= k /\ k <= i
  BY DEF OneByOne, Last
<1>2. QED
  BY <1>1, RunsAssumption DEF Active, Runs

LEMMA StartsAfter ==
  ASSUME Types, NEW i \in Runs, Start(i)
  PROVE  /\ \A j \in Started : j < i
         /\ Started' = Started \cup {i}
         /\ ~ overlapped' => ~ overlapped /\ (run'[i].kind # "given" => Active \cap Pipelines = {})
         /\ run'[i].kind = "given" => run'[i].at = "payload"
         /\ run'[i].kind # "given" => run'[i].at = "commands"
<1>1. Kept(i)
  BY RunTyped
<1>2. Started = 1..(i - 1)
  BY DEF Start
<1>3. \A j \in Started : j < i
  BY <1>2, RunsAssumption DEF Runs
<1>4. Started' = Started \cup {i}
  BY <1>1 DEF Started, Kept
<1>5. PICK kind \in Kinds, refs \in [Repos -> Versions] :
        /\ run' = [run EXCEPT ![i] =
             [kind |-> kind, refs |-> refs, todo |-> Commands, failed |-> FALSE,
              gates |-> AllPass, at |-> IF kind = "given" THEN "payload" ELSE "commands"]]
        /\ overlapped' = (overlapped \/ (kind # "given" /\ Active \cap Pipelines # {}))
  BY DEF Start
<1>6. run'[i].kind = kind /\ run'[i].at = IF kind = "given" THEN "payload" ELSE "commands"
  BY <1>5 DEF Types
<1>7. ~ overlapped' => ~ overlapped /\ (kind # "given" => Active \cap Pipelines = {})
  BY <1>5
<1>8. QED
  BY <1>3, <1>4, <1>6, <1>7

\* The stage at which each step is taken.
LEMMA StepsAtStages ==
  ASSUME NEW i \in Runs
  PROVE  /\ RunCommand(i) \/ CommandStageFails(i) => run[i].at = "commands"
         /\ WriteEvidence(i) => run[i].at = "evidence"
         /\ AttacksRaise(i) \/ RunAttacks(i) => run[i].at = "attacks"
         /\ WriteScm(i) => run[i].at = "scm"
         /\ WriteCandidate(i) => run[i].at = "candidate"
         /\ WriteIndex(i) => run[i].at = "index"
         /\ WritePackage(i) => run[i].at = "payload"
         /\ CheckPackage(i) => run[i].at = "check"
         /\ WriteSidecar(i) => run[i].at = "sidecar"
<1>1. /\ RunCommand(i) \/ CommandStageFails(i) => run[i].at = "commands"
      /\ WriteEvidence(i) => run[i].at = "evidence"
  BY DEF RunCommand, CommandStageFails, WriteEvidence
<1>2. /\ AttacksRaise(i) \/ RunAttacks(i) => run[i].at = "attacks"
      /\ WriteScm(i) => run[i].at = "scm"
      /\ WriteCandidate(i) => run[i].at = "candidate"
  BY DEF AttacksRaise, RunAttacks, WriteScm, WriteCandidate
<1>3. /\ WriteIndex(i) => run[i].at = "index"
      /\ WritePackage(i) => run[i].at = "payload"
      /\ CheckPackage(i) => run[i].at = "check"
      /\ WriteSidecar(i) => run[i].at = "sidecar"
  BY Zenon DEF WriteIndex, WritePackage, CheckPackage, WriteSidecar
<1>4. QED
  BY <1>1, <1>2, <1>3

\* A step of a run other than its start starts nothing.
LEMMA NobodyStarts ==
  ASSUME Types, NEW i \in Runs, Step(i) \/ CommandStageFails(i) \/ Crash(i)
  PROVE  /\ run[i].at \in Stages
         /\ Started' = Started /\ Pipelines' = Pipelines
         /\ overlapped' = overlapped
<1>1. run[i].at \in Stages
  <2>1. run[i] \in RunRecords
    BY DEF Types
  <2>2. CASE Crash(i)
    BY <2>1, <2>2 DEF Crash, Active, RunRecords, LiveRuns, EndedRuns
  <2>3. CASE ~ Crash(i)
    BY <2>3, StepsAtStages DEF Step, Stages
  <2>4. QED
    BY <2>2, <2>3
<1>2. Kept(i) /\ run[i].at # "new"
  BY <1>1, RunTyped DEF Stages
<1>3. Started' = Started
  BY <1>2 DEF Started, Kept
<1>4. Pipelines' = Pipelines
  BY <1>2, <1>3 DEF Pipelines, Kept, Started
<1>5. overlapped' = overlapped
  <2>1. CASE RunCommand(i) \/ CommandStageFails(i) \/ WriteEvidence(i)
    BY <2>1 DEF RunCommand, CommandStageFails, WriteEvidence, observed
  <2>2. CASE AttacksRaise(i) \/ RunAttacks(i) \/ WriteScm(i) \/ WriteCandidate(i) \/ Crash(i)
    BY <2>2 DEF AttacksRaise, RunAttacks, WriteScm, WriteCandidate, Crash, observed
  <2>3. CASE WriteIndex(i) \/ WritePackage(i) \/ CheckPackage(i) \/ WriteSidecar(i)
    BY <2>3, Zenon DEF WriteIndex, WritePackage, CheckPackage, WriteSidecar, observed
  <2>4. QED
    BY <2>1, <2>2, <2>3 DEF Step
<1>6. QED
  BY <1>1, <1>3, <1>4, <1>5

\* Next to an active pipeline only the runs over a finished directory step, and
\* they leave the directory alone.
LEMMA OthersStep ==
  ASSUME Types, OneByOne, ~ overlapped, NEW i \in Runs, NEW k \in Active \cap Pipelines, k # i,
         Step(i) \/ CommandStageFails(i) \/ Crash(i)
  PROVE  review' = review /\ run'[k] = run[k]
<1>1. run[i].at \in Stages
  BY NobodyStarts
<1>2. run[i].kind = "given"
  <2>1. i \in Active
    BY <1>1 DEF Active, Stages
  <2>2. i \in Pipelines => FALSE
    BY <2>1, OneActivePipeline
  <2>3. QED
    BY <2>1, <2>2 DEF Pipelines, Started, Active
<1>3. run[i].at \in IndexWritten
  BY <1>1, <1>2, WritersArePipelines
<1>4. review' = review
  BY <1>3, StepsAtStages, OthersDoNotWrite DEF Step, IndexWritten, CandidateWritten,
       ProvenanceWritten, AttacksRun, EvidenceWritten
<1>5. QED
  BY <1>4, RunTyped DEF Kept, Active

LEMMA RunStepOneByOne ==
  ASSUME Types, OneByOne, NEW i \in Runs, Start(i) \/ Step(i) \/ CommandStageFails(i) \/ Crash(i)
  PROVE  OneByOne'
<1>1. Kept(i)
  BY RunTyped
<1>2. CASE Start(i)
  <2>1. /\ \A j \in Started : j < i
        /\ Started' = Started \cup {i}
        /\ ~ overlapped' => ~ overlapped /\ (run'[i].kind # "given" => Active \cap Pipelines = {})
        /\ run'[i].kind = "given" => run'[i].at = "payload"
    BY <1>2, StartsAfter
  <2>2. \A j \in Started : run'[j] = run[j] /\ j \in Runs
    BY <1>1, <2>1, RunsAssumption DEF Kept, Started, Runs
  <2>3. \A j \in Started' : j <= i /\ j \in Nat
    BY <2>1, RunsAssumption DEF Runs, Started
  <2>4. ~ overlapped' => \A j \in (Active \cap Pipelines)' : Last(j)'
    <3> SUFFICES ASSUME ~ overlapped', NEW j \in Active', j \in Pipelines'
                 PROVE  Last(j)'
      OBVIOUS
    <3>1. j \in Started' /\ run'[j].kind # "given" /\ run'[j].at \notin {"new", "ended"}
      BY DEF Active, Pipelines
    <3>2. CASE j = i
      BY <2>3, <3>2 DEF Last, Pipelines
    <3>3. CASE j # i
      <4>1. j \in Started /\ run'[j] = run[j]
        BY <2>1, <2>2, <3>1, <3>3
      <4>2. j \in Active \cap Pipelines
        BY <2>2, <3>1, <4>1 DEF Active, Pipelines
      <4>3. run'[i].kind = "given" /\ Last(j)
        BY <2>1, <4>2 DEF OneByOne
      <4>4. Pipelines' = Pipelines
        BY <2>1, <2>2, <4>3 DEF Pipelines
      <4>5. QED
        BY <4>3, <4>4 DEF Last
    <3>4. QED
      BY <3>2, <3>3
  <2>5. \A j \in Started' : run'[j].kind = "given" => run'[j].at \in IndexWritten \cup {"ended"}
    BY <2>1, <2>2 DEF OneByOne, IndexWritten, CandidateWritten, ProvenanceWritten, AttacksRun,
                      EvidenceWritten
  <2>6. Pipelines' # {} => \E j \in Pipelines' : \A k \in Pipelines' : k <= j
    <3>1. CASE run'[i].kind # "given"
      BY <2>1, <2>3, <3>1 DEF Pipelines
    <3>2. CASE run'[i].kind = "given"
      <4>1. Pipelines' = Pipelines
        BY <2>1, <2>2, <3>2 DEF Pipelines
      <4>2. QED
        BY <4>1 DEF OneByOne
    <3>3. QED
      BY <3>1, <3>2
  <2>7. QED
    BY <2>4, <2>5, <2>6 DEF OneByOne
<1>3. CASE Step(i) \/ CommandStageFails(i) \/ Crash(i)
  <2>1. /\ run[i].at \in Stages /\ Started' = Started /\ Pipelines' = Pipelines
        /\ overlapped' = overlapped
    BY <1>3, NobodyStarts
  <2>2. \A j \in Started : j # i => run'[j] = run[j]
    BY <1>1 DEF Kept, Started
  <2>3. run[i].at # "ended" /\ i \in Started
    BY <2>1 DEF Stages, Started
  <2>4. ~ overlapped' => \A j \in (Active \cap Pipelines)' : Last(j)'
    <3>1. \A j \in Active' : j \in Active
      BY <1>1, <2>1 DEF Kept, Active, Stages
    <3>2. QED
      BY <2>1, <3>1 DEF OneByOne, Last
  <2>5. run'[i].kind = "given" => run'[i].at \in IndexWritten \cup {"ended"}
    <3> SUFFICES ASSUME run'[i].kind = "given" PROVE run'[i].at \in IndexWritten \cup {"ended"}
      OBVIOUS
    <3>1. run[i].kind = "given" /\ run[i].at \in IndexWritten
      BY <1>1, <2>3 DEF Kept, OneByOne, Started
    <3>2. CASE WritePackage(i) \/ CheckPackage(i) \/ WriteSidecar(i) \/ Crash(i)
      BY <3>2, Moves DEF IndexWritten, CandidateWritten, ProvenanceWritten, AttacksRun, EvidenceWritten
    <3>3. CASE ~ (WritePackage(i) \/ CheckPackage(i) \/ WriteSidecar(i) \/ Crash(i))
      BY <1>3, <3>1, <3>3, StepsAtStages DEF Step,
         IndexWritten, CandidateWritten, ProvenanceWritten, AttacksRun, EvidenceWritten
    <3>4. QED
      BY <3>2, <3>3
  <2>6. \A j \in Started' : run'[j].kind = "given" => run'[j].at \in IndexWritten \cup {"ended"}
    BY <2>1, <2>2, <2>5 DEF OneByOne
  <2>7. QED
    BY <2>1, <2>4, <2>6 DEF OneByOne
<1>4. QED
  BY <1>2, <1>3

-----------------------------------------------------------------------------
(* The directory a pipeline leaves                                         *)

\* The states a pipeline computes from its gates agree with each other.
LEMMA CandidatesAgree ==
  ASSUME NEW gates \in [GateNames -> {Pass, Fail}]
  PROVE  LET candidate == CandidateState(gates, FALSE) IN
         CandidateIsConsistent(candidate.state, candidate.summary, candidate.decision)
<1> DEFINE all == \A g \in GateNames : gates[g] = Pass
           candidate == CandidateState(gates, FALSE)
<1>1. Pass # Fail /\ Pass # "PENDING" /\ Fail # "PENDING"
  BY DEF Pass, Fail
<1>2. CASE all
  <2>1. candidate = [state |-> [phase |-> CurrentPhase, gates |-> gates, status |-> Ready,
                                review |-> "PENDING", p3 |-> FALSE],
          summary |-> [phase |-> CurrentPhase, gates |-> gates, all |-> TRUE, terminal |-> Pass],
          decision |-> [phase |-> CurrentPhase, decision |-> Pass, status |-> Ready]]
    BY <1>2 DEF CandidateState, Gate
  <2>2. \A g \in GateNames : gates[g] = Pass
    BY <1>2
  <2> HIDE DEF candidate, all
  <2>3. /\ candidate.state.status = Ready /\ candidate.state.gates = gates
        /\ candidate.summary.gates = gates /\ candidate.summary.all
        /\ candidate.decision.status = Ready
    BY <2>1
  <2>4. CandidateIsConsistent(candidate.state, candidate.summary, candidate.decision)
    BY <1>1, <2>2, <2>3 DEF CandidateIsConsistent
  <2>5. QED
    BY <2>4 DEF candidate
<1>3. CASE ~ all
  <2>1. candidate = [state |-> [phase |-> CurrentPhase, gates |-> gates, status |-> NotReady,
                                review |-> "PENDING", p3 |-> FALSE],
          summary |-> [phase |-> CurrentPhase, gates |-> gates, all |-> FALSE, terminal |-> Fail],
          decision |-> [phase |-> CurrentPhase, decision |-> Fail, status |-> NotReady]]
    BY <1>3 DEF CandidateState, Gate
  <2> HIDE DEF candidate, all
  <2>2. /\ candidate.state.status = NotReady /\ candidate.state.gates = gates
        /\ ~ candidate.summary.all
        /\ candidate.decision.status = NotReady /\ candidate.decision.decision = Fail
    BY <2>1
  <2>3. CandidateIsConsistent(candidate.state, candidate.summary, candidate.decision)
    BY <1>1, <2>2 DEF CandidateIsConsistent
  <2>4. QED
    BY <2>3 DEF candidate
<1>4. QED
  BY <1>2, <1>3

\* The files a stage writes are none of an earlier stage's.
LEMMA EvidenceStays ==
  ASSUME NEW dir, NEW new, EvidenceIn(dir),
         NEW written, written \cap ({TestManifest, CommandManifest, Summary} \cup TestEvidence) = {},
         DOMAIN dir \ written = DOMAIN new \ written,
         \A n \in DOMAIN dir \ written : new[n] = dir[n]
  PROVE  EvidenceIn(new)
<1>1. {TestManifest, CommandManifest, Summary} \subseteq DOMAIN new
  BY DEF EvidenceIn
<1>2. new[TestManifest] = dir[TestManifest]
  BY DEF EvidenceIn
<1>3. TestEvidence \cap DOMAIN new = TestEvidence \cap DOMAIN dir
  OBVIOUS
<1>4. \A n \in TestEvidence \cap DOMAIN new : new[n] = dir[n]
  OBVIOUS
<1>5. QED
  BY <1>1, <1>2, <1>3, <1>4 DEF EvidenceIn, VerifyTestEvidence

LEMMA CandidateStays ==
  ASSUME NEW dir, NEW new, CandidateIn(dir),
         \A n \in {State, GateSummary, Decision} : n \in DOMAIN new /\ new[n] = dir[n]
  PROVE  CandidateIn(new)
BY DEF CandidateIn

LEMMA TestEvidenceNames ==
  /\ TestEvidence \cap Singles = {}
  /\ TestEvidence \cap Provenance = {}
  /\ Provenance \cap (Singles \ {Report}) = {}
<1>1. \A c \in Commands : {Output(c), ExitFile(c), Recorded(c)} \cap Singles = {}
  BY KindsOfNamesDiffer
<1>2. \A c \in Commands : {Output(c), ExitFile(c), Recorded(c)} \cap Provenance = {}
  BY <1>1, KindsOfNamesDiffer DEF Provenance, Singles
<1>3. Provenance \cap (Singles \ {Report}) = {}
  BY KindsOfNamesDiffer DEF Provenance
<1>4. QED
  BY <1>1, <1>2, <1>3 DEF TestEvidence

LEMMA IndexedNames ==
  /\ Indexed = {State, Summary, GateSummary, Decision, Location, TestManifest, CommandManifest, Matrix}
                 \cup Provenance
  /\ Index \notin Indexed
BY SinglesDiffer, KindsOfNamesDiffer DEF Indexed, Provenance, Singles

\* What is still ahead of a run, and what lies behind it.
LEMMA StageSets ==
  /\ EvidenceWritten = {"attacks", "scm", "candidate", "index", "payload", "check", "sidecar"}
  /\ AttacksRun = {"scm", "candidate", "index", "payload", "check", "sidecar"}
  /\ ProvenanceWritten = {"candidate", "index", "payload", "check", "sidecar"}
  /\ CandidateWritten = {"index", "payload", "check", "sidecar"}
  /\ IndexWritten = {"payload", "check", "sidecar"}
BY DEF IndexWritten, CandidateWritten, ProvenanceWritten, AttacksRun, EvidenceWritten

LEMMA Behind ==
  ASSUME NEW i
  PROVE  /\ run[i].at \in EvidenceWritten => Past(i, EvidenceWritten)
         /\ run[i].at \in AttacksRun => Past(i, AttacksRun)
         /\ run[i].at \in ProvenanceWritten => Past(i, ProvenanceWritten)
         /\ run[i].at \in CandidateWritten => Past(i, CandidateWritten)
         /\ run[i].at \in IndexWritten => Past(i, IndexWritten)
BY DEF Past

LEMMA Ahead ==
  ASSUME NEW i
  PROVE  LET at == run'[i].at IN
         /\ at \in {"commands", "evidence"} => ~ Past(i, EvidenceWritten)'
         /\ at \in {"commands", "evidence", "attacks"} => ~ Past(i, AttacksRun)'
         /\ at \in {"commands", "evidence", "attacks", "scm"} => ~ Past(i, ProvenanceWritten)'
         /\ at \in {"commands", "evidence", "attacks", "scm", "candidate"} => ~ Past(i, CandidateWritten)'
         /\ at \in {"commands", "evidence", "attacks", "scm", "candidate", "index"} =>
              ~ Past(i, IndexWritten)'
<1> DEFINE at == run'[i].at
<1>1. /\ Past(i, EvidenceWritten)' => at \in EvidenceWritten \/ at = "ended"
      /\ Past(i, AttacksRun)' => at \in AttacksRun \/ at = "ended"
      /\ Past(i, ProvenanceWritten)' => at \in ProvenanceWritten \/ at = "ended"
      /\ Past(i, CandidateWritten)' => at \in CandidateWritten \/ at = "ended"
      /\ Past(i, IndexWritten)' => at \in IndexWritten \/ at = "ended"
  BY DEF Past, IndexWritten, CandidateWritten, ProvenanceWritten, AttacksRun, EvidenceWritten
<1> HIDE DEF at
<1>2. QED
  BY <1>1, StageSets DEF at

LEMMA DeadRuns ==
  ASSUME NEW i, run'[i].at = "ended", run'[i].result \in {"raised", "crashed"}
  PROVE  /\ ~ Past(i, EvidenceWritten)' /\ ~ Past(i, AttacksRun)' /\ ~ Past(i, ProvenanceWritten)'
         /\ ~ Past(i, CandidateWritten)' /\ ~ Past(i, IndexWritten)'
BY DEF Past, IndexWritten, CandidateWritten, ProvenanceWritten, AttacksRun, EvidenceWritten

\* A run that stays as it is has come as far as before.
LEMMA SamePast ==
  ASSUME NEW i, run'[i] = run[i]
  PROVE  /\ Past(i, EvidenceWritten)' <=> Past(i, EvidenceWritten)
         /\ Past(i, AttacksRun)' <=> Past(i, AttacksRun)
         /\ Past(i, ProvenanceWritten)' <=> Past(i, ProvenanceWritten)
         /\ Past(i, CandidateWritten)' <=> Past(i, CandidateWritten)
         /\ Past(i, IndexWritten)' <=> Past(i, IndexWritten)
BY DEF Past, IndexWritten, CandidateWritten, ProvenanceWritten, AttacksRun, EvidenceWritten

\* What run i writes is where it belongs when it moves on.
LEMMA OwnStepSettles ==
  ASSUME Types, NEW i \in Runs, Step(i) \/ CommandStageFails(i) \/ Crash(i),
         /\ Past(i, EvidenceWritten) => EvidenceIn(review)
         /\ Past(i, AttacksRun) => AttacksIn(review)
         /\ Past(i, ProvenanceWritten) => ProvenanceIn(review)
         /\ Past(i, CandidateWritten) => CandidateIn(review)
         /\ Past(i, IndexWritten) => IndexIn(review)
  PROVE  /\ Past(i, EvidenceWritten)' => EvidenceIn(review')
         /\ Past(i, AttacksRun)' => AttacksIn(review')
         /\ Past(i, ProvenanceWritten)' => ProvenanceIn(review')
         /\ Past(i, CandidateWritten)' => CandidateIn(review')
         /\ Past(i, IndexWritten)' => IndexIn(review')
<1>1. CASE RunCommand(i) \/ CommandStageFails(i)
  <2>1. run'[i].at \in {"commands", "evidence"}
    BY <1>1, Moves
  <2>2. QED
    BY <2>1, Ahead
<1>2. CASE AttacksRaise(i) \/ Crash(i)
  <2>1. run'[i].at = "ended" /\ run'[i].result \in {"raised", "crashed"}
    BY <1>2 DEF AttacksRaise, Crash, Finish, Types
  <2>2. QED
    BY <2>1, DeadRuns
<1>3. CASE WriteEvidence(i)
  <2>1. run'[i].at = "attacks"
    BY <1>3, Moves
  <2>2. /\ DOMAIN review' = DOMAIN review \cup {CommandManifest, TestManifest, Summary}
        /\ review'[TestManifest] = TestEvidenceManifest(review)
        /\ \A n \in DOMAIN review \ {CommandManifest, TestManifest, Summary} : review'[n] = review[n]
    BY <1>3, EvidenceWrites
  <2>3. TestEvidence \cap {CommandManifest, TestManifest, Summary} = {}
    BY TestEvidenceNames DEF Singles
  <2>4. /\ TestEvidence \cap DOMAIN review' = TestEvidence \cap DOMAIN review
        /\ \A n \in TestEvidence \cap DOMAIN review : review'[n] = review[n]
    BY <2>2, <2>3
  <2>5. VerifyTestEvidence(review'[TestManifest], review')
    BY <2>2, <2>4 DEF VerifyTestEvidence, TestEvidenceManifest
  <2>6. EvidenceIn(review')
    BY <2>2, <2>5 DEF EvidenceIn
  <2>7. QED
    BY <2>1, <2>6, Ahead
<1>4. CASE RunAttacks(i)
  <2>1. run'[i].at = "scm" /\ run[i].at = "attacks"
    BY <1>4, Moves, StepsAtStages
  <2>2. EvidenceIn(review)
    BY <2>1, Behind, StageSets
  <2>3. /\ DOMAIN review' \ {Scratch} = (DOMAIN review \ {Scratch}) \cup {Matrix, Location}
        /\ \A n \in DOMAIN review \ {Matrix, Location, Scratch} : review'[n] = review[n]
    BY <1>4, AttacksWrite
  <2>4. {Matrix, Location, Scratch} \cap ({TestManifest, CommandManifest, Summary} \cup TestEvidence) = {}
    BY SinglesDiffer, TestEvidenceNames DEF Singles
  <2>5. DOMAIN review \ {Matrix, Location, Scratch} = DOMAIN review' \ {Matrix, Location, Scratch}
    BY <2>3
  <2>6. EvidenceIn(review')
    BY <2>2, <2>3, <2>4, <2>5, EvidenceStays
  <2>7. AttacksIn(review')
    BY <2>3, SinglesDiffer DEF AttacksIn
  <2>8. QED
    BY <2>1, <2>6, <2>7, Ahead
<1>5. CASE WriteScm(i)
  <2>1. run'[i].at = "candidate" /\ run[i].at = "scm"
    BY <1>5, Moves, StepsAtStages
  <2>2. EvidenceIn(review) /\ AttacksIn(review)
    BY <2>1, Behind, StageSets
  <2>3. /\ DOMAIN review' = DOMAIN review \cup Provenance
        /\ \A n \in DOMAIN review \ Provenance : review'[n] = review[n]
    BY <1>5, ScmWrites
  <2>4. Provenance \cap ({TestManifest, CommandManifest, Summary} \cup TestEvidence) = {}
    BY SinglesDiffer, TestEvidenceNames DEF Singles
  <2>5. DOMAIN review \ Provenance = DOMAIN review' \ Provenance
    BY <2>3
  <2>6. EvidenceIn(review')
    BY <2>2, <2>3, <2>4, <2>5, EvidenceStays
  <2>7. AttacksIn(review') /\ ProvenanceIn(review')
    BY <2>2, <2>3 DEF AttacksIn, ProvenanceIn, Provenance
  <2>8. QED
    BY <2>1, <2>6, <2>7, Ahead
<1>6. CASE WriteCandidate(i)
  <2>1. run'[i].at = "index" /\ run[i].at = "candidate"
    BY <1>6, Moves, StepsAtStages
  <2>2. EvidenceIn(review) /\ AttacksIn(review) /\ ProvenanceIn(review)
    BY <2>1, Behind, StageSets
  <2>3. /\ DOMAIN review' = DOMAIN review \cup {State, GateSummary, Decision}
        /\ review'[State] = CandidateState(run[i].gates, FALSE).state
        /\ review'[GateSummary] = CandidateState(run[i].gates, FALSE).summary
        /\ review'[Decision] = CandidateState(run[i].gates, FALSE).decision
        /\ \A n \in DOMAIN review \ {State, GateSummary, Decision} : review'[n] = review[n]
    BY <1>6, CandidateWrites
  <2>4. {State, GateSummary, Decision} \cap ({TestManifest, CommandManifest, Summary} \cup TestEvidence) = {}
    BY SinglesDiffer, TestEvidenceNames DEF Singles
  <2>5. DOMAIN review \ {State, GateSummary, Decision} = DOMAIN review' \ {State, GateSummary, Decision}
    BY <2>3
  <2>6. EvidenceIn(review')
    BY <2>2, <2>3, <2>4, <2>5, EvidenceStays
  <2>7. AttacksIn(review') /\ ProvenanceIn(review')
    BY <2>2, <2>3 DEF AttacksIn, ProvenanceIn
  <2>8. run[i].gates \in [GateNames -> {Pass, Fail}]
    BY <2>1, LiveRun DEF LiveRuns, Stages
  <2>9. CandidateIn(review')
    BY <2>3, <2>8, CandidatesAgree DEF CandidateIn
  <2>10. QED
    BY <2>1, <2>6, <2>7, <2>9, Ahead
<1>7. CASE WriteIndex(i)
  <2>1. run[i].at = "index"
    BY <1>7, StepsAtStages
  <2>2. EvidenceIn(review) /\ AttacksIn(review) /\ ProvenanceIn(review) /\ CandidateIn(review)
    BY <2>1, Behind, StageSets
  <2>3. /\ DOMAIN review' = DOMAIN review \cup {Index}
        /\ review'[Index] = BuildIndex(review)
        /\ \A n \in DOMAIN review \ {Index} : review'[n] = review[n]
    BY <1>7, IndexWrites
  <2>4. {Index} \cap ({TestManifest, CommandManifest, Summary} \cup TestEvidence) = {}
    BY SinglesDiffer, TestEvidenceNames DEF Singles
  <2>5. DOMAIN review \ {Index} = DOMAIN review' \ {Index}
    BY <2>3
  <2>6. EvidenceIn(review')
    BY <2>2, <2>3, <2>4, <2>5, EvidenceStays
  <2>7. AttacksIn(review') /\ ProvenanceIn(review')
    BY <2>2, <2>3 DEF AttacksIn, ProvenanceIn
  <2>8. CandidateIn(review')
    BY <2>2, <2>3, SinglesDiffer, CandidateStays DEF CandidateIn
  <2>9. Indexed \subseteq DOMAIN review
    BY <2>2, IndexedNames DEF EvidenceIn, AttacksIn, ProvenanceIn, CandidateIn, Provenance
  <2>10. \A n \in Indexed : review'[n] = review[n]
    BY <2>3, <2>9, IndexedNames
  <2>11. BuildIndex(review') = BuildIndex(review)
    BY <2>10 DEF BuildIndex
  <2>12. IndexIn(review')
    BY <2>3, <2>11 DEF IndexIn
  <2>13. QED
    BY <2>6, <2>7, <2>8, <2>12
<1>8. CASE WritePackage(i) \/ CheckPackage(i) \/ WriteSidecar(i)
  <2>1. run[i].at \in IndexWritten
    BY <1>8, StepsAtStages, StageSets
  <2>2. review' = review
    BY <1>8, OthersDoNotWrite
  <2>3. QED
    BY <2>1, <2>2, Behind, StageSets
<1>9. QED
  BY <1>1, <1>2, <1>3, <1>4, <1>5, <1>6, <1>7, <1>8 DEF Step

\* Whoever is active beside the last pipeline only packs and checks.
LEMMA RunStepSettling ==
  ASSUME Types, OneByOne, Settling,
         NEW i \in Runs, Start(i) \/ Step(i) \/ CommandStageFails(i) \/ Crash(i)
  PROVE  Settling'
<1> SUFFICES ASSUME ~ overlapped', NEW k \in Runs, Last(k)'
             PROVE  /\ Past(k, EvidenceWritten)' => EvidenceIn(review')
                    /\ Past(k, AttacksRun)' => AttacksIn(review')
                    /\ Past(k, ProvenanceWritten)' => ProvenanceIn(review')
                    /\ Past(k, CandidateWritten)' => CandidateIn(review')
                    /\ Past(k, IndexWritten)' => IndexIn(review')
  BY DEF Settling
<1>1. Kept(i)
  BY RunTyped
<1>2. CASE Start(i)
  <2>1. /\ Started' = Started \cup {i}
        /\ ~ overlapped
        /\ run'[i].kind # "given" => run'[i].at = "commands"
        /\ \A j \in Started : j < i
    BY <1>2, StartsAfter
  <2>2. CASE k = i
    <3>1. run'[i].at = "commands"
      BY <2>1, <2>2 DEF Last, Pipelines
    <3>2. QED
      BY <2>2, <3>1, Ahead
  <2>3. CASE k # i
    <3>1. run'[k] = run[k] /\ review' = review
      BY <1>1, <1>2, <2>3, OthersDoNotWrite DEF Kept
    <3>2. \A j \in Started : j # i /\ run'[j] = run[j]
      BY <1>1, <2>1, RunsAssumption DEF Kept, Started, Runs
    <3>3. Pipelines \subseteq Pipelines' /\ k \in Pipelines
      BY <2>1, <2>3, <3>1, <3>2 DEF Last, Pipelines
    <3>4. Last(k)
      BY <3>3 DEF Last
    <3>5. QED
      BY <2>1, <3>1, <3>4, SamePast DEF Settling
  <2>4. QED
    BY <2>2, <2>3
<1>3. CASE Step(i) \/ CommandStageFails(i) \/ Crash(i)
  <2>1. run[i].at \in Stages /\ Pipelines' = Pipelines /\ overlapped' = overlapped
    BY <1>3, NobodyStarts
  <2>2. Last(k)
    BY <2>1 DEF Last
  <2>3. CASE k = i
    BY <1>3, <2>1, <2>2, <2>3, OwnStepSettles DEF Settling
  <2>4. CASE k # i
    <3>1. run[i].kind = "given"
      <4> SUFFICES ASSUME run[i].kind # "given" PROVE FALSE
        OBVIOUS
      <4>1. i \in Pipelines /\ \A j \in Pipelines : j <= i
        BY <2>1, ActiveIsLast
      <4>2. k <= i /\ i <= k
        BY <2>2, <4>1 DEF Last
      <4>3. QED
        BY <2>4, <4>2, RunsAssumption DEF Runs
    <3>2. run[i].at \in IndexWritten
      BY <2>1, <3>1, WritersArePipelines
    <3>3. review' = review
      BY <1>3, <3>2, StepsAtStages, OthersDoNotWrite DEF Step, IndexWritten, CandidateWritten,
           ProvenanceWritten, AttacksRun, EvidenceWritten
    <3>4. run'[k] = run[k]
      BY <1>1, <2>4 DEF Kept
    <3>5. QED
      BY <2>1, <2>2, <3>3, <3>4, SamePast DEF Settling
  <2>5. QED
    BY <2>3, <2>4
<1>4. QED
  BY <1>2, <1>3

-----------------------------------------------------------------------------
(* What a pipeline hears, and what its index says                          *)

\* A run that goes on keeps its gates, but for those a stage has judged, and
\* whether its command stage has failed.
LEMMA GatesStay ==
  ASSUME Types, NEW i \in Runs, run'[i].at # "ended"
  PROVE  /\ RunAttacks(i) =>
              /\ \A g \in GateNames \ {"negative_exploit"} : run'[i].gates[g] = run[i].gates[g]
              /\ run'[i].gates["negative_exploit"] = ExploitGate(ExploitMatrix(LeftScratch))
              /\ run'[i].failed = run[i].failed
         /\ WriteScm(i) \/ WriteCandidate(i) \/ WriteIndex(i) \/ WritePackage(i) \/ CheckPackage(i)
              => run'[i].gates = run[i].gates /\ run'[i].failed = run[i].failed
<1>1. run \in [Runs -> RunRecords] /\ (run[i].at \in Stages => run[i] \in LiveRuns)
  BY LiveRun DEF Types
<1>2. \A result : ~ Finish(i, result)
  BY <1>1 DEF Finish
<1>3. \A stage : run[i].at \in Stages /\ Goto(i, stage) =>
        run'[i].gates = run[i].gates /\ run'[i].failed = run[i].failed
  BY <1>1 DEF Goto, LiveRuns
<1>4. ASSUME RunAttacks(i)
      PROVE  /\ \A g \in GateNames \ {"negative_exploit"} : run'[i].gates[g] = run[i].gates[g]
             /\ run'[i].gates["negative_exploit"] = ExploitGate(ExploitMatrix(LeftScratch))
             /\ run'[i].failed = run[i].failed
  <2> DEFINE a == ExploitGate(ExploitMatrix(LeftScratch))
             gates == [run[i].gates EXCEPT !["negative_exploit"] = a]
  <2>1. run' = [run EXCEPT ![i].at = "scm", ![i].gates["negative_exploit"] = a]
    BY <1>4 DEF RunAttacks
  <2>2. run[i] \in LiveRuns
    BY <1>1, <1>4, StepsAtStages DEF Stages
  <2> HIDE DEF a
  <2>3. /\ \A g \in GateNames \ {"negative_exploit"} : gates[g] = run[i].gates[g]
        /\ gates["negative_exploit"] = a
    BY <2>2 DEF LiveRuns, GateNames
  <2>4. run' = [run EXCEPT ![i] = [run[i] EXCEPT !.at = "scm", !.gates = gates]]
    BY <1>1, <2>1, <2>2 DEF LiveRuns
  <2> HIDE DEF gates
  <2>5. run'[i].gates = gates /\ run'[i].failed = run[i].failed
    BY <1>1, <2>2, <2>4 DEF LiveRuns
  <2>6. QED
    BY <2>3, <2>5 DEF a
<1>5. ASSUME WriteScm(i) \/ WriteCandidate(i) \/ WriteIndex(i) \/ WritePackage(i) \/ CheckPackage(i)
      PROVE  run'[i].gates = run[i].gates /\ run'[i].failed = run[i].failed
  <2>1. run[i].at \in Stages
    BY <1>5, StepsAtStages DEF Stages
  <2>2. \E stage : Goto(i, stage)
    BY <1>2, <1>5 DEF WriteScm, WriteCandidate, WriteIndex, WritePackage, CheckPackage
  <2>3. QED
    BY <1>3, <2>1, <2>2
<1>6. QED
  BY <1>4, <1>5

LEMMA GatesJudged ==
  ASSUME Types, NEW i \in Runs, WriteEvidence(i)
  PROVE  LET summary == VerificationSummary(review, i) IN
         /\ run'[i].gates["command_receipt"] = CommandGate(CommandEvidenceManifest(review))
         /\ run'[i].gates["test_evidence"] = Gate(SummaryIsClean(summary.pytest))
         /\ run'[i].gates["implementation"] = Gate(summary.pytest.collected /\ summary.checkers)
         /\ run'[i].failed = run[i].failed
<1> DEFINE summary == VerificationSummary(review, i)
           a == CommandGate(CommandEvidenceManifest(review))
           b == Gate(SummaryIsClean(summary.pytest))
           c == Gate(summary.pytest.collected /\ summary.checkers)
           gates == [run[i].gates EXCEPT !["command_receipt"] = a, !["test_evidence"] = b,
                                         !["implementation"] = c]
<1>1. run' = [run EXCEPT ![i].at = "attacks", ![i].gates["command_receipt"] = a,
                         ![i].gates["test_evidence"] = b, ![i].gates["implementation"] = c]
  BY DEF WriteEvidence
<1>2. run[i] \in LiveRuns /\ run \in [Runs -> RunRecords]
  BY LiveRun, StepsAtStages DEF Stages, Types
<1> HIDE DEF a, b, c
<1>3. gates["command_receipt"] = a /\ gates["test_evidence"] = b /\ gates["implementation"] = c
  BY <1>2 DEF LiveRuns, GateNames
<1>4. run' = [run EXCEPT ![i] = [run[i] EXCEPT !.at = "attacks", !.gates = gates]]
  BY <1>1, <1>2, ZenonT(60) DEF LiveRuns
<1> HIDE DEF gates
<1>5. run'[i].gates = gates /\ run'[i].failed = run[i].failed
  BY <1>2, <1>4 DEF LiveRuns
<1>6. QED
  BY <1>3, <1>5 DEF a, b, c

\* A gate that passes was given a true judgment.
LEMMA GatePasses ==
  ASSUME NEW b \in BOOLEAN, Gate(b) = Pass
  PROVE  b
BY DEF Gate, Pass, Fail

LEMMA ShaContent == \A content : Content(Sha(content)) = content
BY DEF Sha, Content

\* Of every command dir holds what run i left of it.
LeftBy(i, dir) ==
  \A c \in Commands :
    /\ {Recorded(c), Output(c), ExitFile(c)} \subseteq DOMAIN dir
    /\ dir[Recorded(c)] = CommandReceipt(i, dir[Output(c)], dir[ExitFile(c)].code, "review")

\* What is heard is in the test manifest, and the gates are of what was heard.
LEMMA EvidenceIsHeard ==
  ASSUME Types, NEW i \in Runs, WriteEvidence(i), LeftBy(i, review)
  PROVE  Heard(i)'
<1> DEFINE e == review'[TestManifest].entries
<1>1. /\ review'[TestManifest] = TestEvidenceManifest(review)
      /\ review'[Summary] = VerificationSummary(review, i)
  BY EvidenceWrites
<1>2. review'[Summary].run = i
  BY <1>1 DEF VerificationSummary
<1>3. e = [n \in TestEvidence \cap DOMAIN review |-> Sha(review[n])]
  BY <1>1 DEF TestEvidenceManifest
<1> HIDE DEF e
<1>4. \A c \in Commands : {Recorded(c), Output(c), ExitFile(c)} \subseteq TestEvidence
  BY DEF TestEvidence
<1>5. \A c \in Commands : /\ {Recorded(c), Output(c), ExitFile(c)} \subseteq DOMAIN e
                          /\ Content(e[Recorded(c)]) = review[Recorded(c)]
                          /\ Content(e[Output(c)]) = review[Output(c)]
                          /\ Content(e[ExitFile(c)]) = review[ExitFile(c)]
                          /\ ExitFile(c) \in DOMAIN review
  <2> SUFFICES ASSUME NEW c \in Commands
               PROVE  /\ {Recorded(c), Output(c), ExitFile(c)} \subseteq DOMAIN e
                      /\ Content(e[Recorded(c)]) = review[Recorded(c)]
                      /\ Content(e[Output(c)]) = review[Output(c)]
                      /\ Content(e[ExitFile(c)]) = review[ExitFile(c)]
                      /\ ExitFile(c) \in DOMAIN review
    OBVIOUS
  <2>1. {Recorded(c), Output(c), ExitFile(c)} \subseteq TestEvidence \cap DOMAIN review
    BY <1>4 DEF LeftBy
  <2>2. QED
    BY <1>3, <2>1, ShaContent
<1>11. EntriesAreOf(e, i)
  BY <1>5 DEF EntriesAreOf, LeftBy
<1> DEFINE summary == VerificationSummary(review, i)
<1>6. /\ run'[i].gates["test_evidence"] = Gate(SummaryIsClean(summary.pytest))
      /\ run'[i].gates["implementation"] = Gate(summary.pytest.collected /\ summary.checkers)
  BY GatesJudged
<1>7. summary.pytest = ParsedLog(review[Output("pytest")]) /\ summary.checkers = CheckersPass(review)
  BY CommandsAssumption DEF VerificationSummary, ReadLog, LeftBy
<1> HIDE DEF summary
<1>8. run'[i].gates["test_evidence"] = Pass => PytestPassed(e)
  <2>1. SummaryIsClean(summary.pytest) \in BOOLEAN
    BY <1>7 DEF SummaryIsClean, ParsedLog
  <2>2. QED
    BY <1>5, <1>6, <1>7, <2>1, GatePasses, CommandsAssumption DEF PytestPassed
<1>9. run'[i].gates["implementation"] = Pass => CheckersPassed(e)
  <2> SUFFICES ASSUME run'[i].gates["implementation"] = Pass, NEW c \in Commands \ {"pytest"}
               PROVE  Content(e[ExitFile(c)]).code = 0
    BY DEF CheckersPassed
  <2>1. CheckersPass(review)
    BY <1>6, <1>7 DEF Gate, Pass, Fail
  <2>2. ReadExitCode(review, c) = 0
    BY <2>1 DEF CheckersPass
  <2>3. QED
    BY <1>5, <2>2 DEF ReadExitCode
<1>10. QED
  BY <1>2, <1>8, <1>9, <1>11 DEF Heard, e

\* A later stage leaves what was heard as it is.
LEMMA HeardStays ==
  ASSUME NEW i \in Runs, Heard(i),
         review'[Summary] = review[Summary], review'[TestManifest] = review[TestManifest],
         run'[i].gates["test_evidence"] = run[i].gates["test_evidence"],
         run'[i].gates["implementation"] = run[i].gates["implementation"]
  PROVE  Heard(i)'
BY DEF Heard

\* A candidate state is READY only when every gate is PASS.
LEMMA ReadyMeansAllPass ==
  ASSUME NEW gates, CandidateState(gates, FALSE).state.status = Ready
  PROVE  \A g \in GateNames : gates[g] = Pass
<1> DEFINE all == \A g \in GateNames : gates[g] = Pass
           status == IF all THEN Ready ELSE NotReady
<1>1. CandidateState(gates, FALSE).state.status = status
  BY DEF CandidateState
<1>2. Ready # NotReady
  BY DEF Ready, NotReady
<1>3. QED
  BY <1>1, <1>2

\* The matrix gate passes only when nothing is undetected.
LEMMA ExploitGatePasses ==
  ASSUME NEW matrix, ExploitGate(matrix) = Pass
  PROVE  matrix.undetected = {}
BY DEF ExploitGate, Gate, Pass, Fail

\* The files of one command do not touch those of another.
LEMMA CommandFilesApart ==
  ASSUME NEW c, NEW d, c # d
  PROVE  {Recorded(d), Output(d), ExitFile(d)} \cap FilesOf(c) = {}
BY NamesTell, KindsOfNamesDiffer DEF FilesOf

\* A command adds its own files to those the run has left.
LEMMA CommandLeft ==
  ASSUME Types, NEW i \in Runs, OwnEvidence(i), ~ run[i].failed, RunCommand(i)
  PROVE  \A d \in Commands \ run'[i].todo :
           /\ {Recorded(d), Output(d), ExitFile(d)} \subseteq DOMAIN review'
           /\ review'[Recorded(d)] =
                CommandReceipt(i, review'[Output(d)], review'[ExitFile(d)].code, "review")
<1> DEFINE c == NextCommand(i)
<1>1. /\ c \in Commands /\ c \in run[i].todo
      /\ DOMAIN review' = DOMAIN review \cup FilesOf(c)
      /\ review'[Recorded(c)] =
           CommandReceipt(i, review'[Output(c)], review'[ExitFile(c)].code, "review")
      /\ \A n \in DOMAIN review \ FilesOf(c) : review'[n] = review[n]
      /\ run'[i].todo = run[i].todo \ {c}
  BY CommandWrites
<1>2. run[i].at = "commands"
  BY StepsAtStages
<1> HIDE DEF c
<1> SUFFICES ASSUME NEW d \in Commands \ run'[i].todo
             PROVE  /\ {Recorded(d), Output(d), ExitFile(d)} \subseteq DOMAIN review'
                    /\ review'[Recorded(d)] =
                         CommandReceipt(i, review'[Output(d)], review'[ExitFile(d)].code, "review")
  OBVIOUS
<1>3. CASE d = c
  BY <1>1, <1>3 DEF FilesOf
<1>4. CASE d # c
  <2>1. d \in Commands \ run[i].todo
    BY <1>1, <1>4
  <2>2. /\ {Recorded(d), Output(d), ExitFile(d)} \subseteq DOMAIN review
        /\ review[Recorded(d)] =
             CommandReceipt(i, review[Output(d)], review[ExitFile(d)].code, "review")
    BY <1>2, <2>1 DEF OwnEvidence
  <2>3. {Recorded(d), Output(d), ExitFile(d)} \cap FilesOf(c) = {}
    BY <1>4, CommandFilesApart
  <2>4. /\ review'[Recorded(d)] = review[Recorded(d)]
        /\ review'[Output(d)] = review[Output(d)]
        /\ review'[ExitFile(d)] = review[ExitFile(d)]
    BY <1>1, <2>2, <2>3
  <2>5. QED
    BY <1>1, <2>2, <2>4
<1>5. QED
  BY <1>3, <1>4

\* A pipeline that goes on still has its own evidence in the directory.
LEMMA OwnStepKeepsEvidence ==
  ASSUME Types, OneByOne, Settling, ~ overlapped,
         NEW i \in Runs, OwnEvidence(i), i \in Pipelines, Step(i) \/ CommandStageFails(i) \/ Crash(i),
         run'[i].at # "ended"
  PROVE  OwnEvidence(i)'
<1> USE StageSets
<1>1. Kept(i) /\ run[i].at \in Stages /\ run[i].at # "new"
  BY RunTyped, NobodyStarts DEF Stages
<1>2. Last(i)
  BY <1>1, ActiveIsLast DEF Pipelines, Last
<1>3. /\ Past(i, EvidenceWritten) => EvidenceIn(review)
      /\ Past(i, AttacksRun) => AttacksIn(review)
      /\ Past(i, ProvenanceWritten) => ProvenanceIn(review)
      /\ Past(i, CandidateWritten) => CandidateIn(review)
  BY <1>2 DEF Settling
<1>4. run'[i].refs = run[i].refs
  BY <1>1 DEF Kept
<1>5. CASE RunCommand(i)
  <2>1. /\ run'[i].failed = run[i].failed
        /\ run'[i].at = "evidence" => run'[i].todo = {}
    BY <1>5, CommandWrites
  <2>2. run[i].at = "commands" /\ run'[i].at \in {"commands", "evidence"}
    BY <1>5, StepsAtStages, Moves
  <2>3. ~ run[i].failed => \A d \in Commands \ run'[i].todo :
          /\ {Recorded(d), Output(d), ExitFile(d)} \subseteq DOMAIN review'
          /\ review'[Recorded(d)] =
               CommandReceipt(i, review'[Output(d)], review'[ExitFile(d)].code, "review")
    BY <1>5, CommandLeft
  <2>4. QED
    BY <2>1, <2>2, <2>3 DEF OwnEvidence
<1>6. CASE CommandStageFails(i)
  <2>1. run'[i].failed
    BY <1>6, FailedCommandWrites
  <2>2. run'[i].at = "evidence"
    BY <1>6, Moves
  <2>3. QED
    BY <2>1, <2>2 DEF OwnEvidence
<1>7. CASE WriteEvidence(i)
  <2>1. run[i].at = "evidence" /\ run'[i].at = "attacks"
    BY <1>7, StepsAtStages, Moves
  <2>2. ~ run[i].failed => LeftBy(i, review)
    BY <2>1 DEF OwnEvidence, LeftBy
  <2>3. ~ run[i].failed => Heard(i)'
    BY <1>7, <2>2, EvidenceIsHeard
  <2>4. run'[i].failed = run[i].failed
    BY <1>7, GatesJudged
  <2>5. review'[Summary].run = i
    <3>1. review'[Summary] = VerificationSummary(review, i)
      BY <1>7, EvidenceWrites
    <3>2. VerificationSummary(review, i).run = i
      BY DEF VerificationSummary
    <3>3. QED
      BY <3>1, <3>2
  <2>6. QED
    BY <2>1, <2>3, <2>4, <2>5 DEF OwnEvidence
<1>8. CASE RunAttacks(i)
  <2>1. run[i].at = "attacks" /\ run'[i].at = "scm"
    BY <1>8, StepsAtStages, Moves
  <2>2. EvidenceIn(review) /\ review[Summary].run = i /\ (~ run[i].failed => Heard(i))
    BY <1>3, <2>1, Behind DEF OwnEvidence
  <2>3. review'[Summary] = review[Summary] /\ review'[TestManifest] = review[TestManifest]
    BY <1>8, <2>2, AttacksWrite, SinglesDiffer DEF EvidenceIn
  <2>4. /\ run'[i].gates["test_evidence"] = run[i].gates["test_evidence"]
        /\ run'[i].gates["implementation"] = run[i].gates["implementation"]
        /\ run'[i].failed = run[i].failed
        /\ run'[i].gates["negative_exploit"] = ExploitGate(review'[Matrix])
    BY <1>8, GatesStay, AttacksWrite DEF GateNames
  <2>5. ~ run[i].failed => Heard(i)'
    BY <2>2, <2>3, <2>4, HeardStays
  <2>6. run'[i].gates["negative_exploit"] = Pass => review'[Matrix].undetected = {}
    BY <2>4, ExploitGatePasses
  <2>7. QED
    BY <2>1, <2>2, <2>3, <2>4, <2>5, <2>6 DEF OwnEvidence
<1>9. CASE WriteScm(i)
  <2>1. run[i].at = "scm" /\ run'[i].at = "candidate"
    BY <1>9, StepsAtStages, Moves
  <2>2. /\ EvidenceIn(review) /\ AttacksIn(review) /\ review[Summary].run = i
        /\ ~ run[i].failed => Heard(i)
        /\ run[i].gates["negative_exploit"] = Pass => review[Matrix].undetected = {}
    BY <1>3, <2>1, Behind DEF OwnEvidence
  <2>3. /\ review'[Report].run = i
        /\ \A r \in Repos : review'[Scm(r)].commit = run[i].refs[r]
        /\ \A n \in DOMAIN review \ Provenance : review'[n] = review[n]
    BY <1>9, ScmWrites
  <2>4. /\ review'[Summary] = review[Summary] /\ review'[TestManifest] = review[TestManifest]
        /\ review'[Matrix] = review[Matrix]
    BY <2>2, <2>3, SinglesDiffer, TestEvidenceNames DEF EvidenceIn, AttacksIn, Singles
  <2>5. run'[i].gates = run[i].gates /\ run'[i].failed = run[i].failed
    BY <1>9, GatesStay
  <2>6. ~ run[i].failed => Heard(i)'
    BY <2>2, <2>4, <2>5, HeardStays
  <2>7. QED
    BY <1>4, <2>1, <2>2, <2>3, <2>4, <2>5, <2>6 DEF OwnEvidence
<1>10. CASE WriteCandidate(i)
  <2>1. run[i].at = "candidate" /\ run'[i].at = "index"
    BY <1>10, StepsAtStages, Moves
  <2>2. /\ EvidenceIn(review) /\ AttacksIn(review) /\ ProvenanceIn(review)
        /\ review[Summary].run = i /\ (~ run[i].failed => Heard(i))
        /\ run[i].gates["negative_exploit"] = Pass => review[Matrix].undetected = {}
    BY <1>3, <2>1, Behind DEF OwnEvidence
  <2>3. /\ review'[State] = CandidateState(run[i].gates, FALSE).state
        /\ \A n \in DOMAIN review \ {State, GateSummary, Decision} : review'[n] = review[n]
    BY <1>10, CandidateWrites
  <2>4. /\ review'[Summary] = review[Summary] /\ review'[TestManifest] = review[TestManifest]
        /\ review'[Matrix] = review[Matrix]
    BY <2>2, <2>3, SinglesDiffer DEF EvidenceIn, AttacksIn
  <2>5. /\ review'[Report] = review[Report]
        /\ \A r \in Repos : review'[Scm(r)] = review[Scm(r)]
    BY <2>2, <2>3, TestEvidenceNames, SinglesDiffer, KindsOfNamesDiffer DEF ProvenanceIn, Singles
  <2>6. run'[i].gates = run[i].gates /\ run'[i].failed = run[i].failed
    BY <1>10, GatesStay
  <2>7. ~ run[i].failed => Heard(i)'
    BY <2>2, <2>4, <2>6, HeardStays
  <2>8. review'[State].status = Ready => \A g \in GateNames : run'[i].gates[g] = Pass
    BY <2>3, <2>6, ReadyMeansAllPass
  <2>9. review[Report].run = i /\ \A r \in Repos : review[Scm(r)].commit = run[i].refs[r]
    BY <2>1 DEF OwnEvidence
  <2>10. QED
    BY <1>4, <2>1, <2>2, <2>4, <2>5, <2>6, <2>7, <2>8, <2>9 DEF OwnEvidence
<1>11. CASE WriteIndex(i) \/ WritePackage(i) \/ CheckPackage(i)
  <2>1. run[i].at \in CandidateWritten /\ run'[i].at \in CandidateWritten
    BY <1>11, StepsAtStages, Moves
  <2>2. EvidenceIn(review) /\ AttacksIn(review) /\ ProvenanceIn(review) /\ CandidateIn(review)
    BY <1>3, <2>1, Behind
  <2>3. \A n \in DOMAIN review \ {Index} : review'[n] = review[n]
    BY <1>11, IndexWrites, OthersDoNotWrite
  <2>4. /\ review'[Summary] = review[Summary] /\ review'[TestManifest] = review[TestManifest]
        /\ review'[State] = review[State] /\ review'[Report] = review[Report]
        /\ review'[Matrix] = review[Matrix]
    BY <2>2, <2>3, SinglesDiffer DEF EvidenceIn, AttacksIn, ProvenanceIn, CandidateIn
  <2>5. \A r \in Repos : review'[Scm(r)] = review[Scm(r)]
    BY <2>2, <2>3, KindsOfNamesDiffer DEF ProvenanceIn, Singles
  <2>6. run'[i].gates = run[i].gates /\ run'[i].failed = run[i].failed
    BY <1>11, GatesStay
  <2>7. ~ run[i].failed => Heard(i)'
    BY <2>1, <2>4, <2>6, HeardStays DEF OwnEvidence
  <2>8. QED
    BY <1>4, <2>1, <2>4, <2>5, <2>6, <2>7 DEF OwnEvidence
<1>12. CASE AttacksRaise(i) \/ WriteSidecar(i) \/ Crash(i)
  BY <1>12, Moves
<1>13. QED
  BY <1>5, <1>6, <1>7, <1>8, <1>9, <1>10, <1>11, <1>12 DEF Step

\* Only one step writes the index, and only one the package.
LEMMA IndexStays ==
  ASSUME Types, NEW i \in Runs, Start(i) \/ Step(i) \/ CommandStageFails(i) \/ Crash(i), ~ WriteIndex(i)
  PROVE  /\ Index \in DOMAIN review' => Index \in DOMAIN review
         /\ Index \in DOMAIN review => review'[Index] = review[Index]
<1>1. CASE RunCommand(i) \/ CommandStageFails(i)
  <2>1. Index \notin FilesOf(NextCommand(i))
    BY KindsOfNamesDiffer DEF FilesOf, Singles
  <2>2. /\ DOMAIN review \subseteq DOMAIN review'
        /\ DOMAIN review' \subseteq DOMAIN review \cup FilesOf(NextCommand(i))
        /\ \A n \in DOMAIN review \ FilesOf(NextCommand(i)) : review'[n] = review[n]
    <3>1. CASE RunCommand(i)
      BY <3>1, CommandWrites
    <3>2. CASE CommandStageFails(i)
      BY <3>2, FailedCommandWrites
    <3>3. QED
      BY <1>1, <3>1, <3>2
  <2>3. QED
    BY <2>1, <2>2
<1>2. CASE WriteEvidence(i)
  BY <1>2, EvidenceWrites, SinglesDiffer
<1>3. CASE RunAttacks(i)
  BY <1>3, AttacksWrite, SinglesDiffer
<1>4. CASE WriteScm(i)
  BY <1>4, ScmWrites, SinglesDiffer, TestEvidenceNames DEF Singles
<1>5. CASE WriteCandidate(i)
  BY <1>5, CandidateWrites, SinglesDiffer
<1>6. CASE Start(i) \/ AttacksRaise(i) \/ WritePackage(i) \/ CheckPackage(i) \/ WriteSidecar(i) \/ Crash(i)
  BY <1>6, OthersDoNotWrite
<1>7. QED
  BY <1>1, <1>2, <1>3, <1>4, <1>5, <1>6 DEF Step

\* A run that has ended does nothing more.
LEMMA EndedStays ==
  ASSUME Types, NEW i \in Runs, Start(i) \/ Step(i) \/ CommandStageFails(i) \/ Crash(i),
         NEW k \in Runs, run[k].at = "ended"
  PROVE  run'[k] = run[k]
<1>1. Kept(i)
  BY RunTyped
<1>2. run[i].at # "ended"
  <2>1. CASE Start(i)
    BY <2>1 DEF Start, Started
  <2>2. CASE Step(i) \/ CommandStageFails(i) \/ Crash(i)
    BY <2>2, NobodyStarts DEF Stages
  <2>3. QED
    BY <2>1, <2>2
<1>3. QED
  BY <1>1, <1>2 DEF Kept

\* What an index says of a run that was started stays true.
LEMMA EarnedStays ==
  ASSUME Types, NEW i \in Runs, Start(i) \/ Step(i) \/ CommandStageFails(i) \/ Crash(i),
         NEW idx, Earned(idx, run)
  PROVE  Earned(idx, run')
<1>1. Kept(i)
  BY RunTyped
<1>2. \A k \in Runs : run[k].at # "new" => run'[k].at # "new" /\ run'[k].refs = run[k].refs
  BY <1>1 DEF Kept
<1>3. \A k \in Runs : Unearned(k, run) => Unearned(k, run')
  BY EndedStays DEF Unearned
<1>4. QED
  BY <1>2, <1>3 DEF Earned

\* The index a pipeline writes is of its own evidence; a pipeline whose command
\* stage failed ends not ok.
LEMMA IndexIsEarned ==
  ASSUME Types, OneByOne, Settling, ~ overlapped, NEW i \in Runs, i \in Pipelines,
         OwnEvidence(i), WriteIndex(i)
  PROVE  Earned(review'[Index], run')
<1>1. run[i].at = "index" /\ run[i].at \in Stages
  BY StepsAtStages DEF Stages
<1>2. /\ review[Summary].run = i
      /\ run[i].gates["negative_exploit"] = Pass => review[Matrix].undetected = {}
      /\ review[Report].run = i /\ \A r \in Repos : review[Scm(r)].commit = run[i].refs[r]
      /\ review[State].status = Ready => \A g \in GateNames : run[i].gates[g] = Pass
      /\ ~ run[i].failed => Heard(i)
  BY <1>1, StageSets DEF OwnEvidence
<1>3. review'[Index] = BuildIndex(review)
  BY IndexWrites
<1> DEFINE idx == review'[Index]
<1>4. \A n \in Indexed : Listing(idx, n) = review[n]
  BY <1>3, ShaContent DEF Listing, BuildIndex
<1> HIDE DEF idx
<1>5. /\ {State, Summary, TestManifest, Report, Matrix} \subseteq Indexed
      /\ \A r \in Repos : Scm(r) \in Indexed
  BY DEF Indexed
<1>6. run'[i].at # "new" /\ run'[i].refs = run[i].refs
  BY <1>1, RunTyped DEF Kept, Step, Stages
<1>7. review[State].status = Ready =>
        /\ run[i].gates["test_evidence"] = Pass /\ run[i].gates["implementation"] = Pass
        /\ run[i].gates["negative_exploit"] = Pass
  BY <1>2 DEF GateNames
<1>8. run[i].failed => Unearned(i, run')
  <2> SUFFICES ASSUME run[i].failed PROVE Unearned(i, run')
    OBVIOUS
  <2>1. ~ PipelineOk(i)
    BY DEF PipelineOk
  <2>2. Finish(i, "not ok")
    BY <2>1, Zenon DEF WriteIndex
  <2>3. QED
    BY <2>2 DEF Finish, Unearned, Types
<1>9. ~ run[i].failed /\ review[State].status = Ready =>
        LET e == review[TestManifest].entries IN
        EntriesAreOf(e, i) /\ CheckersPassed(e) /\ PytestPassed(e)
  BY <1>2, <1>7 DEF Heard
<1>10. /\ Listing(idx, Summary) = review[Summary] /\ Listing(idx, State) = review[State]
       /\ Listing(idx, TestManifest) = review[TestManifest]
       /\ Listing(idx, Report) = review[Report] /\ Listing(idx, Matrix) = review[Matrix]
       /\ \A r \in Repos : Listing(idx, Scm(r)) = review[Scm(r)]
  BY <1>4, <1>5
<1>11. Earned(idx, run')
  BY <1>2, <1>6, <1>7, <1>8, <1>9, <1>10 DEF Earned
<1>12. QED
  BY <1>11 DEF idx

LEMMA RunStepEarning ==
  ASSUME Types, OneByOne, Settling, Earning,
         NEW i \in Runs, Start(i) \/ Step(i) \/ CommandStageFails(i) \/ Crash(i)
  PROVE  Earning'
<1> SUFFICES ASSUME ~ overlapped'
             PROVE  /\ \A k \in Active' \cap Pipelines' : OwnEvidence(k)'
                    /\ Index \in DOMAIN review' => Earned(review'[Index], run')
                    /\ out' # None /\ Index \in DOMAIN out'.members => Earned(out'.members[Index], run')
  BY DEF Earning
<1>1. Kept(i)
  BY RunTyped
<1>2. ~ overlapped
  BY StartsAfter, NobodyStarts
<1>4. \A k \in Active' \cap Pipelines' : OwnEvidence(k)'
  <2> SUFFICES ASSUME NEW k \in Active' \cap Pipelines' PROVE OwnEvidence(k)'
    OBVIOUS
  <2>1. k \in Runs /\ run'[k].at \notin {"new", "ended"} /\ run'[k].kind # "given"
    BY DEF Active, Pipelines, Started
  <2>2. CASE Start(i)
    <3>1. review' = review /\ Kept(i)
      BY <1>1, <2>2, OthersDoNotWrite
    <3>2. CASE k = i
      <4>1. PICK kind \in Kinds, refs \in [Repos -> Versions] :
          run' = [run EXCEPT ![i] =
            [kind |-> kind, refs |-> refs, todo |-> Commands, failed |-> FALSE,
             gates |-> AllPass, at |-> IF kind = "given" THEN "payload" ELSE "commands"]]
        BY <2>2 DEF Start
      <4>2. run'[i].todo = Commands
        BY <4>1 DEF Types
      <4>3. run'[i].at = "commands"
        BY <2>1, <2>2, <3>2, StartsAfter
      <4>4. QED
        BY <3>2, <4>2, <4>3, StageSets DEF OwnEvidence
    <3>3. CASE k # i
      <4>1. run'[k] = run[k] /\ k \in Active \cap Pipelines
        BY <2>1, <3>1, <3>3 DEF Kept, Active, Pipelines, Started
      <4>2. OwnEvidence(k)
        BY <1>2, <4>1 DEF Earning
      <4>3. QED
        BY <3>1, <4>1, <4>2 DEF OwnEvidence, Heard
    <3>4. QED
      BY <3>2, <3>3
  <2>3. CASE Step(i) \/ CommandStageFails(i) \/ Crash(i)
    <3>1. run[i].at \in Stages /\ Started' = Started /\ Pipelines' = Pipelines
      BY <2>3, NobodyStarts
    <3>2. k \in Active /\ k \in Pipelines
      BY <1>1, <2>1, <3>1 DEF Kept, Active, Stages
    <3>3. OwnEvidence(k)
      BY <1>2, <3>2 DEF Earning
    <3>4. CASE k = i
      BY <1>2, <2>1, <2>3, <3>2, <3>3, <3>4, OwnStepKeepsEvidence
    <3>5. CASE k # i
      <4>1. review' = review /\ run'[k] = run[k]
        BY <1>2, <2>3, <3>2, <3>5, OthersStep
      <4>2. QED
        BY <3>3, <4>1 DEF OwnEvidence, Heard
    <3>6. QED
      BY <3>4, <3>5
  <2>4. QED
    BY <2>2, <2>3
<1>5. Index \in DOMAIN review' => Earned(review'[Index], run')
  <2>1. CASE WriteIndex(i)
    <3>1. run[i].at = "index"
      BY <2>1, StepsAtStages
    <3>2. i \in Active /\ i \in Pipelines
      BY <1>2, <3>1, ActiveIsLast, WritersArePipelines, StageSets DEF Active, Stages
    <3>3. OwnEvidence(i)
      BY <1>2, <3>2 DEF Earning
    <3>4. QED
      BY <1>2, <2>1, <3>2, <3>3, IndexIsEarned
  <2>2. CASE ~ WriteIndex(i)
    <3>1. SUFFICES ASSUME Index \in DOMAIN review' PROVE Earned(review'[Index], run')
      OBVIOUS
    <3>2. Index \in DOMAIN review /\ review'[Index] = review[Index]
      BY <2>2, <3>1, IndexStays
    <3>3. Earned(review[Index], run)
      BY <1>2, <3>2 DEF Earning
    <3>4. QED
      BY <3>2, <3>3, EarnedStays
  <2>3. QED
    BY <2>1, <2>2
<1>6. out' # None /\ Index \in DOMAIN out'.members => Earned(out'.members[Index], run')
  <2> SUFFICES ASSUME out' # None, Index \in DOMAIN out'.members PROVE Earned(out'.members[Index], run')
    OBVIOUS
  <2>1. CASE WritePackage(i)
    <3>1. out' = BuildPackage(review, run[i].refs)
      BY <2>1, Zenon DEF WritePackage
    <3>2. Index \in DOMAIN review /\ out'.members[Index] = review[Index]
      <4>1. Index \notin {Source(r) : r \in Repos}
        BY KindsOfNamesDiffer DEF Singles
      <4>2. QED
        BY <3>1, <4>1 DEF BuildPackage, PackageOf, Overlay
    <3>3. Earned(review[Index], run)
      BY <1>2, <3>2 DEF Earning
    <3>4. QED
      BY <3>2, <3>3, EarnedStays
  <2>2. CASE ~ WritePackage(i)
    <3>1. out' = out
      BY <2>2, OutOnlyBuilt
    <3>2. Earned(out.members[Index], run)
      BY <1>2, <3>1 DEF Earning
    <3>3. QED
      BY <3>1, <3>2, EarnedStays
  <2>3. QED
    BY <2>1, <2>2
<1>7. QED
  BY <1>4, <1>5, <1>6

-----------------------------------------------------------------------------
(* The attacks                                                             *)

LEMMA ContentsDiffer == Original # Tampered /\ Sha(Original) # Sha(Tampered)
<1>1. Original.text = "original" /\ Tampered.text = "tampered"
  BY DEF Original, Tampered
<1>2. QED
  BY <1>1, ShaInjective

\* The attacks on index, manifests and receipts are refused.
LEMMA FilesDefended ==
  HashLengthInvalid /\ HashMismatch /\ TestEvidenceFileMissing /\ TestEvidenceHashMismatch
    /\ ReceiptMissing /\ ReceiptSchemaInvalid /\ OutputHashMismatch
<1>1. State \in Indexed
  BY DEF Indexed
<1>2. Output("pytest") \in TestEvidence
  BY CommandsAssumption DEF TestEvidence
<1>3. HashLengthInvalid
  BY <1>1 DEF HashLengthInvalid, IndexLoads
<1>4. HashMismatch
  <2> DEFINE idx == BuildIndex(SomeDir)
             new == [SomeDir EXCEPT ![State] = Tampered]
  <2>1. idx.hashes[State] = Sha(Original) /\ new[State] = Tampered
    BY <1>1 DEF BuildIndex, SomeDir
  <2> HIDE DEF idx, new
  <2>2. ~ VerifyIndex(idx, new)
    BY <1>1, <2>1, ContentsDiffer DEF VerifyIndex
  <2>3. QED
    BY <2>2 DEF HashMismatch, idx, new
<1>5. TestEvidenceFileMissing
  BY DEF TestEvidenceFileMissing, VerifyTestEvidence
<1>6. TestEvidenceHashMismatch
  <2> DEFINE written == [n \in {Output("pytest")} |-> Original]
             m == TestEvidenceManifest(written)
             new == [written EXCEPT ![Output("pytest")] = Tampered]
  <2>1. m.entries[Output("pytest")] = Sha(Original) /\ Output("pytest") \in DOMAIN m.entries
    BY <1>2 DEF TestEvidenceManifest
  <2>2. new[Output("pytest")] = Tampered
    OBVIOUS
  <2> HIDE DEF m, new
  <2>3. ~ VerifyTestEvidence(m, new)
    BY <2>1, <2>2, ContentsDiffer DEF VerifyTestEvidence
  <2>4. QED
    BY <2>3 DEF TestEvidenceHashMismatch, m, new
<1>7. ReceiptMissing
  <2>1. \A c : ~ ReceiptHolds(<< >>, c)
    BY DEF ReceiptHolds
  <2>2. DOMAIN CommandEvidenceManifest(<< >>).valid = {}
    BY <2>1 DEF CommandEvidenceManifest
  <2>3. QED
    BY <2>2, CommandsAssumption DEF ReceiptMissing
<1>8. ReceiptSchemaInvalid
  BY DEF ReceiptSchemaInvalid, ReceiptIsValid
<1>9. OutputHashMismatch
  <2> DEFINE written == [n \in {<<"pytest", "output">>, Receipt("pytest")} |->
                    IF n = Receipt("pytest") THEN CommandReceipt(0, Original, 0, "receipts")
                    ELSE Tampered]
  <2>1. DOMAIN written = {<<"pytest", "output">>, Receipt("pytest")}
    OBVIOUS
  <2>2. Output("pytest") \notin DOMAIN written /\ Receipt("pytest") \in DOMAIN written
    BY <2>1, KindsOfNamesDiffer DEF Output
  <2> HIDE DEF written
  <2>3. ~ ReceiptHolds(written, "pytest")
    BY <2>2 DEF ReceiptHolds
  <2>4. "pytest" \in CommandEvidenceManifest(written).invalid
    BY <2>2, <2>3, CommandsAssumption DEF CommandEvidenceManifest
  <2>5. QED
    BY <2>4 DEF OutputHashMismatch, written
<1>10. QED
  BY <1>3, <1>4, <1>5, <1>6, <1>7, <1>8, <1>9

\* The package of attacks 8 and 14 carries no command receipt.
LEMMA AttackZipRefused ==
  ASSUME NEW summary, NEW gates
  PROVE  ~ Semantic(AttackZip(summary, gates))
<1>1. DOMAIN AttackZip(summary, gates).members = RequiredJson \cup {State, Summary, GateSummary, Decision}
  BY DEF AttackZip, PackageOf, Overlay
<1>2. Receipt("pytest") \notin RequiredJson \cup {State, Summary, GateSummary, Decision}
  BY KindsOfNamesDiffer DEF RequiredJson, Indexed, Singles
<1>3. QED
  BY <1>1, <1>2, CommandsAssumption DEF Semantic, PackagedReceiptHolds

LEMMA PackagesDefended ==
  SummaryLogMismatch /\ GateSummaryPending /\ LocationCountMismatch(CleanScratch) /\ ZipMutation
<1>1. SummaryLogMismatch /\ GateSummaryPending
  BY AttackZipRefused DEF SummaryLogMismatch, GateSummaryPending
<1>2. LocationCountMismatch(CleanScratch)
  <2>1. <<"c">> \notin {<<"a">>, <<"b">>}
    OBVIOUS
  <2>2. ~ CleanScratch.census
    BY DEF CleanScratch
  <2>3. QED
    BY <2>1, <2>2 DEF LocationCountMismatch, VerifyReviewLocation, ReviewLocation
<1>3. ZipMutation
  <2> DEFINE sealed == PackageOf([n \in {<<"f">>} |-> Original], {})
             changed == [sealed EXCEPT !.members = [n \in {<<"f">>, <<"extra">>} |-> Original]]
  <2>1. DOMAIN changed.members = {<<"f">>, <<"extra">>} /\ DOMAIN changed.declared = {<<"f">>}
    BY DEF PackageOf
  <2>2. <<"extra">> # <<"f">>
    OBVIOUS
  <2> HIDE DEF changed
  <2>3. ~ Structural(changed)
    BY <2>1, <2>2 DEF Structural
  <2>4. QED
    BY <2>3 DEF ZipMutation, changed
<1>4. QED
  BY <1>1, <1>2, <1>3

LEMMA StatesDefended ==
  CommitMismatch /\ TreeMismatch /\ WorkingTreeInjection /\ PhaseMismatch /\ DecisionContradiction
    /\ PassInjection /\ P3WithReviewPending
<1>1. CommitMismatch /\ TreeMismatch /\ WorkingTreeInjection /\ PhaseMismatch
  BY DEF CommitMismatch, TreeMismatch, WorkingTreeInjection, PhaseMismatch, RefExists, GitSnapshot,
         PhaseAccepted, CurrentPhase, OldPhase
<1>2. DecisionContradiction
  <2> DEFINE candidate == CandidateState(AllPass, FALSE)
             wrong == [candidate.state EXCEPT !.status = "WRONG_STATUS"]
  <2>1. wrong.status = "WRONG_STATUS"
    BY DEF CandidateState
  <2> HIDE DEF wrong
  <2>2. ~ CandidateIsConsistent(wrong, candidate.summary, candidate.decision)
    BY <2>1 DEF CandidateIsConsistent, Ready, NotReady
  <2>3. QED
    BY <2>2 DEF DecisionContradiction, wrong
<1>3. PassInjection
  <2> DEFINE gates == [AllPass EXCEPT !["scm_snapshot_binding"] = Fail]
  <2>1. "scm_snapshot_binding" \in GateNames /\ gates["scm_snapshot_binding"] # Pass
    BY DEF AllPass, GateNames, Pass, Fail
  <2> HIDE DEF gates
  <2>2. CandidateState(gates, FALSE).summary.terminal = Fail
    BY <2>1 DEF CandidateState, Gate
  <2>3. QED
    BY <2>2 DEF PassInjection, gates
<1>4. P3WithReviewPending
  BY DEF P3WithReviewPending, CandidateState
<1>5. QED
  BY <1>1, <1>2, <1>3, <1>4

\* With a clean scratch directory no attack goes undetected.
LEMMA AllDetected == ExploitMatrix(CleanScratch).undetected = {}
<1>1. \A a \in Attacks : Detected[a]
  <2>1. Detected = <<TRUE, TRUE, TRUE, TRUE, TRUE, TRUE, TRUE, TRUE, TRUE,
                     TRUE, TRUE, TRUE, TRUE, TRUE, TRUE, TRUE, TRUE, TRUE>>
    BY FilesDefended, PackagesDefended, StatesDefended DEF Detected
  <2>2. \A a \in 1..18 : Detected[a] = TRUE
    <3>1. /\ Detected[1] = TRUE /\ Detected[2] = TRUE /\ Detected[3] = TRUE /\ Detected[4] = TRUE
          /\ Detected[5] = TRUE /\ Detected[6] = TRUE /\ Detected[7] = TRUE /\ Detected[8] = TRUE
          /\ Detected[9] = TRUE /\ Detected[10] = TRUE /\ Detected[11] = TRUE /\ Detected[12] = TRUE
          /\ Detected[13] = TRUE /\ Detected[14] = TRUE /\ Detected[15] = TRUE /\ Detected[16] = TRUE
          /\ Detected[17] = TRUE /\ Detected[18] = TRUE
      BY <2>1
    <3>2. \A a \in 1..18 : a \in {1, 2, 3, 4, 5, 6, 7, 8, 9, 10, 11, 12, 13, 14, 15, 16, 17, 18}
      OBVIOUS
    <3>3. QED
      BY <3>1, <3>2
  <2>3. QED
    BY <2>2 DEF Attacks
<1>2. QED
  BY <1>1, PackagesDefended DEF ExploitMatrix

\* And whatever lies in the scratch directory, only the one on the census can.
LEMMA MostDetected ==
  ASSUME NEW scratch
  PROVE  ExploitMatrix(scratch).undetected \subseteq {LocationAttack}
<1>1. {a \in Attacks : ~ Detected[a]} = {}
  BY AllDetected DEF ExploitMatrix
<1>2. QED
  BY <1>1 DEF ExploitMatrix

\* The C3-R1 form of a package is accepted, and none of its six mutants is.
LEMMA EveryMutantRefused ==
  ASSUME NEW members, NEW m0 \in DOMAIN members,
         {<<"manifest">>, <<"undeclared">>, <<"absent">>} \cap DOMAIN members = {},
         \A n \in DOMAIN members : members[n] # Tampered
  PROVE  MutantsDetected(members)
<1> DEFINE clean == BuildC3R1(members)
<1>1. /\ clean.members = members /\ clean.declared = [n \in DOMAIN members |-> Sha(members[n])]
      /\ clean.count = Cardinality(DOMAIN members) /\ clean.twice = {} /\ clean.manifests = 1
      /\ clean.odd = {} /\ clean.self = "manifest"
      /\ DOMAIN clean = {"members", "declared", "count", "twice", "manifests", "odd", "self"}
  BY DEF BuildC3R1, PackageOf
<1> HIDE DEF clean
<1>2. DOMAIN clean.declared = DOMAIN members
  BY <1>1
<1>3. VerifyC3R1(clean)
  BY <1>1, <1>2 DEF VerifyC3R1, Structural, SelfEntryIsRight
<1>4. ~ VerifyC3R1(WrongTarget(clean))
  BY <1>1 DEF WrongTarget, VerifyC3R1, SelfEntryIsRight
<1>5. ~ VerifyC3R1(NoSelfEntry(clean))
  BY <1>1 DEF NoSelfEntry, VerifyC3R1, SelfEntryIsRight
<1>6. ~ VerifyC3R1(UndeclaredMember(clean))
  <2>1. <<"undeclared">> \in DOMAIN UndeclaredMember(clean).members
    BY <1>1 DEF UndeclaredMember, Overlay
  <2>2. UndeclaredMember(clean).declared = clean.declared
    BY <1>1 DEF UndeclaredMember
  <2>3. QED
    BY <1>2, <2>1, <2>2 DEF VerifyC3R1, Structural
<1>7. ~ VerifyC3R1(AbsentMember(clean))
  <2>1. <<"absent">> \in DOMAIN AbsentMember(clean).declared
    BY <1>1 DEF AbsentMember, Overlay
  <2>2. AbsentMember(clean).members = members
    BY <1>1 DEF AbsentMember
  <2>3. QED
    BY <2>1, <2>2 DEF VerifyC3R1, Structural
<1>8. ~ VerifyC3R1(WrongDigest(clean))
  <2> DEFINE n == CHOOSE x \in DOMAIN clean.declared : TRUE
  <2>1. n \in DOMAIN members
    BY <1>2
  <2> HIDE DEF n
  <2>2. /\ WrongDigest(clean).members = members
        /\ WrongDigest(clean).declared[n] = Sha(Tampered)
    BY <1>1, <1>2, <2>1 DEF WrongDigest, n
  <2>3. Sha(Tampered) # Sha(members[n])
    BY <2>1, ShaInjective
  <2>4. QED
    BY <2>1, <2>2, <2>3 DEF VerifyC3R1, Structural
<1>9. ~ VerifyC3R1(WrittenTwice(clean))
  BY <1>1 DEF WrittenTwice, VerifyC3R1, Structural
<1>10. \A i \in 1..6 : ~ VerifyC3R1(Mutants(clean)[i])
  <2> SUFFICES ASSUME NEW i \in 1..6 PROVE ~ VerifyC3R1(Mutants(clean)[i])
    OBVIOUS
  <2>1. /\ Mutants(clean)[1] = WrongTarget(clean) /\ Mutants(clean)[2] = NoSelfEntry(clean)
        /\ Mutants(clean)[3] = UndeclaredMember(clean) /\ Mutants(clean)[4] = AbsentMember(clean)
        /\ Mutants(clean)[5] = WrongDigest(clean) /\ Mutants(clean)[6] = WrittenTwice(clean)
    BY DEF Mutants
  <2>2. i = 1 \/ i = 2 \/ i = 3 \/ i = 4 \/ i = 5 \/ i = 6
    OBVIOUS
  <2>3. QED
    BY <1>4, <1>5, <1>6, <1>7, <1>8, <1>9, <2>1, <2>2
<1>11. QED
  BY <1>3, <1>10 DEF MutantsDetected, clean

\* Faults are only added.
LEMMA FaultsGrow ==
  ASSUME Types, NEW i \in Runs, Start(i) \/ Step(i) \/ CommandStageFails(i) \/ Crash(i)
  PROVE  faults' = 0 => faults = 0
<1>1. CASE RunAttacks(i)
  BY <1>1, AttacksWrite
<1>2. CASE CommandStageFails(i) \/ Crash(i)
  BY <1>2 DEF CommandStageFails, Crash, Types
<1>3. CASE Start(i) \/ RunCommand(i) \/ WriteEvidence(i) \/ AttacksRaise(i) \/ WriteScm(i) \/ WriteCandidate(i)
  BY <1>3 DEF Start, RunCommand, WriteEvidence, AttacksRaise, WriteScm, WriteCandidate, observed
<1>4. CASE WriteIndex(i) \/ WritePackage(i) \/ CheckPackage(i) \/ WriteSidecar(i)
  <2>1. UNCHANGED observed
    BY <1>4, Zenon DEF WriteIndex, WritePackage, CheckPackage, WriteSidecar
  <2>2. QED
    BY <2>1 DEF observed
<1>5. QED
  BY <1>1, <1>2, <1>3, <1>4 DEF Step

\* Everything written is a record of the pipeline's own.
LEMMA PlainContents ==
  ASSUME NEW dir, NEW i, NEW gates
  PROVE  /\ "text" \notin DOMAIN CommandEvidenceManifest(dir)
         /\ "text" \notin DOMAIN TestEvidenceManifest(dir)
         /\ "text" \notin DOMAIN VerificationSummary(dir, i)
         /\ "text" \notin DOMAIN CandidateState(gates, FALSE).state
         /\ "text" \notin DOMAIN CandidateState(gates, FALSE).summary
         /\ "text" \notin DOMAIN CandidateState(gates, FALSE).decision
         /\ "text" \notin DOMAIN BuildIndex(dir)
<1>1. /\ "text" \notin DOMAIN CommandEvidenceManifest(dir)
      /\ "text" \notin DOMAIN TestEvidenceManifest(dir)
      /\ "text" \notin DOMAIN VerificationSummary(dir, i)
  BY DEF CommandEvidenceManifest, TestEvidenceManifest, VerificationSummary
<1>2. /\ "text" \notin DOMAIN CandidateState(gates, FALSE).state
      /\ "text" \notin DOMAIN CandidateState(gates, FALSE).summary
      /\ "text" \notin DOMAIN CandidateState(gates, FALSE).decision
  BY DEF CandidateState
<1>3. "text" \notin DOMAIN BuildIndex(dir)
  BY DEF BuildIndex
<1>4. QED
  BY <1>1, <1>2, <1>3

LEMMA WrittenPlain ==
  ASSUME Types, Attacking, NEW i \in Runs, Start(i) \/ Step(i) \/ CommandStageFails(i) \/ Crash(i)
  PROVE  \A n \in DOMAIN review' : "text" \notin DOMAIN review'[n]
<1>1. \A n \in DOMAIN review : "text" \notin DOMAIN review[n]
  BY DEF Attacking
<1>2. CASE RunCommand(i)
  <2>1. /\ DOMAIN review' = DOMAIN review \cup FilesOf(NextCommand(i))
        /\ \A n \in DOMAIN review \ FilesOf(NextCommand(i)) : review'[n] = review[n]
        /\ \A n \in FilesOf(NextCommand(i)) : "text" \notin DOMAIN review'[n]
    BY <1>2, CommandWrites
  <2>2. QED
    BY <1>1, <2>1
<1>3. CASE CommandStageFails(i)
  <2>1. /\ DOMAIN review' \subseteq DOMAIN review \cup FilesOf(NextCommand(i))
        /\ \A n \in DOMAIN review' : (n \in DOMAIN review /\ review'[n] = review[n])
                                      \/ "text" \notin DOMAIN review'[n]
    BY <1>3, FailedCommandWrites
  <2>2. QED
    BY <1>1, <2>1
<1>4. CASE WriteEvidence(i)
  BY <1>1, <1>4, EvidenceWrites, PlainContents
<1>5. CASE RunAttacks(i)
  <2>1. /\ DOMAIN review' \ {Scratch} = (DOMAIN review \ {Scratch}) \cup {Matrix, Location}
        /\ \A n \in DOMAIN review \ {Matrix, Location, Scratch} : review'[n] = review[n]
        /\ \A n \in {Matrix, Location, Scratch} \cap DOMAIN review' : "text" \notin DOMAIN review'[n]
    BY <1>5, AttacksWrite
  <2>2. QED
    BY <1>1, <2>1
<1>6. CASE WriteScm(i)
  BY <1>1, <1>6, ScmWrites
<1>7. CASE WriteCandidate(i)
  <2>1. /\ "text" \notin DOMAIN review'[State] /\ "text" \notin DOMAIN review'[GateSummary]
        /\ "text" \notin DOMAIN review'[Decision]
    BY <1>7, CandidateWrites, PlainContents
  <2>2. /\ DOMAIN review' = DOMAIN review \cup {State, GateSummary, Decision}
        /\ \A n \in DOMAIN review \ {State, GateSummary, Decision} : review'[n] = review[n]
    BY <1>7, CandidateWrites
  <2>3. QED
    BY <1>1, <2>1, <2>2
<1>8. CASE WriteIndex(i)
  BY <1>1, <1>8, IndexWrites, PlainContents
<1>9. CASE Start(i) \/ AttacksRaise(i) \/ WritePackage(i) \/ CheckPackage(i) \/ WriteSidecar(i) \/ Crash(i)
  BY <1>1, <1>9, OthersDoNotWrite
<1>10. QED
  BY <1>2, <1>3, <1>4, <1>5, <1>6, <1>7, <1>8, <1>9 DEF Step

\* As long as nothing has failed there is no scratch directory, and every attack
\* has been detected.
LEMMA ScratchAndMatrix ==
  ASSUME Types, Attacking, NEW i \in Runs, Start(i) \/ Step(i) \/ CommandStageFails(i) \/ Crash(i)
  PROVE  /\ faults' = 0 => Scratch \notin DOMAIN review'
         /\ Matrix \in DOMAIN review' =>
              review'[Matrix].undetected \subseteq IF faults' = 0 THEN {} ELSE {LocationAttack}
<1> DEFINE Allowed == IF faults' = 0 THEN {} ELSE {LocationAttack}
<1>1. /\ faults' = 0 => Scratch \notin DOMAIN review
      /\ Matrix \in DOMAIN review => review[Matrix].undetected \subseteq Allowed
  BY FaultsGrow DEF Attacking
<1>2. CASE RunCommand(i) \/ CommandStageFails(i)
  <2>1. {Matrix, Scratch} \cap FilesOf(NextCommand(i)) = {}
    BY KindsOfNamesDiffer DEF FilesOf, Singles
  <2>2. /\ DOMAIN review' \subseteq DOMAIN review \cup FilesOf(NextCommand(i))
        /\ \A n \in DOMAIN review \ FilesOf(NextCommand(i)) : review'[n] = review[n]
    <3>1. CASE RunCommand(i)
      BY <3>1, CommandWrites
    <3>2. CASE CommandStageFails(i)
      BY <3>2, FailedCommandWrites
    <3>3. QED
      BY <1>2, <3>1, <3>2
  <2>3. QED
    BY <1>1, <2>1, <2>2
<1>3. CASE WriteEvidence(i)
  BY <1>1, <1>3, EvidenceWrites, SinglesDiffer
<1>4. CASE RunAttacks(i)
  <2>1. faults' = 0 => LeftScratch = CleanScratch
    BY <1>1 DEF LeftScratch
  <2>2. ExploitMatrix(LeftScratch).undetected \subseteq Allowed
    BY <2>1, AllDetected, MostDetected
  <2>3. /\ faults' = 0 => Scratch \notin DOMAIN review'
        /\ review'[Matrix] = ExploitMatrix(LeftScratch)
    BY <1>1, <1>4, AttacksWrite
  <2>4. QED
    BY <2>2, <2>3
<1>5. CASE WriteScm(i)
  BY <1>1, <1>5, ScmWrites, SinglesDiffer, TestEvidenceNames DEF Singles
<1>6. CASE WriteCandidate(i)
  BY <1>1, <1>6, CandidateWrites, SinglesDiffer
<1>7. CASE WriteIndex(i)
  BY <1>1, <1>7, IndexWrites, SinglesDiffer
<1>8. CASE Start(i) \/ AttacksRaise(i) \/ WritePackage(i) \/ CheckPackage(i) \/ WriteSidecar(i) \/ Crash(i)
  BY <1>1, <1>8, OthersDoNotWrite
<1>9. QED
  BY <1>2, <1>3, <1>4, <1>5, <1>6, <1>7, <1>8 DEF Step

\* What is packed is what lies in the directory, and the sources.
LEMMA PackageNames ==
  {<<"manifest">>, <<"undeclared">>, <<"absent">>} \cap (Names \cup {Source(r) : r \in Repos}) = {}
<1> DEFINE odd == {<<"manifest">>, <<"undeclared">>, <<"absent">>}
<1>1. odd \cap (Singles \cup Provenance) = {}
  BY DEF Singles, Provenance, State, GateSummary, Decision, Index, Summary, Location, TestManifest,
         CommandManifest, Matrix, Report, Scratch, Scm, Snapshot
<1>2. odd \cap (TestEvidence \cup {Receipt(c) : c \in Commands} \cup {Copied(c) : c \in Commands}
               \cup {Source(r) : r \in Repos}) = {}
  BY DEF TestEvidence, Output, ExitFile, Recorded, Receipt, Copied, Source
<1>3. Indexed \cup {Index, Scratch} \subseteq Singles \cup Provenance
  BY IndexedNames DEF Singles
<1> HIDE DEF odd
<1>4. odd \cap (Names \cup {Source(r) : r \in Repos}) = {}
  BY <1>1, <1>2, <1>3 DEF Names
<1>5. QED
  BY <1>4 DEF odd

LEMMA Packed ==
  ASSUME NEW dir, NEW commits
  PROVE  LET m == BuildPackage(dir, commits).members
             sources == {Source(r) : r \in Repos} IN
         /\ DOMAIN m = DOMAIN dir \cup sources
         /\ \A n \in sources : m[n] = [at |-> commits[n[2]]]
         /\ \A n \in DOMAIN dir \ sources : m[n] = dir[n]
BY DEF BuildPackage, PackageOf, Overlay

LEMMA RunStepAttacking ==
  ASSUME Types, Attacking, NEW i \in Runs, Start(i) \/ Step(i) \/ CommandStageFails(i) \/ Crash(i)
  PROVE  Attacking'
<1>1. \A n \in DOMAIN review' : "text" \notin DOMAIN review'[n]
  BY WrittenPlain
<1>2. out' # None =>
        /\ {Source(r) : r \in Repos} \subseteq DOMAIN out'.members
        /\ \A n \in DOMAIN out'.members : "text" \notin DOMAIN out'.members[n]
        /\ {<<"manifest">>, <<"undeclared">>, <<"absent">>} \cap DOMAIN out'.members = {}
  <2>1. CASE WritePackage(i)
    <3> DEFINE m == out'.members
               sources == {Source(r) : r \in Repos}
               commits == run[i].refs
    <3>1. out' = BuildPackage(review, commits)
      BY <2>1, Zenon DEF WritePackage
    <3>2. /\ DOMAIN m = DOMAIN review \cup sources
          /\ \A n \in sources : m[n] = [at |-> commits[n[2]]]
          /\ \A n \in DOMAIN review \ sources : m[n] = review[n]
      <4> HIDE DEF commits
      <4>1. QED
        BY <3>1, Packed
    <3>3. DOMAIN review \subseteq Names /\ \A n \in DOMAIN review : "text" \notin DOMAIN review[n]
      BY DEF Types, TypeOK, Names, Attacking
    <3> HIDE DEF m, commits, sources
    <3>4. \A n \in sources : "text" \notin DOMAIN m[n]
      <4>1. \A x : "text" \notin DOMAIN [at |-> x]
        OBVIOUS
      <4>2. QED
        BY <3>2, <4>1
    <3>5. \A n \in DOMAIN m : "text" \notin DOMAIN m[n]
      BY <3>2, <3>3, <3>4
    <3>6. {<<"manifest">>, <<"undeclared">>, <<"absent">>} \cap DOMAIN m = {}
      BY <3>2, <3>3, PackageNames DEF sources
    <3>7. QED
      BY <3>2, <3>5, <3>6 DEF m, sources
  <2>2. CASE ~ WritePackage(i)
    BY <2>2, OutOnlyBuilt DEF Attacking
  <2>3. QED
    BY <2>1, <2>2
<1>3. QED
  BY <1>1, <1>2, ScratchAndMatrix DEF Attacking

-----------------------------------------------------------------------------
(* What binds the members of a package to each other                       *)

\* A directory stays whole when receipts and an index in it are from before, and
\* so are the files beside them.
LEMMA WholeStays ==
  ASSUME NEW dir, NEW new, Whole(dir),
         \A c \in Commands : Receipt(c) \in DOMAIN new => Receipt(c) \in DOMAIN dir,
         TestEvidence \cap DOMAIN dir \subseteq DOMAIN new,
         Index \in DOMAIN new => Index \in DOMAIN dir /\ new[Index] = dir[Index]
  PROVE  Whole(new)
<1>1. ASSUME NEW c \in Commands, Receipt(c) \in DOMAIN new
      PROVE  {Output(c), ExitFile(c), Recorded(c)} \subseteq DOMAIN new
  <2>1. {Output(c), ExitFile(c), Recorded(c)} \subseteq TestEvidence \cap DOMAIN dir
    BY <1>1 DEF Whole, TestEvidence
  <2>2. QED
    BY <2>1
<1>2. ASSUME Index \in DOMAIN new
      PROVE  new[Index] = BuildIndex([n \in Indexed |-> Listing(new[Index], n)])
  BY <1>2 DEF Whole
<1>3. QED
  BY <1>1, <1>2 DEF Whole

\* What the steps of a run leave of the directory: nothing but the scratch
\* directory is ever removed.
LEMMA FilesStay ==
  ASSUME Types, NEW i \in Runs, Start(i) \/ Step(i) \/ CommandStageFails(i) \/ Crash(i)
  PROVE  /\ DOMAIN review \ {Scratch} \subseteq DOMAIN review'
         /\ ~ WriteEvidence(i) =>
              /\ TestManifest \in DOMAIN review' => TestManifest \in DOMAIN review
              /\ TestManifest \in DOMAIN review => review'[TestManifest] = review[TestManifest]
         /\ ~ WriteCandidate(i) =>
              /\ State \in DOMAIN review' => State \in DOMAIN review
              /\ State \in DOMAIN review => review'[State] = review[State]
<1>1. CASE RunCommand(i) \/ CommandStageFails(i)
  <2>1. {TestManifest, State} \cap FilesOf(NextCommand(i)) = {}
    BY KindsOfNamesDiffer DEF FilesOf, Singles
  <2>2. /\ DOMAIN review \subseteq DOMAIN review'
        /\ DOMAIN review' \subseteq DOMAIN review \cup FilesOf(NextCommand(i))
        /\ \A n \in DOMAIN review \ FilesOf(NextCommand(i)) : review'[n] = review[n]
    <3>1. CASE RunCommand(i)
      BY <3>1, CommandWrites
    <3>2. CASE CommandStageFails(i)
      BY <3>2, FailedCommandWrites
    <3>3. QED
      BY <1>1, <3>1, <3>2
  <2>3. QED
    BY <2>1, <2>2
<1>2. CASE WriteEvidence(i)
  BY <1>2, EvidenceWrites, SinglesDiffer
<1>3. CASE RunAttacks(i)
  BY <1>3, AttacksWrite, SinglesDiffer
<1>4. CASE WriteScm(i)
  BY <1>4, ScmWrites, SinglesDiffer, TestEvidenceNames DEF Singles
<1>5. CASE WriteCandidate(i)
  BY <1>5, CandidateWrites, SinglesDiffer
<1>6. CASE WriteIndex(i)
  BY <1>6, IndexWrites, SinglesDiffer
<1>7. CASE Start(i) \/ AttacksRaise(i) \/ WritePackage(i) \/ CheckPackage(i) \/ WriteSidecar(i) \/ Crash(i)
  BY <1>7, OthersDoNotWrite
<1>8. QED
  BY <1>1, <1>2, <1>3, <1>4, <1>5, <1>6, <1>7 DEF Step

\* Receipts come from commands, each beside the files it is of.
LEMMA ReceiptsStay ==
  ASSUME Types, NEW i \in Runs, Start(i) \/ Step(i) \/ CommandStageFails(i) \/ Crash(i),
         NEW c \in Commands, Receipt(c) \in DOMAIN review' \ DOMAIN review
  PROVE  {Output(c), ExitFile(c), Recorded(c)} \subseteq DOMAIN review'
<1> DEFINE d == NextCommand(i)
<1>1. Receipt(c) \notin Singles \cup Provenance
  BY KindsOfNamesDiffer DEF Provenance, Singles
<1>2. c # d => Receipt(c) \notin FilesOf(d)
  BY NamesTell, KindsOfNamesDiffer DEF FilesOf
<1>3. CASE RunCommand(i)
  <2>1. DOMAIN review' = DOMAIN review \cup FilesOf(d)
    BY <1>3, CommandWrites
  <2>2. QED
    BY <1>2, <2>1 DEF FilesOf
<1>4. CASE CommandStageFails(i)
  <2>1. /\ DOMAIN review' \subseteq DOMAIN review \cup FilesOf(d)
        /\ Receipt(d) \in DOMAIN review' \ DOMAIN review =>
             {Output(d), ExitFile(d), Recorded(d)} \subseteq DOMAIN review'
    BY <1>4, FailedCommandWrites
  <2>2. QED
    BY <1>2, <2>1
<1>5. CASE WriteEvidence(i)
  BY <1>1, <1>5, EvidenceWrites DEF Singles
<1>6. CASE RunAttacks(i)
  BY <1>1, <1>6, AttacksWrite DEF Singles
<1>7. CASE WriteScm(i)
  BY <1>1, <1>7, ScmWrites
<1>8. CASE WriteCandidate(i)
  BY <1>1, <1>8, CandidateWrites DEF Singles
<1>9. CASE WriteIndex(i)
  BY <1>1, <1>9, IndexWrites DEF Singles
<1>10. CASE Start(i) \/ AttacksRaise(i) \/ WritePackage(i) \/ CheckPackage(i) \/ WriteSidecar(i) \/ Crash(i)
  BY <1>10, OthersDoNotWrite
<1>11. QED
  BY <1>3, <1>4, <1>5, <1>6, <1>7, <1>8, <1>9, <1>10 DEF Step

\* Every step of a run leaves the directory whole.
LEMMA RunStepWhole ==
  ASSUME Types, Whole(review),
         NEW i \in Runs, Start(i) \/ Step(i) \/ CommandStageFails(i) \/ Crash(i)
  PROVE  Whole(review')
<1>1. ASSUME NEW c \in Commands, Receipt(c) \in DOMAIN review'
      PROVE  {Output(c), ExitFile(c), Recorded(c)} \subseteq DOMAIN review'
  <2>1. CASE Receipt(c) \in DOMAIN review
    <3>1. {Output(c), ExitFile(c), Recorded(c)} \subseteq DOMAIN review \ {Scratch}
      BY <2>1, KindsOfNamesDiffer DEF Whole, Singles
    <3>2. QED
      BY <3>1, FilesStay
  <2>2. CASE Receipt(c) \notin DOMAIN review
    BY <1>1, <2>2, ReceiptsStay
  <2>3. QED
    BY <2>1, <2>2
<1>2. ASSUME Index \in DOMAIN review'
      PROVE  review'[Index] = BuildIndex([n \in Indexed |-> Listing(review'[Index], n)])
  <2>1. CASE WriteIndex(i)
    <3>1. review'[Index] = BuildIndex(review)
      BY <2>1, IndexWrites
    <3>2. \A n \in Indexed : Listing(review'[Index], n) = review[n]
      BY <3>1, ShaContent DEF Listing, BuildIndex
    <3>3. QED
      BY <3>1, <3>2 DEF BuildIndex
  <2>2. CASE ~ WriteIndex(i)
    BY <1>2, <2>2, IndexStays DEF Whole
  <2>3. QED
    BY <2>1, <2>2
<1>3. QED
  BY <1>1, <1>2 DEF Whole

\* A pipeline that is past its evidence was so before, with the same gate for the
\* command receipts, unless it has just written the evidence.
LEMMA ReceiptGateStays ==
  ASSUME Types, NEW i \in Runs, Start(i) \/ Step(i) \/ CommandStageFails(i) \/ Crash(i),
         NEW k \in Active' \cap Pipelines', run'[k].at \in EvidenceWritten,
         k = i => ~ WriteEvidence(i)
  PROVE  /\ k \in Active \cap Pipelines /\ run[k].at \in EvidenceWritten
         /\ run'[k].gates["command_receipt"] = run[k].gates["command_receipt"]
<1>1. Kept(i) /\ k \in Runs /\ run'[k].at \notin {"new", "ended"} /\ run'[k].kind # "given"
  BY RunTyped DEF Active, Pipelines, Started
<1>2. CASE k # i
  <2>1. run'[k] = run[k]
    BY <1>1, <1>2 DEF Kept
  <2>2. QED
    BY <1>1, <2>1 DEF Active, Pipelines, Started
<1>3. CASE k = i
  <2>1. ~ Start(i)
    BY <1>1, <1>3, StartsAfter, StageSets
  <2>2. ~ (RunCommand(i) \/ CommandStageFails(i) \/ AttacksRaise(i) \/ WriteSidecar(i) \/ Crash(i))
    BY <1>1, <1>3, Moves, StageSets
  <2>3. RunAttacks(i) \/ WriteScm(i) \/ WriteCandidate(i) \/ WriteIndex(i) \/ WritePackage(i)
          \/ CheckPackage(i)
    BY <1>3, <2>1, <2>2 DEF Step
  <2>4. run[i].at \in EvidenceWritten
    BY <2>3, StepsAtStages, StageSets
  <2>5. run[i].at \notin {"new", "ended"} /\ run[i].kind = run'[i].kind
    BY <1>1, <2>4, StageSets DEF Kept
  <2>6. run'[i].gates["command_receipt"] = run[i].gates["command_receipt"]
    BY <1>1, <1>3, <2>3, GatesStay DEF GateNames
  <2>7. QED
    BY <1>1, <1>3, <2>4, <2>5, <2>6 DEF Active, Pipelines, Started
<1>4. QED
  BY <1>2, <1>3

\* A manifest written over whole test evidence lists all of it, and the gate of
\* the command receipts passes only over whole test evidence.
LEMMA EvidenceManifested ==
  ASSUME Types, Whole(review), Manifested, NEW i \in Runs, WriteEvidence(i)
  PROVE  Manifested'
<1>1. /\ DOMAIN review' = DOMAIN review \cup {CommandManifest, TestManifest, Summary}
      /\ review'[TestManifest] = TestEvidenceManifest(review)
  BY EvidenceWrites
<1>2. /\ DOMAIN TestEvidenceManifest(review).entries = TestEvidence \cap DOMAIN review
      /\ DOMAIN review \subseteq DOMAIN review' /\ TestManifest \in DOMAIN review'
  BY <1>1 DEF TestEvidenceManifest
<1>3. TestEvidence \subseteq DOMAIN review => Listed(review')
  BY <1>1, <1>2 DEF Listed
<1>4. TestManifest \in DOMAIN review /\ Listed(review) => Listed(review')
  BY <1>3 DEF Listed, Manifested
<1>5. CommandGate(CommandEvidenceManifest(review)) = Pass => Listed(review')
  <2> DEFINE m == CommandEvidenceManifest(review)
  <2>1. m.missing = {c \in Commands : Receipt(c) \notin DOMAIN review}
    BY DEF CommandEvidenceManifest
  <2> HIDE DEF m
  <2>2. CommandGate(m) = Pass => m.missing = {}
    BY DEF CommandGate, Gate, Pass, Fail
  <2>3. m.missing = {} => TestEvidence \subseteq DOMAIN review
    BY <2>1 DEF Whole, TestEvidence
  <2>4. QED
    BY <1>3, <2>2, <2>3 DEF m
<1>6. ASSUME NEW k \in Active' \cap Pipelines', run'[k].at \in EvidenceWritten,
             run'[k].gates["command_receipt"] = Pass
      PROVE  Listed(review')
  <2>1. CASE k = i
    BY <1>5, <1>6, <2>1, GatesJudged
  <2>2. CASE k # i
    BY <1>4, <1>6, <2>2, ReceiptGateStays DEF Manifested, Step
  <2>3. QED
    BY <2>1, <2>2
<1>7. State \in DOMAIN review' => State \in DOMAIN review /\ review'[State] = review[State]
  <2>1. ~ WriteCandidate(i)
    BY StepsAtStages
  <2>2. QED
    BY <2>1, FilesStay DEF Step
<1>8. State \in DOMAIN review' /\ review'[State].status = Ready => Listed(review')
  BY <1>4, <1>7 DEF Manifested
<1>9. DOMAIN review'[TestManifest].entries \subseteq TestEvidence \cap DOMAIN review'
  BY <1>1, <1>2
<1>10. QED
  BY <1>2, <1>6, <1>8, <1>9 DEF Manifested

\* The other steps leave the manifest as it is; a READY state is written by a
\* pipeline whose gate for the command receipts has passed.
LEMMA OthersManifested ==
  ASSUME Types, OneByOne, Manifested,
         NEW i \in Runs, Start(i) \/ Step(i) \/ CommandStageFails(i) \/ Crash(i), ~ WriteEvidence(i)
  PROVE  Manifested'
<1>1. /\ DOMAIN review \ {Scratch} \subseteq DOMAIN review'
      /\ TestManifest \in DOMAIN review' => TestManifest \in DOMAIN review
      /\ TestManifest \in DOMAIN review => review'[TestManifest] = review[TestManifest]
  BY FilesStay
<1>2. TestManifest \in DOMAIN review => TestManifest \in DOMAIN review'
  BY <1>1, SinglesDiffer
<1>3. TestManifest \in DOMAIN review /\ Listed(review) => Listed(review')
  BY <1>1 DEF Listed
<1>4. TestManifest \in DOMAIN review' =>
        DOMAIN review'[TestManifest].entries \subseteq TestEvidence \cap DOMAIN review'
  <2>1. Scratch \notin TestEvidence
    BY TestEvidenceNames DEF Singles
  <2>2. QED
    BY <1>1, <2>1 DEF Manifested
<1>5. ASSUME NEW k \in Active' \cap Pipelines', run'[k].at \in EvidenceWritten
      PROVE  /\ TestManifest \in DOMAIN review'
             /\ run'[k].gates["command_receipt"] = Pass => Listed(review')
  BY <1>2, <1>3, <1>5, ReceiptGateStays DEF Manifested
<1>6. ASSUME State \in DOMAIN review'
      PROVE  /\ TestManifest \in DOMAIN review'
             /\ review'[State].status = Ready => Listed(review')
  <2>1. CASE WriteCandidate(i)
    <3>1. run[i].at = "candidate"
      BY <2>1, StepsAtStages
    <3>2. i \in Active \cap Pipelines /\ run[i].at \in EvidenceWritten
      BY <3>1, WritersArePipelines, StageSets DEF Active, Pipelines, Started, Stages
    <3>3. review'[State] = CandidateState(run[i].gates, FALSE).state
      BY <2>1, CandidateWrites
    <3>4. review'[State].status = Ready => run[i].gates["command_receipt"] = Pass
      BY <3>3, ReadyMeansAllPass DEF GateNames
    <3>5. QED
      BY <1>2, <1>3, <3>2, <3>4 DEF Manifested
  <2>2. CASE ~ WriteCandidate(i)
    <3>1. State \in DOMAIN review /\ review'[State] = review[State]
      BY <1>6, <2>2, FilesStay
    <3>2. QED
      BY <1>2, <1>3, <3>1 DEF Manifested
  <2>3. QED
    BY <2>1, <2>2
<1>7. QED
  BY <1>4, <1>5, <1>6 DEF Manifested

\* Every step of a run keeps what binds the members of a package.
LEMMA RunStepBinding ==
  ASSUME Types, OneByOne, Binding,
         NEW i \in Runs, Start(i) \/ Step(i) \/ CommandStageFails(i) \/ Crash(i)
  PROVE  Binding'
<1>1. Whole(review) /\ Manifested
  BY DEF Binding
<1>2. Whole(review')
  BY <1>1, RunStepWhole
<1>3. Manifested'
  BY <1>1, EvidenceManifested, OthersManifested
<1>4. ASSUME out' # None
      PROVE  LET m == out'.members IN
             /\ Whole(m)
             /\ State \in DOMAIN m /\ m[State].status = Ready => TestManifest \in DOMAIN m /\ Listed(m)
  <2>1. CASE WritePackage(i)
    <3> DEFINE sources == {Source(r) : r \in Repos}
               m == out'.members
    <3>1. out' = BuildPackage(review, run[i].refs)
      BY <2>1, Zenon DEF WritePackage
    <3>2. /\ DOMAIN m = DOMAIN review \cup sources
          /\ \A n \in DOMAIN review \ sources : m[n] = review[n]
      BY <3>1, Packed
    <3>3. /\ {Index, State, TestManifest} \cap sources = {}
          /\ \A c \in Commands : Receipt(c) \notin sources
      BY KindsOfNamesDiffer DEF Singles
    <3> HIDE DEF sources, m
    <3>4. Whole(m)
      BY <1>1, <3>2, <3>3, WholeStays
    <3>5. State \in DOMAIN m /\ m[State].status = Ready => TestManifest \in DOMAIN m /\ Listed(m)
      BY <1>1, <3>2, <3>3 DEF Manifested, Listed
    <3>6. QED
      BY <3>4, <3>5 DEF m
  <2>2. CASE ~ WritePackage(i)
    BY <1>4, <2>2, OutOnlyBuilt DEF Binding
  <2>3. QED
    BY <2>1, <2>2
<1>5. QED
  BY <1>2, <1>3, <1>4 DEF Binding

-----------------------------------------------------------------------------
(* The surroundings                                                        *)

\* Sealing, edits and commits touch neither the directory nor the runs.
LEMMA OutsideStepRest ==
  ASSUME UNCHANGED <<review, out, run, faults, overlapped>>
  PROVE  /\ OneByOne => OneByOne'
         /\ Settling => Settling'
         /\ Earning => Earning'
         /\ Attacking => Attacking'
         /\ Binding => Binding'
<1>1. /\ Started' = Started /\ Pipelines' = Pipelines /\ Active' = Active
  BY DEF Started, Pipelines, Active
<1>2. OneByOne => OneByOne'
  BY <1>1 DEF OneByOne, Last
<1>3. \A i \in Runs : Last(i)' <=> Last(i)
  BY <1>1 DEF Last
<1>4. Settling => Settling'
  BY <1>3, SamePast DEF Settling
<1>5. \A i \in Runs : OwnEvidence(i)' <=> OwnEvidence(i)
  BY DEF OwnEvidence, Heard, EvidenceWritten, AttacksRun, ProvenanceWritten, CandidateWritten
<1>6. Active \subseteq Runs
  BY DEF Active
<1>7. Earning => Earning'
  BY <1>1, <1>5, <1>6 DEF Earning
<1>8. Attacking => Attacking'
  BY DEF Attacking
<1>9. Binding => Binding'
  BY <1>1, <1>6, StageSets DEF Manifested, Binding
<1>10. QED
  BY <1>2, <1>4, <1>7, <1>8, <1>9

\* New bases for the receipts touch no file that an index or a test manifest
\* lists, and no run is at work.
LEMMA ReaddressRest ==
  ASSUME Types, OneByOne, Settling, Earning, Attacking, Binding, Readdress
  PROVE  OneByOne' /\ Settling' /\ Earning' /\ Attacking' /\ Binding'
<1>1. UNCHANGED <<out, run, faults, overlapped>> /\ DOMAIN review' = DOMAIN review
  BY ReaddressFrame, ReaddressWrites
<1>2. Started' = Started /\ Pipelines' = Pipelines /\ Active' = {} /\ Active = {}
  BY <1>1 DEF Started, Pipelines, Active, Readdress
<1>3. \A n \in Singles \cup Provenance \cup TestEvidence : ~ IsReceipt(n)
  BY KindsOfNamesDiffer DEF IsReceipt, Provenance, TestEvidence, Singles
<1>4. \A n \in DOMAIN review \cap (Singles \cup Provenance \cup TestEvidence) : review'[n] = review[n]
  BY <1>3, ReaddressWrites
<1>5. OneByOne'
  BY <1>1, <1>2 DEF OneByOne, Last
<1>6. Settling'
  <2>1. Indexed \subseteq Singles \cup Provenance
    BY IndexedNames DEF Singles
  <2>2. EvidenceIn(review) => EvidenceIn(review')
    <3>1. {TestManifest, CommandManifest, Summary} \subseteq Singles
      BY DEF Singles
    <3>2. EvidenceIn(review) => review'[TestManifest] = review[TestManifest]
      BY <1>4, <3>1 DEF EvidenceIn
    <3>3. \A n \in TestEvidence \cap DOMAIN review : review'[n] = review[n]
      BY <1>4
    <3>4. QED
      BY <1>1, <3>2, <3>3 DEF EvidenceIn, VerifyTestEvidence
  <2>3. AttacksIn(review) => AttacksIn(review')
    BY <1>1 DEF AttacksIn
  <2>4. ProvenanceIn(review) => ProvenanceIn(review')
    BY <1>1 DEF ProvenanceIn
  <2>5. CandidateIn(review) => CandidateIn(review')
    <3>1. {State, GateSummary, Decision} \subseteq Singles
      BY DEF Singles
    <3>2. CandidateIn(review) =>
            \A n \in {State, GateSummary, Decision} : n \in DOMAIN review' /\ review'[n] = review[n]
      BY <1>1, <1>4, <3>1 DEF CandidateIn
    <3>3. QED
      BY <3>2, CandidateStays
  <2>6. ASSUME NEW i \in Runs, Past(i, IndexWritten), ~ overlapped, Last(i)
        PROVE  IndexIn(review')
    <3>1. /\ EvidenceIn(review) /\ AttacksIn(review) /\ ProvenanceIn(review) /\ CandidateIn(review)
          /\ IndexIn(review)
      BY <2>6, StageSets DEF Settling, Past
    <3>2. Indexed \subseteq DOMAIN review
      BY <3>1 DEF Indexed, EvidenceIn, AttacksIn, ProvenanceIn, CandidateIn
    <3>3. \A n \in Indexed : review'[n] = review[n]
      BY <1>4, <2>1, <3>2
    <3>4. BuildIndex(review') = BuildIndex(review)
      BY <3>3 DEF BuildIndex
    <3>5. Index \in DOMAIN review' /\ review'[Index] = review[Index]
      BY <1>1, <1>4, <3>1 DEF IndexIn, Singles
    <3>6. QED
      BY <3>1, <3>4, <3>5 DEF IndexIn
  <2>7. \A i \in Runs : Last(i)' <=> Last(i)
    BY <1>2 DEF Last
  <2> SUFFICES ASSUME ~ overlapped', NEW i \in Runs, Last(i)'
               PROVE  /\ Past(i, EvidenceWritten)' => EvidenceIn(review')
                      /\ Past(i, AttacksRun)' => AttacksIn(review')
                      /\ Past(i, ProvenanceWritten)' => ProvenanceIn(review')
                      /\ Past(i, CandidateWritten)' => CandidateIn(review')
                      /\ Past(i, IndexWritten)' => IndexIn(review')
    BY DEF Settling
  <2>8. Last(i) /\ ~ overlapped /\ run'[i] = run[i]
    BY <1>1, <2>7
  <2>9. /\ Past(i, EvidenceWritten) => EvidenceIn(review)
        /\ Past(i, AttacksRun) => AttacksIn(review)
        /\ Past(i, ProvenanceWritten) => ProvenanceIn(review)
        /\ Past(i, CandidateWritten) => CandidateIn(review)
    BY <2>8 DEF Settling
  <2>10. QED
    BY <2>2, <2>3, <2>4, <2>5, <2>6, <2>8, <2>9, SamePast
<1>7. Index \in DOMAIN review => review'[Index] = review[Index]
  BY <1>4 DEF Singles
<1>8. Earning'
  BY <1>1, <1>2, <1>7 DEF Earning
<1>9. Attacking'
  <2>1. \A n \in DOMAIN review' : "text" \notin DOMAIN review'[n]
    <3> SUFFICES ASSUME NEW n \in DOMAIN review PROVE "text" \notin DOMAIN review'[n]
      BY <1>1
    <3>1. "text" \notin DOMAIN review[n]
      BY DEF Attacking
    <3>2. \A f : DOMAIN [f EXCEPT !.base = "package"] = DOMAIN f
      OBVIOUS
    <3>3. QED
      BY <3>1, <3>2, ReaddressWrites
  <2>2. Matrix \in DOMAIN review => review'[Matrix] = review[Matrix]
    BY <1>4 DEF Singles
  <2>3. QED
    BY <1>1, <2>1, <2>2 DEF Attacking
<1>10. Binding'
  <2>1. Whole(review')
    BY <1>1, <1>7, WholeStays DEF Binding
  <2>2. /\ TestManifest \in DOMAIN review => review'[TestManifest] = review[TestManifest]
        /\ State \in DOMAIN review => review'[State] = review[State]
    BY <1>4 DEF Singles
  <2>3. Manifested'
    BY <1>1, <1>2, <2>2 DEF Binding, Manifested, Listed
  <2>4. QED
    BY <1>1, <2>1, <2>3 DEF Binding
<1>11. QED
  BY <1>5, <1>6, <1>8, <1>9, <1>10

-----------------------------------------------------------------------------
(* The theorems                                                            *)

LEMMA InitIInv == Init => IInv
<1> SUFFICES ASSUME Init PROVE IInv
  OBVIOUS
<1>1. TypeOK
  BY VersionsAssumption DEF Init, TypeOK, Started
<1>2. run \in [Runs -> RunRecords]
  BY DEF Init, RunRecords
<1>3. Types
  BY <1>1, <1>2, VersionsAssumption DEF Init, Types
<1>4. Sealing
  BY DEF Init, Sealing
<1>5. Started = {} /\ Pipelines = {} /\ Active = {}
  BY DEF Init, Started, Pipelines, Active
<1>6. OneByOne
  BY <1>5 DEF OneByOne
<1>7. Settling
  BY <1>5 DEF Settling, Last
<1>8. out = None /\ DOMAIN review = {}
  BY DEF Init
<1>9. Earning /\ Attacking
  BY <1>5, <1>8 DEF Earning, Attacking
<1>10. Binding
  <2>1. Whole(review)
    BY <1>8 DEF Whole
  <2>2. Manifested
    BY <1>5, <1>8 DEF Manifested
  <2>3. QED
    BY <1>8, <2>1, <2>2 DEF Binding
<1>11. QED
  BY <1>3, <1>4, <1>6, <1>7, <1>9, <1>10 DEF IInv

LEMMA StepIInv == IInv /\ [Next]_vars => IInv'
<1> SUFFICES ASSUME IInv, [Next]_vars PROVE IInv'
  OBVIOUS
<1>1. /\ Types /\ Sealing /\ OneByOne
      /\ Settling /\ Earning /\ Attacking /\ Binding
  BY DEF IInv
<1>2. ASSUME NEW i \in Runs, Start(i) \/ Step(i) \/ CommandStageFails(i) \/ Crash(i)
      PROVE  IInv'
  <2>1. Types' /\ Sealing'
    BY <1>1, <1>2, RunStepTypes, RunStepSealing
  <2>2. OneByOne'
    BY <1>1, <1>2, RunStepOneByOne
  <2>3. Settling'
    BY <1>1, <1>2, RunStepSettling
  <2>4. Earning'
    BY <1>1, <1>2, RunStepEarning
  <2>5. Attacking'
    BY <1>1, <1>2, RunStepAttacking
  <2>6. Binding'
    BY <1>1, <1>2, RunStepBinding
  <2>7. QED
    BY <2>1, <2>2, <2>3, <2>4, <2>5, <2>6 DEF IInv
<1>3. CASE Seal \/ Edit \/ Commit
  <2>1. Types' /\ Sealing'
    BY <1>1, <1>3, OutsideStepTypes, OutsideStepSealing
  <2>2. OneByOne' /\ Settling' /\ Earning' /\ Attacking' /\ Binding'
    BY <1>1, <1>3, OutsideFrame, OutsideStepRest
  <2>3. QED
    BY <2>1, <2>2 DEF IInv
<1>4. CASE UNCHANGED vars
  <2>1. Types' /\ Sealing'
    BY <1>1, <1>4 DEF vars, Types, TypeOK, Started, Sealing
  <2>2. OneByOne' /\ Settling' /\ Earning' /\ Attacking' /\ Binding'
    BY <1>1, <1>4, OutsideStepRest DEF vars
  <2>3. QED
    BY <2>1, <2>2 DEF IInv
<1>5. CASE Readdress
  <2>1. Types' /\ Sealing'
    BY <1>1, <1>5, OutsideStepTypes, OutsideStepSealing
  <2>2. QED
    BY <1>1, <1>5, <2>1, ReaddressRest DEF IInv
<1>6. QED
  BY <1>2, <1>3, <1>4, <1>5 DEF Next

\* IInv holds of every state of every number of runs over the directory.
THEOREM Invariance == Spec => []IInv
<1>1. QED
  BY InitIInv, StepIInv, PTL DEF Spec

\* The variables keep their shapes, and what is packaged are commits the
\* repositories have, for every number of runs, versions and disturbances.
THEOREM TypeCorrect == Spec => []TypeOK
<1>1. IInv => TypeOK
  BY DEF IInv, Types
<1>2. QED
  BY <1>1, Invariance, PTL

\* verify-seal accepts a package only with the receipt that describes it in
\* every field, unless the package was replaced between the reads of review
\* seal: the digest it compares is that of the bytes the receipt was made of.
THEOREM SealsAreOfThePackage == Spec => []SealAcceptance
<1>1. ASSUME IInv PROVE SealAcceptance
  <2> SUFFICES ASSUME receipt # None, out # None, ~ swapped, VerifySeal(out, receipt)
               PROVE  receipt = SealReceipt(out, Sha(out))
    BY DEF SealAcceptance
  <2>1. receipt = SealReceipt(receipt.zip.sha256, Sha(receipt.zip.sha256))
    BY <1>1 DEF IInv, Sealing
  <2>2. receipt.zip = Sha(receipt.zip.sha256)
    BY <2>1, ReceiptZip
  <2>3. Sha(out) = receipt.zip
    BY DEF VerifySeal
  <2>4. out = receipt.zip.sha256
    BY <2>2, <2>3, ShaInjective
  <2>5. QED
    BY <2>1, <2>4
<1>2. QED
  BY <1>1, Invariance, PTL

\* A .sha256 file that matches the package stands beside a canonical package,
\* unless the package was replaced between its check and the writing of it.
THEOREM SidecarsCertify == Spec => []SidecarCertifiesVerified
<1>1. ASSUME IInv PROVE SidecarCertifiesVerified
  <2> SUFFICES ASSUME sidecar # None, ~ swapped, sidecar = Sha(out)
               PROVE  Canonical(out)
    BY DEF SidecarCertifiesVerified
  <2>1. sidecar = Sha(sidecar.sha256) /\ Canonical(sidecar.sha256)
    BY <1>1 DEF IInv, Sealing
  <2>2. out = sidecar.sha256
    BY <2>1, ShaInjective
  <2>3. QED
    BY <2>1, <2>2
<1>2. QED
  BY <1>1, Invariance, PTL

\* An index built over a directory that holds everything it lists describes it.
LEMMA IndexDescribes ==
  ASSUME NEW dir, Indexed \subseteq DOMAIN dir
  PROVE  LET idx == BuildIndex(dir) IN
         IndexLoads(idx) /\ VerifyIndex(idx, dir) /\ ChainHolds(idx)
<1> DEFINE idx == BuildIndex(dir)
<1>1. /\ idx.hashes = [n \in Indexed |-> Sha(dir[n])]
      /\ idx.chain = Sha([phase |-> idx.phase, of |-> idx.hashes])
  BY DEF BuildIndex
<1>2. \A content : Sha(content) # Malformed
  BY DEF Sha, Malformed
<1> HIDE DEF idx
<1>3. IndexLoads(idx)
  BY <1>1, <1>2 DEF IndexLoads
<1>4. VerifyIndex(idx, dir)
  BY <1>1 DEF VerifyIndex
<1>5. ChainHolds(idx)
  BY <1>1 DEF ChainHolds
<1>6. QED
  BY <1>3, <1>4, <1>5 DEF idx

\* When a pipeline has ended by itself and alone, the index it wrote last
\* describes the directory as it lies there, and so does the test manifest:
\* whatever earlier runs, faults and crashes have left in it.
THEOREM SettledDirectory == Spec => []SettledDirectoryIsConsistent
<1>1. ASSUME IInv PROVE SettledDirectoryIsConsistent
  <2> DEFINE i == LastPipeline
  <2> SUFFICES ASSUME Active = {}, Pipelines # {}, ~ overlapped,
                      run[i].result \in {"ok", "not ok", "rejected", "not built"}
               PROVE  /\ IndexLoads(review[Index]) /\ VerifyIndex(review[Index], review)
                      /\ ChainHolds(review[Index])
                      /\ VerifyTestEvidence(review[TestManifest], review)
                      /\ CandidateIsConsistent(review[State], review[GateSummary], review[Decision])
    BY DEF SettledDirectoryIsConsistent
  <2>1. i \in Pipelines /\ \A j \in Pipelines : j <= i
    BY <1>1 DEF LastPipeline, IInv, OneByOne
  <2>2. i \in Runs /\ Last(i)
    BY <2>1 DEF Last, Pipelines, Started
  <2>3. run[i].at = "ended"
    BY <2>1 DEF Active, Pipelines, Started
  <2> HIDE DEF i
  <2>4. /\ Past(i, EvidenceWritten) /\ Past(i, AttacksRun) /\ Past(i, ProvenanceWritten)
        /\ Past(i, CandidateWritten) /\ Past(i, IndexWritten)
    BY <2>3 DEF Past
  <2>5. /\ EvidenceIn(review) /\ AttacksIn(review) /\ ProvenanceIn(review)
        /\ CandidateIn(review) /\ IndexIn(review)
    BY <1>1, <2>2, <2>4 DEF IInv, Settling
  <2>6. Indexed \subseteq DOMAIN review
    BY <2>5 DEF Indexed, EvidenceIn, AttacksIn, ProvenanceIn, CandidateIn
  <2>7. review[Index] = BuildIndex(review)
    BY <2>5 DEF IndexIn
  <2>8. IndexLoads(review[Index]) /\ VerifyIndex(review[Index], review) /\ ChainHolds(review[Index])
    BY <2>6, <2>7, IndexDescribes
  <2>9. QED
    BY <2>5, <2>8 DEF EvidenceIn, CandidateIn
<1>2. QED
  BY <1>1, Invariance, PTL

\* What agrees with an index and a test manifest is what they say.
LEMMA AgreeingContents ==
  ASSUME NEW m, VerifyIndex(m[Index], m), PackagedTestEvidenceHolds(m)
  PROVE  /\ Indexed \subseteq DOMAIN m
         /\ \A n \in Indexed : Listing(m[Index], n) = m[n]
         /\ DOMAIN m[TestManifest].entries \subseteq DOMAIN m
         /\ \A n \in DOMAIN m[TestManifest].entries : Content(m[TestManifest].entries[n]) = m[n]
<1>1. Indexed \subseteq DOMAIN m /\ \A n \in Indexed : m[Index].hashes[n] = Sha(m[n])
  BY DEF VerifyIndex
<1>2. \A n \in DOMAIN m[TestManifest].entries : n \in DOMAIN m /\ m[TestManifest].entries[n] = Sha(m[n])
  BY DEF PackagedTestEvidenceHolds
<1>3. QED
  BY <1>1, <1>2, ShaContent DEF Listing

\* A package that calls itself READY and agrees with its own index and its test
\* manifest holds the evidence of one run, which was heard to pass, and of attacks
\* all detected, unless two pipelines were active at once or its pipeline ended
\* not ok: for every number of runs, crashes, kills and edits, and with whatever an
\* earlier run has left in the directory.
THEOREM ReadyEarned == Spec => []ReadyIsEarned
<1>1. ASSUME IInv PROVE ReadyIsEarned
  <2> DEFINE m == out.members
             i == m[Summary].run
             e == m[TestManifest].entries
  <2> SUFFICES ASSUME out # None, ~ overlapped, Agrees(m), m[State].status = Ready,
                      ~ Unearned(i, run)
               PROVE  /\ \A c \in Commands :
                           /\ {Recorded(c), Output(c), ExitFile(c)} \subseteq DOMAIN m
                           /\ m[Recorded(c)].run = i
                           /\ m[Recorded(c)].output = Sha(m[Output(c)])
                           /\ m[Recorded(c)].code = m[ExitFile(c)].code
                      /\ \A c \in Commands \ {"pytest"} : m[ExitFile(c)].code = 0
                      /\ SummaryIsClean(ParsedLog(m[Output("pytest")]))
                      /\ m[Report].run = i
                      /\ \A r \in Repos : m[Scm(r)].commit = run[i].refs[r]
                      /\ m[Matrix].undetected = {}
    BY DEF ReadyIsEarned
  <2>1. /\ Index \in DOMAIN m
        /\ \A n \in Indexed : Listing(m[Index], n) = m[n]
        /\ DOMAIN e \subseteq DOMAIN m /\ \A n \in DOMAIN e : Content(e[n]) = m[n]
    BY AgreeingContents DEF Agrees
  <2>2. Earned(m[Index], run)
    BY <1>1, <2>1 DEF IInv, Earning
  <2> HIDE DEF m
  <2>3. {State, Summary, TestManifest, Report, Matrix} \cup {Scm(r) : r \in Repos} \subseteq Indexed
    BY DEF Indexed
  <2>4. /\ Listing(m[Index], State) = m[State] /\ Listing(m[Index], Summary) = m[Summary]
        /\ Listing(m[Index], TestManifest) = m[TestManifest]
        /\ Listing(m[Index], Report) = m[Report] /\ Listing(m[Index], Matrix) = m[Matrix]
        /\ \A r \in Repos : Listing(m[Index], Scm(r)) = m[Scm(r)]
    BY <2>1, <2>3
  <2>5. /\ EntriesAreOf(e, i) /\ CheckersPassed(e) /\ PytestPassed(e)
        /\ m[Report].run = i /\ m[Matrix].undetected = {}
        /\ \A r \in Repos : m[Scm(r)].commit = run[i].refs[r]
    BY <2>2, <2>4 DEF Earned
  <2> HIDE DEF e, i
  <2>6. \A c \in Commands :
          /\ {Recorded(c), Output(c), ExitFile(c)} \subseteq DOMAIN m
          /\ m[Recorded(c)] = CommandReceipt(i, m[Output(c)], m[ExitFile(c)].code, "review")
    <3> SUFFICES ASSUME NEW c \in Commands
                 PROVE  /\ {Recorded(c), Output(c), ExitFile(c)} \subseteq DOMAIN m
                        /\ m[Recorded(c)] = CommandReceipt(i, m[Output(c)], m[ExitFile(c)].code, "review")
      OBVIOUS
    <3>1. /\ {Recorded(c), Output(c), ExitFile(c)} \subseteq DOMAIN e
          /\ Content(e[Recorded(c)]) =
               CommandReceipt(i, Content(e[Output(c)]), Content(e[ExitFile(c)]).code, "review")
      BY <2>5 DEF EntriesAreOf
    <3>2. /\ Content(e[Recorded(c)]) = m[Recorded(c)] /\ Content(e[Output(c)]) = m[Output(c)]
          /\ Content(e[ExitFile(c)]) = m[ExitFile(c)]
      BY <2>1, <3>1
    <3>3. QED
      BY <2>1, <3>1, <3>2
  <2>7. \A o, x : LET rcpt == CommandReceipt(i, o, x, "review") IN
                  rcpt.run = i /\ rcpt.output = Sha(o) /\ rcpt.code = x
    BY DEF CommandReceipt
  <2>8. \A c \in Commands \ {"pytest"} : m[ExitFile(c)].code = 0
    BY <2>1, <2>5 DEF CheckersPassed, EntriesAreOf
  <2>9. SummaryIsClean(ParsedLog(m[Output("pytest")]))
    BY <2>1, <2>5, CommandsAssumption DEF PytestPassed, EntriesAreOf
  <2>10. QED
    BY <2>5, <2>6, <2>7, <2>8, <2>9
<1>2. QED
  BY <1>1, Invariance, PTL

\* Every attack is detected as long as the scratch directory was always removed,
\* and every one but that on the census whatever has failed; and every C3-R1 mutant
\* of every package that was ever written is refused.
THEOREM NegativesDetected == Spec => []NegativesAreDetected
<1>1. ASSUME IInv PROVE NegativesAreDetected
  <2>1. Attacking
    BY <1>1 DEF IInv
  <2>2. ASSUME out # None PROVE MutantsDetected(out.members)
    <3> DEFINE m == out.members
    <3>1. /\ {Source(r) : r \in Repos} \subseteq DOMAIN m
          /\ \A n \in DOMAIN m : "text" \notin DOMAIN m[n]
          /\ {<<"manifest">>, <<"undeclared">>, <<"absent">>} \cap DOMAIN m = {}
      BY <2>1, <2>2 DEF Attacking
    <3>2. "text" \in DOMAIN Tampered
      BY DEF Tampered
    <3> HIDE DEF m
    <3>3. Source("core") \in DOMAIN m
      BY <3>1, ReposAssumption
    <3>4. \A n \in DOMAIN m : m[n] # Tampered
      BY <3>1, <3>2
    <3>5. MutantsDetected(m)
      BY <3>1, <3>3, <3>4, EveryMutantRefused
    <3>6. QED
      BY <3>5 DEF m
  <2>3. QED
    BY <2>1, <2>2 DEF NegativesAreDetected, Attacking
<1>2. QED
  BY <1>1, Invariance, PTL

\* What an accepted receipt says of output and exit code is what lies beside it.
LEMMA ReceiptsHold ==
  ASSUME NEW m, NEW c \in Commands, PackagedReceiptHolds(m, c), ExitFile(c) \in DOMAIN m
  PROVE  LET rcpt == m[Receipt(c)] IN
         /\ rcpt.output = Sha(m[Output(c)])
         /\ rcpt.exit = Sha(m[ExitFile(c)]) /\ rcpt.code = m[ExitFile(c)].code
BY DEF PackagedReceiptHolds

\* No member of a canonical package can be exchanged for what any run has put in
\* the review directory, manifest and all, but for a receipt of the same outcome
\* and the members that nothing verifies: for every number of runs, crashes, kills,
\* edits and overlaps.
THEOREM MembersBound == Spec => []MembersAreBound
<1>1. ASSUME IInv PROVE MembersAreBound
  <2> DEFINE m == out.members
  <2> SUFFICES ASSUME out # None, Canonical(out),
                      NEW n \in (DOMAIN review \cap DOMAIN m) \ Unverified(m),
                      review[n] # m[n], Canonical(Exchanged(n))
               PROVE  \E c \in Commands : n = Receipt(c) /\ SameOutcome(review[n], m[n])
    BY DEF MembersAreBound
  <2> DEFINE other == [m EXCEPT ![n] = review[n]]
  <2>1. /\ Whole(review) /\ Whole(m)
        /\ State \in DOMAIN m /\ m[State].status = Ready => TestManifest \in DOMAIN m /\ Listed(m)
        /\ n \in Names /\ n # Scratch /\ \A c \in Commands : n # Copied(c)
    BY <1>1 DEF IInv, Binding, Types, TypeOK, Names, Unverified
  <2>2. Exchanged(n).members = other
    BY DEF Exchanged, PackageOf
  <2>3. /\ RequiredJson \subseteq DOMAIN m /\ VerifyIndex(m[Index], m) /\ PackagedTestEvidenceHolds(m)
        /\ \A c \in Commands : PackagedReceiptHolds(m, c)
    BY DEF Canonical, Semantic
  <2>4. /\ VerifyIndex(other[Index], other) /\ PackagedTestEvidenceHolds(other)
        /\ \A c \in Commands : PackagedReceiptHolds(other, c)
    <3> HIDE DEF other
    <3>1. QED
      BY <2>2, Zenon DEF Canonical, Semantic
  <2>5. /\ DOMAIN other = DOMAIN m /\ other[n] = review[n]
        /\ \A k \in DOMAIN m : k # n => other[k] = m[k]
    OBVIOUS
  <2>6. n \in {Recorded(c) : c \in Commands} => m[State].status = Ready
    BY DEF Unverified
  <2> HIDE DEF m, other
  <2>7. /\ Indexed \subseteq DOMAIN m /\ Index \in DOMAIN m
        /\ \A k \in Indexed : Listing(m[Index], k) = m[k] /\ Listing(other[Index], k) = other[k]
        /\ \A k \in DOMAIN m[TestManifest].entries : Content(m[TestManifest].entries[k]) = m[k]
        /\ \A k \in DOMAIN other[TestManifest].entries :
             Content(other[TestManifest].entries[k]) = other[k]
    BY <2>3, <2>4, AgreeingContents DEF RequiredJson
  <2>8. \A c \in Commands : /\ Receipt(c) \in DOMAIN m
                            /\ {Output(c), ExitFile(c), Recorded(c)} \subseteq DOMAIN m
    BY <2>1, <2>3 DEF PackagedReceiptHolds, Whole
  <2>9. \A c \in Commands :
          /\ m[Receipt(c)].output = Sha(m[Output(c)]) /\ m[Receipt(c)].exit = Sha(m[ExitFile(c)])
          /\ m[Receipt(c)].code = m[ExitFile(c)].code
          /\ other[Receipt(c)].output = Sha(other[Output(c)])
          /\ other[Receipt(c)].exit = Sha(other[ExitFile(c)])
          /\ other[Receipt(c)].code = other[ExitFile(c)].code
    BY <2>3, <2>4, <2>5, <2>8, ReceiptsHold
  <2>10. ASSUME n \in Indexed PROVE FALSE
    <3>1. other[Index] = m[Index]
      BY <2>5, <2>7, <2>10, IndexedNames
    <3>2. QED
      BY <2>5, <2>7, <2>10, <3>1
  <2>11. ASSUME n = Index PROVE FALSE
    <3>1. \A k \in Indexed : other[k] = m[k]
      BY <2>5, <2>7, <2>11, IndexedNames
    <3>2. \A k \in Indexed : Listing(review[Index], k) = Listing(m[Index], k)
      BY <2>5, <2>7, <2>11, <3>1
    <3>3. /\ review[Index] = BuildIndex([k \in Indexed |-> Listing(review[Index], k)])
          /\ m[Index] = BuildIndex([k \in Indexed |-> Listing(m[Index], k)])
      BY <2>1, <2>7, <2>11 DEF Whole
    <3>4. [k \in Indexed |-> Listing(review[Index], k)] = [k \in Indexed |-> Listing(m[Index], k)]
      BY <3>2
    <3>5. review[Index] = m[Index]
      BY <3>3, <3>4
    <3>6. QED
      BY <2>11, <3>5 DEF m
  <2>12. ASSUME NEW c \in Commands, n \in {Output(c), ExitFile(c)} PROVE FALSE
    <3>1. other[Receipt(c)] = m[Receipt(c)]
      BY <2>5, <2>8, <2>12, KindsOfNamesDiffer
    <3>2. CASE n = Output(c)
      BY <2>5, <2>9, <3>1, <3>2, ShaInjective DEF m
    <3>3. CASE n = ExitFile(c)
      BY <2>5, <2>9, <3>1, <3>3, ShaInjective DEF m
    <3>4. QED
      BY <2>12, <3>2, <3>3
  <2>13. ASSUME NEW c \in Commands, n = Recorded(c) PROVE FALSE
    <3>1. n \in TestEvidence /\ {State, TestManifest} \subseteq Indexed
      BY <2>13 DEF TestEvidence, Indexed
    <3>2. n \in DOMAIN m[TestManifest].entries
      BY <2>1, <2>6, <2>7, <2>13, <3>1 DEF Listed
    <3>3. other[TestManifest] = m[TestManifest]
      BY <2>5, <2>7, <3>1, TestEvidenceNames DEF Singles
    <3>4. QED
      BY <2>5, <2>7, <3>2, <3>3 DEF m
  <2>14. ASSUME NEW c \in Commands, n = Receipt(c) PROVE SameOutcome(review[n], m[n])
    <3>1. other[Output(c)] = m[Output(c)] /\ other[ExitFile(c)] = m[ExitFile(c)]
      BY <2>5, <2>8, <2>14, KindsOfNamesDiffer
    <3>2. QED
      BY <2>5, <2>9, <2>14, <3>1 DEF SameOutcome
  <2>15. QED
    BY <2>1, <2>10, <2>11, <2>12, <2>13, <2>14 DEF Names, TestEvidence, m
<1>2. QED
  BY <1>1, Invariance, PTL
=============================================================================
