--------------------------- MODULE ReviewPackage ---------------------------
(* How a review package comes to be: run_pipeline writes the evidence into  *)
(* the review directory stage by stage, review build packs the directory    *)
(* with the sources of two commits and judges the result, review seal signs *)
(* a package from outside.  All of them share one review directory and one  *)
(* output path, without a lock, and each reads again what it wrote before.  *)
EXTENDS ReviewAttacks

CONSTANTS
  MaxRuns,          \* bound: runs of run_pipeline and review build together
  MaxPipelines,     \* bound: of these, runs of run_pipeline
  MaxDisturbances,  \* bound: edits, faults and overlaps together
  Versions,         \* the states a repository can be in
  Initial,          \* the first of them
  Colliding,        \* versions with two paths that differ only in case
  PytestOutcomes,   \* [prints, collected, counts, code]: how a pytest run can end
  CheckerOutcomes   \* [prints, code]: how a static checker can

ASSUME RunsAssumption == MaxRuns \in Nat
ASSUME VersionsAssumption == Initial \in Versions /\ Colliding \subseteq Versions

VARIABLES
  tree, head,       \* per repository: the working tree and the checked-out commit
  history,          \* per repository: its commits
  review,           \* the review directory: file name -> content
  out, sidecar,     \* the package at the output path, and its .sha256 file
  receipt,          \* the external seal receipt
  run,              \* per run: what it was asked, where it is, what it remembers
  sealer,           \* the sealing process, the same
  intrusions,       \* edits and overlaps, spent of the bound
  faults,           \* the same for faults
  overlapped,       \* observer: two pipelines were active at once
  swapped           \* observer: the package was replaced under a reader

vars == <<tree, head, history, review, out, sidecar, receipt, run, sealer,
          intrusions, faults, overlapped, swapped>>
world == <<tree, head, history>>
package == <<out, sidecar, receipt, sealer, swapped>>
observed == <<intrusions, faults, overlapped>>

Runs == 1..MaxRuns
Kinds == {"build", "given"}
None == [none |-> TRUE]
Active == {i \in Runs : run[i].at \notin {"new", "ended"}}
Started == {i \in Runs : run[i].at # "new"}
MayDisturb == intrusions + faults < MaxDisturbances

Init ==
  /\ tree = [r \in Repos |-> Initial] /\ head = tree
  /\ history = [r \in Repos |-> {Initial}]
  /\ review = << >> /\ out = None /\ sidecar = None /\ receipt = None
  /\ run = [i \in Runs |-> [at |-> "new"]] /\ sealer = [at |-> "idle"]
  /\ intrusions = 0 /\ faults = 0
  /\ overlapped = FALSE /\ swapped = FALSE

(* ----------------------------- starting a run --------------------------- *)
\* git status --porcelain prints nothing.
WorkingTreeClean(r) == tree[r] = head[r]

\* A mutated form: nobody asks git whether the commit is there.
AskedUnchecked(kind, refs) ==
  /\ \A r \in Repos : WorkingTreeClean(r)
  /\ kind = "given" => DOMAIN review # {}

\* --review-artifacts hands over a directory as it is ("given"); without it the
\* pipeline runs first ("build").
Asked(kind, refs) ==
  /\ \A r \in Repos : RefExists(history[r], refs[r]) /\ WorkingTreeClean(r)
  /\ kind = "given" => DOMAIN review # {}

Pipelines == {i \in Started : run[i].kind # "given"}

Start(i) ==
  /\ Started = 1..(i - 1)
  /\ Active # {} => MayDisturb
  /\ intrusions' = intrusions + IF Active = {} THEN 0 ELSE 1
  /\ \E kind \in Kinds, refs \in [Repos -> Versions] :
       /\ Asked(kind, refs)
       /\ kind # "given" => Cardinality(Pipelines) < MaxPipelines
       /\ run' = [run EXCEPT ![i] =
            [kind |-> kind, refs |-> refs, todo |-> Commands, failed |-> FALSE,
             gates |-> AllPass, at |-> IF kind = "given" THEN "payload" ELSE "commands"]]
       /\ overlapped' = (overlapped \/ (kind # "given" /\ Active \cap Pipelines # {}))
  /\ UNCHANGED <<world, package, review, faults>>

Goto(i, stage) == run' = [run EXCEPT ![i].at = stage]
Finish(i, result) ==
  run' = [run EXCEPT ![i] = [at |-> "ended", kind |-> @.kind, refs |-> @.refs, result |-> result]]
Write(files) == review' = Overlay(review, files)

(* --------------------------- stages 1 and 2 ----------------------------- *)
\* The commands run one by one.  What each prints is what is read from it and
\* prints, which stands for the rest: two runs can print the same or not.
\* A command that cannot start or times out has exit code -1.
Outcomes(c) ==
  IF c = "pytest" THEN PytestOutcomes
  ELSE {[prints |-> x.prints, collected |-> FALSE, counts |-> {}, code |-> x.code] :
          x \in CheckerOutcomes}
Printed(result) ==
  [prints |-> result.prints, collected |-> result.collected, counts |-> result.counts]

NextCommand(i) == IF "pytest" \in run[i].todo THEN "pytest" ELSE CHOOSE c \in run[i].todo : TRUE

RunCommand(i) ==
  /\ run[i].at = "commands"
  /\ LET c == NextCommand(i)
         rest == run[i].todo \ {c} IN
     /\ \E result \in Outcomes(c) :
          Write(Recording(c, i, Printed(result), result.code))
     /\ run' = [run EXCEPT ![i].todo = rest,
                             ![i].at = IF rest = {} THEN "evidence" ELSE "commands"]
  /\ UNCHANGED <<world, package, observed>>

\* How far the recording of a command can come before a file cannot be written.
Partial(c) == {{}, {Output(c)}, {Output(c), ExitFile(c)}, {Output(c), ExitFile(c), Recorded(c)},
               {Output(c), ExitFile(c), Recorded(c), Receipt(c)}}

\* A file of the command cannot be written: the exception ends the stage, not
\* the pipeline, and what is already written stays.
CommandStageFails(i) ==
  /\ run[i].at = "commands" /\ MayDisturb
  /\ LET c == NextCommand(i) IN
     \E result \in Outcomes(c), names \in Partial(c) :
       Write(Part(Recording(c, i, Printed(result), result.code), names))
  /\ run' = [run EXCEPT ![i].at = "evidence", ![i].failed = TRUE]
  /\ faults' = faults + 1
  /\ UNCHANGED <<world, package, intrusions, overlapped>>

(* --------------------------- stages 3, 4 and 5 -------------------------- *)
\* Manifests of the receipts and of the test evidence, the summary, and the
\* gates that are kept in memory until the candidate state is written.
WriteEvidence(i) ==
  /\ run[i].at = "evidence"
  /\ LET receipts == CommandEvidenceManifest(review)
         summary == VerificationSummary(review, i) IN
     /\ Write([n \in {CommandManifest, TestManifest, Summary} |->
                 CASE n = CommandManifest -> receipts
                   [] n = TestManifest -> TestEvidenceManifest(review)
                   [] n = Summary -> summary])
     /\ run' = [run EXCEPT ![i].at = "attacks",
          ![i].gates["command_receipt"] = CommandGate(receipts),
          ![i].gates["test_evidence"] = Gate(SummaryIsClean(summary.pytest)),
          ![i].gates["implementation"] = Gate(summary.pytest.collected /\ summary.checkers)]
  /\ UNCHANGED <<world, package, observed>>

(* ----------------------------- stages 6 and 7 --------------------------- *)
LeftScratch == IF Scratch \in DOMAIN review THEN review[Scratch] ELSE CleanScratch

\* The attacks need a fresh directory: in a repository left from before there
\* is nothing to commit, and the pipeline ends with an exception.
AttacksRaise(i) ==
  /\ run[i].at = "attacks" /\ LeftScratch.git
  /\ Finish(i, "raised")
  /\ UNCHANGED <<world, package, review, observed>>

\* The removal of the scratch directory can fail, and nobody looks whether it
\* did.  The location receipt is a census of the directory as it is now.
RunAttacks(i) ==
  /\ run[i].at = "attacks" /\ ~ LeftScratch.git
  /\ LET matrix == ExploitMatrix(LeftScratch) IN
     /\ \E left \in {CleanScratch} \cup
                    (IF MayDisturb THEN [git : BOOLEAN, census : BOOLEAN] ELSE {}) :
          LET names == ((DOMAIN review \cup {Matrix}) \ {Scratch})
                         \cup {n \in {Scratch} : left # CleanScratch} IN
          /\ review' = [n \in names \cup {Location} |->
                          CASE n = Matrix -> matrix [] n = Scratch -> left
                            [] n = Location -> ReviewLocation(names) [] OTHER -> review[n]]
          /\ faults' = faults + IF left = CleanScratch THEN 0 ELSE 1
     /\ run' = [run EXCEPT ![i].at = "scm",
          ![i].gates["negative_exploit"] = ExploitGate(matrix)]
  /\ UNCHANGED <<world, package, intrusions, overlapped>>

(* --------------- provenance, snapshots, candidate state, index ---------- *)
WriteScm(i) ==
  /\ run[i].at = "scm"
  /\ Write([n \in {Report} \cup {Scm(r) : r \in Repos} \cup {Snapshot(r) : r \in Repos} |->
       CASE n = Report -> [run |-> i]
         [] n \in {Scm(r) : r \in Repos} -> ScmRecord(run[i].refs[n[2]])
         [] OTHER -> SnapshotManifest(GitSnapshot(run[i].refs[n[2]]))])
  /\ Goto(i, "candidate")
  /\ UNCHANGED <<world, package, observed>>

\* The gates nobody has computed yet are written as PASS.
WriteCandidate(i) ==
  /\ run[i].at = "candidate"
  /\ LET candidate == CandidateState(run[i].gates, FALSE) IN
     Write([n \in {State, GateSummary, Decision} |->
              CASE n = State -> candidate.state [] n = GateSummary -> candidate.summary
                [] n = Decision -> candidate.decision])
  /\ Goto(i, "index")
  /\ UNCHANGED <<world, package, observed>>

PipelineOk(i) == ~ run[i].failed /\ \A g \in GateNames : run[i].gates[g] = Pass

\* A mutated form: the report is written after the index that lists it.
WriteIndexThenReport(i) ==
  /\ run[i].at = "index"
  /\ Write([n \in {Index, Report} |->
        IF n = Index THEN BuildIndex(review) ELSE [run |-> i, final |-> TRUE]])
  /\ IF PipelineOk(i) THEN Goto(i, "payload") ELSE Finish(i, "not ok")
  /\ UNCHANGED <<world, package, observed>>

WriteIndex(i) ==
  /\ run[i].at = "index"
  /\ Write([n \in {Index} |-> BuildIndex(review)])
  /\ IF PipelineOk(i) THEN Goto(i, "payload") ELSE Finish(i, "not ok")
  /\ UNCHANGED <<world, package, observed>>

(* ------------------------- the rest of review build --------------------- *)
\* Whoever reads the package and has not finished with it.
Reading(i) ==
  \/ \E j \in Active \ {i} : run[j].at \in {"check", "sidecar"}
  \/ sealer.at # "idle"

\* The package is on disk before it is known whether it is any good.
WritePackage(i) ==
  /\ run[i].at = "payload"
  /\ out' = BuildPackage(review, run[i].refs)
  /\ swapped' = (swapped \/ Reading(i))
  /\ IF PackageIsOk(run[i].refs, Colliding) THEN Goto(i, "check") ELSE Finish(i, "not built")
  /\ UNCHANGED <<world, review, sidecar, receipt, sealer, observed>>

\* A mutated form: the semantic verifier is not asked.
CheckStructureOnly(i) ==
  /\ run[i].at = "check"
  /\ IF Structural(out) THEN Goto(i, "sidecar") ELSE Finish(i, "rejected")
  /\ UNCHANGED <<world, package, review, observed>>

CheckPackage(i) ==
  /\ run[i].at = "check"
  /\ IF Canonical(out) THEN Goto(i, "sidecar") ELSE Finish(i, "rejected")
  /\ UNCHANGED <<world, package, review, observed>>

WriteSidecar(i) ==
  /\ run[i].at = "sidecar"
  /\ sidecar' = Sha(out)
  /\ Finish(i, "ok")
  /\ UNCHANGED <<world, review, out, receipt, sealer, swapped, observed>>

(* ------------------------------ review seal ----------------------------- *)
\* review seal reads the package once to judge and to describe it, once more
\* for the digest on the receipt, and a third time for the sidecar.
SealRead ==
  /\ sealer.at = "idle" /\ out # None /\ receipt = None
  /\ sealer' = [at |-> "digest", bytes |-> out]
  /\ UNCHANGED <<world, review, out, sidecar, receipt, run, observed, swapped>>

SealDigest ==
  /\ sealer.at = "digest"
  /\ sealer' = IF Structural(out) /\ Canonical(sealer.bytes)
               THEN [at |-> "receipt", bytes |-> sealer.bytes, digest |-> Sha(out)]
               ELSE [at |-> "idle"]
  /\ UNCHANGED <<world, review, out, sidecar, receipt, run, observed, swapped>>

SealWrite ==
  /\ sealer.at = "receipt"
  /\ receipt' = SealReceipt(sealer.bytes, sealer.digest)
  /\ sealer' = [sealer EXCEPT !.at = "sidecar"]
  /\ UNCHANGED <<world, review, out, sidecar, run, observed, swapped>>

SealSidecar ==
  /\ sealer.at = "sidecar"
  /\ sidecar' = Sha(out) /\ sealer' = [at |-> "idle"]
  /\ UNCHANGED <<world, review, out, receipt, run, observed, swapped>>

Seal == SealRead \/ SealDigest \/ SealWrite \/ SealSidecar

(* ----------------------------- the surroundings ------------------------- *)
\* Somebody edits the core repository, and commits it later.
Edit ==
  /\ MayDisturb /\ intrusions' = intrusions + 1
  /\ \E v \in Versions \ {tree["core"]} : tree' = [tree EXCEPT !["core"] = v]
  /\ UNCHANGED <<head, history, package, review, run, faults, overlapped>>

Commit ==
  /\ ~ WorkingTreeClean("core")
  /\ head' = [head EXCEPT !["core"] = tree["core"]]
  /\ history' = [history EXCEPT !["core"] = @ \cup {tree["core"]}]
  /\ UNCHANGED <<tree, package, review, run, observed>>

\* Somebody prepares the directory to be handed over with --review-artifacts: the
\* paths in its receipts are made relative to the package.  A directory as the
\* pipeline leaves it is refused as a package, because they are not.
Readdress ==
  /\ Active = {}
  /\ LET rewritten == {n \in DOMAIN review \cap {Receipt(c) : c \in Commands} :
                         review[n].base = "review"} IN
     /\ rewritten # {}
     /\ Write([n \in rewritten |-> [review[n] EXCEPT !.base = "package"]])
  /\ UNCHANGED <<world, package, run, observed>>

\* The process is killed, or a stage raises.
Crash(i) ==
  /\ i \in Active /\ MayDisturb
  /\ Finish(i, "crashed") /\ faults' = faults + 1
  /\ UNCHANGED <<world, package, review, intrusions, overlapped>>

Step(i) ==
  \/ RunCommand(i) \/ WriteEvidence(i) \/ AttacksRaise(i) \/ RunAttacks(i) \/ WriteScm(i)
  \/ WriteCandidate(i) \/ WriteIndex(i) \/ WritePackage(i) \/ CheckPackage(i) \/ WriteSidecar(i)

Next ==
  \/ \E i \in Runs : Start(i) \/ Step(i) \/ CommandStageFails(i) \/ Crash(i)
  \/ Seal \/ Edit \/ Commit \/ Readdress

Spec == Init /\ [][Next]_vars

(* ------------------------------ properties ------------------------------ *)
\* The variables keep their shapes; every name in the review directory is one
\* the pipeline writes, and every packaged commit is one the repository has.
TypeOK ==
  /\ \A r \in Repos : tree[r] \in Versions /\ head[r] \in history[r]
  /\ DOMAIN review \subseteq Indexed \cup TestEvidence \cup {Index, Scratch}
                              \cup {Receipt(c) : c \in Commands} \cup {Copied(c) : c \in Commands}
  /\ out # None => \A r \in Repos : out.members[Source(r)].at \in history[r]
  /\ \A i \in Started : /\ run[i].kind \in Kinds
                       /\ \A r \in Repos : run[i].refs[r] \in history[r]
  /\ sealer.at \in {"idle", "digest", "receipt", "sidecar"}

\* A package that calls itself READY and agrees with its own index and its test
\* manifest, canonical or not, holds the evidence of one run: its records,
\* outputs, exit codes, summary, report and provenance belong together, its
\* checkers passed, pytest was heard to pass and every attack was detected.  Two
\* ways lead around it: two pipelines at once, and a pipeline whose command stage
\* failed, which writes READY over the receipts of the run before and then ends
\* not ok.
Unearned(i, runs) == runs[i].at = "ended" /\ runs[i].result = "not ok"
Agrees(m) == Index \in DOMAIN m /\ VerifyIndex(m[Index], m) /\ PackagedTestEvidenceHolds(m)
ReadyIsEarned ==
  (out # None /\ ~ overlapped) =>
    LET m == out.members IN
    (Agrees(m) /\ m[State].status = Ready) =>
      LET i == m[Summary].run IN
      ~ Unearned(i, run) =>
        /\ \A c \in Commands : /\ {Recorded(c), Output(c), ExitFile(c)} \subseteq DOMAIN m
                               /\ m[Recorded(c)].run = i
                               /\ m[Recorded(c)].output = Sha(m[Output(c)])
                               /\ m[Recorded(c)].code = m[ExitFile(c)].code
        /\ \A c \in Commands \ {"pytest"} : m[ExitFile(c)].code = 0
        /\ SummaryIsClean(ParsedLog(m[Output("pytest")]))
        /\ m[Report].run = i
        /\ \A r \in Repos : m[Scm(r)].commit = run[i].refs[r]
        /\ m[Matrix].undetected = {}

\* verify-seal accepts a package only with the receipt that describes it in
\* every field, those included that it does not compare, unless the package
\* was replaced between the reads of review seal.
SealAcceptance ==
  (receipt # None /\ out # None /\ ~ swapped) =>
    (VerifySeal(out, receipt) => receipt = SealReceipt(out, Sha(out)))

\* A .sha256 file that matches the package stands beside a canonical package,
\* unless the package was replaced between the check and the writing of it.
SidecarCertifiesVerified ==
  (sidecar # None /\ ~ swapped) => (sidecar = Sha(out) => Canonical(out))

\* No member of a canonical package can be exchanged for what any run has put in
\* the review directory, manifest and all, whatever has crashed, failed or
\* overlapped.  Left out are the sources and the copies of the outputs, which
\* nothing verifies, and the records in the test evidence when the package is not
\* READY: then a manifest can be from before they were written.  A command receipt
\* can be exchanged, but only for one that states the same outcome.
Unverified(m) ==
  {Scratch} \cup {Copied(c) : c \in Commands}
    \cup {Recorded(c) : c \in IF m[State].status = Ready THEN {} ELSE Commands}
SameOutcome(one, other) ==
  one.output = other.output /\ one.exit = other.exit /\ one.code = other.code
Exchanged(n) == PackageOf([out.members EXCEPT ![n] = review[n]], {})
MembersAreBound ==
  (out # None /\ Canonical(out)) =>
    \A n \in (DOMAIN review \cap DOMAIN out.members) \ Unverified(out.members) :
      (review[n] # out.members[n] /\ Canonical(Exchanged(n))) =>
        \E c \in Commands : n = Receipt(c) /\ SameOutcome(review[n], out.members[n])

\* When a pipeline has ended by itself, the last file it wrote, the index,
\* describes the directory as it lies there, and so does the test manifest.
LastPipeline == CHOOSE i \in Pipelines : \A j \in Pipelines : j <= i
SettledDirectoryIsConsistent ==
  (Active = {} /\ Pipelines # {} /\ ~ overlapped) =>
    (run[LastPipeline].result \in {"ok", "not ok", "rejected", "not built"} =>
      /\ IndexLoads(review[Index]) /\ VerifyIndex(review[Index], review)
      /\ ChainHolds(review[Index])
      /\ VerifyTestEvidence(review[TestManifest], review)
      /\ CandidateIsConsistent(review[State], review[GateSummary], review[Decision]))

\* Every attack on the verifiers is detected as long as the scratch directory
\* of the attacks was always removed, and all but the one on the census if it was
\* not; and so is every C3-R1 mutant of the package, which itself is accepted in
\* its C3-R1 form.
NegativesAreDetected ==
  /\ Matrix \in DOMAIN review =>
       review[Matrix].undetected \subseteq IF faults = 0 THEN {} ELSE {LocationAttack}
  /\ out # None => MutantsDetected(out.members)

\* review build without --review-artifacts generates the directory itself: when
\* every gate of it passes and the package is built, it is not rejected.
BuildAcceptsItsOwnDirectory ==
  ~ overlapped => \A i \in Started : run[i].kind = "build" /\ run[i].at = "ended"
                                        => run[i].result # "rejected"

(* -------------------------- the inductive invariant --------------------- *)
Stages == {"commands", "evidence", "attacks", "scm", "candidate", "index",
           "payload", "check", "sidecar"}
Results == {"ok", "not ok", "not built", "rejected", "raised", "crashed"}
LiveRuns ==
  [at : Stages, kind : Kinds, refs : [Repos -> Versions], todo : SUBSET Commands,
   failed : BOOLEAN, gates : [GateNames -> {Pass, Fail}]]
EndedRuns == [at : {"ended"}, kind : Kinds, refs : [Repos -> Versions], result : Results]
RunRecords == [at : {"new"}] \cup LiveRuns \cup EndedRuns

Types ==
  /\ TypeOK
  /\ tree \in [Repos -> Versions] /\ head \in [Repos -> Versions]
  /\ history \in [Repos -> SUBSET Versions]
  /\ run \in [Runs -> RunRecords]
  /\ \A i \in Runs : run[i].at = "commands" => run[i].todo # {}
  /\ sealer.at = "receipt" => DOMAIN sealer = {"at", "bytes", "digest"}
  /\ intrusions \in Nat /\ faults \in Nat
  /\ overlapped \in BOOLEAN /\ swapped \in BOOLEAN

\* Unless the package was replaced under a reader, the sealing process has read
\* the package that lies there, whoever writes a .sha256 file has verified it,
\* and receipt and .sha256 file are of a package as it was then.
Sealing ==
  ~ swapped =>
    /\ sealer.at = "digest" => sealer.bytes = out
    /\ sealer.at = "receipt" => sealer.bytes = out /\ sealer.digest = Sha(out)
    /\ sealer.at \in {"receipt", "sidecar"} => Canonical(out)
    /\ \A i \in Runs : run[i].at = "sidecar" => Canonical(out)
    /\ sidecar # None => sidecar = Sha(sidecar.sha256) /\ Canonical(sidecar.sha256)
    /\ receipt # None => receipt = SealReceipt(receipt.zip.sha256, Sha(receipt.zip.sha256))

\* What the pipeline has written when a run is at a stage.
EvidenceWritten == {"attacks", "scm", "candidate", "index", "payload", "check", "sidecar"}
AttacksRun == EvidenceWritten \ {"attacks"}
ProvenanceWritten == AttacksRun \ {"scm"}
CandidateWritten == ProvenanceWritten \ {"candidate"}
IndexWritten == CandidateWritten \ {"index"}

\* A run has come past a stage, and has not died or raised since.
Past(i, stages) ==
  \/ run[i].at \in stages
  \/ run[i].at = "ended" /\ run[i].result \in {"ok", "not ok", "rejected", "not built"}

Last(i) == i \in Pipelines /\ \A j \in Pipelines : j <= i

\* Without an overlap only the pipeline started last is still active; a run over
\* a finished directory only packs and checks.
OneByOne ==
  /\ ~ overlapped => \A i \in Active \cap Pipelines : Last(i)
  /\ \A i \in Started : run[i].kind = "given" => run[i].at \in IndexWritten \cup {"ended"}
  /\ Pipelines # {} => \E i \in Pipelines : \A j \in Pipelines : j <= i

\* What lies in a directory when these are written.
EvidenceIn(dir) == /\ {TestManifest, CommandManifest, Summary} \subseteq DOMAIN dir
                   /\ VerifyTestEvidence(dir[TestManifest], dir)
AttacksIn(dir) == {Matrix, Location} \subseteq DOMAIN dir
ProvenanceIn(dir) ==
  {Report} \cup {Scm(r) : r \in Repos} \cup {Snapshot(r) : r \in Repos} \subseteq DOMAIN dir
CandidateIn(dir) == /\ {State, GateSummary, Decision} \subseteq DOMAIN dir
                    /\ CandidateIsConsistent(dir[State], dir[GateSummary], dir[Decision])
IndexIn(dir) == Index \in DOMAIN dir /\ dir[Index] = BuildIndex(dir)

\* Without an overlap the directory is as the last pipeline has left it so far.
Settling ==
  ~ overlapped => \A i \in Runs : Last(i) =>
    /\ Past(i, EvidenceWritten) => EvidenceIn(review)
    /\ Past(i, AttacksRun) => AttacksIn(review)
    /\ Past(i, ProvenanceWritten) => ProvenanceIn(review)
    /\ Past(i, CandidateWritten) => CandidateIn(review)
    /\ Past(i, IndexWritten) => IndexIn(review)

\* The entries of a test manifest, e, are what the commands of run i left.
Content(digest) == digest.sha256
EntriesAreOf(e, i) ==
  \A c \in Commands :
    /\ {Recorded(c), Output(c), ExitFile(c)} \subseteq DOMAIN e
    /\ Content(e[Recorded(c)]) = CommandReceipt(i, Content(e[Output(c)]),
                                               Content(e[ExitFile(c)]).code, "review")
CheckersPassed(e) == \A c \in Commands \ {"pytest"} : Content(e[ExitFile(c)]).code = 0
PytestPassed(e) == SummaryIsClean(ParsedLog(Content(e[Output("pytest")])))

\* What run i had its commands say, as the test manifest in the directory has it.
Heard(i) ==
  LET e == review[TestManifest].entries IN
  /\ review[Summary].run = i /\ EntriesAreOf(e, i)
  /\ run[i].gates["test_evidence"] = Pass => PytestPassed(e)
  /\ run[i].gates["implementation"] = Pass => CheckersPassed(e)

\* An index that lists a READY state lists the evidence of one run, which was
\* heard to pass, unless that run has ended not ok.
Listing(idx, n) == Content(idx.hashes[n])
Earned(idx, runs) ==
  LET i == Listing(idx, Summary).run
      e == Listing(idx, TestManifest).entries IN
  Listing(idx, State).status = Ready =>
    /\ i \in Runs /\ runs[i].at # "new"
    /\ Unearned(i, runs) \/
         /\ EntriesAreOf(e, i) /\ CheckersPassed(e) /\ PytestPassed(e)
         /\ Listing(idx, Report).run = i
         /\ \A r \in Repos : Listing(idx, Scm(r)).commit = runs[i].refs[r]
         /\ Listing(idx, Matrix).undetected = {}

\* Of a pipeline at work: what it has in the directory is its own, as far as its
\* command stage has not failed.
OwnEvidence(i) ==
  /\ run[i].at \in EvidenceWritten => review[Summary].run = i
  /\ run[i].at \in AttacksRun /\ run[i].gates["negative_exploit"] = Pass =>
       review[Matrix].undetected = {}
  /\ run[i].at \in ProvenanceWritten =>
       review[Report].run = i /\ \A r \in Repos : review[Scm(r)].commit = run[i].refs[r]
  /\ run[i].at \in CandidateWritten =>
       (review[State].status = Ready => \A g \in GateNames : run[i].gates[g] = Pass)
  /\ ~ run[i].failed =>
       /\ run[i].at = "evidence" => run[i].todo = {}
       /\ run[i].at \in {"commands", "evidence"} => \A c \in Commands \ run[i].todo :
            /\ {Recorded(c), Output(c), ExitFile(c)} \subseteq DOMAIN review
            /\ review[Recorded(c)] =
                 CommandReceipt(i, review[Output(c)], review[ExitFile(c)].code, "review")
       /\ run[i].at \in EvidenceWritten => Heard(i)

\* Without an overlap a pipeline hears its own commands, and what it says in the
\* end is what it heard.
Earning ==
  ~ overlapped =>
    /\ \A i \in Active \cap Pipelines : OwnEvidence(i)
    /\ Index \in DOMAIN review => Earned(review[Index], run)
    /\ out # None /\ Index \in DOMAIN out.members => Earned(out.members[Index], run)

\* No file and no member is what the attacks put in the place of one, and what is
\* undetected comes of a scratch directory that was not removed.
Attacking ==
  /\ faults = 0 => Scratch \notin DOMAIN review
  /\ Matrix \in DOMAIN review =>
       review[Matrix].undetected \subseteq IF faults = 0 THEN {} ELSE {LocationAttack}
  /\ \A n \in DOMAIN review : "text" \notin DOMAIN review[n]
  /\ out # None => /\ {Source(r) : r \in Repos} \subseteq DOMAIN out.members
                   /\ \A n \in DOMAIN out.members : "text" \notin DOMAIN out.members[n]
                   /\ {<<"manifest">>, <<"undeclared">>, <<"absent">>} \cap DOMAIN out.members = {}

\* A receipt lies beside the files of the command, and the index is written in
\* one go.
Whole(dir) ==
  /\ \A c \in Commands : Receipt(c) \in DOMAIN dir =>
       {Output(c), ExitFile(c), Recorded(c)} \subseteq DOMAIN dir
  /\ Index \in DOMAIN dir =>
       dir[Index] = BuildIndex([n \in Indexed |-> Listing(dir[Index], n)])

\* A READY state is written when every command had its receipt, and from then on
\* every test manifest lists all of the test evidence, overlapping or not.
Listed(dir) == TestEvidence \subseteq DOMAIN dir[TestManifest].entries
Manifested ==
  /\ TestManifest \in DOMAIN review =>
       DOMAIN review[TestManifest].entries \subseteq TestEvidence \cap DOMAIN review
  /\ \A i \in Active \cap Pipelines :
       run[i].at \in EvidenceWritten =>
         /\ TestManifest \in DOMAIN review
         /\ run[i].gates["command_receipt"] = Pass => Listed(review)
  /\ State \in DOMAIN review =>
       /\ TestManifest \in DOMAIN review
       /\ review[State].status = Ready => Listed(review)

Binding ==
  /\ Whole(review) /\ Manifested
  /\ out # None =>
       /\ Whole(out.members)
       /\ (State \in DOMAIN out.members /\ out.members[State].status = Ready) =>
            TestManifest \in DOMAIN out.members /\ Listed(out.members)

\* Every step of a run, of the sealing and of the surroundings keeps all of it.
IInv == Types /\ Sealing /\ OneByOne /\ Settling /\ Earning /\ Attacking /\ Binding
=============================================================================
