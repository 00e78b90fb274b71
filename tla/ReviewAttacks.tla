--------------------------- MODULE ReviewAttacks ---------------------------
(* The harness attacks its own verifiers: the 18 attacks of the negative    *)
(* exploit matrix, which every review package carries the outcome of, and   *)
(* the C3-R1 form of a package with its six mutants.  An attack builds a    *)
(* broken artifact, hands it to the production verifier and is detected     *)
(* when the verifier refuses it.                                            *)
EXTENDS ReviewArtifacts

(* --------------------------- the scratch directory ---------------------- *)
\* What the attacks leave under the review directory when its removal fails:
\* the .git of the scratch repository, the review census of attack 9.
CleanScratch == [git |-> FALSE, census |-> FALSE]

Original == [text |-> "original"]
Tampered == [text |-> "tampered"]
OldPhase == "R6"

AllPass == [g \in GateNames |-> Pass]
SomeDir == [n \in Indexed |-> Original]

(* ------------------------------ the attacks ----------------------------- *)
HashLengthInvalid ==
  ~ IndexLoads([hashes |-> [n \in Indexed |-> Malformed]])

HashMismatch ==
  ~ VerifyIndex(BuildIndex(SomeDir), [SomeDir EXCEPT ![State] = Tampered])

TestEvidenceFileMissing ==
  ~ VerifyTestEvidence([entries |-> [n \in {Output("pytest")} |-> Sha(Original)]], << >>)

TestEvidenceHashMismatch ==
  LET written == [n \in {Output("pytest")} |-> Original] IN
  ~ VerifyTestEvidence(TestEvidenceManifest(written), [written EXCEPT ![Output("pytest")] = Tampered])

ReceiptMissing == DOMAIN CommandEvidenceManifest(<< >>).valid # Commands

ReceiptSchemaInvalid == ~ ReceiptIsValid([output |-> Malformed, gate |-> "absent"])

\* The receipt names its output relative to the receipts directory, the reader
\* resolves the name in the directory above, where there is no such file: the
\* receipt is refused before any digest is compared.
OutputHashMismatch ==
  LET written == [n \in {<<"pytest", "output">>, Receipt("pytest")} |->
                    IF n = Receipt("pytest") THEN CommandReceipt(0, Original, 0, "receipts")
                    ELSE Tampered] IN
  "pytest" \in CommandEvidenceManifest(written).invalid

\* The package of attacks 8 and 14.  Of its members the manifest declares the
\* first four, but counts five; it has no command receipts; and nine of the
\* hashes of its index are placeholders.
AttackZip(summary, gates) ==
  LET candidate == CandidateState(AllPass, FALSE)
      declared == [n \in {State, Summary, GateSummary, Decision} |->
                     CASE n = State -> candidate.state [] n = Summary -> summary
                       [] n = GateSummary -> gates [] OTHER -> candidate.decision]
      scm == [commit |-> "placeholder", tree |-> "absent"]
      idx == [phase |-> CurrentPhase, chain |-> Malformed,
              hashes |-> [n \in Indexed |-> IF n \in DOMAIN declared THEN Sha(declared[n])
                                            ELSE Sha([placeholder |-> TRUE])]]
      others == [n \in RequiredJson \ DOMAIN declared |->
                   CASE n = Index -> idx [] n = Location -> [gate |-> "absent"]
                     [] n = TestManifest -> [entries |-> << >>]
                     [] n = CommandManifest -> [missing |-> {}, invalid |-> {}, valid |-> << >>]
                     [] n = Matrix -> [undetected |-> {}]
                     [] OTHER -> scm] IN
  [PackageOf(Overlay(others, declared), {}) EXCEPT
     !.declared = [n \in DOMAIN declared |-> Sha(declared[n])], !.count = 5]

CleanLog == [collected |-> TRUE, counts |-> {"passed"}]

SummaryLogMismatch ==
  ~ Semantic(AttackZip([run |-> 0, pytest |-> [CleanLog EXCEPT !.counts = {"passed", "failed"}],
                        checkers |-> TRUE, gate |-> Pass],
                       CandidateState(AllPass, FALSE).summary))

GateSummaryPending ==
  ~ Semantic(AttackZip([run |-> 0, pytest |-> CleanLog, checkers |-> TRUE, gate |-> Pass],
                       [phase |-> CurrentPhase, all |-> FALSE, terminal |-> Fail,
                        gates |-> [AllPass EXCEPT !["package_semantic"] = "PENDING"]]))

\* The receipt is made over two files, then a third appears, unless an earlier
\* attack's directory was never removed and has all three already.
LocationCountMismatch(scratch) ==
  LET two == {<<"a">>, <<"b">>}
      three == two \cup {<<"c">>} IN
  ~ VerifyReviewLocation(ReviewLocation(IF scratch.census THEN three ELSE two), three)

CommitMismatch == ~ RefExists({"original"}, "fabricated")
TreeMismatch == ~ RefExists({"original"}, "deadbeef")

\* A file edited after the commit: the snapshot must still show the commit's.
WorkingTreeInjection == GitSnapshot("original").files.at = "original"

PhaseMismatch == ~ PhaseAccepted(OldPhase)

DecisionContradiction ==
  LET candidate == CandidateState(AllPass, FALSE) IN
  ~ CandidateIsConsistent([candidate.state EXCEPT !.status = "WRONG_STATUS"],
                          candidate.summary, candidate.decision)

PassInjection ==
  CandidateState([AllPass EXCEPT !["scm_snapshot_binding"] = Fail], FALSE).summary.terminal = Fail

ZipMutation ==
  LET sealed == PackageOf([n \in {<<"f">>} |-> Original], {}) IN
  ~ Structural([sealed EXCEPT !.members = [n \in {<<"f">>, <<"extra">>} |-> Original]])

\* Nothing refuses the flag here: the attack looks whether it was kept.
P3WithReviewPending == CandidateState(AllPass, TRUE).state.p3

Attacks == 1..18
LocationAttack == 9

Detected ==
  <<HashLengthInvalid, HashMismatch, TestEvidenceFileMissing, TestEvidenceHashMismatch,
    ReceiptMissing, ReceiptSchemaInvalid, OutputHashMismatch, SummaryLogMismatch,
    LocationCountMismatch(CleanScratch), CommitMismatch, TreeMismatch, WorkingTreeInjection,
    PhaseMismatch, GateSummaryPending, DecisionContradiction, PassInjection, ZipMutation,
    P3WithReviewPending>>

\* The matrix names every attack that went undetected.
ExploitMatrix(scratch) ==
  [undetected |-> {a \in Attacks : ~ Detected[a]}
                    \cup {a \in {LocationAttack} : ~ LocationCountMismatch(scratch)}]
ExploitGate(matrix) == Gate(matrix.undetected = {})

(* ------------------------- C3-R1: the self entry ------------------------ *)
BuildC3R1(payloads) == [PackageOf(payloads, {}) EXCEPT !.self = "manifest"]

\* A mutated form: any self entry will do.
SomeSelfEntry(zip) == zip.self # "none" /\ zip.manifests > 0

\* There must be a self entry and it must point at the manifest.  No declared
\* file may be the manifest itself, and the manifest must be there at all: how
\* often is reported and not judged.
SelfEntryIsRight(zip) ==
  /\ zip.self = "manifest"
  /\ <<"manifest">> \notin DOMAIN zip.declared
  /\ zip.manifests > 0

VerifyC3R1(zip) == Structural(zip) /\ SelfEntryIsRight(zip)

WrongTarget(zip) == [zip EXCEPT !.self = "other"]
NoSelfEntry(zip) == [zip EXCEPT !.self = "none"]
UndeclaredMember(zip) ==
  [zip EXCEPT !.members = Overlay(@, [n \in {<<"undeclared">>} |-> Original])]
AbsentMember(zip) ==
  [zip EXCEPT !.declared = Overlay(@, [n \in {<<"absent">>} |-> Sha(Original)]), !.count = @ + 1]
WrongDigest(zip) ==
  LET n == CHOOSE x \in DOMAIN zip.declared : TRUE IN
  [zip EXCEPT !.declared[n] = Sha(Tampered)]
WrittenTwice(zip) == [zip EXCEPT !.twice = {CHOOSE n \in DOMAIN zip.members : TRUE}]

Mutants(zip) == <<WrongTarget(zip), NoSelfEntry(zip), UndeclaredMember(zip),
                  AbsentMember(zip), WrongDigest(zip), WrittenTwice(zip)>>

\* The mutants are only built from a clean package that passes.
MutantsDetected(payloads) ==
  LET clean == BuildC3R1(payloads) IN
  /\ VerifyC3R1(clean)
  /\ \A i \in 1..6 : ~ VerifyC3R1(Mutants(clean)[i])
=============================================================================
