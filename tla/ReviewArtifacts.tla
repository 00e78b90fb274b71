-------------------------- MODULE ReviewArtifacts --------------------------
(* The review package as data: what the files of a review directory and the *)
(* members of a review package contain, how each is computed from the       *)
(* others, and the verifiers that accept or refuse a package.  Everything   *)
(* here is a function of its arguments; ReviewPackage holds the processes.  *)
(*                                                                          *)
(* A file name is a tuple and a content a record.  Sha is SHA-256, taken to *)
(* be injective: two contents have one digest only if they are equal.       *)
EXTENDS Integers, FiniteSets, Sequences

CONSTANTS
  Repos,        \* the two repositories: the harness core and the service pack
  Commands      \* REQUIRED_COMMAND_IDS: pytest and the static checkers

ASSUME CommandsAssumption == "pytest" \in Commands
ASSUME ReposAssumption == "core" \in Repos

Pass == "PASS"
Fail == "FAIL"
Gate(b) == IF b THEN Pass ELSE Fail
Sha(content) == [sha256 |-> content]
Malformed == [malformed |-> TRUE]      \* a string that is not 64 hex digits

(* ------------------------------- names --------------------------------- *)
Output(c)  == <<"test_evidence", c, "output">>       \* stdout and stderr
ExitFile(c) == <<"test_evidence", c, "exit">>
Recorded(c) == <<"test_evidence", c, "receipt">>
Receipt(c) == <<"command_receipts", c>>
Copied(c)  == <<"command_receipts", c, "output">>    \* stdout and stderr again
Scm(r)     == <<"scm", r>>
Snapshot(r) == <<"snapshot_manifest", r>>
Source(r)  == <<"source", r>>                        \* the repository's files
State == <<"review_candidate_state">>
GateSummary == <<"gate_summary">>
Decision == <<"review_decision">>
Index == <<"internal_review_index">>
Summary == <<"verification_summary">>
Location == <<"review_location_receipt">>
TestManifest == <<"test_evidence_manifest">>
CommandManifest == <<"command_evidence_manifest">>
Matrix == <<"negative_exploit_matrix">>
Report == <<"review_report">>
Scratch == <<"_negative_exploit_tmp">>

TestEvidence == {Output(c) : c \in Commands} \cup {ExitFile(c) : c \in Commands}
                  \cup {Recorded(c) : c \in Commands}
Indexed == {State, Report, Summary, GateSummary, Decision, Location,
            TestManifest, CommandManifest, Matrix}
             \cup {Scm(r) : r \in Repos} \cup {Snapshot(r) : r \in Repos}
RequiredJson == (Indexed \ {Report}) \cup {Index}

Overlay(f, g) == [n \in DOMAIN f \cup DOMAIN g |-> IF n \in DOMAIN g THEN g[n] ELSE f[n]]
Part(f, names) == [n \in DOMAIN f \cap names |-> f[n]]

(* ------------------- command receipts and test evidence ---------------- *)
\* One command's receipt.  run stands for the times it starts and ends with, by
\* which the receipts of two runs differ even if all else is the same; base is
\* the directory its artifact paths are relative to.
CommandReceipt(run, output, code, base) ==
  [run |-> run, output |-> Sha(output), exit |-> Sha([code |-> code]), code |-> code,
   base |-> base, gate |-> Gate(code = 0)]

ReceiptIsValid(rcpt) == rcpt.output # Malformed /\ rcpt.gate \in {Pass, Fail}

\* The files one command leaves: its raw output, its exit code, the receipt,
\* and copies of the receipt and of the output for the command manifest, which
\* reads the first of them.  The paths are relative to the review directory.
Recording(c, run, output, code) ==
  [n \in {Output(c), ExitFile(c), Recorded(c), Receipt(c), Copied(c)} |->
     CASE n \in {Output(c), Copied(c)} -> output
       [] n = ExitFile(c) -> [code |-> code]
       [] OTHER -> CommandReceipt(run, output, code, "review")]

\* A receipt counts when its schema holds, its paths lead to files of the review
\* directory, and its output and exit code are the files that lie there now.
ReceiptHolds(dir, c) ==
  /\ Receipt(c) \in DOMAIN dir
  /\ LET rcpt == dir[Receipt(c)] IN
       /\ ReceiptIsValid(rcpt)
       /\ rcpt.base = "review"
       /\ Output(c) \in DOMAIN dir /\ Sha(dir[Output(c)]) = rcpt.output
       /\ ExitFile(c) \in DOMAIN dir
            => Sha(dir[ExitFile(c)]) = rcpt.exit /\ dir[ExitFile(c)].code = rcpt.code

CommandEvidenceManifest(dir) ==
  LET missing == {c \in Commands : Receipt(c) \notin DOMAIN dir}
      valid == {c \in Commands : ReceiptHolds(dir, c)} IN
  [missing |-> missing, invalid |-> (Commands \ missing) \ valid,
   valid |-> [c \in valid |-> Sha(dir[Receipt(c)])]]

CommandGate(m) == Gate(DOMAIN m.valid = Commands /\ m.missing = {} /\ m.invalid = {})

TestEvidenceManifest(dir) ==
  [entries |-> [n \in TestEvidence \cap DOMAIN dir |-> Sha(dir[n])]]

VerifyTestEvidence(m, dir) ==
  /\ DOMAIN m.entries = TestEvidence \cap DOMAIN dir
  /\ \A n \in DOMAIN m.entries : m.entries[n] = Sha(dir[n])

(* ------------------------ what pytest is heard to say ------------------- *)
\* pytest prints "2 passed, 1 error in 0.1s", the outcomes in this
\* order.  The patterns of the summary parser want the number right after the
\* "=" signs, so only the first outcome of the line is counted.
\* And it looks for "errors": of a single error pytest says "1 error".
PytestOrder == <<"failed", "passed", "skipped", "error", "errors">>
Leading(counts) ==
  {PytestOrder[i] : i \in {j \in 1..5 \ {4} : /\ PytestOrder[j] \in counts
                                              /\ \A k \in 1..(j - 1) : PytestOrder[k] \notin counts}}
ParsedLog(output) == [collected |-> output.collected, counts |-> Leading(output.counts)]
NoLog == [collected |-> FALSE, counts |-> {}]

SummaryIsClean(parsed) ==
  parsed.collected /\ parsed.counts \cap {"failed", "errors", "skipped"} = {}

\* int(exit.txt), and 1 when the file is not there.
ReadExitCode(dir, c) == IF ExitFile(c) \in DOMAIN dir THEN dir[ExitFile(c)].code ELSE 1

ReadLog(dir) ==
  IF Output("pytest") \in DOMAIN dir THEN ParsedLog(dir[Output("pytest")]) ELSE NoLog

\* A mutated form: it is enough that the exit code of a checker is there.
CheckersRan(dir) == \A c \in Commands \ {"pytest"} : ExitFile(c) \in DOMAIN dir

CheckersPass(dir) == \A c \in Commands \ {"pytest"} : ReadExitCode(dir, c) = 0

\* run stands for generated_at, which no two summaries share.
VerificationSummary(dir, run) ==
  [run |-> run, pytest |-> ReadLog(dir), checkers |-> CheckersPass(dir),
   gate |-> Gate(SummaryIsClean(ReadLog(dir)) /\ CheckersPass(dir))]

(* --------------------------- location receipt --------------------------- *)
\* The census is of names and sizes, never of contents.
ReviewLocation(names) == [census |-> names, gate |-> Gate(names # {})]
VerifyReviewLocation(loc, names) == loc.census = names

(* ------------------------------ candidate state ------------------------- *)
GateNames == {"implementation", "scm_snapshot_binding", "command_receipt",
              "test_evidence", "internal_index", "negative_exploit",
              "package_structural", "package_semantic"}
Ready == "READY_FOR_INDEPENDENT_REVIEW"
NotReady == "NOT_READY_FOR_INDEPENDENT_REVIEW"
Tokens == {"PENDING", "N/A", "NOT_RUN", "SKIPPED", "PLACEHOLDER", "TODO"}
CurrentPhase == "R7-CR4"

PhaseAccepted(phase) == phase = CurrentPhase

CandidateState(gates, p3) ==
  LET all == \A g \in GateNames : gates[g] = Pass
      status == IF all THEN Ready ELSE NotReady IN
  [state |-> [phase |-> CurrentPhase, gates |-> gates, status |-> status,
              review |-> "PENDING", p3 |-> p3],
   summary |-> [phase |-> CurrentPhase, gates |-> gates, all |-> all, terminal |-> Gate(all)],
   decision |-> [phase |-> CurrentPhase, decision |-> Gate(all), status |-> status]]

CandidateIsConsistent(state, summary, decision) ==
  /\ state.status = IF summary.all THEN Ready ELSE NotReady
  /\ decision.status = state.status
  /\ ~ (decision.decision = Pass /\ \E g \in GateNames : summary.gates[g] = Fail)
  /\ \A g \in GateNames : state.gates[g] # "PENDING"

(* --------------------------- internal review index ---------------------- *)
BuildIndex(dir) ==
  LET hashes == [n \in Indexed |-> Sha(dir[n])] IN
  [phase |-> CurrentPhase, hashes |-> hashes, chain |-> Sha([phase |-> CurrentPhase, of |-> hashes])]

IndexLoads(idx) == DOMAIN idx.hashes = Indexed /\ \A n \in Indexed : idx.hashes[n] # Malformed
\* A mutated form: only the files the states are about.
VerifyIndexOfStates(idx, dir) ==
  \A n \in {State, GateSummary, Decision} : n \in DOMAIN dir /\ idx.hashes[n] = Sha(dir[n])

VerifyIndex(idx, dir) ==
  \A n \in Indexed : n \in DOMAIN dir /\ idx.hashes[n] = Sha(dir[n])
ChainHolds(idx) == idx.chain = Sha([phase |-> idx.phase, of |-> idx.hashes])

(* ------------------------------ git snapshots --------------------------- *)
\* The objects of a repository are commits; a snapshot reads only them.
RefExists(history, commit) == commit \in history
GitSnapshot(commit) == [commit |-> commit, tree |-> [of |-> commit], files |-> [at |-> commit]]
\* The manifest lists every tracked file as included, whatever the package
\* scope leaves out.
SnapshotManifest(snap) == [commit |-> snap.commit, tree |-> snap.tree, files |-> snap.files]
ScmRecord(commit) == [commit |-> commit, tree |-> GitSnapshot(commit).tree]

(* -------------------------------- the package --------------------------- *)
\* A ZIP: its members, the digests its manifest declares and how many it says
\* they are, members written twice, the manifest entries, other odd entries
\* (links, directories, absolute paths, excluded names, secrets) and, for the
\* C3-R1 form, where the manifest's self entry points.
PackageOf(members, odd) ==
  [members |-> members, declared |-> [n \in DOMAIN members |-> Sha(members[n])],
   count |-> Cardinality(DOMAIN members), twice |-> {}, manifests |-> 1,
   odd |-> odd, self |-> "none"]

\* Scratch repositories left in the review directory carry .git names.
OddEntries(dir) == IF Scratch \in DOMAIN dir /\ dir[Scratch].git THEN {"excluded"} ELSE {}

BuildPackage(dir, commits) ==
  PackageOf(Overlay(dir, [n \in {Source(r) : r \in Repos} |-> [at |-> commits[n[2]]]]),
            OddEntries(dir))

\* Exact or case-insensitive duplicate paths are reported once the ZIP is on disk.
PackageIsOk(commits, colliding) == \A r \in Repos : commits[r] \notin colliding

Structural(zip) ==
  /\ zip.manifests > 0
  /\ zip.count = Cardinality(DOMAIN zip.declared)
  /\ DOMAIN zip.members = DOMAIN zip.declared
  /\ zip.twice = {} /\ zip.odd = {}
  /\ \A n \in DOMAIN zip.members : zip.declared[n] = Sha(zip.members[n])

(* ---------------------------- semantic verifier ------------------------- *)
\* The paths of a packaged receipt are relative to the package, and what it says
\* of its output and exit code is compared with the members.  Its own digest,
\* which the command manifest lists, is compared with nothing.
PackagedReceiptHolds(m, c) ==
  /\ Receipt(c) \in DOMAIN m
  /\ LET rcpt == m[Receipt(c)] IN
       /\ ReceiptIsValid(rcpt)
       /\ rcpt.base = "package"
       /\ Output(c) \in DOMAIN m /\ rcpt.output = Sha(m[Output(c)])
       /\ ExitFile(c) \in DOMAIN m
            => rcpt.exit = Sha(m[ExitFile(c)]) /\ rcpt.code = m[ExitFile(c)].code

\* Every entry of the test manifest is a member; members it does not list pass.
PackagedTestEvidenceHolds(m) ==
  \A n \in DOMAIN m[TestManifest].entries :
     n \in DOMAIN m /\ m[TestManifest].entries[n] = Sha(m[n])

PackagedExploitsHold(m) == m[Matrix].undetected = {}

ScmIsBound(m) ==
  \A r \in Repos : /\ m[Scm(r)].commit = m[Snapshot(r)].commit
                   /\ m[Scm(r)].tree = m[Snapshot(r)].tree

NoForbiddenToken(m) ==
  /\ \A g \in GateNames : /\ m[State].gates[g] \notin Tokens
                          /\ m[GateSummary].gates[g] \notin Tokens
  /\ m[GateSummary].terminal \notin Tokens /\ m[Decision].decision \notin Tokens
  /\ m[Summary].gate \notin Tokens /\ m[Location].gate \notin Tokens

PhaseHolds(m) == \A n \in {State, GateSummary, Decision, Index} : PhaseAccepted(m[n].phase)

Semantic(zip) ==
  LET m == zip.members IN
  /\ RequiredJson \subseteq DOMAIN m
  /\ \A c \in Commands : PackagedReceiptHolds(m, c)
  /\ IndexLoads(m[Index]) /\ VerifyIndex(m[Index], m)
  /\ CandidateIsConsistent(m[State], m[GateSummary], m[Decision])
  /\ SummaryIsClean(m[Summary].pytest)
  /\ PackagedTestEvidenceHolds(m) /\ PackagedExploitsHold(m)
  /\ ScmIsBound(m) /\ NoForbiddenToken(m) /\ PhaseHolds(m)

Canonical(zip) == Structural(zip) /\ Semantic(zip)

(* --------------------------- seal and verify-seal ----------------------- *)
\* The terminal verdict, from the package's own candidate state.
TerminalGate(structural, semantic, state) ==
  Gate(structural /\ semantic /\ state.status = Ready /\ state.review = "PENDING"
         /\ ~ state.p3 /\ PhaseAccepted(state.phase))

\* bytes is what was parsed and judged, digest the digest put on the receipt.
SealReceipt(bytes, digest) ==
  LET m == bytes.members IN
  [phase |-> m[State].phase, terminal |-> TerminalGate(TRUE, TRUE, m[State]),
   zip |-> digest, manifest |-> Sha(bytes.declared), index |-> Sha(m[Index]),
   state |-> Sha(m[State]), summary |-> Sha(m[Summary]), gates |-> Sha(m[GateSummary]),
   report |-> Sha(m[Report]), commits |-> [r \in Repos |-> m[Scm(r)].commit]]

\* A mutated form: the digest of the package itself is not compared.
VerifySealLoosely(zip, receipt) ==
  LET m == zip.members IN
  /\ Structural(zip) /\ Semantic(zip)
  /\ Sha(m[State]) = receipt.state
  /\ TerminalGate(Structural(zip), Semantic(zip), m[State]) = receipt.terminal

\* Of the receipt, verify-seal compares the package digest, the state digest,
\* the phase and the verdict; it recomputes everything else from the package.
VerifySeal(zip, receipt) ==
  LET m == zip.members IN
  /\ Sha(zip) = receipt.zip
  /\ Structural(zip) /\ Semantic(zip)
  /\ VerifyIndex(m[Index], m) /\ ChainHolds(m[Index])
  /\ Sha(m[State]) = receipt.state
  /\ PhaseAccepted(m[State].phase) /\ PhaseAccepted(receipt.phase)
  /\ ScmIsBound(m)
  /\ CandidateIsConsistent(m[State], m[GateSummary], m[Decision])
  /\ TerminalGate(Structural(zip), Semantic(zip), m[State]) = receipt.terminal
=============================================================================
