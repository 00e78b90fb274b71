---------------------------- MODULE RunStorageGC ----------------------------
(***************************************************************************)
(* execute_gc of storage/gc.py: one collection over the directory of runs, *)
(* with the census (census.py), the classification (classifier.py), the    *)
(* plan, the revalidation of each candidate and its removal by rmtree,     *)
(* entry by entry, while the harnesses that own the runs go on writing.    *)
(*                                                                         *)
(* A run directory is the set of the kinds of file in it and its mtime; a  *)
(* size is the number of bytes of its files.  What one pass over one       *)
(* directory reads is read in one step, and so is the scan for references; *)
(* directories are read one after the other.                               *)
(***************************************************************************)
EXTENDS Integers, Sequences, FiniteSets, Functions

CONSTANTS
    Runs,          \* run ids; their order is the order of the names
    Weight,        \* bytes of a file of each kind
    Now, Ttl,      \* the time of the collection, and RetentionPolicy
    Quota,
    EditKinds,     \* kinds of file other processes write
    InitialWorlds, \* [disk, refs, scannable, edits]
    Absent

Kinds == {"marker", "running", "seal", "close", "report", "authority", "review",
          "pinned", "protected"}

Directories == [files : SUBSET Kinds, mtime : 0 .. Now]

\* "large": mentioned only in a file the scan skips for its size.
Mentions == {"none", "text", "large"}

ASSUME GCAssumption ==
    /\ Runs \subseteq Nat /\ IsFiniteSet(Runs)
    /\ Weight \in [Kinds -> Nat]
    /\ Now \in Nat /\ Ttl \in Nat /\ Quota \in Nat
    /\ EditKinds \subseteq Kinds
    /\ Absent \notin Directories
    /\ \A w \in InitialWorlds :
          /\ w.disk \in [Runs -> Directories \cup {Absent}]
          /\ w.refs \in [Runs -> Mentions]
          /\ w.scannable \in BOOLEAN /\ w.edits \in Nat

VARIABLES
    disk,      \* the directory of runs
    refs,      \* where the project mentions each run
    scannable, \* the directories to search exist and can be read
    edits,     \* writes left to the other processes
    pc,
    dryRun,
    scan,      \* last scan for references: [complete, referenced]
    todo,      \* directories the census has still to read
    fresh,     \* the catalog being built
    errors,    \* CensusResult.errors is not empty
    catalog,   \* the catalog of the plan
    plan,      \* GCPlan
    index,     \* candidate being handled
    doomed,    \* entries rmtree has listed and not yet unlinked
    receipts,
    history    \* observer of what was removed and what raced with it

world  == <<disk, refs, scannable, edits>>
census == <<scan, todo, fresh, errors>>
vars   == <<world, pc, dryRun, census, catalog, plan, index, doomed, receipts, history>>

-----------------------------------------------------------------------------
(* census.py                                                               *)

\* _detect_status: activity first, then terminal evidence, then anything else
Status(files) ==
    IF "marker" \in files THEN "ACTIVE"
    ELSE IF "running" \in files THEN "RUNNING"
    ELSE IF files \cap {"seal", "close"} # {} THEN "COMPLETE"
    ELSE IF files # {} THEN "INCOMPLETE" ELSE "UNKNOWN"

\* _detect_sealed_evidence, _authority_reference, _review_package, _pinned and
\* _protected: a final_seal.json is terminal evidence and sealed evidence.
Guards(files) == files \cap {"seal", "authority", "review", "pinned", "protected"}

\* compute_run_size
Bytes(files) == UNION {{k} \X (1 .. Weight[k]) : k \in files}
Size(files)  == Cardinality(Bytes(files))

\* _scan_all_external_references
ScanResult ==
    [complete   |-> scannable,
     referenced |-> IF scannable THEN {r \in Runs : refs[r] = "text"} ELSE {}]

Reference(r, s) == IF ~s.complete THEN "UNKNOWN"
                   ELSE IF r \in s.referenced THEN "REFERENCED" ELSE "UNREFERENCED"

Files(r) == IF disk[r] = Absent THEN {} ELSE disk[r].files

\* What build_catalog records of one run; one that has vanished since the
\* listing is empty, of status UNKNOWN, and active now.
Observe(r) ==
    [files |-> Files(r),
     mtime |-> IF disk[r] = Absent THEN Now ELSE disk[r].mtime,
     ref   |-> Reference(r, scan)]

-----------------------------------------------------------------------------
(* classifier.py                                                           *)

Nonterminal(e) == Status(e.files) \in {"ACTIVE", "RUNNING", "INCOMPLETE"}
Expired(e)     == Now - e.mtime >= Ttl

SafeEligible(e) ==
    /\ Status(e.files) = "COMPLETE"
    /\ Guards(e.files) = {}
    /\ e.ref = "UNREFERENCED"

Classify(e) ==
    IF ~Nonterminal(e) /\ Guards(e.files) # {} THEN "PROTECTED"
    ELSE IF SafeEligible(e) /\ Expired(e) THEN "GC_CANDIDATE" ELSE "KEEP"

-----------------------------------------------------------------------------
(* gc.py: the plan                                                         *)

BytesOf(cat) == UNION {{r} \X Bytes(cat[r].files) : r \in DOMAIN cat}
Total(cat)   == Cardinality(BytesOf(cat))

\* _sort_candidates, _get_quota_eligible: by time, then by id
Before(cat, a, b) == \/ cat[a].mtime < cat[b].mtime
                     \/ cat[a].mtime = cat[b].mtime /\ a < b
Rank(cat, S, r)   == Cardinality({q \in S : Before(cat, q, r)})

\* Mutant: the youngest first.
Youngest(cat, S) ==
    [i \in 1 .. Cardinality(S) |-> CHOOSE r \in S : Rank(cat, S, r) = Cardinality(S) - i]

Oldest(cat, S) ==
    [i \in 1 .. Cardinality(S) |-> CHOOSE r \in S : Rank(cat, S, r) = i - 1]

Freed(cat, s, n) == Total([r \in {s[i] : i \in 1 .. n} |-> cat[r]])

\* Mutant: the loop goes on until more than needed is freed.
SelectBeyondQuota(cat, s, over) ==
    SubSeq(s, 1, Cardinality({i \in 1 .. Len(s) : Freed(cat, s, i - 1) <= over}))

\* _select_quota_candidates: every run before which not enough is freed
SelectQuota(cat, s, over) ==
    SubSeq(s, 1, Cardinality({i \in 1 .. Len(s) : Freed(cat, s, i - 1) < over}))

Pressure(cat) == Total(cat) > Quota

\* The runs build_dry_run selects.  Under quota pressure an expired run that
\* is not needed to meet the quota is not selected.
Selected(cat, complete) ==
    IF ~complete THEN <<>>
    ELSE IF Pressure(cat)
         THEN SelectQuota(cat, Oldest(cat, {r \in DOMAIN cat : SafeEligible(cat[r])}),
                          Total(cat) - Quota)
         ELSE Oldest(cat, {r \in DOMAIN cat : Classify(cat[r]) = "GC_CANDIDATE"})

\* _promote_for_quota, or the trigger classify_run gave
Trigger(cat, r) ==
    IF ~Pressure(cat) THEN "TTL"
    ELSE IF Expired(cat[r]) THEN "TTL_AND_QUOTA" ELSE "QUOTA"

KeptUnselected(cat, runs) == {r \in DOMAIN cat : Classify(cat[r]) = "KEEP"} \ runs

\* build_dry_run
BuildPlan(cat, complete) ==
    LET sel  == Selected(cat, complete)
        kept == KeptUnselected(cat, Range(sel)) IN
    [selected  |-> sel,
     protected |-> Cardinality({r \in DOMAIN cat : Classify(cat[r]) = "PROTECTED"}),
     unknown   |-> Cardinality({r \in kept : cat[r].ref = "UNKNOWN"}),
     retained  |-> Cardinality({r \in kept : cat[r].ref # "UNKNOWN"}),
     pressure  |-> Pressure(cat),
     projected |-> Total(cat) - Freed(cat, sel, Len(sel))]

-----------------------------------------------------------------------------
NoPlan == [selected |-> <<>>, protected |-> 0, unknown |-> 0, retained |-> 0,
           pressure |-> FALSE, projected |-> 0]

\* storage_gc: --apply or the dry run
Init ==
    /\ \E w \in InitialWorlds :
          /\ disk = w.disk /\ refs = w.refs
          /\ scannable = w.scannable /\ edits = w.edits
    /\ pc = "list"
    /\ dryRun \in BOOLEAN
    /\ scan = [complete |-> FALSE, referenced |-> {}]
    /\ todo = {} /\ fresh = <<>> /\ errors = FALSE
    /\ catalog = <<>> /\ plan = NoPlan /\ index = 1
    /\ doomed = {} /\ receipts = {}
    /\ history = [touched |-> {}, taken |-> {}, raced |-> FALSE, quiet |-> TRUE]

Candidate   == plan.selected[index]
HasNext     == index < Len(plan.selected)
Receipt(r, result, trigger) == [run |-> r, result |-> result, trigger |-> trigger]

\* build_catalog: the listing and the scan, for the plan or for a revalidation
List ==
    /\ pc \in {"list", "relist"}
    /\ todo' = {r \in Runs : disk[r] # Absent}
    /\ scan' = ScanResult
    /\ errors' = ~scannable
    /\ fresh' = <<>>
    /\ history' = [history EXCEPT !.raced = FALSE]
    /\ pc' = IF pc = "list" THEN "census" ELSE "recensus"
    /\ UNCHANGED <<world, dryRun, catalog, plan, index, doomed, receipts>>

\* build_catalog: the next directory; stat fails on one that has vanished
ReadRun ==
    /\ pc \in {"census", "recensus"}
    /\ \E r \in todo :
          /\ \A other \in todo : r <= other
          /\ fresh' = [x \in DOMAIN fresh \cup {r} |-> IF x = r THEN Observe(r) ELSE fresh[x]]
          /\ errors' = (errors \/ disk[r] = Absent)
          /\ todo' = todo \ {r}
    /\ UNCHANGED <<world, pc, dryRun, scan, catalog, plan, index, doomed, receipts, history>>

\* execute_gc: the plan, and in a dry run the receipts of its candidates
MakePlan ==
    /\ pc = "census" /\ todo = {}
    /\ catalog' = fresh
    /\ plan' = BuildPlan(fresh, ~errors)
    /\ \/ /\ dryRun \/ plan'.selected = <<>>
          /\ receipts' = {Receipt(r, "DRY_RUN", Trigger(fresh, r)) : r \in Range(plan'.selected)}
          /\ pc' = "report"
       \/ /\ ~dryRun /\ plan'.selected # <<>>
          /\ pc' = "recheck"
          /\ UNCHANGED receipts
    /\ UNCHANGED <<world, dryRun, census, index, doomed, history>>

\* Mutants: the index moves past the last candidate; a failed deletion is tried
\* again.
SettleAndAdvance(result) ==
    /\ receipts' = receipts \cup {Receipt(Candidate, result, Trigger(catalog, Candidate))}
    /\ index' = index + 1
    /\ pc' = IF HasNext THEN "recheck" ELSE "report"
SettleOrRetry(result) ==
    /\ receipts' = receipts \cup {Receipt(Candidate, result, Trigger(catalog, Candidate))}
    /\ index' = IF HasNext /\ result # "DELETE_FAILED" THEN index + 1 ELSE index
    /\ pc' = IF HasNext \/ result = "DELETE_FAILED" THEN "recheck" ELSE "report"

\* The receipt of the candidate, and on to the next one
Settle(result) ==
    /\ receipts' = receipts \cup {Receipt(Candidate, result, Trigger(catalog, Candidate))}
    /\ index' = IF HasNext THEN index + 1 ELSE index
    /\ pc' = IF HasNext THEN "recheck" ELSE "report"

\* _revalidate_candidate up to the fresh plan
Recheck ==
    /\ pc = "recheck"
    /\ LET ok == /\ Status(Files(Candidate)) \notin {"ACTIVE", "RUNNING", "INCOMPLETE"}
                 /\ Guards(Files(Candidate)) = {}
                 /\ Reference(Candidate, ScanResult) = "UNREFERENCED" IN
       \/ /\ ok
          /\ pc' = "relist"
          /\ UNCHANGED <<receipts, index>>
       \/ /\ ~ok
          /\ Settle("SKIPPED_REVALIDATION_CHANGED")
    /\ UNCHANGED <<world, dryRun, census, catalog, plan, doomed, history>>

\* Mutant: the plan is not made anew.
StillSelectedInPlan == Candidate \in Range(plan.selected)
StillSelected       == Candidate \in Range(Selected(fresh, ~errors))

\* _revalidate_candidate: the fresh plan
Reselect ==
    /\ pc = "recensus" /\ todo = {}
    /\ \/ /\ StillSelected
          /\ pc' = "remove"
          /\ UNCHANGED <<receipts, index>>
       \/ /\ ~StillSelected
          /\ Settle("SKIPPED_REVALIDATION_CHANGED")
    /\ UNCHANGED <<world, dryRun, census, catalog, plan, doomed, history>>

\* run_path.exists() and is_dir(); rmtree lists the directory
BeginRemoval ==
    /\ pc = "remove"
    /\ \/ /\ disk[Candidate] = Absent
          /\ Settle("DELETE_FAILED")
          /\ UNCHANGED <<doomed, history>>
       \/ /\ disk[Candidate] # Absent
          /\ doomed' = disk[Candidate].files
          /\ history' = [history EXCEPT !.taken = @ \cup
                {[run |-> Candidate, dir |-> disk[Candidate], ref |-> refs[Candidate],
                  raced |-> history.raced]}]
          /\ pc' = "rmtree"
          /\ UNCHANGED <<receipts, index>>
    /\ UNCHANGED <<world, dryRun, census, catalog, plan>>

\* rmtree unlinks one of the entries it has listed; the directory's mtime moves
Unlink ==
    /\ pc = "rmtree"
    /\ \E k \in doomed :
          /\ disk' = IF disk[Candidate] = Absent THEN disk
                     ELSE [disk EXCEPT ![Candidate] =
                              [files |-> Files(Candidate) \ {k}, mtime |-> Now]]
          /\ doomed' = doomed \ {k}
    /\ history' = [history EXCEPT !.touched = @ \cup {Candidate}]
    /\ UNCHANGED <<refs, scannable, edits, pc, dryRun, census, catalog, plan, index, receipts>>

\* rmtree removes the directory, which must be empty by now
RemoveDirectory ==
    /\ pc = "rmtree" /\ doomed = {}
    /\ Files(Candidate) = {}
    /\ disk' = [disk EXCEPT ![Candidate] = Absent]
    /\ history' = [history EXCEPT !.touched = @ \cup {Candidate}]
    /\ Settle("DELETED")
    /\ UNCHANGED <<refs, scannable, edits, dryRun, census, catalog, plan, doomed>>

\* Mutant: a removal that fails half way leaves no receipt.
FailureAsSkipped == "SKIPPED_REVALIDATION_CHANGED"
FailureResult    == "DELETE_FAILED"

\* An OSError out of rmtree: a file in use, or the directory not empty
RemoveFails ==
    /\ pc = "rmtree"
    /\ doomed' = {}
    /\ history' = [history EXCEPT !.quiet = FALSE]
    /\ Settle(FailureResult)
    /\ UNCHANGED <<world, dryRun, census, catalog, plan>>

\* The skip receipts of execute_gc; an expired run that was not selected has none
SkipResult(r) ==
    LET e == catalog[r] IN
    IF Classify(e) = "PROTECTED" \/ Nonterminal(e) THEN "SKIPPED_PROTECTED"
    ELSE IF e.ref = "REFERENCED" THEN "SKIPPED_REFERENCED"
    ELSE IF SafeEligible(e) /\ ~Expired(e) THEN "SKIPPED_RETAINED" ELSE "SKIPPED_UNKNOWN"

Handled == {c.run : c \in receipts}

Skipped == {r \in DOMAIN catalog \ Handled : Classify(catalog[r]) # "GC_CANDIDATE"}

Report ==
    /\ pc = "report"
    /\ receipts' = receipts \cup {Receipt(r, SkipResult(r), "NONE") : r \in Skipped}
    /\ pc' = "done"
    /\ UNCHANGED <<world, dryRun, census, catalog, plan, index, doomed, history>>

-----------------------------------------------------------------------------
(* Other processes.  An edit races with a removal when it comes after the  *)
(* last look the collector takes at what it changes.                       *)

Spend == edits > 0 /\ edits' = edits - 1

LateFor(r) == pc \in {"remove", "rmtree"} \/ (pc = "recensus" /\ r \notin todo)

Race(late, r) ==
    history' = [history EXCEPT !.quiet = FALSE,
                   !.raced = @ \/ (late /\ plan.selected # <<>> /\ r = Candidate)]

\* A harness writes a file into a run, or starts one.
WriteFile ==
    /\ Spend
    /\ \E r \in Runs, k \in EditKinds :
          /\ disk' = [disk EXCEPT ![r] =
                [files |-> {k} \cup Files(r), mtime |-> Now]]
          /\ Race(LateFor(r), r)
    /\ UNCHANGED <<refs, scannable, pc, dryRun, census, catalog, plan, index, doomed, receipts>>

\* A marker is taken away; the run may have become eligible.
RemoveMarker ==
    /\ Spend
    /\ \E r \in Runs, k \in EditKinds \cap {"marker", "running", "pinned", "protected"} :
          /\ k \in Files(r)
          /\ disk' = [disk EXCEPT ![r] = [files |-> Files(r) \ {k}, mtime |-> Now]]
          /\ Race(LateFor(r), r)
    /\ UNCHANGED <<refs, scannable, pc, dryRun, census, catalog, plan, index, doomed, receipts>>

\* Somebody else removes a run: another collector, or the user.
RemoveRun ==
    /\ Spend
    /\ \E r \in Runs :
          /\ disk[r] # Absent
          /\ disk' = [disk EXCEPT ![r] = Absent]
          /\ Race(LateFor(r), r)
    /\ UNCHANGED <<refs, scannable, pc, dryRun, census, catalog, plan, index, doomed, receipts>>

\* A review or a track document mentions a run.
Mention ==
    /\ Spend
    /\ \E r \in Runs, m \in Mentions \ {"none"} :
          /\ refs[r] # m
          /\ refs' = [refs EXCEPT ![r] = m]
          /\ Race(pc \in {"recensus", "remove", "rmtree"}, r)
    /\ UNCHANGED <<disk, scannable, pc, dryRun, census, catalog, plan, index, doomed, receipts>>

\* A directory to search disappears, or comes back.
ScanChanges ==
    /\ Spend
    /\ scannable' = ~scannable
    /\ history' = [history EXCEPT !.quiet = FALSE]
    /\ UNCHANGED <<disk, refs, pc, dryRun, census, catalog, plan, index, doomed, receipts>>

-----------------------------------------------------------------------------
Collector == \/ List \/ ReadRun \/ MakePlan \/ Recheck \/ Reselect \/ BeginRemoval
             \/ Unlink \/ RemoveDirectory \/ RemoveFails \/ Report
Others    == pc # "done" /\ (WriteFile \/ RemoveMarker \/ RemoveRun \/ Mention \/ ScanChanges)
Finished  == pc = "done" /\ UNCHANGED vars

Next == Collector \/ Others \/ Finished

\* The collector is a thread that is never blocked.
Spec == Init /\ [][Next]_vars /\ WF_vars(Collector)

-----------------------------------------------------------------------------
(* Properties                                                              *)

Results == {"DRY_RUN", "DELETED", "DELETE_FAILED", "SKIPPED_REVALIDATION_CHANGED",
            "SKIPPED_PROTECTED", "SKIPPED_REFERENCED", "SKIPPED_RETAINED", "SKIPPED_UNKNOWN"}
Triggers == {"NONE", "TTL", "QUOTA", "TTL_AND_QUOTA"}
Entries  == [files : SUBSET Kinds, mtime : 0 .. Now,
             ref : {"UNKNOWN", "REFERENCED", "UNREFERENCED"}]
IsCatalog(cat) == DOMAIN cat \subseteq Runs /\ \A r \in DOMAIN cat : cat[r] \in Entries
Receipts == [run : Runs, result : Results, trigger : Triggers]
Takings  == [run : Runs, dir : Directories, ref : Mentions, raced : BOOLEAN]

\* Every variable keeps its type; at most one candidate is being removed, and
\* the index names one as long as there is any (execute_gc).
TypeOK ==
    /\ disk \in [Runs -> Directories \cup {Absent}]
    /\ refs \in [Runs -> Mentions]
    /\ scannable \in BOOLEAN /\ edits \in Nat /\ dryRun \in BOOLEAN /\ errors \in BOOLEAN
    /\ pc \in {"list", "census", "recheck", "relist", "recensus", "remove", "rmtree",
               "report", "done"}
    /\ scan \in [complete : BOOLEAN, referenced : SUBSET Runs]
    /\ todo \subseteq Runs
    /\ IsCatalog(fresh) /\ IsCatalog(catalog)
    /\ Range(plan.selected) \subseteq DOMAIN catalog
    /\ index \in 1 .. (IF plan.selected = <<>> THEN 1 ELSE Len(plan.selected))
    /\ doomed \subseteq Kinds
    /\ receipts \subseteq Receipts
    /\ history \in [touched : SUBSET Runs, taken : SUBSET Takings,
                    raced : BOOLEAN, quiet : BOOLEAN]

\* execute_gc never starts to remove a run that is active, guarded or mentioned
\* in a file the scan reads, unless that came after the last look it took at
\* the run (gc.py:319 to :343).
UnsafeRemovalOnlyIfRaced ==
    \A t \in history.taken :
        \/ t.raced
        \/ /\ Status(t.dir.files) = "COMPLETE" /\ Guards(t.dir.files) = {}
           /\ t.ref # "text"

\* Receipts and disk agree at the end: a run has one receipt at most, a dry run
\* touches nothing, whatever was touched was reported as deleted or as a failed
\* deletion, and only expired runs go without a receipt and uncounted.
ReceiptsTellTheTruth ==
    pc = "done" =>
        /\ \A a, b \in receipts : a.run = b.run => a = b
        /\ dryRun => history.touched = {}
        /\ \A r \in history.touched :
              \E c \in receipts : c.run = r /\ c.result \in {"DELETED", "DELETE_FAILED"}
        /\ \A r \in DOMAIN catalog \ Handled : Classify(catalog[r]) = "GC_CANDIDATE"
        /\ Cardinality(DOMAIN catalog) - Cardinality(DOMAIN catalog \ Handled)
              = plan.protected + plan.unknown + plan.retained + Len(plan.selected)

\* Alone and without an I/O error, revalidation agrees with the plan at every
\* candidate although each deletion changes what it is computed from: all of the
\* plan is carried out, and what is left is what the plan projected.
PlanIsCarriedOut ==
    (pc = "done" /\ history.quiet /\ ~dryRun) =>
        /\ \A i \in 1 .. Len(plan.selected) : disk[plan.selected[i]] = Absent
        /\ Total([r \in {x \in Runs : disk[x] # Absent} |-> disk[r]]) = plan.projected

\* A quota plan removes the oldest eligible runs and not one more than needed
\* (build_dry_run, _select_quota_candidates).
QuotaPlanIsTight ==
    LET sel  == plan.selected
        safe == {r \in DOMAIN catalog : SafeEligible(catalog[r])} IN
    (plan.pressure /\ sel # <<>>) =>
        /\ Range(sel) \subseteq safe
        /\ plan.projected <= Quota \/ Range(sel) = safe
        /\ plan.projected + Size(catalog[sel[Len(sel)]].files) > Quota
        /\ \A s \in Range(sel), r \in safe \ Range(sel) : catalog[s].mtime <= catalog[r].mtime

\* A collection comes to an end, whatever the other processes do.
Termination == <>(pc = "done")

-----------------------------------------------------------------------------
(* The inductive invariant                                                 *)

Handling == {"recheck", "relist", "recensus", "remove", "rmtree"}
SelectedBefore(n) == {plan.selected[i] : i \in 1 .. n - 1}

\* Nothing is planned before the census; from then on the plan is the one of
\* the catalog, and candidates are handled only of an applied plan that has some.
PlanOfCatalog ==
    /\ pc \in {"list", "census"} =>
          /\ catalog = <<>> /\ plan = NoPlan /\ index = 1 /\ receipts = {}
    /\ pc \notin {"list", "census"} =>
          \E complete \in BOOLEAN : plan = BuildPlan(catalog, complete)
    /\ pc \in Handling => ~dryRun /\ plan.selected # <<>>

\* The receipts are those of the candidates handled so far, one each, then of
\* everything but the expired runs; what rmtree has touched is under way or
\* reported as deleted or as a failed deletion.
Bookkeeping ==
    /\ \A a, b \in receipts : a.run = b.run => a = b
    /\ pc \in Handling => Handled = SelectedBefore(index)
    /\ pc = "report" => Handled = Range(plan.selected)
    /\ pc = "done" => Handled = Range(plan.selected) \cup
                         {r \in DOMAIN catalog : Classify(catalog[r]) # "GC_CANDIDATE"}
    /\ dryRun => history.touched = {}
    /\ \A r \in history.touched :
          \/ pc = "rmtree" /\ r = Candidate
          \/ \E c \in receipts : c.run = r /\ c.result \in {"DELETED", "DELETE_FAILED"}

\* As long as nothing raced, the catalog being built shows the candidate as it
\* is, and a candidate about to be removed is still safe to remove.
LastLook ==
    /\ todo \cap DOMAIN fresh = {}
    /\ pc \in {"census", "recensus"} => (~errors => scan.complete)
    /\ (pc = "recensus" /\ ~history.raced) =>
          /\ Candidate \in DOMAIN fresh =>
                /\ fresh[Candidate].files = Files(Candidate)
                /\ fresh[Candidate].ref = Reference(Candidate, scan)
          /\ Reference(Candidate, scan) = "UNREFERENCED" => refs[Candidate] # "text"
    /\ (pc = "remove" /\ ~history.raced) =>
          /\ Status(Files(Candidate)) = "COMPLETE"
          /\ Guards(Files(Candidate)) = {}
          /\ refs[Candidate] # "text"

Present == {r \in Runs : disk[r] # Absent}
Removed == IF pc \in Handling THEN SelectedBefore(index) ELSE Range(plan.selected)

\* Left alone, the runs are those of the catalog without the candidates handled
\* so far, and as the catalog has them but for the one rmtree is at.
Undisturbed ==
    history.quiet =>
        /\ pc # "list" => scan = ScanResult
        /\ pc \in {"census", "recensus"} =>
              /\ errors = ~scannable
              /\ todo \cup DOMAIN fresh = Present
              /\ \A r \in DOMAIN fresh : fresh[r] = Observe(r)
        /\ (pc \notin {"list", "census"} /\ ~dryRun) =>
              /\ plan = BuildPlan(catalog, scannable)
              /\ Present = DOMAIN catalog \ Removed
              /\ \A r \in Present : \/ catalog[r] = Observe(r)
                                    \/ pc = "rmtree" /\ r = Candidate

IInv == /\ TypeOK /\ PlanOfCatalog /\ Bookkeeping /\ LastLook
        /\ UnsafeRemovalOnlyIfRaced /\ Undisturbed

-----------------------------------------------------------------------------
(* The length of a collection                                              *)

\* The steps from one look at a candidate to its receipt, at most: two listings,
\* the census of a revalidation, the entries of a directory.
Stations == Cardinality(Runs) + Cardinality(Kinds) + 5

CandidateSteps ==
    CASE pc = "recheck"  -> Stations
      [] pc = "relist"   -> Stations - 1
      [] pc = "recensus" -> Cardinality(Kinds) + 3 + Cardinality(todo)
      [] pc = "remove"   -> Cardinality(Kinds) + 2
      [] pc = "rmtree"   -> 1 + Cardinality(doomed)

\* The steps the collector has yet to take, at most, whoever else writes.
MaxSteps == Cardinality(Runs) * Stations + Cardinality(Runs) + 3
StepsLeft ==
    CASE pc = "list"      -> MaxSteps
      [] pc = "census"    -> Cardinality(Runs) * Stations + 2 + Cardinality(todo)
      [] pc \in Handling  -> (Len(plan.selected) - index) * Stations + CandidateSteps + 1
      [] pc = "report"    -> 1
      [] pc = "done"      -> 0

\* Every step of the collector brings the end of execute_gc nearer, and nobody
\* else can put it off: of Termination the part that needs no fairness.
CollectorComesNearer ==
    [][/\ Collector => StepsLeft' < StepsLeft
       /\ Others => StepsLeft' = StepsLeft]_vars
=============================================================================
