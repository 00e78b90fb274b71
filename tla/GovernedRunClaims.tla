--------------------------- MODULE GovernedRunClaims ---------------------------
(***************************************************************************)
(* What the comments, docstrings and tests of the repository say of a      *)
(* governed run and the code does not do, and the refinement of            *)
(* GovernedChange that it does.                                            *)
(***************************************************************************)
EXTENDS GovernedRunInvariant

\* The run as the abstract specification sees it, read off the receipts.
Granted == receipts.pathGate # None /\ receipts.pathGate.decision = "ALLOW"
Change  == IF receipts.apply # None /\ receipts.apply.writes = 1
           THEN [file |-> receipts.apply.file, from |-> receipts.apply.from,
                 to |-> receipts.apply.to]
           ELSE None

GC == INSTANCE GovernedChange WITH
        authority <- IF Granted THEN receipts.pathGate.authorized ELSE {},
        change    <- Change,
        verified  <- verification.verdict = Passing,
        decision  <- IF pc = "raised" THEN "ERROR" ELSE result.decision

\* run_governed_execution implements the abstract governed change: authority
\* before the write, one write, verification after it, one decision.
ImplementsGovernedChange == GC!Spec

-----------------------------------------------------------------------------
\* governed_execution.py:2273-2275: _block emits a sealed envelope "so evidence
\* lineage is preserved": a run that wrote has its apply receipt.
WritesAreReceipted ==
    (pc = "done" /\ history.overwritten # None) => result.receipts.apply # None

\* command_runner.py:248-253: proposal validation and path authority use one
\* normalisation, so "the two semantics cannot diverge".
ValidatedPathsPassTheGate ==
    receipts.pathGate # None => receipts.pathGate.decision = "ALLOW"

\* governed_execution.py:1383-1384: an expectation that cannot supply an id and
\* a version is unbound and fails closed downstream.
UnusableExpectationIsUnbound ==
    pc = "raised" => request.task # "declared" \/ history.fault
=============================================================================
