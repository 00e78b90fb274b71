-------------------------- MODULE MCReviewPackage --------------------------
(* Two repositories, pytest and one static checker; three runs, of which at *)
(* most two are pipelines, and one disturbance.                             *)
EXTENDS ReviewPackage

CONSTANTS v1, v2, v3

MCRepos == {"core", "pack"}
MCCommands == {"pytest", "ruff"}
MCVersions == {v1, v2, v3}
MCInitial == v1
MCColliding == {v3}

\* A run with one error, which is heard as clean and stands for a clean run as
\* well: all the pipeline reads of either is "passed".  Two such runs can print
\* different bytes.  And a run killed after its timeout, heard as nothing.
MCPytestOutcomes ==
  {[prints |-> p, collected |-> TRUE, counts |-> {"passed", "error"}, code |-> 1] :
     p \in {"in 1s", "in 2s"}}
  \cup {[prints |-> "TIMEOUT", collected |-> FALSE, counts |-> {}, code |-> -1]}
\* A checker that finds nothing prints the same every time.
MCCheckerOutcomes == {[prints |-> "clean", code |-> 0], [prints |-> "found", code |-> 1]}
=============================================================================
