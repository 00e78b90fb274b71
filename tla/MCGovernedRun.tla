---------------------------- MODULE MCGovernedRun ----------------------------
(***************************************************************************)
(* Small instances of GovernedRun.  Four files: the repaired source, the   *)
(* project file and the lock file, so the verifier of the workspace can    *)
(* change, and a generated file that no revision covers.  Five contents of *)
(* the source: with the defect, repaired, each with an unrelated edit of   *)
(* somebody else, and nothing at all.                                      *)
(***************************************************************************)
EXTENDS GovernedRunClaims, Presentation

MCHashed   == {"calc.py", "pyproject.toml", "uv.lock"}
MCFiles    == MCHashed \cup {"build/calc.py"}
MCContents == {"bug", "fixed", "bug+edit", "fixed+edit", "empty"}

\* For pyproject.toml "bug" has a [tool.poetry] table that "fixed" lost.
MCPoetryTables == {"bug", "bug+edit"}

MCSpellings == MCFiles \cup {"./calc.py", "../calc.py"}
MCNormal == [s \in MCSpellings |->
    CASE s = "./calc.py"  -> "calc.py"
      [] s = "../calc.py" -> "unsafe"
      [] OTHER            -> s]

MCHunks == {"fix", "stale"}
MCRewrite == [h \in MCHunks |-> [c \in MCContents |->
    CASE h = "fix" /\ c = "bug"      -> "fixed"
      [] h = "fix" /\ c = "bug+edit" -> "fixed+edit"
      [] OTHER                       -> "noMatch"]]

On(paths, hunk) == [s \in paths |-> hunk]
MCProposals == {
    On({"calc.py"}, "fix"), On({"calc.py"}, "stale"),
    On({"./calc.py"}, "fix"), On({"../calc.py"}, "fix"), On({"build/calc.py"}, "fix"),
    On({"pyproject.toml"}, "fix"), On({"calc.py", "pyproject.toml"}, "fix")}
SharedProposals == {On({"calc.py"}, "fix"), On({"pyproject.toml"}, "fix")}

MCTests    == {"test_add", "test_sub"}
MCCommands == {"uv", "poetry", "tox"}

Ran(exit, failed, errors) == [exit |-> exit, failed |-> failed, errors |-> errors]
TimedOut == Ran(-1, {}, {})

\* Verdicts depend on the source file: a defect fails test_add, alone or with a
\* flaky test_sub; a missing file is a collection error; a run may time out.
MCVerdicts == [cmd \in MCCommands |-> [t \in [MCFiles -> MCContents \cup {"absent"}] |->
    CASE t["calc.py"] \in {"bug", "bug+edit"} ->
            {Ran(1, {"test_add"}, {}), Ran(1, MCTests, {}), TimedOut}
      [] t["calc.py"] \in {"fixed", "fixed+edit"} ->
            {Ran(0, {}, {}), Ran(1, {"test_sub"}, {}), TimedOut}
      [] OTHER -> {Ran(2, {}, {"test_add"})}]]

UvTree     == [f \in MCFiles |-> "bug"]
PoetryTree == [UvTree EXCEPT !["uv.lock"] = "absent"]
PlainTree  == [PoetryTree EXCEPT !["pyproject.toml"] = "fixed"]
GoneTree   == [UvTree EXCEPT !["calc.py"] = "absent"]
FixedTree  == [UvTree EXCEPT !["calc.py"] = "fixed"]

Expect(json, qualified, t, command, exit, ids) ==
    [json |-> json, qualified |-> qualified, revision |-> Revision(t),
     command |-> command, exit |-> exit, ids |-> ids]
GoodExpectation == Expect("identified", TRUE, UvTree, "uv", 1, {"test_add"})
MCExpectations == {
    GoodExpectation,
    [GoodExpectation EXCEPT !.command = "poetry", !.revision = Revision(PoetryTree)],
    [GoodExpectation EXCEPT !.command = "poetry"],
    [GoodExpectation EXCEPT !.ids = {"test_sub"}],
    [GoodExpectation EXCEPT !.ids = {}],
    [GoodExpectation EXCEPT !.exit = 2],
    [GoodExpectation EXCEPT !.qualified = FALSE],
    [GoodExpectation EXCEPT !.json = "anonymous"],
    [GoodExpectation EXCEPT !.json = "notObject"]}
SharedExpectations == {
    GoodExpectation,
    [GoodExpectation EXCEPT !.ids = MCTests],
    [GoodExpectation EXCEPT !.json = "notObject"]}

Declared(allowed, command, tier) ==
    [task |-> "declared", allowed |-> allowed, command |-> command, tier |-> tier]
Undeclared(task) ==
    [task |-> task, allowed |-> {}, command |-> None, tier |-> "comparator"]

Both == {"calc.py", "pyproject.toml"}
SoloRequests ==
    {Undeclared(task) : task \in {"empty", "unsafe", "noWriteSet"}} \cup
    {Declared(allowed, command, tier) :
        allowed \in {{"calc.py"}, Both}, command \in {None, "tox"}, tier \in Tiers} \cup
    {Declared({"build/calc.py"}, None, "comparator")}
SharedRequests == {Declared(Both, None, "comparator"), Declared({"calc.py"}, None, "seam")}
ComparatorRequests == {Declared(Both, None, "comparator")}
SoloTrees   == {UvTree, PoetryTree, PlainTree, GoneTree, FixedTree}
SharedTrees == {UvTree}
=============================================================================
