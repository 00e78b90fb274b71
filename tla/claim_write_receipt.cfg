CONSTANTS
    Files <- MCFiles
    Hashed <- MCHashed
    Contents <- MCContents
    Absent = "absent"
    Empty = "empty"
    LockFile = "uv.lock"
    ProjectFile = "pyproject.toml"
    PoetryTables <- MCPoetryTables
    Spellings <- MCSpellings
    Normal <- MCNormal
    Unsafe = "unsafe"
    Hunks <- MCHunks
    Rewrite <- MCRewrite
    NoMatch = "noMatch"
    Proposals <- MCProposals
    Tests <- MCTests
    Commands <- MCCommands
    Verdicts <- MCVerdicts
    Expectations <- MCExpectations
    None = None
    Requests <- ComparatorRequests
    InitialTrees <- SoloTrees
    MaxEdits = 0
SPECIFICATION Spec
INVARIANT WritesAreReceipted
