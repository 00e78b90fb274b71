CONSTANTS
    Files <- MCFiles
    Hashed <- MCHashed
    Contents <- MCContents
    Absent = "absent"
    Empty = "empty"
    LockFile = "uv.lock"
    ProjectFile = "pyproject.toml"
    PoetryTables <- MCPoetryTables
    Spellings <- MCSpellings
    Normal <- MCNormal
    Unsafe = "unsafe"
    Hunks <- MCHunks
    Rewrite <- MCRewrite
    NoMatch = "noMatch"
    Proposals <- SharedProposals
    Tests <- MCTests
    Commands <- MCCommands
    Verdicts <- MCVerdicts
    Expectations <- SharedExpectations
    None = None
    Requests <- SharedRequests
    InitialTrees <- SharedTrees
    MaxEdits = 2
SPECIFICATION Spec
INVARIANTS
    IInv
    LostUpdateOnlyIfRaced
    OnlyFaultsEscape
    BlockedRunsWroteNothing
    ActivityIsTrue
    VerifiedIsEveryTick
PROPERTIES
    WriteIsAuthorised
    ImplementsGovernedChange
    Termination
