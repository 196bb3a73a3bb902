\* Any command, two repairs and an undo, one after the other in any order,
\* every system call failing at will.
SPECIFICATION UndoSpec
CONSTANTS
    d1 = d1
    d2 = d2
    u = u
    p1 = p1
    p2 = p2
    NoPath = NoPath
    NoFile = NoFile
    NoInode = NoInode
    NoRow = NoRow
    Procs = {d1, d2, u}
    Undoer = u
    Files = {1, 2, 3, 4}
    Paths = {p1, p2}
    FlatPaths = {p2}
    PathOf <- MCPathOf
    Inodes = {1, 2, 3, 4, 5}
    ArgLists <- ListsSequence
    Under <- MCUnder
    Home <- MCHome
    Inputs <- InputsSequence
    ContentAddressed = {p2}
    Faults = {"open", "walk", "lock", "query", "read", "temp", "write", "rename", "dump", "register", "journal"}
    NixActs = {}
    Concurrent = FALSE
    LastSecond = 1
INVARIANTS
    TypeOK
    ReplacedIsJournaled
    FixedIsRepaired
    MismatchIsKnown
    NoTempRecorded
PROPERTIES
    RefusalsHold
    UndoIsComplete
    ImplementsContract
