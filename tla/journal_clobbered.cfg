\* Two repairs one after the other within one second.
SPECIFICATION Spec
CONSTANTS
    d1 = d1
    d2 = d2
    p1 = p1
    p2 = p2
    NoPath = NoPath
    NoFile = NoFile
    NoInode = NoInode
    NoRow = NoRow
    Procs = {d1, d2}
    Files = {1, 2, 3}
    Paths = {p1, p2}
    FlatPaths = {p2}
    PathOf <- MCPathOf
    Inodes = {1, 2, 3, 4}
    ArgLists <- ListsEach
    Under <- MCUnder
    Home <- MCHome
    Inputs <- InputsClobber
    ContentAddressed = {}
    Faults = {}
    NixActs = {}
    Concurrent = FALSE
    LastSecond = 0
INVARIANTS
    EveryWriteIsJournaled
