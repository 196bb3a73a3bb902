\* Two repairs at once and collections, under fairness.
SPECIFICATION FairSpec
CONSTANTS
    d1 = d1
    d2 = d2
    p1 = p1
    p2 = p2
    NoPath = NoPath
    NoFile = NoFile
    NoInode = NoInode
    NoRow = NoRow
    Procs = {d1, d2}
    Files = {1, 2, 3}
    Paths = {p1, p2}
    FlatPaths = {p2}
    PathOf <- MCPathOf
    Inodes = {1, 2, 3, 4}
    ArgLists <- ListsEach
    Under <- MCUnder
    Home <- MCHome
    Inputs <- InputsLive
    ContentAddressed = {}
    Faults = {}
    NixActs = {"gc"}
    Concurrent = TRUE
    LastSecond = 1
PROPERTIES
    Terminates
    FixLiveRepairs
