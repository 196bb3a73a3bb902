\* Two repairs at once, crashes, failing writes, collections, paths coming into and out of use.
SPECIFICATION Spec
CONSTANTS
    d1 = d1
    d2 = d2
    p1 = p1
    p2 = p2
    NoPath = NoPath
    NoFile = NoFile
    NoInode = NoInode
    NoRow = NoRow
    Procs = {d1, d2}
    Files = {1, 2, 3}
    Paths = {p1, p2}
    FlatPaths = {p2}
    PathOf <- MCPathOf
    Inodes = {1, 2, 3, 4}
    ArgLists <- ListAll
    Under <- MCUnder
    Home <- MCHome
    Inputs <- InputsConcurrent
    ContentAddressed = {}
    Faults = {"crash", "write"}
    NixActs = {"root", "gc"}
    Concurrent = TRUE
    LastSecond = 0
INVARIANTS
    ValidPathExists
    ExitZeroMeansSound
PROPERTIES
    ConsentHonoured
    FilesChangeAtomically
SYMMETRY MCProcs
