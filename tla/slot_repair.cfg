\* A repair and its undo, while somebody else writes to the file twice.
SPECIFICATION Spec
CONSTANTS
    eof = eof
    Cells = {1, 2, 3, 4}
    Values = {0, 1}
    NoByte = eof
    Layouts <- MCLayouts
    Sum <- MCSum
    MaxTampers = 2
INVARIANTS
    TypeOK
    RefusalTouchesNothing
    OnePassRepairs
    UndoAccepts
PROPERTIES
    OnlyValidIsWritten
    UndoRestores
    UndoVerifies
