\* Two workers, more files and findings than either channel holds.
SPECIFICATION FairSpec
CONSTANTS
    w1 = w1
    w2 = w2
    Workers = {w1, w2}
    LastFile = 5
    QueueFactor = 1
INVARIANTS
    TypeOK
    NoSendOnClosed
    NothingRunsOn
PROPERTIES
    ImplementsContract
    Answers
