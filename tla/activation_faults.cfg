\* Both modes over three switches, with faults, and collections between them.
SPECIFICATION Spec
CONSTANTS
    g1 = g1
    g2 = g2
    tool = tool
    lib = lib
    man = man
    Paths = {g1, g2, tool, lib, man}
    References <- MCReferences
    ContentAddressed = {man}
    Generations = {g1, g2}
    Derivations <- MCDerivations
    Modes = {"refuse", "repair"}
    SweepOnFirstEnable = TRUE
    Faults = {"new", "old", "check", "fix"}
    MaxSwitches = 3
INVARIANTS
    TypeOK
    BuiltIsRepaired
    NothingBrokenGoesLive
