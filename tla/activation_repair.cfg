\* Repair mode, one switch to a generation with a broken library.
SPECIFICATION Spec
CONSTANTS
    g1 = g1
    g2 = g2
    tool = tool
    lib = lib
    man = man
    Paths = {g1, g2, tool, lib, man}
    References <- MCReferences
    ContentAddressed = {}
    Generations = {g1, g2}
    Derivations <- MCDerivations
    Modes = {"repair"}
    SweepOnFirstEnable = TRUE
    Faults = {}
    MaxSwitches = 1
INVARIANTS
    RepairModeRepairs
