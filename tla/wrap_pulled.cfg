\* A wrapped command where nothing but signatures goes wrong.
SPECIFICATION Spec
CONSTANTS
    shell = shell
    lib = lib
    plugin = plugin
    Paths = {shell, lib, plugin}
    References <- MCReferences
    ContentAddressed = {}
    Needs = {shell, plugin}
    Faults = {}
INVARIANTS
    PulledIsRepaired
