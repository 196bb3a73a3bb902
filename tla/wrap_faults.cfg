\* A wrapped command with dry runs and fetches that fail and collections.
SPECIFICATION Spec
CONSTANTS
    shell = shell
    lib = lib
    plugin = plugin
    Paths = {shell, lib, plugin}
    References <- MCReferences
    ContentAddressed = {plugin}
    Needs = {shell, lib, plugin}
    Faults = {"dry", "realise", "fix", "command", "gc"}
INVARIANTS
    TypeOK
    HandledIsSound
PROPERTIES
    GivesUpForACause
