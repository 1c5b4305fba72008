CONSTANTS
    Fds = {1, 2}
    Paths <- MCPaths
    Backups <- MCBackups
    Flags <- MCFlags
    Targets <- MCTargets
    Formatted <- MCFormatted
    Files = {1, 2}
    MaxLen = 1
    MaxCalls = 5
    MaxFaults = 2
    MaxResets = 1
SPECIFICATION Spec
INVARIANTS
    Consistent
    PromisesSurvive
    WritesAreKept
    StatIsCurrent
PROPERTIES
    OpensAreCurrent
    RenameLosesNothing
CHECK_DEADLOCK FALSE
