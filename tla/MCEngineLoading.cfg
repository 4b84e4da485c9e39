CONSTANTS
    Modules <- MCModules
    Configs <- MCConfigs

SPECIFICATION Spec

\* Start-up ends: once both modules are loaded, or after a panic.
CHECK_DEADLOCK FALSE

INVARIANT
    LoadOutcome
