\* Violated: a write fails after changing what native code reads, and the
\* options go back to what was written before it.
SPECIFICATION Spec
CHECK_DEADLOCK FALSE
CONSTANTS
    Config = {A, B}
    NoConfig = NoConfig
    WritesMayFail = TRUE
    MaxChanges = 3
INVARIANT RevertIsStored
