SPECIFICATION Spec
CONSTANTS
    Instance = {a, b}
    a = a
    b = b
    MaxTries = 2
    MaxFailures = 1
INVARIANT MigrationRuns
CHECK_DEADLOCK FALSE
