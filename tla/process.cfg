SPECIFICATION Spec
CONSTANT Kinds = {"agent", "dryRun", "controller", "leader", "webhook"}
INVARIANTS TypeOK CleanIsStopped
PROPERTIES Terminates FailureEndsProgram
CHECK_DEADLOCK FALSE
