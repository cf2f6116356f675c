SPECIFICATION Spec
CONSTANT ServerCount = 2
INVARIANT ServersStopped
CHECK_DEADLOCK FALSE
