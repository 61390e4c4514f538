\* A store with a janitor that becomes unreachable: does stopJanitor always return and the janitor goroutine end?
CONSTANT CleanupInterval = 1
SPECIFICATION Spec
PROPERTY FinalizerReturns
\* Once the store is collected and its janitor has returned nothing of it is left to run.
CHECK_DEADLOCK FALSE
