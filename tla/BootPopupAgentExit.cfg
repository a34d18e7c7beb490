SPECIFICATION LiveSpec
CONSTANT MaxSteps = 2
PROPERTIES AgentExitReturns
CHECK_DEADLOCK FALSE
