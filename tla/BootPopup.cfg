SPECIFICATION GateSpec
CONSTANT MaxSteps = 3
INVARIANTS OneTerminalWriter AgentOwnsTerminal OnePanel FailureAcknowledged
PROPERTIES KeepsPromise GateOpens RunReturns
CHECK_DEADLOCK FALSE
