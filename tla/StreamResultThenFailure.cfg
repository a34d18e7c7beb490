\* One line, the result, through channels of one event.
CONSTANTS
    ChannelCap = 1
    MaxLines = 1
SPECIFICATION StreamSpec
INVARIANT FailedIfExitedNonZero
CHECK_DEADLOCK FALSE
