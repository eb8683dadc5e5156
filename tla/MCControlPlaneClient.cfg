SPECIFICATION ClientSpec
CONSTANTS
    MaxAttempts = 2
    MaxPolls = 2
    MaxEvents = 10
    MaxCalls = 2
    Nothing = Nothing
INVARIANT RecordedRunsAreAccepted
\* the bounds end every behaviour
CHECK_DEADLOCK FALSE
