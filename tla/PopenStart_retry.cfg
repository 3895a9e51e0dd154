CONSTANTS
    MaxAttempts = 2
    ShellSettings = {TRUE, FALSE}
    DetachSettings = {TRUE, FALSE}
    SigchldIgnored = FALSE
SPECIFICATION Spec
CHECK_DEADLOCK FALSE
INVARIANT RetryRunsTheSameCommand
