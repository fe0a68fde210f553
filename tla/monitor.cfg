SPECIFICATION FairSpec
CONSTANTS
    N = 2
    Pid <- MCPid
    Free = Free
    Other = Other
    MaxOthers = 1
    MaxLost = 1
INVARIANT OneProcess
PROPERTIES StopLeavesNone ComesBack
