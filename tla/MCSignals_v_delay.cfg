SPECIFICATION Spec
CONSTANTS
    User = {1}
    Sig = {1, 2}
    SIGPROF = 2
    Ignored = {2}
    SaMask <- MCSaMask
    NoDefer = {2}
    ResetHand = {2}
    Interval = {1}
    Requests <- MCRequests
    Rare = {"queued_fs_call"}
INVARIANTS
    NoPanic
CHECK_DEADLOCK FALSE
