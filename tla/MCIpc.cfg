SPECIFICATION Spec
CONSTANTS
    NR_PROCS = 3
    Booted = {0, 1, 2}
    SysProcs = {0, 1}
    Unkillable = {0}
    Hooked = {1}
    ipc_to <- MCipc_to
    trap_mask <- MCtrap_mask
    BITCHUNK_BITS = 2
    AsynNr = 1
    MaxForks = 1
    Rare = {}
    PMTraps = {"SENDNB", "SENDREC", "RECEIVE", "SENDA"}
    SysTraps = {"SEND", "SENDREC", "RECEIVE", "NOTIFY"}
    NewTraps = {"RECEIVE"}
VIEW View
INVARIANTS TypeOK  WaitsForLiving NoWaitCycle NoMissedMessage DeliveredOnce
PROPERTIES SendrecAnswered 
CHECK_DEADLOCK FALSE
