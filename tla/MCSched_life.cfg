SPECIFICATION Spec
CONSTANTS
    NR_PROCS = 4
    Server = {0, 1}
    VM = 1
    Booted = {2}
    NR_SCHED_QUEUES = 3
    LOTTERY_Q = 2
    DEADLINE_Q = 2
    SchedType = 0
    BaseQ <- MCBaseQ
    Quantum <- MCQuantum
    CHAR_MAX = 1
    TMR_NEVER = 4
    Deadlines = {}
    NiceQueues = {}
    KernelCalls = {"fork", "exit", "vmctl"}
    Watchdogs = {}
INVARIANTS
    
    RunQueuesOK
    
    SetAsideOnlyCurrent
    PriorityRespected
