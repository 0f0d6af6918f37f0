SPECIFICATION Spec
CONSTANTS
    NR_PROCS = 3
    Server = {0}
    VM = 3
    Booted = {1, 2}
    NR_SCHED_QUEUES = 4
    LOTTERY_Q = 2
    DEADLINE_Q = 2
    SchedType = 1
    BaseQ <- MCBaseQ
    Quantum <- MCQuantum
    CHAR_MAX = 1
    TMR_NEVER = 4
    Deadlines = {}
    NiceQueues = {0}
    KernelCalls = {"nice"}
    Watchdogs = {"balance"}
INVARIANTS
    TypeOK
    RunQueuesOK
    PriorityRespected
    LotteryProportional
PROPERTIES
    TasksRunToCompletion
