SPECIFICATION Spec
CONSTANTS
    NR_PROCS = 3
    Server = {0}
    VM = 3
    Booted = {1, 2}
    NR_SCHED_QUEUES = 3
    LOTTERY_Q = 1
    DEADLINE_Q = 1
    SchedType = 2
    BaseQ <- MCBaseQEdf
    Quantum <- MCQuantum
    CHAR_MAX = 1
    TMR_NEVER = 4
    Deadlines = {1, 2}
    NiceQueues = {}
    KernelCalls = {"chdeadline"}
    Watchdogs = {"balance"}
INVARIANTS
    EarliestDeadlineRuns
