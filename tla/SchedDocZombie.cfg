SPECIFICATION Spec
CONSTANTS
    MAX_PROCESS_CNT = 3
    COUNTER_MOD = 6
    MAX_GENERATION = 1
    Calls = {"yield", "read", "fork", "execve", "exit", "kill", "waitpid"}
    Signals = {9}
    KillTargets = {"POOLED", "QUEUED", "RUNNING", "ZOMBIE", "INTERRUPTIBLE"}
    QUEUE_MAX = 4
    INPUT_MAX = 2
INVARIANT DeadNeverRuns
CHECK_DEADLOCK FALSE
