SPECIFICATION Spec
CONSTANTS
    MAX_PROCESS_CNT = 4
    COUNTER_MOD = 8
    MAX_GENERATION = 0
    Calls = {"yield", "read", "fork", "execve", "exit", "kill", "waitpid"}
    Signals = {}
    KillTargets = {"POOLED", "QUEUED", "RUNNING", "ZOMBIE"}
    QUEUE_MAX = 4
    INPUT_MAX = 1
INVARIANTS TypeOK RunQueueOK NoLostWakeup FamilyOK
PROPERTY ReapedByParent
