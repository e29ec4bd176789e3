CONSTANTS
    Assets = {a, b}
    Attempts = 2
    Polls = 2
    Strangers = {stranger}
    FaultSets = {{}, {"read"}, {"lost", "inspect"}, {"unnamed", "delete"}, {"lost", "unnamed", "inspect", "delete", "timeout"}}
SPECIFICATION MultiSpec
INVARIANTS NeverBreakLive NothingLeftOver
PROPERTIES RunEnds
CHECK_DEADLOCK FALSE
