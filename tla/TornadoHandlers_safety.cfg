SPECIFICATION Spec
CONSTANTS
    Queues = {q1, q2, q3}
    LastHandlerId = 6
CHECK_DEADLOCK FALSE
INVARIANTS PollsAgree NoPollLeak
