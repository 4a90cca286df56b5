SPECIFICATION Spec
CONSTANTS
    Users <- MCUsers
    N = 3
    Owner <- MCOwner
    Markdown = {1, 3}
    AllStreams = {2, 3}
    NarrowMentioned = {2}
    Kinds = {"event", "message"}
    MaxNotices = 3
INVARIANTS DeliveredExactly NarrowHonoured
CHECK_DEADLOCK FALSE
