SPECIFICATION Spec
CONSTANTS
    Users <- MCUsers
    N = 3
    Owner <- MCOwner
    Markdown = {1, 3}
    AllStreams = {2}
    NarrowMentioned = {}
    Kinds = {"message", "userdata"}
    MaxNotices = 3
INVARIANT NothingMissed
CHECK_DEADLOCK FALSE
