SPECIFICATION FairSpec
CONSTANTS
    PlainTypes = {"message", "heartbeat"}
    VirtualTypes = {"pointer", "restart"}
    MaxEvents = 3
    MaxQueues = 2
    MaxRestarts = 1
    MaxStale = 1
    QueueTimeout = 2
    RenameWorks = TRUE
INVARIANTS NothingLost AtMostOnce NothingSkipped NoStuckPoll
PROPERTY EventuallyDelivered
