CONSTANTS
\* QueueRegistry
    Users <- MCUsers
    Queues <- MCQueues
    Owner <- MCOwner
    Messages = {m1}
    TakesMessages = {"a1", "a2", "b1"}
    AllStreams = {"b1"}
    AlwaysPush = {"bob"}
\* PushDevices
    Owners = {o1, o2}
    AppleTokens = {"a"}
    GoogleTokens = {"g", "h"}
    OurApp = {"a"}
    MaxTime = 1
    MaxCalls = 2
SPECIFICATION MCSpec
SYMMETRY Symmetry
INVARIANTS RegistryConsistent  RegistrationStands
PROPERTY HookOnlyForLast
