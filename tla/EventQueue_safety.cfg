SPECIFICATION DequeSpec
CONSTANTS
    Messages = {m1, m2}
    Pointers = {p1, p2}
    MaxPushes = 4
INVARIANTS PointerConverges
PROPERTY ImplementsIdQueue
