SPECIFICATION MCSpec
CONSTANTS
    p1 = p1
    p2 = p2
    Producers = {p1, p2}
    Consumers = {c1}
    Capacity = 2
    Loads <- MCLoads
    Garbage = {0, 2, 4}
INVARIANTS
    TypeOK
    ElementsDisjoint
    NoNullDereference
PROPERTY
    ImplementsQueue
CHECK_DEADLOCK FALSE
