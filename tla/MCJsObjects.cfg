SPECIFICATION Spec
CONSTANTS
    NULL = NULL
    o1 = o1
    o2 = o2
    x1 = x1
    x2 = x2
    x3 = x3
    Languages = {"perl", "ruby"}
    Ports = {o1, o2}
    Proxies = {x1, x2, x3}
    MaxQueue = 1
    MaxMisused = 1
SYMMETRY Symmetry
INVARIANTS
    TypeOK
    CallbacksSafe
    ScriptSafe
    FreedOnce
    CollectorSafe
CHECK_DEADLOCK FALSE
