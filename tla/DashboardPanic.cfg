SPECIFICATION Spec
CONSTANTS
    Sessions = {s1, s2}
    Services = {p1}
    Consumer = consumer
    Keys = {k}
    Critical = critical
    Buffer = 2
    Throttle = 1
    MaxEvents = 2
    MaxTime = 1
    None = None
INVARIANTS StreamIsHarmless
CHECK_DEADLOCK FALSE
