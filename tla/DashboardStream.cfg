SPECIFICATION FairSpec
CONSTANTS
    Sessions = {s1}
    Services = {p1}
    Consumer = consumer
    Keys = {k}
    Critical = critical
    Buffer = 2
    Throttle = 1
    MaxEvents = 3
    MaxTime = 1
    None = None
INVARIANTS StatesSpaced KeepsUpGetsAll
PROPERTIES CriticalSurvives PublishReturns
CHECK_DEADLOCK FALSE
