SPECIFICATION Spec
CONSTANTS
    t1 = t1  t2 = t2
    Threads = {t1, t2}
    MaximumAttempts = 2
    BaseDelay = 1
    MaximumDelay = 2
    Limit = 2
    Window = 3
    NoAnswer = NoAnswer
INVARIANTS
    OverdrawIsBounded
PROPERTY ExecutionsEnd
