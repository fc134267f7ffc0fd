SPECIFICATION Spec
CONSTANTS
    Subjects = {s1, s2}
    CounterMax = 8
    SeqModulus = 2
    PerMs = 2
    Window = 4
    MaxRequests = 4
    MaxBoots = 2
    MaxTime = 3
SYMMETRY Symmetry
INVARIANTS
    AnswersOwnRequest
    FreshIsNotReplay
PROPERTIES
    KeepsLifecycle
CHECK_DEADLOCK FALSE
