SPECIFICATION Spec
CONSTANTS
    Request = {r1, r2}
    Reconciler = Reconciler
    Schedule <- NoSchedule
    DayLen = 3
    QueueLen = 1
    FailLimit = 2
    MaxSession = 2
    MaxTime = 0
INVARIANTS NeverTwoEngines
