SPECIFICATION Spec
CONSTANTS
    Request = {r1}
    Reconciler = Reconciler
    Schedule <- Nightly
    DayLen = 3
    QueueLen = 2
    FailLimit = 2
    MaxSession = 2
    MaxTime = 4
INVARIANTS TypeOK OneEngineWhenSerial LatchHolds RemoteTellsTruth NewestIsReachable
