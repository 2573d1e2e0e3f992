SPECIFICATION Spec
CONSTANTS
    writer = writer
    worker = worker
    audit = audit
    reject = reject
    rejected = rejected
    Clients <- MCClients
    Drain = Drain
    BatchLoop = BatchLoop
    Closer = Closer
    Nobody = Nobody
    Dest = Dest
    Source = Source
    NoDB = NoDB
    Group <- MCGroup
    LifecycleGroup = audit
    BatchGroup <- MCBatchGroup
    MQTTGroup = audit
    Worker = worker
    QueueDepth = 1
    Limits <- MCLimits
    RetryEnabled = TRUE
    RetryMaxAttempts = 2
    MaxSessions = 1
INVARIANTS
    PendingFlushed
    ReportedOnce
    CloseDoesNotPanic
PROPERTIES
    CloseReturns
    StopEndsSession
CHECK_DEADLOCK FALSE
