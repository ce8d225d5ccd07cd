SPECIFICATION FairSpec
CONSTANTS
    a = a
    b = b
    None = None
    Workers = {w1, w2}
    Messages = {m1}
    EndpointList <- TwoEndpoints
    Subscribed <- AllSubscribed
    MaxAttempts = 2
    RetryDelays <- OneTickDelay
    Lease = 3
    ReadTicks = 1
    MaxTime = 8
    MaxReplays = 1
    MaxFaults = 1
INVARIANTS
    CompletedIsDelivered
    SingleOwner
    AttemptsAccounted
PROPERTY PendingIsSettled
CHECK_DEADLOCK FALSE
