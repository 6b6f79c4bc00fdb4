CONSTANTS
    r1 = r1 r2 = r2
    Captured = {r1}
    Records = {r1, r2}
    Capacity = 1
    BatchSize = 2
    MaxRestarts = 1
    KeyOf <- SameKey
    Buffer = 1
    Chunks = 2
SPECIFICATION FairSpec
INVARIANTS OneRecordEach UsageComplete CounterExact
PROPERTIES KeepsAuditPromise EverythingEnds
CHECK_DEADLOCK FALSE
