CONSTANTS
    r1 = r1  r2 = r2  r3 = r3  r4 = r4
    k1 = k1
    Requests <- MCRequests
    Keys <- MCKeys
    Payloads <- MCPayloads
    Principals <- MCPrincipals
    KeyOf <- MCKeyOf
    BatchOf <- MCBatchOf
    Notices = {n1, n2}
    Targets = {t1}
    RetryDelays <- MCRetryDelays
    MaxLeft = 2
    Lead = 1
    Retention = 2
    MaxCrashes = 1
SPECIFICATION Spec
INVARIANTS
    AuditedOnce
    SuccessIsStored
    OneChainOfJobs
    ConfirmedOnce
    RemindedOnce
PROPERTIES
    KeepsPromise
    EveryCallEnds
    EveryNoticeSettles
CHECK_DEADLOCK FALSE
