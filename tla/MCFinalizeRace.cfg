CONSTANTS
    a1 = a1  a2 = a2  a3 = a3
    j1 = j1  j2 = j2  j3 = j3
    c1 = c1  c2 = c2
    Apps <- MCApps
    Jobs <- MCJobs
    Cycles <- MCCycles
    JobOf <- MCJobOf
    CycleOf <- MCCycleOf
    FirstStatus <- MCFirstStatus
    Txs <- FinalizeTxs
    Command <- MCCommand
    Target <- MCTarget
    AppOrder <- MCAppOrder
    OfferOrder <- MCOfferOrder
    MaxRunning = 3
    MaxStarted = 4
SPECIFICATION Spec
PROPERTIES
    Serialized
CHECK_DEADLOCK FALSE
