CONSTANTS
    a1 = a1  a2 = a2
    j1 = j1  j2 = j2
    c1 = c1  c2 = c2
    Apps <- MCApps
    Jobs <- MCJobs
    Cycles <- MCCycles
    JobOf <- MCJobOf
    CycleOf <- MCCycleOf
    Outcome <- MCOutcome
    ApplyBy <- MCApplyBy
    FirstDeadline <- MCFirstDeadline
    Kind <- MCKind
    Behavior <- MCBehavior
    Cap <- MCCap
    LateWithdrawal <- MCLateWithdrawal
    ExternalIds = {}
    Domains = {}
    MaxOffers = 2
    MaxTime = 2
    MaxInterventions = 2
SPECIFICATION FairSpec
PROPERTIES
    OfferEventuallyResolved
CHECK_DEADLOCK FALSE
