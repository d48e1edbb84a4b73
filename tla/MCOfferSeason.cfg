CONSTANTS
    a1 = a1  a2 = a2  a3 = a3
    j1 = j1  j2 = j2  j3 = j3
    c1 = c1  c2 = c2  openings = openings
    Apps <- MCApps
    Jobs <- MCJobs
    Cycles <- MCCycles
    JobOf <- MCJobOf
    CycleOf <- MCCycleOf
    Outcome <- MCOutcome
    ApplyBy <- MCApplyBy
    FirstDeadline <- MCFirstDeadline
    Kind <- MCKind
    Behavior <- MCBehavior
    Cap <- MCCap
    LateWithdrawal <- MCLateWithdrawal
    ExternalIds = {}
    Domains = {"outcome_gate"}
    MaxOffers = 2
    MaxTime = 1
    MaxInterventions = 2
SPECIFICATION Spec
INVARIANTS
    OneAcceptedPlacement
    OfferMatchesStatus
    ExpiryScheduled
    NoCompetingApplication
PROPERTIES
    ClosedOfferIsFinal
CHECK_DEADLOCK FALSE
