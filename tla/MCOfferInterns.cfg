CONSTANTS
    a1 = a1  a2 = a2  a3 = a3  a4 = a4
    j1 = j1  j2 = j2  j3 = j3
    openings = openings  season = season
    Apps <- MCApps
    Jobs <- MCJobs
    Cycles <- MCCycles
    JobOf <- MCJobOf
    CycleOf <- MCCycleOf
    Outcome <- MCOutcome
    ApplyBy <- MCApplyBy
    FirstDeadline <- MCFirstDeadline
    Kind <- MCKind
    Behavior <- MCBehavior
    Cap <- MCCap
    LateWithdrawal <- MCLateWithdrawal
    ExternalIds = {}
    Domains = {"outcome_gate", "offer_cap", "application_deadline", "withdraw_window"}
    MaxOffers = 2
    MaxTime = 1
    MaxInterventions = 1
SPECIFICATION Spec
SYMMETRY Symmetry
INVARIANTS
    
    OneActivePerJob
CHECK_DEADLOCK FALSE
