CONSTANTS
    a1 = a1
    j1 = j1
    season = season
    x1 = x1  x2 = x2
    Apps <- MCApps
    Jobs <- MCJobs
    Cycles <- MCCycles
    JobOf <- MCJobOf
    CycleOf <- MCCycleOf
    Outcome <- MCOutcome
    ApplyBy <- MCApplyBy
    FirstDeadline <- MCFirstDeadline
    Kind <- MCKind
    Behavior <- MCBehavior
    Cap <- MCCap
    LateWithdrawal <- MCLateWithdrawal
    RequiresApproval <- MCRequiresApproval
    RegistrationOpens <- MCRegistrationOpens
    RegistrationCloses <- MCRegistrationCloses
    ExternalIds = {x1, x2}
    Domains = {"outcome_gate", "offer_cap", "cycle_registration_window"}
    MaxOffers = 2
    MaxTime = 1
    MaxInterventions = 1
SPECIFICATION ExternalSpec
SYMMETRY Symmetry
INVARIANTS
    
    PipelineNeedsMembership
PROPERTIES
    SecondPlacementNeedsOverride
    RestorationGivesBack
CHECK_DEADLOCK FALSE
