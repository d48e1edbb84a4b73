CONSTANTS
    Apps = {a1}
    Rounds = {r1, r2}
    NoRound = NoRound
    StrikeOnAbsence = TRUE
    Marks = {"present", "excused"}
    Thresholds = {0, 1, 2}
    MaxStrikes = 2
    MaxInterventions = 3
SPECIFICATION Spec
SYMMETRY Symmetry
INVARIANTS
    AdvanceNeverCollides
    OneOpenRound
    OneStrikePerAbsence
    ConvertedPenaltiesSupported
PROPERTIES
    NoLeftoverGroup
    SpentStrikesStaySpent
CHECK_DEADLOCK FALSE
