CONSTANTS
    s1 = s1  s2 = s2  r1 = r1
    Students = {s1, s2}
    Rolls = {r1}
    Columns = {"cpi"}
    RosterRows <- MCRosterRows
    MaxRows = 1
    MaxEnrollments <- MCEnrollments
    Active = {s1}
SPECIFICATION FairRecordsSpec
INVARIANTS
    RollsStayUnique
    LiveStaysEligible
PROPERTIES
    StagedRowsSettle
CHECK_DEADLOCK FALSE
