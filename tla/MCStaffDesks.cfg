CONSTANTS
    CompanyIds = {c1, c2}
    Names = {n1, n2}
    ContactIds = {p1, p2, p3}
    Emails = {e1, e2}
    History = {h1}
    Nobody = Nobody
    Users = {u1, u2}
    Administrator = u1
    Sessions = {s1, s2}
    MaxPending = 2
    States = {x1, x2, x3}
    Resumes = {1, 2, 3, 4}
    Links = {d1, d2}
    NoLink = NoLink
    Subjects = {f1, f2}
    Runs = {nightly, button}
    Nightly = nightly
    Rows = {1, 2}
    Enrollments = {b1, b2}
    RuleDomains = {"eligibility", "outcome_gate"}
    MaxCreated = 1
    NoEnrollment = NoEnrollment
    Questions = {q1}
    Applications = {a1}
    Options = {o1, o2, o3}
    Texts = {t1}
    NoQuestion = NoQuestion
    Rules <- MCRules
    Profiles <- MCProfiles
    Outcome = "internship"
    MaxSession = 2
    Programs = {m1, m2}
    Branches = {d9}
    None = None
    Venues = {v1, v2}
    Times = {w1}
    Unset = Unset
    Garbled = Garbled
    Unseated = Unseated
    Desks = {"companies", "accounts", "sign_in", "resumes", "findings",
             "overrides", "forms", "rules", "taxonomies", "slots"}
SPECIFICATION Spec
INVARIANTS
    DirectoryPlansApply
    DeletesApply
    AnAdministratorRemains
    StateUsedOnce
    OneDefaultResume
    ToldWhatTheySee
PROPERTIES
    DriftIsListed
    BlocksHold
    KnownVerdictsStand
CHECK_DEADLOCK FALSE
