--------------------------- MODULE StudentRecords ---------------------------
(***************************************************************************)
(* The record of a student: enrollments with their roll numbers and        *)
(* profiles, written by the student, by the office and by the roster the   *)
(* office uploads.  A roster row of an address that has no user yet is     *)
(* staged and applied when its student signs in.  Commands on an existing  *)
(* user lock that user's rows and are single steps; while there is no user *)
(* there is no row to lock, and the first sign-in and the staging of a row *)
(* are two steps each, what they read and what they commit.                *)
(***************************************************************************)
EXTENDS Naturals, Sequences, FiniteSets, FiniteSetsExt

CONSTANTS
    Students,        \* institute addresses
    Rolls,           \* roll numbers
    Columns,         \* the profile columns at play, of "branch", "cpi" and "phone"
    RosterRows,        \* the roster rows the office may upload
    MaxRows,         \* bound on staged rows
    MaxEnrollments,  \* student -> bound on its enrollments
    Active           \* bound: the others only sign in and are on the roster

VARIABLES
    enrollments,     \* student -> its enrollments, the last one current; none: no user
    staged,          \* the staged_profile_rows, in order of created_at
    signingIn,       \* student -> the staged rows a first sign-in has loaded
    conflicts,       \* student -> their rolls it found taken when it loaded them
    staging,         \* student -> the roster rows being staged in its name
    applying         \* student -> the enrollment an application is being filed for, 0 none

recordVars == <<enrollments, staged, signingIn, conflicts, staging, applying>>

NoRoll == "no roll"
Blank == 0
Values == Blank..2
Cells == UNION {[cols -> Values] : cols \in SUBSET Columns}

ASSUME RecordsAssumption ==
    /\ Columns \subseteq {"branch", "cpi", "phone"}
    /\ MaxRows \in Nat /\ MaxEnrollments \in [Students -> Nat \ {0}]
    /\ Active \subseteq Students
    /\ NoRoll \notin Rolls
    /\ RosterRows \subseteq [roll : Rolls \cup {NoRoll}, cells : Cells]

\* Who may write a column: the office owns some, of these the student keeps
\* some current; of the student's own, the roster may only fill some.
ADMIN_FIELDS == {"branch", "cpi"} \cap Columns
STUDENT_MAINTAINED_ADMIN_FIELDS == {"cpi"} \cap Columns
STUDENT_FIELDS == {"phone"} \cap Columns
BULK_INITIAL_ONLY_FIELDS == {"phone"} \cap Columns

Fresh == [roll |-> NoRoll, cols |-> [c \in Columns |-> Blank], declared |-> FALSE, app |-> "none"]

HasUser(s) == enrollments[s] # <<>>
CurrentNo(s) == Len(enrollments[s])
CurrentOf(s) == enrollments[s][CurrentNo(s)]

RecordsInit ==
    /\ enrollments = [s \in Students |-> <<>>]
    /\ staged = <<>>
    /\ signingIn = [s \in Students |-> {}]
    /\ conflicts = [s \in Students |-> {}]
    /\ staging = [s \in Students |-> {}]
    /\ applying = [s \in Students |-> 0]

-----------------------------------------------------------------------------
(* What an application asks, and what a change of the profile does to it.  *)

\* The eligibility rule of the job: a high CPI.
Eligible(e) == "cpi" \in Columns => e.cols["cpi"] = 2

\* Mutant: nobody looks at the applications again.
RequalifiedNever(e) == e

\* revocations and removal_plan.
Requalified(e) == IF e.app = "live" /\ ~Eligible(e) THEN [e EXCEPT !.app = "rejected"] ELSE e

Filled(e, cells) ==
    [e EXCEPT !.cols = [c \in Columns |-> IF c \in DOMAIN cells THEN cells[c] ELSE e.cols[c]]]
WithRoll(e, roll) == IF roll = NoRoll THEN e ELSE [e EXCEPT !.roll = roll]

SetCurrent(s, e) == enrollments' = [enrollments EXCEPT ![s][CurrentNo(s)] = e]

-----------------------------------------------------------------------------
(* Roll numbers.  Whoever brings one takes its advisory lock and then looks *)
(* for another current enrollment that has it.                              *)

PendingOf(s) == {r \in DOMAIN staged : staged[r].of = s /\ staged[r].status = "pending"}
RollsIn(rows) == {staged[r].roll : r \in rows} \ {NoRoll}
RollHeld(roll) ==
    \E s \in Students : roll \in RollsIn(signingIn[s]) \cup {p.roll : p \in staging[s]}
RollTaken(roll, s) == \E t \in Students \ {s} : HasUser(t) /\ CurrentOf(t).roll = roll
TakenFrom(s) == {roll \in Rolls : RollTaken(roll, s)}

\* A roll that may be written on the current enrollment of `s` now.
RollFree(roll, s) == roll = NoRoll \/ (~RollHeld(roll) /\ ~RollTaken(roll, s))

-----------------------------------------------------------------------------
(* Staged rows.                                                             *)

\* Mutant: the roll of a row is compared only with the enrollment it lands on.
RowFailsHere(row, e, taken) == row.roll # NoRoll /\ e.roll # NoRoll /\ row.roll # e.roll

\* _row_problems on the roll: it is the enrollment's own, or not one of those
\* seen taken if it has none.
RowFails(row, e, taken) ==
    /\ row.roll # NoRoll
    /\ IF e.roll = NoRoll THEN row.roll \in taken ELSE row.roll # e.roll

\* plan_staged_rows: the rows of an address, the oldest first, each judged
\* against what the ones before it left; [to, failed] as the result.  Rows that
\* are `unfit` fail for a taxonomy, a branch or a value and leave nothing behind.
\* Of the rest, the oldest with a roll the enrollment may have decides which one
\* it has, those with another fail, and of the others the latest that names a
\* column decides it.
Landed(e, rows, unfit, taken) ==
    LET fit == rows \ unfit
        bringing == {r \in fit : staged[r].roll # NoRoll /\ ~RowFails(staged[r], e, taken)}
        roll == IF bringing = {} THEN e.roll ELSE staged[Min(bringing)].roll
        landing == {r \in fit : staged[r].roll \in {NoRoll, roll}}
        naming(c) == {r \in landing : c \in DOMAIN staged[r].cells}
        latest == [c \in Columns |-> IF naming(c) = {} THEN e.cols[c]
                                                    ELSE staged[Max(naming(c))].cells[c]]
    IN  [to |-> [e EXCEPT !.roll = roll, !.cols = latest], failed |-> rows \ landing]

Settle(rows, failed) ==
    staged' = [r \in DOMAIN staged |->
        IF r \notin rows THEN staged[r]
        ELSE [staged[r] EXCEPT !.status = IF r \in failed THEN "failed" ELSE "applied"]]

\* The first sign-in: it loads the staged rows of its address, locks them and
\* their rolls, sees which of these are taken, and provisions the user when it
\* commits, trusting what it saw.
BeginFirstLogin(s) ==
    /\ ~HasUser(s)
    /\ signingIn[s] = {}
    /\ PendingOf(s) # {}
    /\ \A roll \in RollsIn(PendingOf(s)) : ~RollHeld(roll)
    /\ signingIn' = [signingIn EXCEPT ![s] = PendingOf(s)]
    /\ conflicts' = [conflicts EXCEPT ![s] = RollsIn(PendingOf(s)) \cap TakenFrom(s)]
    /\ UNCHANGED <<enrollments, staged, staging, applying>>

\* A sign-in nothing is staged for needs no step in between.
CommitFirstLogin(s) ==
    /\ ~HasUser(s)
    /\ signingIn[s] = {} => PendingOf(s) = {}
    /\ \E unfit \in SUBSET signingIn[s] :
         LET landed == Landed(Fresh, signingIn[s], unfit, conflicts[s]) IN
         /\ enrollments' = [enrollments EXCEPT ![s] = <<landed.to>>]
         /\ Settle(signingIn[s], landed.failed)
    /\ signingIn' = [signingIn EXCEPT ![s] = {}]
    /\ conflicts' = [conflicts EXCEPT ![s] = {}]
    /\ UNCHANGED <<staging, applying>>

\* Mutant: staged rows are looked for at the first sign-in only.
LaterLoginPlain(s) == FALSE

\* Any later sign-in of the same student, with plan_staged_requalification.
LaterLogin(s) ==
    /\ HasUser(s)
    /\ PendingOf(s) # {}
    /\ \A roll \in RollsIn(PendingOf(s)) : ~RollHeld(roll)
    /\ \E unfit \in SUBSET PendingOf(s) :
         LET landed == Landed(CurrentOf(s), PendingOf(s), unfit, TakenFrom(s)) IN
         /\ SetCurrent(s, Requalified(landed.to))
         /\ Settle(PendingOf(s), landed.failed)
    /\ UNCHANGED <<signingIn, conflicts, staging, applying>>

DeleteStagedRow(r) ==
    /\ staged[r].status \in {"pending", "failed"}
    /\ \A s \in Students : r \notin signingIn[s]
    /\ staged' = [staged EXCEPT ![r].status = "deleted"]
    /\ UNCHANGED <<enrollments, signingIn, conflicts, staging, applying>>

RetryStagedRow(r) ==
    /\ staged[r].status = "failed"
    /\ staged' = [staged EXCEPT ![r].status = "pending"]
    /\ UNCHANGED <<enrollments, signingIn, conflicts, staging, applying>>

-----------------------------------------------------------------------------
(* The roster: bulk_upsert_profiles, row by row.                            *)

\* A row whose address has no user; the lock on the address is the roster's
\* own and not the one a sign-in takes.  A row staged already is not repeated.
BeginStaging(s, p) ==
    /\ ~HasUser(s)
    /\ staging[s] = {}
    /\ p.roll # NoRoll => ~RollHeld(p.roll)
    /\ \A r \in PendingOf(s) : staged[r].roll # p.roll \/ staged[r].cells # p.cells
    /\ staging' = [staging EXCEPT ![s] = {p}]
    /\ UNCHANGED <<enrollments, staged, signingIn, conflicts, applying>>

CommitStaging(s) ==
    /\ \E p \in staging[s] :
         IF Len(staged) < MaxRows
         THEN staged' = Append(staged, [of |-> s, roll |-> p.roll, cells |-> p.cells,
                                        status |-> "pending"])
         ELSE UNCHANGED staged
    /\ staging' = [staging EXCEPT ![s] = {}]
    /\ UNCHANGED <<enrollments, signingIn, conflicts, applying>>

\* A row of a user: the roll must match or be free, a column of the student's
\* own that is set is not overwritten.
UploadRow(s, p) ==
    LET e == CurrentOf(s) IN
    /\ HasUser(s)
    /\ staging[s] = {}
    /\ p.roll # NoRoll => ~RollHeld(p.roll)
    /\ ~RowFails(p, e, TakenFrom(s))
    /\ \A c \in BULK_INITIAL_ONLY_FIELDS \cap DOMAIN p.cells :
         e.cols[c] \in {Blank, p.cells[c]}
    /\ SetCurrent(s, Requalified(WithRoll(Filled(e, p.cells), p.roll)))
    /\ UNCHANGED <<staged, signingIn, conflicts, staging, applying>>

-----------------------------------------------------------------------------
(* The student and the office.                                              *)

\* What a declaration may fill: not what the office filled before it.
Declarable(e) ==
    {c \in Columns : c \notin ADMIN_FIELDS \ STUDENT_MAINTAINED_ADMIN_FIELDS
                       \/ e.cols[c] = Blank}
Taken(cells, cols) == [c \in DOMAIN cells \cap cols |-> cells[c]]

DeclareProfile(s, cells, roll) ==
    LET e == CurrentOf(s) IN
    /\ HasUser(s)
    /\ ~e.declared
    /\ roll # NoRoll => ~RollHeld(roll)
    /\ e.roll = NoRoll => RollFree(roll, s)
    /\ SetCurrent(s, [Filled(IF e.roll = NoRoll THEN WithRoll(e, roll) ELSE e,
                             Taken(cells, Declarable(e))) EXCEPT !.declared = TRUE])
    /\ UNCHANGED <<staged, signingIn, conflicts, staging, applying>>

\* The columns a student may write: their own, the ones they keep current, and
\* any other still blank.
Unlocked(e) ==
    STUDENT_FIELDS \cup STUDENT_MAINTAINED_ADMIN_FIELDS \cup {c \in ADMIN_FIELDS : e.cols[c] = Blank}

UpdateStudentFields(s, cells, roll) ==
    LET e == CurrentOf(s) IN
    /\ HasUser(s)
    /\ e.declared
    /\ DOMAIN cells \subseteq Unlocked(e)
    /\ roll # NoRoll => e.roll = NoRoll /\ RollFree(roll, s)
    /\ SetCurrent(s, Requalified(WithRoll(Filled(e, cells), roll)))
    /\ UNCHANGED <<staged, signingIn, conflicts, staging, applying>>

\* The office edits any enrollment; only a current one must have a free roll.
AdminUpdateProfile(s, k, cells, roll) ==
    LET e == enrollments[s][k] IN
    /\ roll # NoRoll => ~RollHeld(roll)
    /\ k = CurrentNo(s) => RollFree(roll, s)
    /\ enrollments' = [enrollments EXCEPT ![s][k] =
                          Requalified(WithRoll(Filled(e, cells), roll))]
    /\ UNCHANGED <<staged, signingIn, conflicts, staging, applying>>

StartNewEnrollment(s) ==
    /\ HasUser(s)
    /\ CurrentNo(s) < MaxEnrollments[s]
    /\ enrollments' = [enrollments EXCEPT ![s] = Append(@, Fresh)]
    /\ UNCHANGED <<staged, signingIn, conflicts, staging, applying>>

\* apply reads the profile without a lock and files a while later; it needs a
\* membership, and that needs a declared profile.
CheckEligibility(s) ==
    LET e == CurrentOf(s) IN
    /\ HasUser(s)
    /\ e.declared /\ e.app = "none" /\ Eligible(e)
    /\ applying[s] = 0
    /\ applying' = [applying EXCEPT ![s] = CurrentNo(s)]
    /\ UNCHANGED <<enrollments, staged, signingIn, conflicts, staging>>

FileApplication(s) ==
    LET k == applying[s] IN
    /\ k # 0
    /\ enrollments' = [enrollments EXCEPT ![s][k].app =
                          IF Eligible(enrollments[s][k]) THEN "live" ELSE "raced"]
    /\ applying' = [applying EXCEPT ![s] = 0]
    /\ UNCHANGED <<staged, signingIn, conflicts, staging>>

-----------------------------------------------------------------------------
RosterStep(s) ==
    \/ LaterLogin(s)
    \/ \E p \in RosterRows : UploadRow(s, p) \/ BeginStaging(s, p)
    \/ CommitStaging(s)

StudentStep(s) ==
    \/ \E cells \in Cells, roll \in Rolls \cup {NoRoll} :
         DeclareProfile(s, cells, roll) \/ UpdateStudentFields(s, cells, roll)
    \/ CheckEligibility(s)
    \/ FileApplication(s)

OfficeStep(s) ==
    \/ \E k \in DOMAIN enrollments[s], cells \in Cells, roll \in Rolls \cup {NoRoll} :
         AdminUpdateProfile(s, k, cells, roll)
    \/ StartNewEnrollment(s)

RecordsNext ==
    \/ \E s \in Students : BeginFirstLogin(s) \/ CommitFirstLogin(s) \/ RosterStep(s)
    \/ \E s \in Active : StudentStep(s) \/ OfficeStep(s)
    \/ \E r \in DOMAIN staged : DeleteStagedRow(r) \/ RetryStagedRow(r)

RecordsSpec == RecordsInit /\ [][RecordsNext]_recordVars

\* Students keep signing in, and what is under way commits; a sign-in waits
\* for the locks of rolls, which come and go.
FairRecordsSpec ==
    /\ RecordsSpec
    /\ \A s \in Students : /\ WF_recordVars(CommitStaging(s))
                          /\ SF_recordVars(BeginFirstLogin(s) \/ CommitFirstLogin(s))
                          /\ SF_recordVars(LaterLogin(s))

-----------------------------------------------------------------------------
EnrollmentRow == [roll : Rolls \cup {NoRoll}, cols : [Columns -> Values], declared : BOOLEAN,
                  app : {"none", "live", "rejected", "raced"}]
StagedRow == [of : Students, roll : Rolls \cup {NoRoll}, cells : Cells,
              status : {"pending", "applied", "failed", "deleted"}]

RecordsTypeOK ==
    /\ enrollments \in [Students -> Seq(EnrollmentRow)]
    /\ \A s \in Students : Len(enrollments[s]) <= MaxEnrollments[s]
    /\ staged \in Seq(StagedRow)
    /\ conflicts \in [Students -> SUBSET Rolls]
    /\ \A s \in Students : /\ signingIn[s] \subseteq PendingOf(s)
                           /\ staging[s] \subseteq RosterRows
                           /\ applying[s] \in 0..Len(enrollments[s])

\* one_current_roll_number of the consistency checker: no command runs into the
\* unique index, whichever of roster, sign-in, student and office brings the
\* roll first and however long a first sign-in takes between reading and
\* writing.
RollsStayUnique ==
    \A s, t \in Students :
        s # t /\ HasUser(s) /\ HasUser(t) /\ CurrentOf(s).roll # NoRoll
        => CurrentOf(s).roll # CurrentOf(t).roll

\* ELG-4: whoever changed the profile, by whatever way, an application in
\* progress still satisfies the rule it was admitted by, also one of an earlier
\* enrollment.  (One filed while the profile changed is marked "raced".)
LiveStaysEligible ==
    \A s \in Students : \A k \in DOMAIN enrollments[s] :
        enrollments[s][k].app = "live" => Eligible(enrollments[s][k])

\* PRO-2: a staged row does not wait forever, also one that was staged while
\* its student was signing in for the first time.
StagedRowsSettle ==
    \A r \in 1..MaxRows :
        (r \in DOMAIN staged /\ staged[r].status = "pending")
        ~> (r \in DOMAIN staged /\ staged[r].status # "pending")
=============================================================================
