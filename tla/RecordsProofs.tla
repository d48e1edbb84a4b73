---------------------------- MODULE RecordsProofs ----------------------------
(***************************************************************************)
(* The safety of StudentRecords for any students, rolls, columns, roster   *)
(* rows and bounds.                                                        *)
(***************************************************************************)
EXTENDS StudentRecords, FiniteSetTheorems, WellFoundedInduction, TLAPS

(***************************************************************************)
(* Sets of numbers have a least element, finite ones a greatest: the order *)
(* in which staged rows were created.                                      *)
(***************************************************************************)
LEMMA LeastOf ==
    ASSUME NEW T \in SUBSET Nat, T # {}
    PROVE  Min(T) \in T /\ \A n \in T : Min(T) <= n
<1>1. IsWellFoundedOn(OpToRel(<, Nat), Nat)
  BY NatLessThanWellFounded
<1>2. PICK m \in T : \A n \in T : <<n, m>> \notin OpToRel(<, Nat)
  BY <1>1, WFMin
<1>3. \A n \in T : ~(n < m)
  BY <1>2 DEF OpToRel
<1>4. \A n \in T : m <= n
  BY <1>3
<1> QED BY <1>4 DEF Min

LEMMA GreatestOf ==
    ASSUME NEW T \in SUBSET Nat, T # {}, NEW top \in Nat, \A n \in T : n <= top
    PROVE  Max(T) \in T /\ \A n \in T : n <= Max(T)
<1> DEFINE below == {top - n : n \in T}
<1>1. below \in SUBSET Nat /\ below # {}
  OBVIOUS
<1>2. Min(below) \in below /\ \A n \in below : Min(below) <= n
  BY <1>1, LeastOf
<1>3. PICK m \in T : Min(below) = top - m
  BY <1>2
<1>4. \A n \in T : top - m <= top - n
  BY <1>2, <1>3
<1>5. \A n \in T : m >= n
  BY <1>4
<1> QED BY <1>5 DEF Max

-----------------------------------------------------------------------------
\* The types of the variables, as functions on students.
StudentFunctions ==
    /\ enrollments \in [Students -> Seq(EnrollmentRow)]
    /\ signingIn \in [Students -> SUBSET Nat]
    /\ conflicts \in [Students -> SUBSET Rolls]
    /\ staging \in [Students -> SUBSET RosterRows]
    /\ applying \in [Students -> Nat]

\* Whoever is signing in for the first time has no user yet.
FirstLoginsAreFirst == \A s \in Students : signingIn[s] # {} => ~HasUser(s)

\* No two first sign-ins hold the lock of one roll.
LocksApart ==
    \A s, t \in Students :
        s # t => RollsIn(signingIn[s]) \cap RollsIn(signingIn[t]) = {}

\* Of the rolls a first sign-in brings and holds, it saw all that are taken: one
\* that was free when it loaded its rows stays free until it commits.
SawAllTaken ==
    \A s \in Students : \A roll \in RollsIn(signingIn[s]) :
        RollTaken(roll, s) => roll \in conflicts[s]

FirstLoginLocks == LocksApart /\ SawAllTaken

\* Only a declared enrollment has applied or is about to.
ApplicantsDeclared ==
    \A s \in Students :
        /\ \A k \in DOMAIN enrollments[s] :
              enrollments[s][k].app # "none" => enrollments[s][k].declared
        /\ applying[s] # 0 => enrollments[s][applying[s]].declared

RecordsInv ==
    /\ RecordsTypeOK
    /\ StudentFunctions
    /\ FirstLoginsAreFirst
    /\ FirstLoginLocks
    /\ RollsStayUnique
    /\ LiveStaysEligible
    /\ ApplicantsDeclared

\* A roll `s` may bring: free, and locked by nobody but a sign-in of `s`.
Writable(roll, s) ==
    /\ ~RollTaken(roll, s)
    /\ ~RollHeld(roll) \/ roll \in RollsIn(signingIn[s])

\* Whoever has a roll after a step and had it not before brought it locked.
RollsComeLocked ==
    \A s \in Students : HasUser(s)' =>
        LET roll == CurrentOf(s)'.roll IN
        \/ roll = NoRoll
        \/ HasUser(s) /\ roll = CurrentOf(s).roll
        \/ ~RollHeld(roll)
        \/ roll \in RollsIn(signingIn[s])

\* What a step may do to the enrollments.
EnrollmentsKept ==
    /\ enrollments' \in [Students -> Seq(EnrollmentRow)]
    /\ \A s \in Students : /\ Len(enrollments'[s]) <= MaxEnrollments[s]
                           /\ Len(enrollments[s]) <= Len(enrollments'[s])
                           /\ \A k \in DOMAIN enrollments[s] :
                                 enrollments[s][k].declared => enrollments'[s][k].declared
                           /\ \A k \in DOMAIN enrollments'[s] :
                                 enrollments'[s][k].app # "none" => enrollments'[s][k].declared
    /\ RollsStayUnique'
    /\ LiveStaysEligible'
    /\ RollsComeLocked

LEMMA SeqFacts ==
    ASSUME NEW S, NEW q \in Seq(S)
    PROVE  /\ Len(q) \in Nat /\ DOMAIN q = 1 .. Len(q)
           /\ \A k \in DOMAIN q : q[k] \in S
           /\ q # <<>> <=> Len(q) # 0
           /\ \A e \in S : /\ Append(q, e) \in Seq(S)
                           /\ Len(Append(q, e)) = Len(q) + 1
                           /\ \A k \in 1 .. Len(q) : Append(q, e)[k] = q[k]
                           /\ Append(q, e)[Len(q) + 1] = e
           /\ \A k \in DOMAIN q, e \in S :
                 /\ [q EXCEPT ![k] = e] \in Seq(S)
                 /\ Len([q EXCEPT ![k] = e]) = Len(q)
                 /\ \A j \in 1 .. Len(q) : [q EXCEPT ![k] = e][j] = IF j = k THEN e ELSE q[j]
OBVIOUS

\* A roll nobody else has may be written on a current enrollment.
LEMMA UniqueAfter ==
    ASSUME RecordsInv, NEW s \in Students, NEW e \in EnrollmentRow,
           \A t \in Students \ {s} : enrollments'[t] = enrollments[t],
           HasUser(s)', CurrentOf(s)' = e,
           \/ e.roll = NoRoll
           \/ HasUser(s) /\ e.roll = CurrentOf(s).roll
           \/ Writable(e.roll, s)
    PROVE  RollsStayUnique' /\ RollsComeLocked
<1>1. ASSUME NEW t \in Students \ {s}
      PROVE  (HasUser(t)' <=> HasUser(t)) /\ (CurrentOf(t)' = CurrentOf(t))
  BY DEF HasUser, CurrentOf, CurrentNo
<1>2. ASSUME NEW t \in Students \ {s}, HasUser(t), e.roll # NoRoll
      PROVE  CurrentOf(t).roll # e.roll
  BY <1>2 DEF RecordsInv, RollsStayUnique, RollTaken, Writable
<1>3. ASSUME NEW t \in Students, NEW u \in Students, t # u,
             HasUser(t)', HasUser(u)', CurrentOf(t)'.roll # NoRoll
      PROVE  CurrentOf(t)'.roll # CurrentOf(u)'.roll
  <2>1. CASE t = s
    BY <1>1, <1>2, <1>3, <2>1
  <2>2. CASE u = s
    BY <1>1, <1>2, <1>3, <2>2
  <2>3. CASE t # s /\ u # s
    BY <1>1, <1>3, <2>3 DEF RecordsInv, RollsStayUnique
  <2> QED BY <2>1, <2>2, <2>3
<1>4. RollsComeLocked
  BY <1>1 DEF RollsComeLocked, Writable
<1> QED BY <1>3, <1>4 DEF RollsStayUnique

\* One enrollment is rewritten.
LEMMA OneRewritten ==
    ASSUME RecordsInv, NEW s \in Students, NEW k \in DOMAIN enrollments[s],
           NEW e \in EnrollmentRow,
           enrollments' = [enrollments EXCEPT ![s][k] = e],
           k = CurrentNo(s) => \/ e.roll = NoRoll
                               \/ e.roll = CurrentOf(s).roll
                               \/ Writable(e.roll, s),
           e.app = "live" => Eligible(e),
           e.app # "none" => e.declared,
           enrollments[s][k].declared => e.declared
    PROVE  EnrollmentsKept /\ \A t \in Students : HasUser(t)' <=> HasUser(t)
<1> DEFINE q == enrollments[s]
<1>1. /\ enrollments \in [Students -> Seq(EnrollmentRow)]
      /\ q \in Seq(EnrollmentRow) /\ k \in 1 .. Len(q) /\ Len(q) \in Nat
  BY SeqFacts DEF RecordsInv, RecordsTypeOK
<1>2. /\ enrollments'[s] = [q EXCEPT ![k] = e]
      /\ \A t \in Students \ {s} : enrollments'[t] = enrollments[t]
      /\ enrollments' \in [Students -> Seq(EnrollmentRow)]
  BY <1>1, SeqFacts
<1>3. /\ Len(enrollments'[s]) = Len(q) /\ DOMAIN enrollments'[s] = 1 .. Len(q)
      /\ \A j \in 1 .. Len(q) : enrollments'[s][j] = IF j = k THEN e ELSE q[j]
  BY <1>1, <1>2, SeqFacts
<1>4. \A t \in Students : Len(enrollments'[t]) = Len(enrollments[t])
  BY <1>2, <1>3
<1>5. RollsStayUnique' /\ RollsComeLocked
  <2>1. /\ HasUser(s)' /\ HasUser(s)
        /\ CurrentNo(s)' = CurrentNo(s) /\ CurrentNo(s) \in 1 .. Len(q)
    <3>1. enrollments'[s] \in Seq(EnrollmentRow)
      BY <1>2
    <3> QED BY <1>1, <1>3, <3>1, SeqFacts DEF HasUser, CurrentNo
  <2>2. CASE k = CurrentNo(s)
    <3>1. CurrentOf(s)' = e
      BY <1>3, <2>1, <2>2 DEF CurrentOf
    <3> QED BY <1>2, <2>1, <2>2, <3>1, UniqueAfter
  <2>3. CASE k # CurrentNo(s)
    <3>1. CurrentOf(s)' = CurrentOf(s) /\ CurrentOf(s) \in EnrollmentRow
      BY <1>1, <1>3, <2>1, <2>3, SeqFacts DEF CurrentOf
    <3> QED BY <1>2, <2>1, <3>1, UniqueAfter
  <2> QED BY <2>2, <2>3
<1>6. LiveStaysEligible'
  BY <1>2, <1>3, <1>1, SeqFacts DEF RecordsInv, LiveStaysEligible, Eligible
<1>7. ASSUME NEW t \in Students
      PROVE  /\ Len(enrollments'[t]) <= MaxEnrollments[t]
             /\ Len(enrollments[t]) <= Len(enrollments'[t])
             /\ \A j \in DOMAIN enrollments[t] :
                   enrollments[t][j].declared => enrollments'[t][j].declared
             /\ \A j \in DOMAIN enrollments'[t] :
                   enrollments'[t][j].app # "none" => enrollments'[t][j].declared
  <2>1. Len(enrollments[t]) <= MaxEnrollments[t] /\ Len(enrollments[t]) \in Nat
    BY <1>1, SeqFacts DEF RecordsInv, RecordsTypeOK
  <2>2. DOMAIN enrollments[t] = 1 .. Len(enrollments[t])
    BY <1>1, SeqFacts
  <2>3. CASE t = s
    BY <1>1, <1>3, <2>1, <2>2, <2>3 DEF RecordsInv, ApplicantsDeclared
  <2>4. CASE t # s
    BY <1>2, <2>1, <2>4 DEF RecordsInv, ApplicantsDeclared
  <2> QED BY <2>3, <2>4
<1>8. ASSUME NEW t \in Students
      PROVE  HasUser(t)' <=> HasUser(t)
  <2>1. enrollments[t] \in Seq(EnrollmentRow) /\ enrollments'[t] \in Seq(EnrollmentRow)
    BY <1>1, <1>2
  <2> QED BY <1>4, <2>1, SeqFacts DEF HasUser
<1> QED BY <1>2, <1>5, <1>6, <1>7, <1>8 DEF EnrollmentsKept

\* A new enrollment becomes the current one.
LEMMA OneAppended ==
    ASSUME RecordsInv, NEW s \in Students, NEW e \in EnrollmentRow,
           enrollments' = [enrollments EXCEPT ![s] = Append(@, e)],
           Len(enrollments[s]) < MaxEnrollments[s],
           e.roll = NoRoll \/ Writable(e.roll, s),
           e.app = "none"
    PROVE  EnrollmentsKept /\ \A t \in Students \ {s} : HasUser(t)' <=> HasUser(t)
<1> DEFINE q == enrollments[s]
<1>1. /\ enrollments \in [Students -> Seq(EnrollmentRow)]
      /\ q \in Seq(EnrollmentRow) /\ Len(q) \in Nat /\ MaxEnrollments[s] \in Nat
  BY SeqFacts, RecordsAssumption DEF RecordsInv, RecordsTypeOK
<1>2. /\ enrollments'[s] = Append(q, e)
      /\ \A t \in Students \ {s} : enrollments'[t] = enrollments[t]
      /\ enrollments' \in [Students -> Seq(EnrollmentRow)]
  BY <1>1, SeqFacts
<1>3. /\ Len(enrollments'[s]) = Len(q) + 1 /\ DOMAIN enrollments'[s] = 1 .. Len(q) + 1
      /\ \A j \in 1 .. Len(q) : enrollments'[s][j] = q[j]
      /\ enrollments'[s][Len(q) + 1] = e
  BY <1>1, <1>2, SeqFacts
<1>4. HasUser(s)' /\ CurrentOf(s)' = e
  <2>1. enrollments'[s] \in Seq(EnrollmentRow)
    BY <1>2
  <2> QED BY <1>1, <1>3, <2>1, SeqFacts DEF HasUser, CurrentOf, CurrentNo
<1>5. RollsStayUnique' /\ RollsComeLocked
  BY <1>2, <1>4, UniqueAfter
<1>6. LiveStaysEligible'
  <2>1. ASSUME NEW t \in Students, NEW j \in DOMAIN enrollments'[t],
               enrollments'[t][j].app = "live"
        PROVE  Eligible(enrollments'[t][j])
    <3>1. CASE t = s
      <4>1. j \in 1 .. Len(q) /\ enrollments'[s][j] = q[j] /\ DOMAIN q = 1 .. Len(q)
        BY <1>1, <1>3, <2>1, <3>1, SeqFacts
      <4> QED BY <2>1, <3>1, <4>1 DEF RecordsInv, LiveStaysEligible, Eligible
    <3>2. CASE t # s
      BY <1>2, <2>1, <3>2 DEF RecordsInv, LiveStaysEligible, Eligible
    <3> QED BY <3>1, <3>2
  <2> QED BY <2>1 DEF LiveStaysEligible, Eligible
<1>7. ASSUME NEW t \in Students
      PROVE  /\ Len(enrollments'[t]) <= MaxEnrollments[t]
             /\ Len(enrollments[t]) <= Len(enrollments'[t])
             /\ \A j \in DOMAIN enrollments[t] :
                   enrollments[t][j].declared => enrollments'[t][j].declared
             /\ \A j \in DOMAIN enrollments'[t] :
                   enrollments'[t][j].app # "none" => enrollments'[t][j].declared
  <2>1. Len(enrollments[t]) <= MaxEnrollments[t] /\ Len(enrollments[t]) \in Nat
    BY <1>1, SeqFacts DEF RecordsInv, RecordsTypeOK
  <2>2. DOMAIN enrollments[t] = 1 .. Len(enrollments[t])
    BY <1>1, SeqFacts
  <2>3. CASE t = s
    BY <1>1, <1>3, <2>1, <2>2, <2>3 DEF RecordsInv, ApplicantsDeclared
  <2>4. CASE t # s
    BY <1>2, <2>1, <2>4 DEF RecordsInv, ApplicantsDeclared
  <2> QED BY <2>3, <2>4
<1> QED BY <1>2, <1>5, <1>6, <1>7 DEF EnrollmentsKept, HasUser

-----------------------------------------------------------------------------
\* What the operators keep of an enrollment.
SameBooks(f, e) == f.declared = e.declared /\ f.app = e.app

LEMMA FilledKeeps ==
    ASSUME NEW e \in EnrollmentRow, NEW cells \in Cells
    PROVE  Filled(e, cells) \in EnrollmentRow /\ Filled(e, cells).roll = e.roll
           /\ SameBooks(Filled(e, cells), e)
<1>1. PICK cols \in SUBSET Columns : cells \in [cols -> Values]
  BY DEF Cells
<1>2. [c \in Columns |-> IF c \in DOMAIN cells THEN cells[c] ELSE e.cols[c]] \in [Columns -> Values]
  BY <1>1 DEF EnrollmentRow
<1> QED BY <1>2 DEF Filled, EnrollmentRow, SameBooks

LEMMA WithRollKeeps ==
    ASSUME NEW e \in EnrollmentRow, NEW roll \in Rolls \cup {NoRoll}
    PROVE  WithRoll(e, roll) \in EnrollmentRow
           /\ WithRoll(e, roll).roll = (IF roll = NoRoll THEN e.roll ELSE roll)
           /\ SameBooks(WithRoll(e, roll), e)
BY DEF WithRoll, EnrollmentRow, SameBooks

LEMMA RequalifiedKeeps ==
    ASSUME NEW e \in EnrollmentRow
    PROVE  /\ Requalified(e) \in EnrollmentRow
           /\ Requalified(e).roll = e.roll /\ Requalified(e).declared = e.declared
           /\ Requalified(e).app = "live" => Eligible(Requalified(e))
           /\ Requalified(e).app # "none" => e.app # "none"
BY DEF Requalified, EnrollmentRow, Eligible

LEMMA FreshTyped == Fresh \in EnrollmentRow /\ Fresh.roll = NoRoll /\ Fresh.app = "none"
BY DEF Fresh, EnrollmentRow, Values, Blank

\* The rows that are staged for a student, and what landing them leaves.
LEMMA StagedTyped ==
    ASSUME RecordsInv
    PROVE  /\ staged \in Seq(StagedRow) /\ Len(staged) \in Nat
           /\ DOMAIN staged = 1 .. Len(staged)
           /\ \A r \in DOMAIN staged : staged[r] \in StagedRow
           /\ \A s \in Students : /\ PendingOf(s) \in SUBSET DOMAIN staged
                                  /\ signingIn[s] \in SUBSET PendingOf(s)
BY SeqFacts DEF RecordsInv, RecordsTypeOK, PendingOf

LEMMA LandedKeeps ==
    ASSUME RecordsInv, NEW e \in EnrollmentRow, NEW rows \in SUBSET DOMAIN staged,
           NEW unfit \in SUBSET rows, NEW taken
    PROVE  LET f == Landed(e, rows, unfit, taken).to IN
           /\ f \in EnrollmentRow
           /\ SameBooks(f, e)
           /\ \/ f.roll = e.roll
              \/ f.roll \in RollsIn(rows) \cap Rolls /\ f.roll \notin taken
<1> DEFINE fit == rows \ unfit
           bringing == {r \in fit : staged[r].roll # NoRoll /\ ~RowFails(staged[r], e, taken)}
           roll == IF bringing = {} THEN e.roll ELSE staged[Min(bringing)].roll
           landing == {r \in fit : staged[r].roll \in {NoRoll, roll}}
           naming(c) == {r \in landing : c \in DOMAIN staged[r].cells}
           latest == [c \in Columns |-> IF naming(c) = {} THEN e.cols[c]
                                                    ELSE staged[Max(naming(c))].cells[c]]
<1>1. Landed(e, rows, unfit, taken).to = [e EXCEPT !.roll = roll, !.cols = latest]
  BY DEF Landed
<1>2. /\ rows \in SUBSET Nat /\ Len(staged) \in Nat /\ \A r \in rows : r <= Len(staged)
      /\ \A r \in rows : staged[r] \in StagedRow
  BY StagedTyped
<1>3. roll \in Rolls \cup {NoRoll}
      /\ (roll = e.roll \/ (roll \in RollsIn(rows) \cap Rolls /\ roll \notin taken))
  <2>1. CASE bringing = {}
    BY <2>1 DEF EnrollmentRow
  <2>2. CASE bringing # {}
    <3>1. Min(bringing) \in bringing
      BY <1>2, <2>2, LeastOf
    <3>2. staged[Min(bringing)].roll \in Rolls \cap RollsIn(rows)
      BY <1>2, <3>1 DEF StagedRow, RollsIn
    <3>3. roll = e.roll \/ roll \notin taken
      BY <2>2, <3>1 DEF RowFails
    <3> QED BY <2>2, <3>2, <3>3
  <2> QED BY <2>1, <2>2
<1>4. latest \in [Columns -> Values]
  <2>1. ASSUME NEW c \in Columns, naming(c) # {}
        PROVE  staged[Max(naming(c))].cells[c] \in Values
    <3>1. Max(naming(c)) \in naming(c)
      <4>1. naming(c) \in SUBSET Nat /\ \A r \in naming(c) : r <= Len(staged)
        BY <1>2
      <4> HIDE DEF naming
      <4> QED BY <1>2, <2>1, <4>1, GreatestOf
    <3>2. staged[Max(naming(c))] \in StagedRow
          /\ c \in DOMAIN staged[Max(naming(c))].cells
      BY <1>2, <3>1
    <3>3. PICK cols \in SUBSET Columns : staged[Max(naming(c))].cells \in [cols -> Values]
      BY <3>2 DEF StagedRow, Cells
    <3> QED BY <3>2, <3>3
  <2>2. \A c \in Columns : e.cols[c] \in Values
    BY DEF EnrollmentRow
  <2> HIDE DEF naming
  <2> QED BY <2>1, <2>2
<1> HIDE DEF roll, latest
<1> QED BY <1>1, <1>3, <1>4 DEF EnrollmentRow, SameBooks

-----------------------------------------------------------------------------
\* The locks of rolls do their work as long as rolls come locked, staged rolls
\* never change, and a first sign-in keeps what it loaded or ends.
LEMMA LocksKept ==
    ASSUME RecordsInv, RollsComeLocked,
           \A r \in DOMAIN staged : staged'[r].roll = staged[r].roll,
           \A s \in Students : \/ signingIn'[s] = {}
                               \/ /\ signingIn'[s] = signingIn[s]
                                  /\ conflicts'[s] = conflicts[s]
    PROVE  FirstLoginLocks'
<1>1. ASSUME NEW s \in Students
      PROVE  /\ RollsIn(signingIn[s])' \subseteq RollsIn(signingIn[s])
             /\ RollsIn(signingIn[s])' # {} => conflicts'[s] = conflicts[s]
  <2>1. signingIn[s] \subseteq DOMAIN staged
    BY StagedTyped
  <2> QED BY <2>1 DEF RollsIn
<1>2. LocksApart'
  BY <1>1 DEF RecordsInv, FirstLoginLocks, LocksApart
<1>3. ASSUME NEW s \in Students, NEW roll \in RollsIn(signingIn[s])', RollTaken(roll, s)'
      PROVE  roll \in conflicts'[s]
  <2>1. roll \in RollsIn(signingIn[s]) /\ conflicts'[s] = conflicts[s]
    BY <1>1, <1>3
  <2>2. roll # NoRoll /\ RollHeld(roll)
    BY <2>1 DEF RollsIn, RollHeld
  <2>3. PICK t \in Students \ {s} : HasUser(t)' /\ CurrentOf(t)'.roll = roll
    BY <1>3 DEF RollTaken
  <2>4. roll \notin RollsIn(signingIn[t])
    BY <2>1 DEF RecordsInv, FirstLoginLocks, LocksApart
  <2>5. HasUser(t) /\ roll = CurrentOf(t).roll
    BY <2>2, <2>3, <2>4 DEF RollsComeLocked
  <2>6. RollTaken(roll, s)
    BY <2>5 DEF RollTaken
  <2> QED BY <2>1, <2>6 DEF RecordsInv, FirstLoginLocks, SawAllTaken
<1> QED BY <1>2, <1>3 DEF FirstLoginLocks, SawAllTaken

\* A step that writes enrollments and nothing about the roster.
LEMMA EnrollmentStep ==
    ASSUME RecordsInv, EnrollmentsKept,
           UNCHANGED <<staged, signingIn, conflicts, staging>>,
           applying' \in [Students -> Nat],
           \A s \in Students : applying'[s] \in {0, applying[s]},
           \A s \in Students : signingIn[s] # {} => ~HasUser(s)'
    PROVE  RecordsInv'
<1>1. ASSUME NEW s \in Students
      PROVE  /\ applying'[s] \in 0 .. Len(enrollments'[s])
             /\ applying'[s] # 0 => enrollments'[s][applying'[s]].declared
  <2>1. /\ enrollments[s] \in Seq(EnrollmentRow) /\ enrollments'[s] \in Seq(EnrollmentRow)
        /\ applying[s] \in 0 .. Len(enrollments[s])
        /\ Len(enrollments[s]) <= Len(enrollments'[s])
    BY DEF EnrollmentsKept, RecordsInv, RecordsTypeOK
  <2>2. applying[s] # 0 => applying[s] \in DOMAIN enrollments[s]
    BY <2>1, SeqFacts
  <2>3. Len(enrollments[s]) \in Nat /\ Len(enrollments'[s]) \in Nat
    BY <2>1, SeqFacts
  <2>4. applying[s] # 0 => enrollments'[s][applying[s]].declared
    BY <2>2 DEF EnrollmentsKept, RecordsInv, ApplicantsDeclared
  <2>5. CASE applying'[s] = 0
    BY <2>3, <2>5
  <2>6. CASE applying'[s] = applying[s]
    BY <2>1, <2>3, <2>4, <2>6
  <2> QED BY <2>5, <2>6
<1>2. RecordsTypeOK'
  <2>1. staged' \in Seq(StagedRow) /\ conflicts' \in [Students -> SUBSET Rolls]
        /\ \A s \in Students : signingIn'[s] \subseteq PendingOf(s)' /\ staging'[s] \subseteq RosterRows
    BY DEF RecordsInv, RecordsTypeOK, PendingOf
  <2>2. enrollments' \in [Students -> Seq(EnrollmentRow)]
        /\ \A s \in Students : Len(enrollments'[s]) <= MaxEnrollments[s]
    BY DEF EnrollmentsKept
  <2> QED BY <1>1, <2>1, <2>2 DEF RecordsTypeOK
<1>3. StudentFunctions'
  BY DEF RecordsInv, StudentFunctions, EnrollmentsKept
<1>4. FirstLoginsAreFirst' /\ ApplicantsDeclared'
  BY <1>1 DEF FirstLoginsAreFirst, ApplicantsDeclared, EnrollmentsKept
<1>5. FirstLoginLocks'
  BY LocksKept DEF EnrollmentsKept
<1> QED BY <1>2, <1>3, <1>4, <1>5 DEF RecordsInv, EnrollmentsKept

LEMMA NoRollWritten ==
    ASSUME UNCHANGED enrollments
    PROVE  RollsComeLocked
BY DEF RollsComeLocked, HasUser, CurrentOf, CurrentNo

\* A command rewrites one enrollment of a user.
LEMMA RewritingStep ==
    ASSUME RecordsInv, NEW s \in Students, NEW k \in DOMAIN enrollments[s],
           NEW e \in EnrollmentRow,
           enrollments' = [enrollments EXCEPT ![s][k] = e],
           k = CurrentNo(s) => \/ e.roll = NoRoll
                               \/ e.roll = CurrentOf(s).roll
                               \/ Writable(e.roll, s),
           e.app = "live" => Eligible(e),
           e.app # "none" => e.declared,
           enrollments[s][k].declared => e.declared,
           UNCHANGED <<staged, signingIn, conflicts, staging>>,
           applying' \in [Students -> Nat],
           \A t \in Students : applying'[t] \in {0, applying[t]}
    PROVE  RecordsInv'
BY OneRewritten, EnrollmentStep DEF RecordsInv, FirstLoginsAreFirst

LEMMA CurrentRow ==
    ASSUME RecordsInv, NEW s \in Students, HasUser(s)
    PROVE  /\ CurrentNo(s) \in DOMAIN enrollments[s]
           /\ CurrentOf(s) = enrollments[s][CurrentNo(s)]
           /\ CurrentOf(s) \in EnrollmentRow
           /\ CurrentOf(s).app # "none" => CurrentOf(s).declared
BY SeqFacts DEF RecordsInv, StudentFunctions, HasUser, CurrentNo, CurrentOf, ApplicantsDeclared

LEMMA UploadRowKeeps ==
    ASSUME RecordsInv, NEW s \in Students, NEW p \in RosterRows, UploadRow(s, p)
    PROVE  RecordsInv'
<1> DEFINE e == CurrentOf(s)
           f == WithRoll(Filled(e, p.cells), p.roll)
<1>1. p.roll \in Rolls \cup {NoRoll} /\ p.cells \in Cells
  BY RecordsAssumption
<1>2. HasUser(s) /\ ~RowFails(p, e, TakenFrom(s)) /\ (p.roll # NoRoll => ~RollHeld(p.roll))
      /\ enrollments' = [enrollments EXCEPT ![s][CurrentNo(s)] = Requalified(f)]
      /\ UNCHANGED <<staged, signingIn, conflicts, staging, applying>>
  BY DEF UploadRow, SetCurrent
<1>3. e \in EnrollmentRow /\ CurrentNo(s) \in DOMAIN enrollments[s]
      /\ e = enrollments[s][CurrentNo(s)] /\ (e.app # "none" => e.declared)
  BY <1>2, CurrentRow
<1>4. f \in EnrollmentRow /\ SameBooks(f, e)
      /\ f.roll = IF p.roll = NoRoll THEN e.roll ELSE p.roll
  BY <1>1, <1>3, FilledKeeps, WithRollKeeps DEF SameBooks
<1>5. f.roll = e.roll \/ Writable(f.roll, s)
  BY <1>1, <1>2, <1>4 DEF RowFails, TakenFrom, Writable
<1>6. applying \in [Students -> Nat]
  BY DEF RecordsInv, StudentFunctions
<1> HIDE DEF e, f
<1> QED BY <1>2, <1>3, <1>4, <1>5, <1>6, RequalifiedKeeps, RewritingStep DEF SameBooks, e

LEMMA DeclareProfileKeeps ==
    ASSUME RecordsInv, NEW s \in Students, NEW cells \in Cells,
           NEW roll \in Rolls \cup {NoRoll}, DeclareProfile(s, cells, roll)
    PROVE  RecordsInv'
<1> DEFINE e == CurrentOf(s)
           some == Taken(cells, Declarable(e))
           g == IF e.roll = NoRoll THEN WithRoll(e, roll) ELSE e
           f == [Filled(g, some) EXCEPT !.declared = TRUE]
<1>1. HasUser(s) /\ ~e.declared /\ (e.roll = NoRoll => RollFree(roll, s))
      /\ enrollments' = [enrollments EXCEPT ![s][CurrentNo(s)] = f]
      /\ UNCHANGED <<staged, signingIn, conflicts, staging, applying>>
  BY DEF DeclareProfile, SetCurrent
<1>2. e \in EnrollmentRow /\ CurrentNo(s) \in DOMAIN enrollments[s]
      /\ e = enrollments[s][CurrentNo(s)] /\ e.app = "none"
  BY <1>1, CurrentRow
<1>3. some \in Cells
  <2>1. PICK cols \in SUBSET Columns : cells \in [cols -> Values]
    BY DEF Cells
  <2>2. some \in [cols \cap Declarable(e) -> Values]
    BY <2>1 DEF Taken
  <2> HIDE DEF some
  <2> QED BY <2>2 DEF Cells
<1>4. g \in EnrollmentRow /\ SameBooks(g, e)
      /\ g.roll = IF e.roll = NoRoll THEN roll ELSE e.roll
  BY <1>2, WithRollKeeps DEF SameBooks
<1> HIDE DEF some, g
<1>5. Filled(g, some) \in EnrollmentRow /\ Filled(g, some).roll = g.roll
      /\ SameBooks(Filled(g, some), g)
  BY <1>3, <1>4, FilledKeeps
<1>6. f \in EnrollmentRow /\ f.roll = g.roll /\ f.app = "none" /\ f.declared
  BY <1>2, <1>4, <1>5 DEF EnrollmentRow, SameBooks
<1>7. f.roll = NoRoll \/ f.roll = e.roll \/ Writable(f.roll, s)
  BY <1>1, <1>4, <1>6 DEF RollFree, Writable
<1>8. applying \in [Students -> Nat]
  BY DEF RecordsInv, StudentFunctions
<1> HIDE DEF f
<1> QED BY <1>1, <1>2, <1>6, <1>7, <1>8, RewritingStep

LEMMA UpdateStudentFieldsKeeps ==
    ASSUME RecordsInv, NEW s \in Students, NEW cells \in Cells,
           NEW roll \in Rolls \cup {NoRoll}, UpdateStudentFields(s, cells, roll)
    PROVE  RecordsInv'
<1> DEFINE e == CurrentOf(s)
           f == WithRoll(Filled(e, cells), roll)
<1>1. HasUser(s) /\ (roll # NoRoll => RollFree(roll, s))
      /\ enrollments' = [enrollments EXCEPT ![s][CurrentNo(s)] = Requalified(f)]
      /\ UNCHANGED <<staged, signingIn, conflicts, staging, applying>>
  BY DEF UpdateStudentFields, SetCurrent
<1>2. e \in EnrollmentRow /\ CurrentNo(s) \in DOMAIN enrollments[s]
      /\ e = enrollments[s][CurrentNo(s)] /\ (e.app # "none" => e.declared)
  BY <1>1, CurrentRow
<1>3. f \in EnrollmentRow /\ SameBooks(f, e)
      /\ f.roll = IF roll = NoRoll THEN e.roll ELSE roll
  BY <1>2, FilledKeeps, WithRollKeeps DEF SameBooks
<1>4. f.roll = e.roll \/ Writable(f.roll, s)
  BY <1>1, <1>3 DEF RollFree, Writable
<1>5. applying \in [Students -> Nat]
  BY DEF RecordsInv, StudentFunctions
<1> HIDE DEF e, f
<1> QED BY <1>1, <1>2, <1>3, <1>4, <1>5, RequalifiedKeeps, RewritingStep DEF SameBooks, e

LEMMA AdminUpdateProfileKeeps ==
    ASSUME RecordsInv, NEW s \in Students, NEW k \in DOMAIN enrollments[s],
           NEW cells \in Cells, NEW roll \in Rolls \cup {NoRoll},
           AdminUpdateProfile(s, k, cells, roll)
    PROVE  RecordsInv'
<1> DEFINE e == enrollments[s][k]
           f == WithRoll(Filled(e, cells), roll)
<1>1. (k = CurrentNo(s) => RollFree(roll, s))
      /\ enrollments' = [enrollments EXCEPT ![s][k] = Requalified(f)]
      /\ UNCHANGED <<staged, signingIn, conflicts, staging, applying>>
  BY DEF AdminUpdateProfile
<1>2. e \in EnrollmentRow /\ (e.app # "none" => e.declared)
  BY SeqFacts DEF RecordsInv, StudentFunctions, ApplicantsDeclared
<1>3. f \in EnrollmentRow /\ SameBooks(f, e)
      /\ f.roll = IF roll = NoRoll THEN e.roll ELSE roll
  BY <1>2, FilledKeeps, WithRollKeeps DEF SameBooks
<1>4. k = CurrentNo(s) => f.roll = CurrentOf(s).roll \/ Writable(f.roll, s)
  BY <1>1, <1>3 DEF RollFree, CurrentOf, Writable
<1>5. applying \in [Students -> Nat]
  BY DEF RecordsInv, StudentFunctions
<1> HIDE DEF e, f
<1> QED BY <1>1, <1>2, <1>3, <1>4, <1>5, RequalifiedKeeps, RewritingStep DEF SameBooks, e

LEMMA StartNewEnrollmentKeeps ==
    ASSUME RecordsInv, NEW s \in Students, StartNewEnrollment(s)
    PROVE  RecordsInv'
<1>1. HasUser(s) /\ Len(enrollments[s]) < MaxEnrollments[s]
      /\ enrollments' = [enrollments EXCEPT ![s] = Append(@, Fresh)]
      /\ UNCHANGED <<staged, signingIn, conflicts, staging, applying>>
  BY DEF StartNewEnrollment, CurrentNo
<1>2. EnrollmentsKept /\ \A t \in Students \ {s} : HasUser(t)' <=> HasUser(t)
  BY <1>1, FreshTyped, OneAppended
<1>3. \A t \in Students : signingIn[t] # {} => ~HasUser(t)'
  BY <1>1, <1>2 DEF RecordsInv, FirstLoginsAreFirst
<1> QED BY <1>1, <1>2, <1>3, EnrollmentStep DEF RecordsInv, StudentFunctions

LEMMA FileApplicationKeeps ==
    ASSUME RecordsInv, NEW s \in Students, FileApplication(s)
    PROVE  RecordsInv'
<1> DEFINE k == applying[s]
           e == enrollments[s][k]
           f == [e EXCEPT !.app = IF Eligible(e) THEN "live" ELSE "raced"]
<1>1. k # 0 /\ UNCHANGED <<staged, signingIn, conflicts, staging>>
      /\ applying' = [applying EXCEPT ![s] = 0]
  BY DEF FileApplication
<1>2. enrollments[s] \in Seq(EnrollmentRow) /\ k \in 0 .. Len(enrollments[s])
  BY DEF RecordsInv, RecordsTypeOK
<1>3. k \in DOMAIN enrollments[s] /\ e \in EnrollmentRow /\ e.declared
  BY <1>1, <1>2, SeqFacts DEF RecordsInv, ApplicantsDeclared
<1>4. enrollments' = [enrollments EXCEPT ![s][k] = f]
  BY DEF FileApplication
<1>5. f \in EnrollmentRow /\ f.roll = e.roll /\ f.declared /\ (f.app = "live" => Eligible(f))
  BY <1>3 DEF EnrollmentRow, Eligible
<1>6. k = CurrentNo(s) => f.roll = CurrentOf(s).roll
  BY <1>5 DEF CurrentOf
<1>7. applying' \in [Students -> Nat] /\ \A t \in Students : applying'[t] \in {0, applying[t]}
  BY <1>1 DEF RecordsInv, StudentFunctions
<1> HIDE DEF f, e
<1> QED BY <1>1, <1>3, <1>4, <1>5, <1>6, <1>7, RewritingStep DEF e

LEMMA CheckEligibilityKeeps ==
    ASSUME RecordsInv, NEW s \in Students, CheckEligibility(s)
    PROVE  RecordsInv'
<1> DEFINE k == CurrentNo(s)
<1>1. HasUser(s) /\ CurrentOf(s).declared
      /\ applying' = [applying EXCEPT ![s] = k]
      /\ UNCHANGED <<enrollments, staged, signingIn, conflicts, staging>>
  BY DEF CheckEligibility
<1>2. k \in DOMAIN enrollments[s] /\ CurrentOf(s) = enrollments[s][k]
  BY <1>1, CurrentRow
<1>3. k \in 1 .. Len(enrollments[s]) /\ Len(enrollments[s]) \in Nat
  BY <1>2, SeqFacts DEF RecordsInv, StudentFunctions
<1>4. /\ applying \in [Students -> Nat]
      /\ applying'[s] = k /\ \A t \in Students \ {s} : applying'[t] = applying[t]
  BY <1>1 DEF RecordsInv, StudentFunctions
<1> HIDE DEF k
<1>5. RecordsTypeOK'
  BY <1>1, <1>3, <1>4 DEF RecordsInv, RecordsTypeOK, PendingOf
<1>6. StudentFunctions'
  BY <1>1, <1>3, <1>4 DEF RecordsInv, StudentFunctions
<1>7. ApplicantsDeclared'
  BY <1>1, <1>2, <1>4 DEF RecordsInv, ApplicantsDeclared
<1>8. FirstLoginsAreFirst' /\ RollsStayUnique' /\ LiveStaysEligible'
  BY <1>1 DEF RecordsInv, FirstLoginsAreFirst, RollsStayUnique, LiveStaysEligible,
              HasUser, CurrentOf, CurrentNo, Eligible
<1>9. FirstLoginLocks'
  BY <1>1, NoRollWritten, LocksKept
<1> QED BY <1>5, <1>6, <1>7, <1>8, <1>9 DEF RecordsInv

\* A step that writes nothing but the roster: staged rows, and who holds which.
LEMMA RosterOnlyStep ==
    ASSUME RecordsInv, UNCHANGED <<enrollments, applying>>,
           staged' \in Seq(StagedRow),
           signingIn' \in [Students -> SUBSET Nat],
           conflicts' \in [Students -> SUBSET Rolls],
           FirstLoginLocks',
           staging' \in [Students -> SUBSET RosterRows],
           \A s \in Students : /\ signingIn'[s] \subseteq PendingOf(s)'
                               /\ signingIn'[s] # {} => ~HasUser(s)
    PROVE  RecordsInv'
<1>1. RecordsTypeOK'
  BY DEF RecordsInv, RecordsTypeOK
<1>2. StudentFunctions'
  BY DEF RecordsInv, StudentFunctions
<1>3. FirstLoginsAreFirst' /\ ApplicantsDeclared' /\ RollsStayUnique' /\ LiveStaysEligible'
  BY DEF RecordsInv, FirstLoginsAreFirst, RollsStayUnique, LiveStaysEligible,
         ApplicantsDeclared, HasUser, CurrentOf, CurrentNo, Eligible
<1> QED BY <1>1, <1>2, <1>3 DEF RecordsInv

LEMMA BeginFirstLoginKeeps ==
    ASSUME RecordsInv, NEW s \in Students, BeginFirstLogin(s)
    PROVE  RecordsInv'
<1>1. ~HasUser(s) /\ signingIn' = [signingIn EXCEPT ![s] = PendingOf(s)]
      /\ UNCHANGED <<enrollments, staged, staging, applying>>
  BY DEF BeginFirstLogin
<1>2. PendingOf(s) \in SUBSET Nat /\ \A t \in Students : PendingOf(t)' = PendingOf(t)
  BY <1>1, StagedTyped DEF PendingOf
<1>3. signingIn' \in [Students -> SUBSET Nat]
      /\ signingIn'[s] = PendingOf(s)
      /\ \A t \in Students \ {s} : signingIn'[t] = signingIn[t]
  BY <1>1, <1>2 DEF RecordsInv, StudentFunctions
<1>4. \A t \in Students : /\ signingIn'[t] \subseteq PendingOf(t)'
                          /\ signingIn'[t] # {} => ~HasUser(t)
  BY <1>1, <1>2, <1>3, StagedTyped DEF RecordsInv, FirstLoginsAreFirst
<1>5. /\ conflicts' \in [Students -> SUBSET Rolls]
      /\ conflicts'[s] = RollsIn(PendingOf(s)) \cap TakenFrom(s)
      /\ \A t \in Students \ {s} : conflicts'[t] = conflicts[t]
  <2>1. TakenFrom(s) \subseteq Rolls
    BY DEF TakenFrom
  <2>2. conflicts' = [conflicts EXCEPT ![s] = RollsIn(PendingOf(s)) \cap TakenFrom(s)]
    BY DEF BeginFirstLogin
  <2> QED BY <2>1, <2>2 DEF RecordsInv, StudentFunctions
<1>6. FirstLoginLocks'
  <2>1. \A t \in Students : RollsIn(signingIn[t])' = RollsIn(signingIn'[t])
    BY <1>1 DEF RollsIn
  <2>2. \A t \in Students : \A roll : RollTaken(roll, t)' <=> RollTaken(roll, t)
    BY <1>1 DEF RollTaken, HasUser, CurrentOf, CurrentNo
  <2>3. \A roll \in RollsIn(PendingOf(s)) : \A t \in Students : roll \notin RollsIn(signingIn[t])
    BY DEF BeginFirstLogin, RollHeld
  <2>4. LocksApart'
    BY <1>3, <2>1, <2>3 DEF RecordsInv, FirstLoginLocks, LocksApart
  <2>5. RollsIn(PendingOf(s)) \subseteq Rolls
    BY StagedTyped DEF RollsIn, StagedRow
  <2>6. \A roll \in RollsIn(PendingOf(s)) : RollTaken(roll, s) => roll \in conflicts'[s]
    BY <1>5, <2>5 DEF TakenFrom
  <2>7. SawAllTaken'
    BY <1>3, <1>5, <2>1, <2>2, <2>6 DEF RecordsInv, FirstLoginLocks, SawAllTaken
  <2> QED BY <2>4, <2>7 DEF FirstLoginLocks
<1> QED BY <1>1, <1>3, <1>4, <1>5, <1>6, RosterOnlyStep
        DEF RecordsInv, RecordsTypeOK, StudentFunctions

LEMMA BeginStagingKeeps ==
    ASSUME RecordsInv, NEW s \in Students, NEW p \in RosterRows, BeginStaging(s, p)
    PROVE  RecordsInv'
<1>1. staging' = [staging EXCEPT ![s] = {p}]
      /\ UNCHANGED <<enrollments, staged, signingIn, conflicts, applying>>
  BY DEF BeginStaging
<1>2. staging' \in [Students -> SUBSET RosterRows]
  BY <1>1 DEF RecordsInv, StudentFunctions
<1>3. \A t \in Students : /\ signingIn'[t] \subseteq PendingOf(t)'
                          /\ signingIn'[t] # {} => ~HasUser(t)
  BY <1>1, StagedTyped DEF RecordsInv, FirstLoginsAreFirst, PendingOf
<1>4. FirstLoginLocks'
  BY <1>1, NoRollWritten, LocksKept
<1> QED BY <1>1, <1>2, <1>3, <1>4, RosterOnlyStep
        DEF RecordsInv, RecordsTypeOK, StudentFunctions

LEMMA CommitStagingKeeps ==
    ASSUME RecordsInv, NEW s \in Students, CommitStaging(s)
    PROVE  RecordsInv'
<1>1. staging' = [staging EXCEPT ![s] = {}]
      /\ UNCHANGED <<enrollments, signingIn, conflicts, applying>>
  BY DEF CommitStaging
<1>2. PICK p \in staging[s] :
        \/ staged' = Append(staged, [of |-> s, roll |-> p.roll, cells |-> p.cells,
                                     status |-> "pending"])
        \/ staged' = staged
  BY DEF CommitStaging
<1>3. [of |-> s, roll |-> p.roll, cells |-> p.cells, status |-> "pending"] \in StagedRow
  <2>1. p \in RosterRows
    BY <1>2 DEF RecordsInv, RecordsTypeOK
  <2> QED BY <2>1, RecordsAssumption DEF StagedRow
<1>4. /\ staged' \in Seq(StagedRow)
      /\ \A r \in DOMAIN staged : r \in DOMAIN staged' /\ staged'[r] = staged[r]
  <2>1. staged \in Seq(StagedRow)
    BY StagedTyped
  <2>2. CASE staged' = staged
    BY <2>1, <2>2
  <2>3. CASE staged' = Append(staged, [of |-> s, roll |-> p.roll, cells |-> p.cells,
                                       status |-> "pending"])
    BY <1>3, <2>1, <2>3, SeqFacts
  <2> QED BY <1>2, <2>2, <2>3
<1>5. \A t \in Students : /\ signingIn'[t] \subseteq PendingOf(t)'
                          /\ signingIn'[t] # {} => ~HasUser(t)
  BY <1>1, <1>4, StagedTyped DEF RecordsInv, FirstLoginsAreFirst, PendingOf
<1>6. staging' \in [Students -> SUBSET RosterRows]
  BY <1>1 DEF RecordsInv, StudentFunctions
<1>7. FirstLoginLocks'
  BY <1>1, <1>4, NoRollWritten, LocksKept
<1> QED BY <1>1, <1>4, <1>5, <1>6, <1>7, RosterOnlyStep DEF RecordsInv, StudentFunctions

\* One staged row that nobody holds changes its state.
LEMMA StagedRowKeeps ==
    ASSUME RecordsInv, NEW r \in DOMAIN staged, DeleteStagedRow(r) \/ RetryStagedRow(r)
    PROVE  RecordsInv'
<1>1. PICK state \in {"pending", "deleted"} :
        staged' = [staged EXCEPT ![r].status = state]
        /\ (state = "pending" \/ \A s \in Students : r \notin signingIn[s])
  BY DEF DeleteStagedRow, RetryStagedRow
<1>2. UNCHANGED <<enrollments, signingIn, conflicts, staging, applying>>
  BY DEF DeleteStagedRow, RetryStagedRow
<1>3. [staged[r] EXCEPT !.status = state] \in StagedRow
  BY StagedTyped DEF StagedRow
<1>4. /\ staged' \in Seq(StagedRow)
      /\ DOMAIN staged' = DOMAIN staged
      /\ \A q \in DOMAIN staged : staged'[q] = IF q = r THEN [staged[r] EXCEPT !.status = state]
                                                       ELSE staged[q]
  BY <1>1, <1>3, StagedTyped, SeqFacts
<1>5. ASSUME NEW s \in Students, NEW q \in signingIn[s]
      PROVE  q \in PendingOf(s)'
  <2>1. q \in DOMAIN staged /\ staged[q].of = s /\ staged[q].status = "pending"
    BY <1>5, StagedTyped DEF PendingOf
  <2>2. CASE q = r
    BY <1>1, <1>4, <2>1, <2>2, StagedTyped DEF PendingOf, StagedRow
  <2>3. CASE q # r
    BY <1>4, <2>1, <2>3 DEF PendingOf
  <2> QED BY <2>2, <2>3
<1>6. FirstLoginLocks'
  <2>1. \A q \in DOMAIN staged : staged'[q].roll = staged[q].roll
    BY <1>4, StagedTyped DEF StagedRow
  <2> QED BY <1>2, <2>1, NoRollWritten, LocksKept
<1> QED BY <1>2, <1>4, <1>5, <1>6, RosterOnlyStep
        DEF RecordsInv, StudentFunctions, FirstLoginsAreFirst

\* The staged rows of one student are settled and nobody else's.
LEMMA SettleKeeps ==
    ASSUME RecordsInv, NEW s \in Students, NEW rows \in SUBSET PendingOf(s), NEW failed,
           Settle(rows, failed)
    PROVE  /\ staged' \in Seq(StagedRow)
           /\ \A r \in DOMAIN staged : staged'[r].roll = staged[r].roll
           /\ \A t \in Students \ {s} : PendingOf(t) \subseteq PendingOf(t)'
<1> DEFINE settled(r) == IF r \notin rows THEN staged[r]
                         ELSE [staged[r] EXCEPT !.status = IF r \in failed THEN "failed" ELSE "applied"]
<1>1. staged' = [r \in DOMAIN staged |-> settled(r)]
  BY DEF Settle
<1>2. \A r \in DOMAIN staged : settled(r) \in StagedRow /\ settled(r).roll = staged[r].roll
  BY StagedTyped DEF StagedRow
<1>3. ASSUME NEW t \in Students \ {s}, NEW r \in PendingOf(t)
      PROVE  r \in DOMAIN staged /\ settled(r) = staged[r] /\ r \in PendingOf(t)
  <2>1. r \notin rows
    BY DEF PendingOf
  <2> QED BY <2>1 DEF PendingOf
<1> HIDE DEF settled
<1>4. staged' \in [1 .. Len(staged) -> StagedRow] /\ Len(staged) \in Nat
  BY <1>1, <1>2, StagedTyped
<1> QED BY <1>1, <1>2, <1>3, <1>4 DEF PendingOf

\* What a sign-in commits: the enrollment its staged rows landed on, and them.
LEMMA SignInStep ==
    ASSUME RecordsInv, EnrollmentsKept, NEW s \in Students,
           NEW rows \in SUBSET PendingOf(s), NEW failed, Settle(rows, failed),
           \A t \in Students \ {s} : HasUser(t)' <=> HasUser(t),
           signingIn' = [signingIn EXCEPT ![s] = {}],
           conflicts' \in [Students -> SUBSET Rolls],
           \A t \in Students \ {s} : conflicts'[t] = conflicts[t],
           UNCHANGED <<staging, applying>>
    PROVE  RecordsInv'
<1>1. /\ staged' \in Seq(StagedRow)
      /\ \A r \in DOMAIN staged : staged'[r].roll = staged[r].roll
      /\ \A t \in Students \ {s} : PendingOf(t) \subseteq PendingOf(t)'
  BY SettleKeeps
<1>2. /\ signingIn' \in [Students -> SUBSET Nat] /\ signingIn'[s] = {}
      /\ \A t \in Students \ {s} : signingIn'[t] = signingIn[t]
  BY DEF RecordsInv, StudentFunctions
<1>3. ASSUME NEW t \in Students
      PROVE  /\ signingIn'[t] \subseteq PendingOf(t)'
             /\ signingIn'[t] # {} => ~HasUser(t)'
  BY <1>1, <1>2, StagedTyped DEF RecordsInv, FirstLoginsAreFirst
<1>4. ASSUME NEW t \in Students
      PROVE  /\ applying[t] \in 0 .. Len(enrollments'[t])
             /\ applying[t] # 0 => enrollments'[t][applying[t]].declared
  <2>1. /\ enrollments[t] \in Seq(EnrollmentRow) /\ enrollments'[t] \in Seq(EnrollmentRow)
        /\ applying[t] \in 0 .. Len(enrollments[t])
        /\ Len(enrollments[t]) <= Len(enrollments'[t])
    BY DEF EnrollmentsKept, RecordsInv, RecordsTypeOK
  <2>2. Len(enrollments[t]) \in Nat /\ Len(enrollments'[t]) \in Nat
    BY <2>1, SeqFacts
  <2>3. applying[t] # 0 => applying[t] \in DOMAIN enrollments[t]
    BY <2>1, SeqFacts
  <2>4. applying[t] \in 0 .. Len(enrollments'[t])
    BY <2>1, <2>2
  <2> QED BY <2>3, <2>4 DEF EnrollmentsKept, RecordsInv, ApplicantsDeclared
<1>5. RecordsTypeOK'
  <2>1. \A t \in Students : staging'[t] \subseteq RosterRows
    BY DEF RecordsInv, RecordsTypeOK
  <2>2. enrollments' \in [Students -> Seq(EnrollmentRow)]
        /\ \A t \in Students : Len(enrollments'[t]) <= MaxEnrollments[t]
    BY DEF EnrollmentsKept
  <2> QED BY <1>1, <1>3, <1>4, <2>1, <2>2 DEF RecordsTypeOK
<1>6. StudentFunctions'
  BY <1>2 DEF RecordsInv, StudentFunctions, EnrollmentsKept
<1>7. FirstLoginsAreFirst' /\ ApplicantsDeclared'
  BY <1>3, <1>4 DEF FirstLoginsAreFirst, ApplicantsDeclared, EnrollmentsKept
<1>8. FirstLoginLocks'
  BY <1>1, <1>2, LocksKept DEF EnrollmentsKept
<1> QED BY <1>5, <1>6, <1>7, <1>8 DEF RecordsInv, EnrollmentsKept

LEMMA CommitFirstLoginKeeps ==
    ASSUME RecordsInv, NEW s \in Students, CommitFirstLogin(s)
    PROVE  RecordsInv'
<1> DEFINE rows == signingIn[s]
           result(unfit) == Landed(Fresh, rows, unfit, conflicts[s])
<1>1. /\ ~HasUser(s) /\ UNCHANGED <<staging, applying>>
      /\ signingIn' = [signingIn EXCEPT ![s] = {}]
      /\ conflicts' = [conflicts EXCEPT ![s] = {}]
      /\ \E unfit \in SUBSET rows :
            /\ enrollments' = [enrollments EXCEPT ![s] = <<result(unfit).to>>]
            /\ Settle(rows, result(unfit).failed)
  BY DEF CommitFirstLogin
<1>2. PICK unfit \in SUBSET rows :
        /\ enrollments' = [enrollments EXCEPT ![s] = <<result(unfit).to>>]
        /\ Settle(rows, result(unfit).failed)
  BY <1>1
<1> DEFINE landed == result(unfit)
<1>3. rows \in SUBSET PendingOf(s) /\ rows \in SUBSET DOMAIN staged
  BY StagedTyped
<1>4. /\ landed.to \in EnrollmentRow /\ landed.to.app = "none"
      /\ \/ landed.to.roll = NoRoll
         \/ landed.to.roll \in RollsIn(rows) /\ landed.to.roll \notin conflicts[s]
  <2>1. /\ landed.to \in EnrollmentRow /\ SameBooks(landed.to, Fresh)
        /\ \/ landed.to.roll = Fresh.roll
           \/ landed.to.roll \in RollsIn(rows) \cap Rolls /\ landed.to.roll \notin conflicts[s]
    BY <1>3, FreshTyped, LandedKeeps
  <2> QED BY <2>1, FreshTyped DEF SameBooks
<1>5. Settle(rows, landed.failed)
  BY <1>2
<1> HIDE DEF result
<1>6. landed.to.roll = NoRoll \/ Writable(landed.to.roll, s)
  BY <1>4 DEF RecordsInv, FirstLoginLocks, SawAllTaken, Writable
<1>7. enrollments[s] = <<>> /\ Len(enrollments[s]) < MaxEnrollments[s]
  BY <1>1, RecordsAssumption DEF HasUser
<1>8. enrollments' = [enrollments EXCEPT ![s] = Append(@, landed.to)]
  BY <1>2, <1>7
<1> HIDE DEF landed
<1>9. EnrollmentsKept /\ \A t \in Students \ {s} : HasUser(t)' <=> HasUser(t)
  BY <1>4, <1>6, <1>7, <1>8, OneAppended
<1>10. /\ conflicts' \in [Students -> SUBSET Rolls]
       /\ \A t \in Students \ {s} : conflicts'[t] = conflicts[t]
  BY <1>1 DEF RecordsInv, StudentFunctions
<1> QED BY <1>1, <1>3, <1>5, <1>9, <1>10, SignInStep

LEMMA LaterLoginKeeps ==
    ASSUME RecordsInv, NEW s \in Students, LaterLogin(s)
    PROVE  RecordsInv'
<1> DEFINE e == CurrentOf(s)
           rows == PendingOf(s)
           result(unfit) == Landed(e, rows, unfit, TakenFrom(s))
<1>1. /\ HasUser(s) /\ UNCHANGED <<signingIn, conflicts, staging, applying>>
      /\ \A roll \in RollsIn(rows) : ~RollHeld(roll)
      /\ \E unfit \in SUBSET rows :
            /\ SetCurrent(s, Requalified(result(unfit).to))
            /\ Settle(rows, result(unfit).failed)
  BY DEF LaterLogin
<1>2. PICK unfit \in SUBSET rows :
        /\ SetCurrent(s, Requalified(result(unfit).to))
        /\ Settle(rows, result(unfit).failed)
  BY <1>1
<1> DEFINE f == result(unfit).to
           failed == result(unfit).failed
<1>3. e \in EnrollmentRow /\ CurrentNo(s) \in DOMAIN enrollments[s]
      /\ e = enrollments[s][CurrentNo(s)] /\ (e.app # "none" => e.declared)
  BY <1>1, CurrentRow
<1> HIDE DEF e
<1>4. /\ f \in EnrollmentRow /\ SameBooks(f, e)
      /\ \/ f.roll = e.roll
         \/ f.roll \in RollsIn(rows) \cap Rolls /\ f.roll \notin TakenFrom(s)
  BY <1>3, StagedTyped, LandedKeeps
<1>5. /\ enrollments' = [enrollments EXCEPT ![s][CurrentNo(s)] = Requalified(f)]
      /\ Settle(rows, failed)
  BY <1>2 DEF SetCurrent
<1> HIDE DEF f, failed, result
<1>6. f.roll = e.roll \/ Writable(f.roll, s)
  BY <1>1, <1>4 DEF TakenFrom, Writable
<1>7. EnrollmentsKept /\ \A t \in Students : HasUser(t)' <=> HasUser(t)
  BY <1>3, <1>4, <1>5, <1>6, RequalifiedKeeps, OneRewritten DEF SameBooks, e
<1>8. /\ signingIn' = [signingIn EXCEPT ![s] = {}]
      /\ conflicts' \in [Students -> SUBSET Rolls]
  BY <1>1 DEF RecordsInv, StudentFunctions, FirstLoginsAreFirst
<1> QED BY <1>1, <1>5, <1>7, <1>8, SignInStep

-----------------------------------------------------------------------------
LEMMA RecordsStep == RecordsInv /\ [RecordsNext]_recordVars => RecordsInv'
<1> SUFFICES ASSUME RecordsInv, [RecordsNext]_recordVars
             PROVE  RecordsInv'
  OBVIOUS
<1>1. ASSUME NEW s \in Students, BeginFirstLogin(s) \/ CommitFirstLogin(s)
      PROVE  RecordsInv'
  BY <1>1, BeginFirstLoginKeeps, CommitFirstLoginKeeps
<1>2. ASSUME NEW s \in Students, RosterStep(s)
      PROVE  RecordsInv'
  BY <1>2, LaterLoginKeeps, UploadRowKeeps, BeginStagingKeeps, CommitStagingKeeps DEF RosterStep
<1>3. ASSUME NEW s \in Active, StudentStep(s)
      PROVE  RecordsInv'
  BY <1>3, RecordsAssumption, DeclareProfileKeeps, UpdateStudentFieldsKeeps,
     CheckEligibilityKeeps, FileApplicationKeeps DEF StudentStep
<1>4. ASSUME NEW s \in Active, OfficeStep(s)
      PROVE  RecordsInv'
  BY <1>4, RecordsAssumption, AdminUpdateProfileKeeps, StartNewEnrollmentKeeps DEF OfficeStep
<1>5. ASSUME NEW r \in DOMAIN staged, DeleteStagedRow(r) \/ RetryStagedRow(r)
      PROVE  RecordsInv'
  BY <1>5, StagedRowKeeps
<1>6. CASE UNCHANGED recordVars
  <2>1. UNCHANGED <<enrollments, applying, staged, signingIn, conflicts, staging>>
    BY <1>6 DEF recordVars
  <2>2. \A s \in Students : /\ signingIn'[s] \subseteq PendingOf(s)'
                            /\ signingIn'[s] # {} => ~HasUser(s)
    BY <2>1, StagedTyped DEF RecordsInv, FirstLoginsAreFirst, PendingOf
  <2>3. FirstLoginLocks'
    BY <2>1, NoRollWritten, LocksKept
  <2> QED BY <2>1, <2>2, <2>3, StagedTyped, RosterOnlyStep DEF RecordsInv, StudentFunctions
<1> QED BY <1>1, <1>2, <1>3, <1>4, <1>5, <1>6 DEF RecordsNext

LEMMA RecordsInvHolds == RecordsSpec => []RecordsInv
<1>1. RecordsInit => RecordsInv
  <2> SUFFICES ASSUME RecordsInit PROVE RecordsInv
    OBVIOUS
  <2>1. RecordsTypeOK /\ StudentFunctions
    BY RecordsAssumption DEF RecordsInit, RecordsTypeOK, StudentFunctions, PendingOf
  <2>2. FirstLoginLocks
    BY DEF RecordsInit, FirstLoginLocks, LocksApart, SawAllTaken, RollsIn
  <2> QED BY <2>1, <2>2 DEF RecordsInit, RecordsInv, FirstLoginsAreFirst, ApplicantsDeclared,
                      RollsStayUnique, LiveStaysEligible, HasUser
<1> QED BY <1>1, RecordsStep, PTL DEF RecordsSpec

\* The types of records, for any students, columns and roster.
THEOREM RecordsTypeCorrect == RecordsSpec => []RecordsTypeOK
<1>1. RecordsInv => RecordsTypeOK
  BY DEF RecordsInv
<1> QED BY <1>1, RecordsInvHolds, PTL

\* one_current_roll_number: whichever of roster, sign-in, student and office
\* brings a roll first, no two current enrollments ever have one.
THEOREM RollsStayUniqueHolds == RecordsSpec => []RollsStayUnique
<1>1. RecordsInv => RollsStayUnique
  BY DEF RecordsInv
<1> QED BY <1>1, RecordsInvHolds, PTL

\* ELG-4: however a profile is written, an application in progress satisfies
\* the rule of its job.
THEOREM LiveStaysEligibleHolds == RecordsSpec => []LiveStaysEligible
<1>1. RecordsInv => LiveStaysEligible
  BY DEF RecordsInv
<1> QED BY <1>1, RecordsInvHolds, PTL

============================================================================
