-------------------------- MODULE TransactionProofs --------------------------
(***************************************************************************)
(* What the row locks give, for any applications, jobs, cycles, orders of  *)
(* rows and transactions: acceptances never wait in a circle, and the      *)
(* commands that read what they have locked are serialized.                *)
(***************************************************************************)
EXTENDS CommandTransactions, FiniteSetTheorems, SequenceTheorems, TLAPS

-----------------------------------------------------------------------------
(* Scripts as sequences of steps.                                           *)

StepsIn(q) == {q[i] : i \in 1 .. Len(q)}

LEMMA OneStep ==
    ASSUME NEW S, NEW e \in S
    PROVE  <<e>> \in Seq(S) /\ Len(<<e>>) = 1 /\ StepsIn(<<e>>) = {e}
BY DEF StepsIn

LEMMA Concatenated ==
    ASSUME NEW S, NEW q \in Seq(S), NEW r \in Seq(S)
    PROVE  /\ q \o r \in Seq(S) /\ Len(q \o r) = Len(q) + Len(r)
           /\ \A i \in 1 .. Len(q) : (q \o r)[i] = q[i]
           /\ \A i \in 1 .. Len(r) : (q \o r)[Len(q) + i] = r[i]
           /\ StepsIn(q \o r) = StepsIn(q) \cup StepsIn(r)
<1>1. /\ q \o r \in Seq(S) /\ Len(q \o r) = Len(q) + Len(r)
      /\ Len(q) \in Nat /\ Len(r) \in Nat
  OBVIOUS
<1>2. \A i \in 1 .. Len(q) : (q \o r)[i] = q[i]
  OBVIOUS
<1>3. \A i \in 1 .. Len(r) : (q \o r)[Len(q) + i] = r[i]
  OBVIOUS
<1>4. StepsIn(q \o r) \subseteq StepsIn(q) \cup StepsIn(r)
  <2> SUFFICES ASSUME NEW i \in 1 .. Len(q) + Len(r)
               PROVE  (q \o r)[i] \in StepsIn(q) \cup StepsIn(r)
    BY <1>1 DEF StepsIn
  <2>1. CASE i \in 1 .. Len(q)
    BY <1>2, <2>1 DEF StepsIn
  <2>2. CASE i \notin 1 .. Len(q)
    <3>1. i - Len(q) \in 1 .. Len(r) /\ Len(q) + (i - Len(q)) = i
      BY <1>1, <2>2
    <3>2. (q \o r)[i] = r[i - Len(q)]
      BY <1>3, <3>1
    <3> QED BY <3>1, <3>2 DEF StepsIn
  <2> QED BY <2>1, <2>2
<1>5. StepsIn(q) \cup StepsIn(r) \subseteq StepsIn(q \o r)
  <2>1. \A i \in 1 .. Len(q) : i \in 1 .. Len(q \o r)
    BY <1>1
  <2>2. \A i \in 1 .. Len(r) : Len(q) + i \in 1 .. Len(q \o r)
    BY <1>1
  <2> QED BY <1>2, <1>3, <2>1, <2>2 DEF StepsIn
<1> QED BY <1>1, <1>2, <1>3, <1>4, <1>5

\* The place of a number in a finite set of numbers, counted from 1.
Place(P, i) == Cardinality({k \in P : k <= i})

LEMMA PlaceIsBijective ==
    ASSUME NEW P \in SUBSET Nat, IsFiniteSet(P)
    PROVE  /\ Cardinality(P) \in Nat
           /\ \A i \in P : Place(P, i) \in 1 .. Cardinality(P)
           /\ \A i, j \in P : i < j => Place(P, i) < Place(P, j)
           /\ \A i, j \in P : Place(P, i) = Place(P, j) => i = j
           /\ \A n \in 1 .. Cardinality(P) : \E i \in P : Place(P, i) = n
<1> DEFINE upto(i) == {k \in P : k <= i}
<1>1. Cardinality(P) \in Nat /\ \A i \in P : Place(P, i) = Cardinality(upto(i))
  BY FS_CardinalityType DEF Place
<1>2. ASSUME NEW i \in P
      PROVE  IsFiniteSet(upto(i)) /\ Cardinality(upto(i)) \in 1 .. Cardinality(P)
  <2>1. upto(i) \in SUBSET P /\ i \in upto(i)
    OBVIOUS
  <2> HIDE DEF upto
  <2>2. IsFiniteSet(upto(i)) /\ Cardinality(upto(i)) \in Nat
        /\ Cardinality(upto(i)) <= Cardinality(P)
    BY <2>1, FS_Subset, FS_CardinalityType
  <2>3. Cardinality(upto(i)) # 0
    BY <2>1, <2>2, FS_EmptySet
  <2> QED BY <1>1, <2>2, <2>3
<1>3. ASSUME NEW i \in P, NEW j \in P, i < j
      PROVE  Cardinality(upto(i)) < Cardinality(upto(j))
  <2>1. upto(i) \in SUBSET upto(j) /\ j \in upto(j) /\ j \notin upto(i)
    <3>1. i \in Nat /\ j \in Nat /\ \A k \in P : k \in Nat
      OBVIOUS
    <3>2. \A k \in P : k <= i => k <= j
      BY <1>3, <3>1
    <3>3. j <= j /\ ~(j <= i)
      BY <1>3, <3>1
    <3> QED BY <3>2, <3>3
  <2>2. IsFiniteSet(upto(j)) /\ Cardinality(upto(j)) \in Nat /\ Cardinality(upto(i)) \in Nat
    BY <1>1, <1>2
  <2> HIDE DEF upto
  <2> QED BY <2>1, <2>2, FS_Subset
<1> HIDE DEF upto
<1>4. ASSUME NEW i \in P, NEW j \in P, Cardinality(upto(i)) = Cardinality(upto(j))
      PROVE  i = j
  <2>1. i < j \/ j < i \/ i = j
    OBVIOUS
  <2>2. Cardinality(upto(i)) \in Nat
    BY <1>1, <1>2
  <2> QED BY <1>3, <1>4, <2>1, <2>2
<1>5. \A n \in 1 .. Cardinality(P) : \E i \in P : Cardinality(upto(i)) = n
  <2> DEFINE T == 1 .. Cardinality(P)
             f == [i \in P |-> Cardinality(upto(i))]
  <2>1. f \in Injection(P, T)
    BY <1>2, <1>4 DEF Injection, IsInjective
  <2>2. IsFiniteSet(T) /\ Cardinality(T) = Cardinality(P)
    BY <1>1, FS_Interval
  <2> HIDE DEF T, f
  <2>3. Cardinality(P) = Cardinality(T) <=> f \in Surjection(P, T)
    BY <2>1, <2>2, FS_Injection, Zenon
  <2>4. f \in Surjection(P, T)
    BY <2>2, <2>3
  <2> QED BY <2>4 DEF Surjection, f, T
<1> QED BY <1>1, <1>2, <1>3, <1>4, <1>5

LEMMA FunctionIsSequence ==
    ASSUME NEW S, NEW n \in Nat, NEW f \in [1 .. n -> S]
    PROVE  f \in Seq(S) /\ Len(f) = n /\ DOMAIN f = 1 .. n
OBVIOUS

\* ORDER BY leaves nothing out: every member of `set` has a place.
LEMMA AmongAll ==
    ASSUME NEW S, NEW order \in Seq(S), NEW set
    PROVE  /\ Among(order, set) \in Seq(S \cap set)
           /\ \A i \in DOMAIN order : order[i] \in set
                => \E n \in 1 .. Len(Among(order, set)) : Among(order, set)[n] = order[i]
<1> DEFINE places == {i \in DOMAIN order : order[i] \in set}
           nth(n) == CHOOSE i \in places : Place(places, i) = n
<1>1. Len(order) \in Nat /\ DOMAIN order = 1 .. Len(order)
  OBVIOUS
<1>2. IsFiniteSet(places) /\ places \in SUBSET Nat
      /\ \A i \in places : order[i] \in S \cap set
  <2>1. IsFiniteSet(1 .. Len(order))
    BY <1>1, FS_Interval
  <2> QED BY <1>1, <2>1, FS_Subset
<1>3. Among(order, set) = [n \in 1 .. Cardinality(places) |-> order[nth(n)]]
  BY DEF Among, Place
<1> HIDE DEF places
<1>4. \A n \in 1 .. Cardinality(places) : nth(n) \in places
  BY <1>2, PlaceIsBijective
<1>5. \A i \in places : /\ Place(places, i) \in 1 .. Cardinality(places)
                        /\ nth(Place(places, i)) = i
  BY <1>2, PlaceIsBijective
<1> HIDE DEF nth
<1>6. Among(order, set) \in [1 .. Cardinality(places) -> S \cap set] /\ Cardinality(places) \in Nat
  <2>1. \A n \in 1 .. Cardinality(places) : order[nth(n)] \in S \cap set
    BY <1>2, <1>4
  <2>2. Cardinality(places) \in Nat
    BY <1>2, FS_CardinalityType
  <2> QED BY <1>3, <2>1, <2>2
<1>7. Among(order, set) \in Seq(S \cap set) /\ Len(Among(order, set)) = Cardinality(places)
  BY <1>6, FunctionIsSequence
<1> QED BY <1>3, <1>5, <1>7 DEF places

-----------------------------------------------------------------------------
(* What the loaders lock.                                                   *)

Kinds == {"enrollment", "cycle", "job", "membership", "offer", "app"}
Ids == Apps \cup Jobs \cup Cycles \cup {"mine"}
Reads == {Step("peek", "none", "none"), Step("read", "none", "none")}
Steps == [op : {"lock", "write"}, row : Rows] \cup Reads
LocksOf(kind, ids) == {Step("lock", kind, b) : b \in ids}

LEMMA StepTyped ==
    ASSUME NEW op \in {"lock", "write"}, NEW kind \in Kinds, NEW id \in Ids
    PROVE  /\ Step(op, kind, id) \in Steps
           /\ Step(op, kind, id).op = op
           /\ Step(op, kind, id).row = [kind |-> kind, id |-> id]
BY DEF Step, Steps, Rows, Kinds, Ids

LEMMA LockFacts ==
    ASSUME NEW kind \in Kinds, NEW id \in Ids
    PROVE  /\ Lock(kind, id) \in Seq(Steps) /\ Len(Lock(kind, id)) = 1
           /\ Lock(kind, id)[1] = Step("lock", kind, id)
           /\ StepsIn(Lock(kind, id)) = {Step("lock", kind, id)}
BY StepTyped, OneStep DEF Lock

LEMMA PeekReadFacts ==
    /\ Peek \in Seq(Steps) /\ StepsIn(Peek) = {Step("peek", "none", "none")}
    /\ Read \in Seq(Steps) /\ Len(Read) = 1 /\ Read[1] = Step("read", "none", "none")
    /\ StepsIn(Read) = {Step("read", "none", "none")}
<1>1. \A op \in {"peek", "read"} : Step(op, "none", "none") \in Steps
  BY DEF Steps, Reads
<1> QED BY <1>1, OneStep DEF Peek, Read

LEMMA EachFacts ==
    ASSUME NEW op \in {"lock", "write"}, NEW kind \in {"offer", "app"},
           NEW order \in Seq(Apps), {order[i] : i \in DOMAIN order} = Apps,
           NEW set \in SUBSET Apps
    PROVE  /\ Each(op, kind, Among(order, set)) \in Seq(Steps)
           /\ StepsIn(Each(op, kind, Among(order, set))) = {Step(op, kind, b) : b \in set}
<1> DEFINE ids == Among(order, set)
<1>1. /\ ids \in Seq(Apps \cap set)
      /\ \A b \in set : \E n \in 1 .. Len(ids) : ids[n] = b
  <2>1. \A b \in set : \E i \in DOMAIN order : order[i] = b
    OBVIOUS
  <2> QED BY <2>1, AmongAll
<1> HIDE DEF ids
<1>2. Len(ids) \in Nat /\ \A n \in 1 .. Len(ids) : ids[n] \in set /\ ids[n] \in Apps
  BY <1>1
<1>3. Each(op, kind, ids) = [n \in 1 .. Len(ids) |-> Step(op, kind, ids[n])]
  BY DEF Each
<1>4. \A n \in 1 .. Len(ids) : Step(op, kind, ids[n]) \in Steps
  <2>1. kind \in Kinds /\ op \in {"lock", "write"} /\ Apps \subseteq Ids
    BY DEF Kinds, Ids
  <2> QED BY <1>2, <2>1, StepTyped
<1>5. Each(op, kind, ids) \in Seq(Steps) /\ Len(Each(op, kind, ids)) = Len(ids)
  BY <1>2, <1>3, <1>4, FunctionIsSequence
<1>6. StepsIn(Each(op, kind, ids)) = {Step(op, kind, b) : b \in set}
  BY <1>1, <1>2, <1>3, <1>5 DEF StepsIn
<1> QED BY <1>5, <1>6 DEF ids

LEMMA LockRows ==
    ASSUME NEW set \in SUBSET Apps
    PROVE  /\ LockOffers(set) \in Seq(Steps) /\ StepsIn(LockOffers(set)) = LocksOf("offer", set)
           /\ LockApps(set) \in Seq(Steps) /\ StepsIn(LockApps(set)) = LocksOf("app", set)
BY OrderAssumption, EachFacts DEF LockOffers, LockApps, LocksOf

LEMMA HeaderLocks ==
    ASSUME NEW a \in Apps
    PROVE  LET c == Lock("cycle", CycleOfApp(a))  m == Lock("membership", CycleOfApp(a))
               j == Lock("job", JobOf[a])
           IN  /\ c \in Seq(Steps) /\ StepsIn(c) = LocksOf("cycle", {CycleOfApp(a)})
               /\ m \in Seq(Steps) /\ StepsIn(m) = LocksOf("membership", {CycleOfApp(a)})
               /\ j \in Seq(Steps) /\ StepsIn(j) = LocksOf("job", {JobOf[a]})
               /\ CycleAndJob(a) \in Seq(Steps)
               /\ StepsIn(CycleAndJob(a)) = LocksOf("cycle", {CycleOfApp(a)})
                                              \cup LocksOf("job", {JobOf[a]})
               /\ Enrollment \in Seq(Steps) /\ Len(Enrollment) = 1
               /\ Enrollment[1] = Step("lock", "enrollment", "mine")
               /\ StepsIn(Enrollment) = LocksOf("enrollment", {"mine"})
<1>1. JobOf[a] \in Ids /\ CycleOfApp(a) \in Ids /\ "mine" \in Ids
  BY DatabaseAssumption DEF CycleOfApp, Ids
<1>2. {"cycle", "membership", "job", "enrollment"} \subseteq Kinds
  BY DEF Kinds
<1> QED BY <1>1, <1>2, LockFacts, Concatenated DEF CycleAndJob, Enrollment, LocksOf

\* The applications whose rows a command has locked when it reads, and whether
\* it has locked its cycle and its job.
Guarded(cmd, a) ==
    CASE cmd \in {"accept", "expire", "terminate"} -> Apps
      [] cmd \in {"decline", "withdraw"} -> {a}
      [] cmd \in {"promote", "extend", "cancel"} -> InJob(a)
      [] cmd \in {"archive", "leave"} -> InCycle(a)
      [] OTHER -> {}
CycleCommands == {"promote", "extend", "cancel", "archive", "leave"}
JobCommands == {"promote", "extend", "cancel"}

Acceptance == {"accept", "expire", "terminate"}

\* Every script but those of `apply` and `finalize` is locks and then a read.
LocksThenReads(cmd, a, body) ==
    /\ body \in Seq(Steps)
    /\ \A s \in StepsIn(body) : \/ s.op = "lock"
                                \/ cmd = "withdraw" /\ s.op = "peek"
    /\ LocksOf("app", Guarded(cmd, a)) \subseteq StepsIn(body)
    /\ cmd \in CycleCommands => Step("lock", "cycle", CycleOfApp(a)) \in StepsIn(body)
    /\ cmd \in JobCommands => Step("lock", "job", JobOf[a]) \in StepsIn(body)

LEMMA AcceptanceShape ==
    ASSUME NEW cmd \in Acceptance, NEW a \in Apps
    PROVE  /\ LocksThenReads(cmd, a, AcceptanceLocks(a))
           /\ Len(AcceptanceLocks(a)) >= 1
           /\ AcceptanceLocks(a)[1] = Step("lock", "enrollment", "mine")
<1>1. InCycle(a) \in SUBSET Apps
  BY DEF InCycle
<1> DEFINE q1 == LockOffers(InCycle(a))
           q2 == LockApps(Apps)
           q3 == LockOffers(Apps)
           tail == (Enrollment \o q1) \o q2
<1>2. AcceptanceLocks(a) = tail \o q3
  BY DEF AcceptanceLocks
<1>3. /\ q1 \in Seq(Steps) /\ q2 \in Seq(Steps) /\ q3 \in Seq(Steps) /\ Enrollment \in Seq(Steps)
      /\ StepsIn(q1) = LocksOf("offer", InCycle(a)) /\ StepsIn(q2) = LocksOf("app", Apps)
      /\ StepsIn(q3) = LocksOf("offer", Apps)
      /\ StepsIn(Enrollment) = LocksOf("enrollment", {"mine"})
      /\ Len(Enrollment) = 1 /\ Enrollment[1] = Step("lock", "enrollment", "mine")
  BY <1>1, LockRows, HeaderLocks
<1> HIDE DEF q1, q2, q3
<1>4. /\ Enrollment \o q1 \in Seq(Steps)
      /\ StepsIn(Enrollment \o q1) = StepsIn(Enrollment) \cup StepsIn(q1)
      /\ Len(Enrollment \o q1) >= 1
      /\ (Enrollment \o q1)[1] = Step("lock", "enrollment", "mine")
  BY <1>3, Concatenated
<1>5. /\ tail \in Seq(Steps)
      /\ StepsIn(tail) = StepsIn(Enrollment \o q1) \cup StepsIn(q2)
      /\ Len(tail) >= 1 /\ tail[1] = Step("lock", "enrollment", "mine")
  <2> DEFINE q0 == Enrollment \o q1
  <2>1. q0 \in Seq(Steps) /\ 1 \in 1 .. Len(q0) /\ Len(q2) \in Nat
    BY <1>3, <1>4
  <2>2. q0[1] = Step("lock", "enrollment", "mine")
    BY <1>4
  <2> HIDE DEF q0
  <2>3. /\ q0 \o q2 \in Seq(Steps) /\ Len(q0 \o q2) = Len(q0) + Len(q2)
        /\ StepsIn(q0 \o q2) = StepsIn(q0) \cup StepsIn(q2)
        /\ (q0 \o q2)[1] = q0[1]
    BY <1>3, <2>1, Concatenated
  <2> QED BY <2>1, <2>2, <2>3 DEF q0
<1> HIDE DEF tail
<1>6. /\ tail \o q3 \in Seq(Steps)
      /\ StepsIn(tail \o q3) = StepsIn(tail) \cup StepsIn(q3)
      /\ Len(tail \o q3) >= 1 /\ (tail \o q3)[1] = Step("lock", "enrollment", "mine")
  BY <1>3, <1>5, Concatenated
<1>7. \A s \in StepsIn(tail \o q3) : s.op = "lock"
  BY <1>3, <1>4, <1>5, <1>6 DEF LocksOf, Step
<1> QED BY <1>2, <1>3, <1>4, <1>5, <1>6, <1>7
        DEF LocksThenReads, Guarded, Acceptance, CycleCommands, JobCommands

\* What comes before the locks on the applications.
Prepares(cmd, a, q) ==
    /\ q \in Seq(Steps)
    /\ \A s \in StepsIn(q) : s.op = "lock" \/ (cmd = "withdraw" /\ s.op = "peek")
    /\ cmd \in CycleCommands => Step("lock", "cycle", CycleOfApp(a)) \in StepsIn(q)
    /\ cmd \in JobCommands => Step("lock", "job", JobOf[a]) \in StepsIn(q)

LEMMA Joined ==
    ASSUME NEW cmd, NEW a, NEW q, NEW r, Prepares(cmd, a, q),
           r \in Seq(Steps), StepsIn(r) = LocksOf("app", Guarded(cmd, a))
    PROVE  LocksThenReads(cmd, a, q \o r)
<1>1. q \o r \in Seq(Steps) /\ StepsIn(q \o r) = StepsIn(q) \cup StepsIn(r)
  BY Concatenated DEF Prepares
<1>2. \A s \in StepsIn(r) : s.op = "lock"
  BY DEF LocksOf, Step
<1> QED BY <1>1, <1>2 DEF LocksThenReads, Prepares

LEMMA PrepareMore ==
    ASSUME NEW cmd, NEW a, NEW q, NEW r, Prepares(cmd, a, q),
           r \in Seq(Steps), NEW kind, NEW ids, StepsIn(r) = LocksOf(kind, ids)
    PROVE  Prepares(cmd, a, q \o r)
<1>1. q \o r \in Seq(Steps) /\ StepsIn(q \o r) = StepsIn(q) \cup StepsIn(r)
  BY Concatenated DEF Prepares
<1>2. \A s \in StepsIn(r) : s.op = "lock"
  BY DEF LocksOf, Step
<1> QED BY <1>1, <1>2 DEF Prepares

LEMMA OtherShapes ==
    ASSUME NEW a \in Apps
    PROVE  /\ LocksThenReads("decline", a, DeclineLocks(a))
           /\ LocksThenReads("withdraw", a, WithdrawLocks(a))
           /\ LocksThenReads("promote", a, PromoteLocks(a))
           /\ LocksThenReads("extend", a, ExtendLocks(a))
           /\ LocksThenReads("cancel", a, CancelLocks(a))
           /\ LocksThenReads("archive", a, ArchiveLocks(a))
           /\ LocksThenReads("leave", a, LeaveLocks(a))
<1> DEFINE cycle == Lock("cycle", CycleOfApp(a))
           member == Lock("membership", CycleOfApp(a))
           jobOffers == LockOffers(InJob(a))
           jobApps == LockApps(InJob(a))
           cycleApps == LockApps(InCycle(a))
           offer == LockOffers({a})
           app == LockApps({a})
<1>1. /\ jobOffers \in Seq(Steps) /\ StepsIn(jobOffers) = LocksOf("offer", InJob(a))
      /\ jobApps \in Seq(Steps) /\ StepsIn(jobApps) = LocksOf("app", InJob(a))
      /\ cycleApps \in Seq(Steps) /\ StepsIn(cycleApps) = LocksOf("app", InCycle(a))
      /\ offer \in Seq(Steps) /\ StepsIn(offer) = LocksOf("offer", {a})
      /\ app \in Seq(Steps) /\ StepsIn(app) = LocksOf("app", {a})
  <2>1. InJob(a) \in SUBSET Apps /\ InCycle(a) \in SUBSET Apps /\ {a} \in SUBSET Apps
    BY DEF InJob, InCycle
  <2> QED BY <2>1, LockRows
<1>2. /\ cycle \in Seq(Steps) /\ StepsIn(cycle) = LocksOf("cycle", {CycleOfApp(a)})
      /\ member \in Seq(Steps) /\ StepsIn(member) = LocksOf("membership", {CycleOfApp(a)})
      /\ CycleAndJob(a) \in Seq(Steps)
      /\ StepsIn(CycleAndJob(a)) = LocksOf("cycle", {CycleOfApp(a)}) \cup LocksOf("job", {JobOf[a]})
  BY HeaderLocks
<1> HIDE DEF cycle, member, jobOffers, jobApps, cycleApps, offer, app
<1>3. \A kind, ids : \A s \in LocksOf(kind, ids) : s.op = "lock"
  BY DEF LocksOf, Step
<1>4. \A kind, id : Step("lock", kind, id) \in LocksOf(kind, {id})
  BY DEF LocksOf
<1>5. LocksThenReads("decline", a, offer \o app)
  <2>1. Prepares("decline", a, offer)
    BY <1>1, <1>3 DEF Prepares, CycleCommands, JobCommands
  <2>2. StepsIn(app) = LocksOf("app", Guarded("decline", a))
    BY <1>1 DEF Guarded
  <2> QED BY <1>1, <2>1, <2>2, Joined
<1>6. LocksThenReads("withdraw", a, Peek \o app)
  <2>1. Prepares("withdraw", a, Peek)
    BY PeekReadFacts DEF Prepares, CycleCommands, JobCommands, Step
  <2>2. StepsIn(app) = LocksOf("app", Guarded("withdraw", a))
    BY <1>1 DEF Guarded
  <2> QED BY <1>1, <2>1, <2>2, Joined
<1>7. \A cmd \in JobCommands : Prepares(cmd, a, CycleAndJob(a))
  <2>1. \A s \in StepsIn(CycleAndJob(a)) : s.op = "lock"
    BY <1>2, <1>3
  <2>2. /\ Step("lock", "cycle", CycleOfApp(a)) \in StepsIn(CycleAndJob(a))
        /\ Step("lock", "job", JobOf[a]) \in StepsIn(CycleAndJob(a))
    BY <1>2, <1>4
  <2> QED BY <1>2, <2>1, <2>2 DEF Prepares
<1>8. \A cmd \in JobCommands : StepsIn(jobApps) = LocksOf("app", Guarded(cmd, a))
  BY <1>1 DEF Guarded, JobCommands
<1>9. LocksThenReads("promote", a, CycleAndJob(a) \o jobApps)
  BY <1>1, <1>7, <1>8, Joined DEF JobCommands
<1>10. \A cmd \in JobCommands : LocksThenReads(cmd, a, (CycleAndJob(a) \o jobOffers) \o jobApps)
  <2>1. \A cmd \in JobCommands : Prepares(cmd, a, CycleAndJob(a) \o jobOffers)
    BY <1>1, <1>7, PrepareMore
  <2> QED BY <1>1, <1>8, <2>1, Joined
<1>11. /\ \A cmd \in {"archive", "leave"} : Prepares(cmd, a, cycle)
       /\ \A cmd \in {"archive", "leave"} : StepsIn(cycleApps) = LocksOf("app", Guarded(cmd, a))
  <2>1. \A s \in StepsIn(cycle) : s.op = "lock"
    BY <1>2, <1>3
  <2>2. Step("lock", "cycle", CycleOfApp(a)) \in StepsIn(cycle)
    BY <1>2, <1>4
  <2> QED BY <1>1, <1>2, <2>1, <2>2 DEF Prepares, JobCommands, Guarded
<1>12. LocksThenReads("archive", a, cycle \o cycleApps)
  BY <1>1, <1>11, Joined
<1>13. LocksThenReads("leave", a, (cycle \o member) \o cycleApps)
  <2>1. Prepares("leave", a, cycle \o member)
    BY <1>2, <1>11, PrepareMore
  <2> QED BY <1>1, <1>11, <2>1, Joined
<1> QED BY <1>5, <1>6, <1>9, <1>10, <1>12, <1>13
        DEF JobCommands, DeclineLocks, WithdrawLocks, PromoteLocks, ExtendLocks, CancelLocks,
            ArchiveLocks, LeaveLocks, cycle, member, jobOffers, jobApps, cycleApps, offer, app

LEMMA RaceScripts ==
    ASSUME NEW a \in Apps
    PROVE  ApplyScript(a) \in Seq(Steps) /\ FinalizeScript(a) \in Seq(Steps)
<1> DEFINE member == Lock("membership", CycleOfApp(a))
           job == Lock("job", JobOf[a])
           writes == Each("write", "app", Among(AppOrder, InJob(a)))
<1>1. /\ member \in Seq(Steps) /\ job \in Seq(Steps) /\ Enrollment \in Seq(Steps)
      /\ CycleAndJob(a) \in Seq(Steps)
  BY HeaderLocks
<1>2. writes \in Seq(Steps)
  BY OrderAssumption, EachFacts DEF InJob
<1> HIDE DEF member, job, writes
<1>3. Peek \in Seq(Steps) /\ Read \in Seq(Steps)
  BY PeekReadFacts
<1>4. \A q, r \in Seq(Steps) : q \o r \in Seq(Steps)
  BY Concatenated
<1>5. Peek \o member \o Read \o job \o Enrollment \in Seq(Steps)
  BY <1>1, <1>3, <1>4
<1>6. CycleAndJob(a) \o Read \o Enrollment \o writes \in Seq(Steps)
  BY <1>1, <1>2, <1>3, <1>4
<1> QED BY <1>5, <1>6 DEF ApplyScript, FinalizeScript, member, job, writes

\* The commands that decide on nothing but rows they have locked.
Racing == {"apply", "finalize"}

LEMMA ScriptShape ==
    ASSUME NEW cmd \in Serial!Commands \ Racing, NEW a \in Apps
    PROVE  \E body : /\ Script(cmd, a) = body \o Read
                     /\ LocksThenReads(cmd, a, body)
                     /\ cmd \in Acceptance =>
                          Len(body) >= 1 /\ body[1] = Step("lock", "enrollment", "mine")
<1>1. CASE cmd \in Acceptance
  <2>1. Script(cmd, a) = AcceptanceLocks(a) \o Read
    BY <1>1 DEF Script, Acceptance
  <2> QED BY <1>1, <2>1, AcceptanceShape
<1>2. CASE cmd \notin Acceptance
  <2>1. cmd \in {"decline", "withdraw", "promote", "extend", "cancel", "archive", "leave"}
    BY <1>2 DEF Serial!Commands, Racing, Acceptance
  <2> QED BY <1>2, <2>1, OtherShapes DEF Script
<1> QED BY <1>1, <1>2

LEMMA ScriptsTyped ==
    ASSUME NEW t \in Txs
    PROVE  ScriptOf[t] \in Seq(Steps) /\ Len(ScriptOf[t]) \in Nat /\ EndOf(t) \in Nat
<1>1. Command[t] \in Serial!Commands /\ Target[t] \in Apps
  BY DatabaseAssumption
<1>2. ScriptOf[t] = Script(Command[t], Target[t])
  BY DEF ScriptOf
<1>3. ASSUME Command[t] \in Racing PROVE ScriptOf[t] \in Seq(Steps)
  <2>1. Script("apply", Target[t]) = ApplyScript(Target[t])
    BY DEF Script
  <2>2. Script("finalize", Target[t]) = FinalizeScript(Target[t])
    BY DEF Script
  <2> QED BY <1>1, <1>2, <1>3, <2>1, <2>2, RaceScripts DEF Racing
<1>4. ASSUME Command[t] \notin Racing PROVE ScriptOf[t] \in Seq(Steps)
  <2>1. PICK body : /\ Script(Command[t], Target[t]) = body \o Read
                    /\ LocksThenReads(Command[t], Target[t], body)
    BY <1>1, <1>4, ScriptShape
  <2>2. body \in Seq(Steps)
    BY <2>1 DEF LocksThenReads
  <2>3. body \o Read \in Seq(Steps)
    BY <2>2, PeekReadFacts, Concatenated
  <2> QED BY <1>2, <2>1, <2>3
<1>5. ScriptOf[t] \in Seq(Steps)
  BY <1>3, <1>4
<1> QED BY <1>5 DEF EndOf

LEMMA AcceptanceStarts ==
    ASSUME NEW t \in Acceptances
    PROVE  ScriptOf[t][1] = Step("lock", "enrollment", "mine") /\ EndOf(t) > 1
<1>1. /\ Command[t] \in Acceptance /\ Command[t] \in Serial!Commands \ Racing
      /\ Target[t] \in Apps /\ t \in Txs
  BY DatabaseAssumption DEF Acceptances, Acceptance, Serial!Commands, Racing
<1>2. ScriptOf[t] = Script(Command[t], Target[t])
  BY <1>1 DEF ScriptOf
<1>3. PICK body : /\ Script(Command[t], Target[t]) = body \o Read
                  /\ LocksThenReads(Command[t], Target[t], body)
                  /\ Len(body) >= 1 /\ body[1] = Step("lock", "enrollment", "mine")
  BY <1>1, ScriptShape
<1>4. body \in Seq(Steps) /\ Read \in Seq(Steps) /\ Len(body) \in Nat /\ Len(Read) = 1
  BY <1>3, PeekReadFacts DEF LocksThenReads
<1>5. (body \o Read)[1] = body[1] /\ Len(body \o Read) = Len(body) + 1
  <2>1. 1 \in 1 .. Len(body)
    BY <1>3, <1>4
  <2> QED BY <1>4, <2>1, Concatenated
<1> QED BY <1>2, <1>3, <1>4, <1>5 DEF EndOf

LEMMA RowsWanted ==
    ASSUME NEW t \in Txs, pc[t] \in Nat, Locking(t)
    PROVE  /\ StepOf(t) \in Steps /\ StepOf(t).op \in {"lock", "write"}
           /\ StepOf(t).row \in Rows
           /\ Wanted(t) \subseteq {StepOf(t).row} /\ Wanted(t) \subseteq Rows
<1>1. StepOf(t) \in Steps
  BY ScriptsTyped DEF Locking, Running, EndOf, StepOf
<1>2. StepOf(t).op \in {"lock", "write"}
  BY DEF Locking
<1>3. StepOf(t).row \in Rows
  BY <1>1, <1>2 DEF Steps, Reads, Step
<1>4. Wanted(t) \subseteq {StepOf(t).row}
  BY DEF Wanted
<1> QED BY <1>1, <1>2, <1>3, <1>4

-----------------------------------------------------------------------------
(* Acceptances do not wait in a circle.                                     *)

\* Whoever holds a row is between its first step and its commit, and an
\* acceptance that has taken its first step has the enrollment row.
LockInv ==
    /\ pc \in [Txs -> Nat]
    /\ held \in [Txs -> SUBSET Rows]
    /\ \A t, u \in Txs : t # u => held[t] \cap held[u] = {}
    /\ \A t \in Txs : held[t] # {} => pc[t] \in 2 .. EndOf(t)
    /\ \A t \in Acceptances :
         pc[t] \in 2 .. EndOf(t) => [kind |-> "enrollment", id |-> "mine"] \in held[t]

LEMMA LockInvInit == Init => LockInv
BY DEF Init, LockInv, Acceptances

LEMMA LockInvBegin == LockInv /\ (\E t \in Txs : Begin(t)) => LockInv'
<1> SUFFICES ASSUME LockInv, NEW t \in Txs, Begin(t) PROVE LockInv'
  OBVIOUS
<1>1. pc[t] = 0 /\ pc' = [pc EXCEPT ![t] = 1] /\ held' = held
  BY DEF Begin
<1>2. held[t] = {} /\ pc' \in [Txs -> Nat] /\ \A u \in Txs : u # t => pc'[u] = pc[u]
  BY <1>1 DEF LockInv
<1>3. pc'[t] = 1
  BY <1>1 DEF LockInv
<1> QED BY <1>1, <1>2, <1>3 DEF LockInv, Acceptances, EndOf

LEMMA LockInvAcquire == LockInv /\ (\E t \in Txs : AcquireLock(t)) => LockInv'
<1> SUFFICES ASSUME LockInv, NEW t \in Txs, AcquireLock(t) PROVE LockInv'
  OBVIOUS
<1> DEFINE mine == [kind |-> "enrollment", id |-> "mine"]
<1>1. /\ Locking(t) /\ Blockers(t) = {} /\ pc[t] \in 1 .. EndOf(t) /\ pc[t] < EndOf(t)
      /\ held' = [held EXCEPT ![t] = @ \cup Wanted(t)] /\ pc' = [pc EXCEPT ![t] = @ + 1]
  BY DEF AcquireLock, Locking, Running
<1>2. Wanted(t) \subseteq Rows
  BY <1>1, RowsWanted DEF LockInv
<1>3. /\ pc' \in [Txs -> Nat] /\ held' \in [Txs -> SUBSET Rows]
      /\ pc'[t] = pc[t] + 1 /\ held'[t] = held[t] \cup Wanted(t)
      /\ \A u \in Txs : u # t => pc'[u] = pc[u] /\ held'[u] = held[u]
  BY <1>1, <1>2 DEF LockInv
<1>4. \A u \in Txs : u # t => Wanted(t) \cap held[u] = {}
  BY <1>1 DEF Blockers
<1>5. \A u, v \in Txs : u # v => held'[u] \cap held'[v] = {}
  BY <1>3, <1>4 DEF LockInv
<1>6. pc'[t] \in 2 .. EndOf(t)
  BY <1>1, <1>3, ScriptsTyped DEF LockInv
<1>7. ASSUME t \in Acceptances PROVE mine \in held'[t]
  <2>1. CASE pc[t] = 1
    <3>1. StepOf(t) = Step("lock", "enrollment", "mine")
      BY <1>7, <2>1, AcceptanceStarts DEF StepOf
    <3>2. Wanted(t) = {mine}
      BY <3>1 DEF Wanted, Step
    <3> QED BY <1>3, <3>2
  <2>2. CASE pc[t] # 1
    <3>1. pc[t] \in 2 .. EndOf(t)
      BY <1>1, <2>2, ScriptsTyped DEF LockInv
    <3> QED BY <1>3, <1>7, <3>1 DEF LockInv
  <2> QED BY <2>1, <2>2
<1> QED BY <1>3, <1>5, <1>6, <1>7 DEF LockInv, Acceptances, EndOf

LEMMA LockInvRead == LockInv /\ (\E t \in Txs : ReadRows(t)) => LockInv'
<1> SUFFICES ASSUME LockInv, NEW t \in Txs, ReadRows(t) PROVE LockInv'
  OBVIOUS
<1>1. /\ pc[t] \in 1 .. EndOf(t) /\ pc[t] < EndOf(t) /\ StepOf(t).op \in {"peek", "read"}
      /\ held' = held /\ pc' = [pc EXCEPT ![t] = @ + 1]
  BY DEF ReadRows, Running
<1>2. /\ pc' \in [Txs -> Nat] /\ pc'[t] = pc[t] + 1
      /\ \A u \in Txs : u # t => pc'[u] = pc[u]
  BY <1>1 DEF LockInv
<1>3. pc'[t] \in 2 .. EndOf(t)
  BY <1>1, <1>2, ScriptsTyped DEF LockInv
<1>4. ASSUME t \in Acceptances PROVE pc[t] \in 2 .. EndOf(t)
  <2>1. pc[t] # 1
    BY <1>1, <1>4, AcceptanceStarts DEF StepOf, Step
  <2> QED BY <1>1, <2>1, ScriptsTyped DEF LockInv
<1> QED BY <1>1, <1>2, <1>3, <1>4 DEF LockInv, Acceptances, EndOf

LEMMA LockInvEnd == LockInv /\ (\E t \in Txs : End(t)) => LockInv'
<1> SUFFICES ASSUME LockInv, NEW t \in Txs, End(t) PROVE LockInv'
  OBVIOUS
<1>1. /\ pc' = [pc EXCEPT ![t] = EndOf(t) + 1] /\ held' = [held EXCEPT ![t] = {}]
      /\ EndOf(t) \in Nat
  BY ScriptsTyped DEF End
<1>2. /\ pc' \in [Txs -> Nat] /\ held' \in [Txs -> SUBSET Rows]
      /\ pc'[t] = EndOf(t) + 1 /\ held'[t] = {}
      /\ \A u \in Txs : u # t => pc'[u] = pc[u] /\ held'[u] = held[u]
  BY <1>1 DEF LockInv
<1>3. pc'[t] \notin 2 .. EndOf(t)
  BY <1>1, <1>2
<1> QED BY <1>2, <1>3 DEF LockInv, Acceptances, EndOf

LEMMA LockInvStep == LockInv /\ [Next]_vars => LockInv'
<1>1. ASSUME LockInv, UNCHANGED vars PROVE LockInv'
  BY <1>1 DEF LockInv, vars, Acceptances, EndOf
<1>2. LockInv /\ Next => LockInv'
  BY LockInvBegin, LockInvAcquire, LockInvRead, LockInvEnd DEF Next, Commit, CancelVictim
<1> QED BY <1>1, <1>2

\* Whoever is waited for holds the enrollment row, so of two who wait for each
\* other only one can.
LEMMA NoCircle == LockInv => AcceptancesNeverDeadlock
<1> SUFFICES ASSUME LockInv, NEW set \in SUBSET (Acceptances \cap Open), CyclicWait(set)
             PROVE  FALSE
  BY DEF AcceptancesNeverDeadlock
<1> DEFINE mine == [kind |-> "enrollment", id |-> "mine"]
<1>1. ASSUME NEW t \in set
      PROVE  \E u \in set : u # t /\ mine \in held[u]
  <2>1. PICK u \in set : u \in Blockers(t)
    BY <1>1 DEF CyclicWait
  <2>2. u # t /\ u \in Txs /\ held[u] # {}
    BY <2>1 DEF Blockers
  <2>3. u \in Acceptances
    OBVIOUS
  <2>4. mine \in held[u]
    BY <2>2, <2>3 DEF LockInv
  <2> QED BY <2>2, <2>4
<1>2. PICK t \in set : TRUE
  BY DEF CyclicWait
<1>3. PICK u \in set : mine \in held[u]
  BY <1>1, <1>2
<1>4. PICK v \in set : v # u /\ mine \in held[v]
  BY <1>1, <1>3
<1>5. u \in Txs /\ v \in Txs
  BY DEF Acceptances
<1> QED BY <1>3, <1>4, <1>5 DEF LockInv

\* locking.py: with any number of a student's acceptances, expiries and
\* terminations open beside any other commands, no set of them ever waits in a
\* circle: they meet at the enrollment row.
THEOREM AcceptancesNeverDeadlockHolds == Spec => []AcceptancesNeverDeadlock
<1>1. Spec => []LockInv
  BY LockInvInit, LockInvStep, PTL DEF Spec
<1> QED BY <1>1, NoCircle, PTL

-----------------------------------------------------------------------------
(* What a command does to the rows, pointwise.                              *)

OfferRows == {"absent", "open", "accepted", "declined", "terminated"}
NonRacing == Serial!Commands \ Racing

LEMMA SameTable ==
    /\ Serial!Statuses = Statuses /\ Serial!LiveStatuses = LiveStatuses
    /\ \A st : Serial!ExitStatus(st) = ExitStatus(st) /\ Serial!CascadeStatus(st) = CascadeStatus(st)
    /\ Serial!TRANSITIONS.withdraw.from = {"in_progress"}
    /\ Serial!TRANSITIONS.advance_final.from = {"in_progress"}
    /\ Serial!TRANSITIONS.extend_offer.from = {"in_progress", "pending_offer"}
<1>1. Serial!Statuses = Statuses /\ Serial!LiveStatuses = LiveStatuses
  BY DEF Serial!Statuses, Statuses, Serial!LiveStatuses, LiveStatuses
<1>2. \A st : Serial!ExitStatus(st) = ExitStatus(st) /\ Serial!CascadeStatus(st) = CascadeStatus(st)
  BY DEF Serial!ExitStatus, ExitStatus, Serial!CascadeStatus, CascadeStatus,
         Serial!EXIT_CASCADE_STATUSES, EXIT_CASCADE_STATUSES
<1>3. /\ Serial!TRANSITIONS.withdraw.from = {"in_progress"}
      /\ Serial!TRANSITIONS.advance_final.from = {"in_progress"}
      /\ Serial!TRANSITIONS.extend_offer.from = {"in_progress", "pending_offer"}
  BY DEF Serial!TRANSITIONS, Serial!Row
<1> QED BY <1>1, <1>2, <1>3

LEMMA RowsInDatabase ==
    ASSUME NEW s \in Serial!Database
    PROVE  /\ s.status \in [Apps -> Statuses] /\ s.offer \in [Apps -> OfferRows]
           /\ s.cancelled \in SUBSET Jobs /\ s.archived \in SUBSET Cycles
           /\ s.left \in SUBSET Cycles
BY SameTable DEF Serial!Database, OfferRows

\* `n` is `s` with these statuses and offers.
Sets(s, n, status, offer) ==
    /\ n.status = status /\ n.offer = offer
    /\ n.cancelled = s.cancelled /\ n.archived = s.archived /\ n.left = s.left

LEMMA MoveFacts ==
    ASSUME NEW s \in Serial!Database, NEW a \in Apps, NEW to \in Statuses, NEW row \in OfferRows
    PROVE  /\ Serial!Move(s, a, to, row) \in Serial!Database
           /\ Sets(s, Serial!Move(s, a, to, row),
                   [b \in Apps |-> IF b = a THEN to ELSE s.status[b]],
                   [b \in Apps |-> IF b = a THEN row ELSE s.offer[b]])
BY SameTable DEF Serial!Move, Serial!Database, OfferRows, Sets

Swept(st) == IF st \in LiveStatuses THEN CascadeStatus(st) ELSE st

LEMMA AcceptFacts ==
    ASSUME NEW s \in Serial!Database, NEW a \in Apps
    PROVE  /\ Serial!Accept(s, a) \in Serial!Database
           /\ Sets(s, Serial!Accept(s, a),
                   [b \in Apps |-> IF b = a THEN "accepted" ELSE Swept(s.status[b])],
                   [b \in Apps |-> IF b = a THEN "accepted"
                                   ELSE IF s.status[b] = "offered" THEN "declined"
                                   ELSE s.offer[b]])
<1> DEFINE swept == {b \in Apps \ {a} :
                       Serial!CascadeTakes("placement", Serial!CycleOfApp(a), "placement",
                                           "placement", Serial!CycleOfApp(b), "placement",
                                           s.status[b])}
           status == [b \in Apps |-> IF b = a THEN "accepted"
                                     ELSE IF b \in swept THEN Serial!CascadeStatus(s.status[b])
                                     ELSE s.status[b]]
           offer == [b \in Apps |-> IF b = a THEN "accepted"
                                    ELSE IF b \in swept /\ s.status[b] = "offered"
                                         THEN "declined"
                                    ELSE s.offer[b]]
<1>1. Serial!Accept(s, a) = [s EXCEPT !.status = status, !.offer = offer]
  BY DEF Serial!Accept
<1>2. swept = {b \in Apps \ {a} : s.status[b] \in LiveStatuses}
  BY SameTable DEF Serial!CascadeTakes
<1> HIDE DEF swept
<1>3. status = [b \in Apps |-> IF b = a THEN "accepted" ELSE Swept(s.status[b])]
  BY <1>2, SameTable DEF Swept
<1>4. offer = [b \in Apps |-> IF b = a THEN "accepted"
                              ELSE IF s.status[b] = "offered" THEN "declined"
                              ELSE s.offer[b]]
  BY <1>2 DEF LiveStatuses
<1>5. status \in [Apps -> Statuses] /\ offer \in [Apps -> OfferRows]
  BY <1>3, <1>4, RowsInDatabase DEF Swept, CascadeStatus, Statuses, OfferRows
<1> HIDE DEF status, offer
<1>6. Serial!Accept(s, a) \in Serial!Database
  BY <1>1, <1>5, SameTable DEF Serial!Database, OfferRows
<1>7. Sets(s, Serial!Accept(s, a), status, offer)
  BY <1>1 DEF Sets, Serial!Database
<1> QED BY <1>3, <1>4, <1>6, <1>7

LEMMA ExitFacts ==
    ASSUME NEW s \in Serial!Database, NEW c
    PROVE  /\ Serial!ExitCycle(s, c) \in Serial!Database
           /\ Sets(s, Serial!ExitCycle(s, c),
                   [b \in Apps |-> IF b \in Serial!InCycle(c) THEN ExitStatus(s.status[b])
                                   ELSE s.status[b]],
                   s.offer)
<1> DEFINE status == [b \in Apps |-> IF b \in Serial!InCycle(c) THEN Serial!ExitStatus(s.status[b])
                                     ELSE s.status[b]]
<1>1. Serial!ExitCycle(s, c) = [s EXCEPT !.status = status]
  BY DEF Serial!ExitCycle
<1>2. status \in [Apps -> Statuses]
  BY RowsInDatabase, SameTable DEF ExitStatus, Statuses
<1> HIDE DEF status
<1>3. Serial!ExitCycle(s, c) \in Serial!Database /\ Sets(s, Serial!ExitCycle(s, c), status, s.offer)
  BY <1>1, <1>2, SameTable DEF Serial!Database, Sets
<1> QED BY <1>3, SameTable DEF status

LEMMA RejectFacts ==
    ASSUME NEW s \in Serial!Database, NEW j, NEW statuses
    PROVE  /\ Serial!RejectRows(s, j, statuses) \in Serial!Database
           /\ Sets(s, Serial!RejectRows(s, j, statuses),
                   [b \in Apps |-> IF JobOf[b] = j /\ s.status[b] \in statuses
                                   THEN "rejected" ELSE s.status[b]],
                   [b \in Apps |-> IF JobOf[b] = j /\ s.status[b] \in statuses
                                      /\ s.offer[b] = "open"
                                   THEN "terminated" ELSE s.offer[b]])
<1> DEFINE hit == {b \in Serial!InJob(j) : s.status[b] \in statuses}
           status == [b \in Apps |-> IF b \in hit THEN "rejected" ELSE s.status[b]]
           offer == [b \in Apps |-> IF b \in hit /\ s.offer[b] = "open"
                                    THEN "terminated" ELSE s.offer[b]]
<1>1. Serial!RejectRows(s, j, statuses) = [s EXCEPT !.status = status, !.offer = offer]
  BY DEF Serial!RejectRows
<1>2. \A b \in Apps : b \in hit <=> JobOf[b] = j /\ s.status[b] \in statuses
  BY DEF Serial!InJob
<1> HIDE DEF hit
<1>3. status \in [Apps -> Statuses] /\ offer \in [Apps -> OfferRows]
  BY RowsInDatabase DEF Statuses, OfferRows
<1>4. /\ status = [b \in Apps |-> IF JobOf[b] = j /\ s.status[b] \in statuses
                                  THEN "rejected" ELSE s.status[b]]
      /\ offer = [b \in Apps |-> IF JobOf[b] = j /\ s.status[b] \in statuses
                                    /\ s.offer[b] = "open"
                                 THEN "terminated" ELSE s.offer[b]]
  BY <1>2
<1> HIDE DEF status, offer
<1>5. /\ Serial!RejectRows(s, j, statuses) \in Serial!Database
      /\ Sets(s, Serial!RejectRows(s, j, statuses), status, offer)
  BY <1>1, <1>3, SameTable DEF Serial!Database, OfferRows, Sets
<1> QED BY <1>4, <1>5

LEMMA SameNames ==
    ASSUME NEW a
    PROVE  /\ Serial!CycleOfApp(a) = CycleOfApp(a)
           /\ Serial!InCycle(CycleOfApp(a)) = InCycle(a) /\ Serial!InJob(JobOf[a]) = InJob(a)
BY DEF Serial!CycleOfApp, CycleOfApp, Serial!InCycle, InCycle, Serial!InJob, InJob

\* The rows change within `G` only; a missing application stays missing, and
\* none becomes one that leaving would withdraw.
Orderly(s, n, G) ==
    /\ \A b \in Apps \ G : n.status[b] = s.status[b] /\ n.offer[b] = s.offer[b]
    /\ \A b \in Apps : n.status[b] = "none" <=> s.status[b] = "none"
    /\ \A b \in Apps : s.status[b] = "none" => n.offer[b] = s.offer[b]
    /\ \A b \in Apps : n.status[b] \in EXIT_CASCADE_STATUSES
                         => s.status[b] \in EXIT_CASCADE_STATUSES

SameRows(G, s, n, d, m) ==
    /\ \A b \in G : n.status[b] = m.status[b] /\ n.offer[b] = m.offer[b]
    /\ \A b \in Apps \ G : /\ n.status[b] = s.status[b] /\ m.status[b] = d.status[b]
                            /\ n.offer[b] = s.offer[b] /\ m.offer[b] = d.offer[b]

SameFlags(s, n, d, m) ==
    /\ m.cancelled = d.cancelled \cup (n.cancelled \ s.cancelled)
    /\ m.archived = d.archived \cup (n.archived \ s.archived)
    /\ m.left = d.left \cup (n.left \ s.left)

Alike(G, s, d) == \A b \in G : s.status[b] = d.status[b] /\ s.offer[b] = d.offer[b]

\* A write that names only what changed is the whole effect on the rows as they
\* are now, if nothing it depends on has changed in between.
LEMMA OverwriteIs ==
    ASSUME NEW s \in Serial!Database, NEW n \in Serial!Database, NEW m \in Serial!Database,
           db \in Serial!Database, NEW G \in SUBSET Apps, Alike(G, s, db),
           SameRows(G, s, n, db, m), SameFlags(s, n, db, m)
    PROVE  Overwrite(s, n) = m
<1> DEFINE status == [b \in Apps |-> IF n.status[b] # s.status[b] THEN n.status[b]
                                     ELSE db.status[b]]
           offer == [b \in Apps |-> IF n.offer[b] # s.offer[b] THEN n.offer[b] ELSE db.offer[b]]
<1>1. \A b \in Apps : status[b] = m.status[b] /\ offer[b] = m.offer[b]
  <2> SUFFICES ASSUME NEW b \in Apps PROVE status[b] = m.status[b] /\ offer[b] = m.offer[b]
    OBVIOUS
  <2>1. CASE b \in G
    BY <2>1 DEF Alike, SameRows
  <2>2. CASE b \notin G
    BY <2>2 DEF SameRows
  <2> QED BY <2>1, <2>2
<1>2. status = m.status /\ offer = m.offer
  BY <1>1, RowsInDatabase
<1>3. Overwrite(s, n) = [status |-> status, offer |-> offer,
                         cancelled |-> db.cancelled \cup (n.cancelled \ s.cancelled),
                         archived |-> db.archived \cup (n.archived \ s.archived),
                         left |-> db.left \cup (n.left \ s.left)]
  BY DEF Overwrite
<1> HIDE DEF status, offer
<1>4. m = [status |-> m.status, offer |-> m.offer, cancelled |-> m.cancelled,
           archived |-> m.archived, left |-> m.left]
  BY DEF Serial!Database
<1> QED BY <1>2, <1>3, <1>4 DEF SameFlags

LEMMA MoveEffect ==
    ASSUME NEW s \in Serial!Database, NEW a \in Apps, NEW to \in Statuses \ {"none"},
           NEW row \in OfferRows, NEW G \in SUBSET Apps, a \in G,
           s.status[a] # "none",
           to \in EXIT_CASCADE_STATUSES => s.status[a] \in EXIT_CASCADE_STATUSES
    PROVE  /\ Orderly(s, Serial!Move(s, a, to, row), G)
           /\ \A d \in Serial!Database :
                SameFlags(s, Serial!Move(s, a, to, row), d, Serial!Move(d, a, to, row))
           /\ \A d \in Serial!Database : Alike(G, s, d) =>
                SameRows(G, s, Serial!Move(s, a, to, row), d, Serial!Move(d, a, to, row))
<1> DEFINE n(d) == Serial!Move(d, a, to, row)
<1>1. \A d \in Serial!Database :
         /\ n(d).cancelled = d.cancelled /\ n(d).archived = d.archived /\ n(d).left = d.left
         /\ \A b \in Apps : /\ n(d).status[b] = IF b = a THEN to ELSE d.status[b]
                            /\ n(d).offer[b] = IF b = a THEN row ELSE d.offer[b]
  <2> TAKE d \in Serial!Database
  <2>1. Sets(d, n(d),
             [b \in Apps |-> IF b = a THEN to ELSE d.status[b]],
             [b \in Apps |-> IF b = a THEN row ELSE d.offer[b]])
    BY MoveFacts
  <2> QED BY <2>1 DEF Sets
<1> HIDE DEF n
<1>2. Orderly(s, n(s), G)
  BY <1>1 DEF Orderly
<1>3. \A d \in Serial!Database : SameFlags(s, n(s), d, n(d))
  BY <1>1 DEF SameFlags
<1>4. \A d \in Serial!Database : Alike(G, s, d) => SameRows(G, s, n(s), d, n(d))
  BY <1>1 DEF SameRows, Alike
<1> QED BY <1>2, <1>3, <1>4 DEF n

LEMMA AcceptEffect ==
    ASSUME NEW s \in Serial!Database, NEW a \in Apps, s.status[a] # "none"
    PROVE  /\ Orderly(s, Serial!Accept(s, a), Apps)
           /\ \A d \in Serial!Database :
                SameFlags(s, Serial!Accept(s, a), d, Serial!Accept(d, a))
           /\ \A d \in Serial!Database : Alike(Apps, s, d) =>
                SameRows(Apps, s, Serial!Accept(s, a), d, Serial!Accept(d, a))
<1> DEFINE n(d) == Serial!Accept(d, a)
<1>1. \A d \in Serial!Database :
         /\ n(d).cancelled = d.cancelled /\ n(d).archived = d.archived /\ n(d).left = d.left
         /\ \A b \in Apps : /\ n(d).status[b] = IF b = a THEN "accepted" ELSE Swept(d.status[b])
                            /\ n(d).offer[b] = IF b = a THEN "accepted"
                                               ELSE IF d.status[b] = "offered" THEN "declined"
                                               ELSE d.offer[b]
  <2> TAKE d \in Serial!Database
  <2>1. Sets(d, n(d),
             [b \in Apps |-> IF b = a THEN "accepted" ELSE Swept(d.status[b])],
             [b \in Apps |-> IF b = a THEN "accepted"
                             ELSE IF d.status[b] = "offered" THEN "declined"
                             ELSE d.offer[b]])
    BY AcceptFacts
  <2> QED BY <2>1 DEF Sets
<1> HIDE DEF n
<1>2. \A st : /\ Swept(st) = "none" <=> st = "none"
              /\ Swept(st) \notin EXIT_CASCADE_STATUSES
  BY DEF Swept, CascadeStatus, LiveStatuses, EXIT_CASCADE_STATUSES
<1>3. Orderly(s, n(s), Apps)
  BY <1>1, <1>2 DEF Orderly, EXIT_CASCADE_STATUSES
<1>4. \A d \in Serial!Database : SameFlags(s, n(s), d, n(d))
  BY <1>1 DEF SameFlags
<1>5. \A d \in Serial!Database : Alike(Apps, s, d) => SameRows(Apps, s, n(s), d, n(d))
  BY <1>1 DEF SameRows, Alike
<1> QED BY <1>3, <1>4, <1>5 DEF n

LEMMA ExitEffect ==
    ASSUME NEW s \in Serial!Database, NEW a \in Apps
    PROVE  LET n(d) == Serial!ExitCycle(d, CycleOfApp(a)) IN
           /\ Orderly(s, n(s), InCycle(a))
           /\ \A b \in InCycle(a) : n(s).status[b] \notin EXIT_CASCADE_STATUSES
           /\ \A d \in Serial!Database : Alike(InCycle(a), s, d) =>
                SameRows(InCycle(a), s, n(s), d, n(d))
<1> DEFINE n(d) == Serial!ExitCycle(d, CycleOfApp(a))
<1>1. \A d \in Serial!Database : \A b \in Apps :
         /\ n(d).status[b] = IF b \in InCycle(a) THEN ExitStatus(d.status[b]) ELSE d.status[b]
         /\ n(d).offer[b] = d.offer[b]
  <2> TAKE d \in Serial!Database
  <2>1. Sets(d, n(d),
             [b \in Apps |-> IF b \in InCycle(a) THEN ExitStatus(d.status[b])
                             ELSE d.status[b]],
             d.offer)
    BY ExitFacts, SameNames
  <2> QED BY <2>1 DEF Sets
<1> HIDE DEF n
<1>2. \A st : /\ ExitStatus(st) = "none" <=> st = "none"
              /\ ExitStatus(st) \notin EXIT_CASCADE_STATUSES
  BY DEF ExitStatus, EXIT_CASCADE_STATUSES
<1>3. InCycle(a) \in SUBSET Apps
  BY DEF InCycle
<1>4. Orderly(s, n(s), InCycle(a))
  BY <1>1, <1>2, <1>3 DEF Orderly
<1>5. \A d \in Serial!Database : Alike(InCycle(a), s, d) => SameRows(InCycle(a), s, n(s), d, n(d))
  BY <1>1, <1>3 DEF SameRows, Alike
<1> QED BY <1>1, <1>2, <1>3, <1>4, <1>5 DEF n

LEMMA RejectEffect ==
    ASSUME NEW s \in Serial!Database, NEW a \in Apps
    PROVE  LET n(d) == Serial!RejectRows(d, JobOf[a], LiveStatuses) IN
           /\ Orderly(s, n(s), InJob(a))
           /\ \A d \in Serial!Database : Alike(InJob(a), s, d) =>
                SameRows(InJob(a), s, n(s), d, n(d))
<1> DEFINE n(d) == Serial!RejectRows(d, JobOf[a], LiveStatuses)
<1>1. \A d \in Serial!Database : \A b \in Apps :
         /\ n(d).status[b] = IF JobOf[b] = JobOf[a] /\ d.status[b] \in LiveStatuses
                             THEN "rejected" ELSE d.status[b]
         /\ n(d).offer[b] = IF JobOf[b] = JobOf[a] /\ d.status[b] \in LiveStatuses
                               /\ d.offer[b] = "open"
                            THEN "terminated" ELSE d.offer[b]
  <2> TAKE d \in Serial!Database
  <2>1. Sets(d, n(d),
             [b \in Apps |-> IF JobOf[b] = JobOf[a] /\ d.status[b] \in LiveStatuses
                             THEN "rejected" ELSE d.status[b]],
             [b \in Apps |-> IF JobOf[b] = JobOf[a] /\ d.status[b] \in LiveStatuses
                                /\ d.offer[b] = "open"
                             THEN "terminated" ELSE d.offer[b]])
    BY RejectFacts
  <2> QED BY <2>1 DEF Sets
<1> HIDE DEF n
<1>2. InJob(a) \in SUBSET Apps /\ \A b \in Apps : b \in InJob(a) <=> JobOf[b] = JobOf[a]
  BY DEF InJob
<1>3. "none" \notin LiveStatuses /\ "rejected" \notin EXIT_CASCADE_STATUSES
  BY DEF LiveStatuses, EXIT_CASCADE_STATUSES
<1>4. Orderly(s, n(s), InJob(a))
  BY <1>1, <1>2, <1>3 DEF Orderly
<1>5. \A d \in Serial!Database : Alike(InJob(a), s, d) => SameRows(InJob(a), s, n(s), d, n(d))
  BY <1>1, <1>2 DEF SameRows, Alike
<1> QED BY <1>4, <1>5 DEF n

-----------------------------------------------------------------------------
(* A command decided on rows that are still the same.                       *)

Answers == Acceptance \cup {"decline"}

\* An archived cycle has no application left that an exit would withdraw.
Quiet(s) ==
    \A b \in Apps : CycleOfApp(b) \in s.archived => s.status[b] \notin EXIT_CASCADE_STATUSES

\* `s` may be an earlier state than `d`, but not in what `cmd` decides on.
Agrees(cmd, a, s, d) ==
    /\ Alike(Guarded(cmd, a), s, d)
    /\ s.archived \subseteq d.archived
    /\ cmd \in CycleCommands \/ (cmd \in Answers /\ d.status[a] # "none") =>
         /\ CycleOfApp(a) \in s.archived <=> CycleOfApp(a) \in d.archived
         /\ CycleOfApp(a) \in s.left <=> CycleOfApp(a) \in d.left
    /\ cmd \in JobCommands => (JobOf[a] \in s.cancelled <=> JobOf[a] \in d.cancelled)

LEMMA AllowedWhen ==
    ASSUME NEW a, NEW s
    PROVE  LET c == CycleOfApp(a)
               here == s.status[a] = "offered" /\ s.offer[a] = "open"
               placed == \E b \in Apps : s.offer[b] = "accepted"
           IN  /\ Serial!Placed(s) <=> placed
               /\ Serial!Allowed("accept", a, s) <=> c \notin s.archived /\ here /\ ~placed
               /\ Serial!Allowed("expire", a, s) <=> c \notin s.archived /\ here
               /\ Serial!Allowed("decline", a, s) <=> c \notin s.archived /\ here
               /\ Serial!Allowed("terminate", a, s) <=>
                    c \notin s.archived /\ (here \/ (s.status[a] = "accepted" /\ s.offer[a] = "accepted"))
               /\ Serial!Allowed("withdraw", a, s) <=> c \notin s.archived /\ s.status[a] = "in_progress"
               /\ Serial!Allowed("promote", a, s) <=> c \notin s.archived /\ s.status[a] = "in_progress"
               /\ Serial!Allowed("extend", a, s) <=>
                    /\ c \notin s.archived /\ s.status[a] \in {"in_progress", "pending_offer"}
                    /\ s.offer[a] = "absent" /\ JobOf[a] \notin s.cancelled
               /\ Serial!Allowed("cancel", a, s) <=> c \notin s.archived
               /\ Serial!Allowed("archive", a, s) <=> c \notin s.archived
               /\ Serial!Allowed("leave", a, s) <=> c \notin s.archived /\ c \notin s.left
<1>1. Serial!CycleOfApp(a) = CycleOfApp(a)
  BY SameNames
<1> QED BY <1>1, SameTable DEF Serial!Allowed, Serial!Answerable, Serial!Placed

LEMMA GuardedWhat ==
    ASSUME NEW cmd \in NonRacing, NEW a \in Apps
    PROVE  /\ Guarded(cmd, a) \in SUBSET Apps /\ a \in Guarded(cmd, a)
           /\ cmd \in Acceptance => Guarded(cmd, a) = Apps
<1>1. InJob(a) \in SUBSET Apps /\ a \in InJob(a) /\ InCycle(a) \in SUBSET Apps /\ a \in InCycle(a)
  BY DEF InJob, InCycle
<1> QED BY <1>1 DEF Guarded, NonRacing, Racing, Serial!Commands, Acceptance

LEMMA SameAllowed ==
    ASSUME NEW cmd \in NonRacing, NEW a \in Apps,
           NEW s \in Serial!Database, NEW d \in Serial!Database,
           Agrees(cmd, a, s, d), Quiet(d)
    PROVE  Serial!Allowed(cmd, a, s) <=> Serial!Allowed(cmd, a, d)
<1> DEFINE c == CycleOfApp(a)
<1>1. s.status[a] = d.status[a] /\ s.offer[a] = d.offer[a]
  BY GuardedWhat DEF Agrees, Alike
<1>2. CASE cmd \in Answers
  <2>1. d.status[a] # "none" => (c \in s.archived <=> c \in d.archived)
    BY <1>2 DEF Agrees
  <2>2. cmd = "accept" => \A b \in Apps : s.offer[b] = d.offer[b]
    BY GuardedWhat DEF Agrees, Alike, Acceptance
  <2>3. (\A b \in Apps : s.offer[b] = d.offer[b]) =>
          ((\E b \in Apps : s.offer[b] = "accepted") <=> (\E b \in Apps : d.offer[b] = "accepted"))
    OBVIOUS
  <2>4. CASE cmd = "accept"
    BY <1>1, <2>1, <2>2, <2>3, <2>4, AllowedWhen
  <2>5. CASE cmd = "expire"
    BY <1>1, <2>1, <2>5, AllowedWhen
  <2>6. CASE cmd = "decline"
    BY <1>1, <2>1, <2>6, AllowedWhen
  <2>7. CASE cmd = "terminate"
    BY <1>1, <2>1, <2>7, AllowedWhen
  <2> QED BY <1>2, <2>4, <2>5, <2>6, <2>7 DEF Answers, Acceptance
<1>3. CASE cmd = "withdraw"
  <2>1. s.archived \subseteq d.archived
    BY DEF Agrees
  <2>2. c \in d.archived => d.status[a] # "in_progress"
    BY DEF Quiet, EXIT_CASCADE_STATUSES
  <2> QED BY <1>1, <1>3, <2>1, <2>2, AllowedWhen
<1>4. CASE cmd \in CycleCommands
  <2>1. (c \in s.archived <=> c \in d.archived) /\ (c \in s.left <=> c \in d.left)
    BY <1>4 DEF Agrees
  <2>2. cmd \in JobCommands => (JobOf[a] \in s.cancelled <=> JobOf[a] \in d.cancelled)
    BY DEF Agrees
  <2>3. CASE cmd = "promote"
    BY <1>1, <2>1, <2>3, AllowedWhen
  <2>4. CASE cmd = "extend"
    BY <1>1, <2>1, <2>2, <2>4, AllowedWhen DEF JobCommands
  <2>5. CASE cmd \in {"cancel", "archive", "leave"}
    BY <2>1, <2>5, AllowedWhen
  <2> QED BY <1>4, <2>3, <2>4, <2>5 DEF CycleCommands
<1> QED BY <1>2, <1>3, <1>4 DEF NonRacing, Racing, Serial!Commands, Answers, Acceptance, CycleCommands

\* Which of the flags a command sets.
FlagsSet(cmd, a, s, n) ==
    /\ n.cancelled = s.cancelled \cup (IF cmd = "cancel" THEN {JobOf[a]} ELSE {})
    /\ n.archived = s.archived \cup (IF cmd = "archive" THEN {CycleOfApp(a)} ELSE {})
    /\ n.left = s.left \cup (IF cmd = "leave" THEN {CycleOfApp(a)} ELSE {})

\* What `cmd` makes of `s`, and that it makes the same of any `d` that agrees.
Sound(cmd, a, s) ==
    LET n(d) == Serial!Planned(cmd, a, d) IN
    /\ n(s) \in Serial!Database /\ Orderly(s, n(s), Guarded(cmd, a)) /\ FlagsSet(cmd, a, s, n(s))
    /\ cmd = "archive" => \A b \in InCycle(a) : n(s).status[b] \notin EXIT_CASCADE_STATUSES
    /\ \A d \in Serial!Database : Serial!Allowed(cmd, a, d) /\ Agrees(cmd, a, s, d) =>
         SameRows(Guarded(cmd, a), s, n(s), d, n(d))

LEMMA MoveSound ==
    ASSUME NEW cmd \in NonRacing, NEW a \in Apps, NEW s \in Serial!Database,
           NEW to \in Statuses \ {"none"}, NEW row \in OfferRows, s.status[a] # "none",
           to \in EXIT_CASCADE_STATUSES => s.status[a] \in EXIT_CASCADE_STATUSES,
           cmd \notin {"cancel", "archive", "leave"},
           Serial!Planned(cmd, a, s) = Serial!Move(s, a, to, row),
           \A d \in Serial!Database :
             Serial!Allowed(cmd, a, d) /\ Agrees(cmd, a, s, d) =>
               Serial!Planned(cmd, a, d) = Serial!Move(d, a, to, row)
    PROVE  Sound(cmd, a, s)
<1> DEFINE n(d) == Serial!Planned(cmd, a, d)
           G == Guarded(cmd, a)
           moved(d) == Serial!Move(d, a, to, row)
<1>1. G \in SUBSET Apps /\ a \in G
  BY GuardedWhat
<1>2. /\ n(s) \in Serial!Database /\ n(s).cancelled = s.cancelled
      /\ n(s).archived = s.archived /\ n(s).left = s.left
  <2>1. moved(s) \in Serial!Database
    BY MoveFacts
  <2>2. Sets(s, moved(s), [b \in Apps |-> IF b = a THEN to ELSE s.status[b]],
                          [b \in Apps |-> IF b = a THEN row ELSE s.offer[b]])
    BY MoveFacts
  <2> HIDE DEF moved
  <2>3. moved(s).cancelled = s.cancelled /\ moved(s).archived = s.archived /\ moved(s).left = s.left
    BY <2>2 DEF Sets
  <2> QED BY <2>1, <2>3 DEF moved
<1> HIDE DEF G
<1>3. /\ Orderly(s, moved(s), G)
      /\ \A d \in Serial!Database : Alike(G, s, d) => SameRows(G, s, moved(s), d, moved(d))
  BY <1>1, MoveEffect
<1> HIDE DEF moved
<1>4. n(s) = moved(s)
  BY DEF moved
<1>5. \A d \in Serial!Database :
         Serial!Allowed(cmd, a, d) /\ Agrees(cmd, a, s, d) => n(d) = moved(d) /\ Alike(G, s, d)
  BY DEF moved, Agrees, G
<1> HIDE DEF n
<1>6. FlagsSet(cmd, a, s, n(s))
  BY <1>2 DEF FlagsSet
<1>7. \A d \in Serial!Database : Serial!Allowed(cmd, a, d) /\ Agrees(cmd, a, s, d) =>
         SameRows(G, s, n(s), d, n(d))
  BY <1>3, <1>4, <1>5
<1>8. Orderly(s, n(s), G)
  BY <1>3, <1>4
<1> QED BY <1>2, <1>6, <1>7, <1>8 DEF Sound, n, G

LEMMA AcceptSound ==
    ASSUME NEW cmd \in {"accept", "expire"}, NEW a \in Apps, NEW s \in Serial!Database,
           s.status[a] # "none",
           Serial!Planned(cmd, a, s) = Serial!Accept(s, a),
           \A d \in Serial!Database :
             Serial!Allowed(cmd, a, d) /\ Agrees(cmd, a, s, d) =>
               Serial!Planned(cmd, a, d) = Serial!Accept(d, a)
    PROVE  Sound(cmd, a, s)
<1> DEFINE n(d) == Serial!Planned(cmd, a, d)
           G == Guarded(cmd, a)
           taken(d) == Serial!Accept(d, a)
<1>1. G = Apps
  BY DEF Guarded
<1>2. /\ n(s) \in Serial!Database /\ n(s).cancelled = s.cancelled
      /\ n(s).archived = s.archived /\ n(s).left = s.left
  <2>1. taken(s) \in Serial!Database
    BY AcceptFacts
  <2>2. Sets(s, taken(s), [b \in Apps |-> IF b = a THEN "accepted" ELSE Swept(s.status[b])],
                   [b \in Apps |-> IF b = a THEN "accepted"
                                   ELSE IF s.status[b] = "offered" THEN "declined"
                                   ELSE s.offer[b]])
    BY AcceptFacts
  <2> HIDE DEF taken
  <2>3. taken(s).cancelled = s.cancelled /\ taken(s).archived = s.archived /\ taken(s).left = s.left
    BY <2>2 DEF Sets
  <2> QED BY <2>1, <2>3 DEF taken
<1> HIDE DEF G
<1>3. /\ Orderly(s, taken(s), G)
      /\ \A d \in Serial!Database : Alike(G, s, d) => SameRows(G, s, taken(s), d, taken(d))
  BY <1>1, AcceptEffect
<1> HIDE DEF taken
<1>4. n(s) = taken(s)
  BY DEF taken
<1>5. \A d \in Serial!Database :
         Serial!Allowed(cmd, a, d) /\ Agrees(cmd, a, s, d) => n(d) = taken(d) /\ Alike(G, s, d)
  BY DEF taken, Agrees, G
<1> HIDE DEF n
<1>6. FlagsSet(cmd, a, s, n(s))
  BY <1>2 DEF FlagsSet
<1>7. \A d \in Serial!Database : Serial!Allowed(cmd, a, d) /\ Agrees(cmd, a, s, d) =>
         SameRows(G, s, n(s), d, n(d))
  BY <1>3, <1>4, <1>5
<1>8. Orderly(s, n(s), G)
  BY <1>3, <1>4
<1> QED BY <1>2, <1>6, <1>7, <1>8 DEF Sound, n, G

LEMMA CancelSound ==
    ASSUME NEW a \in Apps, NEW s \in Serial!Database
    PROVE  Sound("cancel", a, s)
<1> DEFINE n(d) == Serial!Planned("cancel", a, d)
           hit(d) == Serial!RejectRows(d, JobOf[a], LiveStatuses)
           G == InJob(a)
<1>1. \A d \in Serial!Database : n(d) = [hit(d) EXCEPT !.cancelled = @ \cup {JobOf[a]}]
  BY SameTable DEF Serial!Planned
<1>2. JobOf[a] \in Jobs
  BY DatabaseAssumption
<1>3. \A d \in Serial!Database :
         /\ hit(d) \in Serial!Database /\ hit(d).cancelled = d.cancelled
         /\ hit(d).archived = d.archived /\ hit(d).left = d.left
  <2> TAKE d \in Serial!Database
  <2>1. hit(d) \in Serial!Database
    BY RejectFacts
  <2>2. Sets(d, hit(d), [b \in Apps |-> IF JobOf[b] = JobOf[a] /\ d.status[b] \in LiveStatuses
                                        THEN "rejected" ELSE d.status[b]],
                        [b \in Apps |-> IF JobOf[b] = JobOf[a] /\ d.status[b] \in LiveStatuses
                                           /\ d.offer[b] = "open"
                                        THEN "terminated" ELSE d.offer[b]])
    BY RejectFacts
  <2> HIDE DEF hit
  <2> QED BY <2>1, <2>2 DEF Sets
<1>4. /\ Orderly(s, hit(s), G)
      /\ \A d \in Serial!Database : Alike(G, s, d) => SameRows(G, s, hit(s), d, hit(d))
  BY RejectEffect
<1> HIDE DEF hit, n, G
<1>5. \A d \in Serial!Database :
         /\ n(d) \in Serial!Database /\ n(d).status = hit(d).status /\ n(d).offer = hit(d).offer
         /\ n(d).cancelled = d.cancelled \cup {JobOf[a]}
         /\ n(d).archived = d.archived /\ n(d).left = d.left
  <2> TAKE d \in Serial!Database
  <2>1. n(d) = [hit(d) EXCEPT !.cancelled = @ \cup {JobOf[a]}]
    BY <1>1
  <2>2. /\ hit(d) \in Serial!Database /\ hit(d).cancelled = d.cancelled
        /\ hit(d).archived = d.archived /\ hit(d).left = d.left
    BY <1>3
  <2> QED BY <1>2, <2>1, <2>2 DEF Serial!Database
<1>6. Guarded("cancel", a) = G
  BY DEF Guarded, G
<1>7. Orderly(s, n(s), G) /\ FlagsSet("cancel", a, s, n(s))
  BY <1>4, <1>5 DEF Orderly, FlagsSet
<1>8. \A d \in Serial!Database : Agrees("cancel", a, s, d) => SameRows(G, s, n(s), d, n(d))
  <2>1. \A d \in Serial!Database : Agrees("cancel", a, s, d) => Alike(G, s, d)
    BY <1>6 DEF Agrees
  <2> QED BY <1>4, <1>5, <2>1 DEF SameRows
<1> QED BY <1>5, <1>6, <1>7, <1>8 DEF Sound, n

LEMMA ExitSound ==
    ASSUME NEW cmd \in {"archive", "leave"}, NEW a \in Apps, NEW s \in Serial!Database
    PROVE  Sound(cmd, a, s)
<1> DEFINE n(d) == Serial!Planned(cmd, a, d)
           out(d) == Serial!ExitCycle(d, CycleOfApp(a))
           G == InCycle(a)
           arch == IF cmd = "archive" THEN {CycleOfApp(a)} ELSE {}
           gone == IF cmd = "leave" THEN {CycleOfApp(a)} ELSE {}
<1>1. CycleOfApp(a) \in Cycles
  BY DatabaseAssumption DEF CycleOfApp
<1>2. \A d \in Serial!Database :
         n(d) = IF cmd = "archive" THEN [out(d) EXCEPT !.archived = @ \cup {CycleOfApp(a)}]
                ELSE [out(d) EXCEPT !.left = @ \cup {CycleOfApp(a)}]
  BY SameNames DEF Serial!Planned
<1>3. \A d \in Serial!Database :
         /\ out(d) \in Serial!Database /\ out(d).cancelled = d.cancelled
         /\ out(d).archived = d.archived /\ out(d).left = d.left
  <2> TAKE d \in Serial!Database
  <2>1. out(d) \in Serial!Database
    BY ExitFacts
  <2>2. Sets(d, out(d), [b \in Apps |-> IF b \in Serial!InCycle(CycleOfApp(a))
                                        THEN ExitStatus(d.status[b]) ELSE d.status[b]], d.offer)
    BY ExitFacts
  <2> HIDE DEF out
  <2> QED BY <2>1, <2>2 DEF Sets
<1>4. /\ Orderly(s, out(s), G)
      /\ \A b \in G : out(s).status[b] \notin EXIT_CASCADE_STATUSES
      /\ \A d \in Serial!Database : Alike(G, s, d) => SameRows(G, s, out(s), d, out(d))
  BY ExitEffect
<1> HIDE DEF out, n, G
<1>5. \A d \in Serial!Database :
         /\ n(d) \in Serial!Database /\ n(d).status = out(d).status /\ n(d).offer = out(d).offer
         /\ n(d).archived = d.archived \cup arch /\ n(d).left = d.left \cup gone
         /\ n(d).cancelled = d.cancelled
  <2> TAKE d \in Serial!Database
  <2>1. /\ out(d) \in Serial!Database /\ out(d).cancelled = d.cancelled
        /\ out(d).archived = d.archived /\ out(d).left = d.left
    BY <1>3
  <2>2. CASE cmd = "archive"
    <3>1. n(d) = [out(d) EXCEPT !.archived = @ \cup {CycleOfApp(a)}]
      BY <1>2, <2>2
    <3> QED BY <1>1, <2>1, <2>2, <3>1 DEF Serial!Database
  <2>3. CASE cmd = "leave"
    <3>1. n(d) = [out(d) EXCEPT !.left = @ \cup {CycleOfApp(a)}]
      BY <1>2, <2>3
    <3> QED BY <1>1, <2>1, <2>3, <3>1 DEF Serial!Database
  <2> QED BY <2>2, <2>3
<1>6. Guarded(cmd, a) = G
  BY DEF Guarded, G
<1>7. Orderly(s, n(s), G) /\ FlagsSet(cmd, a, s, n(s))
  BY <1>4, <1>5 DEF Orderly, FlagsSet
<1>8. \A b \in InCycle(a) : n(s).status[b] \notin EXIT_CASCADE_STATUSES
  BY <1>4, <1>5 DEF G
<1>9. \A d \in Serial!Database : Agrees(cmd, a, s, d) => SameRows(G, s, n(s), d, n(d))
  <2>1. \A d \in Serial!Database : Agrees(cmd, a, s, d) => Alike(G, s, d)
    BY <1>6 DEF Agrees
  <2> QED BY <1>4, <1>5, <2>1 DEF SameRows
<1> QED BY <1>5, <1>6, <1>7, <1>8, <1>9 DEF Sound, n

LEMMA EverySound ==
    ASSUME NEW cmd \in NonRacing, NEW a \in Apps, NEW s \in Serial!Database,
           Serial!Allowed(cmd, a, s)
    PROVE  Sound(cmd, a, s)
<1> DEFINE c == CycleOfApp(a)
           placed(d) == \E b \in Apps : d.offer[b] = "accepted"
<1>1. s.status[a] \in Statuses /\ s.offer[a] \in OfferRows
  BY RowsInDatabase
<1>2. CASE cmd = "accept"
  <2>1. s.status[a] # "none"
    BY <1>2, AllowedWhen
  <2>2. \A d : Serial!Planned(cmd, a, d) = Serial!Accept(d, a)
    BY <1>2 DEF Serial!Planned
  <2> QED BY <1>2, <2>1, <2>2, AcceptSound
<1>3. CASE cmd = "expire"
  <2>1. s.status[a] # "none"
    BY <1>3, AllowedWhen
  <2>2. \A d : Serial!Planned(cmd, a, d) =
           IF placed(d) \/ c \in d.left THEN Serial!Move(d, a, "declined", "declined")
           ELSE Serial!Accept(d, a)
    BY <1>3, AllowedWhen, SameNames DEF Serial!Planned
  <2>3. ASSUME NEW d \in Serial!Database, Serial!Allowed(cmd, a, d), Agrees(cmd, a, s, d)
        PROVE  (placed(d) \/ c \in d.left) <=> (placed(s) \/ c \in s.left)
    <3>1. \A b \in Apps : s.offer[b] = d.offer[b]
      BY <1>3, <2>3, GuardedWhat DEF Agrees, Alike, Acceptance
    <3>2. d.status[a] # "none"
      BY <1>3, <2>3, AllowedWhen
    <3>3. c \in s.left <=> c \in d.left
      BY <1>3, <2>3, <3>2 DEF Agrees, Answers, Acceptance
    <3> QED BY <3>1, <3>3
  <2>4. CASE placed(s) \/ c \in s.left
    <3>1. /\ "declined" \in Statuses \ {"none"} /\ "declined" \in OfferRows
          /\ "declined" \notin EXIT_CASCADE_STATUSES
      BY DEF Statuses, OfferRows, EXIT_CASCADE_STATUSES
    <3>2. Serial!Planned(cmd, a, s) = Serial!Move(s, a, "declined", "declined")
      BY <2>2, <2>4
    <3>3. \A d \in Serial!Database : Serial!Allowed(cmd, a, d) /\ Agrees(cmd, a, s, d) =>
             Serial!Planned(cmd, a, d) = Serial!Move(d, a, "declined", "declined")
      BY <2>2, <2>3, <2>4
    <3>4. cmd \notin {"cancel", "archive", "leave"}
      BY <1>3
    <3> QED BY <2>1, <3>1, <3>2, <3>3, <3>4, MoveSound
  <2>5. CASE ~(placed(s) \/ c \in s.left)
    <3>1. Serial!Planned(cmd, a, s) = Serial!Accept(s, a)
      BY <2>2, <2>5
    <3>2. \A d \in Serial!Database : Serial!Allowed(cmd, a, d) /\ Agrees(cmd, a, s, d) =>
             Serial!Planned(cmd, a, d) = Serial!Accept(d, a)
      BY <2>2, <2>3, <2>5
    <3> QED BY <1>3, <2>1, <3>1, <3>2, AcceptSound
  <2> QED BY <2>4, <2>5
<1>4. ASSUME NEW to \in Statuses \ {"none"}, NEW row \in OfferRows, s.status[a] # "none",
             to \in EXIT_CASCADE_STATUSES => s.status[a] \in EXIT_CASCADE_STATUSES,
             cmd \notin {"cancel", "archive", "leave"},
             Serial!Planned(cmd, a, s) = Serial!Move(s, a, to, row),
             \A d \in Serial!Database : d.offer[a] = s.offer[a] =>
               Serial!Planned(cmd, a, d) = Serial!Move(d, a, to, row)
      PROVE  Sound(cmd, a, s)
  <2>1. \A d \in Serial!Database : Agrees(cmd, a, s, d) => d.offer[a] = s.offer[a]
    BY GuardedWhat DEF Agrees, Alike
  <2>2. \A d \in Serial!Database : Serial!Allowed(cmd, a, d) /\ Agrees(cmd, a, s, d) =>
           Serial!Planned(cmd, a, d) = Serial!Move(d, a, to, row)
    BY <1>4, <2>1
  <2> QED BY <1>4, <2>2, MoveSound
<1>5. CASE cmd \in {"decline", "terminate", "withdraw", "promote", "extend"}
  <2> DEFINE to == CASE cmd = "decline" -> "declined" [] cmd = "terminate" -> "offer_terminated"
                     [] cmd = "withdraw" -> "withdrawn" [] cmd = "promote" -> "pending_offer"
                     [] cmd = "extend" -> "offered"
             row == CASE cmd = "decline" -> "declined" [] cmd = "terminate" -> "terminated"
                      [] cmd \in {"withdraw", "promote"} -> s.offer[a]
                      [] cmd = "extend" -> "open"
  <2>1. to \in Statuses \ {"none"} /\ row \in OfferRows /\ cmd \notin {"cancel", "archive", "leave"}
    BY <1>1, <1>5 DEF Statuses, OfferRows
  <2>2. s.status[a] # "none"
    BY <1>5, AllowedWhen
  <2>3. to \in EXIT_CASCADE_STATUSES => s.status[a] \in EXIT_CASCADE_STATUSES
    <3>1. cmd # "promote" => to \notin EXIT_CASCADE_STATUSES
      BY <1>5 DEF EXIT_CASCADE_STATUSES
    <3>2. cmd = "promote" => s.status[a] = "in_progress"
      BY AllowedWhen
    <3> QED BY <3>1, <3>2 DEF EXIT_CASCADE_STATUSES
  <2>4. \A d \in Serial!Database : d.offer[a] = s.offer[a] =>
           Serial!Planned(cmd, a, d) = Serial!Move(d, a, to, row)
    BY <1>5 DEF Serial!Planned
  <2> HIDE DEF to, row
  <2> QED BY <1>4, <2>1, <2>2, <2>3, <2>4
<1>6. CASE cmd \in {"cancel", "archive", "leave"}
  BY <1>6, CancelSound, ExitSound
<1> QED BY <1>2, <1>3, <1>5, <1>6 DEF NonRacing, Racing, Serial!Commands

\* What a command alone does to the committed rows.
LEMMA EffectFacts ==
    ASSUME NEW t \in Txs, Command[t] \notin Racing, NEW d \in Serial!Database
    PROVE  LET n == Serial!Effect(t, d)  cmd == Command[t]  a == Target[t] IN
           /\ n \in Serial!Database /\ Orderly(d, n, Guarded(cmd, a))
           /\ n = d \/ FlagsSet(cmd, a, d, n)
           /\ Quiet(d) => Quiet(n)
<1> DEFINE n == Serial!Effect(t, d)
           cmd == Command[t]
           a == Target[t]
<1>1. cmd \in NonRacing /\ a \in Apps
  BY DatabaseAssumption DEF NonRacing
<1>2. CASE ~Serial!Allowed(cmd, a, d)
  <2>1. n = d
    BY <1>2 DEF Serial!Effect
  <2>2. Orderly(d, d, Guarded(cmd, a))
    BY DEF Orderly
  <2> QED BY <2>1, <2>2
<1>3. CASE Serial!Allowed(cmd, a, d)
  <2>1. n = Serial!Planned(cmd, a, d)
    BY <1>3 DEF Serial!Effect
  <2>2. Sound(cmd, a, d)
    BY <1>1, <1>3, EverySound
  <2>3. /\ n \in Serial!Database /\ Orderly(d, n, Guarded(cmd, a)) /\ FlagsSet(cmd, a, d, n)
        /\ cmd = "archive" => \A b \in InCycle(a) : n.status[b] \notin EXIT_CASCADE_STATUSES
    BY <2>1, <2>2 DEF Sound
  <2> HIDE DEF n, cmd, a
  <2>4. ASSUME Quiet(d), NEW b \in Apps, CycleOfApp(b) \in n.archived
        PROVE  n.status[b] \notin EXIT_CASCADE_STATUSES
    <3>1. CASE CycleOfApp(b) \in d.archived
      BY <2>3, <2>4, <3>1 DEF Quiet, Orderly
    <3>2. CASE CycleOfApp(b) \notin d.archived
      <4>1. cmd = "archive" /\ CycleOfApp(b) = CycleOfApp(a)
        BY <2>3, <2>4, <3>2 DEF FlagsSet
      <4>2. b \in InCycle(a)
        BY <4>1 DEF InCycle
      <4> QED BY <2>3, <4>1, <4>2
    <3> QED BY <3>1, <3>2
  <2>5. Quiet(d) => Quiet(n)
    BY <2>4 DEF Quiet
  <2> QED BY <2>3, <2>5 DEF n, cmd, a
<1> QED BY <1>2, <1>3

\* Decided on rows that agree with the committed ones, a command commits what it
\* would do alone.
LEMMA Decided ==
    ASSUME NEW t \in Txs, Command[t] \notin Racing, NEW s \in Serial!Database,
           db \in Serial!Database, Agrees(Command[t], Target[t], s, db), Quiet(db)
    PROVE  Overwrite(s, Serial!Effect(t, s)) = Serial!Effect(t, db)
<1> DEFINE cmd == Command[t]
           a == Target[t]
           n == Serial!Effect(t, s)
           m == Serial!Effect(t, db)
           G == Guarded(cmd, a)
<1>1. cmd \in NonRacing /\ a \in Apps
  BY DatabaseAssumption DEF NonRacing
<1>2. G \in SUBSET Apps /\ Alike(G, s, db)
  BY <1>1, GuardedWhat DEF Agrees
<1>3. n \in Serial!Database /\ m \in Serial!Database
  BY EffectFacts
<1>4. Serial!Allowed(cmd, a, s) <=> Serial!Allowed(cmd, a, db)
  BY <1>1, SameAllowed
<1>5. SameRows(G, s, n, db, m) /\ SameFlags(s, n, db, m)
  <2>1. CASE ~Serial!Allowed(cmd, a, s)
    <3>1. n = s /\ m = db
      BY <1>4, <2>1 DEF Serial!Effect
    <3> QED BY <1>2, <3>1 DEF SameRows, SameFlags, Alike
  <2>2. CASE Serial!Allowed(cmd, a, s)
    <3>1. n = Serial!Planned(cmd, a, s) /\ m = Serial!Planned(cmd, a, db)
      BY <1>4, <2>2 DEF Serial!Effect
    <3>2. Sound(cmd, a, s) /\ Sound(cmd, a, db)
      BY <1>1, <1>4, <2>2, EverySound
    <3>3. SameRows(G, s, n, db, m)
      BY <1>4, <2>2, <3>1, <3>2 DEF Sound
    <3>4. FlagsSet(cmd, a, s, n) /\ FlagsSet(cmd, a, db, m)
      BY <3>1, <3>2 DEF Sound
    <3>5. cmd = "cancel" => (JobOf[a] \in s.cancelled <=> JobOf[a] \in db.cancelled)
      BY DEF Agrees, JobCommands
    <3>6. cmd \in {"archive", "leave"} =>
            /\ CycleOfApp(a) \in s.archived <=> CycleOfApp(a) \in db.archived
            /\ CycleOfApp(a) \in s.left <=> CycleOfApp(a) \in db.left
      BY DEF Agrees, CycleCommands
    <3> HIDE DEF n, m, cmd, a
    <3>7. SameFlags(s, n, db, m)
      BY <3>4, <3>5, <3>6 DEF SameFlags, FlagsSet
    <3> QED BY <3>3, <3>7
  <2> QED BY <2>1, <2>2
<1> HIDE DEF n, m, G
<1>6. Overwrite(s, n) = m
  BY <1>2, <1>3, <1>5, OverwriteIs
<1> QED BY <1>6 DEF n, m

-----------------------------------------------------------------------------
(* The commands that read what they have locked are serialized.             *)

\* A lock keeps a row that exists; without `apply` the ones that exist are
\* those of the start.
Locks(t, row) ==
    (row.kind = "app" => row.id \in Apps /\ FirstStatus[row.id] # "none")
      => (row.kind \in {"cycle", "job", "app"} => row \in held[t])

\* Every row that the script has passed is held.
PassedIsHeld(t) ==
    pc[t] \in 1 .. EndOf(t) =>
      \A i \in 1 .. Len(ScriptOf[t]) :
        i < pc[t] /\ ScriptOf[t][i].op = "lock" => Locks(t, ScriptOf[t][i].row)

\* Before its read a transaction has seen nothing, or peeked; at its commit
\* what it has seen still holds.
ReadIsCurrent(t) ==
    /\ pc[t] < EndOf(t) =>
         \/ seen[t] = Unread
         \/ /\ Command[t] = "withdraw" /\ seen[t] \in Serial!Database
            /\ seen[t].archived \subseteq db.archived
    /\ pc[t] = EndOf(t) =>
         seen[t] \in Serial!Database /\ Agrees(Command[t], Target[t], seen[t], db)

RowsKept ==
    \A b \in Apps : /\ db.status[b] = "none" <=> FirstStatus[b] = "none"
                    /\ FirstStatus[b] = "none" => db.offer[b] = "absent"

SerialInv ==
    /\ LockInv
    /\ db \in Serial!Database /\ Quiet(db) /\ RowsKept
    /\ seen = [t \in Txs |-> seen[t]]
    /\ \A t \in Txs : PassedIsHeld(t) /\ ReadIsCurrent(t)

\* A script as its locks and the read behind them.
LEMMA ScriptSplit ==
    ASSUME NEW t \in Txs, Command[t] \notin Racing
    PROVE  \E body \in Seq(Steps) :
             /\ LocksThenReads(Command[t], Target[t], body)
             /\ Len(body) \in Nat /\ Len(ScriptOf[t]) = Len(body) + 1
             /\ EndOf(t) = Len(body) + 2
             /\ \A i \in 1 .. Len(body) : ScriptOf[t][i] = body[i]
             /\ ScriptOf[t][Len(body) + 1] = Step("read", "none", "none")
<1>1. /\ Command[t] \in Serial!Commands \ Racing /\ Target[t] \in Apps
      /\ ScriptOf[t] = Script(Command[t], Target[t])
  BY DatabaseAssumption DEF ScriptOf
<1>2. PICK body : /\ Script(Command[t], Target[t]) = body \o Read
                  /\ LocksThenReads(Command[t], Target[t], body)
  BY <1>1, ScriptShape
<1>3. body \in Seq(Steps) /\ Len(body) \in Nat
  BY <1>2 DEF LocksThenReads
<1>4. Read \in Seq(Steps) /\ Len(Read) = 1 /\ 1 \in 1 .. Len(Read)
      /\ Read[1] = Step("read", "none", "none")
  BY PeekReadFacts
<1>5. /\ Len(body \o Read) = Len(body) + Len(Read)
      /\ \A i \in 1 .. Len(body) : (body \o Read)[i] = body[i]
      /\ \A i \in 1 .. Len(Read) : (body \o Read)[Len(body) + i] = Read[i]
  <2>1. \A q, r \in Seq(Steps) :
           /\ Len(q \o r) = Len(q) + Len(r)
           /\ \A i \in 1 .. Len(q) : (q \o r)[i] = q[i]
           /\ \A i \in 1 .. Len(r) : (q \o r)[Len(q) + i] = r[i]
    OBVIOUS
  <2> QED BY <1>3, <1>4, <2>1
<1>6. ScriptOf[t] = body \o Read
  BY <1>1, <1>2
<1>7. /\ Len(ScriptOf[t]) = Len(body) + 1 /\ EndOf(t) = Len(body) + 2
      /\ ScriptOf[t][Len(body) + 1] = Step("read", "none", "none")
  BY <1>3, <1>4, <1>5, <1>6 DEF EndOf
<1> QED BY <1>2, <1>3, <1>5, <1>6, <1>7

\* What a transaction holds when it is about to commit.
LEMMA HeldAtEnd ==
    ASSUME SerialInv, NEW t \in Txs, Command[t] \notin Racing, pc[t] = EndOf(t)
    PROVE  LET cmd == Command[t]  a == Target[t] IN
           /\ \A b \in Guarded(cmd, a) :
                FirstStatus[b] # "none" => [kind |-> "app", id |-> b] \in held[t]
           /\ cmd \in CycleCommands => [kind |-> "cycle", id |-> CycleOfApp(a)] \in held[t]
           /\ cmd \in JobCommands => [kind |-> "job", id |-> JobOf[a]] \in held[t]
<1> DEFINE cmd == Command[t]
           a == Target[t]
<1>2. PICK body \in Seq(Steps) :
        /\ LocksThenReads(cmd, a, body)
        /\ Len(body) \in Nat /\ Len(ScriptOf[t]) = Len(body) + 1 /\ EndOf(t) = Len(body) + 2
        /\ \A i \in 1 .. Len(body) : ScriptOf[t][i] = body[i]
  BY ScriptSplit
<1>5. pc[t] \in 1 .. EndOf(t) /\ \A i \in 1 .. Len(body) : i < pc[t]
  BY <1>2
<1>6. \A i \in 1 .. Len(body) : body[i].op = "lock" => Locks(t, body[i].row)
  <2>1. PassedIsHeld(t)
    BY DEF SerialInv
  <2>2. \A i \in 1 .. Len(body) : i \in 1 .. Len(ScriptOf[t]) /\ i < pc[t]
    BY <1>2, <1>5
  <2> HIDE DEF cmd, a
  <2> QED BY <1>2, <1>5, <2>1, <2>2 DEF PassedIsHeld
<1>7. \A kind, id : Step("lock", kind, id) \in StepsIn(body) => Locks(t, [kind |-> kind, id |-> id])
  <2> SUFFICES ASSUME NEW kind, NEW id, Step("lock", kind, id) \in StepsIn(body)
               PROVE  Locks(t, [kind |-> kind, id |-> id])
    OBVIOUS
  <2>1. PICK i \in 1 .. Len(body) : body[i] = Step("lock", kind, id)
    BY DEF StepsIn
  <2>2. body[i].op = "lock" /\ body[i].row = [kind |-> kind, id |-> id]
    BY <2>1 DEF Step
  <2> QED BY <1>6, <2>2
<1>8. ASSUME NEW b \in Guarded(cmd, a), FirstStatus[b] # "none"
      PROVE  [kind |-> "app", id |-> b] \in held[t]
  <2>1. Step("lock", "app", b) \in StepsIn(body)
    BY <1>2 DEF LocksThenReads, LocksOf
  <2>2. b \in Apps
    BY <1>8, GuardedWhat, DatabaseAssumption DEF NonRacing
  <2> QED BY <1>7, <1>8, <2>1, <2>2 DEF Locks
<1>9. ASSUME cmd \in CycleCommands PROVE [kind |-> "cycle", id |-> CycleOfApp(a)] \in held[t]
  BY <1>2, <1>7, <1>9 DEF LocksThenReads, Locks
<1>10. ASSUME cmd \in JobCommands PROVE [kind |-> "job", id |-> JobOf[a]] \in held[t]
  BY <1>2, <1>7, <1>10 DEF LocksThenReads, Locks
<1> QED BY <1>8, <1>9, <1>10

\* The steps of a script: locks, for `withdraw` a peek, and the read at the end.
LEMMA ScriptSteps ==
    ASSUME NEW t \in Txs, Command[t] \notin Racing, NEW i \in 1 .. Len(ScriptOf[t])
    PROVE  /\ ScriptOf[t][i].op \in {"lock", "peek", "read"}
           /\ ScriptOf[t][i].op = "peek" => Command[t] = "withdraw"
           /\ ScriptOf[t][i].op = "read" <=> i = Len(ScriptOf[t])
<1>1. PICK body \in Seq(Steps) :
        /\ LocksThenReads(Command[t], Target[t], body)
        /\ Len(body) \in Nat /\ Len(ScriptOf[t]) = Len(body) + 1
        /\ \A k \in 1 .. Len(body) : ScriptOf[t][k] = body[k]
        /\ ScriptOf[t][Len(body) + 1] = Step("read", "none", "none")
  BY ScriptSplit
<1>2. CASE i \in 1 .. Len(body)
  <2>1. body[i] \in StepsIn(body)
    BY <1>2 DEF StepsIn
  <2>2. body[i].op = "lock" \/ (Command[t] = "withdraw" /\ body[i].op = "peek")
    BY <1>1, <2>1 DEF LocksThenReads
  <2> QED BY <1>1, <1>2, <2>2
<1>3. CASE i = Len(body) + 1
  BY <1>1, <1>3 DEF Step
<1> QED BY <1>1, <1>2, <1>3

LEMMA SerialInvInit == Init => SerialInv
<1> SUFFICES ASSUME Init PROVE SerialInv
  OBVIOUS
<1>1. /\ db.status = FirstStatus
      /\ db.offer = [b \in Apps |-> IF FirstStatus[b] = "offered" THEN "open" ELSE "absent"]
      /\ db.archived = {}
      /\ db \in Serial!Database
  BY DatabaseAssumption, SameTable DEF Init, Serial!Init, Serial!Database, Statuses, LiveStatuses
<1>2. Quiet(db) /\ RowsKept
  BY <1>1 DEF Quiet, RowsKept
<1>3. /\ pc = [t \in Txs |-> 0] /\ seen = [t \in Txs |-> Unread]
      /\ \A t \in Txs : EndOf(t) \in Nat /\ EndOf(t) > 0
  BY ScriptsTyped DEF Init, EndOf
<1>4. ASSUME NEW t \in Txs PROVE PassedIsHeld(t) /\ ReadIsCurrent(t)
  BY <1>3 DEF PassedIsHeld, ReadIsCurrent
<1>5. seen = [t \in Txs |-> seen[t]]
  BY <1>3
<1> QED BY <1>1, <1>2, <1>4, <1>5, LockInvInit DEF SerialInv

LEMMA SerialInvBegin ==
    ASSUME SerialInv, NEW t \in Txs, Command[t] \notin Racing, Begin(t) PROVE SerialInv'
<1>1. /\ pc[t] = 0 /\ pc' = [pc EXCEPT ![t] = 1] /\ db' = db /\ held' = held /\ seen' = seen
  BY DEF Begin
<1>2. LockInv' /\ pc \in [Txs -> Nat] /\ \A u \in Txs : EndOf(u) \in Nat /\ EndOf(u) > 0
  BY LockInvBegin, ScriptsTyped DEF SerialInv, LockInv, EndOf
<1>3. pc'[t] = 1 /\ \A u \in Txs : u # t => pc'[u] = pc[u]
  BY <1>1, <1>2
<1>4. ASSUME NEW u \in Txs PROVE PassedIsHeld(u)' /\ ReadIsCurrent(u)'
  <2>1. CASE u # t
    BY <1>1, <1>3, <2>1 DEF SerialInv, PassedIsHeld, ReadIsCurrent, EndOf, Locks
  <2>2. CASE u = t
    <3>1. PassedIsHeld(t)'
      BY <1>3 DEF PassedIsHeld
    <3>2. \/ seen[t] = Unread
          \/ /\ Command[t] = "withdraw" /\ seen[t] \in Serial!Database
             /\ seen[t].archived \subseteq db.archived
      BY <1>1, <1>2 DEF SerialInv, ReadIsCurrent
    <3>3. EndOf(t) > 1
      BY ScriptSplit
    <3> QED BY <1>1, <1>2, <1>3, <2>2, <3>1, <3>2, <3>3 DEF ReadIsCurrent, EndOf
  <2> QED BY <2>1, <2>2
<1> QED BY <1>1, <1>2, <1>4 DEF SerialInv, RowsKept, Quiet

LEMMA SerialInvAcquire ==
    ASSUME SerialInv, NEW t \in Txs, Command[t] \notin Racing, AcquireLock(t) PROVE SerialInv'
<1> DEFINE row == StepOf(t).row
<1>1. /\ Locking(t) /\ pc[t] \in 1 .. EndOf(t) /\ pc[t] < EndOf(t) /\ db' = db /\ seen' = seen
      /\ held' = [held EXCEPT ![t] = @ \cup Wanted(t)] /\ pc' = [pc EXCEPT ![t] = @ + 1]
  BY DEF AcquireLock, Locking, Running
<1>2. LockInv' /\ pc \in [Txs -> Nat] /\ held \in [Txs -> SUBSET Rows]
  BY LockInvAcquire DEF SerialInv, LockInv
<1>3. /\ pc'[t] = pc[t] + 1 /\ held'[t] = held[t] \cup Wanted(t)
      /\ \A u \in Txs : u # t => pc'[u] = pc[u] /\ held'[u] = held[u]
  BY <1>1, <1>2
<1>4. pc[t] \in 1 .. Len(ScriptOf[t]) /\ EndOf(t) = Len(ScriptOf[t]) + 1
  BY <1>1, ScriptsTyped DEF EndOf
<1>5. StepOf(t).op = "lock" /\ pc[t] # Len(ScriptOf[t])
  BY <1>1, <1>4, ScriptSteps DEF Locking, StepOf
<1>6. pc'[t] < EndOf(t)
  BY <1>3, <1>4, <1>5, ScriptsTyped
<1>7. (row.kind = "app" => row.id \in Apps /\ FirstStatus[row.id] # "none")
        => (row.kind \in {"cycle", "job", "app"} => row \in Wanted(t))
  <2>1. row.kind = "app" /\ row.id \in Apps /\ FirstStatus[row.id] # "none"
          => db.status[row.id] # "none"
    BY DEF SerialInv, RowsKept
  <2> QED BY <1>5, <2>1 DEF Wanted
<1>8. ASSUME NEW u \in Txs PROVE PassedIsHeld(u)' /\ ReadIsCurrent(u)'
  <2>1. CASE u # t
    BY <1>1, <1>3, <2>1 DEF SerialInv, PassedIsHeld, ReadIsCurrent, EndOf, Locks
  <2>2. CASE u = t
    <3>1. \A i \in 1 .. Len(ScriptOf[t]) :
            i < pc'[t] /\ ScriptOf[t][i].op = "lock" => Locks(t, ScriptOf[t][i].row)'
      <4> SUFFICES ASSUME NEW i \in 1 .. Len(ScriptOf[t]), i < pc'[t], ScriptOf[t][i].op = "lock"
                   PROVE  Locks(t, ScriptOf[t][i].row)'
        OBVIOUS
      <4>1. CASE i < pc[t]
        <5>1. Locks(t, ScriptOf[t][i].row)
          BY <1>1, <4>1 DEF SerialInv, PassedIsHeld
        <5> QED BY <1>3, <5>1 DEF Locks
      <4>2. CASE i = pc[t]
        <5>1. ScriptOf[t][i].row = row
          BY <4>2 DEF StepOf
        <5> HIDE DEF row
        <5> QED BY <1>3, <1>7, <5>1 DEF Locks
      <4> QED BY <1>3, <1>4, <4>1, <4>2, ScriptsTyped
    <3>2. PassedIsHeld(t)'
      BY <3>1 DEF PassedIsHeld, EndOf
    <3>3. ReadIsCurrent(t)
      BY DEF SerialInv
    <3>4. ReadIsCurrent(t)'
      BY <1>1, <1>6, <3>3, ScriptsTyped DEF ReadIsCurrent, EndOf
    <3> QED BY <2>2, <3>2, <3>4
  <2> QED BY <2>1, <2>2
<1> QED BY <1>1, <1>2, <1>8 DEF SerialInv, RowsKept, Quiet

\* The read refreshes everything but a header that was fetched before.
LEMMA ReadAgrees ==
    ASSUME NEW cmd \in NonRacing, NEW a \in Apps, NEW s \in Serial!Database,
           NEW d \in Serial!Database,
           s.status = d.status, s.offer = d.offer, s.left = d.left,
           s.archived \subseteq d.archived,
           cmd # "withdraw" => s = d
    PROVE  Agrees(cmd, a, s, d)
BY DEF Agrees, Alike, CycleCommands, JobCommands, Answers, Acceptance

LEMMA SerialInvRead ==
    ASSUME SerialInv, NEW t \in Txs, Command[t] \notin Racing, ReadRows(t) PROVE SerialInv'
<1>1. /\ pc[t] \in 1 .. EndOf(t) /\ pc[t] < EndOf(t) /\ db' = db /\ held' = held
      /\ StepOf(t).op \in {"peek", "read"} /\ pc' = [pc EXCEPT ![t] = @ + 1]
      /\ StepOf(t).op = "peek" => seen' = [seen EXCEPT ![t] = db]
      /\ StepOf(t).op = "read" =>
           seen' = [seen EXCEPT ![t] = IF @ = Unread THEN db
                                       ELSE [db EXCEPT !.archived = seen[t].archived,
                                                       !.cancelled = seen[t].cancelled]]
  BY DEF ReadRows, Running
<1>2. LockInv' /\ pc \in [Txs -> Nat] /\ seen = [u \in Txs |-> seen[u]]
  BY LockInvRead DEF SerialInv, LockInv
<1>3. pc'[t] = pc[t] + 1 /\ \A u \in Txs : u # t => pc'[u] = pc[u] /\ seen'[u] = seen[u]
  BY <1>1, <1>2
<1>4. pc[t] \in 1 .. Len(ScriptOf[t]) /\ EndOf(t) = Len(ScriptOf[t]) + 1
      /\ Len(ScriptOf[t]) \in Nat
  BY <1>1, ScriptsTyped DEF EndOf
<1>5. /\ StepOf(t).op = "peek" => Command[t] = "withdraw"
      /\ StepOf(t).op = "read" <=> pc[t] = Len(ScriptOf[t])
  BY <1>4, ScriptSteps DEF StepOf
<1>6. seen' = [u \in Txs |-> seen'[u]]
  BY <1>1, <1>2
<1>7. PassedIsHeld(t)'
  <2>1. \A i \in 1 .. Len(ScriptOf[t]) :
          i < pc[t] /\ ScriptOf[t][i].op = "lock" => Locks(t, ScriptOf[t][i].row)
    BY <1>1 DEF SerialInv, PassedIsHeld
  <2>2. \A i \in 1 .. Len(ScriptOf[t]) : i < pc'[t] /\ ScriptOf[t][i].op = "lock" => i < pc[t]
    <3>1. ScriptOf[t][pc[t]].op # "lock"
      BY <1>1 DEF StepOf
    <3> QED BY <1>3, <1>4, <3>1
  <2> QED BY <1>1, <2>1, <2>2 DEF PassedIsHeld, Locks, EndOf
<1>8. ReadIsCurrent(t)'
  <2>1. db \in Serial!Database /\ ReadIsCurrent(t)
    BY DEF SerialInv
  <2>2. CASE StepOf(t).op = "peek"
    <3>1. seen'[t] = db /\ pc'[t] < EndOf(t) /\ Command[t] = "withdraw"
      BY <1>1, <1>2, <1>3, <1>4, <1>5, <2>2
    <3> QED BY <1>1, <1>3, <1>4, <2>1, <3>1 DEF ReadIsCurrent, EndOf
  <2>3. CASE StepOf(t).op = "read"
    <3>1. pc'[t] = EndOf(t)
      BY <1>3, <1>4, <1>5, <2>3
    <3>2. seen'[t] = IF seen[t] = Unread THEN db
                     ELSE [db EXCEPT !.archived = seen[t].archived,
                                     !.cancelled = seen[t].cancelled]
      BY <1>1, <1>2, <2>3
    <3>3. \/ seen[t] = Unread
          \/ /\ Command[t] = "withdraw" /\ seen[t] \in Serial!Database
             /\ seen[t].archived \subseteq db.archived
      BY <1>1, <2>1 DEF ReadIsCurrent
    <3>4. /\ seen'[t] \in Serial!Database
          /\ seen'[t].status = db.status /\ seen'[t].offer = db.offer /\ seen'[t].left = db.left
          /\ seen'[t].archived \subseteq db.archived
          /\ Command[t] # "withdraw" => seen'[t] = db
      <4>1. CASE seen[t] = Unread
        BY <2>1, <3>2, <4>1
      <4>2. CASE seen[t] # Unread
        <5> DEFINE old == seen[t]
                   new == [db EXCEPT !.archived = old.archived, !.cancelled = old.cancelled]
        <5>1. /\ seen'[t] = new /\ Command[t] = "withdraw" /\ old \in Serial!Database
              /\ old.archived \subseteq db.archived
          BY <3>2, <3>3, <4>2
        <5> HIDE DEF old
        <5>2. /\ new \in Serial!Database /\ new.status = db.status /\ new.offer = db.offer
              /\ new.left = db.left /\ new.archived = old.archived
          BY <2>1, <5>1 DEF Serial!Database
        <5> HIDE DEF new
        <5> QED BY <5>1, <5>2
      <4> QED BY <4>1, <4>2
    <3>5. Command[t] \in NonRacing /\ Target[t] \in Apps
      BY DatabaseAssumption DEF NonRacing
    <3>6. Agrees(Command[t], Target[t], seen'[t], db)
      BY <2>1, <3>4, <3>5, ReadAgrees
    <3>7. Agrees(Command[t], Target[t], seen[t], db)'
      BY <1>1, <3>6
    <3> QED BY <1>1, <1>4, <3>1, <3>4, <3>7 DEF ReadIsCurrent, EndOf
  <2> QED BY <1>1, <2>2, <2>3
<1>9. ASSUME NEW u \in Txs, u # t PROVE PassedIsHeld(u)' /\ ReadIsCurrent(u)'
  BY <1>1, <1>3, <1>9 DEF SerialInv, PassedIsHeld, ReadIsCurrent, EndOf, Locks, Agrees, Alike
<1> QED BY <1>1, <1>2, <1>6, <1>7, <1>8, <1>9 DEF SerialInv, RowsKept, Quiet

LEMMA Committed ==
    ASSUME SerialInv, NEW t \in Txs, Command[t] \notin Racing, Commit(t)
    PROVE  /\ db' = Serial!Effect(t, db) /\ pc[t] = EndOf(t)
           /\ db' \in Serial!Database /\ Quiet(db)'
           /\ Orderly(db, db', Guarded(Command[t], Target[t]))
           /\ db' = db \/ FlagsSet(Command[t], Target[t], db, db')
<1>1. pc[t] = EndOf(t) /\ db' = Overwrite(seen[t], Serial!Effect(t, seen[t]))
  BY DEF Commit
<1>2. /\ seen[t] \in Serial!Database /\ Agrees(Command[t], Target[t], seen[t], db)
      /\ db \in Serial!Database /\ Quiet(db)
  BY <1>1 DEF SerialInv, ReadIsCurrent
<1>3. db' = Serial!Effect(t, db)
  BY <1>1, <1>2, Decided
<1>4. LET n == Serial!Effect(t, db) IN
      /\ n \in Serial!Database /\ Orderly(db, n, Guarded(Command[t], Target[t]))
      /\ n = db \/ FlagsSet(Command[t], Target[t], db, n)
      /\ Quiet(n)
  BY <1>2, EffectFacts
<1>5. Quiet(db)'
  BY <1>3, <1>4 DEF Quiet
<1> QED BY <1>1, <1>3, <1>4, <1>5

\* Two transactions at their commits share no locked row, so what one of them
\* commits is nothing that the other has decided on.
LEMMA StaysCurrent ==
    ASSUME SerialInv, NEW t \in Txs, NEW u \in Txs, u # t,
           Command[t] \notin Racing, Command[u] \notin Racing, Commit(t), pc[u] = EndOf(u)
    PROVE  Agrees(Command[u], Target[u], seen[u], db')
<1> DEFINE s == seen[u]
           cmd == Command[t]
           a == Target[t]
           cmd2 == Command[u]
           a2 == Target[u]
           appRow(b) == [kind |-> "app", id |-> b]
<1>1. Agrees(cmd2, a2, s, db) /\ RowsKept /\ db \in Serial!Database
  BY DEF SerialInv, ReadIsCurrent
<1>2. /\ pc[t] = EndOf(t) /\ Orderly(db, db', Guarded(cmd, a))
      /\ db' = db \/ FlagsSet(cmd, a, db, db')
  BY Committed
<1>3. held[t] \cap held[u] = {}
  BY DEF SerialInv, LockInv
<1>4. /\ \A b \in Guarded(cmd, a) : FirstStatus[b] # "none" => appRow(b) \in held[t]
      /\ cmd \in CycleCommands => [kind |-> "cycle", id |-> CycleOfApp(a)] \in held[t]
      /\ cmd \in JobCommands => [kind |-> "job", id |-> JobOf[a]] \in held[t]
  BY <1>2, HeldAtEnd
<1>5. /\ \A b \in Guarded(cmd2, a2) : FirstStatus[b] # "none" => appRow(b) \in held[u]
      /\ cmd2 \in CycleCommands => [kind |-> "cycle", id |-> CycleOfApp(a2)] \in held[u]
      /\ cmd2 \in JobCommands => [kind |-> "job", id |-> JobOf[a2]] \in held[u]
  BY HeldAtEnd
<1>6. a \in Apps /\ a2 \in Apps /\ cmd \in NonRacing /\ cmd2 \in NonRacing
  BY DatabaseAssumption DEF NonRacing
<1>7. Guarded(cmd2, a2) \in SUBSET Apps /\ a2 \in Guarded(cmd2, a2)
  BY <1>6, GuardedWhat
<1>8. cmd \in {"archive", "leave"} => Guarded(cmd, a) = InCycle(a) /\ cmd \in CycleCommands
  BY DEF Guarded, CycleCommands
<1>9. cmd = "cancel" => cmd \in JobCommands
  BY DEF JobCommands
<1> HIDE DEF s, cmd, a, cmd2, a2, appRow
<1>10. \A b \in Guarded(cmd2, a2) : db'.status[b] = db.status[b] /\ db'.offer[b] = db.offer[b]
  <2> SUFFICES ASSUME NEW b \in Guarded(cmd2, a2)
               PROVE  db'.status[b] = db.status[b] /\ db'.offer[b] = db.offer[b]
    OBVIOUS
  <2>1. b \in Apps
    BY <1>7
  <2>2. CASE b \notin Guarded(cmd, a)
    BY <1>2, <2>1, <2>2 DEF Orderly
  <2>3. CASE FirstStatus[b] = "none"
    BY <1>1, <1>2, <2>1, <2>3 DEF Orderly, RowsKept
  <2>4. CASE b \in Guarded(cmd, a) /\ FirstStatus[b] # "none"
    BY <1>3, <1>4, <1>5, <2>4
  <2> QED BY <2>2, <2>3, <2>4
<1>11. Alike(Guarded(cmd2, a2), s, db')
  BY <1>1, <1>10 DEF Agrees, Alike
<1>12. s.archived \subseteq db'.archived
  BY <1>1, <1>2 DEF Agrees, FlagsSet
<1>13. ASSUME cmd2 \in CycleCommands \/ (cmd2 \in Answers /\ db'.status[a2] # "none")
       PROVE  /\ CycleOfApp(a2) \in s.archived <=> CycleOfApp(a2) \in db'.archived
              /\ CycleOfApp(a2) \in s.left <=> CycleOfApp(a2) \in db'.left
  <2>1. db.status[a2] = db'.status[a2]
    BY <1>7, <1>10
  <2>2. /\ CycleOfApp(a2) \in s.archived <=> CycleOfApp(a2) \in db.archived
        /\ CycleOfApp(a2) \in s.left <=> CycleOfApp(a2) \in db.left
    BY <1>1, <1>13, <2>1 DEF Agrees
  <2>3. cmd \in {"archive", "leave"} => CycleOfApp(a) # CycleOfApp(a2)
    <3> SUFFICES ASSUME cmd \in {"archive", "leave"}, CycleOfApp(a) = CycleOfApp(a2) PROVE FALSE
      OBVIOUS
    <3>1. CASE cmd2 \in CycleCommands
      BY <1>3, <1>4, <1>5, <1>8, <3>1
    <3>2. CASE db'.status[a2] # "none"
      <4>1. FirstStatus[a2] # "none"
        BY <1>1, <1>6, <2>1, <3>2 DEF RowsKept
      <4>2. a2 \in InCycle(a)
        BY <1>6 DEF InCycle
      <4> QED BY <1>3, <1>4, <1>5, <1>7, <1>8, <4>1, <4>2
    <3> QED BY <1>13, <3>1, <3>2
  <2>4. /\ CycleOfApp(a2) \in db.archived <=> CycleOfApp(a2) \in db'.archived
        /\ CycleOfApp(a2) \in db.left <=> CycleOfApp(a2) \in db'.left
    BY <1>2, <2>3 DEF FlagsSet
  <2> QED BY <2>2, <2>4
<1>14. ASSUME cmd2 \in JobCommands
       PROVE  JobOf[a2] \in s.cancelled <=> JobOf[a2] \in db'.cancelled
  <2>1. JobOf[a2] \in s.cancelled <=> JobOf[a2] \in db.cancelled
    BY <1>1, <1>14 DEF Agrees
  <2>2. cmd = "cancel" => JobOf[a] # JobOf[a2]
    BY <1>3, <1>4, <1>5, <1>9, <1>14
  <2>3. JobOf[a2] \in db.cancelled <=> JobOf[a2] \in db'.cancelled
    BY <1>2, <2>2 DEF FlagsSet
  <2> QED BY <2>1, <2>3
<1>15. Agrees(cmd2, a2, s, db')
  BY <1>11, <1>12, <1>13, <1>14 DEF Agrees
<1> QED BY <1>15 DEF cmd2, a2, s

LEMMA SerialInvCommit ==
    ASSUME SerialInv, \A u \in Txs : Command[u] \notin Racing, NEW t \in Txs, Commit(t)
    PROVE  SerialInv'
<1>1. /\ pc' = [pc EXCEPT ![t] = EndOf(t) + 1] /\ held' = [held EXCEPT ![t] = {}]
      /\ seen' = [seen EXCEPT ![t] = Unread] /\ End(t)
  BY DEF Commit, End
<1>2. LockInv' /\ pc \in [Txs -> Nat] /\ held \in [Txs -> SUBSET Rows]
      /\ seen = [u \in Txs |-> seen[u]] /\ EndOf(t) \in Nat
  BY <1>1, LockInvEnd, ScriptsTyped DEF SerialInv, LockInv
<1>3. /\ pc'[t] = EndOf(t) + 1 /\ seen' = [u \in Txs |-> seen'[u]]
      /\ \A u \in Txs : u # t => pc'[u] = pc[u] /\ seen'[u] = seen[u] /\ held'[u] = held[u]
  BY <1>1, <1>2
<1>4. /\ db' \in Serial!Database /\ Quiet(db)'
      /\ Orderly(db, db', Guarded(Command[t], Target[t])) /\ db.archived \subseteq db'.archived
  BY Committed DEF FlagsSet
<1>5. RowsKept'
  BY <1>4 DEF SerialInv, RowsKept, Orderly
<1>6. ASSUME NEW u \in Txs PROVE PassedIsHeld(u)' /\ ReadIsCurrent(u)'
  <2>1. CASE u = t
    BY <1>2, <1>3, <2>1 DEF PassedIsHeld, ReadIsCurrent, EndOf
  <2>2. CASE u # t
    <3>1. PassedIsHeld(u)'
      BY <1>3, <2>2 DEF SerialInv, PassedIsHeld, EndOf, Locks
    <3>2. ReadIsCurrent(u)
      BY DEF SerialInv
    <3>3. ASSUME pc[u] < EndOf(u)
          PROVE  \/ seen[u] = Unread
                 \/ /\ Command[u] = "withdraw" /\ seen[u] \in Serial!Database
                    /\ seen[u].archived \subseteq db'.archived
      BY <1>4, <3>2, <3>3 DEF ReadIsCurrent
    <3>4. ASSUME pc[u] = EndOf(u)
          PROVE  seen[u] \in Serial!Database /\ Agrees(Command[u], Target[u], seen[u], db')
      BY <2>2, <3>2, <3>4, StaysCurrent DEF ReadIsCurrent
    <3>5. ASSUME pc[u] = EndOf(u) PROVE Agrees(Command[u], Target[u], seen[u], db)'
      BY <1>3, <2>2, <3>4, <3>5
    <3>6. ReadIsCurrent(u)'
      BY <1>3, <2>2, <3>3, <3>4, <3>5 DEF ReadIsCurrent, EndOf
    <3> QED BY <3>1, <3>6
  <2> QED BY <2>1, <2>2
<1> QED BY <1>2, <1>3, <1>4, <1>5, <1>6 DEF SerialInv

LEMMA SerialInvCancel ==
    ASSUME SerialInv, NEW t \in Txs, CancelVictim(t) PROVE SerialInv'
<1>1. /\ pc' = [pc EXCEPT ![t] = EndOf(t) + 1] /\ held' = [held EXCEPT ![t] = {}]
      /\ seen' = [seen EXCEPT ![t] = Unread] /\ End(t) /\ db' = db
  BY DEF CancelVictim, End
<1>2. LockInv' /\ pc \in [Txs -> Nat] /\ held \in [Txs -> SUBSET Rows]
      /\ seen = [u \in Txs |-> seen[u]] /\ EndOf(t) \in Nat
  BY <1>1, LockInvEnd, ScriptsTyped DEF SerialInv, LockInv
<1>3. /\ pc'[t] = EndOf(t) + 1 /\ seen' = [u \in Txs |-> seen'[u]]
      /\ \A u \in Txs : u # t => pc'[u] = pc[u] /\ seen'[u] = seen[u] /\ held'[u] = held[u]
  BY <1>1, <1>2
<1>4. ASSUME NEW u \in Txs PROVE PassedIsHeld(u)' /\ ReadIsCurrent(u)'
  <2>1. CASE u = t
    BY <1>2, <1>3, <2>1 DEF PassedIsHeld, ReadIsCurrent, EndOf
  <2>2. CASE u # t
    BY <1>1, <1>3, <2>2 DEF SerialInv, PassedIsHeld, ReadIsCurrent, EndOf, Locks, Agrees, Alike
  <2> QED BY <2>1, <2>2
<1> QED BY <1>1, <1>2, <1>3, <1>4 DEF SerialInv, RowsKept, Quiet

LEMMA SerialInvStep ==
    ASSUME \A u \in Txs : Command[u] \notin Racing
    PROVE  SerialInv /\ [Next]_vars => SerialInv'
<1>1. ASSUME SerialInv, UNCHANGED vars PROVE SerialInv'
  BY <1>1, LockInvStep
     DEF vars, SerialInv, RowsKept, Quiet, PassedIsHeld, ReadIsCurrent, EndOf, Locks, Agrees, Alike
<1>2. ASSUME SerialInv, NEW t \in Txs,
             Begin(t) \/ AcquireLock(t) \/ ReadRows(t) \/ Commit(t) \/ CancelVictim(t)
      PROVE  SerialInv'
  BY <1>2, SerialInvBegin, SerialInvAcquire, SerialInvRead, SerialInvCommit, SerialInvCancel
<1> QED BY <1>1, <1>2 DEF Next

\* BEHAVIOR "Concurrency": the commands whose loaders lock every row they decide
\* on are serialized: however their transactions interleave, and whichever of
\* them the deadlock detector cancels, each commits what its command would have
\* done alone on the committed rows of that moment.
THEOREM LockedCommandsSerialized ==
    ASSUME \A t \in Txs : Command[t] \notin Racing
    PROVE  Spec => Serialized
<1>1. Init => Serial!Init
  BY DEF Init
<1>2. SerialInv /\ [Next]_vars => [Serial!Next]_db
  <2>1. ASSUME SerialInv, NEW t \in Txs, Commit(t) PROVE Serial!Next
    BY <2>1, Committed DEF Serial!Next, Serial!Run
  <2>2. ASSUME NEW t \in Txs, Begin(t) \/ AcquireLock(t) \/ ReadRows(t) \/ CancelVictim(t)
        PROVE  db' = db
    BY <2>2 DEF Begin, AcquireLock, ReadRows, CancelVictim
  <2> QED BY <2>1, <2>2 DEF Next, vars
<1>3. SerialInv /\ [Next]_vars => SerialInv'
  BY SerialInvStep
<1> QED BY <1>1, <1>2, <1>3, SerialInvInit, PTL DEF Spec, Serialized, Serial!Spec

=============================================================================
