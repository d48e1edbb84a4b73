------------------------ MODULE RoundPipelineProofs ------------------------
(***************************************************************************)
(* What holds of RoundPipeline for every number of applications and        *)
(* rounds, every policy and every bound; first, what the rules of          *)
(* Discipline keep, for records and thresholds of any size.                *)
(***************************************************************************)
EXTENDS RoundPipeline, FiniteSetTheorems, SequenceTheorems, TLAPS

-----------------------------------------------------------------------------
(* Discipline: types, the sources of strikes, and what is consumed already. *)

LEMMA FunctionIsSequence ==
    ASSUME NEW S, NEW n \in Nat, NEW f \in [1..n -> S]
    PROVE  f \in Seq(S) /\ Len(f) = n /\ DOMAIN f = 1..n
  OBVIOUS

LEMMA FreeFinite ==
    ASSUME NEW Source, NEW d \in Records(Source)
    PROVE  /\ IsFiniteSet(Free(d)) /\ Cardinality(Free(d)) \in Nat
           /\ \A i \in DOMAIN d.strikes : Rank(d, i) \in Nat
  <1>1. IsFiniteSet(DOMAIN d.strikes)
    <2>1. d.strikes \in Seq(Strikes(Source))
      BY DEF Records
    <2>2. DOMAIN d.strikes = 1..Len(d.strikes) /\ Len(d.strikes) \in Nat
      BY <2>1
    <2> QED BY <2>2, FS_Interval
  <1>2. IsFiniteSet(Free(d))
    BY <1>1, FS_Subset DEF Free
  <1>3. ASSUME NEW i \in DOMAIN d.strikes
        PROVE  Rank(d, i) \in Nat
    <2>1. IsFiniteSet({k \in Free(d) : k <= i})
      BY <1>2, FS_Subset
    <2> QED BY <2>1, FS_CardinalityType DEF Rank
  <1> QED BY <1>2, <1>3, FS_CardinalityType

\* A conversion neither adds nor drops strikes, keeps what each was given for,
\* consumes free ones only, and creates penalties without touching one.
LEMMA MaybeConvertKeeps ==
    ASSUME NEW Source, NEW d \in Records(Source), NEW limit \in Nat
    PROVE  LET e == MaybeConvert(d, limit) IN
           /\ e \in Records(Source)
           /\ DOMAIN e.strikes = DOMAIN d.strikes
           /\ \A i \in DOMAIN d.strikes :
                 /\ e.strikes[i].by = d.strikes[i].by
                 /\ i \notin Free(d) => e.strikes[i] = d.strikes[i]
           /\ Len(d.penalties) <= Len(e.penalties)
           /\ \A p \in DOMAIN d.penalties : e.penalties[p] = d.penalties[p]
  <1> DEFINE groups == IF limit = 0 THEN 0 ELSE Cardinality(Free(d)) \div limit
             group(i) == (Rank(d, i) - 1) \div limit + 1
             struck(i) == i \in Free(d) /\ Rank(d, i) <= groups * limit
             strikes == [i \in DOMAIN d.strikes |->
                            IF struck(i)
                            THEN [d.strikes[i] EXCEPT !.penalty = Len(d.penalties) + group(i)]
                            ELSE d.strikes[i]]
             created == [g \in 1..groups |-> Penalty(TRUE)]
  <1>1. MaybeConvert(d, limit) = [strikes |-> strikes, penalties |-> d.penalties \o created]
    BY DEF MaybeConvert
  <1>2. /\ d.strikes \in Seq(Strikes(Source)) /\ d.penalties \in Seq(Penalties)
        /\ DOMAIN d.strikes = 1..Len(d.strikes) /\ Len(d.strikes) \in Nat
    BY DEF Records
  <1>3. groups \in Nat
    BY FreeFinite
  <1>4. created \in Seq(Penalties) /\ Len(created) = groups
    <2>1. Penalty(TRUE) \in Penalties
      BY DEF Penalty, Penalties
    <2>2. created \in [1..groups -> Penalties]
      BY <2>1
    <2> HIDE DEF groups, created
    <2> QED BY <1>3, <2>2, FunctionIsSequence
  <1>5. /\ d.penalties \o created \in Seq(Penalties)
        /\ Len(d.penalties) <= Len(d.penalties \o created)
        /\ \A p \in DOMAIN d.penalties : (d.penalties \o created)[p] = d.penalties[p]
    <2> HIDE DEF created, groups
    <2> QED BY <1>2, <1>3, <1>4
  <1>6. ASSUME NEW i \in DOMAIN d.strikes
        PROVE  strikes[i] \in Strikes(Source) /\ strikes[i].by = d.strikes[i].by
    <2>1. d.strikes[i] \in Strikes(Source)
      BY <1>2
    <2>2. CASE struck(i)
      <3>1. Rank(d, i) \in Nat \ {0}
        <4>1. i \in {k \in Free(d) : k <= i}
          BY <2>2, <1>2
        <4>2. IsFiniteSet({k \in Free(d) : k <= i})
          BY FreeFinite, FS_Subset
        <4> QED BY <4>1, <4>2, FS_EmptySet, FreeFinite DEF Rank
      <3>2. limit # 0
        BY <2>2, <3>1
      <3>3. group(i) \in Nat
        <4> DEFINE n == Rank(d, i) - 1
        <4>1. n \in Nat
          BY <3>1
        <4> HIDE DEF n
        <4>2. n \div limit \in Nat
          BY <4>1, <3>2
        <4> QED BY <4>2 DEF n
      <3>4. Len(d.penalties) + group(i) \in Nat
        BY <3>3, <1>2
      <3> HIDE DEF group
      <3> QED BY <2>1, <2>2, <3>4 DEF Strikes
    <2>3. CASE ~struck(i)
      BY <2>1, <2>3
    <2> QED BY <2>2, <2>3
  <1>7. strikes \in Seq(Strikes(Source)) /\ DOMAIN strikes = DOMAIN d.strikes
    <2> HIDE DEF struck, group, groups
    <2>1. strikes \in [1..Len(d.strikes) -> Strikes(Source)]
      BY <1>2, <1>6
    <2> QED BY <1>2, <2>1, FunctionIsSequence
  <1>8. \A i \in DOMAIN d.strikes : i \notin Free(d) => strikes[i] = d.strikes[i]
    OBVIOUS
  <1> HIDE DEF strikes, created
  <1> QED BY <1>1, <1>5, <1>6, <1>7, <1>8 DEF Records

\* The strike an award adds, before anything is converted.
Given(d, by) == [d EXCEPT !.strikes = Append(@, Strike(by))]

LEMMA AwardGives ==
    ASSUME NEW Source, NEW d \in Records(Source), NEW by \in Source, NEW limit \in Nat
    PROVE  LET n == Len(d.strikes) IN
           /\ AwardStrikes(d, by, limit) = MaybeConvert(Given(d, by), limit)
           /\ Given(d, by) \in Records(Source)
           /\ Given(d, by).penalties = d.penalties
           /\ DOMAIN d.strikes = 1..n /\ n \in Nat
           /\ DOMAIN Given(d, by).strikes = 1..(n + 1)
           /\ Given(d, by).strikes[n + 1] = Strike(by)
           /\ \A i \in 1..n : Given(d, by).strikes[i] = d.strikes[i]
  <1> DEFINE n == Len(d.strikes)
             given == Given(d, by)
  <1>1. /\ d.strikes \in Seq(Strikes(Source)) /\ DOMAIN d.strikes = 1..n /\ n \in Nat
        /\ d = [strikes |-> d.strikes, penalties |-> d.penalties]
    BY DEF Records
  <1>2. Strike(by) \in Strikes(Source)
    BY DEF Strike, Strikes
  <1>3. /\ given \in Records(Source) /\ given.penalties = d.penalties
        /\ given.strikes = Append(d.strikes, Strike(by))
    <2> DEFINE longer == Append(d.strikes, Strike(by))
    <2>1. longer \in Seq(Strikes(Source)) /\ d.penalties \in Seq(Penalties)
      BY <1>1, <1>2 DEF Records
    <2>2. given = [strikes |-> longer, penalties |-> d.penalties]
      <3>1. d = [strikes |-> d.strikes, penalties |-> d.penalties]
        BY <1>1
      <3> HIDE DEF n
      <3> QED BY <3>1 DEF Given
    <2> HIDE DEF longer, given
    <2> QED BY <2>1, <2>2 DEF Records, longer
  <1>4. /\ DOMAIN given.strikes = 1..(n + 1)
        /\ given.strikes[n + 1] = Strike(by)
        /\ \A i \in 1..n : given.strikes[i] = d.strikes[i]
    <2> HIDE DEF given
    <2> QED BY <1>1, <1>2, <1>3
  <1>5. AwardStrikes(d, by, limit) = MaybeConvert(given, limit)
    BY DEF AwardStrikes, Given
  <1> QED BY <1>1, <1>3, <1>4, <1>5

\* An award appends one strike; what was consumed stays consumed.
LEMMA AwardKeeps ==
    ASSUME NEW Source, NEW d \in Records(Source), NEW by \in Source, NEW limit \in Nat
    PROVE  LET e == AwardStrikes(d, by, limit)
               n == Len(d.strikes)
           IN /\ e \in Records(Source)
              /\ DOMAIN e.strikes = 1..(n + 1)
              /\ e.strikes[n + 1].by = by
              /\ \A i \in DOMAIN d.strikes :
                    /\ i \in 1..n
                    /\ e.strikes[i].by = d.strikes[i].by
                    /\ d.strikes[i].penalty # 0 => e.strikes[i] = d.strikes[i]
  <1> DEFINE n == Len(d.strikes)
             given == Given(d, by)
  <1>1. /\ AwardStrikes(d, by, limit) = MaybeConvert(given, limit)
        /\ given \in Records(Source) /\ DOMAIN d.strikes = 1..n /\ n \in Nat
        /\ DOMAIN given.strikes = 1..(n + 1)
        /\ given.strikes[n + 1] = Strike(by)
        /\ \A i \in 1..n : given.strikes[i] = d.strikes[i]
    BY AwardGives
  <1>2. Strike(by).by = by
    BY DEF Strike
  <1> HIDE DEF n, given
  <1>3. \A i \in 1..n : d.strikes[i].penalty # 0 => i \notin Free(given)
    BY <1>1 DEF Free
  <1>4. /\ n + 1 \in 1..(n + 1)
        /\ \A i \in 1..n : i \in 1..(n + 1)
    BY <1>1
  <1>5. LET e == MaybeConvert(given, limit) IN
        /\ e \in Records(Source)
        /\ DOMAIN e.strikes = DOMAIN given.strikes
        /\ \A i \in DOMAIN given.strikes :
              /\ e.strikes[i].by = given.strikes[i].by
              /\ i \notin Free(given) => e.strikes[i] = given.strikes[i]
    BY <1>1, MaybeConvertKeeps
  <1> QED BY <1>1, <1>2, <1>3, <1>4, <1>5 DEF n

\* What a revocation leaves before anything is converted again.
Freed(d, r, limit) ==
    LET q == d.strikes[r].penalty
        gone == Dissolves(d, q, r, limit)
    IN [strikes |-> [k \in DOMAIN d.strikes |->
                        [d.strikes[k] EXCEPT
                            !.active = @ /\ k # r,
                            !.penalty = IF gone /\ @ = q THEN 0 ELSE @]],
        penalties |-> IF gone THEN [d.penalties EXCEPT ![q].active = FALSE]
                      ELSE d.penalties]

\* What becomes of one of the strikes then.
FreedStrike(d, r, limit, k) ==
    LET q == d.strikes[r].penalty
        gone == Dissolves(d, q, r, limit)
        strike == Freed(d, r, limit).strikes[k]
    IN /\ strike.by = d.strikes[k].by
       /\ strike.active <=> d.strikes[k].active /\ k # r
       /\ gone /\ d.strikes[k].penalty = q => strike.penalty = 0
       /\ ~gone \/ d.strikes[k].penalty # q => strike.penalty = d.strikes[k].penalty

LEMMA RevokeFrees ==
    ASSUME NEW Source, NEW d \in Records(Source), NEW limit \in Nat,
           NEW r \in DOMAIN d.strikes
    PROVE  /\ RecomputeAfterRevoke(d, r, limit) = MaybeConvert(Freed(d, r, limit), limit)
           /\ Freed(d, r, limit) \in Records(Source)
           /\ \A k \in DOMAIN d.strikes : FreedStrike(d, r, limit, k)
           /\ Dissolves(d, d.strikes[r].penalty, r, limit) =>
                 Freed(d, r, limit).penalties =
                    [d.penalties EXCEPT ![d.strikes[r].penalty].active = FALSE]
           /\ ~Dissolves(d, d.strikes[r].penalty, r, limit) =>
                 Freed(d, r, limit).penalties = d.penalties
  <1> DEFINE q == d.strikes[r].penalty
             gone == Dissolves(d, q, r, limit)
             strikes == [k \in DOMAIN d.strikes |->
                            [d.strikes[k] EXCEPT
                                !.active = @ /\ k # r,
                                !.penalty = IF gone /\ @ = q THEN 0 ELSE @]]
             penalties == IF gone THEN [d.penalties EXCEPT ![q].active = FALSE]
                          ELSE d.penalties
             freed == [strikes |-> strikes, penalties |-> penalties]
  <1>1. /\ d.strikes \in Seq(Strikes(Source)) /\ d.penalties \in Seq(Penalties)
        /\ DOMAIN d.strikes = 1..Len(d.strikes) /\ Len(d.strikes) \in Nat
        /\ DOMAIN d.penalties = 1..Len(d.penalties) /\ Len(d.penalties) \in Nat
    BY DEF Records
  <1>2. ASSUME NEW k \in DOMAIN d.strikes
        PROVE  /\ strikes[k] \in Strikes(Source)
               /\ strikes[k].by = d.strikes[k].by
               /\ strikes[k].active <=> d.strikes[k].active /\ k # r
               /\ strikes[k].penalty = IF gone /\ d.strikes[k].penalty = q THEN 0
                                       ELSE d.strikes[k].penalty
    <2>1. d.strikes[k] \in Strikes(Source)
      BY <1>1
    <2> HIDE DEF gone
    <2> QED BY <2>1 DEF Strikes
  <1>3. strikes \in Seq(Strikes(Source)) /\ DOMAIN strikes = DOMAIN d.strikes
    <2>1. DOMAIN strikes = 1..Len(d.strikes)
      BY <1>1
    <2>2. strikes \in [1..Len(d.strikes) -> Strikes(Source)]
      <3> HIDE DEF gone, q
      <3> QED BY <1>1, <1>2, <2>1
    <2> HIDE DEF strikes
    <2> QED BY <1>1, <2>1, <2>2, FunctionIsSequence
  <1>4. penalties \in Seq(Penalties)
    <2> DEFINE n == Len(d.penalties)
    <2>1. d.penalties \in [1..n -> Penalties]
      BY <1>1
    <2>2. [d.penalties EXCEPT ![q].active = FALSE] \in [1..n -> Penalties]
      BY <2>1 DEF Penalties
    <2> HIDE DEF gone, q
    <2>3. penalties \in [1..n -> Penalties]
      BY <2>1, <2>2
    <2> HIDE DEF penalties, n
    <2> QED BY <1>1, <2>3, FunctionIsSequence DEF n
  <1>5. freed = Freed(d, r, limit)
    BY DEF Freed
  <1>6. freed \in Records(Source) /\ freed.strikes = strikes /\ freed.penalties = penalties
    <2> HIDE DEF strikes, penalties
    <2> QED BY <1>3, <1>4 DEF Records
  <1>7. RecomputeAfterRevoke(d, r, limit) = MaybeConvert(freed, limit)
    BY DEF RecomputeAfterRevoke
  <1> HIDE DEF freed, strikes
  <1>8. \A k \in DOMAIN d.strikes : FreedStrike(d, r, limit, k)
    BY <1>2, <1>5, <1>6 DEF FreedStrike
  <1> QED BY <1>3, <1>5, <1>6, <1>7, <1>8

\* A revocation leaves the strikes their sources, and what an inactive penalty
\* consumed consumed.
LEMMA RevokeKeeps ==
    ASSUME NEW Source, NEW d \in Records(Source), NEW limit \in Nat,
           NEW r \in DOMAIN d.strikes
    PROVE  LET e == RecomputeAfterRevoke(d, r, limit) IN
           /\ e \in Records(Source)
           /\ DOMAIN e.strikes = DOMAIN d.strikes
           /\ \A i \in DOMAIN d.strikes :
                 LET p == d.strikes[i].penalty IN
                 /\ e.strikes[i].by = d.strikes[i].by
                 /\ p # 0 /\ ~d.penalties[p].active => e.strikes[i].penalty = p
  <1> DEFINE q == d.strikes[r].penalty
             gone == Dissolves(d, q, r, limit)
             freed == Freed(d, r, limit)
  <1>1. /\ RecomputeAfterRevoke(d, r, limit) = MaybeConvert(freed, limit)
        /\ freed \in Records(Source)
        /\ \A k \in DOMAIN d.strikes : FreedStrike(d, r, limit, k)
    BY RevokeFrees
  <1>2. DOMAIN freed.strikes = DOMAIN d.strikes
    BY DEF Freed
  <1>3. gone => q # 0 /\ d.penalties[q].active
    BY DEF Dissolves
  <1>4. \A k \in DOMAIN d.strikes :
           /\ freed.strikes[k].by = d.strikes[k].by
           /\ ~gone \/ d.strikes[k].penalty # q =>
                 freed.strikes[k].penalty = d.strikes[k].penalty
    BY <1>1 DEF FreedStrike
  <1> HIDE DEF gone, q, freed
  <1>5. \A k \in DOMAIN d.strikes :
          LET p == d.strikes[k].penalty IN
          p # 0 /\ ~d.penalties[p].active =>
              freed.strikes[k].penalty = p /\ k \notin Free(freed)
    BY <1>2, <1>3, <1>4 DEF Free
  <1>6. LET e == MaybeConvert(freed, limit) IN
        /\ e \in Records(Source)
        /\ DOMAIN e.strikes = DOMAIN freed.strikes
        /\ \A k \in DOMAIN freed.strikes :
              /\ e.strikes[k].by = freed.strikes[k].by
              /\ k \notin Free(freed) => e.strikes[k] = freed.strikes[k]
    BY <1>1, MaybeConvertKeeps
  <1> QED BY <1>1, <1>2, <1>4, <1>5, <1>6

-----------------------------------------------------------------------------
(* Discipline: counting the groups a conversion forms.                      *)

\* Free strikes are ranked from 1 on, the oldest first.
LEMMA RanksAscend ==
    ASSUME NEW Source, NEW d \in Records(Source), NEW k \in Free(d)
    PROVE  /\ Rank(d, k) \in 1..Cardinality(Free(d))
           /\ \A i \in Free(d) : i < k => Rank(d, i) < Rank(d, k)
  <1> DEFINE upto(i) == {j \in Free(d) : j <= i}
  <1>1. Free(d) \subseteq Nat
    <2>1. d.strikes \in Seq(Strikes(Source))
      BY DEF Records
    <2>2. DOMAIN d.strikes = 1..Len(d.strikes) /\ Len(d.strikes) \in Nat
      BY <2>1
    <2> QED BY <2>2 DEF Free
  <1>2. IsFiniteSet(Free(d)) /\ Cardinality(Free(d)) \in Nat
    BY FreeFinite
  <1>3. \A i \in Free(d) : /\ IsFiniteSet(upto(i)) /\ Rank(d, i) = Cardinality(upto(i))
                           /\ Cardinality(upto(i)) \in Nat
                           /\ Cardinality(upto(i)) <= Cardinality(Free(d))
    BY <1>2, FS_Subset, FS_CardinalityType DEF Rank
  <1>4. k \in upto(k)
    BY <1>1
  <1>5. Rank(d, k) \in 1..Cardinality(Free(d))
    <2>1. Cardinality(upto(k)) # 0
      BY <1>3, <1>4, FS_EmptySet
    <2> HIDE DEF upto
    <2> QED BY <1>2, <1>3, <2>1
  <1>6. ASSUME NEW i \in Free(d), i < k PROVE Rank(d, i) < Rank(d, k)
    <2>1. upto(i) \subseteq upto(k)
      BY <1>1, <1>6
    <2>2. k \notin upto(i)
      BY <1>1, <1>6
    <2> HIDE DEF upto
    <2>3. /\ Cardinality(upto(i)) <= Cardinality(upto(k))
          /\ Cardinality(upto(k)) = Cardinality(upto(i)) => upto(k) = upto(i)
      BY <1>3, <2>1, FS_Subset
    <2> QED BY <1>3, <1>4, <2>2, <2>3
  <1> QED BY <1>5, <1>6

\* As many free strikes have a rank within some limits as there are ranks.
LEMMA RankedWithin ==
    ASSUME NEW Source, NEW d \in Records(Source), NEW low \in Nat \ {0}, NEW high \in Nat,
           high <= Cardinality(Free(d)), low <= high + 1
    PROVE  /\ IsFiniteSet({i \in Free(d) : low <= Rank(d, i) /\ Rank(d, i) <= high})
           /\ Cardinality({i \in Free(d) : low <= Rank(d, i) /\ Rank(d, i) <= high})
                = high + 1 - low
  <1> DEFINE n == Cardinality(Free(d))
             f == [i \in Free(d) |-> Rank(d, i)]
             S == {i \in Free(d) : low <= Rank(d, i) /\ Rank(d, i) <= high}
             T == low..high
             g == [i \in S |-> Rank(d, i)]
  <1>1. IsFiniteSet(Free(d)) /\ n \in Nat /\ \A i \in Free(d) : Rank(d, i) \in 1..n
    BY FreeFinite, RanksAscend
  <1>2. \A i, k \in Free(d) : Rank(d, i) = Rank(d, k) => i = k
    <2> SUFFICES ASSUME NEW i \in Free(d), NEW k \in Free(d), Rank(d, i) = Rank(d, k), i # k
                 PROVE  FALSE
      OBVIOUS
    <2>1. i \in Nat /\ k \in Nat
      <3>1. d.strikes \in Seq(Strikes(Source))
        BY DEF Records
      <3>2. DOMAIN d.strikes = 1..Len(d.strikes) /\ Len(d.strikes) \in Nat
        BY <3>1
      <3> QED BY <3>2 DEF Free
    <2>2. i < k \/ k < i
      BY <2>1
    <2>3. Rank(d, i) \in Nat
      BY <1>1
    <2> QED BY <2>2, <2>3, RanksAscend
  <1>3. f \in Injection(Free(d), 1..n)
    BY <1>1, <1>2 DEF Injection, IsInjective
  <1>4. f \in Surjection(Free(d), 1..n)
    <2>1. IsFiniteSet(1..n) /\ Cardinality(1..n) = n
      BY <1>1, FS_Interval
    <2> HIDE DEF f
    <2> QED BY <1>3, <2>1, FS_Injection
  <1>5. \A r \in 1..n : \E i \in Free(d) : Rank(d, i) = r
    BY <1>4 DEF Surjection
  <1>6. g \in Bijection(S, T)
    <2>1. g \in [S -> T]
      BY <1>1
    <2>2. \A a, b \in S : g[a] = g[b] => a = b
      BY <1>2
    <2>3. \A t \in T : \E s \in S : g[s] = t
      BY <1>1, <1>5
    <2> HIDE DEF g, S, T
    <2> QED BY <2>1, <2>2, <2>3 DEF Bijection, Injection, IsInjective, Surjection
  <1>7. IsFiniteSet(S)
    BY <1>1, FS_Subset
  <1>8. Cardinality(T) = high + 1 - low
    <2>1. low \in Int /\ high \in Int /\ (low > high => high + 1 - low = 0)
      BY <1>1
    <2>2. Cardinality(low..high) = IF low > high THEN 0 ELSE high - low + 1
      BY <2>1, FS_Interval
    <2> QED BY <2>1, <2>2
  <1> HIDE DEF S, T, g
  <1>9. Cardinality(T) = Cardinality(S)
    BY <1>6, <1>7, FS_Bijection DEF ExistsBijection
  <1> QED BY <1>7, <1>8, <1>9 DEF S

\* Division into groups of `limit`.
LEMMA Groups ==
    ASSUME NEW n \in Nat, NEW limit \in Nat \ {0}
    PROVE  /\ n \div limit \in Nat
           /\ (n \div limit) * limit <= n
           /\ n < (n \div limit) * limit + limit
  OBVIOUS

LEMMA GroupOfRank ==
    ASSUME NEW limit \in Nat \ {0}, NEW g \in Nat \ {0}, NEW r \in Nat,
           (g - 1) * limit + 1 <= r, r <= g * limit
    PROVE  (r - 1) \div limit + 1 = g
  <1> DEFINE q == (r - 1) \div limit
             below == (g - 1) * limit
  <1>1. g * limit = below + limit /\ below \in Nat
    OBVIOUS
  <1>2. r - 1 \in Nat
    BY <1>1
  <1>3. q \in Nat /\ q * limit <= r - 1 /\ r - 1 < q * limit + limit
    BY <1>2, Groups
  <1> HIDE DEF q
  <1>4. ~(q < g - 1)
    <2> SUFFICES ASSUME q < g - 1 PROVE FALSE
      OBVIOUS
    <2>1. (q + 1) * limit <= (g - 1) * limit
      BY <1>3
    <2>2. (q + 1) * limit = q * limit + limit
      BY <1>3
    <2> QED BY <1>3, <2>1, <2>2
  <1>5. ~(q > g - 1)
    <2> SUFFICES ASSUME q > g - 1 PROVE FALSE
      OBVIOUS
    <2>1. g * limit <= q * limit
      BY <1>3
    <2> QED BY <1>3, <2>1
  <1> QED BY <1>3, <1>4, <1>5 DEF q

LEMMA GroupsWithin ==
    ASSUME NEW limit \in Nat, NEW groups \in Nat, NEW g \in 1..groups
    PROVE  /\ g * limit \in Nat /\ (g - 1) * limit \in Nat
           /\ g * limit = (g - 1) * limit + limit
           /\ g * limit <= groups * limit
  OBVIOUS

GroupsOf(d, limit) == IF limit = 0 THEN 0 ELSE Cardinality(Free(d)) \div limit
GroupAt(d, limit, i) == (Rank(d, i) - 1) \div limit + 1

\* What a conversion writes, strike by strike.
LEMMA Converted ==
    ASSUME NEW Source, NEW d \in Records(Source), NEW limit \in Nat
    PROVE  LET e == MaybeConvert(d, limit)
               groups == GroupsOf(d, limit)
               n == Len(d.penalties)
           IN /\ n \in Nat /\ DOMAIN d.penalties = 1..n /\ DOMAIN e.penalties = 1..(n + groups)
              /\ \A p \in 1..n : e.penalties[p] = d.penalties[p]
              /\ DOMAIN e.strikes = DOMAIN d.strikes
              /\ \A i \in DOMAIN d.strikes :
                    /\ e.strikes[i].active = d.strikes[i].active
                    /\ i \in Free(d) /\ Rank(d, i) <= groups * limit =>
                          e.strikes[i].penalty = n + GroupAt(d, limit, i)
                    /\ ~(i \in Free(d) /\ Rank(d, i) <= groups * limit) =>
                          e.strikes[i].penalty = d.strikes[i].penalty
  <1> DEFINE e == MaybeConvert(d, limit)
             groups == GroupsOf(d, limit)
             n == Len(d.penalties)
             created == [g \in 1..groups |-> Penalty(TRUE)]
             struck(i) == i \in Free(d) /\ Rank(d, i) <= groups * limit
             strikes == [i \in DOMAIN d.strikes |->
                            IF struck(i)
                            THEN [d.strikes[i] EXCEPT !.penalty = n + GroupAt(d, limit, i)]
                            ELSE d.strikes[i]]
  <1>1. e = [strikes |-> strikes, penalties |-> d.penalties \o created]
    BY DEF MaybeConvert, GroupsOf, GroupAt
  <1>2. /\ d.strikes \in Seq(Strikes(Source)) /\ d.penalties \in Seq(Penalties) /\ n \in Nat
        /\ DOMAIN d.penalties = 1..n
    BY DEF Records
  <1>3. groups \in Nat
    BY FreeFinite, Groups DEF GroupsOf
  <1>4. created \in Seq(Penalties) /\ Len(created) = groups
    <2>1. Penalty(TRUE) \in Penalties
      BY DEF Penalty, Penalties
    <2>2. created \in [1..groups -> Penalties]
      BY <2>1
    <2> HIDE DEF groups, created
    <2> QED BY <1>3, <2>2, FunctionIsSequence
  <1>5. /\ DOMAIN (d.penalties \o created) = 1..(n + groups)
        /\ \A p \in 1..n : (d.penalties \o created)[p] = d.penalties[p]
    <2> HIDE DEF created, groups
    <2> QED BY <1>2, <1>3, <1>4
  <1>6. ASSUME NEW i \in DOMAIN d.strikes
        PROVE  /\ strikes[i].active = d.strikes[i].active
               /\ struck(i) => strikes[i].penalty = n + GroupAt(d, limit, i)
               /\ ~struck(i) => strikes[i].penalty = d.strikes[i].penalty
    <2>1. d.strikes[i] \in Strikes(Source)
      BY <1>2
    <2> HIDE DEF struck
    <2> QED BY <2>1 DEF Strikes
  <1>7. e.strikes = strikes /\ e.penalties = d.penalties \o created /\ DOMAIN strikes = DOMAIN d.strikes
    <2>1. DOMAIN strikes = DOMAIN d.strikes
      OBVIOUS
    <2> HIDE DEF e, strikes, created
    <2> QED BY <1>1, <2>1
  <1> HIDE DEF e, strikes, created, groups, n
  <1>8. \A i \in DOMAIN d.strikes :
           /\ e.strikes[i].active = d.strikes[i].active
           /\ struck(i) => e.strikes[i].penalty = n + GroupAt(d, limit, i)
           /\ ~struck(i) => e.strikes[i].penalty = d.strikes[i].penalty
    BY <1>6, <1>7
  <1> QED BY <1>2, <1>5, <1>7, <1>8 DEF e, groups, n

\* The groups are complete and what is left is short of one.
LEMMA GroupsFill ==
    ASSUME NEW Source, NEW d \in Records(Source), NEW limit \in Nat
    PROVE  /\ GroupsOf(d, limit) \in Nat
           /\ GroupsOf(d, limit) * limit \in Nat
           /\ GroupsOf(d, limit) * limit <= Cardinality(Free(d))
           /\ limit # 0 => Cardinality(Free(d)) < GroupsOf(d, limit) * limit + limit
  <1>1. Cardinality(Free(d)) \in Nat
    BY FreeFinite
  <1>2. CASE limit = 0
    BY <1>1, <1>2 DEF GroupsOf
  <1>3. CASE limit # 0
    <2>1. GroupsOf(d, limit) = Cardinality(Free(d)) \div limit
      BY <1>3 DEF GroupsOf
    <2> DEFINE n == Cardinality(Free(d))
    <2>2. n \in Nat
      BY <1>1
    <2> HIDE DEF n
    <2>3. n \div limit \in Nat /\ (n \div limit) * limit <= n /\ n < (n \div limit) * limit + limit
      BY <1>3, <2>2, Groups
    <2>4. (n \div limit) * limit \in Nat
      BY <2>3
    <2> QED BY <2>1, <2>3, <2>4 DEF n
  <1> QED BY <1>2, <1>3

LEMMA PenaltyOfRank ==
    ASSUME NEW Source, NEW d \in Records(Source), NEW limit \in Nat \ {0}, NEW i \in Free(d)
    PROVE  GroupAt(d, limit, i) \in Nat \ {0}
  <1> DEFINE r == Rank(d, i)
  <1>1. r \in Nat \ {0}
    BY FreeFinite, RanksAscend
  <1>2. r - 1 \in Nat
    BY <1>1
  <1> HIDE DEF r
  <1>3. (r - 1) \div limit \in Nat
    BY <1>2, Groups
  <1> QED BY <1>3 DEF GroupAt, r

\* After a conversion too few strikes are free for another group.
LEMMA ConvertSettles ==
    ASSUME NEW Source, NEW d \in Records(Source), NEW limit \in Nat \ {0}
    PROVE  Cardinality(Free(MaybeConvert(d, limit))) < limit
  <1> DEFINE e == MaybeConvert(d, limit)
             struck == GroupsOf(d, limit) * limit
             n == Cardinality(Free(d))
  <1>1. struck \in Nat /\ n \in Nat /\ struck <= n /\ n < struck + limit
    BY FreeFinite, GroupsFill
  <1>2. Free(e) = {i \in Free(d) : struck + 1 <= Rank(d, i) /\ Rank(d, i) <= n}
    <2>1. /\ DOMAIN e.strikes = DOMAIN d.strikes
          /\ \A i \in DOMAIN d.strikes :
                /\ e.strikes[i].active = d.strikes[i].active
                /\ i \in Free(d) /\ Rank(d, i) <= struck =>
                      e.strikes[i].penalty = Len(d.penalties) + GroupAt(d, limit, i)
                /\ ~(i \in Free(d) /\ Rank(d, i) <= struck) =>
                      e.strikes[i].penalty = d.strikes[i].penalty
          /\ Len(d.penalties) \in Nat
      BY Converted
    <2>2. \A i \in Free(d) : Rank(d, i) \in 1..n /\ GroupAt(d, limit, i) \in Nat \ {0}
      BY RanksAscend, PenaltyOfRank
    <2> HIDE DEF e, struck, n
    <2>3. ASSUME NEW i \in Free(e)
          PROVE  i \in Free(d) /\ struck + 1 <= Rank(d, i) /\ Rank(d, i) <= n
      <3>1. i \in DOMAIN d.strikes /\ e.strikes[i].active /\ e.strikes[i].penalty = 0
        BY <2>1 DEF Free
      <3>2. ~(i \in Free(d) /\ Rank(d, i) <= struck)
        BY <2>1, <2>2, <3>1
      <3>3. i \in Free(d)
        BY <2>1, <3>1, <3>2 DEF Free
      <3> QED BY <1>1, <2>2, <3>2, <3>3
    <2>4. ASSUME NEW i \in Free(d), struck + 1 <= Rank(d, i)
          PROVE  i \in Free(e)
      <3>1. ~(Rank(d, i) <= struck)
        BY <1>1, <2>2, <2>4
      <3>2. i \in DOMAIN d.strikes /\ d.strikes[i].active /\ d.strikes[i].penalty = 0
        BY DEF Free
      <3> QED BY <2>1, <3>1, <3>2 DEF Free
    <2> QED BY <2>3, <2>4
  <1> HIDE DEF e, struck
  <1>3. Cardinality(Free(e)) = n + 1 - (struck + 1)
    <2> DEFINE low == struck + 1
    <2>1. low \in Nat \ {0} /\ low <= n + 1 /\ n \in Nat /\ n <= n
      BY <1>1
    <2>2. Free(e) = {i \in Free(d) : low <= Rank(d, i) /\ Rank(d, i) <= n}
      BY <1>2
    <2> HIDE DEF low
    <2>3. Cardinality({i \in Free(d) : low <= Rank(d, i) /\ Rank(d, i) <= n}) = n + 1 - low
      BY <2>1, RankedWithin
    <2> QED BY <2>2, <2>3 DEF low
  <1> QED BY <1>1, <1>3 DEF e

-----------------------------------------------------------------------------
\* Each penalty that came of strikes and still counts is backed by some, and by
\* at least `least` of them.
Supported(d, least) ==
    \A p \in DOMAIN d.penalties :
        d.penalties[p].fromStrikes /\ d.penalties[p].active =>
            Cardinality(Support(d, p, 0)) >= 1 /\ Cardinality(Support(d, p, 0)) >= least

LEMMA SupportFinite ==
    ASSUME NEW Source, NEW d \in Records(Source), NEW p, NEW i
    PROVE  /\ IsFiniteSet(Support(d, p, i)) /\ Cardinality(Support(d, p, i)) \in Nat
           /\ Support(d, p, 0) = {k \in DOMAIN d.strikes : d.strikes[k].active /\ d.strikes[k].penalty = p}
  <1>1. d.strikes \in Seq(Strikes(Source))
    BY DEF Records
  <1>2. DOMAIN d.strikes = 1..Len(d.strikes) /\ Len(d.strikes) \in Nat
    BY <1>1
  <1>3. IsFiniteSet(DOMAIN d.strikes) /\ 0 \notin DOMAIN d.strikes
    <2> DEFINE n == Len(d.strikes)
    <2>1. DOMAIN d.strikes = 1..n /\ n \in Int
      BY <1>2
    <2> HIDE DEF n
    <2>2. IsFiniteSet(1..n) /\ 0 \notin 1..n
      BY <2>1, FS_Interval
    <2> QED BY <2>1, <2>2
  <1>4. Support(d, p, i) \subseteq DOMAIN d.strikes
    BY DEF Support
  <1> QED BY <1>3, <1>4, FS_Subset, FS_CardinalityType DEF Support

\* More strikes back it than before.
LEMMA SupportGrows ==
    ASSUME NEW Source, NEW d \in Records(Source), NEW e \in Records(Source), NEW p, NEW i, NEW k,
           Support(d, p, i) \subseteq Support(e, p, k)
    PROVE  Cardinality(Support(d, p, i)) <= Cardinality(Support(e, p, k))
BY SupportFinite, FS_Subset

\* A conversion takes no strike from a penalty and gives each new one a whole
\* group.
LEMMA ConvertSupports ==
    ASSUME NEW Source, NEW d \in Records(Source), NEW limit \in Nat, NEW least \in Nat,
           Supported(d, least), least <= limit \/ least <= 1
    PROVE  Supported(MaybeConvert(d, limit), least)
  <1> DEFINE e == MaybeConvert(d, limit)
             groups == GroupsOf(d, limit)
             n == Len(d.penalties)
  <1>1. /\ n \in Nat /\ DOMAIN d.penalties = 1..n /\ DOMAIN e.penalties = 1..(n + groups)
        /\ \A p \in 1..n : e.penalties[p] = d.penalties[p]
        /\ DOMAIN e.strikes = DOMAIN d.strikes
        /\ \A i \in DOMAIN d.strikes :
              /\ e.strikes[i].active = d.strikes[i].active
              /\ i \in Free(d) /\ Rank(d, i) <= groups * limit =>
                    e.strikes[i].penalty = n + GroupAt(d, limit, i)
              /\ ~(i \in Free(d) /\ Rank(d, i) <= groups * limit) =>
                    e.strikes[i].penalty = d.strikes[i].penalty
    BY Converted
  <1>2. e \in Records(Source)
    BY MaybeConvertKeeps
  <1>3. /\ groups \in Nat /\ groups * limit \in Nat /\ groups * limit <= Cardinality(Free(d))
        /\ Cardinality(Free(d)) \in Nat
        /\ \A i \in Free(d) : Rank(d, i) \in Nat
    BY FreeFinite, GroupsFill, RanksAscend
  <1>4. limit = 0 => groups = 0
    BY DEF GroupsOf
  <1> HIDE DEF e, groups, n
  <1> SUFFICES ASSUME NEW p \in DOMAIN e.penalties, e.penalties[p].fromStrikes, e.penalties[p].active
               PROVE  /\ Cardinality(Support(e, p, 0)) >= 1
                      /\ Cardinality(Support(e, p, 0)) >= least
    BY DEF Supported, e
  <1>5. CASE p \in 1..n
    <2>1. Support(d, p, 0) \subseteq Support(e, p, 0)
      <3> SUFFICES ASSUME NEW i \in Support(d, p, 0) PROVE i \in Support(e, p, 0)
        OBVIOUS
      <3>1. i \in DOMAIN d.strikes \ {0} /\ d.strikes[i].active /\ d.strikes[i].penalty = p /\ p # 0
        BY <1>5 DEF Support
      <3>2. i \notin Free(d)
        BY <3>1 DEF Free
      <3> QED BY <1>1, <3>1, <3>2 DEF Support
    <2>2. Cardinality(Support(d, p, 0)) >= 1 /\ Cardinality(Support(d, p, 0)) >= least
      BY <1>1, <1>5 DEF Supported
    <2>3. /\ Cardinality(Support(d, p, 0)) <= Cardinality(Support(e, p, 0))
          /\ Cardinality(Support(d, p, 0)) \in Nat /\ Cardinality(Support(e, p, 0)) \in Nat
      BY <1>2, <2>1, SupportGrows, SupportFinite
    <2> QED BY <2>2, <2>3
  <1>6. CASE p \notin 1..n
    <2> DEFINE g == p - n
               low == (g - 1) * limit + 1
               high == g * limit
               group == {i \in Free(d) : low <= Rank(d, i) /\ Rank(d, i) <= high}
    <2>1. g \in 1..groups /\ p = n + g
      BY <1>1, <1>3, <1>6
    <2>2. limit \in Nat \ {0}
      BY <1>3, <1>4, <2>1
    <2> HIDE DEF g
    <2>3. /\ high \in Nat /\ (g - 1) * limit \in Nat
          /\ high = (g - 1) * limit + limit /\ high <= groups * limit
      BY <1>3, <2>1, GroupsWithin
    <2>4. low \in Nat \ {0} /\ high + 1 - low = limit /\ low <= high + 1
          /\ high <= Cardinality(Free(d))
      BY <1>3, <2>2, <2>3
    <2>5. \A i \in group : GroupAt(d, limit, i) = g
      <3> SUFFICES ASSUME NEW i \in group PROVE GroupAt(d, limit, i) = g
        OBVIOUS
      <3> DEFINE r == Rank(d, i)
      <3>1. r \in Nat /\ (g - 1) * limit + 1 <= r /\ r <= g * limit
        BY <1>3
      <3>2. g \in Nat \ {0}
        BY <1>3, <2>1
      <3> HIDE DEF r
      <3>3. (r - 1) \div limit + 1 = g
        BY <2>2, <3>1, <3>2, GroupOfRank
      <3> QED BY <3>3 DEF GroupAt, r
    <2> HIDE DEF low, high
    <2>6. IsFiniteSet(group) /\ Cardinality(group) = limit
      <3>1. Cardinality(group) = high + 1 - low
        BY <2>3, <2>4, RankedWithin
      <3>2. IsFiniteSet(group)
        BY FreeFinite, FS_Subset
      <3> QED BY <2>4, <3>1, <3>2
    <2>7. group \subseteq Support(e, p, 0)
      <3> SUFFICES ASSUME NEW i \in group PROVE i \in Support(e, p, 0)
        OBVIOUS
      <3>1. i \in Free(d) /\ Rank(d, i) <= groups * limit
        BY <1>3, <2>3
      <3>2. i \in DOMAIN d.strikes /\ d.strikes[i].active
        BY <3>1 DEF Free
      <3>3. e.strikes[i].active /\ e.strikes[i].penalty = p
        BY <1>1, <2>1, <2>5, <3>1, <3>2
      <3> QED BY <1>1, <1>2, <3>2, <3>3, SupportFinite
    <2> HIDE DEF group
    <2>8. Cardinality(group) <= Cardinality(Support(e, p, 0)) /\ Cardinality(Support(e, p, 0)) \in Nat
      BY <1>2, <2>7, SupportFinite, FS_Subset
    <2> QED BY <2>2, <2>6, <2>8
  <1> QED BY <1>5, <1>6

\* Whatever keeps the strikes behind every penalty it keeps keeps it supported.
LEMMA SupportCarries ==
    ASSUME NEW Source, NEW d \in Records(Source), NEW e \in Records(Source), NEW least \in Nat,
           Supported(d, least),
           \A p \in DOMAIN e.penalties :
               e.penalties[p].fromStrikes /\ e.penalties[p].active =>
                  /\ p \in DOMAIN d.penalties
                  /\ d.penalties[p].fromStrikes /\ d.penalties[p].active
                  /\ Support(d, p, 0) \subseteq Support(e, p, 0)
    PROVE  Supported(e, least)
  <1> SUFFICES ASSUME NEW p \in DOMAIN e.penalties,
                      e.penalties[p].fromStrikes, e.penalties[p].active
               PROVE  /\ Cardinality(Support(e, p, 0)) >= 1
                      /\ Cardinality(Support(e, p, 0)) >= least
    BY DEF Supported
  <1>1. Cardinality(Support(d, p, 0)) >= 1 /\ Cardinality(Support(d, p, 0)) >= least
    BY DEF Supported
  <1>2. /\ Cardinality(Support(d, p, 0)) <= Cardinality(Support(e, p, 0))
        /\ Cardinality(Support(d, p, 0)) \in Nat /\ Cardinality(Support(e, p, 0)) \in Nat
    BY SupportGrows, SupportFinite
  <1> QED BY <1>1, <1>2

LEMMA AwardSupports ==
    ASSUME NEW Source, NEW d \in Records(Source), NEW by \in Source, NEW limit \in Nat,
           NEW least \in Nat, Supported(d, least), least <= limit \/ least <= 1
    PROVE  Supported(AwardStrikes(d, by, limit), least)
  <1> DEFINE given == Given(d, by)
             n == Len(d.strikes)
  <1>1. /\ AwardStrikes(d, by, limit) = MaybeConvert(given, limit)
        /\ given \in Records(Source) /\ given.penalties = d.penalties
        /\ DOMAIN d.strikes = 1..n /\ n \in Nat
        /\ DOMAIN given.strikes = 1..(n + 1)
        /\ \A i \in 1..n : given.strikes[i] = d.strikes[i]
    BY AwardGives
  <1> HIDE DEF given, n
  <1>2. \A p : Support(d, p, 0) \subseteq Support(given, p, 0)
    BY <1>1 DEF Support
  <1>3. Supported(given, least)
    BY <1>1, <1>2, SupportCarries
  <1> QED BY <1>1, <1>3, ConvertSupports

\* The strike revoked is the only one its penalty loses, and a penalty that loses
\* too many is dissolved.
LEMMA RevokeSupports ==
    ASSUME NEW Source, NEW d \in Records(Source), NEW limit \in Nat,
           NEW r \in DOMAIN d.strikes,
           NEW least \in Nat, Supported(d, least), least = limit \/ least <= 1
    PROVE  Supported(RecomputeAfterRevoke(d, r, limit), least)
  <1> DEFINE q == d.strikes[r].penalty
             gone == Dissolves(d, q, r, limit)
             freed == Freed(d, r, limit)
  <1>1. /\ RecomputeAfterRevoke(d, r, limit) = MaybeConvert(freed, limit)
        /\ freed \in Records(Source)
        /\ gone => freed.penalties = [d.penalties EXCEPT ![q].active = FALSE]
        /\ ~gone => freed.penalties = d.penalties
        /\ \A k \in DOMAIN d.strikes : FreedStrike(d, r, limit, k)
    BY RevokeFrees
  <1>2. DOMAIN freed.strikes = DOMAIN d.strikes
    BY DEF Freed
  <1>3. \A k \in DOMAIN d.strikes :
           /\ freed.strikes[k].active <=> d.strikes[k].active /\ k # r
           /\ gone /\ d.strikes[k].penalty = q => freed.strikes[k].penalty = 0
           /\ ~gone \/ d.strikes[k].penalty # q => freed.strikes[k].penalty = d.strikes[k].penalty
    BY <1>1 DEF FreedStrike
  <1>4. gone => d.penalties[q].active
    BY DEF Dissolves
  <1>5. d.penalties \in Seq(Penalties) /\ freed.penalties \in Seq(Penalties)
    BY <1>1 DEF Records
  <1>6. \A p \in DOMAIN freed.penalties :
           freed.penalties[p].fromStrikes /\ freed.penalties[p].active =>
              /\ p \in DOMAIN d.penalties
              /\ d.penalties[p].fromStrikes /\ d.penalties[p].active
              /\ gone => p # q
    <2> HIDE DEF gone, q, freed
    <2>1. CASE gone
      <3> DEFINE rows == d.penalties
                 revoked == [rows[q] EXCEPT !.active = FALSE]
      <3>1. /\ DOMAIN freed.penalties = DOMAIN rows
            /\ \A p \in DOMAIN rows : freed.penalties[p] = IF p = q THEN revoked ELSE rows[p]
        BY <1>1, <2>1
      <3>2. q \in DOMAIN rows => ~revoked.active
        <4>1. q \in DOMAIN rows => rows[q] \in Penalties
          BY <1>5
        <4> HIDE DEF rows
        <4> QED BY <4>1 DEF Penalties
      <3> HIDE DEF revoked, rows
      <3>3. \A p \in DOMAIN rows : freed.penalties[p].active => p # q /\ freed.penalties[p] = rows[p]
        BY <3>1, <3>2
      <3> QED BY <3>1, <3>3 DEF rows
    <2>2. CASE ~gone
      BY <1>1, <2>2
    <2> QED BY <2>1, <2>2
  <1>7. Supported(freed, least)
    <2> SUFFICES ASSUME NEW p \in DOMAIN freed.penalties,
                        freed.penalties[p].fromStrikes, freed.penalties[p].active
                 PROVE  /\ Cardinality(Support(freed, p, 0)) >= 1
                        /\ Cardinality(Support(freed, p, 0)) >= least
      BY DEF Supported
    <2>0. /\ p \in DOMAIN d.penalties /\ d.penalties[p].fromStrikes /\ d.penalties[p].active
          /\ gone => p # q
      BY <1>6
    <2>1. CASE p # q
      <3>1. Support(d, p, 0) \subseteq Support(freed, p, 0)
        <4> HIDE DEF gone, freed
        <4> QED BY <1>2, <1>3, <2>1 DEF Support
      <3>2. Cardinality(Support(d, p, 0)) >= 1 /\ Cardinality(Support(d, p, 0)) >= least
        BY <2>0 DEF Supported
      <3>3. /\ Cardinality(Support(d, p, 0)) <= Cardinality(Support(freed, p, 0))
            /\ Cardinality(Support(d, p, 0)) \in Nat /\ Cardinality(Support(freed, p, 0)) \in Nat
        BY <1>1, <3>1, SupportGrows, SupportFinite
      <3> QED BY <3>2, <3>3
    <2>2. CASE p = q
      <3>1. ~gone
        BY <2>0, <2>2
      <3>2. p # 0
        <4>1. DOMAIN d.penalties = 1..Len(d.penalties)
          BY <1>5
        <4> QED BY <2>0, <4>1
      <3>3. /\ Cardinality(Support(d, p, r)) # 0
            /\ ~(limit # 0 /\ Cardinality(Support(d, p, r)) < limit)
        BY <2>0, <2>2, <3>1, <3>2 DEF Dissolves
      <3>4. Support(d, p, r) \subseteq Support(freed, p, 0)
        <4>1. 0 \notin DOMAIN d.strikes
          <5>1. d.strikes \in Seq(Strikes(Source))
            BY DEF Records
          <5>2. DOMAIN d.strikes = 1..Len(d.strikes)
            BY <5>1
          <5> QED BY <5>2
        <4> HIDE DEF gone, freed
        <4> QED BY <1>2, <1>3, <3>1, <4>1 DEF Support
      <3>5. /\ Cardinality(Support(d, p, r)) <= Cardinality(Support(freed, p, 0))
            /\ Cardinality(Support(d, p, r)) \in Nat /\ Cardinality(Support(freed, p, 0)) \in Nat
        BY <1>1, <3>4, SupportGrows, SupportFinite
      <3> HIDE DEF freed, q, gone
      <3> QED BY <3>3, <3>5
    <2> QED BY <2>1, <2>2
  <1> HIDE DEF freed, q, gone
  <1> QED BY <1>1, <1>7, ConvertSupports

LEMMA PenaltySupports ==
    ASSUME NEW Source, NEW d \in Records(Source), NEW least \in Nat, Supported(d, least)
    PROVE  /\ [d EXCEPT !.penalties = Append(@, Penalty(FALSE))] \in Records(Source) =>
                 Supported([d EXCEPT !.penalties = Append(@, Penalty(FALSE))], least)
           /\ \A p \in DOMAIN d.penalties :
                 [d EXCEPT !.penalties[p].active = FALSE] \in Records(Source) =>
                    Supported([d EXCEPT !.penalties[p].active = FALSE], least)
  <1>1. /\ d.penalties \in Seq(Penalties)
        /\ d = [strikes |-> d.strikes, penalties |-> d.penalties]
    BY DEF Records
  <1>2. ASSUME NEW e \in Records(Source), e.strikes = d.strikes,
               \A p \in DOMAIN e.penalties :
                  e.penalties[p].fromStrikes /\ e.penalties[p].active =>
                     /\ p \in DOMAIN d.penalties
                     /\ d.penalties[p].fromStrikes /\ d.penalties[p].active
        PROVE  Supported(e, least)
    <2>1. \A p : Support(d, p, 0) \subseteq Support(e, p, 0)
      BY <1>2 DEF Support
    <2> QED BY <1>2, <2>1, SupportCarries
  <1>3. ASSUME NEW e, e = [d EXCEPT !.penalties = Append(@, Penalty(FALSE))], e \in Records(Source)
        PROVE  Supported(e, least)
    <2>1. e.strikes = d.strikes /\ e.penalties = Append(d.penalties, Penalty(FALSE))
      BY <1>1, <1>3
    <2>2. \A p \in DOMAIN e.penalties :
             \/ p \in DOMAIN d.penalties /\ e.penalties[p] = d.penalties[p]
             \/ e.penalties[p] = Penalty(FALSE)
      <3> DEFINE rows == d.penalties
                 new == Penalty(FALSE)
      <3>1. new \in Penalties /\ rows \in Seq(Penalties) /\ e.penalties = Append(rows, new)
        BY <1>1, <2>1 DEF Penalty, Penalties
      <3> HIDE DEF rows, new
      <3>2. /\ Len(rows) \in Nat /\ DOMAIN rows = 1..Len(rows)
            /\ DOMAIN Append(rows, new) = 1..(Len(rows) + 1)
            /\ \A p \in 1..Len(rows) : Append(rows, new)[p] = rows[p]
            /\ Append(rows, new)[Len(rows) + 1] = new
        BY <3>1
      <3>3. \A p \in 1..(Len(rows) + 1) : p \in 1..Len(rows) \/ p = Len(rows) + 1
        BY <3>2
      <3> QED BY <3>1, <3>2, <3>3 DEF rows, new
    <2>3. ~Penalty(FALSE).fromStrikes
      BY DEF Penalty
    <2>4. \A p \in DOMAIN e.penalties :
             e.penalties[p].fromStrikes /\ e.penalties[p].active =>
                /\ p \in DOMAIN d.penalties
                /\ d.penalties[p].fromStrikes /\ d.penalties[p].active
      BY <2>2, <2>3
    <2> QED BY <1>2, <1>3, <2>1, <2>4
  <1>4. ASSUME NEW e, NEW p \in DOMAIN d.penalties,
               e = [d EXCEPT !.penalties[p].active = FALSE], e \in Records(Source)
        PROVE  Supported(e, least)
    <2>1. e.strikes = d.strikes /\ e.penalties = [d.penalties EXCEPT ![p].active = FALSE]
      BY <1>1, <1>4
    <2>2. \A k \in DOMAIN e.penalties :
             e.penalties[k].fromStrikes /\ e.penalties[k].active =>
                /\ k \in DOMAIN d.penalties
                /\ d.penalties[k].fromStrikes /\ d.penalties[k].active
      BY <1>1, <2>1 DEF Penalties
    <2> QED BY <1>2, <1>4, <2>1, <2>2
  <1> QED BY <1>3, <1>4

\* Neither an award nor a revocation leaves a group unconverted.
LEMMA RewriteSettles ==
    ASSUME NEW Source, NEW d \in Records(Source), NEW limit \in Nat \ {0}
    PROVE  /\ \A by \in Source : Cardinality(Free(AwardStrikes(d, by, limit))) < limit
           /\ \A r \in DOMAIN d.strikes :
                 Cardinality(Free(RecomputeAfterRevoke(d, r, limit))) < limit
  <1>1. ASSUME NEW by \in Source
        PROVE  Cardinality(Free(AwardStrikes(d, by, limit))) < limit
    <2>1. /\ AwardStrikes(d, by, limit) = MaybeConvert(Given(d, by), limit)
          /\ Given(d, by) \in Records(Source)
      BY AwardGives
    <2> QED BY <2>1, ConvertSettles
  <1>2. ASSUME NEW r \in DOMAIN d.strikes
        PROVE  Cardinality(Free(RecomputeAfterRevoke(d, r, limit))) < limit
    <2>1. /\ RecomputeAfterRevoke(d, r, limit) = MaybeConvert(Freed(d, r, limit), limit)
          /\ Freed(d, r, limit) \in Records(Source)
      BY RevokeFrees
    <2> QED BY <2>1, ConvertSettles
  <1> QED BY <1>1, <1>2

-----------------------------------------------------------------------------
(* RoundPipeline.                                                           *)

\* The conjuncts of TypeOK, grouped as the actions change them.
JobTypes ==
    /\ rounds \in Seq(Rounds)
    /\ \A i, k \in DOMAIN rounds : rounds[i] = rounds[k] => i = k
    /\ finalized \subseteq Listed
    /\ cancelled \in BOOLEAN /\ reordered \in BOOLEAN
NamedType == named \subseteq Listed
AppTypes ==
    /\ status \in [Apps -> Statuses]
    /\ position \in [Apps -> Places]
    /\ states \in [Apps -> [Rounds -> RoundStates]]
    /\ standing \subseteq Apps
CascadeTypes == cascades \in [Apps -> Seq([from : EXIT_CASCADE_STATUSES, round : Places])]
ExceptionTypes ==
    /\ strayed \subseteq Apps /\ leapt \subseteq Apps
    /\ forced \subseteq Apps /\ inactive \subseteq Apps
DisciplineTypes ==
    /\ record \in [Apps -> Records(Places)]
    /\ threshold \in Thresholds /\ retuned \in BOOLEAN
BoundType == interventions \in 0..MaxInterventions

LEMMA TypeParts ==
    TypeOK <=> /\ JobTypes /\ NamedType /\ AppTypes /\ CascadeTypes
               /\ ExceptionTypes /\ DisciplineTypes /\ BoundType
  BY DEF TypeOK, JobTypes, NamedType, AppTypes, CascadeTypes, ExceptionTypes,
         DisciplineTypes, BoundType

LEMMA NextTypeParts ==
    /\ JobTypes' /\ NamedType' /\ AppTypes' /\ CascadeTypes'
    /\ ExceptionTypes' /\ DisciplineTypes' /\ BoundType'
    => TypeOK'
  BY DEF TypeOK, JobTypes, NamedType, AppTypes, CascadeTypes, ExceptionTypes,
         DisciplineTypes, BoundType

-----------------------------------------------------------------------------
(* The inductive invariant.  An application sits in a round that exists     *)
(* because an event names the round or a state of the application holds it;  *)
(* cascade events and round states refer to rounds that exist; a restoration *)
(* that nothing has overtaken leads back to where the application stands.    *)

Routed == \A a \in Apps :
    position[a] # NoRound =>
        position[a] \in named \/ states[a][position[a]] # NoState
StatesListed == \A a \in Apps, r \in Rounds : states[a][r] # NoState => r \in Listed
CascadesNamed == \A a \in Apps : \A k \in DOMAIN cascades[a] :
    cascades[a][k].round \in named \cup {NoRound}
StandingAgrees == \A a \in standing :
    /\ status[a] # "in_progress"
    /\ cascades[a] # <<>>
    /\ cascades[a][Len(cascades[a])].round = position[a]
UnfiledUntouched == \A a \in Apps :
    status[a] = "none" => \A r \in Rounds : states[a][r] = NoState

\* Ahead of where an application sits it has no round state yet.
ClearAhead == ~reordered => \A a \in Apps \ strayed :
    position[a] # NoRound => \A r \in After(position[a]) : states[a][r] = NoState

PipelineInv ==
    /\ TypeOK /\ Routed /\ StatesListed /\ CascadesNamed
    /\ StandingAgrees /\ UnfiledUntouched /\ ClearAhead

-----------------------------------------------------------------------------
(* Facts about the order of the rounds.                                     *)

LEMMA StateFacts ==
    /\ NoState \in RoundStates /\ PendingState \in RoundStates
    /\ PendingState # NoState
    /\ \A s \in RoundStates, x \in Results, y \in Attendances :
          s # NoState =>
             /\ [s EXCEPT !.result = x] \in RoundStates \ {NoState}
             /\ [s EXCEPT !.attendance = y] \in RoundStates \ {NoState}
             /\ [result |-> x, attendance |-> y] \in RoundStates \ {NoState}
  BY DEF NoState, PendingState, RoundStates, Results, Attendances

LEMMA PlaceFacts ==
    ASSUME TypeOK, Routed, StatesListed, NEW a \in Apps
    PROVE  /\ position[a] \in Listed \cup {NoRound}
           /\ position[a] \in Places /\ NoRound \notin Listed
           /\ Listed \subseteq Rounds
           /\ HasState(a) => position[a] \in Rounds /\ states[a][position[a]] \in RoundStates
  <1>1. Listed \subseteq Rounds
    BY DEF TypeOK, Listed
  <1>2. position[a] \in Places
    BY DEF TypeOK
  <1>3. position[a] \in Listed \cup {NoRound}
    BY <1>2 DEF TypeOK, Routed, StatesListed, Places
  <1>4. HasState(a) => position[a] \in Rounds /\ states[a][position[a]] \in RoundStates
    BY <1>2 DEF TypeOK, HasState, Places
  <1> QED BY <1>1, <1>2, <1>3, <1>4, PipelineAssumption

LEMMA OrdFacts ==
    ASSUME TypeOK, NEW r \in Listed
    PROVE  /\ Ord(r) \in DOMAIN rounds /\ rounds[Ord(r)] = r
           /\ Ord(r) \in 1..Len(rounds) /\ Len(rounds) \in Nat
           /\ r \notin After(r) /\ After(r) \subseteq Listed
  <1>1. \E i \in DOMAIN rounds : rounds[i] = r
    BY DEF Listed
  <1>2. Ord(r) \in DOMAIN rounds /\ rounds[Ord(r)] = r
    BY <1>1 DEF Ord
  <1>3. Ord(r) \in 1..Len(rounds) /\ Len(rounds) \in Nat
    BY <1>2 DEF TypeOK
  <1>4. r \notin After(r)
    BY <1>2, <1>3 DEF After, TypeOK
  <1>5. After(r) \subseteq Listed
    BY DEF After, Listed
  <1> QED BY <1>2, <1>3, <1>4, <1>5

\* The next round is ahead, and what is ahead of it was ahead before.
LEMMA NextRoundFacts ==
    ASSUME TypeOK, NEW r \in Listed, NextRound(r) # NoRound
    PROVE  /\ NextRound(r) \in After(r) /\ NextRound(r) \in Listed
           /\ After(NextRound(r)) \subseteq After(r) \ {NextRound(r)}
  <1> DEFINE n == Ord(r) next == rounds[n + 1]
  <1>1. /\ n \in DOMAIN rounds /\ rounds[n] = r /\ n \in 1..Len(rounds) /\ Len(rounds) \in Nat
        /\ DOMAIN rounds = 1..Len(rounds)
    <2>1. DOMAIN rounds = 1..Len(rounds)
      BY DEF TypeOK
    <2> QED BY <2>1, OrdFacts
  <1>2. n < Len(rounds) /\ NextRound(r) = next
    BY DEF NextRound
  <1>3. n + 1 \in DOMAIN rounds /\ n + 1 > n
    BY <1>1, <1>2
  <1>4. next \in After(r) /\ next \in Listed
    BY <1>3 DEF After, Listed
  <1>5. Ord(next) = n + 1
    <2>1. Ord(next) \in DOMAIN rounds /\ rounds[Ord(next)] = next
      BY <1>4, OrdFacts
    <2> QED BY <1>3, <2>1 DEF TypeOK
  <1>6. ASSUME NEW x \in After(next)
        PROVE  x \in After(r)
    <2>1. PICK k \in DOMAIN rounds : k > n + 1 /\ rounds[k] = x
      BY <1>5 DEF After
    <2>2. k > n
      BY <1>1, <2>1
    <2> QED BY <2>1, <2>2 DEF After
  <1>7. next \notin After(next)
    BY <1>4, OrdFacts
  <1> QED BY <1>2, <1>4, <1>6, <1>7

\* While the rounds stay, so does what is ahead.
LEMMA RoundsKept ==
    ASSUME UNCHANGED rounds
    PROVE  Listed' = Listed /\ \A r : After(r)' = After(r)
  BY DEF Listed, After, Ord

LEMMA NextClearAhead ==
    ASSUME UNCHANGED rounds,
           ~reordered' => \A a \in Apps \ strayed' :
               position'[a] # NoRound =>
                   \A r \in After(position'[a]) : states'[a][r] = NoState
    PROVE  ClearAhead'
  BY DEF ClearAhead, After, Ord

-----------------------------------------------------------------------------
(* The two shapes of a step that leaves the rounds alone.                   *)

\* A command that writes one application, event included.
LEMMA WriteKeeps ==
    ASSUME PipelineInv, NEW a \in Apps, NEW to \in Statuses \ {"none"},
           NEW place \in Listed \cup {NoRound}, NEW rows \in [Rounds -> RoundStates],
           Write(a, to, place, rows), UNCHANGED <<rounds, reordered>>,
           strayed \subseteq strayed',
           \A r \in Rounds : rows[r] # NoState => r \in Listed,
           place # NoRound /\ ~reordered /\ a \notin strayed'
              => \A r \in After(place) : rows[r] = NoState
    PROVE  /\ AppTypes' /\ NamedType' /\ Routed' /\ StatesListed'
           /\ UnfiledUntouched' /\ ClearAhead'
           /\ UNCHANGED cascades => CascadesNamed' /\ StandingAgrees'
  <1> USE DEF PipelineInv
  <1>1. Listed' = Listed /\ \A r : After(r)' = After(r)
    BY RoundsKept
  <1>2. /\ position[a] \in Listed \cup {NoRound} /\ Listed \subseteq Rounds
        /\ NoRound \notin Listed
    BY PlaceFacts
  <1>3. place \in Places
    BY <1>2 DEF Places
  <1>4. /\ status \in [Apps -> Statuses] /\ position \in [Apps -> Places]
        /\ states \in [Apps -> [Rounds -> RoundStates]] /\ standing \subseteq Apps
    BY DEF TypeOK
  <1>5. /\ status' = [status EXCEPT ![a] = to]
        /\ position' = [position EXCEPT ![a] = place]
        /\ states' = [states EXCEPT ![a] = rows]
        /\ named' = named \cup ({position[a], place} \ {NoRound})
        /\ standing' = standing \ {a}
    BY DEF Write
  <1>6. AppTypes'
    BY <1>3, <1>4, <1>5 DEF AppTypes
  <1>7. NamedType'
    BY <1>1, <1>2, <1>5 DEF NamedType, TypeOK
  <1>8. Routed'
    BY <1>4, <1>5 DEF Routed
  <1>9. StatesListed'
    BY <1>1, <1>4, <1>5 DEF StatesListed
  <1>10. UnfiledUntouched'
    BY <1>4, <1>5 DEF UnfiledUntouched
  <1>11. ClearAhead'
    <2> SUFFICES ASSUME ~reordered', NEW b \in Apps \ strayed',
                        position'[b] # NoRound, NEW r \in After(position'[b])
                 PROVE  states'[b][r] = NoState
      BY NextClearAhead
    <2>1. CASE b = a
      BY <1>4, <1>5, <2>1
    <2>2. CASE b # a
      BY <1>4, <1>5, <2>2 DEF ClearAhead
    <2> QED BY <2>1, <2>2
  <1>12. ASSUME UNCHANGED cascades
         PROVE  CascadesNamed' /\ StandingAgrees'
    BY <1>4, <1>5, <1>12 DEF CascadesNamed, StandingAgrees
  <1> QED BY <1>6, <1>7, <1>8, <1>9, <1>10, <1>11, <1>12

\* A step that moves nobody and neither creates nor deletes a round state.
LEMMA PlacesKept ==
    ASSUME PipelineInv, UNCHANGED <<rounds, reordered, position, strayed>>,
           states' \in [Apps -> [Rounds -> RoundStates]],
           \A a \in Apps, r \in Rounds : states'[a][r] = NoState <=> states[a][r] = NoState,
           named \subseteq named', named' \subseteq Listed
    PROVE  NamedType' /\ Routed' /\ StatesListed' /\ ClearAhead'
  <1>1. Listed' = Listed /\ \A r : After(r)' = After(r)
    BY RoundsKept
  <1>2. NamedType' /\ StatesListed'
    BY <1>1 DEF NamedType, PipelineInv, StatesListed
  <1>3. Routed'
    BY DEF PipelineInv, Routed, TypeOK, Places
  <1>4. ClearAhead'
    <2> SUFFICES ASSUME ~reordered', NEW b \in Apps \ strayed',
                        position'[b] # NoRound, NEW r \in After(position'[b])
                 PROVE  states'[b][r] = NoState
      BY NextClearAhead
    <2>1. position[b] \in Listed /\ Listed \subseteq Rounds
      BY PlaceFacts DEF PipelineInv
    <2>2. r \in Rounds
      BY <2>1, OrdFacts DEF PipelineInv
    <2>3. states[b][r] = NoState
      BY DEF PipelineInv, ClearAhead
    <2> QED BY <2>2, <2>3
  <1> QED BY <1>2, <1>3, <1>4

LEMMA WriteStep ==
    ASSUME PipelineInv, NEW a \in Apps, NEW to \in Statuses \ {"none"},
           NEW place \in Listed \cup {NoRound}, NEW rows \in [Rounds -> RoundStates],
           Write(a, to, place, rows), UNCHANGED <<jobVars, cascades, disciplineVars>>,
           strayed \subseteq strayed', ExceptionTypes', BoundType',
           \A r \in Rounds : rows[r] # NoState => r \in Listed,
           place # NoRound /\ ~reordered /\ a \notin strayed'
              => \A r \in After(place) : rows[r] = NoState
    PROVE  PipelineInv'
  <1>1. /\ AppTypes' /\ NamedType' /\ Routed' /\ StatesListed'
        /\ UnfiledUntouched' /\ ClearAhead' /\ CascadesNamed' /\ StandingAgrees'
    BY WriteKeeps DEF jobVars
  <1>2. JobTypes' /\ CascadeTypes' /\ DisciplineTypes'
    <2>1. JobTypes /\ CascadeTypes /\ DisciplineTypes
      BY TypeParts DEF PipelineInv
    <2> QED BY <2>1 DEF JobTypes, Listed, CascadeTypes, DisciplineTypes, jobVars, disciplineVars
  <1>3. TypeOK'
    BY <1>1, <1>2, NextTypeParts
  <1> QED BY <1>1, <1>3 DEF PipelineInv

\* The application stays in its round and gains or loses no round state.
LEMMA WriteInPlace ==
    ASSUME PipelineInv, NEW a \in Apps, NEW to \in Statuses \ {"none"},
           NEW rows \in [Rounds -> RoundStates],
           \A r \in Rounds : rows[r] = NoState <=> states[a][r] = NoState,
           Write(a, to, position[a], rows), UNCHANGED <<jobVars, cascades, disciplineVars>>,
           strayed \subseteq strayed', ExceptionTypes', BoundType'
    PROVE  PipelineInv'
  <1>1. position[a] \in Listed \cup {NoRound} /\ Listed \subseteq Rounds
    BY PlaceFacts DEF PipelineInv
  <1>2. \A r \in Rounds : rows[r] # NoState => r \in Listed
    BY DEF PipelineInv, StatesListed
  <1>3. ASSUME position[a] # NoRound, ~reordered, a \notin strayed', NEW r \in After(position[a])
        PROVE  rows[r] = NoState
    <2>1. r \in Rounds
      BY <1>1, <1>3, OrdFacts DEF PipelineInv
    <2>2. states[a][r] = NoState
      BY <1>3 DEF PipelineInv, ClearAhead
    <2> QED BY <2>1, <2>2
  <1> QED BY <1>1, <1>2, <1>3, WriteStep

LEMMA ResultSetFacts ==
    ASSUME PipelineInv, NEW a \in Apps, NEW x \in Results
    PROVE  /\ ResultSet(a, x) \in [Rounds -> RoundStates]
           /\ \A r \in Rounds : ResultSet(a, x)[r] = NoState <=> states[a][r] = NoState
  <1>1. states[a] \in [Rounds -> RoundStates]
    BY DEF PipelineInv, TypeOK
  <1>2. CASE HasState(a)
    <2>1. position[a] \in Rounds /\ states[a][position[a]] \in RoundStates
      BY <1>2, PlaceFacts DEF PipelineInv
    <2>2. [states[a][position[a]] EXCEPT !.result = x] \in RoundStates \ {NoState}
      BY <1>2, <2>1, StateFacts DEF HasState, Attendances
    <2>3. ResultSet(a, x) =
            [states[a] EXCEPT ![position[a]] = [states[a][position[a]] EXCEPT !.result = x]]
      BY <1>1, <1>2, <2>1 DEF ResultSet
    <2> QED BY <1>1, <1>2, <2>1, <2>2, <2>3 DEF HasState
  <1>3. CASE ~HasState(a)
    BY <1>1, <1>3 DEF ResultSet
  <1> QED BY <1>2, <1>3

LEMMA InvParts ==
    PipelineInv =>
        /\ JobTypes /\ NamedType /\ AppTypes /\ CascadeTypes
        /\ ExceptionTypes /\ DisciplineTypes /\ BoundType
  BY TypeParts DEF PipelineInv

LEMMA InterveneBound == BoundType /\ Intervene => BoundType'
  BY PipelineAssumption DEF BoundType, Intervene

LEMMA KeptExceptions == ExceptionTypes /\ UNCHANGED exceptionVars => ExceptionTypes'
  BY DEF ExceptionTypes, exceptionVars

LEMMA KeptBound == BoundType /\ UNCHANGED interventions => BoundType'
  BY DEF BoundType

-----------------------------------------------------------------------------
(* The student and the board.                                               *)

LEMMA ApplyStep == ASSUME PipelineInv, NEW a \in Apps, Apply(a) PROVE PipelineInv'
  <1>1. status[a] = "none"
    BY DEF Apply, Decide, Legal, TRANSITIONS, Row
  <1>2. states[a] \in [Rounds -> RoundStates] /\ \A r \in Rounds : states[a][r] = NoState
    BY <1>1 DEF PipelineInv, TypeOK, UnfiledUntouched
  <1>3. ExceptionTypes' /\ BoundType' /\ UNCHANGED <<jobVars, cascades, disciplineVars, strayed>>
    BY InvParts, KeptExceptions, KeptBound DEF Apply, exceptionVars
  <1>4. "in_progress" \in Statuses \ {"none"}
    BY DEF Statuses
  <1>5. CASE rounds = <<>>
    <2>1. Write(a, "in_progress", NoRound, states[a])
      BY <1>5 DEF Apply, FirstRound
    <2> QED BY <1>2, <1>3, <1>4, <2>1, WriteStep
  <1>6. CASE rounds # <<>>
    <2> DEFINE first == rounds[1] rows == [states[a] EXCEPT ![first] = PendingState]
    <2>1. 1 \in DOMAIN rounds /\ first \in Listed /\ first \in Rounds
      BY <1>6 DEF PipelineInv, TypeOK, Listed
    <2>2. Write(a, "in_progress", first, rows)
      BY <1>6 DEF Apply, FirstRound
    <2>3. rows \in [Rounds -> RoundStates] /\ \A r \in Rounds : rows[r] # NoState => r = first
      BY <1>2, <2>1, StateFacts
    <2>4. \A r \in After(first) : r \in Rounds /\ r # first
      BY <2>1, OrdFacts, PlaceFacts DEF PipelineInv
    <2>5. \A r \in After(first) : rows[r] = NoState
      BY <2>3, <2>4
    <2> HIDE DEF rows, first
    <2> QED BY <1>3, <1>4, <2>1, <2>2, <2>3, <2>5, WriteStep
  <1> QED BY <1>5, <1>6

\* Commands that change the status alone.
LEMMA StatusStep ==
    ASSUME PipelineInv, NEW a \in Apps, NEW to \in Statuses \ {"none"},
           Write(a, to, position[a], states[a]), UNCHANGED <<jobVars, cascades, disciplineVars>>,
           strayed \subseteq strayed', ExceptionTypes', BoundType'
    PROVE  PipelineInv'
  <1>1. states[a] \in [Rounds -> RoundStates]
    BY DEF PipelineInv, TypeOK
  <1> QED BY <1>1, WriteInPlace

LEMMA WithdrawStep == ASSUME PipelineInv, NEW a \in Apps, Withdraw(a) PROVE PipelineInv'
  <1>1. ExceptionTypes' /\ BoundType'
    BY InvParts, KeptExceptions, KeptBound DEF Withdraw
  <1>2. "withdrawn" \in Statuses \ {"none"}
    BY DEF Statuses
  <1>3. UNCHANGED <<jobVars, cascades, disciplineVars, strayed>>
    BY DEF Withdraw, exceptionVars
  <1> QED BY <1>1, <1>2, <1>3, StatusStep DEF Withdraw

LEMMA ExtendOfferStep == ASSUME PipelineInv, NEW a \in Apps, ExtendOffer(a) PROVE PipelineInv'
  <1>1. ExceptionTypes' /\ BoundType'
    BY InvParts, KeptExceptions, KeptBound DEF ExtendOffer
  <1>2. "offered" \in Statuses \ {"none"}
    BY DEF Statuses
  <1>3. UNCHANGED <<jobVars, cascades, disciplineVars, strayed>>
    BY DEF ExtendOffer, exceptionVars
  <1> QED BY <1>1, <1>2, <1>3, StatusStep DEF ExtendOffer

LEMMA EliminateStep == ASSUME PipelineInv, NEW a \in Apps, Eliminate(a) PROVE PipelineInv'
  <1>1. ExceptionTypes' /\ BoundType'
    BY InvParts, KeptExceptions, KeptBound DEF Eliminate
  <1>2. "rejected" \in Statuses \ {"none"} /\ "eliminated" \in Results
    BY DEF Statuses, Results
  <1>3. UNCHANGED <<jobVars, cascades, disciplineVars, strayed>>
    BY DEF Eliminate, exceptionVars
  <1> QED BY <1>1, <1>2, <1>3, ResultSetFacts, WriteInPlace DEF Eliminate

LEMMA WaitlistStep == ASSUME PipelineInv, NEW a \in Apps, Waitlist(a) PROVE PipelineInv'
  <1>1. ExceptionTypes' /\ BoundType'
    BY InvParts, KeptExceptions, KeptBound DEF Waitlist
  <1>2. "in_progress" \in Statuses \ {"none"} /\ "waitlisted" \in Results
    BY DEF Statuses, Results
  <1>3. UNCHANGED <<jobVars, cascades, disciplineVars, strayed>>
    BY DEF Waitlist, exceptionVars
  <1> QED BY <1>1, <1>2, <1>3, ResultSetFacts, WriteInPlace DEF Waitlist

LEMMA MoveOnStep ==
    ASSUME PipelineInv, NEW a \in Apps, HasState(a), MoveOn(a),
           UNCHANGED <<jobVars, cascades, exceptionVars, disciplineVars, interventions>>
    PROVE  PipelineInv'
  <1> DEFINE here == position[a]
             next == NextRound(here)
             decided == ResultSet(a, "advanced")
  <1>1. ExceptionTypes' /\ BoundType' /\ UNCHANGED strayed
    BY InvParts, KeptExceptions, KeptBound DEF exceptionVars
  <1>2. /\ "in_progress" \in Statuses \ {"none"} /\ "pending_offer" \in Statuses \ {"none"}
        /\ "advanced" \in Results
    BY DEF Statuses, Results
  <1>3. /\ decided \in [Rounds -> RoundStates]
        /\ \A r \in Rounds : decided[r] = NoState <=> states[a][r] = NoState
    BY <1>2, ResultSetFacts
  <1>4. here \in Listed /\ here # NoRound /\ Listed \subseteq Rounds /\ NoRound \notin Listed
    BY PlaceFacts DEF PipelineInv, HasState
  <1>5. CASE next = NoRound /\ Write(a, "pending_offer", here, decided)
    BY <1>1, <1>2, <1>3, <1>5, WriteInPlace
  <1>6. CASE /\ next # NoRound
             /\ Write(a, "in_progress", next, [decided EXCEPT ![next] = PendingState])
    <2> DEFINE rows == [decided EXCEPT ![next] = PendingState]
    <2>1. next \in After(here) /\ next \in Listed /\ After(next) \subseteq After(here) \ {next}
      BY <1>4, <1>6, NextRoundFacts DEF PipelineInv
    <2>2. rows \in [Rounds -> RoundStates] /\ \A r \in Rounds \ {next} : rows[r] = decided[r]
      BY <1>3, StateFacts
    <2>3. \A r \in Rounds : rows[r] # NoState => r \in Listed
      BY <1>3, <2>1, <2>2 DEF PipelineInv, StatesListed
    <2>4. ASSUME ~reordered, a \notin strayed', NEW r \in After(next)
          PROVE  rows[r] = NoState
      <3>1. r \in After(here) /\ r # next
        BY <2>1
      <3>2. r \in Rounds
        BY <1>4, <3>1, OrdFacts DEF PipelineInv
      <3>3. states[a][r] = NoState
        BY <1>1, <1>4, <2>4, <3>1 DEF PipelineInv, ClearAhead
      <3> QED BY <1>3, <2>2, <3>1, <3>2, <3>3
    <2> HIDE DEF rows, next, decided, here
    <2>5. Write(a, "in_progress", next, rows)
      BY <1>6 DEF rows
    <2> QED BY <1>1, <1>2, <2>1, <2>2, <2>3, <2>4, <2>5, WriteStep
  <1> QED BY <1>5, <1>6 DEF MoveOn

LEMMA AdvanceStep == ASSUME PipelineInv, NEW a \in Apps, Advance(a) PROVE PipelineInv'
  BY MoveOnStep DEF Advance, Advanceable

LEMMA PromoteStep == ASSUME PipelineInv, NEW a \in Apps, Promote(a) PROVE PipelineInv'
  BY MoveOnStep DEF Promote, Promotable

-----------------------------------------------------------------------------
(* Interventions, and what other parts of the portal do.                    *)

LEMMA ForceStep ==
    ASSUME PipelineInv, NEW a \in Apps, NEW to \in PipelineStatuses, ForceTransition(a, to)
    PROVE  PipelineInv'
  <1>1. to \in Statuses \ {"none"}
    BY DEF PipelineStatuses, Statuses
  <1>2. ExceptionTypes'
    BY InvParts DEF ForceTransition, ExceptionTypes
  <1>3. BoundType'
    BY InvParts, InterveneBound DEF ForceTransition
  <1>4. UNCHANGED <<jobVars, cascades, disciplineVars, strayed>>
    BY DEF ForceTransition
  <1> QED BY <1>1, <1>2, <1>3, <1>4, StatusStep DEF ForceTransition

LEMMA ReinstateStep ==
    ASSUME PipelineInv, NEW a \in Apps, NEW r \in Places, Reinstate(a, r)
    PROVE  PipelineInv'
  <1> DEFINE rows == IF r = NoRound THEN states[a]
                     ELSE [x \in Rounds |-> IF x = r THEN Reopened(states[a][r])
                                            ELSE IF x \in Cleared(r) THEN NoState
                                            ELSE states[a][x]]
  <1>1. Write(a, "in_progress", r, rows)
    BY DEF Reinstate
  <1>2. "in_progress" \in Statuses \ {"none"}
    BY DEF Statuses
  <1>3. ExceptionTypes'
    BY InvParts DEF Reinstate, ExceptionTypes
  <1>4. BoundType'
    BY InvParts, InterveneBound DEF Reinstate
  <1>5. UNCHANGED <<jobVars, cascades, disciplineVars, strayed>>
    BY DEF Reinstate
  <1>6. r \in Listed \cup {NoRound} /\ (r # NoRound => r \in Listed)
    BY DEF Reinstate
  <1>7. states[a] \in [Rounds -> RoundStates] /\ Listed \subseteq Rounds
    BY PlaceFacts DEF PipelineInv, TypeOK
  <1>8. r # NoRound => Reopened(states[a][r]) \in RoundStates
    BY <1>6, <1>7, StateFacts DEF Reopened, Results, Attendances
  <1>9. rows \in [Rounds -> RoundStates]
    BY <1>7, <1>8, StateFacts
  <1>10. \A x \in Rounds : rows[x] # NoState => x \in Listed
    BY <1>6 DEF PipelineInv, StatesListed
  <1>11. ASSUME r # NoRound, NEW x \in After(r)
         PROVE  rows[x] = NoState
    <2>1. x \in Rounds /\ x # r
      BY <1>6, <1>7, <1>11, OrdFacts DEF PipelineInv
    <2> QED BY <1>11, <2>1 DEF Cleared
  <1> HIDE DEF rows
  <1> QED BY <1>1, <1>2, <1>3, <1>4, <1>5, <1>6, <1>9, <1>10, <1>11, WriteStep

LEMMA RemoveFacts ==
    ASSUME NEW S, NEW s \in Seq(S), NEW k \in DOMAIN s
    PROVE  LET t == SubSeq(s, 1, k - 1) \o SubSeq(s, k + 1, Len(s)) IN
           t \in Seq(S) /\ \A j \in DOMAIN t : \E i \in DOMAIN s : t[j] = s[i]
  <1> DEFINE u == SubSeq(s, 1, k - 1) v == SubSeq(s, k + 1, Len(s)) t == u \o v
  <1>1. k \in 1..Len(s) /\ Len(s) \in Nat /\ DOMAIN s = 1..Len(s)
    OBVIOUS
  <1>2. u \in Seq(S) /\ Len(u) = k - 1 /\ \A j \in 1..(k - 1) : u[j] = s[j]
    BY <1>1
  <1>3. v \in Seq(S) /\ Len(v) = Len(s) - k /\ \A j \in 1..(Len(s) - k) : v[j] = s[j + k]
    BY <1>1
  <1> HIDE DEF u, v
  <1>4. /\ t \in Seq(S) /\ Len(t) = Len(u) + Len(v)
        /\ \A j \in 1..(Len(u) + Len(v)) : t[j] = IF j <= Len(u) THEN u[j] ELSE v[j - Len(u)]
    BY <1>2, <1>3, ConcatProperties
  <1> HIDE DEF t
  <1>5. ASSUME NEW j \in 1..(Len(s) - 1)
        PROVE  \E i \in DOMAIN s : t[j] = s[i]
    <2> /\ j \in 1..(Len(u) + Len(v)) /\ Len(u) = k - 1 /\ k \in Nat
      BY <1>1, <1>2, <1>3
    <2>1. CASE j <= k - 1
      <3>1. t[j] = u[j] /\ j \in 1..(k - 1) /\ j \in DOMAIN s
        BY <1>1, <1>4, <2>1
      <3> QED BY <1>2, <3>1
    <2>2. CASE j > k - 1
      <3>1. t[j] = v[j - (k - 1)]
        BY <1>1, <1>4, <2>2
      <3>2. j - (k - 1) \in 1..(Len(s) - k) /\ j + 1 \in DOMAIN s
        BY <1>1, <2>2
      <3>3. v[j - (k - 1)] = s[(j - (k - 1)) + k] /\ (j - (k - 1)) + k = j + 1
        BY <1>1, <1>3, <3>2
      <3> QED BY <3>1, <3>2, <3>3
    <2> QED BY <1>1, <2>1, <2>2
  <1>6. DOMAIN t = 1..(Len(s) - 1)
    <2>1. Len(t) = Len(s) - 1
      BY <1>1, <1>2, <1>3, <1>4
    <2> QED BY <1>4, <2>1
  <1> QED BY <1>4, <1>5, <1>6 DEF t, u, v

LEMMA RestoreSweptStep ==
    ASSUME PipelineInv, NEW a \in Apps, NEW k \in DOMAIN cascades[a], RestoreSwept(a, k)
    PROVE  PipelineInv'
  <1> DEFINE e == cascades[a][k]
             rest == SubSeq(cascades[a], 1, k - 1)
                        \o SubSeq(cascades[a], k + 1, Len(cascades[a]))
             Swept == [from : EXIT_CASCADE_STATUSES, round : Places]
  <1>1. /\ cascades \in [Apps -> Seq(Swept)] /\ cascades[a] \in Seq(Swept) /\ e \in Swept
        /\ states[a] \in [Rounds -> RoundStates]
    <2>1. cascades \in [Apps -> Seq(Swept)] /\ states[a] \in [Rounds -> RoundStates]
      BY DEF PipelineInv, TypeOK
    <2> HIDE DEF Swept
    <2> QED BY <2>1
  <1>2. e.from \in Statuses \ {"none"}
    BY <1>1 DEF EXIT_CASCADE_STATUSES, Statuses
  <1>3. e.round \in Listed \cup {NoRound}
    BY DEF PipelineInv, CascadesNamed, TypeOK
  <1>4. /\ Write(a, e.from, e.round, states[a])
        /\ cascades' = [cascades EXCEPT ![a] = rest]
        /\ UNCHANGED <<jobVars, disciplineVars>> /\ UNCHANGED <<inactive, leapt, forced>>
    BY DEF RestoreSwept
  <1>5. strayed \subseteq strayed' /\ strayed' \subseteq Apps
    BY DEF RestoreSwept, PipelineInv, TypeOK
  <1>6. ExceptionTypes'
    BY <1>4, <1>5, InvParts DEF ExceptionTypes
  <1>7. BoundType'
    BY InvParts, InterveneBound DEF RestoreSwept
  <1>8. \A r \in Rounds : states[a][r] # NoState => r \in Listed
    BY DEF PipelineInv, StatesListed
  <1>9. ASSUME e.round # NoRound, ~reordered, a \notin strayed', NEW r \in After(e.round)
        PROVE  states[a][r] = NoState
    <2>1. a \in standing /\ k = Len(cascades[a])
      BY <1>9 DEF RestoreSwept
    <2>2. e.round = position[a]
      BY <2>1 DEF PipelineInv, StandingAgrees
    <2> QED BY <1>5, <1>9, <2>2 DEF PipelineInv, ClearAhead
  <1>10. rest \in Seq(Swept) /\ \A j \in DOMAIN rest : \E i \in DOMAIN cascades[a] : rest[j] = cascades[a][i]
    <2> HIDE DEF Swept
    <2> QED BY <1>1, RemoveFacts
  <1> HIDE DEF e, rest
  <1>11. UNCHANGED <<rounds, reordered>>
    BY <1>4 DEF jobVars
  <1>12. /\ AppTypes' /\ NamedType' /\ Routed' /\ StatesListed'
         /\ UnfiledUntouched' /\ ClearAhead'
    BY <1>1, <1>2, <1>3, <1>4, <1>5, <1>8, <1>9, <1>11, WriteKeeps
  <1>13. named \subseteq named' /\ standing' = standing \ {a}
         /\ \A b \in Apps \ {a} : status'[b] = status[b] /\ position'[b] = position[b]
    BY <1>4 DEF Write, PipelineInv, TypeOK
  <1>14. CascadeTypes'
    BY <1>1, <1>4, <1>10 DEF CascadeTypes
  <1>15. CascadesNamed'
    <2> SUFFICES ASSUME NEW b \in Apps, NEW j \in DOMAIN cascades'[b]
                 PROVE  cascades'[b][j].round \in named' \cup {NoRound}
      BY DEF CascadesNamed
    <2>1. \E i \in DOMAIN cascades[b] : cascades'[b][j] = cascades[b][i]
      BY <1>1, <1>4, <1>10
    <2> QED BY <1>13, <2>1 DEF PipelineInv, CascadesNamed
  <1>16. StandingAgrees'
    <2> SUFFICES ASSUME NEW b \in standing'
                 PROVE  /\ status'[b] # "in_progress"
                        /\ cascades'[b] # <<>>
                        /\ cascades'[b][Len(cascades'[b])].round = position'[b]
      BY DEF StandingAgrees
    <2>1. b \in standing /\ b \in Apps \ {a}
      BY <1>13 DEF PipelineInv, TypeOK
    <2>2. cascades'[b] = cascades[b]
      BY <1>1, <1>4, <2>1
    <2> QED BY <1>13, <2>1, <2>2 DEF PipelineInv, StandingAgrees
  <1>17. JobTypes' /\ DisciplineTypes'
    BY <1>4, InvParts DEF JobTypes, Listed, DisciplineTypes, jobVars, disciplineVars
  <1>18. TypeOK'
    BY <1>6, <1>7, <1>12, <1>14, <1>17, NextTypeParts
  <1> QED BY <1>12, <1>15, <1>16, <1>18 DEF PipelineInv

LEMMA SweptAwayStep == ASSUME PipelineInv, NEW a \in Apps, SweptAway(a) PROVE PipelineInv'
  <1> DEFINE swept == [from |-> status[a], round |-> position[a]]
             Swept == [from : EXIT_CASCADE_STATUSES, round : Places]
  <1>1. /\ status \in [Apps -> Statuses] /\ states \in [Apps -> [Rounds -> RoundStates]]
        /\ standing \subseteq Apps /\ cascades \in [Apps -> Seq(Swept)]
        /\ position \in [Apps -> Places]
    BY DEF PipelineInv, TypeOK
  <1>2. /\ status' = [status EXCEPT ![a] = "auto_withdrawn"]
        /\ named' = named \cup ({position[a]} \ {NoRound})
        /\ cascades' = [cascades EXCEPT ![a] = Append(cascades[a], swept)]
        /\ standing' = standing \cup {a}
        /\ UNCHANGED <<position, states>>
    BY DEF SweptAway
  <1>3. UNCHANGED <<rounds, finalized, cancelled, reordered, inactive, strayed, leapt, forced,
                    record, threshold, retuned>>
    BY DEF SweptAway, jobVars, exceptionVars, disciplineVars
  <1>4. swept \in Swept
    BY <1>1 DEF SweptAway
  <1>5. position[a] \in Listed \cup {NoRound} /\ named \subseteq Listed
    BY PlaceFacts DEF PipelineInv, TypeOK
  <1>6. NamedType' /\ Routed' /\ StatesListed' /\ ClearAhead'
    BY <1>1, <1>2, <1>3, <1>5, PlacesKept
  <1> HIDE DEF Swept
  <1>7. /\ Append(cascades[a], swept) \in Seq(Swept) /\ Append(cascades[a], swept) # <<>>
        /\ Len(Append(cascades[a], swept)) = Len(cascades[a]) + 1
        /\ Append(cascades[a], swept)[Len(cascades[a]) + 1] = swept
        /\ DOMAIN Append(cascades[a], swept) = 1..(Len(cascades[a]) + 1)
        /\ DOMAIN cascades[a] = 1..Len(cascades[a]) /\ Len(cascades[a]) \in Nat
        /\ \A k \in 1..Len(cascades[a]) : Append(cascades[a], swept)[k] = cascades[a][k]
    <2>1. cascades[a] \in Seq(Swept)
      BY <1>1
    <2> HIDE DEF swept
    <2> QED BY <1>4, <2>1
  <1>8. AppTypes'
    BY <1>1, <1>2 DEF AppTypes, Statuses
  <1>9. CascadeTypes'
    BY <1>1, <1>2, <1>7 DEF CascadeTypes, Swept
  <1>10. CascadesNamed'
    <2> SUFFICES ASSUME NEW b \in Apps, NEW k \in DOMAIN cascades'[b]
                 PROVE  cascades'[b][k].round \in named' \cup {NoRound}
      BY DEF CascadesNamed
    <2>1. CASE b = a /\ k = Len(cascades[a]) + 1
      <3>1. cascades'[b][k] = swept
        BY <1>1, <1>2, <1>7, <2>1
      <3> QED BY <1>2, <3>1
    <2>2. CASE b = a /\ k # Len(cascades[a]) + 1
      <3>1. cascades'[a] = Append(cascades[a], swept)
        BY <1>1, <1>2
      <3>2. k \in 1..Len(cascades[a])
        BY <1>7, <2>2, <3>1
      <3>3. cascades'[b][k] = cascades[a][k] /\ k \in DOMAIN cascades[a]
        BY <1>7, <2>2, <3>1, <3>2
      <3> QED BY <1>2, <3>3 DEF PipelineInv, CascadesNamed
    <2>3. CASE b # a
      <3>1. cascades'[b] = cascades[b]
        BY <1>1, <1>2, <2>3
      <3> QED BY <1>2, <3>1 DEF PipelineInv, CascadesNamed
    <2> QED BY <2>1, <2>2, <2>3
  <1>11. StandingAgrees'
    <2> SUFFICES ASSUME NEW b \in standing'
                 PROVE  /\ status'[b] # "in_progress"
                        /\ cascades'[b] # <<>>
                        /\ cascades'[b][Len(cascades'[b])].round = position'[b]
      BY DEF StandingAgrees
    <2>1. CASE b = a
      <3>1. cascades'[a] = Append(cascades[a], swept) /\ status'[a] = "auto_withdrawn"
        BY <1>1, <1>2
      <3> QED BY <1>2, <1>7, <2>1, <3>1
    <2>2. CASE b # a
      <3>1. cascades'[b] = cascades[b] /\ status'[b] = status[b] /\ b \in standing
        BY <1>1, <1>2, <2>2
      <3> QED BY <1>2, <3>1 DEF PipelineInv, StandingAgrees
    <2> QED BY <2>1, <2>2
  <1>12. UnfiledUntouched'
    BY <1>1, <1>2 DEF PipelineInv, UnfiledUntouched
  <1>13. JobTypes' /\ ExceptionTypes' /\ DisciplineTypes'
    BY <1>3, InvParts DEF JobTypes, Listed, ExceptionTypes, DisciplineTypes
  <1>14. BoundType'
    BY InvParts, InterveneBound DEF SweptAway
  <1>15. TypeOK'
    BY <1>6, <1>8, <1>9, <1>13, <1>14, NextTypeParts
  <1> QED BY <1>6, <1>10, <1>11, <1>12, <1>15 DEF PipelineInv

\* Steps that touch neither the job nor any application.
LEMMA ElsewhereKept ==
    ASSUME PipelineInv, UNCHANGED <<jobVars, appVars, cascades, strayed>>,
           ExceptionTypes', DisciplineTypes', BoundType'
    PROVE  PipelineInv'
  <1>1. UNCHANGED <<rounds, finalized, cancelled, reordered, status, position, states, named,
                    standing, cascades, strayed>>
    BY DEF jobVars, appVars
  <1>2. states' \in [Apps -> [Rounds -> RoundStates]] /\ named' \subseteq Listed
    BY <1>1 DEF PipelineInv, TypeOK
  <1>3. NamedType' /\ Routed' /\ StatesListed' /\ ClearAhead'
    BY <1>1, <1>2, PlacesKept
  <1>4. JobTypes' /\ AppTypes' /\ CascadeTypes'
    BY <1>1, InvParts DEF JobTypes, Listed, AppTypes, CascadeTypes
  <1>5. CascadesNamed' /\ StandingAgrees' /\ UnfiledUntouched'
    BY <1>1 DEF PipelineInv, CascadesNamed, StandingAgrees, UnfiledUntouched
  <1>6. TypeOK'
    BY <1>3, <1>4, NextTypeParts
  <1> QED BY <1>3, <1>5, <1>6 DEF PipelineInv

LEMMA ExitCycleStep == ASSUME PipelineInv, NEW a \in Apps, ExitCycle(a) PROVE PipelineInv'
  <1>1. ExceptionTypes'
    BY InvParts DEF ExitCycle, ExceptionTypes
  <1>2. BoundType'
    BY InvParts, InterveneBound DEF ExitCycle
  <1>3. UNCHANGED <<jobVars, cascades, disciplineVars, strayed>>
    BY DEF ExitCycle
  <1>4. CASE status[a] \in EXIT_CASCADE_STATUSES
    <2>1. Write(a, "auto_withdrawn", position[a], states[a])
      BY <1>4 DEF ExitCycle, ExitStatus
    <2>2. "auto_withdrawn" \in Statuses \ {"none"}
      BY DEF Statuses
    <2> QED BY <1>1, <1>2, <1>3, <2>1, <2>2, StatusStep
  <1>5. CASE status[a] \notin EXIT_CASCADE_STATUSES
    <2>1. UNCHANGED appVars
      BY <1>5 DEF ExitCycle
    <2>2. DisciplineTypes'
      BY <1>3, InvParts DEF DisciplineTypes, disciplineVars
    <2> QED BY <1>1, <1>2, <1>3, <2>1, <2>2, ElsewhereKept
  <1> QED BY <1>4, <1>5

LEMMA RestoreMembershipStep ==
    ASSUME PipelineInv, NEW a \in Apps, RestoreMembership(a)
    PROVE  PipelineInv'
  <1>1. ExceptionTypes'
    BY InvParts DEF RestoreMembership, ExceptionTypes
  <1>2. BoundType' /\ DisciplineTypes'
    BY InvParts, KeptBound DEF RestoreMembership, DisciplineTypes, disciplineVars
  <1> QED BY <1>1, <1>2, ElsewhereKept DEF RestoreMembership

-----------------------------------------------------------------------------
(* Attendance, finalization, discipline and the job.                        *)

LEMMA MarkAttendanceStep ==
    ASSUME PipelineInv, NEW a \in Apps, NEW r \in Rounds, NEW mark \in Marks,
           MarkAttendance(a, r, mark)
    PROVE  PipelineInv'
  <1>1. /\ status \in [Apps -> Statuses] /\ states \in [Apps -> [Rounds -> RoundStates]]
        /\ standing \subseteq Apps
    BY DEF PipelineInv, TypeOK
  <1>2. /\ states[a][r] # NoState
        /\ states' = [states EXCEPT ![a][r].attendance = mark]
        /\ named' = named \cup {r} /\ standing' = standing \ {a}
        /\ UNCHANGED <<status, position, cascades, record, threshold, retuned, interventions>>
        /\ UNCHANGED <<rounds, finalized, cancelled, reordered, inactive, strayed, leapt, forced>>
    BY DEF MarkAttendance, jobVars, exceptionVars, disciplineVars
  <1>3. [states[a][r] EXCEPT !.attendance = mark] \in RoundStates \ {NoState}
    <2>1. states[a][r] \in RoundStates
      BY <1>1
    <2>2. mark \in Attendances /\ "pending" \in Results
      BY PipelineAssumption DEF Attendances, Results
    <2> QED BY <1>2, <2>1, <2>2, StateFacts
  <1>4. /\ states' \in [Apps -> [Rounds -> RoundStates]]
        /\ \A b \in Apps, x \in Rounds : states'[b][x] = NoState <=> states[b][x] = NoState
    <2> DEFINE row == [states[a][r] EXCEPT !.attendance = mark]
    <2>1. states' = [states EXCEPT ![a] = [states[a] EXCEPT ![r] = row]]
      BY <1>1, <1>2
    <2> HIDE DEF row
    <2> QED BY <1>1, <1>2, <1>3, <2>1 DEF row
  <1>5. r \in Listed /\ named' \subseteq Listed
    BY <1>2 DEF PipelineInv, StatesListed, TypeOK
  <1>6. NamedType' /\ Routed' /\ StatesListed' /\ ClearAhead'
    BY <1>2, <1>4, <1>5, PlacesKept
  <1>7. JobTypes' /\ AppTypes' /\ CascadeTypes' /\ ExceptionTypes' /\ DisciplineTypes' /\ BoundType'
    <2>1. AppTypes'
      BY <1>1, <1>2, <1>4, InvParts DEF AppTypes
    <2>2. JobTypes' /\ CascadeTypes'
      BY <1>2, InvParts DEF JobTypes, Listed, CascadeTypes
    <2>3. ExceptionTypes' /\ DisciplineTypes' /\ BoundType'
      BY <1>2, InvParts DEF ExceptionTypes, DisciplineTypes, BoundType
    <2> QED BY <2>1, <2>2, <2>3
  <1>8. CascadesNamed' /\ StandingAgrees' /\ UnfiledUntouched'
    BY <1>1, <1>2, <1>4 DEF PipelineInv, CascadesNamed, StandingAgrees, UnfiledUntouched
  <1>9. TypeOK'
    BY <1>6, <1>7, NextTypeParts
  <1> QED BY <1>6, <1>8, <1>9 DEF PipelineInv

LEMMA ThresholdFacts == DisciplineTypes => threshold \in Nat
  BY PipelineAssumption DEF DisciplineTypes

LEMMA FinalizeRoundStep ==
    ASSUME PipelineInv, NEW r \in Rounds, FinalizeRound(r)
    PROVE  PipelineInv'
  <1> DEFINE row(a) == [result |-> "eliminated",
                        attendance |-> IF a \in Absent(r) THEN "absent" ELSE "excused"]
  <1>1. /\ status \in [Apps -> Statuses] /\ states \in [Apps -> [Rounds -> RoundStates]]
        /\ standing \subseteq Apps /\ record \in [Apps -> Records(Places)]
        /\ named \subseteq Listed /\ finalized \subseteq Listed
    BY DEF PipelineInv, TypeOK
  <1>2. /\ r \in Listed
        /\ finalized' = finalized \cup {r}
        /\ status' = [a \in Apps |-> IF a \in Closed(r) THEN "rejected" ELSE status[a]]
        /\ states' = [a \in Apps |-> IF a \in Closed(r) THEN [states[a] EXCEPT ![r] = row(a)]
                                     ELSE states[a]]
        /\ named \subseteq named' /\ named' \subseteq named \cup {r}
        /\ standing' = standing \ Closed(r)
    BY DEF FinalizeRound, Finalizable
  <1>3. UNCHANGED <<rounds, cancelled, reordered, position, cascades, inactive, strayed, leapt,
                    forced, threshold, retuned, interventions>>
    BY DEF FinalizeRound, exceptionVars
  <1>4. \A a \in Closed(r) : a \in Apps /\ states[a][r] # NoState
    BY DEF Closed
  <1>5. \A a \in Apps : row(a) \in RoundStates \ {NoState}
    BY DEF RoundStates, NoState, Results, Attendances
  <1> HIDE DEF row
  <1>6. /\ states' \in [Apps -> [Rounds -> RoundStates]]
        /\ \A b \in Apps, x \in Rounds : states'[b][x] = NoState <=> states[b][x] = NoState
    BY <1>1, <1>2, <1>4, <1>5
  <1>7. NamedType' /\ Routed' /\ StatesListed' /\ ClearAhead'
    <2>1. named' \subseteq Listed
      BY <1>1, <1>2
    <2> QED BY <1>2, <1>3, <1>6, <2>1, PlacesKept
  <1>8. AppTypes' /\ JobTypes' /\ CascadeTypes' /\ ExceptionTypes' /\ BoundType'
    <2>1. AppTypes'
      BY <1>1, <1>2, <1>3, <1>6, InvParts DEF AppTypes, Statuses
    <2>2. JobTypes'
      BY <1>2, <1>3, InvParts DEF JobTypes, Listed
    <2>3. CascadeTypes' /\ ExceptionTypes' /\ BoundType'
      BY <1>3, InvParts DEF CascadeTypes, ExceptionTypes, BoundType
    <2> QED BY <2>1, <2>2, <2>3
  <1>9. DisciplineTypes'
    <2>1. \A a \in Apps : AwardStrikes(record[a], r, threshold) \in Records(Places)
      BY <1>1, AwardKeeps, ThresholdFacts, InvParts DEF Places
    <2>2. record' \in [Apps -> Records(Places)]
      BY <1>1, <2>1 DEF FinalizeRound
    <2> QED BY <1>3, <2>2, InvParts DEF DisciplineTypes
  <1>10. CascadesNamed' /\ UnfiledUntouched' /\ StandingAgrees'
    <2>1. CascadesNamed'
      BY <1>2, <1>3 DEF PipelineInv, CascadesNamed
    <2>2. UnfiledUntouched'
      BY <1>1, <1>2, <1>6 DEF PipelineInv, UnfiledUntouched
    <2>3. StandingAgrees'
      BY <1>1, <1>2, <1>3 DEF PipelineInv, StandingAgrees
    <2> QED BY <2>1, <2>2, <2>3
  <1>11. TypeOK'
    BY <1>7, <1>8, <1>9, NextTypeParts
  <1> QED BY <1>7, <1>10, <1>11 DEF PipelineInv

LEMMA CancelJobStep ==
    ASSUME PipelineInv, NEW rows \in SUBSET Apps, CancelJob(rows)
    PROVE  PipelineInv'
  <1> DEFINE hit == {a \in rows : Decide(TRANSITIONS.cancel_job, a, "rejected", "staff")}
  <1>1. /\ status \in [Apps -> Statuses] /\ states \in [Apps -> [Rounds -> RoundStates]]
        /\ standing \subseteq Apps /\ named \subseteq Listed
    BY DEF PipelineInv, TypeOK
  <1>2. /\ cancelled' = TRUE
        /\ status' = [a \in Apps |-> IF a \in hit THEN "rejected" ELSE status[a]]
        /\ named' = named \cup ({position[a] : a \in hit} \ {NoRound})
        /\ standing' = standing \ hit
    BY DEF CancelJob
  <1>3. UNCHANGED <<rounds, finalized, reordered, position, states, cascades, inactive, strayed,
                    leapt, forced, record, threshold, retuned>>
    BY DEF CancelJob, exceptionVars, disciplineVars
  <1>4. hit \subseteq Apps
    OBVIOUS
  <1> HIDE DEF hit
  <1>5. named' \subseteq Listed
    BY <1>1, <1>2, <1>4, PlaceFacts DEF PipelineInv
  <1>6. NamedType' /\ Routed' /\ StatesListed' /\ ClearAhead'
    BY <1>1, <1>2, <1>3, <1>5, PlacesKept
  <1>7. AppTypes' /\ JobTypes' /\ CascadeTypes' /\ ExceptionTypes' /\ DisciplineTypes'
    BY <1>1, <1>2, <1>3, InvParts
    DEF JobTypes, Listed, AppTypes, CascadeTypes, ExceptionTypes, DisciplineTypes, Statuses
  <1>8. BoundType'
    BY InvParts, InterveneBound DEF CancelJob
  <1>9. CascadesNamed' /\ UnfiledUntouched' /\ StandingAgrees'
    BY <1>1, <1>2, <1>3 DEF PipelineInv, CascadesNamed, UnfiledUntouched, StandingAgrees
  <1>10. TypeOK'
    BY <1>6, <1>7, <1>8, NextTypeParts
  <1> QED BY <1>6, <1>9, <1>10 DEF PipelineInv

LEMMA RewriteStep ==
    ASSUME PipelineInv, NEW a \in Apps, NEW d \in Records(Places), Rewrite(a, d)
    PROVE  PipelineInv'
  <1>1. DisciplineTypes'
    BY InvParts DEF Rewrite, DisciplineTypes
  <1>2. ExceptionTypes' /\ BoundType' /\ UNCHANGED <<jobVars, appVars, cascades, strayed>>
    BY InvParts, KeptExceptions, InterveneBound DEF Rewrite, exceptionVars
  <1> QED BY <1>1, <1>2, ElsewhereKept

\* What each discipline command writes is a record.
LEMMA DisciplineWrites ==
    ASSUME PipelineInv, NEW a \in Apps
    PROVE  /\ AwardStrikes(record[a], NoRound, threshold) \in Records(Places)
           /\ \A i \in DOMAIN record[a].strikes :
                 RecomputeAfterRevoke(record[a], i, threshold) \in Records(Places)
           /\ [record[a] EXCEPT !.penalties = Append(@, Penalty(FALSE))] \in Records(Places)
           /\ \A p \in DOMAIN record[a].penalties :
                 [record[a] EXCEPT !.penalties[p].active = FALSE] \in Records(Places)
  <1> DEFINE d == record[a]
  <1>1. d \in Records(Places) /\ threshold \in Nat /\ NoRound \in Places
    BY ThresholdFacts, InvParts DEF DisciplineTypes, Places
  <1> HIDE DEF d
  <1>2. /\ d.strikes \in Seq(Strikes(Places)) /\ d.penalties \in Seq(Penalties)
        /\ d = [strikes |-> d.strikes, penalties |-> d.penalties]
    BY <1>1 DEF Records
  <1>3. Penalty(FALSE) \in Penalties
    BY DEF Penalty, Penalties
  <1>4. [d EXCEPT !.penalties = Append(@, Penalty(FALSE))] \in Records(Places)
    <2>1. Append(d.penalties, Penalty(FALSE)) \in Seq(Penalties)
      BY <1>2, <1>3, AppendProperties
    <2> QED BY <1>1, <1>2, <2>1 DEF Records
  <1>5. ASSUME NEW p \in DOMAIN d.penalties
        PROVE  [d EXCEPT !.penalties[p].active = FALSE] \in Records(Places)
    <2> DEFINE n == Len(d.penalties)
               revoked == [d.penalties EXCEPT ![p].active = FALSE]
    <2>1. d.penalties \in [1..n -> Penalties] /\ n \in Nat
      BY <1>2
    <2>2. [d.penalties[p] EXCEPT !.active = FALSE] \in Penalties
      BY <2>1 DEF Penalties
    <2>3. revoked \in [1..n -> Penalties]
      BY <2>1, <2>2
    <2> HIDE DEF revoked, n
    <2>4. revoked \in Seq(Penalties)
      BY <2>1, <2>3, FunctionIsSequence
    <2>5. [d EXCEPT !.penalties[p].active = FALSE] = [d EXCEPT !.penalties = revoked]
      BY <1>2 DEF revoked
    <2> QED BY <1>1, <1>2, <2>4, <2>5 DEF Records
  <1> QED BY <1>1, <1>4, <1>5, AwardKeeps, RevokeKeeps DEF d

LEMMA DisciplineCommands ==
    ASSUME PipelineInv, NEW a \in Apps,
           \/ AwardStrike(a) \/ AwardPenalty(a)
           \/ \E i \in DOMAIN record[a].strikes : RevokeStrike(a, i)
           \/ \E p \in DOMAIN record[a].penalties : RevokePenalty(a, p)
    PROVE  PipelineInv'
  <1>1. CASE AwardStrike(a)
    BY <1>1, DisciplineWrites, RewriteStep DEF AwardStrike
  <1>2. CASE AwardPenalty(a)
    BY <1>2, DisciplineWrites, RewriteStep DEF AwardPenalty
  <1>3. CASE \E i \in DOMAIN record[a].strikes : RevokeStrike(a, i)
    BY <1>3, DisciplineWrites, RewriteStep DEF RevokeStrike
  <1>4. CASE \E p \in DOMAIN record[a].penalties : RevokePenalty(a, p)
    BY <1>4, DisciplineWrites, RewriteStep DEF RevokePenalty
  <1> QED BY <1>1, <1>2, <1>3, <1>4

LEMMA SetThresholdStep ==
    ASSUME PipelineInv, NEW t \in Thresholds, SetThreshold(t)
    PROVE  PipelineInv'
  <1>1. DisciplineTypes'
    BY InvParts DEF SetThreshold, DisciplineTypes
  <1>2. ExceptionTypes' /\ BoundType' /\ UNCHANGED <<jobVars, appVars, cascades, strayed>>
    BY InvParts, KeptExceptions, InterveneBound DEF SetThreshold, exceptionVars
  <1> QED BY <1>1, <1>2, ElsewhereKept

-----------------------------------------------------------------------------
(* The builder.                                                             *)

LEMMA OrderFacts ==
    ASSUME NEW order \in Orders
    PROVE  /\ order \in Seq(Rounds)
           /\ \A i, k \in DOMAIN order : order[i] = order[k] => i = k
           /\ order # <<>> => 1 \in DOMAIN order
  <1>1. Cardinality(Rounds) \in Nat
    BY PipelineAssumption, FS_CardinalityType
  <1>2. PICK n \in 0..Cardinality(Rounds) : order \in [1..n -> Rounds]
    BY DEF Orders
  <1>3. n \in Nat
    BY <1>1, <1>2
  <1>4. order \in Seq(Rounds) /\ DOMAIN order = 1..n /\ Len(order) = n
    BY <1>2, <1>3, FunctionIsSequence
  <1>5. order # <<>> => 1 \in DOMAIN order
    BY <1>3, <1>4, EmptySeq
  <1> QED BY <1>4, <1>5 DEF Orders

LEMMA UpsertStep ==
    ASSUME PipelineInv, NEW order \in Orders, UpsertJobRounds(order)
    PROVE  PipelineInv'
  <1> DEFINE kept == {order[i] : i \in DOMAIN order}
             entering == IF order = <<>> THEN {} ELSE Backfilled
             swapped == \E r \in Listed \cap kept : \E x \in After(r) \cap kept :
                            \E i, k \in DOMAIN order :
                               order[i] = x /\ order[k] = r /\ i < k
  <1>1. /\ \A r \in Listed \ kept : Droppable(r)
        /\ rounds' = order /\ finalized' = finalized \cap kept
        /\ reordered' = (reordered \/ swapped)
        /\ position' = [a \in Apps |-> IF a \in entering THEN order[1] ELSE position[a]]
        /\ states' = [a \in Apps |-> IF a \in entering
                                     THEN [states[a] EXCEPT ![order[1]] = PendingState]
                                     ELSE states[a]]
    BY DEF UpsertJobRounds
  <1>2. UNCHANGED <<cancelled, status, named, standing, cascades, inactive, strayed, leapt,
                    forced, record, threshold, retuned>>
    BY DEF UpsertJobRounds, exceptionVars, disciplineVars
  <1>3. /\ status \in [Apps -> Statuses] /\ position \in [Apps -> Places]
        /\ states \in [Apps -> [Rounds -> RoundStates]] /\ standing \subseteq Apps
        /\ named \subseteq Listed /\ reordered \in BOOLEAN
    BY DEF PipelineInv, TypeOK
  <1>4. /\ order \in Seq(Rounds) /\ kept \subseteq Rounds
        /\ \A i, k \in DOMAIN order : order[i] = order[k] => i = k
        /\ order # <<>> => order[1] \in kept
    BY OrderFacts
  <1>5. Listed' = kept
    BY <1>1 DEF Listed
  <1>6. \A r \in Listed : r \in named \/ Reached(r) => r \in kept
    BY <1>1 DEF Droppable
  <1>7. \A a \in entering :
           /\ a \in Apps /\ status[a] = "in_progress" /\ position[a] = NoRound
           /\ Listed = {} /\ order # <<>> /\ order[1] \in kept
    <2>1. rounds = <<>> => Listed = {}
      BY DEF Listed
    <2> QED BY <1>4, <2>1 DEF Backfilled, Unrouted
  <1> HIDE DEF entering
  <1>8. \A a \in Apps : states'[a] \in [Rounds -> RoundStates]
    BY <1>1, <1>3, <1>4, <1>7, StateFacts
  <1>9. JobTypes'
    <2>1. finalized' \subseteq Listed'
      BY <1>1, <1>5
    <2>2. reordered' \in BOOLEAN /\ cancelled' \in BOOLEAN
      BY <1>1, <1>2, <1>3, InvParts DEF JobTypes
    <2> HIDE DEF kept, swapped
    <2> QED BY <1>1, <1>4, <2>1, <2>2 DEF JobTypes
  <1>10. AppTypes'
    <2>1. position' \in [Apps -> Places]
      BY <1>1, <1>3, <1>4, <1>7 DEF Places
    <2>2. states' \in [Apps -> [Rounds -> RoundStates]]
      BY <1>1, <1>8
    <2> QED BY <1>2, <1>3, <2>1, <2>2 DEF AppTypes
  <1>11. NamedType'
    BY <1>2, <1>3, <1>5, <1>6 DEF NamedType
  <1>12. CascadeTypes' /\ ExceptionTypes' /\ DisciplineTypes'
    BY <1>2, InvParts DEF CascadeTypes, ExceptionTypes, DisciplineTypes
  <1>13. BoundType'
    BY InvParts, InterveneBound DEF UpsertJobRounds
  <1>14. ASSUME NEW a \in Apps \ entering
         PROVE  position'[a] = position[a] /\ states'[a] = states[a]
    BY <1>1
  <1>15. ASSUME NEW a \in entering
         PROVE  /\ position'[a] = order[1] /\ states'[a][order[1]] = PendingState
                /\ \A r \in Rounds \ {order[1]} : states'[a][r] = NoState
    <2>1. \A r \in Rounds : states[a][r] = NoState
      BY <1>7 DEF PipelineInv, StatesListed
    <2> QED BY <1>1, <1>3, <1>4, <1>7, <2>1
  <1> HIDE DEF kept, swapped
  <1>16. Routed'
    <2> SUFFICES ASSUME NEW a \in Apps, position'[a] # NoRound
                 PROVE  position'[a] \in named' \/ states'[a][position'[a]] # NoState
      BY DEF Routed
    <2>1. CASE a \in entering
      BY <1>15, <2>1, StateFacts
    <2>2. CASE a \notin entering
      BY <1>2, <1>14, <2>2 DEF PipelineInv, Routed
    <2> QED BY <2>1, <2>2
  <1>17. StatesListed'
    <2> SUFFICES ASSUME NEW a \in Apps, NEW r \in Rounds, states'[a][r] # NoState
                 PROVE  r \in kept
      BY <1>5 DEF StatesListed
    <2>1. CASE a \in entering
      BY <1>7, <1>15, <2>1
    <2>2. CASE a \notin entering
      BY <1>6, <1>14, <2>2 DEF PipelineInv, StatesListed, Reached
    <2> QED BY <2>1, <2>2
  <1>18. CascadesNamed'
    BY <1>2 DEF PipelineInv, CascadesNamed
  <1>19. StandingAgrees'
    <2>1. \A a \in standing : a \in Apps \ entering
      BY <1>3, <1>7 DEF PipelineInv, StandingAgrees
    <2> QED BY <1>2, <1>14, <2>1 DEF PipelineInv, StandingAgrees
  <1>20. UnfiledUntouched'
    <2>1. \A a \in Apps : status[a] = "none" => a \notin entering
      BY <1>7
    <2> QED BY <1>2, <1>14, <2>1 DEF PipelineInv, UnfiledUntouched
  <1>21. ClearAhead'
    <2> SUFFICES ASSUME ~reordered', NEW a \in Apps \ strayed, position'[a] # NoRound,
                        NEW r \in After(position[a])'
                 PROVE  states'[a][r] = NoState
      BY <1>2 DEF ClearAhead
    <2> DEFINE p == position'[a]
    <2>1. PICK k \in DOMAIN order : /\ order[k] = r
                                    /\ k > (CHOOSE i \in DOMAIN order : order[i] = p)
      BY <1>1 DEF After, Ord
    <2>2. r \in kept /\ r \in Rounds
      BY <1>4, <2>1 DEF kept
    <2>3. p \in kept
      <3>1. CASE a \in entering
        BY <1>7, <1>15, <3>1
      <3>2. CASE a \notin entering
        <4>1. p = position[a] /\ p \in Listed /\ p \in Rounds
          BY <1>14, <3>2, PlaceFacts DEF PipelineInv
        <4>2. p \in named \/ Reached(p)
          BY <4>1 DEF PipelineInv, Routed, Reached
        <4> QED BY <1>6, <4>1, <4>2
      <3> QED BY <3>1, <3>2
    <2>4. PICK i \in DOMAIN order : order[i] = p /\ i < k
      <3>1. \E i \in DOMAIN order : order[i] = p
        BY <2>3 DEF kept
      <3> DEFINE i == CHOOSE i \in DOMAIN order : order[i] = p
      <3>2. i \in DOMAIN order /\ order[i] = p
        BY <3>1
      <3>3. DOMAIN order \subseteq Nat
        BY <1>4
      <3> HIDE DEF i
      <3>4. i < k
        <4>1. k > i
          BY <2>1 DEF i
        <4> QED BY <2>1, <3>2, <3>3, <4>1
      <3> QED BY <3>2, <3>4
    <2>5. r # p /\ DOMAIN order \subseteq Nat
      BY <1>4, <2>1, <2>4
    <2>6. CASE a \in entering
      BY <1>15, <2>2, <2>5, <2>6
    <2>7. CASE a \notin entering
      <3>1. p = position[a] /\ p \in Listed /\ states'[a] = states[a]
        BY <1>14, <2>7, PlaceFacts DEF PipelineInv
      <3>2. CASE r \notin Listed
        BY <2>2, <3>1, <3>2 DEF PipelineInv, StatesListed
      <3>3. CASE r \in Listed
        <4>1. p \in After(r) \/ r \in After(p)
          <5>1. /\ Ord(p) \in DOMAIN rounds /\ rounds[Ord(p)] = p /\ Ord(p) \in Nat
                /\ Ord(r) \in DOMAIN rounds /\ rounds[Ord(r)] = r /\ Ord(r) \in Nat
            BY <3>1, <3>3, OrdFacts DEF PipelineInv
          <5>2. Ord(p) > Ord(r) \/ Ord(r) > Ord(p)
            BY <2>5, <5>1
          <5> QED BY <5>1, <5>2 DEF After
        <4>2. p \notin After(r)
          <5>1. ~swapped /\ ~reordered
            BY <1>1, <1>3
          <5>2. r \in Listed \cap kept /\ order[i] = p /\ order[k] = r /\ i < k
            BY <2>1, <2>2, <2>4, <3>3
          <5> QED BY <2>1, <2>3, <2>4, <5>1, <5>2 DEF swapped
        <4>3. ~reordered
          BY <1>1, <1>3
        <4> QED BY <3>1, <4>1, <4>2, <4>3 DEF PipelineInv, ClearAhead
      <3> QED BY <3>2, <3>3
    <2> QED BY <2>6, <2>7
  <1>22. TypeOK'
    BY <1>9, <1>10, <1>11, <1>12, <1>13, NextTypeParts
  <1> QED BY <1>16, <1>17, <1>18, <1>19, <1>20, <1>21, <1>22 DEF PipelineInv

-----------------------------------------------------------------------------
(* The theorems.                                                            *)

LEMMA InitHolds == Init => PipelineInv
  <1> SUFFICES ASSUME Init PROVE PipelineInv
    OBVIOUS
  <1>1. /\ rounds \in Seq(Rounds)
        /\ \A i, k \in DOMAIN rounds : rounds[i] = rounds[k] => i = k
    BY OrderFacts DEF Init
  <1>2. JobTypes /\ NamedType /\ ExceptionTypes
    BY <1>1 DEF Init, JobTypes, NamedType, ExceptionTypes
  <1>3. AppTypes
    BY StateFacts DEF Init, AppTypes, Places, Statuses
  <1>4. CascadeTypes
    BY DEF Init, CascadeTypes
  <1>5. DisciplineTypes
    <2>1. CleanRecord \in Records(Places)
      BY DEF CleanRecord, Records
    <2> QED BY <2>1 DEF Init, DisciplineTypes
  <1>6. BoundType
    BY PipelineAssumption DEF Init, BoundType
  <1>7. TypeOK
    BY <1>2, <1>3, <1>4, <1>5, <1>6, TypeParts
  <1>8. Routed /\ StatesListed /\ StandingAgrees /\ UnfiledUntouched /\ ClearAhead
    BY DEF Init, Routed, StatesListed, StandingAgrees, UnfiledUntouched, ClearAhead
  <1>9. CascadesNamed
    BY DEF Init, CascadesNamed
  <1> QED BY <1>7, <1>8, <1>9 DEF PipelineInv

LEMMA NextHolds == PipelineInv /\ [Next]_vars => PipelineInv'
  <1> SUFFICES ASSUME PipelineInv, [Next]_vars PROVE PipelineInv'
    OBVIOUS
  <1>1. CASE StudentStep
    BY <1>1, ApplyStep, WithdrawStep DEF StudentStep
  <1>2. CASE ElsewhereStep
    BY <1>2, ExtendOfferStep, SweptAwayStep, ExitCycleStep, RestoreMembershipStep,
       RestoreSweptStep DEF ElsewhereStep
  <1>3. CASE BoardStep
    BY <1>3, AdvanceStep, PromoteStep, EliminateStep, WaitlistStep, MarkAttendanceStep
       DEF BoardStep
  <1>4. CASE DisciplineStep
    BY <1>4, DisciplineCommands DEF DisciplineStep
  <1>5. CASE InterventionStep
    BY <1>5, ReinstateStep, ForceStep DEF InterventionStep
  <1>6. CASE JobStep
    BY <1>6, FinalizeRoundStep, CancelJobStep, UpsertStep DEF JobStep
  <1>7. CASE \E t \in Thresholds : SetThreshold(t)
    BY <1>7, SetThresholdStep
  <1>8. CASE UNCHANGED vars
    <2>1. ExceptionTypes' /\ DisciplineTypes' /\ BoundType'
      BY <1>8, InvParts, KeptExceptions, KeptBound DEF vars, DisciplineTypes, disciplineVars
    <2> QED BY <1>8, <2>1, ElsewhereKept DEF vars, exceptionVars
  <1> QED BY <1>1, <1>2, <1>3, <1>4, <1>5, <1>6, <1>7, <1>8 DEF Next

LEMMA PipelineInvHolds == Spec => []PipelineInv
  BY InitHolds, NextHolds, PTL DEF Spec

\* Every variable keeps its type through every command: rounds stay distinct, a
\* finalized round and one an event names are rounds of the job, a discipline
\* record stays a record through awards, conversions and revocations.
THEOREM PipelineTypeCorrect == Spec => []TypeOK
  <1>1. PipelineInv => TypeOK
    BY DEF PipelineInv
  <1> QED BY <1>1, PipelineInvHolds, PTL

LEMMA ClearNext == PipelineInv => AdvanceNeverCollides
  <1> SUFFICES ASSUME PipelineInv, ~reordered, NEW a \in Apps \ strayed, HasState(a),
                      NextRound(position[a]) # NoRound
               PROVE  states[a][NextRound(position[a])] = NoState
    BY DEF AdvanceNeverCollides, NextIsFree, Advanceable, Promotable, Insertable
  <1>1. position[a] \in Listed /\ position[a] # NoRound
    BY PlaceFacts DEF PipelineInv, HasState
  <1>2. NextRound(position[a]) \in After(position[a])
    BY <1>1, NextRoundFacts DEF PipelineInv
  <1> QED BY <1>1, <1>2 DEF PipelineInv, ClearAhead

\* What the board shows as advanceable or promotable the database accepts: the
\* next round has no state of the application yet, whatever was inserted,
\* appended, dropped, reinstated, forced or finalized, unless two rounds have
\* changed places or a restoration put the application where it no longer was.
THEOREM AdvanceNeverCollidesHolds == Spec => []AdvanceNeverCollides
  BY ClearNext, PipelineInvHolds, PTL

-----------------------------------------------------------------------------
(* How a step can change a record.                                          *)

LEMMA RecordStep ==
    ASSUME [Next]_vars
    PROVE  \/ UNCHANGED record
           \/ \E r \in Rounds : FinalizeRound(r)
           \/ \E a \in Apps :
                 \/ AwardStrike(a) \/ AwardPenalty(a)
                 \/ \E i \in DOMAIN record[a].strikes : RevokeStrike(a, i)
                 \/ \E p \in DOMAIN record[a].penalties : RevokePenalty(a, p)
  <1>1. CASE StudentStep
    BY <1>1 DEF StudentStep, Apply, Withdraw, disciplineVars
  <1>2. CASE ElsewhereStep
    BY <1>2 DEF ElsewhereStep, ExtendOffer, SweptAway, ExitCycle, RestoreMembership,
                RestoreSwept, disciplineVars
  <1>3. CASE BoardStep
    BY <1>3 DEF BoardStep, Advance, Promote, Eliminate, Waitlist, MarkAttendance,
                disciplineVars
  <1>4. CASE DisciplineStep
    BY <1>4 DEF DisciplineStep
  <1>5. CASE InterventionStep
    BY <1>5 DEF InterventionStep, Reinstate, ForceTransition, disciplineVars
  <1>6. CASE JobStep
    BY <1>6 DEF JobStep, CancelJob, UpsertJobRounds, disciplineVars
  <1>7. CASE \E t \in Thresholds : SetThreshold(t)
    BY <1>7 DEF SetThreshold
  <1>8. CASE UNCHANGED vars
    BY <1>8 DEF vars, disciplineVars
  <1> QED BY <1>1, <1>2, <1>3, <1>4, <1>5, <1>6, <1>7, <1>8 DEF Next

\* A command outside the rounds leaves every strike its source, adds only
\* strikes no round gave, and leaves what a revoked penalty consumed consumed.
LEMMA RewriteKeeps ==
    ASSUME PipelineInv, NEW a \in Apps,
           \/ AwardStrike(a) \/ AwardPenalty(a)
           \/ \E i \in DOMAIN record[a].strikes : RevokeStrike(a, i)
           \/ \E p \in DOMAIN record[a].penalties : RevokePenalty(a, p)
    PROVE  /\ \A b \in Apps \ {a} : record'[b] = record[b]
           /\ \A i \in DOMAIN record'[a].strikes :
                 record'[a].strikes[i].by # NoRound =>
                    /\ i \in DOMAIN record[a].strikes
                    /\ record'[a].strikes[i].by = record[a].strikes[i].by
           /\ \A i \in DOMAIN record[a].strikes :
                 LET p == record[a].strikes[i].penalty IN
                 p # 0 /\ ~record[a].penalties[p].active => record'[a].strikes[i].penalty = p
  <1> DEFINE d == record[a]
  <1>1. record \in [Apps -> Records(Places)] /\ threshold \in Nat /\ NoRound \in Places
    BY ThresholdFacts, InvParts DEF DisciplineTypes, Places
  <1>2. /\ d \in Records(Places)
        /\ DOMAIN d.strikes = 1..Len(d.strikes) /\ Len(d.strikes) \in Nat
    BY <1>1 DEF Records
  <1>3. CASE AwardStrike(a)
    <2> DEFINE e == AwardStrikes(d, NoRound, threshold)
               n == Len(d.strikes)
    <2>1. record' = [record EXCEPT ![a] = e]
      BY <1>3 DEF AwardStrike, Rewrite
    <2> HIDE DEF d, e
    <2>2. d \in Records(Places) /\ NoRound \in Places /\ threshold \in Nat
      BY <1>1, <1>2
    <2>3. /\ DOMAIN e.strikes = 1..(n + 1) /\ e.strikes[n + 1].by = NoRound
          /\ \A i \in DOMAIN d.strikes :
                /\ e.strikes[i].by = d.strikes[i].by
                /\ d.strikes[i].penalty # 0 => e.strikes[i] = d.strikes[i]
      BY <2>2, AwardKeeps DEF e
    <2>4. record'[a] = e /\ \A b \in Apps \ {a} : record'[b] = record[b]
      BY <1>1, <2>1
    <2>5. \A i \in DOMAIN e.strikes : i = n + 1 \/ i \in DOMAIN d.strikes
      BY <1>2, <2>3
    <2> QED BY <2>3, <2>4, <2>5 DEF d
  <1>4. CASE AwardPenalty(a)
    BY <1>1, <1>2, <1>4 DEF AwardPenalty, Rewrite
  <1>5. ASSUME NEW r \in DOMAIN d.strikes, RevokeStrike(a, r)
        PROVE  /\ \A b \in Apps \ {a} : record'[b] = record[b]
               /\ DOMAIN record'[a].strikes = DOMAIN d.strikes
               /\ \A i \in DOMAIN d.strikes :
                     LET p == d.strikes[i].penalty IN
                     /\ record'[a].strikes[i].by = d.strikes[i].by
                     /\ p # 0 /\ ~d.penalties[p].active => record'[a].strikes[i].penalty = p
    <2> DEFINE e == RecomputeAfterRevoke(d, r, threshold)
    <2>1. record' = [record EXCEPT ![a] = e]
      BY <1>5 DEF RevokeStrike, Rewrite
    <2> HIDE DEF d, e
    <2>2. record'[a] = e /\ \A b \in Apps \ {a} : record'[b] = record[b]
      BY <1>1, <2>1
    <2>3. d \in Records(Places) /\ threshold \in Nat /\ r \in DOMAIN d.strikes
      BY <1>1, <1>2
    <2>4. /\ DOMAIN e.strikes = DOMAIN d.strikes
          /\ \A i \in DOMAIN d.strikes :
                LET p == d.strikes[i].penalty IN
                /\ e.strikes[i].by = d.strikes[i].by
                /\ p # 0 /\ ~d.penalties[p].active => e.strikes[i].penalty = p
      BY <2>3, RevokeKeeps DEF e
    <2> QED BY <2>2, <2>4
  <1>6. CASE \E p \in DOMAIN d.penalties : RevokePenalty(a, p)
    BY <1>1, <1>2, <1>6 DEF RevokePenalty, Rewrite
  <1>7. CASE \E i \in DOMAIN d.strikes : RevokeStrike(a, i)
    BY <1>5, <1>7
  <1> QED BY <1>3, <1>4, <1>6, <1>7

\* Finalizing a round gives each absentee one strike for it and leaves every
\* older strike its source and, when it is consumed, everything else.
LEMMA FinalizeKeeps ==
    ASSUME PipelineInv, NEW r \in Rounds, FinalizeRound(r), NEW a \in Apps
    PROVE  LET n == Len(record[a].strikes) IN
           /\ \A i \in DOMAIN record[a].strikes :
                 /\ i \in DOMAIN record'[a].strikes
                 /\ record'[a].strikes[i].by = record[a].strikes[i].by
                 /\ record[a].strikes[i].penalty # 0 =>
                       record'[a].strikes[i] = record[a].strikes[i]
           /\ \A i \in DOMAIN record'[a].strikes :
                 \/ i \in DOMAIN record[a].strikes
                 \/ i = n + 1 /\ record'[a].strikes[i].by = r /\ a \in Closed(r)
  <1> DEFINE d == record[a]
             n == Len(record[a].strikes)
             e == AwardStrikes(d, r, threshold)
             struck == IF StrikeOnAbsence THEN Absent(r) ELSE {}
  <1>1. /\ d \in Records(Places) /\ threshold \in Nat /\ r \in Places
        /\ DOMAIN d.strikes = 1..n /\ n \in Nat
    <2>1. d \in Records(Places) /\ threshold \in Nat /\ r \in Places
      BY ThresholdFacts, InvParts DEF DisciplineTypes, Places
    <2> QED BY <2>1 DEF Records
  <1>2. record'[a] = IF a \in struck THEN e ELSE d
    BY DEF FinalizeRound
  <1>3. a \in struck => a \in Closed(r)
    BY DEF Absent
  <1> HIDE DEF d, e, struck
  <1>4. /\ DOMAIN e.strikes = 1..(Len(d.strikes) + 1)
        /\ e.strikes[Len(d.strikes) + 1].by = r
        /\ \A i \in DOMAIN d.strikes :
              /\ e.strikes[i].by = d.strikes[i].by
              /\ d.strikes[i].penalty # 0 => e.strikes[i] = d.strikes[i]
    <2>1. d \in Records(Places) /\ threshold \in Nat /\ r \in Places
      BY <1>1
    <2> QED BY <2>1, AwardKeeps DEF e
  <1>5. n = Len(d.strikes)
    BY DEF d
  <1> HIDE DEF n
  <1>6. CASE a \in struck
    <2>1. /\ \A i \in DOMAIN d.strikes : i \in DOMAIN e.strikes
          /\ \A i \in DOMAIN e.strikes : i \in DOMAIN d.strikes \/ i = n + 1
      BY <1>1, <1>4, <1>5
    <2> QED BY <1>2, <1>3, <1>4, <1>5, <1>6, <2>1 DEF d, n
  <1>7. CASE a \notin struck
    BY <1>2, <1>7 DEF d
  <1> QED BY <1>6, <1>7

LEMMA SpentStay == PipelineInv /\ [Next]_vars => [StrikesOfRevokedStay]_vars
  <1> SUFFICES ASSUME PipelineInv, [Next]_vars, NEW a \in Apps,
                      NEW i \in DOMAIN record[a].strikes,
                      record[a].strikes[i].penalty # 0,
                      ~record[a].penalties[record[a].strikes[i].penalty].active
               PROVE  record'[a].strikes[i].penalty = record[a].strikes[i].penalty
    BY DEF StrikesOfRevokedStay
  <1>1. CASE UNCHANGED record
    BY <1>1
  <1>2. CASE \E r \in Rounds : FinalizeRound(r)
    <2>1. record[a].strikes[i].penalty # 0 => record'[a].strikes[i] = record[a].strikes[i]
      BY <1>2, FinalizeKeeps
    <2> QED BY <2>1
  <1>3. ASSUME NEW b \in Apps,
               \/ AwardStrike(b) \/ AwardPenalty(b)
               \/ \E k \in DOMAIN record[b].strikes : RevokeStrike(b, k)
               \/ \E p \in DOMAIN record[b].penalties : RevokePenalty(b, p)
        PROVE  record'[a].strikes[i].penalty = record[a].strikes[i].penalty
    <2>1. CASE b = a
      BY <1>3, <2>1, RewriteKeeps
    <2>2. CASE b # a
      BY <1>3, <2>2, RewriteKeeps
    <2> QED BY <2>1, <2>2
  <1> QED BY <1>1, <1>2, <1>3, RecordStep

\* A strike that a since revoked penalty consumed stays consumed by it: no
\* award, revocation, conversion or finalization makes the student pay again.
THEOREM SpentStrikesStaySpentHolds == Spec => SpentStrikesStaySpent
  BY SpentStay, PipelineInvHolds, PTL DEF Spec, SpentStrikesStaySpent

-----------------------------------------------------------------------------
(* One strike for one absence.  The round of a strike is finalized for good: *)
(* the event that rejected the absentee names it, so the builder cannot drop *)
(* it, and a finalized round is never finalized again.                       *)

AbsencesFinalized ==
    \A a \in Apps : \A i \in DOMAIN record[a].strikes :
        record[a].strikes[i].by # NoRound =>
            record[a].strikes[i].by \in finalized \cap named

AbsenceInv == AbsencesFinalized /\ OneStrikePerAbsence

LEMMA NamedGrows == PipelineInv /\ [Next]_vars => named \subseteq named'
  <1> SUFFICES ASSUME PipelineInv, [Next]_vars PROVE named \subseteq named'
    OBVIOUS
  <1>1. CASE StudentStep
    BY <1>1 DEF StudentStep, Apply, Withdraw, Write
  <1>2. CASE ElsewhereStep
    BY <1>2 DEF ElsewhereStep, ExtendOffer, SweptAway, ExitCycle, RestoreMembership,
                RestoreSwept, Write, appVars
  <1>3. CASE BoardStep
    BY <1>3 DEF BoardStep, Advance, Promote, MoveOn, Eliminate, Waitlist, MarkAttendance,
                Write
  <1>4. CASE DisciplineStep
    BY <1>4 DEF DisciplineStep, AwardStrike, AwardPenalty, RevokeStrike, RevokePenalty,
                Rewrite, appVars
  <1>5. CASE InterventionStep
    BY <1>5 DEF InterventionStep, Reinstate, ForceTransition, Write
  <1>6. CASE JobStep
    BY <1>6 DEF JobStep, FinalizeRound, CancelJob, UpsertJobRounds
  <1>7. CASE \E t \in Thresholds : SetThreshold(t)
    BY <1>7 DEF SetThreshold, appVars
  <1>8. CASE UNCHANGED vars
    BY <1>8 DEF vars, appVars
  <1> QED BY <1>1, <1>2, <1>3, <1>4, <1>5, <1>6, <1>7, <1>8 DEF Next

LEMMA FinalizedKept ==
    PipelineInv /\ [Next]_vars => finalized \cap named \subseteq finalized'
  <1> SUFFICES ASSUME PipelineInv, [Next]_vars
               PROVE  finalized \cap named \subseteq finalized'
    OBVIOUS
  <1>1. CASE StudentStep
    BY <1>1 DEF StudentStep, Apply, Withdraw, jobVars
  <1>2. CASE ElsewhereStep
    BY <1>2 DEF ElsewhereStep, ExtendOffer, SweptAway, ExitCycle, RestoreMembership,
                RestoreSwept, jobVars
  <1>3. CASE BoardStep
    BY <1>3 DEF BoardStep, Advance, Promote, Eliminate, Waitlist, MarkAttendance, jobVars
  <1>4. CASE DisciplineStep
    BY <1>4 DEF DisciplineStep, AwardStrike, AwardPenalty, RevokeStrike, RevokePenalty,
                Rewrite, jobVars
  <1>5. CASE InterventionStep
    BY <1>5 DEF InterventionStep, Reinstate, ForceTransition, jobVars
  <1>6. CASE JobStep
    <2>1. ASSUME NEW order \in Orders, UpsertJobRounds(order)
          PROVE  finalized \cap named \subseteq finalized'
      BY <2>1 DEF PipelineInv, TypeOK, UpsertJobRounds, Droppable
    <2> QED BY <1>6, <2>1 DEF JobStep, FinalizeRound, CancelJob
  <1>7. CASE \E t \in Thresholds : SetThreshold(t)
    BY <1>7 DEF SetThreshold, jobVars
  <1>8. CASE UNCHANGED vars
    BY <1>8 DEF vars, jobVars
  <1> QED BY <1>1, <1>2, <1>3, <1>4, <1>5, <1>6, <1>7, <1>8 DEF Next

\* Finalizing is the only command that adds a strike a round gave; the strikes
\* there were refer to other rounds, for this one was not finalized.
LEMMA FinalizeAbsence ==
    ASSUME PipelineInv, AbsenceInv, NEW r \in Rounds, FinalizeRound(r)
    PROVE  AbsenceInv'
  <1>1. r \notin finalized /\ finalized' = finalized \cup {r} /\ named \subseteq named'
    BY DEF FinalizeRound, Finalizable
  <1>2. ASSUME NEW a \in Apps, a \in Closed(r) PROVE r \in named'
    BY <1>2 DEF FinalizeRound
  <1>3. ASSUME NEW a \in Apps, NEW i \in DOMAIN record'[a].strikes,
               record'[a].strikes[i].by # NoRound
        PROVE  \/ /\ i \in DOMAIN record[a].strikes
                  /\ record'[a].strikes[i].by = record[a].strikes[i].by
                  /\ record'[a].strikes[i].by \in finalized \cap named
               \/ /\ i = Len(record[a].strikes) + 1
                  /\ record'[a].strikes[i].by = r /\ r \in named'
    <2>1. CASE i \in DOMAIN record[a].strikes
      <3>1. record'[a].strikes[i].by = record[a].strikes[i].by
        BY <2>1, FinalizeKeeps
      <3> QED BY <1>3, <2>1, <3>1 DEF AbsenceInv, AbsencesFinalized
    <2>2. CASE i \notin DOMAIN record[a].strikes
      BY <1>2, <2>2, FinalizeKeeps
    <2> QED BY <2>1, <2>2
  <1>4. AbsencesFinalized'
    BY <1>1, <1>3 DEF AbsencesFinalized
  <1>5. OneStrikePerAbsence'
    BY <1>1, <1>3 DEF AbsenceInv, OneStrikePerAbsence
  <1> QED BY <1>4, <1>5 DEF AbsenceInv

LEMMA AbsenceStep == PipelineInv /\ AbsenceInv /\ [Next]_vars => AbsenceInv'
  <1> SUFFICES ASSUME PipelineInv, AbsenceInv, [Next]_vars PROVE AbsenceInv'
    OBVIOUS
  <1>1. finalized \cap named \subseteq finalized' \cap named'
    BY NamedGrows, FinalizedKept
  <1>2. ASSUME \A a \in Apps : \A i \in DOMAIN record'[a].strikes :
                  record'[a].strikes[i].by # NoRound =>
                     /\ i \in DOMAIN record[a].strikes
                     /\ record'[a].strikes[i].by = record[a].strikes[i].by
        PROVE  AbsenceInv'
    BY <1>1, <1>2 DEF AbsenceInv, AbsencesFinalized, OneStrikePerAbsence
  <1>3. CASE UNCHANGED record
    BY <1>2, <1>3
  <1>4. CASE \E r \in Rounds : FinalizeRound(r)
    BY <1>4, FinalizeAbsence
  <1>5. ASSUME NEW b \in Apps,
               \/ AwardStrike(b) \/ AwardPenalty(b)
               \/ \E k \in DOMAIN record[b].strikes : RevokeStrike(b, k)
               \/ \E p \in DOMAIN record[b].penalties : RevokePenalty(b, p)
        PROVE  AbsenceInv'
    <2>1. /\ \A a \in Apps \ {b} : record'[a] = record[a]
          /\ \A i \in DOMAIN record'[b].strikes :
                record'[b].strikes[i].by # NoRound =>
                   /\ i \in DOMAIN record[b].strikes
                   /\ record'[b].strikes[i].by = record[b].strikes[i].by
      BY <1>5, RewriteKeeps
    <2>2. \A a \in Apps : a = b \/ a \in Apps \ {b}
      OBVIOUS
    <2> QED BY <1>2, <2>1, <2>2
  <1> QED BY <1>3, <1>4, <1>5, RecordStep

LEMMA AbsenceInit == Init => AbsenceInv
  BY DEF Init, CleanRecord, AbsenceInv, AbsencesFinalized, OneStrikePerAbsence

\* An absence is punished once: no two strikes of a student are for the same
\* round, through reinstatements into a round that was finalized already and
\* through every rewriting of the rounds.
THEOREM OneStrikePerAbsenceHolds == Spec => []OneStrikePerAbsence
  <1>1. AbsenceInv => OneStrikePerAbsence
    BY DEF AbsenceInv
  <1> QED BY <1>1, AbsenceInit, AbsenceStep, PipelineInvHolds, PTL DEF Spec

-----------------------------------------------------------------------------
(* One open round.  What is undecided of an application in progress is the   *)
(* round it sits in, and a restoration nothing has overtaken finds it so.    *)

Excepted == strayed \cup leapt \cup forced
OpenResults == {"pending", "waitlisted"}
Open(a) == Undecided(a) = {position[a]} \ {NoRound}
LastSwept(a) == cascades[a][Len(cascades[a])]

OpenFor(a) ==
    /\ status[a] = "in_progress" => Open(a) /\ (position[a] = NoRound => rounds = <<>>)
    /\ a \in standing /\ LastSwept(a).from = "in_progress" => Open(a)
OpenInv == \A a \in Apps \ Excepted : OpenFor(a)

\* An application nobody touches stays as it is.
LEMMA OpenUntouched ==
    ASSUME NEW a \in Apps, OpenFor(a), rounds' = rounds,
           position'[a] = position[a], Undecided(a)' = Undecided(a),
           status'[a] = "in_progress" => status[a] = "in_progress",
           a \in standing' => a \in standing /\ cascades'[a] = cascades[a]
    PROVE  OpenFor(a)'
  BY DEF OpenFor, Open, LastSwept

\* Whoever was out of the exceptions after a step was out of them before.
LEMMA ExceptionsGrow ==
    ASSUME strayed \subseteq strayed', leapt \subseteq leapt', forced \subseteq forced'
    PROVE  Excepted \subseteq Excepted'
  BY DEF Excepted

\* A command that writes one application opens no more than it should.
LEMMA WriteOpen ==
    ASSUME PipelineInv, OpenInv, NEW a \in Apps, NEW to, NEW place, NEW rows,
           Write(a, to, place, rows), rounds' = rounds, Excepted \subseteq Excepted',
           \A b \in Apps \ {a} : cascades'[b] = cascades[b],
           a \notin Excepted' /\ to = "in_progress" =>
               /\ {r \in Rounds : rows[r].result \in OpenResults} = {place} \ {NoRound}
               /\ place = NoRound => rounds = <<>>
    PROVE  OpenInv'
  <1> SUFFICES ASSUME NEW b \in Apps, b \notin Excepted' PROVE OpenFor(b)'
    BY DEF OpenInv
  <1>1. /\ status' = [status EXCEPT ![a] = to]
        /\ position' = [position EXCEPT ![a] = place]
        /\ states' = [states EXCEPT ![a] = rows]
        /\ standing' = standing \ {a}
    BY DEF Write
  <1>2. status \in [Apps -> Statuses] /\ position \in [Apps -> Places]
        /\ states \in [Apps -> [Rounds -> RoundStates]]
    BY DEF PipelineInv, TypeOK
  <1>3. CASE b = a
    <2>1. status'[a] = to /\ position'[a] = place /\ states'[a] = rows /\ a \notin standing'
      BY <1>1, <1>2
    <2>2. Undecided(a)' = {r \in Rounds : rows[r].result \in OpenResults}
      BY <2>1 DEF Undecided, OpenResults
    <2> QED BY <1>3, <2>1, <2>2 DEF OpenFor, Open
  <1>4. CASE b # a
    <2>1. OpenFor(b)
      BY DEF OpenInv
    <2>2. /\ status'[b] = status[b] /\ position'[b] = position[b] /\ states'[b] = states[b]
          /\ cascades'[b] = cascades[b] /\ (b \in standing' => b \in standing)
      BY <1>1, <1>2, <1>4
    <2>3. Undecided(b)' = Undecided(b)
      BY <2>2 DEF Undecided
    <2> QED BY <2>1, <2>2, <2>3, OpenUntouched
  <1> QED BY <1>3, <1>4

\* A step that writes no application at all.
LEMMA NobodyOpens ==
    ASSUME OpenInv, rounds' = rounds, Excepted \subseteq Excepted',
           UNCHANGED <<appVars, cascades>>
    PROVE  OpenInv'
  <1> SUFFICES ASSUME NEW b \in Apps, b \notin Excepted' PROVE OpenFor(b)'
    BY DEF OpenInv
  <1>1. OpenFor(b)
    BY DEF OpenInv
  <1>2. Undecided(b)' = Undecided(b)
    BY DEF appVars, Undecided
  <1> QED BY <1>1, <1>2, OpenUntouched DEF appVars

LEMMA KeptExcepted ==
    ASSUME UNCHANGED exceptionVars
    PROVE  Excepted \subseteq Excepted'
  BY DEF exceptionVars, Excepted

\* The undecided rounds after a result is set in the round somebody sits in.
LEMMA ResultSetOpen ==
    ASSUME PipelineInv, NEW a \in Apps, HasState(a), NEW x \in Results
    PROVE  {r \in Rounds : ResultSet(a, x)[r].result \in OpenResults}
             = (Undecided(a) \ {position[a]})
                 \cup (IF x \in OpenResults THEN {position[a]} ELSE {})
  <1>1. /\ position[a] \in Rounds /\ states[a] \in [Rounds -> RoundStates]
        /\ states[a][position[a]] \in RoundStates \ {NoState}
    BY PlaceFacts DEF PipelineInv, TypeOK, HasState
  <1>2. ResultSet(a, x) =
          [states[a] EXCEPT ![position[a]] = [states[a][position[a]] EXCEPT !.result = x]]
    BY <1>1 DEF ResultSet
  <1>3. [states[a][position[a]] EXCEPT !.result = x].result = x
    BY <1>1 DEF RoundStates, Attendances
  <1>4. \A r \in Rounds : ResultSet(a, x)[r].result
                            = IF r = position[a] THEN x ELSE states[a][r].result
    BY <1>1, <1>2, <1>3
  <1> QED BY <1>1, <1>4 DEF Undecided, OpenResults

LEMMA StudentOpen ==
    ASSUME PipelineInv, OpenInv, NEW a \in Apps, Apply(a) \/ Withdraw(a)
    PROVE  OpenInv'
  <1>1. CASE Apply(a)
    <2> DEFINE rows == IF rounds = <<>> THEN states[a]
                       ELSE [states[a] EXCEPT ![FirstRound] = PendingState]
    <2>1. /\ Write(a, "in_progress", FirstRound, rows) /\ rounds' = rounds
          /\ UNCHANGED <<cascades, exceptionVars>> /\ status[a] = "none"
      BY <1>1 DEF Apply, jobVars, Decide, Legal, TRANSITIONS, Row
    <2>2. states[a] \in [Rounds -> RoundStates] /\ \A r \in Rounds : states[a][r] = NoState
      BY <2>1 DEF PipelineInv, TypeOK, UnfiledUntouched
    <2>3. rounds # <<>> => FirstRound \in Rounds /\ FirstRound # NoRound
      BY PipelineAssumption DEF PipelineInv, TypeOK, FirstRound
    <2>4. rounds = <<>> => FirstRound = NoRound
      BY DEF FirstRound
    <2>5. {r \in Rounds : rows[r].result \in OpenResults} = {FirstRound} \ {NoRound}
      <3>1. NoState.result \notin OpenResults /\ PendingState.result \in OpenResults
        BY DEF NoState, PendingState, OpenResults
      <3>2. CASE rounds = <<>>
        BY <2>2, <2>4, <3>1, <3>2
      <3>3. CASE rounds # <<>>
        <4>1. \A r \in Rounds : rows[r] = IF r = FirstRound THEN PendingState ELSE NoState
          BY <2>2, <2>3, <3>3
        <4> HIDE DEF rows
        <4> QED BY <2>3, <3>1, <3>3, <4>1
      <3> QED BY <3>2, <3>3
    <2> HIDE DEF rows
    <2> QED BY <2>1, <2>3, <2>5, WriteOpen, KeptExcepted
  <1>2. CASE Withdraw(a)
    <2>1. /\ Write(a, "withdrawn", position[a], states[a]) /\ rounds' = rounds
          /\ UNCHANGED <<cascades, exceptionVars>>
      BY <1>2 DEF Withdraw, jobVars
    <2> QED BY <2>1, WriteOpen, KeptExcepted
  <1> QED BY <1>1, <1>2

LEMMA MoveOnOpen ==
    ASSUME PipelineInv, OpenInv, NEW a \in Apps, status[a] = "in_progress", HasState(a),
           MoveOn(a), UNCHANGED <<jobVars, cascades, exceptionVars>>
    PROVE  OpenInv'
  <1> DEFINE next == NextRound(position[a])
             moved == ResultSet(a, "advanced")
             rows == [moved EXCEPT ![next] = PendingState]
  <1>1. rounds' = rounds /\ Excepted \subseteq Excepted'
    BY KeptExcepted DEF jobVars
  <1>2. CASE next = NoRound
    <2>1. Write(a, "pending_offer", position[a], moved)
      BY <1>2 DEF MoveOn
    <2> QED BY <1>1, <2>1, WriteOpen
  <1>3. CASE next # NoRound
    <2>1. Write(a, "in_progress", next, rows)
      BY <1>3 DEF MoveOn
    <2>2. /\ position[a] \in Listed /\ Listed \subseteq Rounds /\ NoRound \notin Listed
          /\ next \in Listed
      BY <1>3, PlaceFacts, NextRoundFacts DEF PipelineInv, HasState
    <2>3. ASSUME a \notin Excepted'
          PROVE  {r \in Rounds : rows[r].result \in OpenResults} = {next} \ {NoRound}
      <3>1. Undecided(a) = {position[a]} \ {NoRound}
        BY <1>1, <2>3 DEF OpenInv, OpenFor, Open
      <3>2. {r \in Rounds : moved[r].result \in OpenResults} = {}
        BY <3>1, ResultSetOpen DEF Results, OpenResults
      <3>3. moved \in [Rounds -> RoundStates]
        BY ResultSetFacts DEF Results
      <3>4. PendingState.result \in OpenResults
        BY DEF PendingState, OpenResults
      <3> HIDE DEF moved
      <3>5. \A r \in Rounds : rows[r] = IF r = next THEN PendingState ELSE moved[r]
        BY <2>2, <3>3
      <3> HIDE DEF rows, next
      <3> QED BY <2>2, <3>2, <3>4, <3>5
    <2> HIDE DEF rows, next
    <2> QED BY <1>1, <1>3, <2>1, <2>3, WriteOpen
  <1> QED BY <1>2, <1>3

LEMMA BoardOpen ==
    ASSUME PipelineInv, OpenInv, NEW a \in Apps,
           \/ Advance(a) \/ Promote(a) \/ Eliminate(a) \/ Waitlist(a)
           \/ \E r \in Rounds, mark \in Marks : MarkAttendance(a, r, mark)
    PROVE  OpenInv'
  <1>1. CASE Advance(a) \/ Promote(a)
    BY <1>1, MoveOnOpen DEF Advance, Promote, Advanceable, Promotable
  <1>2. CASE Eliminate(a)
    <2>1. /\ Write(a, "rejected", position[a], ResultSet(a, "eliminated")) /\ rounds' = rounds
          /\ UNCHANGED <<cascades, exceptionVars>>
      BY <1>2 DEF Eliminate, jobVars
    <2> QED BY <2>1, WriteOpen, KeptExcepted
  <1>3. CASE Waitlist(a)
    <2>1. /\ Write(a, "in_progress", position[a], ResultSet(a, "waitlisted"))
          /\ rounds' = rounds /\ UNCHANGED <<cascades, exceptionVars>>
          /\ HasState(a) /\ status[a] = "in_progress"
      BY <1>3 DEF Waitlist, jobVars
    <2>2. ASSUME a \notin Excepted'
          PROVE  {r \in Rounds : ResultSet(a, "waitlisted")[r].result \in OpenResults}
                   = {position[a]} \ {NoRound}
      <3>1. Undecided(a) = {position[a]} \ {NoRound} /\ position[a] # NoRound
        BY <2>1, <2>2, KeptExcepted DEF OpenInv, OpenFor, Open, HasState
      <3>2. "waitlisted" \in Results /\ "waitlisted" \in OpenResults
        BY DEF Results, OpenResults
      <3> QED BY <2>1, <3>1, <3>2, ResultSetOpen
    <2>3. position[a] # NoRound
      BY <2>1 DEF HasState
    <2> QED BY <2>1, <2>2, <2>3, WriteOpen, KeptExcepted
  <1>4. ASSUME NEW r \in Rounds, NEW mark \in Marks, MarkAttendance(a, r, mark)
        PROVE  OpenInv'
    <2>1. /\ states' = [states EXCEPT ![a][r].attendance = mark]
          /\ standing' = standing \ {a} /\ rounds' = rounds
          /\ UNCHANGED <<status, position, cascades, exceptionVars>>
          /\ states[a][r] # NoState
      BY <1>4 DEF MarkAttendance, jobVars
    <2>2. states \in [Apps -> [Rounds -> RoundStates]]
      BY DEF PipelineInv, TypeOK
    <2>3. \A b \in Apps, x \in Rounds : states'[b][x].result = states[b][x].result
      <3> DEFINE row == states[a][r]
                 marked == [row EXCEPT !.attendance = mark]
      <3>1. marked.result = row.result
        BY <2>1, <2>2 DEF RoundStates
      <3>2. states' = [states EXCEPT ![a] = [states[a] EXCEPT ![r] = marked]]
        BY <2>1
      <3> HIDE DEF marked
      <3> QED BY <2>2, <3>1, <3>2
    <2> SUFFICES ASSUME NEW b \in Apps, b \notin Excepted' PROVE OpenFor(b)'
      BY DEF OpenInv
    <2>4. OpenFor(b) /\ Undecided(b)' = Undecided(b)
      BY <2>1, <2>3, KeptExcepted DEF OpenInv, Undecided
    <2> QED BY <2>1, <2>4, OpenUntouched
  <1> QED BY <1>1, <1>2, <1>3, <1>4

LEMMA SweptAwayOpen == ASSUME PipelineInv, OpenInv, NEW a \in Apps, SweptAway(a) PROVE OpenInv'
  <1> DEFINE swept == [from |-> status[a], round |-> position[a]]
             Swept == [from : EXIT_CASCADE_STATUSES, round : Places]
  <1>1. /\ status \in [Apps -> Statuses] /\ cascades \in [Apps -> Seq(Swept)]
        /\ position[a] \in Places
    BY DEF PipelineInv, TypeOK
  <1>2. /\ status' = [status EXCEPT ![a] = "auto_withdrawn"]
        /\ cascades' = [cascades EXCEPT ![a] = Append(cascades[a], swept)]
        /\ standing' = standing \cup {a} /\ rounds' = rounds
        /\ UNCHANGED <<position, states, exceptionVars>>
        /\ status[a] \in EXIT_CASCADE_STATUSES
    BY DEF SweptAway, jobVars
  <1> SUFFICES ASSUME NEW b \in Apps, b \notin Excepted' PROVE OpenFor(b)'
    BY DEF OpenInv
  <1>3. OpenFor(b) /\ Undecided(b)' = Undecided(b)
    BY <1>2, KeptExcepted DEF OpenInv, Undecided
  <1>4. CASE b = a
    <2>1. swept \in Swept
      BY <1>1, <1>2
    <2>2. cascades'[a] = Append(cascades[a], swept) /\ cascades[a] \in Seq(Swept)
      BY <1>1, <1>2
    <2>3. LastSwept(a)' = swept
      <3> HIDE DEF swept, Swept
      <3> QED BY <2>1, <2>2 DEF LastSwept
    <2>4. swept.from = status[a]
      OBVIOUS
    <2>5. status'[a] # "in_progress"
      BY <1>1, <1>2
    <2> HIDE DEF swept, Swept
    <2> QED BY <1>2, <1>3, <1>4, <2>3, <2>4, <2>5 DEF OpenFor, Open
  <1>5. CASE b # a
    <2> HIDE DEF swept, Swept
    <2>1. /\ status'[b] = status[b] /\ cascades'[b] = cascades[b]
          /\ (b \in standing' => b \in standing)
      BY <1>1, <1>2, <1>5
    <2> QED BY <1>2, <1>3, <2>1, OpenUntouched
  <1> QED BY <1>4, <1>5

\* Nothing overtook the cascade: the application comes back to where it stood.
LEMMA RestoreSweptOpen ==
    ASSUME PipelineInv, OpenInv, NEW a \in Apps, NEW k \in DOMAIN cascades[a],
           RestoreSwept(a, k)
    PROVE  OpenInv'
  <1> DEFINE e == cascades[a][k]
             rest == SubSeq(cascades[a], 1, k - 1)
                        \o SubSeq(cascades[a], k + 1, Len(cascades[a]))
  <1>1. /\ Write(a, e.from, e.round, states[a])
        /\ cascades' = [cascades EXCEPT ![a] = rest]
        /\ rounds' = rounds /\ UNCHANGED <<leapt, forced>>
        /\ strayed' = IF (a \notin standing \/ k # Len(cascades[a]))
                          \/ (e.round = NoRound /\ rounds # <<>>)
                       THEN strayed \cup {a} ELSE strayed
    BY DEF RestoreSwept, jobVars
  <1>2. Excepted \subseteq Excepted'
    BY <1>1 DEF Excepted
  <1> HIDE DEF rest
  <1>3. \A b \in Apps \ {a} : cascades'[b] = cascades[b]
    BY <1>1 DEF PipelineInv, TypeOK
  <1>4. ASSUME a \notin Excepted', e.from = "in_progress"
        PROVE  /\ {r \in Rounds : states[a][r].result \in OpenResults} = {e.round} \ {NoRound}
               /\ e.round = NoRound => rounds = <<>>
    <2>1. a \notin strayed'
      BY <1>4 DEF Excepted
    <2>2. a \in standing /\ k = Len(cascades[a]) /\ (e.round = NoRound => rounds = <<>>)
      BY <1>1, <2>1
    <2>3. e = LastSwept(a) /\ e.round = position[a]
      BY <2>2 DEF LastSwept, PipelineInv, StandingAgrees
    <2>4. Undecided(a) = {position[a]} \ {NoRound}
      BY <1>2, <1>4, <2>2, <2>3 DEF OpenInv, OpenFor, Open
    <2>5. Undecided(a) = {r \in Rounds : states[a][r].result \in OpenResults}
      BY DEF Undecided, OpenResults
    <2> QED BY <2>2, <2>3, <2>4, <2>5
  <1> HIDE DEF e
  <1> QED BY <1>1, <1>2, <1>3, <1>4, WriteOpen

LEMMA ElsewhereOpen ==
    ASSUME PipelineInv, OpenInv, NEW a \in Apps,
           ExtendOffer(a) \/ ExitCycle(a) \/ RestoreMembership(a)
    PROVE  OpenInv'
  <1>1. CASE ExtendOffer(a)
    <2>1. /\ Write(a, "offered", position[a], states[a]) /\ rounds' = rounds
          /\ UNCHANGED <<cascades, exceptionVars>>
      BY <1>1 DEF ExtendOffer, jobVars
    <2> QED BY <2>1, WriteOpen, KeptExcepted
  <1>2. CASE ExitCycle(a)
    <2>1. rounds' = rounds /\ cascades' = cascades /\ Excepted' = Excepted
      BY <1>2 DEF ExitCycle, jobVars, Excepted
    <2>2. CASE status[a] \in EXIT_CASCADE_STATUSES
      <3>1. Write(a, "auto_withdrawn", position[a], states[a])
        BY <1>2, <2>2 DEF ExitCycle, ExitStatus
      <3> QED BY <2>1, <3>1, WriteOpen
    <2>3. CASE status[a] \notin EXIT_CASCADE_STATUSES
      BY <1>2, <2>1, <2>3, NobodyOpens DEF ExitCycle
    <2> QED BY <2>2, <2>3
  <1>3. CASE RestoreMembership(a)
    BY <1>3, NobodyOpens DEF RestoreMembership, jobVars, Excepted
  <1> QED BY <1>1, <1>2, <1>3

\* Reinstating opens the chosen round and closes what is ahead of it; an
\* undecided round behind it makes the application an exception.
LEMMA ReinstateOpen ==
    ASSUME PipelineInv, OpenInv, NEW a \in Apps, NEW p \in Places, Reinstate(a, p)
    PROVE  OpenInv'
  <1> DEFINE rows == IF p = NoRound THEN states[a]
                     ELSE [x \in Rounds |-> IF x = p THEN Reopened(states[a][p])
                                            ELSE IF x \in Cleared(p) THEN NoState
                                            ELSE states[a][x]]
  <1>1. /\ Write(a, "in_progress", p, rows) /\ rounds' = rounds
        /\ UNCHANGED <<cascades, strayed, forced>>
        /\ IF rounds = <<>> THEN p = NoRound ELSE p \in Listed
        /\ leapt' = IF p # NoRound /\ Undecided(a) \cap Before(p) # {}
                    THEN leapt \cup {a} ELSE leapt
    BY DEF Reinstate, jobVars
  <1>2. Excepted \subseteq Excepted'
    BY <1>1 DEF Excepted
  <1>3. /\ states[a] \in [Rounds -> RoundStates] /\ Listed \subseteq Rounds
        /\ NoRound \notin Listed
        /\ \A r \in Rounds : states[a][r] # NoState => r \in Listed
    BY PlaceFacts DEF PipelineInv, TypeOK, StatesListed
  <1>4. NoState.result \notin OpenResults /\ PendingState.result \in OpenResults
        /\ "pending" \in OpenResults
    BY DEF NoState, PendingState, OpenResults
  <1>5. p = NoRound => rounds = <<>>
    BY <1>1, <1>3
  <1>6. ASSUME a \notin Excepted'
        PROVE  {r \in Rounds : rows[r].result \in OpenResults} = {p} \ {NoRound}
    <2>1. CASE p = NoRound
      <3>1. Listed = {}
        BY <1>5, <2>1 DEF Listed
      <3>2. \A r \in Rounds : states[a][r] = NoState
        BY <1>3, <3>1
      <3> QED BY <1>4, <2>1, <3>2
    <2>2. CASE p # NoRound
      <3>1. p \in Listed /\ p \in Rounds
        BY <1>1, <1>3, <2>2, PipelineAssumption
      <3>2. Undecided(a) \cap Before(p) = {}
        BY <1>1, <1>6, <2>2 DEF Excepted
      <3>3. Reopened(states[a][p]).result \in OpenResults
        <4>1. states[a][p] \in RoundStates
          BY <1>3, <3>1
        <4> QED BY <1>4, <4>1 DEF Reopened, RoundStates, NoState
      <3>4. ASSUME NEW r \in Rounds, r # p, r \notin Cleared(p)
            PROVE  states[a][r].result \notin OpenResults
        <4>1. CASE r \in Listed
          <5>1. r \in Before(p)
            BY <3>4, <4>1 DEF Before, Cleared
          <5> QED BY <3>2, <3>4, <5>1 DEF Undecided, OpenResults
        <4>2. CASE r \notin Listed
          BY <1>3, <1>4, <3>4, <4>2
        <4> QED BY <4>1, <4>2
      <3>5. \A r \in Rounds : rows[r] = IF r = p THEN Reopened(states[a][p])
                                        ELSE IF r \in Cleared(p) THEN NoState
                                        ELSE states[a][r]
        BY <2>2
      <3> HIDE DEF rows
      <3> QED BY <1>4, <2>2, <3>1, <3>3, <3>4, <3>5
    <2> QED BY <2>1, <2>2
  <1> HIDE DEF rows
  <1> QED BY <1>1, <1>2, <1>5, <1>6, WriteOpen

LEMMA ForceOpen ==
    ASSUME PipelineInv, OpenInv, NEW a \in Apps, NEW to, ForceTransition(a, to)
    PROVE  OpenInv'
  <1>1. /\ Write(a, to, position[a], states[a]) /\ rounds' = rounds
        /\ UNCHANGED <<cascades, strayed, leapt>> /\ forced' = forced \cup {a}
    BY DEF ForceTransition, jobVars
  <1>2. Excepted \subseteq Excepted' /\ a \in Excepted'
    BY <1>1 DEF Excepted
  <1> QED BY <1>1, <1>2, WriteOpen

\* A finalization closes rounds of applications it rejects, and of no others.
LEMMA FinalizeOpen ==
    ASSUME PipelineInv, OpenInv, NEW r \in Rounds, FinalizeRound(r) PROVE OpenInv'
  <1>1. /\ status' = [a \in Apps |-> IF a \in Closed(r) THEN "rejected" ELSE status[a]]
        /\ \A a \in Apps \ Closed(r) : states'[a] = states[a]
        /\ standing' = standing \ Closed(r) /\ rounds' = rounds
        /\ UNCHANGED <<position, cascades, exceptionVars>>
    BY DEF FinalizeRound
  <1> SUFFICES ASSUME NEW b \in Apps, b \notin Excepted' PROVE OpenFor(b)'
    BY DEF OpenInv
  <1>2. CASE b \in Closed(r)
    BY <1>1, <1>2 DEF OpenFor
  <1>3. CASE b \notin Closed(r)
    <2>1. OpenFor(b) /\ Undecided(b)' = Undecided(b)
      BY <1>1, <1>3, KeptExcepted DEF OpenInv, Undecided
    <2> QED BY <1>1, <1>3, <2>1, OpenUntouched
  <1> QED BY <1>2, <1>3

LEMMA CancelOpen ==
    ASSUME PipelineInv, OpenInv, NEW rows, CancelJob(rows) PROVE OpenInv'
  <1> DEFINE hit == {a \in rows : Decide(TRANSITIONS.cancel_job, a, "rejected", "staff")}
  <1>1. /\ status' = [a \in Apps |-> IF a \in hit THEN "rejected" ELSE status[a]]
        /\ standing' = standing \ hit /\ rounds' = rounds
        /\ UNCHANGED <<position, states, cascades, exceptionVars>>
    BY DEF CancelJob
  <1> HIDE DEF hit
  <1> SUFFICES ASSUME NEW b \in Apps, b \notin Excepted' PROVE OpenFor(b)'
    BY DEF OpenInv
  <1>2. OpenFor(b) /\ Undecided(b)' = Undecided(b)
    BY <1>1, KeptExcepted DEF OpenInv, Undecided
  <1> QED BY <1>1, <1>2, OpenUntouched

\* Whoever is in progress in a job without rounds sits nowhere; when rounds
\* come, they enter the first.  Dropping all of them needs nobody in any.
LEMMA UpsertOpen ==
    ASSUME PipelineInv, OpenInv, NEW order \in Orders, UpsertJobRounds(order)
    PROVE  OpenInv'
  <1> DEFINE entering == IF order = <<>> THEN {} ELSE Backfilled
             kept == {order[i] : i \in DOMAIN order}
  <1>1. /\ rounds' = order
        /\ position' = [a \in Apps |-> IF a \in entering THEN order[1] ELSE position[a]]
        /\ states' = [a \in Apps |-> IF a \in entering
                                     THEN [states[a] EXCEPT ![order[1]] = PendingState]
                                     ELSE states[a]]
        /\ UNCHANGED <<status, standing, cascades, exceptionVars>>
        /\ \A r \in Listed \ kept : Droppable(r)
    BY DEF UpsertJobRounds
  <1> SUFFICES ASSUME NEW b \in Apps, b \notin Excepted' PROVE OpenFor(b)'
    BY DEF OpenInv
  <1>2. OpenFor(b)
    BY <1>1, KeptExcepted DEF OpenInv
  <1>3. states[b] \in [Rounds -> RoundStates] /\ NoRound \notin Listed
        /\ position[b] \in Listed \cup {NoRound} /\ Listed \subseteq Rounds
    BY PlaceFacts DEF PipelineInv, TypeOK
  <1>4. CASE b \in entering
    <2>1. order # <<>> /\ status[b] = "in_progress" /\ position[b] = NoRound
      BY <1>4 DEF Backfilled, Unrouted
    <2>2. order[1] \in Rounds /\ order[1] # NoRound
      <3>1. PICK n \in Nat : order \in [1..n -> Rounds]
        BY DEF Orders
      <3>2. n # 0
        <4>1. n = 0 => order = <<>>
          BY <3>1
        <4> QED BY <2>1, <4>1
      <3> QED BY <3>1, <3>2, PipelineAssumption
    <2>3. Undecided(b) = {}
      BY <1>2, <2>1 DEF OpenFor, Open
    <2>4. b \notin standing
      BY <2>1 DEF PipelineInv, StandingAgrees
    <2>5. position'[b] = order[1] /\ states'[b] = [states[b] EXCEPT ![order[1]] = PendingState]
      BY <1>1, <1>4
    <2>6. \A x \in Rounds : states'[b][x].result \in OpenResults <=> x = order[1]
      <3>1. PendingState.result \in OpenResults
        BY DEF PendingState, OpenResults
      <3>2. \A x \in Rounds : states[b][x].result \notin OpenResults
        BY <2>3 DEF Undecided, OpenResults
      <3> QED BY <1>3, <2>2, <2>5, <3>1, <3>2
    <2>7. Undecided(b)' = {order[1]}
      BY <2>2, <2>6 DEF Undecided, OpenResults
    <2> QED BY <1>1, <2>2, <2>4, <2>5, <2>7 DEF OpenFor, Open
  <1>5. CASE b \notin entering
    <2>1. position'[b] = position[b] /\ states'[b] = states[b]
      BY <1>1, <1>5
    <2>2. Open(b)' <=> Open(b)
      BY <2>1 DEF Open, Undecided
    <2>3. ASSUME status[b] = "in_progress", position[b] = NoRound
          PROVE  order = <<>>
      <3>1. rounds = <<>>
        BY <1>2, <2>3 DEF OpenFor
      <3> QED BY <1>5, <2>3, <3>1 DEF Backfilled, Unrouted
    <2>4. LastSwept(b)' = LastSwept(b)
      BY <1>1 DEF LastSwept
    <2> HIDE DEF entering, kept
    <2> QED BY <1>1, <1>2, <2>1, <2>2, <2>3, <2>4 DEF OpenFor
  <1> QED BY <1>4, <1>5

LEMMA OpenStep == PipelineInv /\ OpenInv /\ [Next]_vars => OpenInv'
  <1> SUFFICES ASSUME PipelineInv, OpenInv, [Next]_vars PROVE OpenInv'
    OBVIOUS
  <1>1. CASE StudentStep
    BY <1>1, StudentOpen DEF StudentStep
  <1>2. CASE ElsewhereStep
    BY <1>2, ElsewhereOpen, SweptAwayOpen, RestoreSweptOpen DEF ElsewhereStep
  <1>3. CASE BoardStep
    BY <1>3, BoardOpen DEF BoardStep
  <1>4. CASE DisciplineStep
    BY <1>4, NobodyOpens, KeptExcepted
       DEF DisciplineStep, AwardStrike, AwardPenalty, RevokeStrike, RevokePenalty,
           Rewrite, jobVars
  <1>5. CASE InterventionStep
    BY <1>5, ReinstateOpen, ForceOpen DEF InterventionStep
  <1>6. CASE JobStep
    BY <1>6, FinalizeOpen, CancelOpen, UpsertOpen DEF JobStep
  <1>7. CASE \E t \in Thresholds : SetThreshold(t)
    BY <1>7, NobodyOpens, KeptExcepted DEF SetThreshold, jobVars
  <1>8. CASE UNCHANGED vars
    BY <1>8, NobodyOpens, KeptExcepted DEF vars, jobVars
  <1> QED BY <1>1, <1>2, <1>3, <1>4, <1>5, <1>6, <1>7, <1>8 DEF Next

\* RND-1: through every command of the board, the builder, the interventions
\* and the restorations, an application in progress has one undecided round,
\* the one it sits in, and none while the job has no rounds.
THEOREM OneOpenRoundHolds == Spec => []OneOpenRound
  <1>1. Init => OpenInv
    BY DEF Init, OpenInv, OpenFor
  <1>2. PipelineInv /\ OpenInv => OneOpenRound
    <2> SUFFICES ASSUME PipelineInv, OpenInv, NEW a \in Apps, a \notin Excepted,
                        status[a] = "in_progress"
                 PROVE  Undecided(a) = IF rounds = <<>> THEN {} ELSE {position[a]}
      BY DEF OneOpenRound, Excepted
    <2>1. Undecided(a) = {position[a]} \ {NoRound} /\ (position[a] = NoRound => rounds = <<>>)
      BY DEF OpenInv, OpenFor, Open
    <2>2. rounds = <<>> => position[a] = NoRound
      <3>1. rounds = <<>> => Listed = {}
        BY DEF Listed
      <3> QED BY <3>1, PlaceFacts DEF PipelineInv
    <2> QED BY <2>1, <2>2
  <1> QED BY <1>1, <1>2, OpenStep, PipelineInvHolds, PTL DEF Spec

-----------------------------------------------------------------------------
(* What a penalty stands on, and what is left over.                         *)

LeastSupport == IF retuned THEN 1 ELSE threshold
SupportInv == \A a \in Apps : Supported(record[a], LeastSupport)

LEMMA LeastFacts ==
    ASSUME PipelineInv
    PROVE  /\ threshold \in Nat /\ LeastSupport \in Nat
           /\ LeastSupport = threshold \/ LeastSupport <= 1
           /\ LeastSupport <= threshold \/ LeastSupport <= 1
           /\ record \in [Apps -> Records(Places)]
           /\ Rounds \subseteq Places /\ NoRound \in Places
  BY ThresholdFacts, InvParts DEF DisciplineTypes, LeastSupport, Places

\* The threshold moves; one strike behind each penalty is what remains certain.
LEMMA ThresholdSupports ==
    ASSUME PipelineInv, SupportInv, NEW t \in Thresholds, SetThreshold(t)
    PROVE  SupportInv'
  <1>1. retuned' = TRUE /\ record' = record
    BY DEF SetThreshold
  <1>2. LeastSupport' = 1
    BY <1>1 DEF LeastSupport
  <1> QED BY <1>1, <1>2 DEF SupportInv, Supported, Support

LEMMA CommandSupports ==
    ASSUME PipelineInv, SupportInv, NEW a \in Apps,
           \/ AwardStrike(a) \/ AwardPenalty(a)
           \/ \E i \in DOMAIN record[a].strikes : RevokeStrike(a, i)
           \/ \E p \in DOMAIN record[a].penalties : RevokePenalty(a, p)
    PROVE  SupportInv'
  <1> DEFINE d == record[a]
             least == LeastSupport
  <1>1. /\ d \in Records(Places) /\ threshold \in Nat /\ least \in Nat /\ NoRound \in Places
        /\ Supported(d, least)
        /\ least = threshold \/ least <= 1
        /\ least <= threshold \/ least <= 1
        /\ record \in [Apps -> Records(Places)]
    BY LeastFacts DEF SupportInv
  <1>2. ASSUME NEW e, Rewrite(a, e), Supported(e, least) PROVE SupportInv'
    <2>1. record' = [record EXCEPT ![a] = e] /\ LeastSupport' = least
      BY <1>2 DEF Rewrite, LeastSupport
    <2> HIDE DEF least
    <2>2. \A b \in Apps : record'[b] = IF b = a THEN e ELSE record[b]
      BY <1>1, <2>1
    <2>3. \A b \in Apps : Supported(record'[b], least)
      BY <1>2, <2>2 DEF SupportInv, least
    <2> QED BY <2>1, <2>3 DEF SupportInv
  <1>3. CASE AwardStrike(a)
    <2>1. Supported(AwardStrikes(d, NoRound, threshold), least)
      <3> HIDE DEF d, least
      <3> QED BY <1>1, AwardSupports
    <2> QED BY <1>2, <1>3, <2>1 DEF AwardStrike
  <1>4. CASE AwardPenalty(a)
    <2> DEFINE e == [d EXCEPT !.penalties = Append(@, Penalty(FALSE))]
    <2>1. Rewrite(a, e) /\ e \in Records(Places)
      BY <1>4, DisciplineWrites DEF AwardPenalty
    <2>2. Supported(e, least)
      <3> HIDE DEF d, least
      <3> QED BY <1>1, <2>1, PenaltySupports
    <2> HIDE DEF e
    <2> QED BY <1>2, <2>1, <2>2
  <1>5. ASSUME NEW i \in DOMAIN record[a].strikes, RevokeStrike(a, i) PROVE SupportInv'
    <2>1. Supported(RecomputeAfterRevoke(d, i, threshold), least)
      <3> HIDE DEF least
      <3> QED BY <1>1, <1>5, RevokeSupports
    <2> QED BY <1>2, <1>5, <2>1 DEF RevokeStrike
  <1>6. ASSUME NEW p \in DOMAIN record[a].penalties, RevokePenalty(a, p) PROVE SupportInv'
    <2> DEFINE e == [d EXCEPT !.penalties[p].active = FALSE]
    <2>1. Rewrite(a, e) /\ e \in Records(Places)
      BY <1>6, DisciplineWrites DEF RevokePenalty
    <2>2. Supported(e, least)
      <3> HIDE DEF least
      <3> QED BY <1>1, <1>6, <2>1, PenaltySupports
    <2> HIDE DEF e
    <2> QED BY <1>2, <2>1, <2>2
  <1> QED BY <1>3, <1>4, <1>5, <1>6

LEMMA FinalizeSupports ==
    ASSUME PipelineInv, SupportInv, NEW r \in Rounds, FinalizeRound(r)
    PROVE  SupportInv'
  <1>1. /\ threshold \in Nat /\ LeastSupport \in Nat /\ r \in Places
        /\ LeastSupport <= threshold \/ LeastSupport <= 1
        /\ record \in [Apps -> Records(Places)]
    BY LeastFacts
  <1>2. LeastSupport' = LeastSupport
    BY DEF FinalizeRound, LeastSupport
  <1>3. ASSUME NEW a \in Apps PROVE Supported(record'[a], LeastSupport)
    <2>1. record'[a] = AwardStrikes(record[a], r, threshold) \/ record'[a] = record[a]
      BY DEF FinalizeRound
    <2>2. record[a] \in Records(Places) /\ Supported(record[a], LeastSupport)
      BY <1>1 DEF SupportInv
    <2> QED BY <1>1, <2>1, <2>2, AwardSupports
  <1> QED BY <1>2, <1>3 DEF SupportInv

\* The setting changes through its own command only.
LEMMA ThresholdKept ==
    [Next]_vars => \/ UNCHANGED <<threshold, retuned>>
                   \/ \E t \in Thresholds : SetThreshold(t)
  <1> SUFFICES ASSUME [Next]_vars, ~\E t \in Thresholds : SetThreshold(t)
               PROVE  UNCHANGED <<threshold, retuned>>
    OBVIOUS
  <1>1. CASE StudentStep
    BY <1>1 DEF StudentStep, Apply, Withdraw, disciplineVars
  <1>2. CASE ElsewhereStep
    BY <1>2 DEF ElsewhereStep, ExtendOffer, SweptAway, ExitCycle, RestoreMembership,
                RestoreSwept, disciplineVars
  <1>3. CASE BoardStep
    BY <1>3 DEF BoardStep, Advance, Promote, Eliminate, Waitlist, MarkAttendance, disciplineVars
  <1>4. CASE DisciplineStep
    BY <1>4 DEF DisciplineStep, AwardStrike, AwardPenalty, RevokeStrike, RevokePenalty, Rewrite
  <1>5. CASE InterventionStep
    BY <1>5 DEF InterventionStep, Reinstate, ForceTransition, disciplineVars
  <1>6. CASE JobStep
    BY <1>6 DEF JobStep, FinalizeRound, CancelJob, UpsertJobRounds, disciplineVars
  <1>7. CASE UNCHANGED vars
    BY <1>7 DEF vars, disciplineVars
  <1> QED BY <1>1, <1>2, <1>3, <1>4, <1>5, <1>6, <1>7 DEF Next

LEMMA SupportStep == PipelineInv /\ SupportInv /\ [Next]_vars => SupportInv'
  <1> SUFFICES ASSUME PipelineInv, SupportInv, [Next]_vars PROVE SupportInv'
    OBVIOUS
  <1>1. CASE UNCHANGED record
    <2>1. CASE UNCHANGED <<threshold, retuned>>
      BY <1>1, <2>1 DEF SupportInv, LeastSupport
    <2> QED BY <2>1, ThresholdKept, ThresholdSupports
  <1>2. CASE \E r \in Rounds : FinalizeRound(r)
    BY <1>2, FinalizeSupports
  <1>3. ASSUME NEW b \in Apps,
               \/ AwardStrike(b) \/ AwardPenalty(b)
               \/ \E k \in DOMAIN record[b].strikes : RevokeStrike(b, k)
               \/ \E p \in DOMAIN record[b].penalties : RevokePenalty(b, p)
        PROVE  SupportInv'
    BY <1>3, CommandSupports
  <1> QED BY <1>1, <1>2, <1>3, RecordStep

LEMMA SupportInit == Init => SupportInv
  BY DEF Init, CleanRecord, SupportInv, Supported

\* The checker's converted_penalties_keep_their_strikes, for any threshold: an
\* automatic penalty in force is backed by as many active strikes as made it,
\* and by one at least once the threshold has been changed.
THEOREM ConvertedPenaltiesSupportedHolds == Spec => []ConvertedPenaltiesSupported
  <1>1. SupportInv => ConvertedPenaltiesSupported
    BY DEF SupportInv, Supported, LeastSupport, ConvertedPenaltiesSupported
  <1> QED BY <1>1, SupportInit, SupportStep, PipelineInvHolds, PTL DEF Spec

LEMMA NothingLeftOver == PipelineInv /\ [Next]_vars => [LeftoversConverted]_vars
  <1> SUFFICES ASSUME PipelineInv, [Next]_vars, NEW a \in Apps,
                      record'[a].strikes # record[a].strikes, threshold # 0
               PROVE  Cardinality(Free(record'[a])) < threshold
    BY DEF LeftoversConverted
  <1>1. /\ threshold \in Nat \ {0} /\ record[a] \in Records(Places)
        /\ record \in [Apps -> Records(Places)]
        /\ Rounds \subseteq Places /\ NoRound \in Places
    BY LeastFacts
  <1>2. ASSUME NEW by \in Places, record'[a] = AwardStrikes(record[a], by, threshold)
        PROVE  Cardinality(Free(record'[a])) < threshold
    BY <1>1, <1>2, RewriteSettles
  <1>3. CASE \E r \in Rounds : FinalizeRound(r)
    <2>1. PICK r \in Rounds : FinalizeRound(r)
      BY <1>3
    <2>2. record'[a] = AwardStrikes(record[a], r, threshold) \/ record'[a] = record[a]
      BY <2>1 DEF FinalizeRound
    <2> QED BY <1>1, <1>2, <2>2
  <1>4. ASSUME NEW b \in Apps, NEW e, Rewrite(b, e)
        PROVE  a = b /\ record'[a] = e /\ e.strikes # record[b].strikes
    BY <1>1, <1>4 DEF Rewrite
  <1>5. ASSUME NEW b \in Apps, AwardStrike(b) PROVE Cardinality(Free(record'[a])) < threshold
    BY <1>1, <1>2, <1>4, <1>5 DEF AwardStrike
  <1>6. ASSUME NEW b \in Apps, AwardPenalty(b) PROVE FALSE
    <2> DEFINE e == [record[b] EXCEPT !.penalties = Append(@, Penalty(FALSE))]
    <2>1. Rewrite(b, e)
      BY <1>6 DEF AwardPenalty
    <2>2. e.strikes = record[b].strikes
      BY <1>1 DEF Records
    <2> HIDE DEF e
    <2> QED BY <1>4, <2>1, <2>2
  <1>7. ASSUME NEW b \in Apps, NEW i \in DOMAIN record[b].strikes, RevokeStrike(b, i)
        PROVE  Cardinality(Free(record'[a])) < threshold
    <2>1. a = b /\ record'[a] = RecomputeAfterRevoke(record[b], i, threshold)
      BY <1>4, <1>7 DEF RevokeStrike
    <2>2. i \in DOMAIN record[a].strikes
      BY <1>7, <2>1
    <2>3. Cardinality(Free(RecomputeAfterRevoke(record[a], i, threshold))) < threshold
      BY <1>1, <2>2, RewriteSettles
    <2> QED BY <2>1, <2>3
  <1>8. ASSUME NEW b \in Apps, NEW p \in DOMAIN record[b].penalties, RevokePenalty(b, p)
        PROVE  FALSE
    <2> DEFINE e == [record[b] EXCEPT !.penalties[p].active = FALSE]
    <2>1. Rewrite(b, e)
      BY <1>8 DEF RevokePenalty
    <2>2. e.strikes = record[b].strikes
      BY <1>1 DEF Records
    <2> HIDE DEF e
    <2> QED BY <1>4, <2>1, <2>2
  <1>9. CASE UNCHANGED record
    BY <1>9
  <1> QED BY <1>3, <1>5, <1>6, <1>7, <1>8, <1>9, RecordStep

\* DIS-1: an award or a revocation converts every complete group there is, for
\* any threshold and however many strikes a change of it or a dissolution freed.
THEOREM NoLeftoverGroupHolds == Spec => NoLeftoverGroup
  BY NothingLeftOver, PipelineInvHolds, PTL DEF Spec, NoLeftoverGroup
=============================================================================
