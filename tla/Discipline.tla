----------------------------- MODULE Discipline -----------------------------
(***************************************************************************)
(* One enrollment's discipline record and the pure rules that rewrite it   *)
(* (domain/discipline.py, modules/discipline/awards.py): strikes, oldest   *)
(* first, and penalties, each a sequence that only grows.  A strike names  *)
(* the penalty that consumed it, 0 for none; a threshold of 0 stands for   *)
(* the blank setting that turns conversion off.                            *)
(***************************************************************************)
EXTENDS Integers, Sequences, FiniteSets

Strike(by) == [by |-> by, active |-> TRUE, penalty |-> 0]
Penalty(fromStrikes) == [fromStrikes |-> fromStrikes, active |-> TRUE]

Strikes(Source) == [by : Source, active : BOOLEAN, penalty : Nat]
Penalties == [fromStrikes : BOOLEAN, active : BOOLEAN]
Records(Source) == [strikes : Seq(Strikes(Source)), penalties : Seq(Penalties)]
CleanRecord == [strikes |-> <<>>, penalties |-> <<>>]

\* Active and consumed by no penalty yet.
Free(d) == {i \in DOMAIN d.strikes : d.strikes[i].active /\ d.strikes[i].penalty = 0}
Rank(d, i) == Cardinality({k \in Free(d) : k <= i})

\* Mutant: one award converts one group, however many are complete.
MaybeConvertOnce(d, threshold) ==
    LET groups == IF threshold # 0 /\ Cardinality(Free(d)) >= threshold THEN 1 ELSE 0
    IN [strikes |-> [i \in DOMAIN d.strikes |->
                        IF i \in Free(d) /\ Rank(d, i) <= groups * threshold
                        THEN [d.strikes[i] EXCEPT !.penalty = Len(d.penalties) + 1]
                        ELSE d.strikes[i]],
        penalties |-> d.penalties \o [g \in 1..groups |-> Penalty(TRUE)]]

\* maybe_convert and the rows written for it: every complete group of free
\* strikes, oldest first, becomes a penalty that consumes it.
MaybeConvert(d, threshold) ==
    LET groups == IF threshold = 0 THEN 0 ELSE Cardinality(Free(d)) \div threshold
        group(i) == (Rank(d, i) - 1) \div threshold + 1
    IN [strikes |-> [i \in DOMAIN d.strikes |->
                        IF i \in Free(d) /\ Rank(d, i) <= groups * threshold
                        THEN [d.strikes[i] EXCEPT !.penalty = Len(d.penalties) + group(i)]
                        ELSE d.strikes[i]],
        penalties |-> d.penalties \o [g \in 1..groups |-> Penalty(TRUE)]]

\* award_strikes, for the one strike a command ever gives an enrollment.
AwardStrikes(d, by, threshold) ==
    MaybeConvert([d EXCEPT !.strikes = Append(@, Strike(by))], threshold)

\* The active strikes other than `i` that back penalty `p`.
Support(d, p, i) ==
    {k \in DOMAIN d.strikes \ {i} : d.strikes[k].active /\ d.strikes[k].penalty = p}

\* Mutant: an inactive penalty is dissolved again, setting its strikes free.
DissolvesInactive(d, p, i, threshold) ==
    LET support == Cardinality(Support(d, p, i)) IN
    /\ p # 0
    /\ d.penalties[p].fromStrikes
    /\ support = 0 \/ (threshold # 0 /\ support < threshold)

\* Mutant: a penalty is held against the threshold alone, so with conversion
\* turned off it outlives its last strike.
DissolvesByThreshold(d, p, i, threshold) ==
    /\ p # 0
    /\ d.penalties[p].fromStrikes /\ d.penalties[p].active
    /\ threshold # 0 /\ Cardinality(Support(d, p, i)) < threshold

\* Does revoking strike `i` leave penalty `p` unsupported?
Dissolves(d, p, i, threshold) ==
    LET support == Cardinality(Support(d, p, i)) IN
    /\ p # 0
    /\ d.penalties[p].fromStrikes /\ d.penalties[p].active
    /\ support = 0 \/ (threshold # 0 /\ support < threshold)

\* recompute_after_revoke: dissolve what strike `i` leaves unsupported, free its
\* strikes, and group again whatever is free.
RecomputeAfterRevoke(d, i, threshold) ==
    LET p == d.strikes[i].penalty
        gone == Dissolves(d, p, i, threshold)
    IN MaybeConvert(
         [strikes |-> [k \in DOMAIN d.strikes |->
                        [d.strikes[k] EXCEPT
                            !.active = @ /\ k # i,
                            !.penalty = IF gone /\ @ = p THEN 0 ELSE @]],
          penalties |-> IF gone THEN [d.penalties EXCEPT ![p].active = FALSE]
                        ELSE d.penalties],
         threshold)
=============================================================================
