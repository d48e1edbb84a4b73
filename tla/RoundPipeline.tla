--------------------------- MODULE RoundPipeline ---------------------------
(***************************************************************************)
(* The rounds of one job of a dedicated cycle: the positions and round     *)
(* states of its applications, the builder that rewrites the rounds under  *)
(* them, finalization with its strikes, and the discipline record of each  *)
(* applicant.  An action is one committed command.  A row of a bulk sheet  *)
(* is an action of its own: bulk rows concern different applications and   *)
(* never read each other.                                                  *)
(*                                                                         *)
(* Every application belongs to another student.  "offered" stands for     *)
(* itself and all that can follow it, none of which touches a round.       *)
(***************************************************************************)
EXTENDS Transitions, Discipline

CONSTANTS
    Apps,             \* the applications to the job
    Rounds,           \* identities of its rounds
    NoRound,
    StrikeOnAbsence,  \* strike_on_absence of the cycle's policy
    Marks,            \* the attendance marks staff set in this instance
    Thresholds,       \* values of strikes_per_penalty, 0 for blank
    MaxStrikes,       \* bound: strikes per student
    MaxInterventions  \* bound: rare staff commands in a run

ASSUME PipelineAssumption ==
    /\ IsFiniteSet(Rounds) /\ NoRound \notin Rounds
    /\ StrikeOnAbsence \in BOOLEAN
    /\ Marks \subseteq {"pending", "present", "absent", "excused"}
    /\ Thresholds \subseteq Nat /\ Thresholds # {}
    /\ MaxStrikes \in Nat /\ MaxInterventions \in Nat

VARIABLES
    rounds,        \* the rounds in order (job_rounds.ord)
    finalized,     \* those whose finalized_at is set
    named,         \* those some application event names (a foreign key)
    cancelled,     \* has the job been cancelled?
    status,        \* application -> status
    position,      \* application -> current_round_id
    states,        \* application -> round -> its round state
    cascades,      \* application -> the acceptance cascades that withdrew it
    standing,      \* applications whose last event is the last of those
    record,        \* application -> discipline record of its student
    threshold,     \* strikes_per_penalty
    interventions,
    reordered,     \* did two rounds ever change places?
    strayed,       \* applications a restoration put where they no longer were
    leapt,         \* applications reinstated past an undecided round
    inactive,      \* applications of students who have left the cycle
    forced,        \* applications a forced transition ever touched
    retuned        \* did the threshold ever change?

jobVars == <<rounds, finalized, cancelled, reordered>>
appVars == <<status, position, states, named, standing>>
exceptionVars == <<inactive, strayed, leapt, forced>>
disciplineVars == <<record, threshold, retuned>>
vars == <<jobVars, appVars, cascades, exceptionVars, disciplineVars, interventions>>

Results == {"pending", "waitlisted", "advanced", "eliminated"}
Attendances == {"pending", "present", "absent", "excused"}
NoState == [result |-> "none", attendance |-> "none"]
PendingState == [result |-> "pending", attendance |-> "pending"]
RoundStates == [result : Results, attendance : Attendances] \cup {NoState}
Places == Rounds \cup {NoRound}

Listed == {rounds[i] : i \in DOMAIN rounds}

TypeOK ==
    /\ rounds \in Seq(Rounds)
    /\ \A i, k \in DOMAIN rounds : rounds[i] = rounds[k] => i = k
    /\ finalized \subseteq Listed /\ named \subseteq Listed
    /\ cancelled \in BOOLEAN /\ reordered \in BOOLEAN /\ retuned \in BOOLEAN
    /\ status \in [Apps -> Statuses]
    /\ position \in [Apps -> Places]
    /\ states \in [Apps -> [Rounds -> RoundStates]]
    /\ cascades \in [Apps -> Seq([from : EXIT_CASCADE_STATUSES, round : Places])]
    /\ standing \subseteq Apps /\ strayed \subseteq Apps
    /\ leapt \subseteq Apps /\ forced \subseteq Apps /\ inactive \subseteq Apps
    /\ record \in [Apps -> Records(Places)]
    /\ threshold \in Thresholds
    /\ interventions \in 0..MaxInterventions

\* Every order of some of the rounds.
Orders == {s \in UNION {[1..n -> Rounds] : n \in 0..Cardinality(Rounds)} :
              \A i, k \in DOMAIN s : s[i] = s[k] => i = k}

\* The job as it is published: with rounds or, so far, without.
Init ==
    /\ rounds \in Orders /\ finalized = {} /\ named = {}
    /\ cancelled = FALSE /\ reordered = FALSE /\ retuned = FALSE
    /\ status = [a \in Apps |-> "none"]
    /\ position = [a \in Apps |-> NoRound]
    /\ states = [a \in Apps |-> [r \in Rounds |-> NoState]]
    /\ cascades = [a \in Apps |-> <<>>]
    /\ standing = {} /\ strayed = {} /\ leapt = {} /\ forced = {} /\ inactive = {}
    /\ record = [a \in Apps |-> CleanRecord]
    /\ threshold \in Thresholds
    /\ interventions = 0

-----------------------------------------------------------------------------
FirstRound == IF rounds = <<>> THEN NoRound ELSE rounds[1]
Ord(r) == CHOOSE i \in DOMAIN rounds : rounds[i] = r
After(r) == {rounds[i] : i \in {k \in DOMAIN rounds : k > Ord(r)}}
Before(r) == Listed \ (After(r) \cup {r})
NextRound(r) == IF Ord(r) < Len(rounds) THEN rounds[Ord(r) + 1] ELSE NoRound

\* The state of `a` in the round it is sitting in, as the board joins it.
HasState(a) == position[a] # NoRound /\ states[a][position[a]] # NoState
Current(a) == states[a][position[a]]
ResultSet(a, result) ==
    IF HasState(a) THEN [states[a] EXCEPT ![position[a]].result = result] ELSE states[a]

Decide(t, a, to, actor) == Legal(t, status[a], to, actor, "placement", "auto_decline")

\* What every command on one application writes, its event included.
Write(a, to, place, rows) ==
    /\ status' = [status EXCEPT ![a] = to]
    /\ position' = [position EXCEPT ![a] = place]
    /\ states' = [states EXCEPT ![a] = rows]
    /\ named' = named \cup ({position[a], place} \ {NoRound})
    /\ standing' = standing \ {a}

Intervene ==
    /\ interventions < MaxInterventions
    /\ interventions' = interventions + 1

-----------------------------------------------------------------------------
(* The student, and what other parts of the portal do to the application.  *)

\* apply: into the first round, if the job has one yet.
Apply(a) ==
    /\ ~cancelled /\ a \notin inactive
    /\ Decide(TRANSITIONS.apply, a, "in_progress", "student")
    /\ Write(a, "in_progress", FirstRound,
             IF rounds = <<>> THEN states[a]
             ELSE [states[a] EXCEPT ![FirstRound] = PendingState])
    /\ UNCHANGED <<jobVars, cascades, exceptionVars, disciplineVars, interventions>>

\* withdraw_application.
Withdraw(a) ==
    /\ Decide(TRANSITIONS.withdraw, a, "withdrawn", "student")
    /\ Write(a, "withdrawn", position[a], states[a])
    /\ UNCHANGED <<jobVars, cascades, exceptionVars, disciplineVars, interventions>>

\* extend_offers.
ExtendOffer(a) ==
    /\ ~cancelled
    /\ Decide(TRANSITIONS.extend_offer, a, "offered", "staff")
    /\ Write(a, "offered", position[a], states[a])
    /\ UNCHANGED <<jobVars, cascades, exceptionVars, disciplineVars, interventions>>

\* An acceptance elsewhere sweeps the application; its event keeps the status
\* and the round it was taken from.
SweptAway(a) ==
    /\ Intervene
    /\ status[a] \in EXIT_CASCADE_STATUSES
    /\ status' = [status EXCEPT ![a] = "auto_withdrawn"]
    /\ named' = named \cup ({position[a]} \ {NoRound})
    /\ cascades' = [cascades EXCEPT ![a] =
                        Append(@, [from |-> status[a], round |-> position[a]])]
    /\ standing' = standing \cup {a}
    /\ UNCHANGED <<jobVars, position, states, exceptionVars, disciplineVars>>

\* Leaving the cycle withdraws it too, and records no acceptance.
ExitCycle(a) ==
    /\ Intervene
    /\ a \notin inactive
    /\ inactive' = inactive \cup {a}
    /\ IF status[a] \in EXIT_CASCADE_STATUSES
       THEN Write(a, ExitStatus(status[a]), position[a], states[a])
       ELSE UNCHANGED appVars
    /\ UNCHANGED <<jobVars, cascades, strayed, leapt, forced, disciplineVars>>

\* restore_membership brings no application back.
RestoreMembership(a) ==
    /\ a \in inactive
    /\ inactive' = inactive \ {a}
    /\ UNCHANGED <<jobVars, appVars, cascades, strayed, leapt, forced, disciplineVars,
                   interventions>>

\* terminate_offer restores what the k-th of those acceptances swept, as the
\* event of that cascade has it.
RestoreSwept(a, k) ==
    LET e == cascades[a][k]
        stale == a \notin standing \/ k # Len(cascades[a])
        nowhere == e.round = NoRound /\ rounds # <<>>
    IN /\ Intervene
       /\ status[a] = CascadeStatus(e.from)
       /\ Write(a, e.from, e.round, states[a])
       /\ cascades' = [cascades EXCEPT ![a] =
                           SubSeq(@, 1, k - 1) \o SubSeq(@, k + 1, Len(@))]
       /\ strayed' = IF stale \/ nowhere THEN strayed \cup {a} ELSE strayed
       /\ UNCHANGED <<jobVars, inactive, leapt, forced, disciplineVars>>

-----------------------------------------------------------------------------
(* plan_row: the four operations of the board.                             *)

Advanceable(a) ==
    /\ status[a] = "in_progress"
    /\ HasState(a)
    /\ Current(a).result # "waitlisted"

Promotable(a) ==
    /\ status[a] = "in_progress"
    /\ HasState(a)
    /\ Current(a).result = "waitlisted"

\* The database refuses a second state in a round (application_id, round_id).
Insertable(a, r) == states[a][r] = NoState

\* advance and promote: the next round's state is created and the position
\* moves onto it; out of the last round the position stays.
MoveOn(a) ==
    LET next == NextRound(position[a]) IN
    \/ /\ next = NoRound
       /\ Decide(TRANSITIONS.advance_final, a, "pending_offer", "staff")
       /\ Write(a, "pending_offer", position[a], ResultSet(a, "advanced"))
    \/ /\ next # NoRound
       /\ Insertable(a, next)
       /\ Write(a, "in_progress", next, [ResultSet(a, "advanced") EXCEPT ![next] = PendingState])

Advance(a) ==
    /\ Advanceable(a)
    /\ MoveOn(a)
    /\ UNCHANGED <<jobVars, cascades, exceptionVars, disciplineVars, interventions>>

Promote(a) ==
    /\ Promotable(a)
    /\ MoveOn(a)
    /\ UNCHANGED <<jobVars, cascades, exceptionVars, disciplineVars, interventions>>

\* eliminate, and removal_plan when an eligibility edit rejects the applicant.
Eliminate(a) ==
    /\ Decide(TRANSITIONS.eliminate, a, "rejected", "staff")
    /\ Write(a, "rejected", position[a], ResultSet(a, "eliminated"))
    /\ UNCHANGED <<jobVars, cascades, exceptionVars, disciplineVars, interventions>>

\* waitlist: a result, not a status.
Waitlist(a) ==
    /\ status[a] = "in_progress"
    /\ HasState(a)
    /\ Current(a).result # "waitlisted"
    /\ Write(a, "in_progress", position[a], ResultSet(a, "waitlisted"))
    /\ UNCHANGED <<jobVars, cascades, exceptionVars, disciplineVars, interventions>>

-----------------------------------------------------------------------------
(* Attendance and finalization.                                            *)

\* mark_attendance, and one row of bulk_mark_present or bulk_mark_absent: a
\* fact about any round the application has a state in, finalized or not.
MarkAttendance(a, r, mark) ==
    /\ ~cancelled
    /\ states[a][r] # NoState
    /\ status[a] \notin {"withdrawn", "auto_withdrawn"}
    /\ mark # states[a][r].attendance
    /\ states' = [states EXCEPT ![a][r].attendance = mark]
    /\ named' = named \cup {r}
    /\ standing' = standing \ {a}
    /\ UNCHANGED <<jobVars, status, position, cascades, exceptionVars, disciplineVars,
                   interventions>>

\* Mutant: nothing remembers that a round was finalized.
FinalizableAgain(r) == r \in Listed /\ ~cancelled

\* round_finalization_blocker.
Finalizable(r) == r \in Listed /\ ~cancelled /\ r \notin finalized

\* decide_round_finalization: the applications it rejects, wherever they sit.
Closed(r) ==
    {a \in Apps : /\ states[a][r] # NoState
                  /\ status[a] = "in_progress"
                  /\ states[a][r].result = "pending"
                  /\ states[a][r].attendance # "present"}

\* Of those, the ones that count as absent: unmarked ones do, excused do not.
Absent(r) == {a \in Closed(r) : states[a][r].attendance # "excused"}

\* finalize_round: the whole round at once, its strikes and their conversion
\* included.
FinalizeRound(r) ==
    LET struck == IF StrikeOnAbsence THEN Absent(r) ELSE {} IN
    /\ Finalizable(r)
    /\ \A a \in struck : Len(record[a].strikes) < MaxStrikes
    /\ finalized' = finalized \cup {r}
    /\ status' = [a \in Apps |-> IF a \in Closed(r) THEN "rejected" ELSE status[a]]
    /\ states' = [a \in Apps |->
                    IF a \in Closed(r)
                    THEN [states[a] EXCEPT ![r] =
                            [result |-> "eliminated",
                             attendance |-> IF a \in Absent(r) THEN "absent" ELSE "excused"]]
                    ELSE states[a]]
    /\ named' = IF Closed(r) # {} THEN named \cup {r} ELSE named
    /\ standing' = standing \ Closed(r)
    /\ record' = [a \in Apps |-> IF a \in struck
                                 THEN AwardStrikes(record[a], r, threshold)
                                 ELSE record[a]]
    /\ UNCHANGED <<rounds, cancelled, reordered, position, cascades, exceptionVars,
                   threshold, retuned, interventions>>

-----------------------------------------------------------------------------
(* Discipline, which knows no cycle: it stays open whatever becomes of the  *)
(* job.  Sources of strikes other than a round are all NoRound.             *)

Rewrite(a, d) ==
    /\ Intervene
    /\ record' = [record EXCEPT ![a] = d]
    /\ UNCHANGED <<jobVars, appVars, cascades, exceptionVars, threshold, retuned>>

\* award_strike, and the strike terminate_offer may award.
AwardStrike(a) ==
    /\ Len(record[a].strikes) < MaxStrikes
    /\ Rewrite(a, AwardStrikes(record[a], NoRound, threshold))

\* revoke_strike.
RevokeStrike(a, i) ==
    /\ record[a].strikes[i].active
    /\ Rewrite(a, RecomputeAfterRevoke(record[a], i, threshold))

\* award_penalty, and the penalty terminate_offer may award.
AwardPenalty(a) ==
    /\ Rewrite(a, [record[a] EXCEPT !.penalties = Append(@, Penalty(FALSE))])

\* revoke_penalty leaves the strikes it consumed consumed.
RevokePenalty(a, p) ==
    /\ record[a].penalties[p].active
    /\ Rewrite(a, [record[a] EXCEPT !.penalties[p].active = FALSE])

\* set_setting: strikes_per_penalty, which recomputes nothing.
SetThreshold(t) ==
    /\ Intervene
    /\ t # threshold
    /\ threshold' = t
    /\ retuned' = TRUE
    /\ UNCHANGED <<jobVars, appVars, cascades, exceptionVars, record>>

-----------------------------------------------------------------------------
(* Interventions and the builder.                                          *)

\* Mutant: reinstating leaves the rounds after the chosen one as they were.
ClearedNone(r) == {}

\* The round states reinstating to round `r` deletes.
Cleared(r) == After(r)

\* Mutant: the chosen round keeps the result that closed the application.
ReopenedAsItWas(row) == IF row = NoState THEN PendingState ELSE row

\* What it makes of the state in the chosen round: the mark survives.
Reopened(row) == IF row = NoState THEN PendingState ELSE [row EXCEPT !.result = "pending"]

Undecided(a) == {r \in Rounds : states[a][r].result \in {"pending", "waitlisted"}}

\* reinstate_application to round `r`, or to none when the job has no rounds.
Reinstate(a, r) ==
    /\ Intervene
    /\ Decide(TRANSITIONS.reinstate, a, "in_progress", "staff")
    /\ a \notin inactive
    /\ ~cancelled
    /\ IF rounds = <<>> THEN r = NoRound ELSE r \in Listed
    /\ Write(a, "in_progress", r,
             IF r = NoRound THEN states[a]
             ELSE [x \in Rounds |-> IF x = r THEN Reopened(states[a][r])
                                    ELSE IF x \in Cleared(r) THEN NoState
                                    ELSE states[a][x]])
    /\ leapt' = IF r # NoRound /\ Undecided(a) \cap Before(r) # {}
                THEN leapt \cup {a} ELSE leapt
    /\ UNCHANGED <<jobVars, cascades, inactive, strayed, forced, disciplineVars>>

\* force_transition: the status and its event, and nothing else.
ForceTransition(a, to) ==
    /\ Intervene
    /\ Decide(TRANSITIONS.force, a, to, "staff")
    /\ Write(a, to, position[a], states[a])
    /\ forced' = forced \cup {a}
    /\ UNCHANGED <<jobVars, cascades, inactive, strayed, leapt, disciplineVars>>

\* cancel_job over the rows the client previewed; round states stay as they are.
CancelJob(rows) ==
    LET hit == {a \in rows : Decide(TRANSITIONS.cancel_job, a, "rejected", "staff")} IN
    /\ Intervene
    /\ cancelled' = TRUE
    /\ status' = [a \in Apps |-> IF a \in hit THEN "rejected" ELSE status[a]]
    /\ named' = named \cup ({position[a] : a \in hit} \ {NoRound})
    /\ standing' = standing \ hit
    /\ UNCHANGED <<rounds, finalized, reordered, position, states, cascades, exceptionVars,
                   disciplineVars>>

Reached(r) == \E a \in Apps : states[a][r] # NoState

\* A round somebody has a state in cannot be dropped, says the builder; one an
\* event names cannot either, says the database.
Droppable(r) == ~Reached(r) /\ r \notin named

Unrouted == {a \in Apps : status[a] = "in_progress" /\ position[a] = NoRound}

\* Who enters the first round when the first rounds are created.
Backfilled == IF rounds = <<>> THEN Unrouted ELSE {}

\* upsert_job_rounds: rewrite the order to `order`.  A dropped identity that
\* comes back later is a new round.
UpsertJobRounds(order) ==
    LET kept == {order[i] : i \in DOMAIN order}
        entering == IF order = <<>> THEN {} ELSE Backfilled
    IN /\ Intervene
       /\ ~cancelled
       /\ order # rounds
       /\ \A r \in Listed \ kept : Droppable(r)
       /\ rounds' = order
       /\ finalized' = finalized \cap kept
       /\ reordered' = (reordered \/ \E r \in Listed \cap kept :
                            \E x \in After(r) \cap kept :
                               \E i, k \in DOMAIN order :
                                  order[i] = x /\ order[k] = r /\ i < k)
       /\ position' = [a \in Apps |-> IF a \in entering THEN order[1] ELSE position[a]]
       /\ states' = [a \in Apps |-> IF a \in entering
                                    THEN [states[a] EXCEPT ![order[1]] = PendingState]
                                    ELSE states[a]]
       /\ UNCHANGED <<cancelled, status, named, standing, cascades, exceptionVars,
                      disciplineVars>>

-----------------------------------------------------------------------------
PipelineStatuses == {"in_progress", "pending_offer", "offered", "rejected", "withdrawn",
                     "auto_withdrawn"}

StudentStep == \E a \in Apps : Apply(a) \/ Withdraw(a)

ElsewhereStep == \E a \in Apps :
    \/ ExtendOffer(a) \/ SweptAway(a) \/ ExitCycle(a) \/ RestoreMembership(a)
    \/ \E k \in DOMAIN cascades[a] : RestoreSwept(a, k)

BoardStep == \E a \in Apps :
    \/ Advance(a) \/ Promote(a) \/ Eliminate(a) \/ Waitlist(a)
    \/ \E r \in Rounds, mark \in Marks : MarkAttendance(a, r, mark)

DisciplineStep == \E a \in Apps :
    \/ AwardStrike(a) \/ AwardPenalty(a)
    \/ \E i \in DOMAIN record[a].strikes : RevokeStrike(a, i)
    \/ \E p \in DOMAIN record[a].penalties : RevokePenalty(a, p)

InterventionStep == \E a \in Apps :
    \/ \E r \in Places : Reinstate(a, r)
    \/ \E to \in PipelineStatuses : ForceTransition(a, to)

JobStep ==
    \/ \E r \in Rounds : FinalizeRound(r)
    \/ \E rows \in SUBSET Apps : CancelJob(rows)
    \/ \E order \in Orders : UpsertJobRounds(order)

Next ==
    \/ StudentStep \/ ElsewhereStep \/ BoardStep \/ DisciplineStep
    \/ InterventionStep \/ JobStep
    \/ \E t \in Thresholds : SetThreshold(t)

Spec == Init /\ [][Next]_vars

-----------------------------------------------------------------------------
(* Properties.                                                             *)

\* plan_row's promise: a row the board shows as advanceable or promotable is
\* one the command moves, never one the database refuses.
NextIsFree(a) ==
    Advanceable(a) \/ Promotable(a) =>
        \/ NextRound(position[a]) = NoRound
        \/ Insertable(a, NextRound(position[a]))
BoardKeepsItsPromise == \A a \in Apps : NextIsFree(a)

\* It holds as long as no two rounds have changed places and no restoration put
\* the application back: inserting, appending and dropping rounds, reinstating
\* and forcing leave nothing in the way of the next round.
AdvanceNeverCollides == ~reordered => \A a \in Apps \ strayed : NextIsFree(a)

\* RND-1: an application in progress has exactly one undecided round, the one it
\* is sitting in, and none only while the job has no rounds.  Finalization acts
\* on whatever is undecided in the round it closes: a second undecided round is
\* one whose finalization rejects, with a strike, somebody who is past it.
OneOpenRound ==
    \A a \in Apps \ (strayed \cup leapt \cup forced) :
        status[a] = "in_progress" =>
            Undecided(a) = IF rounds = <<>> THEN {} ELSE {position[a]}

\* RND-3: an absence is punished once, through every reinstatement into a round
\* that was finalized already.
OneStrikePerAbsence ==
    \A a \in Apps : \A i, k \in DOMAIN record[a].strikes :
        record[a].strikes[i].by = record[a].strikes[k].by /\ record[a].strikes[i].by # NoRound
        => i = k

\* The checker's converted_penalties_keep_their_strikes while the threshold
\* stays what it was; whatever becomes of the threshold, no converted penalty
\* stands on nothing.
ConvertedPenaltiesSupported ==
    \A a \in Apps : \A p \in DOMAIN record[a].penalties :
        record[a].penalties[p].fromStrikes /\ record[a].penalties[p].active
        => Cardinality(Support(record[a], p, 0)) >= IF retuned THEN 1 ELSE threshold

\* DIS-1: whenever a strike is awarded or revoked, what is left over is short of
\* a penalty, however many groups a lowered threshold or a dissolution set free.
LeftoversConverted ==
    \A a \in Apps :
        record'[a].strikes # record[a].strikes /\ threshold # 0
        => Cardinality(Free(record'[a])) < threshold
NoLeftoverGroup == [][LeftoversConverted]_vars

\* DIS-3: revoking a penalty leaves its strikes consumed for good; no later
\* revocation or conversion makes the student pay for them again.
StrikesOfRevokedStay ==
    \A a \in Apps : \A i \in DOMAIN record[a].strikes :
        LET p == record[a].strikes[i].penalty IN
        p # 0 /\ ~record[a].penalties[p].active => record'[a].strikes[i].penalty = p
SpentStrikesStaySpent == [][StrikesOfRevokedStay]_vars
=============================================================================
