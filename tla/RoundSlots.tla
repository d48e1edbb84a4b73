----------------------------- MODULE RoundSlots -----------------------------
(***************************************************************************)
(* Where and when one applicant sits one round (RND-4).  The round has a   *)
(* default venue and time that the builder edits, the applicant's round    *)
(* state may override either, and five commands tell the applicant what    *)
(* they then see.  The commands hold the job's row, and what they decide   *)
(* for one applicant reads no other.                                       *)
(*                                                                         *)
(* Of the application only its bearing on the round is kept: "live" is in  *)
(* progress, pending an offer or offered; "withdrawn" is withdrawn by the  *)
(* student or the system; "closed" is every other status.                  *)
(***************************************************************************)
EXTENDS Naturals, Sequences, FiniteSets

CONSTANTS
    Venues, Times,
    Unset,     \* an empty cell, a null venue or a null time
    Garbled,   \* a time that neither accepted format reads
    Unseated   \* the applicant has no state in the round

VARIABLES
    default,   \* venue and scheduled_at of the round
    seat,      \* Unseated or the round state, with what its student was told
    bearing,   \* of the application's status on the round
    reminded,  \* the dedup key of the round reminder is taken
    jobCancelled

slotVars == <<default, seat, bearing, reminded, jobCancelled>>

Slots == [venue : Venues \cup {Unset}, time : Times \cup {Unset}]
NoSlot == [venue |-> Unset, time |-> Unset]

\* awaiting: current_round_id names the round and its result is open.  told is
\* what the last message of this sitting stated, {} before the first; missed is
\* set when the slot moved while the student had left, until the next message.
Seated == [override : Slots, notified : BOOLEAN, awaiting : BOOLEAN,
           told : {{}} \cup {{s} : s \in Slots}, missed : BOOLEAN]

\* One line for the applicant: by which name it calls them and what it asks.
SlotRows == [identifier : {"roll", "email"},
             venue : Venues \cup {Unset}, time : Times \cup {Unset, Garbled}]

SlotsInit ==
    /\ default \in Slots
    /\ seat = Unseated
    /\ bearing = "live"
    /\ reminded = FALSE
    /\ jobCancelled = FALSE

-----------------------------------------------------------------------------
\* A cell that is set covers what lies beneath it; COALESCE in the queries.
Cover(cell, beneath) == IF cell # Unset THEN cell ELSE beneath

Over(cells, beneath) == [venue |-> Cover(cells.venue, beneath.venue),
                         time |-> Cover(cells.time, beneath.time)]

Sees(s, roundDefault) == Over(s.override, roundDefault)

Told(s, slot) == [s EXCEPT !.told = {slot}, !.missed = FALSE]

\* A new round state: an advance or a promotion states the defaults in its own
\* message; an application, a backfill and a reinstatement state nothing.
FreshSeat(stated) ==
    [override |-> NoSlot, notified |-> FALSE, awaiting |-> TRUE,
     told |-> stated, missed |-> FALSE]

EnterRound(advanced) ==
    /\ bearing = "live"
    /\ seat = Unseated
    /\ ~jobCancelled
    /\ seat' = FreshSeat(IF advanced THEN {default} ELSE {})
    /\ UNCHANGED <<default, bearing, reminded, jobCancelled>>

-----------------------------------------------------------------------------
Readable(row) ==
    /\ row.venue # Unset \/ row.time # Unset
    /\ row.time # Garbled

\* parse_slot_upload reports a name that an earlier line has used, even a line
\* that it reports as well; rows typed on the board come as they are.
Parsed(row, before, uploaded) ==
    uploaded => Readable(row) /\ \A i \in DOMAIN before : before[i].identifier # row.identifier

\* Of the rows that reach the command the first that asks for a slot stands.
Asked(rows, uploaded) ==
    {i \in DOMAIN rows : Readable(rows[i]) /\ Parsed(rows[i], SubSeq(rows, 1, i - 1), uploaded)}

SlotBlocked ==
    \/ jobCancelled
    \/ seat = Unseated
    \/ bearing = "withdrawn"

\* A row that moves nothing is a publication only when it is the first.
ShouldPublish(s, slot) == slot # Sees(s, default) \/ ~s.notified

AssignVenueTiming(rows, uploaded) ==
    /\ ~SlotBlocked
    /\ \E i \in Asked(rows, uploaded) :
          LET cells == [venue |-> rows[i].venue, time |-> rows[i].time]
              slot == Over(cells, Sees(seat, default))
          IN  /\ \A j \in Asked(rows, uploaded) : i <= j
              /\ ShouldPublish(seat, slot)
              /\ seat' = Told([seat EXCEPT !.override = Over(cells, @), !.notified = TRUE], slot)
    /\ UNCHANGED <<default, bearing, reminded, jobCancelled>>

-----------------------------------------------------------------------------
\* Mutant: a student with an override of either kind is passed over.
NoticesWithoutOverride(s, moved) ==
    /\ bearing = "live"
    /\ s.override = NoSlot
    /\ Sees(s, moved) # Sees(s, default)

\* _reschedule_notices: whom a new default moves, among those still on the job.
Notices(s, moved) ==
    /\ bearing = "live"
    /\ Sees(s, moved) # Sees(s, default)

Rescheduled(s, moved) ==
    IF Notices(s, moved) THEN Told([s EXCEPT !.notified = TRUE], Sees(s, moved))
    ELSE IF bearing # "live" /\ Sees(s, moved) # Sees(s, default)
    THEN [s EXCEPT !.missed = TRUE]
    ELSE s

\* upsert_job_rounds writes the venue it is sent, none included; a time left
\* out of the row stays, and an explicit null clears it.
UpsertDefaults(venue, time) ==
    /\ ~jobCancelled
    /\ LET moved == [venue |-> venue, time |-> IF time = {} THEN default.time
                                               ELSE CHOOSE t \in time : TRUE]
       IN  /\ default' = moved
           /\ seat' = IF seat = Unseated THEN seat ELSE Rescheduled(seat, moved)
    /\ UNCHANGED <<bearing, reminded, jobCancelled>>

\* One reminder per round and student, of the slot they see, whatever became
\* of the slot the reminder stated.
SendRoundReminder ==
    /\ bearing = "live"
    /\ seat # Unseated
    /\ seat.awaiting
    /\ ~reminded
    /\ Sees(seat, default).time # Unset
    /\ seat' = Told(seat, Sees(seat, default))
    /\ reminded' = TRUE
    /\ UNCHANGED <<default, bearing, jobCancelled>>

-----------------------------------------------------------------------------
\* Advanced or promoted out of the round.
PassRound ==
    /\ bearing = "live"
    /\ seat # Unseated
    /\ seat.awaiting
    /\ seat' = [seat EXCEPT !.awaiting = FALSE]
    /\ UNCHANGED <<default, bearing, reminded, jobCancelled>>

\* Eliminated, rejected, declined or accepted; or withdrawn, also by the system.
LeaveJob(left) ==
    /\ bearing = "live"
    /\ bearing' = left
    /\ UNCHANGED <<default, seat, reminded, jobCancelled>>

\* Reinstatement to this round, to a later one, or to an earlier one, which
\* deletes this round's state; a direct offer leaves the states alone.
ReturnTo(target) ==
    /\ bearing # "live"
    /\ ~jobCancelled
    /\ bearing' = "live"
    /\ seat' = CASE target = "earlier" -> Unseated
                 [] target = "here" /\ seat = Unseated -> FreshSeat({})
                 [] target = "here" /\ seat # Unseated -> [seat EXCEPT !.awaiting = TRUE]
                 [] target = "later" /\ seat = Unseated -> seat
                 [] target = "later" /\ seat # Unseated -> [seat EXCEPT !.awaiting = FALSE]
    /\ UNCHANGED <<default, reminded, jobCancelled>>

CancelJob ==
    /\ ~jobCancelled
    /\ jobCancelled' = TRUE
    /\ bearing' = IF bearing = "live" THEN "closed" ELSE bearing
    /\ UNCHANGED <<default, seat, reminded>>

SlotsNext ==
    \/ \E advanced \in BOOLEAN : EnterRound(advanced)
    \/ \E one, two \in SlotRows, uploaded \in BOOLEAN :
          \/ AssignVenueTiming(<<one>>, uploaded)
          \/ AssignVenueTiming(<<one, two>>, uploaded)
    \/ \E venue \in Venues \cup {Unset}, time \in {{}, {Unset}} \cup {{t} : t \in Times} :
          UpsertDefaults(venue, time)
    \/ SendRoundReminder
    \/ PassRound
    \/ \E left \in {"closed", "withdrawn"} : LeaveJob(left)
    \/ \E target \in {"earlier", "here", "later"} : ReturnTo(target)
    \/ CancelJob

SlotsSpec == SlotsInit /\ [][SlotsNext]_slotVars

-----------------------------------------------------------------------------
\* A student sees the override where there is one and the default elsewhere, so
\* an edit of either can move what they were told.  Whichever of the commands
\* spoke last, and however overrides and defaults were edited since, what a
\* student was last told is what they see, unless the default moved while they
\* had left the job.
ToldWhatTheySee ==
    seat # Unseated /\ seat.told # {} /\ ~seat.missed => seat.told = {Sees(seat, default)}

\* "Nothing about this student's slot moves, and they have already been told
\* what it is" (venues.py): of a student on the job who was notified once.
NotifiedIsInformed ==
    seat # Unseated /\ seat.notified /\ bearing = "live" => seat.told = {Sees(seat, default)}
=============================================================================
