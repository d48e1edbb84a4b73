--------------------------- MODULE SerialCommands ---------------------------
(***************************************************************************)
(* The commands on one student's placement applications, as if each of     *)
(* them ran alone: it reads the committed database and replaces it in one  *)
(* step.  This is what the row locks of the loaders are there to give.     *)
(*                                                                         *)
(* A coarser view of OfferLifecycle: every job is a placement job of a     *)
(* dedicated cycle, an application has at most one offer, and every offer  *)
(* that expires is one of an auto-accepting cycle.                         *)
(***************************************************************************)
EXTENDS Transitions

CONSTANTS
    Apps, Jobs, Cycles,
    JobOf, CycleOf,
    FirstStatus,       \* application -> its status when the run starts
    Txs,               \* the transactions that may run, each once
    Command, Target    \* transaction -> its command and the application it names

Commands == {"accept", "expire", "terminate", "decline", "withdraw", "promote",
             "extend", "cancel", "archive", "leave", "apply", "finalize"}

VARIABLE db   \* the committed rows

CycleOfApp(a) == CycleOf[JobOf[a]]
InJob(j) == {b \in Apps : JobOf[b] = j}
InCycle(c) == {b \in Apps : CycleOfApp(b) = c}

\* `offer` is the application's offer row: accepted, declined and terminated
\* ones are closed.
Database == [status : [Apps -> Statuses],
             offer : [Apps -> {"absent", "open", "accepted", "declined", "terminated"}],
             cancelled : SUBSET Jobs, archived : SUBSET Cycles, left : SUBSET Cycles]

Init == db = [status |-> FirstStatus,
              offer |-> [a \in Apps |-> IF FirstStatus[a] = "offered" THEN "open" ELSE "absent"],
              cancelled |-> {}, archived |-> {}, left |-> {}]

-----------------------------------------------------------------------------
Placed(s) == \E b \in Apps : s.offer[b] = "accepted"
Answerable(s, a) == s.status[a] = "offered" /\ s.offer[a] = "open"

\* The guards of each command on the state `s` that its loader returned.
Allowed(cmd, a, s) ==
    /\ CycleOfApp(a) \notin s.archived
    /\ CASE cmd = "accept" -> Answerable(s, a) /\ ~Placed(s)
         [] cmd \in {"expire", "decline"} -> Answerable(s, a)
         [] cmd = "terminate" -> \/ Answerable(s, a)
                                 \/ s.status[a] = "accepted" /\ s.offer[a] = "accepted"
         [] cmd = "withdraw" -> s.status[a] \in TRANSITIONS.withdraw.from
         [] cmd = "promote" -> s.status[a] \in TRANSITIONS.advance_final.from
         [] cmd = "extend" -> /\ s.status[a] \in TRANSITIONS.extend_offer.from
                              /\ s.offer[a] = "absent" /\ JobOf[a] \notin s.cancelled
         [] cmd = "leave" -> CycleOfApp(a) \notin s.left
         [] cmd = "apply" -> /\ s.status[a] = "none" /\ ~Placed(s)
                             /\ JobOf[a] \notin s.cancelled /\ CycleOfApp(a) \notin s.left
         [] cmd = "finalize" -> JobOf[a] \notin s.cancelled
         [] cmd \in {"cancel", "archive"} -> TRUE

Move(s, a, to, row) == [s EXCEPT !.status[a] = to, !.offer[a] = row]

\* plan_acceptance with its cascade.
Accept(s, a) ==
    LET swept == {b \in Apps \ {a} :
                    CascadeTakes("placement", CycleOfApp(a), "placement",
                                 "placement", CycleOfApp(b), "placement", s.status[b])}
    IN [s EXCEPT !.status = [b \in Apps |-> IF b = a THEN "accepted"
                                            ELSE IF b \in swept THEN CascadeStatus(@[b])
                                            ELSE @[b]],
                 !.offer = [b \in Apps |-> IF b = a THEN "accepted"
                                           ELSE IF b \in swept /\ s.status[b] = "offered"
                                                THEN "declined"
                                           ELSE @[b]]]

\* compute_membership_exit_cascade over the applications of one cycle.
ExitCycle(s, c) ==
    [s EXCEPT !.status = [b \in Apps |-> IF b \in InCycle(c) THEN ExitStatus(@[b]) ELSE @[b]]]

\* Rows of the job in one of `statuses` are rejected, their open offers revoked.
RejectRows(s, j, statuses) ==
    LET hit == {b \in InJob(j) : s.status[b] \in statuses}
    IN [s EXCEPT !.status = [b \in Apps |-> IF b \in hit THEN "rejected" ELSE @[b]],
                 !.offer = [b \in Apps |-> IF b \in hit /\ @[b] = "open"
                                           THEN "terminated" ELSE @[b]]]

Planned(cmd, a, s) ==
    CASE cmd = "accept" -> Accept(s, a)
      [] cmd = "expire" -> IF Placed(s) \/ CycleOfApp(a) \in s.left
                           THEN Move(s, a, "declined", "declined") ELSE Accept(s, a)
      [] cmd = "decline" -> Move(s, a, "declined", "declined")
      [] cmd = "terminate" -> Move(s, a, "offer_terminated", "terminated")
      [] cmd = "withdraw" -> Move(s, a, "withdrawn", s.offer[a])
      [] cmd = "promote" -> Move(s, a, "pending_offer", s.offer[a])
      [] cmd = "extend" -> Move(s, a, "offered", "open")
      [] cmd = "apply" -> Move(s, a, "in_progress", "absent")
      [] cmd = "cancel" -> [RejectRows(s, JobOf[a], LiveStatuses)
                              EXCEPT !.cancelled = @ \cup {JobOf[a]}]
      [] cmd = "finalize" -> RejectRows(s, JobOf[a], {"in_progress"})
      [] cmd = "archive" -> [ExitCycle(s, CycleOfApp(a))
                               EXCEPT !.archived = @ \cup {CycleOfApp(a)}]
      [] cmd = "leave" -> [ExitCycle(s, CycleOfApp(a)) EXCEPT !.left = @ \cup {CycleOfApp(a)}]

\* decide and the executor's state operations; a rejection changes nothing.
Effect(t, s) ==
    IF Allowed(Command[t], Target[t], s) THEN Planned(Command[t], Target[t], s) ELSE s

Run(t) == db' = Effect(t, db)

Next == \E t \in Txs : Run(t)

Spec == Init /\ [][Next]_db
=============================================================================
