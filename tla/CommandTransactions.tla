------------------------- MODULE CommandTransactions -------------------------
(***************************************************************************)
(* The same commands as PostgreSQL runs them: several transactions at once *)
(* (READ COMMITTED), each taking the row locks of its loader one after the *)
(* other, reading, deciding on what it read, and writing when it commits.  *)
(*                                                                         *)
(* One student, so one enrollment row; other students' rows are locked by  *)
(* nobody here.                                                            *)
(***************************************************************************)
EXTENDS Transitions, Sequences

CONSTANTS
    Apps, Jobs, Cycles, JobOf, CycleOf, FirstStatus, Txs, Command, Target,
    AppOrder, OfferOrder,   \* the applications by id, and by the id of their offer
    MaxRunning,             \* bound: transactions open at the same time
    MaxStarted              \* bound: transactions in a run

VARIABLES
    db,
    pc,      \* transaction -> the step of its script it is at; 0 before it begins
    held,    \* transaction -> rows it has locked
    seen     \* transaction -> the rows as it read them

vars == <<db, pc, held, seen>>

Serial == INSTANCE SerialCommands

ASSUME DatabaseAssumption ==
    /\ JobOf \in [Apps -> Jobs] /\ CycleOf \in [Jobs -> Cycles]
    /\ FirstStatus \in [Apps -> {"none"} \cup LiveStatuses]
    /\ Command \in [Txs -> Serial!Commands] /\ Target \in [Txs -> Apps]

ASSUME OrderAssumption ==
    /\ AppOrder \in Seq(Apps) /\ OfferOrder \in Seq(Apps)
    /\ {AppOrder[i] : i \in DOMAIN AppOrder} = Apps /\ Len(AppOrder) = Cardinality(Apps)
    /\ {OfferOrder[i] : i \in DOMAIN OfferOrder} = Apps /\ Len(OfferOrder) = Cardinality(Apps)
    /\ MaxRunning \in Nat \ {0} /\ MaxStarted \in Nat \ {0}

-----------------------------------------------------------------------------
(* The loaders, as the statements that lock or read.                       *)

Step(op, kind, id) == [op |-> op, row |-> [kind |-> kind, id |-> id]]
Lock(kind, id) == <<Step("lock", kind, id)>>
Peek == <<Step("peek", "none", "none")>>
Read == <<Step("read", "none", "none")>>

\* ORDER BY id: those of `set`, in the order of their places.
Among(order, set) ==
    LET places == {i \in DOMAIN order : order[i] \in set}
        nth(n) == CHOOSE i \in places : Cardinality({k \in places : k <= i}) = n
    IN  [n \in 1..Cardinality(places) |-> order[nth(n)]]

Each(op, kind, ids) == [i \in 1..Len(ids) |-> Step(op, kind, ids[i])]
LockOffers(set) == Each("lock", "offer", Among(OfferOrder, set))
LockApps(set) == Each("lock", "app", Among(AppOrder, set))
Enrollment == Lock("enrollment", "mine")

CycleOfApp(a) == CycleOf[JobOf[a]]
InJob(a) == {b \in Apps : JobOf[b] = JobOf[a]}
InCycle(a) == {b \in Apps : CycleOfApp(b) = CycleOfApp(a)}
CycleAndJob(a) == Lock("cycle", CycleOfApp(a)) \o Lock("job", JobOf[a])

\* Mutant: only the target is locked, not what the cascade will write.
AcceptanceLocksTargetOnly(a) ==
    Enrollment \o LockOffers(InCycle(a)) \o LockApps({a})

\* Mutant: the application first, as the other commands on it do.
AcceptanceLocksTargetFirst(a) ==
    LockApps({a}) \o Enrollment \o LockOffers(InCycle(a)) \o LockApps(Apps) \o LockOffers(Apps)

\* lock_acceptance_state for a placement offer: the enrollment, its offers in
\* the cycle, every placement application of the enrollment, their offers.
AcceptanceLocks(a) ==
    Enrollment \o LockOffers(InCycle(a)) \o LockApps(Apps) \o LockOffers(Apps)

DeclineLocks(a) == LockOffers({a}) \o LockApps({a})
WithdrawLocks(a) == Peek \o LockApps({a})
PromoteLocks(a) == CycleAndJob(a) \o LockApps(InJob(a))
ExtendLocks(a) == CycleAndJob(a) \o LockOffers(InJob(a)) \o LockApps(InJob(a))
CancelLocks(a) == CycleAndJob(a) \o LockOffers(InJob(a)) \o LockApps(InJob(a))
ArchiveLocks(a) == Lock("cycle", CycleOfApp(a)) \o LockApps(InCycle(a))
LeaveLocks(a) ==
    Lock("cycle", CycleOfApp(a)) \o Lock("membership", CycleOfApp(a)) \o LockApps(InCycle(a))

\* The insert of `apply` takes key-share locks on the rows it refers to.
ApplyScript(a) ==
    Peek \o Lock("membership", CycleOfApp(a)) \o Read \o Lock("job", JobOf[a]) \o Enrollment

\* The updates of finalize_round lock the applications they reject, which were
\* read before.
FinalizeScript(a) ==
    CycleAndJob(a) \o Read \o Enrollment \o Each("write", "app", Among(AppOrder, InJob(a)))

Script(cmd, a) ==
    CASE cmd \in {"accept", "expire", "terminate"} -> AcceptanceLocks(a) \o Read
      [] cmd = "decline" -> DeclineLocks(a) \o Read
      [] cmd = "withdraw" -> WithdrawLocks(a) \o Read
      [] cmd = "promote" -> PromoteLocks(a) \o Read
      [] cmd = "extend" -> ExtendLocks(a) \o Read
      [] cmd = "cancel" -> CancelLocks(a) \o Read
      [] cmd = "archive" -> ArchiveLocks(a) \o Read
      [] cmd = "leave" -> LeaveLocks(a) \o Read
      [] cmd = "apply" -> ApplyScript(a)
      [] cmd = "finalize" -> FinalizeScript(a)

ScriptOf == [t \in Txs |-> Script(Command[t], Target[t])]
StepOf(t) == ScriptOf[t][pc[t]]
EndOf(t) == Len(ScriptOf[t]) + 1

-----------------------------------------------------------------------------
Unread == [status |-> <<>>, offer |-> <<>>, cancelled |-> {}, archived |-> {}, left |-> {}]

Rows == [kind : {"enrollment", "cycle", "job", "membership", "offer", "app"},
         id : Apps \cup Jobs \cup Cycles \cup {"mine"}]

TypeOK ==
    /\ db \in Serial!Database
    /\ \A t \in Txs : pc[t] \in 0..(EndOf(t) + 1)
    /\ held \in [Txs -> SUBSET Rows]
    /\ \A t \in Txs : seen[t] \in Serial!Database \cup {Unread}
    /\ \A t, u \in Txs : t # u => held[t] \cap held[u] = {}

Init ==
    /\ Serial!Init
    /\ pc = [t \in Txs |-> 0]
    /\ held = [t \in Txs |-> {}]
    /\ seen = [t \in Txs |-> Unread]

Running(t) == pc[t] \in 1..EndOf(t)
Open == {t \in Txs : Running(t)}
Locking(t) == Running(t) /\ pc[t] < EndOf(t) /\ StepOf(t).op \in {"lock", "write"}

\* FOR UPDATE locks the rows that are there; an UPDATE those that it changes.
Wanted(t) ==
    LET row == StepOf(t).row IN
    IF StepOf(t).op = "write"
    THEN {r \in {row} : Serial!Effect(t, seen[t]).status[r.id] # seen[t].status[r.id]}
    ELSE {r \in {row} : CASE r.kind = "offer" -> db.offer[r.id] # "absent"
                          [] r.kind = "app" -> db.status[r.id] # "none"
                          [] OTHER -> TRUE}

\* FOR UPDATE waits for whoever holds one of the rows.
Blockers(t) == {u \in Txs \ {t} : Locking(t) /\ Wanted(t) \cap held[u] # {}}

Begin(t) ==
    /\ pc[t] = 0
    /\ Cardinality(Open) < MaxRunning
    /\ Cardinality({u \in Txs : pc[u] # 0}) < MaxStarted
    /\ pc' = [pc EXCEPT ![t] = 1]
    /\ UNCHANGED <<db, held, seen>>

AcquireLock(t) ==
    /\ Locking(t)
    /\ Blockers(t) = {}
    /\ held' = [held EXCEPT ![t] = @ \cup Wanted(t)]
    /\ pc' = [pc EXCEPT ![t] = @ + 1]
    /\ UNCHANGED <<db, seen>>

\* "peek" is the cycle header some loaders fetch before they lock anything and
\* do not fetch again.
ReadRows(t) ==
    /\ Running(t) /\ pc[t] < EndOf(t)
    /\ \/ StepOf(t).op = "peek"
          /\ seen' = [seen EXCEPT ![t] = db]
       \/ StepOf(t).op = "read"
          /\ seen' = [seen EXCEPT ![t] =
                IF @ = Unread THEN db
                ELSE [db EXCEPT !.archived = seen[t].archived,
                                !.cancelled = seen[t].cancelled]]
    /\ pc' = [pc EXCEPT ![t] = @ + 1]
    /\ UNCHANGED <<db, held>>

\* The state operations are computed from what was read, and each names the
\* row and the column it sets.
Overwrite(read, new) ==
    [status |-> [a \in Apps |-> IF new.status[a] # read.status[a]
                                THEN new.status[a] ELSE db.status[a]],
     offer |-> [a \in Apps |-> IF new.offer[a] # read.offer[a]
                               THEN new.offer[a] ELSE db.offer[a]],
     cancelled |-> db.cancelled \cup (new.cancelled \ read.cancelled),
     archived |-> db.archived \cup (new.archived \ read.archived),
     left |-> db.left \cup (new.left \ read.left)]

End(t) ==
    /\ pc' = [pc EXCEPT ![t] = EndOf(t) + 1]
    /\ held' = [held EXCEPT ![t] = {}]
    /\ seen' = [seen EXCEPT ![t] = Unread]

Commit(t) ==
    /\ pc[t] = EndOf(t)
    /\ db' = Overwrite(seen[t], Serial!Effect(t, seen[t]))
    /\ End(t)

\* Everyone in `set` waits for somebody in `set`.
CyclicWait(set) == set # {} /\ \A t \in set : Blockers(t) \cap set # {}

\* PostgreSQL's deadlock detector cancels one transaction of a cycle.
CancelVictim(t) ==
    /\ \E set \in SUBSET Open : t \in set /\ CyclicWait(set)
    /\ End(t)
    /\ UNCHANGED db

Next == \E t \in Txs :
    Begin(t) \/ AcquireLock(t) \/ ReadRows(t) \/ Commit(t) \/ CancelVictim(t)

Spec == Init /\ [][Next]_vars

-----------------------------------------------------------------------------
\* BEHAVIOR "Concurrency": commands that race are serialized by row locks.
\* What a transaction commits is what its command does to the database as it is
\* at that moment, although it was decided on rows read earlier.
Serialized == Serial!Spec

\* locking.py: no two acceptances of a student, from whatever cycles, portal
\* command or expiry task, ever wait for each other in a circle.
Acceptances == {t \in Txs : Command[t] \in {"accept", "expire", "terminate"}}
AcceptancesNeverDeadlock == \A set \in SUBSET (Acceptances \cap Open) : ~CyclicWait(set)

\* jobs/cancel.py, offers/commands.py: taking offers before applications rules
\* out a deadlock of the other writers with an acceptance.
NeverDeadlock == \A set \in SUBSET Open : ~CyclicWait(set)

\* BEHAVIOR ELG-3: a student who is placed has no live application left in a
\* placement cycle.
PlacedStudentIsOut ==
    Serial!Placed(db) => \A a \in Apps : db.status[a] \notin LiveStatuses
=============================================================================
