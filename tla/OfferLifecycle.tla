--------------------------- MODULE OfferLifecycle ---------------------------
(***************************************************************************)
(* One student's applications and offers, at the granularity of committed  *)
(* commands: every action is one command of the backend, its whole plan    *)
(* applied in one transaction.  CommandTransactions checks that the row    *)
(* locks of the commands make this granularity right.                      *)
(*                                                                         *)
(* Other students never appear: every lock, gate and cascade of this code  *)
(* is keyed by the enrollment.                                             *)
(***************************************************************************)
EXTENDS Transitions

CONSTANTS
    Apps,             \* the application rows the student may ever create
    Jobs, Cycles,
    JobOf,            \* application -> job
    CycleOf,          \* job -> cycle
    Outcome,          \* job -> "placement" or "internship", fixed at creation
    ApplyBy,          \* job -> application deadline, 0 for none
    FirstDeadline,    \* job -> initial offer_acceptance_deadline, 0 for none
    Kind,             \* cycle -> kind
    Behavior,         \* cycle -> offer_expiry_behavior of its policy
    Cap,              \* cycle -> max_accepted_offers, 0 for no cap
    LateWithdrawal,   \* cycle -> allow_withdrawal_after_deadline of its policy
    ExternalIds,      \* external offers staff may ever record for the student
    Domains,          \* the override domains staff may grant in this instance
    MaxOffers,        \* bound: offer rows per application
    MaxTime,          \* bound: the last instant of the clock
    MaxInterventions  \* bound: rare staff commands and membership exits in a run

\* The domains whose gates the commands below pass through.
AllDomains == {"outcome_gate", "offer_cap", "offer_deadline", "application_deadline",
               "withdraw_window", "cycle_registration_window"}

ASSUME ConstantsAssumption ==
    /\ JobOf \in [Apps -> Jobs]
    /\ CycleOf \in [Jobs -> Cycles]
    /\ Outcome \in [Jobs -> Outcomes]
    /\ ApplyBy \in [Jobs -> Nat]
    /\ Kind \in [Cycles -> CycleKinds]
    /\ Behavior \in [Cycles -> ExpiryBehaviors]
    /\ Cap \in [Cycles -> Nat]
    /\ LateWithdrawal \in [Cycles -> BOOLEAN]
    /\ Domains \subseteq AllDomains
    /\ MaxOffers \in Nat \ {0} /\ MaxTime \in Nat /\ MaxInterventions \in Nat
    /\ FirstDeadline \in [Jobs -> 0..MaxTime]
    /\ \A j \in Jobs : /\ Kind[CycleOf[j]] \in {"open", Outcome[j]}
                       /\ Kind[CycleOf[j]] = "open" => FirstDeadline[j] = 0
                       /\ FirstDeadline[j] # 0 => FirstDeadline[j] > ApplyBy[j]
    /\ Apps # {} /\ IsFiniteSet(Apps)
    /\ IsFiniteSet(ExternalIds) /\ ExternalIds \cap (Apps \X (1..MaxOffers)) = {}
    /\ "unattached" \notin Cycles

VARIABLES
    status,        \* application -> its status ("none": no row yet)
    offers,        \* offer id -> offer row
    offerCount,    \* application -> number of offer rows; the last one is current
    tasks,         \* queued enforce_offer_expiry tasks
    caused,        \* the acceptance-cascade events of the application log
    standing,      \* those of them that are still their application's last event
    sanctioned,    \* live applications staff or an override brought back to life
    forced,        \* applications a forced transition ever touched
    jobs,          \* job -> [published, cancelled, deadline]
    archived,      \* cycles archived so far
    member,        \* cycle -> is the student's membership active?
    overrides,     \* override domain -> "none", "allow" or "deny"
    external,      \* external offer id -> its row; ExternalOffers says who writes it
    now,
    interventions

appVars == <<status, caused, standing, sanctioned>>
offerVars == <<offers, offerCount, tasks>>
staffVars == <<jobs, archived, member, overrides, external>>
vars == <<appVars, offerVars, staffVars, forced, now, interventions>>

Deadlines == 0..MaxTime
Slots == 1..MaxOffers
OfferIds == Apps \X Slots
AcceptanceIds == OfferIds \cup ExternalIds

OfferRow == [response : {"absent", "none", "accepted", "declined"},
             terminated : BOOLEAN, deadline : Deadlines,
             waived : SUBSET AllDomains]
NoRow == [response |-> "absent", terminated |-> FALSE, deadline |-> 0, waived |-> {}]
ExternalStatuses == {"absent", "offered", "accepted", "declined", "deleted"}
Unattached == "unattached"
ExternalRow == [status : ExternalStatuses, outcome : Outcomes,
                cycle : Cycles \cup {Unattached}, waived : SUBSET AllDomains]
NoExternal == [status |-> "absent", outcome |-> "placement", cycle |-> Unattached,
               waived |-> {}]

FreshRow(d) == [response |-> "none", terminated |-> FALSE, deadline |-> d, waived |-> {}]

\* An unanswered, unterminated row.
Unanswered(row) == row.response = "none" /\ ~row.terminated

CycleOfApp(a) == CycleOf[JobOf[a]]
OutcomeOf(a) == Outcome[JobOf[a]]
KindOf(a) == Kind[CycleOfApp(a)]
CurrentId(a) == <<a, offerCount[a]>>
NextId(a) == <<a, offerCount[a] + 1>>
CurrentRow(a) == offers[CurrentId(a)]

TypeOK ==
    /\ status \in [Apps -> Statuses]
    /\ offers \in [OfferIds -> OfferRow]
    /\ offerCount \in [Apps -> 0..MaxOffers]
    /\ tasks \subseteq [offer : OfferIds, at : Deadlines]
    /\ caused \subseteq [app : Apps, offer : AcceptanceIds, from : LiveStatuses]
    /\ standing \subseteq caused
    /\ sanctioned \subseteq Apps
    /\ forced \subseteq Apps
    /\ jobs \in [Jobs -> [published : BOOLEAN, cancelled : BOOLEAN, deadline : Deadlines]]
    /\ archived \subseteq Cycles
    /\ member \in [Cycles -> BOOLEAN]
    /\ overrides \in [AllDomains -> {"none", "allow", "deny"}]
    /\ external \in [ExternalIds -> ExternalRow]
    /\ now \in 0..MaxTime
    /\ interventions \in 0..MaxInterventions

\* The portal before the student applies anywhere: jobs published, nothing
\* archived, no external offer, active membership where `memberOf` says so.
InitWith(memberOf) ==
    /\ status = [a \in Apps |-> "none"]
    /\ offers = [o \in OfferIds |-> NoRow]
    /\ offerCount = [a \in Apps |-> 0]
    /\ tasks = {} /\ caused = {} /\ standing = {} /\ sanctioned = {} /\ forced = {}
    /\ jobs = [j \in Jobs |-> [published |-> TRUE, cancelled |-> FALSE,
                               deadline |-> FirstDeadline[j]]]
    /\ archived = {}
    /\ member = memberOf
    /\ overrides = [d \in AllDomains |-> "none"]
    /\ external = [x \in ExternalIds |-> NoExternal]
    /\ now = 0
    /\ interventions = 0

Init == InitWith([c \in Cycles |-> TRUE])

-----------------------------------------------------------------------------
(* Derived facts: no placed flag and no counter is stored (DER-1); portal   *)
(* and external acceptances count alike.                                    *)

Accepted(row) == row.response = "accepted" /\ ~row.terminated
AcceptedIds == {o \in OfferIds : Accepted(offers[o])}
AcceptedExternal == {x \in ExternalIds : external[x].status = "accepted"}
PlacementPlacedGlobal ==
    \/ \E o \in AcceptedIds : OutcomeOf(o[1]) = "placement"
    \/ \E x \in AcceptedExternal : external[x].outcome = "placement"
InternshipPlacedInCycle(c) ==
    \/ \E o \in AcceptedIds : OutcomeOf(o[1]) = "internship" /\ CycleOfApp(o[1]) = c
    \/ \E x \in AcceptedExternal : external[x].outcome = "internship" /\ external[x].cycle = c
CapUsed(c) ==
    Cardinality({o \in AcceptedIds : CycleOfApp(o[1]) = c})
      + Cardinality({x \in AcceptedExternal : external[x].cycle = c})

\* Mutant: the outcome gate looks only at the cycle of the offer.
OutcomeFailsLocal(a, phase) ==
    \E o \in AcceptedIds : CycleOfApp(o[1]) = CycleOfApp(a) /\ OutcomeOf(o[1]) = OutcomeOf(a)

\* Mutant: the cap admits one acceptance too many.
CapFailsOffByOne(a) == LET c == CycleOfApp(a) IN Cap[c] # 0 /\ CapUsed(c) > Cap[c]

\* The gates shared by applying and accepting, and the override domains an
\* action credits when it goes through.
OutcomeFails(a, phase) ==
    OutcomeGateFails(OutcomeOf(a), KindOf(a), PlacementPlacedGlobal,
                     InternshipPlacedInCycle(CycleOfApp(a)), phase)
CapFails(a) == LET c == CycleOfApp(a) IN Cap[c] # 0 /\ CapUsed(c) >= Cap[c]
ConstraintsBlock(a, phase) ==
    \/ GateBlocks(OutcomeFails(a, phase), overrides["outcome_gate"])
    \/ GateBlocks(CapFails(a), overrides["offer_cap"])
ConstraintsCredit(a, phase) ==
    {d \in {"outcome_gate"} : Credited(OutcomeFails(a, phase), overrides[d])}
      \cup {d \in {"offer_cap"} : Credited(CapFails(a), overrides[d])}

\* Mutant: only a live application counts as the student's application.
DuplicateExistsLive(a) ==
    \E b \in Apps : b # a /\ JobOf[b] = JobOf[a] /\ status[b] \in LiveStatuses

DuplicateExists(a) ==
    \E b \in Apps : b # a /\ JobOf[b] = JobOf[a] /\ status[b] \notin FreedStatuses

-----------------------------------------------------------------------------
(* Plans: what the planners of modules/offers/planning.py write.           *)

\* Of two sweeps of an application by one acceptance only the later is remembered.
Superseded(causes) == {e \in caused : \E f \in causes : f.app = e.app /\ f.offer = e.offer}

\* Mutant: what an acceptance swept at first is what ending it gives back.
RecordKeepsOlder(st, causes, revived) ==
    /\ status' = st
    /\ caused' = caused \cup causes
    /\ standing' = {e \in standing : st[e.app] = status[e.app]} \cup causes
    /\ sanctioned' = {a \in sanctioned \cup revived : st[a] \in LiveStatuses}

\* The status column, the event log, and the histories kept with them.
Record(st, causes, revived) ==
    /\ status' = st
    /\ caused' = (caused \ Superseded(causes)) \cup causes
    /\ standing' = {e \in standing \ Superseded(causes) : st[e.app] = status[e.app]} \cup causes
    /\ sanctioned' = {a \in sanctioned \cup revived : st[a] \in LiveStatuses}

SetStatus(a, to, revived) == Record([status EXCEPT ![a] = to], {}, revived)

\* Mutant: only the first offer of an application gets an expiry task.
ExpiryTaskFirstOnly(a, o, d) ==
    IF d # 0 /\ KindOf(a) # "open" /\ o[2] = 1 THEN {[offer |-> o, at |-> d]} ELSE {}

\* An expiry task is queued only where a deadline binds.
ExpiryTask(a, o, d) ==
    IF d # 0 /\ KindOf(a) # "open" THEN {[offer |-> o, at |-> d]} ELSE {}

\* plan_extension: a fresh offer row, its status, and its expiry task.
PlanExtension(a, d, revived) ==
    /\ offerCount[a] < MaxOffers
    /\ offers' = [offers EXCEPT ![NextId(a)] = FreshRow(d)]
    /\ offerCount' = [offerCount EXCEPT ![a] = @ + 1]
    /\ tasks' = tasks \cup ExpiryTask(a, NextId(a), d)
    /\ SetStatus(a, "offered", revived)

\* compute_acceptance_cascade over the enrollment's rows as `st` has them.
Cascade(a, st) ==
    {b \in Apps \ {a} :
        CascadeTakes(OutcomeOf(a), CycleOfApp(a), KindOf(a),
                     OutcomeOf(b), CycleOfApp(b), KindOf(b), st[b])}

\* plan_acceptance of offer `o` of `a` over statuses, rows and counts that may
\* already hold an extension made by the same command.
PlanAcceptance(a, o, st, off, count, credits) ==
    LET swept == Cascade(a, st)
        declined == {<<b, count[b]>> : b \in {x \in swept : st[x] = "offered"}}
    IN /\ offers' = [p \in OfferIds |->
                        IF p = o THEN [off[p] EXCEPT !.response = "accepted",
                                                     !.waived = credits]
                        ELSE IF p \in declined
                             THEN [off[p] EXCEPT !.response = "declined"]
                        ELSE off[p]]
       /\ Record([b \in Apps |-> IF b = a THEN "accepted"
                                 ELSE IF b \in swept THEN CascadeStatus(st[b])
                                 ELSE st[b]],
                 {[app |-> b, offer |-> o, from |-> st[b]] : b \in swept}, {})

\* Mutant: the decline moves the status and forgets the offer row.
PlanDeclineStatusOnly(a, o, off) ==
    /\ offers' = off
    /\ SetStatus(a, "declined", {})

\* plan_decline.
PlanDecline(a, o, off) ==
    /\ offers' = [off EXCEPT ![o].response = "declined"]
    /\ SetStatus(a, "declined", {})

-----------------------------------------------------------------------------
(* Commands of the student and of the placement process.                   *)

\* check_scope refuses every command scoped to an archived cycle.
InScope(c) == c \notin archived

Decide(t, a, to, actor) ==
    Legal(t, status[a], to, actor, KindOf(a), Behavior[CycleOfApp(a)])

\* apply.  Eligibility rules, penalties and the resume are left to chance: a
\* student they stop simply does not apply.
Apply(a) ==
    LET j == JobOf[a] IN
    /\ InScope(CycleOf[j])
    /\ Decide(TRANSITIONS.apply, a, "in_progress", "student")
    /\ member[CycleOf[j]]
    /\ jobs[j].published /\ ~jobs[j].cancelled
    /\ ~GateBlocks(DeadlinePassed(ApplyBy[j], now), overrides["application_deadline"])
    /\ ~DuplicateExists(a)
    /\ ~ConstraintsBlock(a, "apply")
    /\ SetStatus(a, "in_progress", IF ConstraintsCredit(a, "apply") # {} THEN {a} ELSE {})
    /\ UNCHANGED <<offerVars, staffVars, forced, now, interventions>>

\* evaluate_withdraw_window's own failure, before overrides.
WithdrawWindowFails(a) ==
    DeadlinePassed(ApplyBy[JobOf[a]], now) /\ ~LateWithdrawal[CycleOfApp(a)]

\* withdraw_application.
WithdrawApplication(a) ==
    /\ InScope(CycleOfApp(a))
    /\ Decide(TRANSITIONS.withdraw, a, "withdrawn", "student")
    /\ ~GateBlocks(WithdrawWindowFails(a), overrides["withdraw_window"])
    /\ SetStatus(a, "withdrawn", {})
    /\ UNCHANGED <<offerVars, staffVars, forced, now, interventions>>

\* The round pipeline as offers see it: promotion out of the last round, and
\* elimination or bulk rejection anywhere before an offer.
Promote(a) ==
    /\ InScope(CycleOfApp(a))
    /\ Decide(TRANSITIONS.advance_final, a, "pending_offer", "staff")
    /\ SetStatus(a, "pending_offer", {})
    /\ UNCHANGED <<offerVars, staffVars, forced, now, interventions>>

Reject(a) ==
    /\ InScope(CycleOfApp(a))
    /\ Decide(TRANSITIONS.bulk_reject, a, "rejected", "staff")
    /\ SetStatus(a, "rejected", {})
    /\ UNCHANGED <<offerVars, staffVars, forced, now, interventions>>

\* extend_offers, for one row of the sheet.
ExtendOffer(a) ==
    /\ InScope(CycleOfApp(a))
    /\ ~jobs[JobOf[a]].cancelled
    /\ Decide(TRANSITIONS.extend_offer, a, "offered", "staff")
    /\ PlanExtension(a, jobs[JobOf[a]].deadline, {})
    /\ UNCHANGED <<staffVars, forced, now, interventions>>

\* _response_reasons: the offer named by the client is the current row, open,
\* on an application that is still offered.
Answerable(a) ==
    /\ status[a] = "offered"
    /\ offerCount[a] > 0
    /\ Unanswered(CurrentRow(a))

\* accept_offer.
AcceptOffer(a) ==
    LET late == DeadlinePassed(CurrentRow(a).deadline, now) IN
    /\ InScope(CycleOfApp(a))
    /\ Answerable(a)
    /\ Decide(TRANSITIONS.accept, a, "accepted", "student")
    /\ ~GateBlocks(late, overrides["offer_deadline"])
    /\ ~ConstraintsBlock(a, "accept")
    /\ PlanAcceptance(a, CurrentId(a), status, offers, offerCount,
                      ConstraintsCredit(a, "accept"))
    /\ UNCHANGED <<offerCount, tasks, staffVars, forced, now, interventions>>

\* decline_offer.
DeclineOffer(a) ==
    /\ InScope(CycleOfApp(a))
    /\ Answerable(a)
    /\ Decide(TRANSITIONS.decline, a, "declined", "student")
    /\ ~GateBlocks(DeadlinePassed(CurrentRow(a).deadline, now),
                   overrides["offer_deadline"])
    /\ PlanDecline(a, CurrentId(a), offers)
    /\ UNCHANGED <<offerCount, tasks, staffVars, forced, now, interventions>>

\* record_open_outcome, for one row: staff record what happened outside the
\* portal, extending first when the application was still in progress.
RecordOpenOutcome(a, outcome) ==
    LET fresh == status[a] = "in_progress"
        o == IF fresh THEN NextId(a) ELSE CurrentId(a)
        off == IF fresh THEN [offers EXCEPT ![o] = FreshRow(0)] ELSE offers
        st == IF fresh THEN [status EXCEPT ![a] = "offered"] ELSE status
        count == IF fresh THEN [offerCount EXCEPT ![a] = @ + 1] ELSE offerCount
    IN /\ InScope(CycleOfApp(a))
       /\ KindOf(a) = "open"
       /\ ~jobs[JobOf[a]].cancelled
       /\ status[a] \in {"in_progress", "offered"}
       /\ IF fresh THEN offerCount[a] < MaxOffers ELSE Answerable(a)
       /\ \/ /\ outcome = "offered" /\ fresh
             /\ PlanExtension(a, 0, {})
          \/ /\ outcome = "accepted"
             /\ ~ConstraintsBlock(a, "accept")
             /\ PlanAcceptance(a, o, st, off, count, ConstraintsCredit(a, "accept"))
             /\ offerCount' = count
             /\ UNCHANGED tasks
          \/ /\ outcome = "declined"
             /\ PlanDecline(a, o, off)
             /\ offerCount' = count
             /\ UNCHANGED tasks
       /\ UNCHANGED <<staffVars, forced, now, interventions>>

\* enforce_offer_expiry: a queued task runs once its time has come, whatever
\* happened to its offer since it was queued.  The membership of the student
\* joins the acceptance gates.  A task for an archived cycle does nothing.
EnforceOfferExpiry(t) ==
    LET o == t.offer
        a == o[1]
        row == offers[o]
        blocked == ~member[CycleOfApp(a)] \/ ConstraintsBlock(a, "accept")
        action == IF ~InScope(CycleOfApp(a)) THEN "noop"
                  ELSE DecideExpiry(KindOf(a), o = CurrentId(a), status[a], row, t.at,
                                    now, Behavior[CycleOfApp(a)], blocked)
    IN /\ now >= t.at
       /\ \/ /\ action = "noop"
             /\ tasks' = tasks \ {t}
             /\ UNCHANGED <<appVars, offers>>
          \/ /\ action = "reschedule"
             /\ tasks' = (tasks \ {t}) \cup {[offer |-> o, at |-> row.deadline]}
             /\ UNCHANGED <<appVars, offers>>
          \/ /\ action \in {"auto_decline", "auto_decline_gate_fallback"}
             /\ tasks' = tasks \ {t}
             /\ PlanDecline(a, o, offers)
          \/ /\ action = "auto_accept"
             /\ tasks' = tasks \ {t}
             /\ PlanAcceptance(a, o, status, offers, offerCount,
                               ConstraintsCredit(a, "accept"))
       /\ UNCHANGED <<offerCount, staffVars, forced, now, interventions>>

-----------------------------------------------------------------------------
(* Interventions and administration.  Each spends one of the run's         *)
(* MaxInterventions, which bounds how often the rare commands happen.      *)

Intervene ==
    /\ interventions < MaxInterventions
    /\ interventions' = interventions + 1
    /\ UNCHANGED now

\* compute_restore_candidates: what the acceptance of offer `o` swept and is
\* still in the status the sweep left it in.
RestoreCandidates(o) ==
    {e \in caused : e.offer = o /\ status[e.app] = CascadeStatus(e.from)}

\* _duplicate_restore_target, for a candidate that gets no fresh offer.
RestoreBlocked(e) == e.from # "offered" /\ DuplicateExists(e.app)

\* terminate_offer with the restorations `picked` by staff; `d` is the optional
\* deadline of each fresh offer.
TerminateOffer(a, picked, d) ==
    LET o == CurrentId(a)
        renewed == {e.app : e \in {x \in picked : x.from = "offered"}}
        restored == {e.app : e \in picked}
    IN /\ Intervene
       /\ InScope(CycleOfApp(a))
       /\ offerCount[a] > 0
       /\ Decide(TRANSITIONS.terminate_offer, a, "offer_terminated", "staff")
       /\ ~offers[o].terminated
       /\ (status[a] = "accepted") <=> (offers[o].response # "none")
       /\ picked \subseteq RestoreCandidates(o)
       /\ \A e \in picked : ~RestoreBlocked(e)
       /\ \A b \in renewed : /\ offerCount[b] < MaxOffers
                             /\ KindOf(b) = "open" => d[b] = 0
       /\ offers' = [p \in OfferIds |->
                        IF p = o THEN [offers[p] EXCEPT !.terminated = TRUE]
                        ELSE IF p[1] \in renewed /\ p = NextId(p[1]) THEN FreshRow(d[p[1]])
                        ELSE offers[p]]
       /\ offerCount' = [b \in Apps |-> offerCount[b] + IF b \in renewed THEN 1 ELSE 0]
       /\ tasks' = tasks \cup UNION {ExpiryTask(b, NextId(b), d[b]) : b \in renewed}
       /\ Record([b \in Apps |-> IF b = a THEN "offer_terminated"
                                 ELSE IF b \in restored
                                      THEN (CHOOSE e \in picked : e.app = b).from
                                 ELSE status[b]], {}, restored)
       /\ UNCHANGED <<staffVars, forced>>

\* re_extend_offer.
ReExtendOffer(a, d) ==
    /\ Intervene
    /\ InScope(CycleOfApp(a))
    /\ offerCount[a] > 0
    /\ Decide(TRANSITIONS.re_extend, a, "offered", "staff")
    /\ IF status[a] = "declined"
       THEN CurrentRow(a).response # "none" /\ ~CurrentRow(a).terminated
       ELSE CurrentRow(a).terminated
    /\ KindOf(a) = "open" => d = 0
    /\ PlanExtension(a, d, {a})
    /\ UNCHANGED <<staffVars, forced>>

\* reinstate_application.
ReinstateApplication(a) ==
    /\ Intervene
    /\ InScope(CycleOfApp(a))
    /\ Decide(TRANSITIONS.reinstate, a, "in_progress", "staff")
    /\ ~DuplicateExists(a)
    /\ member[CycleOfApp(a)]
    /\ ~jobs[JobOf[a]].cancelled
    /\ SetStatus(a, "in_progress", {a})
    /\ UNCHANGED <<offerVars, staffVars, forced>>

\* force_transition: the status and its event, and nothing else.  Only the
\* partial unique index stands in its way.
ForceTransition(a, to) ==
    /\ Intervene
    /\ InScope(CycleOfApp(a))
    /\ Decide(TRANSITIONS.force, a, to, "staff")
    /\ to \in FreedStatuses \/ ~DuplicateExists(a)
    /\ SetStatus(a, to, {a})
    /\ forced' = forced \cup {a}
    /\ UNCHANGED <<offerVars, staffVars>>

\* cancel_job over the rows the client previewed: rejects what is in flight,
\* revokes every open offer of it, hides the job for good.
CancelJob(j, rows) ==
    LET hit == {a \in rows : Decide(TRANSITIONS.cancel_job, a, "rejected", "staff")}
    IN /\ Intervene
       /\ InScope(CycleOf[j])
       /\ Record([a \in Apps |-> IF a \in hit THEN "rejected" ELSE status[a]], {}, {})
       /\ offers' = [o \in OfferIds |-> IF o[1] \in hit /\ Unanswered(offers[o])
                                        THEN [offers[o] EXCEPT !.terminated = TRUE]
                                        ELSE offers[o]]
       /\ jobs' = [jobs EXCEPT ![j].cancelled = TRUE, ![j].published = FALSE]
       /\ UNCHANGED <<offerCount, tasks, archived, member, overrides, external, forced>>

\* update_job_basics moving offer_acceptance_deadline to `d`: every open offer
\* of the job moves with it, and is scheduled anew unless the deadline is gone.
UpdateJobBasics(j, d) ==
    LET open == {o \in OfferIds : JobOf[o[1]] = j /\ Unanswered(offers[o])}
    IN /\ Intervene
       /\ InScope(CycleOf[j])
       /\ ~jobs[j].cancelled
       /\ d # jobs[j].deadline
       /\ d # 0 => Kind[CycleOf[j]] # "open" /\ d > ApplyBy[j]
       /\ jobs' = [jobs EXCEPT ![j].deadline = d]
       /\ offers' = [o \in OfferIds |-> IF o \in open
                                        THEN [offers[o] EXCEPT !.deadline = d]
                                        ELSE offers[o]]
       /\ tasks' = tasks \cup (IF d # 0 THEN {[offer |-> o, at |-> d] : o \in open} ELSE {})
       /\ UNCHANGED <<appVars, offerCount, archived, member, overrides, external, forced>>

\* publish_job and unpublish_job.
SetPublished(j, on) ==
    /\ Intervene
    /\ InScope(CycleOf[j])
    /\ on => ~jobs[j].cancelled
    /\ jobs[j].published # on
    /\ jobs' = [jobs EXCEPT ![j].published = on]
    /\ UNCHANGED <<appVars, offerVars, archived, member, overrides, external, forced>>

\* cascade_plan_parts over every application of cycle `c`.
ExitCascade(c) ==
    Record([a \in Apps |-> IF CycleOfApp(a) = c THEN ExitStatus(status[a]) ELSE status[a]],
           {}, {})

\* withdraw_membership and remove_membership.
ExitCycle(c) ==
    /\ Intervene
    /\ InScope(c)
    /\ member[c]
    /\ member' = [member EXCEPT ![c] = FALSE]
    /\ ExitCascade(c)
    /\ UNCHANGED <<offerVars, jobs, archived, overrides, external, forced>>

\* restore_membership.
RestoreMembership(c) ==
    /\ Intervene
    /\ InScope(c)
    /\ ~member[c]
    /\ member' = [member EXCEPT ![c] = TRUE]
    /\ UNCHANGED <<appVars, offerVars, jobs, archived, overrides, external, forced>>

\* archive_cycle; nothing takes a cycle out of the archive.
ArchiveCycle(c) ==
    /\ Intervene
    /\ InScope(c)
    /\ archived' = archived \cup {c}
    /\ ExitCascade(c)
    /\ UNCHANGED <<offerVars, jobs, member, overrides, external, forced>>

\* grant_override and revoke_override, on the enrollment itself.
SetOverride(dom, value) ==
    /\ Intervene
    /\ overrides[dom] # value
    /\ overrides' = [overrides EXCEPT ![dom] = value]
    /\ UNCHANGED <<appVars, offerVars, jobs, archived, member, external, forced>>

\* now() of the database.
Tick ==
    /\ now < MaxTime
    /\ now' = now + 1
    /\ UNCHANGED <<appVars, offerVars, staffVars, forced, interventions>>

-----------------------------------------------------------------------------
StudentStep == \E a \in Apps :
    Apply(a) \/ WithdrawApplication(a) \/ AcceptOffer(a) \/ DeclineOffer(a)

ProcessStep == \E a \in Apps :
    \/ Promote(a) \/ Reject(a) \/ ExtendOffer(a)
    \/ \E outcome \in {"offered", "accepted", "declined"} : RecordOpenOutcome(a, outcome)

RestoreChoices(a) == SUBSET RestoreCandidates(CurrentId(a))

InterventionStep == \E a \in Apps :
    \/ \E picked \in RestoreChoices(a) :
         \E d \in [{e.app : e \in picked} -> Deadlines] : TerminateOffer(a, picked, d)
    \/ \E d \in Deadlines : ReExtendOffer(a, d)
    \/ ReinstateApplication(a)
    \/ \E to \in Statuses : ForceTransition(a, to)

JobStep == \E j \in Jobs :
    \/ \E rows \in SUBSET {a \in Apps : JobOf[a] = j} : CancelJob(j, rows)
    \/ \E d \in Deadlines : UpdateJobBasics(j, d)
    \/ \E on \in BOOLEAN : SetPublished(j, on)

CycleStep == \E c \in Cycles :
    ExitCycle(c) \/ RestoreMembership(c) \/ ArchiveCycle(c)

Next ==
    \/ StudentStep \/ ProcessStep \/ InterventionStep \/ JobStep \/ CycleStep
    \/ \E t \in tasks : EnforceOfferExpiry(t)
    \/ \E dom \in Domains, value \in {"none", "allow", "deny"} : SetOverride(dom, value)
    \/ Tick

Spec == Init /\ [][Next]_vars

\* The clock runs, and the worker takes up every due task of the durable queue;
\* its transaction is assumed to commit.  People owe nothing.
DueTask == \E t \in tasks : EnforceOfferExpiry(t)
FairSpec == Spec /\ WF_vars(Tick) /\ WF_vars(DueTask)

-----------------------------------------------------------------------------
(* Properties.  Applications a forced transition touched are left out where *)
(* said: APP-4.17 performs none of the consequences these describe.         *)

Ruled == Apps \ forced

\* DER-1/ELG-3.6: of two accepted, unterminated placement offers, in whatever
\* cycles, one was accepted under an outcome-gate override.  accept_offer,
\* record_open_outcome and enforce_offer_expiry must all re-check the gate, and
\* restoring or re-extending must never hand back an accepted row.
OneAcceptedPlacement ==
    \A o, p \in AcceptedIds :
        /\ OutcomeOf(o[1]) = "placement" /\ OutcomeOf(p[1]) = "placement"
        /\ o # p
        => "outcome_gate" \in offers[o].waived \cup offers[p].waived

\* CYC-2: within a cycle, the acceptances no offer-cap override was credited to
\* never exceed max_accepted_offers, through terminations and re-extensions.
WithinCycleCap ==
    \A c \in Cycles : Cap[c] # 0 =>
        Cardinality({o \in AcceptedIds : /\ CycleOfApp(o[1]) = c
                                         /\ "offer_cap" \notin offers[o].waived}) <= Cap[c]

\* The consistency checker's no_open_offer_on_unoffered_application and its
\* kin: a status column written by one command and the offer row another one
\* wrote never disagree, and only the current row can be open.
RowAgrees(st, row) ==
    CASE st = "offered" -> Unanswered(row)
      [] st = "accepted" -> Accepted(row)
      [] st = "declined" -> row.response = "declined" /\ ~row.terminated
      [] st = "offer_terminated" -> row.terminated
      [] OTHER -> ~Unanswered(row) /\ ~Accepted(row)

OfferMatchesStatus ==
    \A a \in Ruled :
        /\ status[a] \in {"offered", "accepted", "declined", "offer_terminated"}
             => offerCount[a] > 0
        /\ offerCount[a] > 0 => RowAgrees(status[a], CurrentRow(a))
        /\ \A n \in Slots : n < offerCount[a] =>
                ~Unanswered(offers[<<a, n>>]) /\ ~Accepted(offers[<<a, n>>])

\* OFR-4: whatever moved the deadline (extension, re-extension, restoration,
\* job edit), an open offer with a deadline in a running dedicated cycle has an
\* expiry task queued that runs no later than that deadline.
ExpiryScheduled ==
    \A a \in Ruled :
        /\ offerCount[a] > 0
        /\ Unanswered(CurrentRow(a)) /\ CurrentRow(a).deadline # 0
        /\ KindOf(a) # "open" /\ InScope(CycleOfApp(a))
        => \E t \in tasks : t.offer = CurrentId(a) /\ t.at <= CurrentRow(a).deadline

\* ELG-3.6/OFR-3: while the student is placed, nothing in a dedicated cycle
\* still competes for what they hold (placements anywhere, internships within
\* their internship cycle), unless staff or an override brought it back.
NoCompetingApplication ==
    \A a \in Apps :
        /\ status[a] \in LiveStatuses
        /\ KindOf(a) # "open"
        /\ OutcomeFails(a, "accept")
        => a \in sanctioned

\* The command-level duplicate checks alone keep one counted application per
\* job: no plan ever runs into the partial unique index.
OneActivePerJob ==
    \A a \in Apps : status[a] \notin FreedStatuses => ~DuplicateExists(a)

\* OFR-1: an answered or terminated offer row is history; no later command,
\* cascade or stale expiry task rewrites it.
ClosedRowsStay ==
    \A o \in OfferIds :
        o[1] \in Ruled /\ offers[o].response # "absent" /\ ~Unanswered(offers[o])
        => /\ offers'[o].response = offers[o].response
           /\ offers[o].terminated => offers'[o].terminated
ClosedOfferIsFinal == [][ClosedRowsStay]_vars

\* OFR-4: an offer with a deadline in a dedicated cycle does not stay open
\* forever, however often the deadline was moved, unless its cycle is archived
\* or the application was forced.
OpenWithDeadline(o) ==
    /\ Unanswered(offers[o]) /\ offers[o].deadline # 0
    /\ KindOf(o[1]) # "open" /\ InScope(CycleOfApp(o[1])) /\ o[1] \in Ruled
OfferEventuallyResolved ==
    \A o \in OfferIds : OpenWithDeadline(o) ~> ~OpenWithDeadline(o)

\* CYC-1: an archived cycle is read-only.
ArchivedRowsStay ==
    \A a \in Apps : CycleOfApp(a) \in archived => status'[a] = status[a]
ArchivedCycleIsReadOnly == [][ArchivedRowsStay]_vars

\* OFR-5: what terminating an acceptance restores is what that acceptance took
\* away: the cascade is still the last thing that happened to it.
RestoresOnlyItsOwn ==
    \A a, b \in Apps :
        /\ status[a] = "accepted" /\ status'[a] = "offer_terminated"
        /\ b # a /\ status'[b] # status[b]
        => \E e \in standing : e.app = b /\ e.offer = CurrentId(a)
RestorationUndoesTheCascade == [][RestoresOnlyItsOwn]_vars
=============================================================================
