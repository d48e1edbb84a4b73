---------------------------- MODULE Transitions ----------------------------
(***************************************************************************)
(* The pure decisions of the portal: the application status table and the  *)
(* helpers that the offer commands are planned with (domain/transitions.py,*)
(* domain/gates.py, domain/memberships.py).  Nothing here has state; the   *)
(* state machines EXTEND this module, so each of them obeys one table.     *)
(***************************************************************************)
EXTENDS Naturals, FiniteSets

\* "none" stands for the missing row: the from_status of a first application.
Statuses == {"none", "in_progress", "pending_offer", "offered", "accepted",
             "declined", "rejected", "withdrawn", "auto_withdrawn",
             "offer_terminated"}

\* Statuses in which an application still competes for an outcome.
LiveStatuses == {"in_progress", "pending_offer", "offered"}

\* Statuses outside the partial unique index on (job, enrollment).
FreedStatuses == {"none", "withdrawn", "auto_withdrawn"}

CycleKinds == {"placement", "internship", "open"}
Outcomes == {"placement", "internship"}
ExpiryBehaviors == {"auto_decline", "auto_accept"}

Row(name, from, to, actors) ==
    [name |-> name, from |-> from, to |-> to, actors |-> actors]

\* The APP-4 table, less `advance` (a self transition of the round pipeline)
\* and `direct_offer` (a row that no command asks for).
TRANSITIONS ==
    [apply         |-> Row("apply", {"none"}, "in_progress", {"student"}),
     advance_final |-> Row("advance_final", {"in_progress"}, "pending_offer", {"staff"}),
     eliminate     |-> Row("eliminate", {"in_progress"}, "rejected", {"staff"}),
     bulk_reject   |-> Row("bulk_reject", {"in_progress", "pending_offer"}, "rejected",
                           {"staff"}),
     cancel_job    |-> Row("cancel_job", LiveStatuses, "rejected", {"staff"}),
     extend_offer  |-> Row("extend_offer", {"in_progress", "pending_offer"}, "offered",
                           {"staff"}),
     accept        |-> Row("accept", {"offered"}, "accepted",
                           {"student", "staff", "system"}),
     decline       |-> Row("decline", {"offered"}, "declined",
                           {"student", "staff", "system"}),
     withdraw      |-> Row("withdraw", {"in_progress"}, "withdrawn", {"student"}),
     terminate_offer |-> Row("terminate_offer", {"offered", "accepted"},
                             "offer_terminated", {"staff"}),
     reinstate     |-> Row("reinstate", {"rejected", "withdrawn", "auto_withdrawn"},
                           "in_progress", {"staff"}),
     re_extend     |-> Row("re_extend", {"declined", "offer_terminated"}, "offered",
                           {"staff"}),
     force         |-> Row("force", Statuses \ {"none"}, "any_other", {"staff"})]

\* Who may answer an offer: the student in a dedicated cycle, staff in an open
\* one, the system only at expiry and only as the cycle's policy says.
ActorContextAllows(name, actor, kind, behavior) ==
    CASE name = "accept" ->
            \/ actor = "student" /\ kind # "open"
            \/ actor = "staff" /\ kind = "open"
            \/ actor = "system" /\ kind # "open" /\ behavior = "auto_accept"
      [] name = "decline" ->
            \/ actor \in {"student", "system"} /\ kind # "open"
            \/ actor = "staff" /\ kind = "open"
      [] OTHER -> TRUE

\* decide_transition: may `actor` move an application from `from` to `to`
\* through row `t`?
Legal(t, from, to, actor, kind, behavior) ==
    /\ from \in t.from
    /\ IF t.to = "any_other" THEN to # from /\ to # "none" ELSE to = t.to
    /\ actor \in t.actors
    /\ ActorContextAllows(t.name, actor, kind, behavior)

\* Mutant: the cascade of a placement stops at the border of its own cycle.
CascadeTakesSameCycle(outcome, cycle, kind, outcome2, cycle2, kind2, st2) ==
    /\ outcome2 = outcome /\ cycle2 = cycle
    /\ kind2 # "open"
    /\ st2 \in LiveStatuses

\* compute_acceptance_cascade, for one other application: does an acceptance of
\* (outcome, cycle, kind) sweep an application of (outcome2, cycle2, kind2) in
\* status st2?
CascadeTakes(outcome, cycle, kind, outcome2, cycle2, kind2, st2) ==
    /\ ~(outcome = "internship" /\ kind = "open")
    /\ outcome2 = outcome
    /\ outcome = "internship" => cycle2 = cycle
    /\ kind2 # "open"
    /\ st2 \in LiveStatuses

\* What the cascade makes of an application it sweeps.
CascadeStatus(st) == IF st = "offered" THEN "declined" ELSE "auto_withdrawn"

\* compute_membership_exit_cascade: what leaving, removal or archival withdraws.
EXIT_CASCADE_STATUSES == {"in_progress", "pending_offer"}

ExitStatus(st) == IF st \in EXIT_CASCADE_STATUSES THEN "auto_withdrawn" ELSE st

\* Mutant: the task trusts its own deadline and looks at nothing else.
DecideExpiryTrusting(kind, isLatest, st, row, scheduled, now, behavior, gateFails) ==
    IF behavior = "auto_decline" \/ gateFails THEN "auto_decline" ELSE "auto_accept"

\* decide_expiry.  `gateFails` is only consulted when the policy auto-accepts.
DecideExpiry(kind, isLatest, st, row, scheduled, now, behavior, gateFails) ==
    IF \/ kind = "open" \/ ~isLatest \/ st # "offered"
       \/ row.response # "none" \/ row.terminated \/ row.deadline = 0
    THEN "noop"
    ELSE IF row.deadline # scheduled \/ now < row.deadline THEN "reschedule"
    ELSE IF behavior = "auto_decline" THEN "auto_decline"
    ELSE IF gateFails THEN "auto_decline_gate_fallback"
    ELSE "auto_accept"

\* _append_override_decision: a deny always blocks, an allow counts only when
\* the gate itself failed.
GateBlocks(failure, override) ==
    override = "deny" \/ (failure /\ override # "allow")

Credited(failure, override) == failure /\ override = "allow"

\* evaluate_outcome_gate's own failure, before overrides.
OutcomeGateFails(outcome, kind, placedGlobal, placedInCycle, phase) ==
    \/ outcome = "placement" /\ placedGlobal /\ ~(phase = "apply" /\ kind = "open")
    \/ outcome = "internship" /\ kind = "internship" /\ placedInCycle

\* Deadlines are closed bounds: at the deadline itself it is already too late.
\* 0 stands for no deadline.
DeadlinePassed(deadline, now) == deadline # 0 /\ now >= deadline
=============================================================================
