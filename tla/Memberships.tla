---------------------------- MODULE Memberships ----------------------------
(***************************************************************************)
(* How the student enters and leaves cycles.  OfferLifecycle only asks     *)
(* whether the membership is active; here it has the six states of CYC-3,  *)
(* and the cycle has the configuration joining depends on.                 *)
(***************************************************************************)
EXTENDS OfferLifecycle

CONSTANTS
    RequiresApproval,     \* cycle -> membership_requires_approval at creation
    RegistrationOpens,    \* cycle -> registration_opens_at, 0 for none
    RegistrationCloses    \* cycle -> registration_closes_at, 0 for none

\* _window_order_reasons: an end may be left open, but never the pair inverted.
WindowOrdered(opens, closes) == opens = 0 \/ closes = 0 \/ opens < closes

ASSUME MembershipAssumption ==
    /\ RequiresApproval \in [Cycles -> BOOLEAN]
    /\ RegistrationOpens \in [Cycles -> 0..MaxTime]
    /\ RegistrationCloses \in [Cycles -> 0..MaxTime]
    /\ \A c \in Cycles : WindowOrdered(RegistrationOpens[c], RegistrationCloses[c])

VARIABLES
    membership,   \* cycle -> status of the student's membership row
    cycles        \* cycle -> [active, approval, opens, closes]

memberVars == <<membership, cycles>>

MembershipStatuses == {"none", "pending", "active", "rejected", "withdrawn", "removed"}
CycleConfig ==
    {config \in [active : BOOLEAN, approval : BOOLEAN, opens : 0..MaxTime, closes : 0..MaxTime] :
        WindowOrdered(config.opens, config.closes)}

MembershipRow(from, to) == [from |-> from, to |-> to]

\* MEMBERSHIP_TRANSITIONS, the closed table of CYC-3.  Every row has one actor.
MEMBERSHIP_TRANSITIONS ==
    [join             |-> MembershipRow({"none"}, "pending"),
     join_active      |-> MembershipRow({"none"}, "active"),
     approve          |-> MembershipRow({"pending"}, "active"),
     reject           |-> MembershipRow({"pending"}, "rejected"),
     rerequest        |-> MembershipRow({"rejected", "withdrawn"}, "pending"),
     rerequest_active |-> MembershipRow({"rejected", "withdrawn"}, "active"),
     withdraw         |-> MembershipRow({"pending", "active"}, "withdrawn"),
     remove           |-> MembershipRow({"active"}, "removed"),
     restore          |-> MembershipRow({"withdrawn", "removed"}, "active")]

\* decide_membership_transition, and the row's new status.
MoveMembership(c, row) ==
    /\ membership[c] \in row.from
    /\ membership' = [membership EXCEPT ![c] = row.to]
    /\ member' = [member EXCEPT ![c] = row.to = "active"]

\* Only the membership and what is derived from it changes.
OnlyMembership ==
    UNCHANGED <<appVars, offerVars, jobs, archived, overrides, external, forced, cycles>>

-----------------------------------------------------------------------------
\* _window_reasons: the active flag is absolute, the window overridable.
WindowBlocks(c) ==
    \/ ~cycles[c].active
    \/ GateBlocks(now < cycles[c].opens \/ DeadlinePassed(cycles[c].closes, now),
                  overrides["cycle_registration_window"])

\* join_cycle.  Consent, resume, profile completeness and the join rule are
\* left to chance: a student they stop simply does not join.
JoinCycle(c) ==
    /\ InScope(c)
    /\ ~WindowBlocks(c)
    /\ MoveMembership(c, IF cycles[c].approval THEN MEMBERSHIP_TRANSITIONS.join
                         ELSE MEMBERSHIP_TRANSITIONS.join_active)
    /\ OnlyMembership
    /\ UNCHANGED <<now, interventions>>

\* rerequest_membership: the same gauntlet after a rejection or a withdrawal.
RerequestMembership(c) ==
    /\ InScope(c)
    /\ ~WindowBlocks(c)
    /\ MoveMembership(c, IF cycles[c].approval THEN MEMBERSHIP_TRANSITIONS.rerequest
                         ELSE MEMBERSHIP_TRANSITIONS.rerequest_active)
    /\ OnlyMembership
    /\ UNCHANGED <<now, interventions>>

\* approve_memberships, for the student's row of the sheet, and
\* reject_membership.
ApproveMembership(c) ==
    /\ InScope(c)
    /\ MoveMembership(c, MEMBERSHIP_TRANSITIONS.approve)
    /\ OnlyMembership
    /\ UNCHANGED <<now, interventions>>

RejectMembership(c) ==
    /\ InScope(c)
    /\ MoveMembership(c, MEMBERSHIP_TRANSITIONS.reject)
    /\ OnlyMembership
    /\ UNCHANGED <<now, interventions>>

\* Mutant: leaving a cycle forgets the applications in it.
LeaveWithoutCascade(c, row) ==
    /\ Intervene
    /\ InScope(c)
    /\ MoveMembership(c, row)
    /\ UNCHANGED <<appVars, offerVars, jobs, archived, overrides, external, forced, cycles>>

\* withdraw_membership and remove_membership, with their cascade.
Leave(c, row) ==
    /\ Intervene
    /\ InScope(c)
    /\ MoveMembership(c, row)
    /\ ExitCascade(c)
    /\ UNCHANGED <<offerVars, jobs, archived, overrides, external, forced, cycles>>

WithdrawMembership(c) == Leave(c, MEMBERSHIP_TRANSITIONS.withdraw)
RemoveMembership(c) == Leave(c, MEMBERSHIP_TRANSITIONS.remove)

\* restore_membership: no application comes back with it.
ReadmitMember(c) ==
    /\ InScope(c)
    /\ MoveMembership(c, MEMBERSHIP_TRANSITIONS.restore)
    /\ OnlyMembership
    /\ UNCHANGED <<now, interventions>>

\* set_cycle_active, update_cycle on the registration window, and
\* update_cycle_policy on membership_requires_approval; none looks at members.
ConfigureCycle(c, config) ==
    /\ Intervene
    /\ InScope(c)
    /\ config # cycles[c]
    /\ cycles' = [cycles EXCEPT ![c] = config]
    /\ UNCHANGED <<appVars, offerVars, staffVars, forced, membership>>

MembershipStep == \E c \in Cycles :
    \/ JoinCycle(c) \/ RerequestMembership(c) \/ ApproveMembership(c) \/ RejectMembership(c)
    \/ WithdrawMembership(c) \/ RemoveMembership(c) \/ ReadmitMember(c)
    \/ \E config \in CycleConfig : ConfigureCycle(c, config)

\* A fresh student: no membership anywhere, every cycle as it was created.
MembershipInit ==
    /\ InitWith([c \in Cycles |-> FALSE])
    /\ membership = [c \in Cycles |-> "none"]
    /\ cycles = [c \in Cycles |-> [active |-> TRUE, approval |-> RequiresApproval[c],
                                   opens |-> RegistrationOpens[c],
                                   closes |-> RegistrationCloses[c]]]

\* The commands of OfferLifecycle that leave memberships alone.
PortalStep ==
    /\ \/ StudentStep \/ ProcessStep \/ InterventionStep \/ JobStep
       \/ \E c \in Cycles : ArchiveCycle(c)
       \/ \E t \in tasks : EnforceOfferExpiry(t)
       \/ \E dom \in Domains, value \in {"none", "allow", "deny"} : SetOverride(dom, value)
       \/ Tick
    /\ UNCHANGED memberVars

-----------------------------------------------------------------------------
MembershipTypeOK ==
    /\ TypeOK
    /\ membership \in [Cycles -> MembershipStatuses]
    /\ cycles \in [Cycles -> CycleConfig]
    /\ member = [c \in Cycles |-> membership[c] = "active"]

\* The checker's no_live_application_without_active_membership, for what the
\* exit cascade promises to clear: an application still in the pipeline belongs
\* to an active member, however often the student left, asked again or was
\* attached to the cycle, unless staff or an override revived it.
PipelineNeedsMembership ==
    \A a \in Apps \ sanctioned :
        status[a] \in EXIT_CASCADE_STATUSES => member[CycleOfApp(a)]
=============================================================================
