--------------------------- MODULE ExternalOffers ---------------------------
(***************************************************************************)
(* Pre-placement and off-campus offers that staff record for the student,  *)
(* attach to cycles and exchange with portal offers.  Each moves the facts *)
(* every gate of OfferLifecycle reads: the placed dimensions and the caps. *)
(* Staff may edit, attach and detach without end, so these commands do not *)
(* spend MaxInterventions.                                                 *)
(***************************************************************************)
EXTENDS Memberships

\* The rows a command writes, threaded through the parts of its plan.
Books == [st |-> status, off |-> offers, count |-> offerCount, queue |-> tasks,
          causes |-> {}]

Commit(books, revived) ==
    /\ offers' = books.off
    /\ offerCount' = books.count
    /\ tasks' = books.queue
    /\ Record(books.st, books.causes, revived)

ExternalKind(x) == IF external[x].cycle = Unattached THEN "open" ELSE Kind[external[x].cycle]

\* plan_acceptance_cascade with the offer as its subject: an unattached one
\* counts as an offer of an open cycle.
SweptBy(x, outcome, st) ==
    {b \in Apps : CascadeTakes(outcome, external[x].cycle, ExternalKind(x),
                               OutcomeOf(b), CycleOfApp(b), KindOf(b), st[b])}

\* Mutant: a swept offer is declined on the application and stays open itself.
SweepStatusOnly(books, h, swept) ==
    [books EXCEPT
       !.st = [b \in Apps |-> IF b \in swept THEN CascadeStatus(books.st[b]) ELSE books.st[b]],
       !.causes = {[app |-> b, offer |-> h, from |-> books.st[b]] : b \in swept}]

\* What sweeping `swept` for the acceptance `h` makes of the books.
Sweep(books, h, swept) ==
    LET declined == {<<b, offerCount[b]>> : b \in {x \in swept : books.st[x] = "offered"}}
    IN [books EXCEPT
          !.st = [b \in Apps |-> IF b \in swept THEN CascadeStatus(books.st[b]) ELSE books.st[b]],
          !.off = [o \in OfferIds |-> IF o \in declined
                                      THEN [books.off[o] EXCEPT !.response = "declined"]
                                      ELSE books.off[o]],
          !.causes = {[app |-> b, offer |-> h, from |-> books.st[b]] : b \in swept}]

\* plan_restoration of the sweeps `picked`: the status each had, with a fresh
\* offer of deadline `d` for what had been auto-declined.
Restore(books, picked, d) ==
    LET renewed == {e.app : e \in {x \in picked : x.from = "offered"}}
    IN [books EXCEPT
          !.st = [b \in Apps |-> IF \E e \in picked : e.app = b
                                 THEN (CHOOSE e \in picked : e.app = b).from
                                 ELSE books.st[b]],
          !.off = [o \in OfferIds |-> IF o[1] \in renewed /\ o = NextId(o[1])
                                      THEN FreshRow(d[o[1]]) ELSE books.off[o]],
          !.count = [b \in Apps |-> books.count[b] + IF b \in renewed THEN 1 ELSE 0],
          !.queue = books.queue \cup UNION {ExpiryTask(b, NextId(b), d[b]) : b \in renewed}]

\* Picks of one job: each is compared with the rows as they are, so two that
\* are both withdrawn pass, and the partial unique index fails the command.
FitTheIndex(picked) == \A e, f \in picked : JobOf[e.app] = JobOf[f.app] => e.app = f.app

\* Staff may pick any of what the acceptance `h` swept and nobody moved since.
Restorable(h, picked, d) ==
    /\ picked \subseteq RestoreCandidates(h)
    /\ FitTheIndex(picked)
    /\ \A e \in picked :
         /\ ~RestoreBlocked(e)
         /\ e.from = "offered" => /\ offerCount[e.app] < MaxOffers
                                  /\ KindOf(e.app) = "open" => d[e.app] = 0

PickedApps(picked) == {e.app : e \in picked}

\* The gates of recording an acceptance: the outcome gate, and the cap of the
\* cycle the offer is attached to, if any.
OutcomeGate(x, outcome) ==
    OutcomeGateFails(outcome, ExternalKind(x), PlacementPlacedGlobal,
                     external[x].cycle # Unattached /\ InternshipPlacedInCycle(external[x].cycle),
                     "accept")
CapFull(c, used) == c # Unattached /\ Cap[c] # 0 /\ used >= Cap[c]
UsedIn(c) == IF c = Unattached THEN 0 ELSE CapUsed(c)

\* Mutant: only an offer attached to a cycle meets any gate.
RecordingBlockedIfAttached(x, outcome) ==
    /\ external[x].cycle # Unattached
    /\ \/ GateBlocks(OutcomeGate(x, outcome), overrides["outcome_gate"])
       \/ GateBlocks(CapFull(external[x].cycle, UsedIn(external[x].cycle)), overrides["offer_cap"])

\* _constraints and _outcome_constraints.
RecordingBlocked(x, outcome) ==
    \/ GateBlocks(OutcomeGate(x, outcome), overrides["outcome_gate"])
    \/ /\ external[x].cycle # Unattached
       /\ GateBlocks(CapFull(external[x].cycle, UsedIn(external[x].cycle)), overrides["offer_cap"])
RecordingCredit(x, outcome) ==
    {dom \in {"outcome_gate"} : Credited(OutcomeGate(x, outcome), overrides[dom])}
      \cup {dom \in {"offer_cap"} :
              Credited(CapFull(external[x].cycle, UsedIn(external[x].cycle)), overrides[dom])}

\* What _load_existing finds: the row is there.
Recorded(x) == external[x].status \notin {"absent", "deleted"}

OnlyBooks == UNCHANGED <<jobs, archived, overrides, forced, cycles>>
SameMembership == UNCHANGED <<membership, member>>

-----------------------------------------------------------------------------
\* create_external_offer.  Ids are never used twice, so a deleted one is gone.
CreateExternalOffer(x, outcome, st) ==
    /\ UNCHANGED <<now, interventions>>
    /\ external[x].status = "absent"
    /\ st = "accepted" => ~RecordingBlocked(x, outcome)
    /\ external' = [external EXCEPT ![x] =
            [status |-> st, outcome |-> outcome, cycle |-> Unattached,
             waived |-> IF st = "accepted" THEN RecordingCredit(x, outcome) ELSE {}]]
    /\ Commit(IF st = "accepted" THEN Sweep(Books, x, SweptBy(x, outcome, status)) ELSE Books, {})
    /\ OnlyBooks /\ SameMembership

\* update_external_offer, on outcome and status.  An accepted offer keeps its
\* outcome, an attached one the outcome of its cycle, and outcome and
\* acceptance are never edited together.
EditExternalOffer(x, outcome, st) ==
    /\ UNCHANGED <<now, interventions>>
    /\ Recorded(x) /\ external[x].status # "accepted"
    /\ st \in {"offered", "declined"}
    /\ <<outcome, st>> # <<external[x].outcome, external[x].status>>
    /\ external[x].cycle # Unattached => outcome = external[x].outcome
    /\ external' = [external EXCEPT ![x].outcome = outcome, ![x].status = st]
    /\ UNCHANGED <<appVars, offerVars>>
    /\ OnlyBooks /\ SameMembership

AcceptExternalOffer(x) ==
    LET outcome == external[x].outcome IN
    /\ UNCHANGED <<now, interventions>>
    /\ Recorded(x) /\ external[x].status # "accepted"
    /\ ~RecordingBlocked(x, outcome)
    /\ external' = [external EXCEPT ![x].status = "accepted",
                                    ![x].waived = RecordingCredit(x, outcome)]
    /\ Commit(Sweep(Books, x, SweptBy(x, outcome, status)), {})
    /\ OnlyBooks /\ SameMembership

UnacceptExternalOffer(x, st, picked, d) ==
    /\ UNCHANGED <<now, interventions>>
    /\ external[x].status = "accepted"
    /\ st \in {"offered", "declined"}
    /\ Restorable(x, picked, d)
    /\ external' = [external EXCEPT ![x].status = st, ![x].waived = {}]
    /\ Commit(Restore(Books, picked, d), PickedApps(picked))
    /\ OnlyBooks /\ SameMembership

\* delete_external_offer, with the restorations of an accepted one.
DeleteExternalOffer(x, picked, d) ==
    /\ UNCHANGED <<now, interventions>>
    /\ Recorded(x)
    /\ external[x].status # "accepted" => picked = {}
    /\ Restorable(x, picked, d)
    /\ external' = [external EXCEPT ![x] = [NoExternal EXCEPT !.status = "deleted"]]
    /\ Commit(Restore(Books, picked, d), PickedApps(picked))
    /\ OnlyBooks /\ SameMembership

\* The cap as a sheet of attachments meets it, row by row: the accepted offers
\* in `beyond` found it full.
Attachable(c, rows, beyond) ==
    LET accepted == rows \cap AcceptedExternal
        room == IF UsedIn(c) >= Cap[c] THEN 0 ELSE Cap[c] - UsedIn(c)
    IN /\ beyond \subseteq accepted
       /\ IF Cap[c] = 0 THEN beyond = {}
          ELSE IF beyond = {} THEN Cardinality(accepted) <= room
          ELSE Cardinality(accepted \ beyond) = room

\* attach_external_offer and attach_external_offers, for the rows that go
\* through.  A student without any membership row becomes a member.
AttachExternalOffers(c, rows, beyond) ==
    LET joins == membership[c] = "none" IN
    /\ UNCHANGED <<now, interventions>>
    /\ InScope(c)
    /\ Kind[c] # "open"
    /\ rows # {}
    /\ \A x \in rows : /\ Recorded(x)
                       /\ external[x].cycle = Unattached
                       /\ external[x].outcome = Kind[c]
    /\ Attachable(c, rows, beyond)
    /\ beyond # {} => overrides["offer_cap"] = "allow"
    /\ overrides["offer_cap"] = "deny" => rows \cap AcceptedExternal = {}
    /\ external' = [x \in ExternalIds |->
            IF x \notin rows THEN external[x]
            ELSE [external[x] EXCEPT !.cycle = c,
                                     !.waived = @ \cup (IF x \in beyond THEN {"offer_cap"} ELSE {})]]
    /\ membership' = [membership EXCEPT ![c] = IF joins THEN "active" ELSE @]
    /\ member' = [member EXCEPT ![c] = @ \/ joins]
    \* The office lets an accepted internship stand beside what is in the cycle.
    /\ sanctioned' = sanctioned \cup
            {a \in Apps : /\ CycleOfApp(a) = c /\ status[a] \in LiveStatuses
                          /\ rows \cap AcceptedExternal # {}}
    /\ UNCHANGED <<status, caused, standing, offerVars>>
    /\ OnlyBooks

\* detach_external_offer: the membership stays.
DetachExternalOffer(x) ==
    /\ UNCHANGED <<now, interventions>>
    /\ external[x].cycle # Unattached
    /\ InScope(external[x].cycle)
    /\ external' = [external EXCEPT ![x].cycle = Unattached, ![x].waived = @ \ {"offer_cap"}]
    /\ UNCHANGED <<appVars, offerVars>>
    /\ OnlyBooks /\ SameMembership

-----------------------------------------------------------------------------
(* replace_placement: one accepted placement is ended and another taken up. *)

IsPortal(h) == h \in OfferIds
HolderCycle(h) == IF IsPortal(h) THEN CycleOfApp(h[1]) ELSE external[h].cycle
IsPlacement(h) == (IF IsPortal(h) THEN OutcomeOf(h[1]) ELSE external[h].outcome) = "placement"

\* _validate_outgoing and _validate_incoming.
HoldsPlacement(h) ==
    /\ IsPlacement(h)
    /\ IF IsPortal(h) THEN h = CurrentId(h[1]) /\ status[h[1]] = "accepted" /\ ~offers[h].terminated
       ELSE external[h].status = "accepted"
AwaitsAnswer(h) ==
    /\ IsPlacement(h)
    /\ IF IsPortal(h) THEN h = CurrentId(h[1]) /\ Answerable(h[1])
       ELSE external[h].status = "offered"

\* The cap the incoming offer meets: the outgoing slot is given back if it is
\* in the same cycle.
UsedAfter(out, in) ==
    LET used == UsedIn(HolderCycle(in))
    IN IF HolderCycle(out) = HolderCycle(in) /\ used > 0 THEN used - 1 ELSE used

Ended(books, out) ==
    IF IsPortal(out) THEN [books EXCEPT !.st[out[1]] = "offer_terminated",
                                        !.off[out].terminated = TRUE]
    ELSE books

\* The cascade of the incoming offer, over everything but the two themselves.
SweptByIncoming(out, in, st) ==
    IF IsPortal(in) THEN Cascade(in[1], st) \ {o[1] : o \in {out} \cap OfferIds}
    ELSE SweptBy(in, "placement", st) \ {o[1] : o \in {out} \cap OfferIds}

TakenUp(books, in, credit) ==
    IF IsPortal(in) THEN [books EXCEPT !.st[in[1]] = "accepted",
                                       !.off[in] = [@ EXCEPT !.response = "accepted",
                                                             !.waived = credit]]
    ELSE books

ReplacePlacement(out, in, picked, d) ==
    LET full == CapFull(HolderCycle(in), UsedAfter(out, in))
        credit == {dom \in {"offer_cap"} : Credited(full, overrides[dom])}
        freed == Restore(Ended(Books, out), picked, d)
        swept == SweptByIncoming(out, in, freed.st)
    IN /\ UNCHANGED <<now, interventions>>
       /\ out # in
       /\ HoldsPlacement(out)
       /\ AwaitsAnswer(in)
       /\ HolderCycle(in) # Unattached => InScope(HolderCycle(in))
       /\ ~GateBlocks(full, overrides["offer_cap"])
       /\ Restorable(out, picked, d)
       /\ swept \cap PickedApps(picked) = {}
       /\ Commit(TakenUp(Sweep(freed, in, swept), in, credit), PickedApps(picked))
       /\ external' = [x \in ExternalIds |->
               IF x = out THEN [external[x] EXCEPT !.status = "declined", !.waived = {}]
               ELSE IF x = in THEN [external[x] EXCEPT !.status = "accepted", !.waived = credit]
               ELSE external[x]]
       /\ OnlyBooks /\ SameMembership

-----------------------------------------------------------------------------
Choices(h) == SUBSET RestoreCandidates(h)
DeadlineChoices(picked) == [PickedApps(picked) -> Deadlines]

ExternalStep ==
    \/ \E x \in ExternalIds :
         \/ \E outcome \in Outcomes, st \in {"offered", "accepted", "declined"} :
              CreateExternalOffer(x, outcome, st) \/ EditExternalOffer(x, outcome, st)
         \/ AcceptExternalOffer(x)
         \/ \E picked \in Choices(x) : \E d \in DeadlineChoices(picked) :
              \/ DeleteExternalOffer(x, picked, d)
              \/ \E st \in {"offered", "declined"} : UnacceptExternalOffer(x, st, picked, d)
         \/ DetachExternalOffer(x)
    \/ \E c \in Cycles, rows \in SUBSET ExternalIds : \E beyond \in SUBSET rows :
         AttachExternalOffers(c, rows, beyond)
    \/ \E out, in \in AcceptanceIds : \E picked \in Choices(out) :
         \E d \in DeadlineChoices(picked) : ReplacePlacement(out, in, picked, d)

ExternalNext == PortalStep \/ MembershipStep \/ ExternalStep

ExternalSpec == MembershipInit /\ [][ExternalNext]_<<vars, memberVars>>

-----------------------------------------------------------------------------
HeldPlacements == {h \in AcceptanceIds : IsPlacement(h) /\ h \in AcceptedIds \cup AcceptedExternal}

\* DER-1/ELG-3.6 across both sources: a student who holds a placement gains
\* another one only where staff allowed the outcome gate; replacing, attaching,
\* restoring and deleting move placements and never multiply them.
SecondPlacementNeedsOverride ==
    [][/\ HeldPlacements # {} /\ forced' = {}
       /\ Cardinality(HeldPlacements') > Cardinality(HeldPlacements)
       => overrides["outcome_gate"] = "allow"]_<<vars, memberVars>>

\* EXT-4/OFR-5: what the end of an external acceptance restores gets back the
\* status that acceptance took from it the last time it swept it, however
\* often it was accepted and unaccepted before.
GivesBackWhatItTook ==
    \A x \in ExternalIds : \A a \in Apps :
        /\ external[x].status = "accepted" /\ external'[x].status # "accepted"
        /\ \E e \in standing : e.app = a /\ e.offer = x
        /\ status'[a] \in LiveStatuses
        => \E e \in standing : e.app = a /\ e.offer = x /\ e.from = status'[a]
RestorationGivesBack == [][GivesBackWhatItTook]_<<vars, memberVars>>
=============================================================================
