--------------------------- MODULE ExternalProofs ---------------------------
(***************************************************************************)
(* Memberships, external offers and the portal together, for any number of *)
(* cycles, applications and external offers: what leaving a cycle          *)
(* promises, what the nightly checker looks for, and what replacing and    *)
(* restoring placements keep.                                              *)
(***************************************************************************)
EXTENDS ConsistencyChecker, OfferRecordsProofs

\* The one flag the portal reads is the membership, and nobody is in a pipeline
\* without it.
MembersInv ==
    /\ status = [a \in Apps |-> status[a]]
    /\ membership = [c \in Cycles |-> membership[c]]
    /\ member = [c \in Cycles |-> membership[c] = "active"]
    /\ PipelineNeedsMembership

\* A status enters the pipeline only beside a member or by revival.
EntersRightly(st, revived) ==
    \A a \in Apps : st[a] \in EXIT_CASCADE_STATUSES =>
        \/ status[a] \in EXIT_CASCADE_STATUSES
        \/ a \in revived
        \/ member[CycleOfApp(a)]

\* Whoever stays on in a cycle keeps their applications there.
LEMMA RecordKeeps ==
    ASSUME MembersInv, NEW st, NEW causes, NEW revived,
           Record(st, causes, revived),
           st = [a \in Apps |-> st[a]],
           EntersRightly(st, revived),
           UNCHANGED <<membership, member>>
    PROVE  MembersInv'
<1>1. status' = st /\ sanctioned' = {a \in sanctioned \cup revived : st[a] \in LiveStatuses}
  BY DEF Record
<1>2. PipelineNeedsMembership'
  <2> SUFFICES ASSUME NEW a \in Apps, a \notin sanctioned', st[a] \in EXIT_CASCADE_STATUSES
               PROVE  member'[CycleOfApp(a)]
    BY <1>1 DEF PipelineNeedsMembership, CycleOfApp
  <2>1. a \notin sanctioned /\ a \notin revived
    BY <1>1 DEF EXIT_CASCADE_STATUSES, LiveStatuses
  <2> QED BY <2>1 DEF EntersRightly, MembersInv, PipelineNeedsMembership
<1> QED BY <1>1, <1>2 DEF MembersInv

\* One application moves.
LEMMA SetStatusKeeps ==
    ASSUME MembersInv, NEW a, NEW to, NEW revived,
           SetStatus(a, to, revived),
           to \in EXIT_CASCADE_STATUSES =>
               status[a] \in EXIT_CASCADE_STATUSES \/ a \in revived \/ member[CycleOfApp(a)],
           UNCHANGED <<membership, member>>
    PROVE  MembersInv'
<1> DEFINE st == [status EXCEPT ![a] = to]
<1>1. st = [b \in Apps |-> st[b]]
  BY DEF MembersInv
<1>2. \A b \in Apps : st[b] = IF b = a THEN to ELSE status[b]
  BY DEF MembersInv
<1>3. EntersRightly(st, revived)
  BY <1>2 DEF EntersRightly
<1>4. Record(st, {}, revived)
  BY DEF SetStatus
<1> HIDE DEF st
<1> QED BY <1>1, <1>3, <1>4, RecordKeeps

LEMMA NothingMoves ==
    ASSUME MembersInv, UNCHANGED <<appVars, membership, member>>
    PROVE  MembersInv'
BY DEF MembersInv, PipelineNeedsMembership, appVars

\* A sweep leaves nothing in a pipeline that was not there.
LEMMA SweptLeaves ==
    ASSUME NEW st
    PROVE  CascadeStatus(st) \notin EXIT_CASCADE_STATUSES
BY DEF CascadeStatus, EXIT_CASCADE_STATUSES

LEMMA AcceptanceKeeps ==
    ASSUME MembersInv, NEW a, NEW o, NEW st, NEW off, NEW count, NEW credits,
           PlanAcceptance(a, o, st, off, count, credits),
           EntersRightly(st, {}),
           UNCHANGED <<membership, member>>
    PROVE  MembersInv'
<1> DEFINE swept == Cascade(a, st)
           to == [b \in Apps |-> IF b = a THEN "accepted"
                                 ELSE IF b \in swept THEN CascadeStatus(st[b]) ELSE st[b]]
           causes == {[app |-> b, offer |-> o, from |-> st[b]] : b \in swept}
<1>1. Record(to, causes, {})
  BY DEF PlanAcceptance
<1>2. EntersRightly(to, {})
  BY SweptLeaves DEF EntersRightly, EXIT_CASCADE_STATUSES
<1>3. to = [b \in Apps |-> to[b]]
  OBVIOUS
<1> HIDE DEF to, causes
<1> QED BY <1>1, <1>2, <1>3, RecordKeeps

\* What a restoration puts back into a pipeline is revived by it.
LEMMA SameEntersRightly ==
    ASSUME NEW revived
    PROVE  EntersRightly(status, revived)
BY DEF EntersRightly

-----------------------------------------------------------------------------
LEMMA StudentKeeps ==
    ASSUME MembersInv, NEW a \in Apps, UNCHANGED membership,
           \/ Apply(a) \/ WithdrawApplication(a) \/ AcceptOffer(a) \/ DeclineOffer(a)
    PROVE  MembersInv'
<1>1. CASE Apply(a)
  <2> DEFINE revived == IF ConstraintsCredit(a, "apply") # {} THEN {a} ELSE {}
  <2>1. SetStatus(a, "in_progress", revived) /\ member[CycleOfApp(a)] /\ UNCHANGED member
    BY <1>1 DEF Apply, CycleOfApp, staffVars
  <2> HIDE DEF revived
  <2> QED BY <2>1, SetStatusKeeps
<1>2. CASE WithdrawApplication(a)
  BY <1>2, SetStatusKeeps DEF WithdrawApplication, staffVars, EXIT_CASCADE_STATUSES
<1>3. CASE AcceptOffer(a)
  <2>1. PlanAcceptance(a, CurrentId(a), status, offers, offerCount,
                       ConstraintsCredit(a, "accept")) /\ UNCHANGED member
    BY <1>3 DEF AcceptOffer, staffVars
  <2> QED BY <2>1, AcceptanceKeeps, SameEntersRightly
<1>4. CASE DeclineOffer(a)
  <2>1. SetStatus(a, "declined", {}) /\ UNCHANGED member
    BY <1>4 DEF DeclineOffer, PlanDecline, staffVars
  <2> QED BY <2>1, SetStatusKeeps DEF EXIT_CASCADE_STATUSES
<1> QED BY <1>1, <1>2, <1>3, <1>4

LEMMA ProcessKeeps ==
    ASSUME MembersInv, NEW a \in Apps, UNCHANGED membership,
           \/ Promote(a) \/ Reject(a) \/ ExtendOffer(a)
           \/ \E outcome \in {"offered", "accepted", "declined"} : RecordOpenOutcome(a, outcome)
    PROVE  MembersInv'
<1>1. CASE Promote(a)
  <2>1. SetStatus(a, "pending_offer", {}) /\ UNCHANGED member
    BY <1>1 DEF Promote, staffVars
  <2>2. status[a] \in EXIT_CASCADE_STATUSES
    BY <1>1 DEF Promote, Decide, Legal, TRANSITIONS, Row, EXIT_CASCADE_STATUSES
  <2> QED BY <2>1, <2>2, SetStatusKeeps
<1>2. CASE Reject(a)
  <2>1. SetStatus(a, "rejected", {}) /\ UNCHANGED member
    BY <1>2 DEF Reject, staffVars
  <2> QED BY <2>1, SetStatusKeeps DEF EXIT_CASCADE_STATUSES
<1>3. CASE ExtendOffer(a)
  <2>1. SetStatus(a, "offered", {}) /\ UNCHANGED member
    BY <1>3 DEF ExtendOffer, PlanExtension, staffVars
  <2> QED BY <2>1, SetStatusKeeps DEF EXIT_CASCADE_STATUSES
<1>4. ASSUME NEW outcome \in {"offered", "accepted", "declined"},
             RecordOpenOutcome(a, outcome)
      PROVE  MembersInv'
  <2>1. UNCHANGED member
    BY <1>4 DEF RecordOpenOutcome, staffVars
  <2>2. CASE outcome = "offered"
    <3>1. SetStatus(a, "offered", {})
      BY <1>4, <2>2 DEF RecordOpenOutcome, PlanExtension
    <3> QED BY <2>1, <3>1, SetStatusKeeps DEF EXIT_CASCADE_STATUSES
  <2>3. CASE outcome = "declined"
    <3>1. SetStatus(a, "declined", {})
      BY <1>4, <2>3 DEF RecordOpenOutcome, PlanDecline
    <3> QED BY <2>1, <3>1, SetStatusKeeps DEF EXIT_CASCADE_STATUSES
  <2>4. CASE outcome = "accepted"
    <3> DEFINE fresh == status[a] = "in_progress"
               o == IF fresh THEN NextId(a) ELSE CurrentId(a)
               off == IF fresh THEN [offers EXCEPT ![o] = FreshRow(0)] ELSE offers
               st == IF fresh THEN [status EXCEPT ![a] = "offered"] ELSE status
               count == IF fresh THEN [offerCount EXCEPT ![a] = @ + 1] ELSE offerCount
    <3>1. PlanAcceptance(a, o, st, off, count, ConstraintsCredit(a, "accept"))
      BY <1>4, <2>4 DEF RecordOpenOutcome
    <3>2. EntersRightly(st, {})
      <4>1. \A b \in Apps : st[b] = status[b] \/ st[b] = "offered"
        BY DEF MembersInv
      <4> HIDE DEF st
      <4> QED BY <4>1 DEF EntersRightly, EXIT_CASCADE_STATUSES
    <3> HIDE DEF o, off, st, count
    <3> QED BY <2>1, <3>1, <3>2, AcceptanceKeeps
  <2> QED BY <2>2, <2>3, <2>4
<1> QED BY <1>1, <1>2, <1>3, <1>4

LEMMA ExpiryKeeps ==
    ASSUME MembersInv, NEW t, UNCHANGED membership, EnforceOfferExpiry(t)
    PROVE  MembersInv'
<1> DEFINE a == t.offer[1]
<1>1. UNCHANGED member
  BY DEF EnforceOfferExpiry, staffVars
<1>2. \/ UNCHANGED appVars
      \/ SetStatus(a, "declined", {})
      \/ PlanAcceptance(a, t.offer, status, offers, offerCount, ConstraintsCredit(a, "accept"))
  BY DEF EnforceOfferExpiry, PlanDecline
<1> HIDE DEF a
<1>3. CASE SetStatus(a, "declined", {})
  BY <1>1, <1>3, SetStatusKeeps DEF EXIT_CASCADE_STATUSES
<1> QED BY <1>1, <1>2, <1>3, NothingMoves, AcceptanceKeeps, SameEntersRightly

LEMMA InterventionKeeps ==
    ASSUME MembersInv, NEW a \in Apps, UNCHANGED membership,
           \/ \E picked \in RestoreChoices(a) :
                \E d \in [{e.app : e \in picked} -> Deadlines] : TerminateOffer(a, picked, d)
           \/ \E d \in Deadlines : ReExtendOffer(a, d)
           \/ ReinstateApplication(a)
           \/ \E to \in Statuses : ForceTransition(a, to)
    PROVE  MembersInv'
<1>1. ASSUME NEW picked, NEW d, TerminateOffer(a, picked, d)
      PROVE  MembersInv'
  <2> DEFINE restored == {e.app : e \in picked}
             to == [b \in Apps |-> IF b = a THEN "offer_terminated"
                                   ELSE IF b \in restored
                                        THEN (CHOOSE e \in picked : e.app = b).from
                                   ELSE status[b]]
  <2>1. Record(to, {}, restored) /\ UNCHANGED member
    BY <1>1 DEF TerminateOffer, staffVars
  <2>2. EntersRightly(to, restored)
    BY DEF EntersRightly, EXIT_CASCADE_STATUSES
  <2>3. to = [b \in Apps |-> to[b]]
    OBVIOUS
  <2> HIDE DEF to, restored
  <2> QED BY <2>1, <2>2, <2>3, RecordKeeps
<1>2. ASSUME NEW d, ReExtendOffer(a, d)
      PROVE  MembersInv'
  <2>1. SetStatus(a, "offered", {a}) /\ UNCHANGED member
    BY <1>2 DEF ReExtendOffer, PlanExtension, staffVars
  <2> QED BY <2>1, SetStatusKeeps
<1>3. CASE ReinstateApplication(a)
  <2>1. SetStatus(a, "in_progress", {a}) /\ UNCHANGED member
    BY <1>3 DEF ReinstateApplication, staffVars
  <2> QED BY <2>1, SetStatusKeeps
<1>4. ASSUME NEW to, ForceTransition(a, to)
      PROVE  MembersInv'
  <2>1. SetStatus(a, to, {a}) /\ UNCHANGED member
    BY <1>4 DEF ForceTransition, staffVars
  <2> QED BY <2>1, SetStatusKeeps
<1> QED BY <1>1, <1>2, <1>3, <1>4

\* Leaving takes every application of the cycle out of its pipeline.
LEMMA ExitCascadeKeeps ==
    ASSUME MembersInv, NEW c \in Cycles, ExitCascade(c),
           membership' = [d \in Cycles |-> membership'[d]],
           member' = [d \in Cycles |-> membership'[d] = "active"],
           \A d \in Cycles \ {c} : membership'[d] = membership[d],
           \A a \in Apps : CycleOfApp(a) \in Cycles
    PROVE  MembersInv'
<1> DEFINE to == [a \in Apps |-> IF CycleOfApp(a) = c THEN ExitStatus(status[a]) ELSE status[a]]
<1>1. status' = to /\ sanctioned' = {a \in sanctioned : to[a] \in LiveStatuses}
  BY DEF ExitCascade, Record
<1>2. PipelineNeedsMembership'
  <2> SUFFICES ASSUME NEW a \in Apps, a \notin sanctioned', to[a] \in EXIT_CASCADE_STATUSES
               PROVE  member'[CycleOfApp(a)]
    BY <1>1 DEF PipelineNeedsMembership, CycleOfApp
  <2>1. CycleOfApp(a) # c
    BY DEF ExitStatus, EXIT_CASCADE_STATUSES
  <2>2. status[a] \in EXIT_CASCADE_STATUSES
    BY <2>1
  <2>3. a \notin sanctioned
    BY <1>1 DEF EXIT_CASCADE_STATUSES, LiveStatuses
  <2>4. member[CycleOfApp(a)]
    BY <2>2, <2>3 DEF MembersInv, PipelineNeedsMembership
  <2> QED BY <2>1, <2>4 DEF MembersInv
<1>3. to = [a \in Apps |-> to[a]]
  OBVIOUS
<1> HIDE DEF to
<1> QED BY <1>1, <1>2, <1>3 DEF MembersInv

LEMMA CyclesOfApps == ASSUME NEW a \in Apps PROVE CycleOfApp(a) \in Cycles
BY ConstantsAssumption DEF CycleOfApp

LEMMA StaffKeeps ==
    ASSUME MembersInv, UNCHANGED membership,
           \/ JobStep
           \/ \E c \in Cycles : ArchiveCycle(c)
           \/ \E dom \in Domains, value \in {"none", "allow", "deny"} : SetOverride(dom, value)
           \/ Tick
    PROVE  MembersInv'
<1>1. ASSUME NEW j, NEW rows, CancelJob(j, rows)
      PROVE  MembersInv'
  <2> DEFINE hit == {a \in rows : Decide(TRANSITIONS.cancel_job, a, "rejected", "staff")}
             to == [a \in Apps |-> IF a \in hit THEN "rejected" ELSE status[a]]
  <2>1. Record(to, {}, {}) /\ UNCHANGED member
    BY <1>1 DEF CancelJob
  <2>2. EntersRightly(to, {})
    BY DEF EntersRightly, EXIT_CASCADE_STATUSES
  <2>3. to = [a \in Apps |-> to[a]]
    OBVIOUS
  <2> HIDE DEF to, hit
  <2> QED BY <2>1, <2>2, <2>3, RecordKeeps
<1>2. ASSUME NEW c \in Cycles, ArchiveCycle(c)
      PROVE  MembersInv'
  <2>1. ExitCascade(c) /\ UNCHANGED member
    BY <1>2 DEF ArchiveCycle
  <2> QED BY <2>1, ExitCascadeKeeps, CyclesOfApps DEF MembersInv
<1>3. ASSUME UNCHANGED <<appVars, member>>
      PROVE  MembersInv'
  BY <1>3, NothingMoves
<1> QED BY <1>1, <1>2, <1>3 DEF JobStep, UpdateJobBasics, SetPublished, SetOverride, Tick, staffVars

LEMMA PortalKeeps == ASSUME MembersInv, PortalStep PROVE MembersInv'
<1>1. UNCHANGED membership
  BY DEF PortalStep, memberVars
<1>2. CASE StudentStep
  BY <1>1, <1>2, StudentKeeps DEF StudentStep
<1>3. CASE ProcessStep
  BY <1>1, <1>3, ProcessKeeps DEF ProcessStep
<1>4. CASE InterventionStep
  BY <1>1, <1>4, InterventionKeeps DEF InterventionStep
<1>5. CASE \E t \in tasks : EnforceOfferExpiry(t)
  BY <1>1, <1>5, ExpiryKeeps
<1> QED BY <1>1, <1>2, <1>3, <1>4, <1>5, StaffKeeps DEF PortalStep

-----------------------------------------------------------------------------
\* A membership moves, the applications stay: the member they were with stays
\* one, since no row of the table but the exits leads out of "active".
LEMMA MoveKeeps ==
    ASSUME MembersInv, NEW c \in Cycles, NEW row, MoveMembership(c, row),
           "active" \notin row.from, UNCHANGED appVars
    PROVE  MembersInv'
<1>1. /\ membership[c] # "active"
      /\ membership' = [membership EXCEPT ![c] = row.to]
      /\ member' = [member EXCEPT ![c] = row.to = "active"]
  BY DEF MoveMembership
<1>2. \A d \in Cycles : member[d] => member'[d]
  BY <1>1 DEF MembersInv
<1>3. PipelineNeedsMembership'
  BY <1>2, CyclesOfApps DEF MembersInv, PipelineNeedsMembership, appVars, CycleOfApp
<1> QED BY <1>1, <1>3 DEF MembersInv, appVars

LEMMA MembershipKeeps == ASSUME MembersInv, MembershipStep PROVE MembersInv'
<1>1. ASSUME NEW c \in Cycles,
             \/ JoinCycle(c) \/ RerequestMembership(c) \/ ApproveMembership(c)
             \/ RejectMembership(c) \/ ReadmitMember(c)
      PROVE  MembersInv'
  <2> PICK row : /\ MoveMembership(c, row) /\ "active" \notin row.from
                 /\ UNCHANGED appVars
    BY <1>1 DEF JoinCycle, RerequestMembership, ApproveMembership, RejectMembership,
       ReadmitMember, OnlyMembership, MEMBERSHIP_TRANSITIONS, MembershipRow
  <2> QED BY MoveKeeps
<1>2. ASSUME NEW c \in Cycles, NEW row, Leave(c, row)
      PROVE  MembersInv'
  <2>1. /\ membership' = [membership EXCEPT ![c] = row.to]
        /\ member' = [member EXCEPT ![c] = row.to = "active"]
        /\ ExitCascade(c)
    BY <1>2 DEF Leave, MoveMembership
  <2> QED BY <2>1, ExitCascadeKeeps, CyclesOfApps DEF MembersInv
<1>3. ASSUME NEW c \in Cycles, NEW config, ConfigureCycle(c, config)
      PROVE  MembersInv'
  BY <1>3, NothingMoves DEF ConfigureCycle, staffVars
<1> QED BY <1>1, <1>2, <1>3 DEF MembershipStep, WithdrawMembership, RemoveMembership


-----------------------------------------------------------------------------
(* The plans of these commands as books: what each part writes on which   *)
(* page.                                                                   *)

\* A book and what is on its pages.
Pages(books, st, off, count, queue, causes) ==
    /\ DOMAIN books = {"st", "off", "count", "queue", "causes"}
    /\ books.st = st /\ books.off = off /\ books.count = count
    /\ books.queue = queue /\ books.causes = causes

LEMMA BooksPages == Pages(Books, status, offers, offerCount, tasks, {})
BY DEF Pages, Books

SweptStatuses(st, swept) ==
    [b \in Apps |-> IF b \in swept THEN CascadeStatus(st[b]) ELSE st[b]]
SweptRows(st, off, swept) ==
    [o \in OfferIds |-> IF o = CurrentId(o[1]) /\ o[1] \in swept /\ st[o[1]] = "offered"
                        THEN [off[o] EXCEPT !.response = "declined"] ELSE off[o]]
SweptCauses(st, h, swept) == {[app |-> b, offer |-> h, from |-> st[b]] : b \in swept}

LEMMA SweepPages ==
    ASSUME NEW books, NEW st, NEW off, NEW count, NEW queue, NEW causes,
           Pages(books, st, off, count, queue, causes), NEW h, NEW swept
    PROVE  Pages(Sweep(books, h, swept), SweptStatuses(st, swept), SweptRows(st, off, swept),
                 count, queue, SweptCauses(st, h, swept))
<1> DEFINE declined == {<<b, offerCount[b]>> : b \in {x \in swept : books.st[x] = "offered"}}
           s == [b \in Apps |-> IF b \in swept THEN CascadeStatus(books.st[b])
                                ELSE books.st[b]]
           o == [p \in OfferIds |-> IF p \in declined
                                    THEN [books.off[p] EXCEPT !.response = "declined"]
                                    ELSE books.off[p]]
           k == {[app |-> b, offer |-> h, from |-> books.st[b]] : b \in swept}
           after == Sweep(books, h, swept)
<1>1. after = [books EXCEPT !.st = s, !.off = o, !.causes = k]
  BY DEF Sweep
<1>2. books.st = st /\ books.off = off
  BY DEF Pages
<1>3. s = SweptStatuses(st, swept)
  BY <1>2 DEF SweptStatuses
<1>4. k = SweptCauses(st, h, swept)
  BY <1>2 DEF SweptCauses
<1>5. o = SweptRows(st, off, swept)
  <2>1. \A p \in OfferIds : p \in declined <=> /\ p = CurrentId(p[1]) /\ p[1] \in swept
                                               /\ st[p[1]] = "offered"
    BY <1>2 DEF CurrentId
  <2> HIDE DEF declined
  <2> QED BY <1>2, <2>1 DEF SweptRows
<1> HIDE DEF s, o, k, after
<1>6. Pages(after, s, o, count, queue, k)
  BY <1>1 DEF Pages
<1> QED BY <1>3, <1>4, <1>5, <1>6 DEF after

Renewed(picked) == {e.app : e \in {x \in picked : x.from = "offered"}}
GivenBack(picked, b) == (CHOOSE e \in picked : e.app = b).from

RestoredStatuses(st, picked) ==
    [b \in Apps |-> IF b \in PickedApps(picked) THEN GivenBack(picked, b) ELSE st[b]]
RestoredRows(off, picked, d) ==
    [o \in OfferIds |-> IF o[1] \in Renewed(picked) /\ o = NextId(o[1])
                        THEN FreshRow(d[o[1]]) ELSE off[o]]
RestoredCounts(picked) ==
    [b \in Apps |-> offerCount[b] + IF b \in Renewed(picked) THEN 1 ELSE 0]
RestoredQueue(picked, d) ==
    tasks \cup UNION {ExpiryTask(b, NextId(b), d[b]) : b \in Renewed(picked)}

LEMMA RestorePages ==
    ASSUME NEW books, NEW st, NEW off, NEW causes,
           Pages(books, st, off, offerCount, tasks, causes), NEW picked, NEW d
    PROVE  Pages(Restore(books, picked, d), RestoredStatuses(st, picked),
                 RestoredRows(off, picked, d), RestoredCounts(picked),
                 RestoredQueue(picked, d), causes)
<1> DEFINE s == [b \in Apps |-> IF \E e \in picked : e.app = b
                                THEN (CHOOSE e \in picked : e.app = b).from
                                ELSE books.st[b]]
           o == [p \in OfferIds |-> IF p[1] \in Renewed(picked) /\ p = NextId(p[1])
                                    THEN FreshRow(d[p[1]]) ELSE books.off[p]]
           n == [b \in Apps |-> books.count[b] + IF b \in Renewed(picked) THEN 1 ELSE 0]
           q == books.queue \cup UNION {ExpiryTask(b, NextId(b), d[b]) : b \in Renewed(picked)}
           after == Restore(books, picked, d)
<1>1. after = [books EXCEPT !.st = s, !.off = o, !.count = n, !.queue = q]
  BY DEF Restore, Renewed
<1>2. /\ books.st = st /\ books.off = off /\ books.count = offerCount /\ books.queue = tasks
  BY DEF Pages
<1>3. s = RestoredStatuses(st, picked)
  <2>1. \A b \in Apps : (\E e \in picked : e.app = b) <=> b \in PickedApps(picked)
    BY DEF PickedApps
  <2>2. \A b \in Apps : (CHOOSE e \in picked : e.app = b).from = GivenBack(picked, b)
    BY DEF GivenBack
  <2> QED BY <1>2, <2>1, <2>2 DEF RestoredStatuses
<1>4. o = RestoredRows(off, picked, d)
  BY <1>2 DEF RestoredRows
<1>5. n = RestoredCounts(picked) /\ q = RestoredQueue(picked, d)
  BY <1>2 DEF RestoredCounts, RestoredQueue
<1> HIDE DEF s, o, n, q, after
<1>6. Pages(after, s, o, n, q, causes)
  BY <1>1 DEF Pages
<1> QED BY <1>3, <1>4, <1>5, <1>6 DEF after

EndedStatuses(out) ==
    [b \in Apps |-> IF IsPortal(out) /\ b = out[1] THEN "offer_terminated" ELSE status[b]]
EndedRows(out) ==
    [o \in OfferIds |-> IF o = out THEN [offers[o] EXCEPT !.terminated = TRUE] ELSE offers[o]]

LEMMA EndedPages ==
    ASSUME TypeOK, NEW out \in AcceptanceIds
    PROVE  Pages(Ended(Books, out), EndedStatuses(out), EndedRows(out), offerCount, tasks, {})
<1> DEFINE after == Ended(Books, out)
           s == [status EXCEPT ![out[1]] = "offer_terminated"]
           o == [offers EXCEPT ![out].terminated = TRUE]
<1>0. status = [b \in Apps |-> status[b]] /\ offers = [p \in OfferIds |-> offers[p]]
  BY DEF TypeOK
<1>1. CASE IsPortal(out)
  <2>1. after = [Books EXCEPT !.st = s, !.off = o]
    BY <1>1, BooksPages DEF Ended, Pages
  <2>2. s = EndedStatuses(out)
    BY <1>0, <1>1 DEF EndedStatuses
  <2>3. o = EndedRows(out)
    BY <1>0 DEF EndedRows
  <2> HIDE DEF s, o, after
  <2>4. Pages(after, s, o, offerCount, tasks, {})
    BY <2>1, BooksPages DEF Pages
  <2> QED BY <2>2, <2>3, <2>4 DEF after
<1>2. CASE ~IsPortal(out)
  <2>1. after = Books
    BY <1>2 DEF Ended
  <2>2. status = EndedStatuses(out)
    BY <1>0, <1>2 DEF EndedStatuses
  <2>3. offers = EndedRows(out)
    BY <1>0, <1>2 DEF EndedRows, IsPortal
  <2> QED BY <2>1, <2>2, <2>3, BooksPages DEF after
<1> QED BY <1>1, <1>2

TakenStatuses(st, in) ==
    [b \in Apps |-> IF IsPortal(in) /\ b = in[1] THEN "accepted" ELSE st[b]]
TakenRows(off, in, credit) ==
    [o \in OfferIds |-> IF o = in THEN [off[o] EXCEPT !.response = "accepted", !.waived = credit]
                        ELSE off[o]]

LEMMA TakenUpPages ==
    ASSUME NEW books, NEW st, NEW off, NEW count, NEW queue, NEW causes,
           Pages(books, st, off, count, queue, causes),
           st = [b \in Apps |-> st[b]], off = [o \in OfferIds |-> off[o]], NEW in, NEW credit
    PROVE  Pages(TakenUp(books, in, credit), TakenStatuses(st, in), TakenRows(off, in, credit),
                 count, queue, causes)
<1> DEFINE after == TakenUp(books, in, credit)
<1>0. books.st = st /\ books.off = off
  BY DEF Pages
<1>1. CASE IsPortal(in)
  <2> DEFINE s == [books.st EXCEPT ![in[1]] = "accepted"]
             row == books.off[in]
             o == [books.off EXCEPT ![in] = [row EXCEPT !.response = "accepted",
                                                       !.waived = credit]]
  <2>1. after = [books EXCEPT !.st = s, !.off = o]
    BY <1>1 DEF TakenUp
  <2>2. s = TakenStatuses(st, in)
    BY <1>0, <1>1 DEF TakenStatuses
  <2>3. o = TakenRows(off, in, credit)
    BY <1>0 DEF TakenRows
  <2> HIDE DEF s, o, after
  <2>4. Pages(after, s, o, count, queue, causes)
    BY <2>1 DEF Pages
  <2> QED BY <2>2, <2>3, <2>4 DEF after
<1>2. CASE ~IsPortal(in)
  <2>1. after = books
    BY <1>2 DEF TakenUp
  <2>2. st = TakenStatuses(st, in)
    BY <1>2 DEF TakenStatuses
  <2>3. off = TakenRows(off, in, credit)
    BY <1>2 DEF TakenRows, IsPortal
  <2> QED BY <2>1, <2>2, <2>3 DEF after
<1> QED BY <1>1, <1>2

-----------------------------------------------------------------------------
(* A posting: what the whole plan of such a command makes of the rows, row *)
(* by row, and what it may rely on.  Everything below speaks of postings,  *)
(* not of commands.                                                        *)

\* What a command about external offers may rely on: the placement `out` it
\* ends, the sweeps `picked` of it that are given back, the placement `in` it
\* takes up and the applications `swept` for it.
Warranted(out, picked, d, in, swept, credit) ==
    /\ out \in AcceptanceIds /\ in \in AcceptanceIds
    /\ IsPortal(out) => out = CurrentId(out[1]) /\ status[out[1]] = "accepted"
    /\ IsPortal(in) => /\ in = CurrentId(in[1]) /\ Answerable(in[1])
                       /\ in[1] \notin swept
    /\ Restorable(out, picked, d)
    /\ \A b \in PickedApps(picked) : d[b] \in Deadlines
    /\ \A b \in swept : b \in Apps /\ status[b] \in LiveStatuses
    /\ credit \subseteq AllDomains

PostedStatus(out, picked, in, swept, b) ==
    IF IsPortal(in) /\ b = in[1] THEN "accepted"
    ELSE IF b \in swept THEN CascadeStatus(status[b])
    ELSE IF b \in PickedApps(picked) THEN GivenBack(picked, b)
    ELSE IF IsPortal(out) /\ b = out[1] THEN "offer_terminated"
    ELSE status[b]

PostedRow(out, picked, d, in, swept, credit, o) ==
    IF o = in THEN [offers[o] EXCEPT !.response = "accepted", !.waived = credit]
    ELSE IF o = CurrentId(o[1]) /\ o[1] \in swept /\ status[o[1]] = "offered"
         THEN [offers[o] EXCEPT !.response = "declined"]
    ELSE IF o = NextId(o[1]) /\ o[1] \in Renewed(picked) THEN FreshRow(d[o[1]])
    ELSE IF o = out THEN [offers[o] EXCEPT !.terminated = TRUE]
    ELSE offers[o]

\* What such a command makes of the rows.
Posted(out, picked, d, in, swept, credit) ==
    /\ \A b \in Apps : status'[b] = PostedStatus(out, picked, in, swept, b)
    /\ offers' = [o \in OfferIds |-> PostedRow(out, picked, d, in, swept, credit, o)]
    /\ offerCount' = RestoredCounts(picked)
    /\ tasks' = RestoredQueue(picked, d)
    /\ status' = [b \in Apps |-> status'[b]]
    /\ Record(status', SweptCauses(status, in, swept), PickedApps(picked))

Posting(out, picked, d, in, swept, credit) ==
    /\ Warranted(out, picked, d, in, swept, credit)
    /\ Posted(out, picked, d, in, swept, credit)

\* The other commands about external offers leave the applications alone.
Aside ==
    /\ UNCHANGED <<status, caused, standing, offerVars>>
    /\ sanctioned' \subseteq Apps

\* Statuses of what the parts of a plan are about are different.
LEMMA PickedFacts ==
    ASSUME TypeOK, NEW out, NEW picked, NEW d, Restorable(out, picked, d)
    PROVE  /\ picked \subseteq caused
           /\ \A e \in picked : /\ e.app \in Apps /\ e.offer = out /\ e.from \in LiveStatuses
                                /\ status[e.app] = CascadeStatus(e.from)
           /\ \A b \in PickedApps(picked) : /\ b \in Apps
                                            /\ status[b] \in {"declined", "auto_withdrawn"}
                                            /\ \E e \in picked : /\ e.app = b
                                                                 /\ e.from = GivenBack(picked, b)
           /\ Renewed(picked) \subseteq PickedApps(picked)
           /\ \A b \in Renewed(picked) : /\ status[b] = "declined" /\ offerCount[b] < MaxOffers
                                         /\ GivenBack(picked, b) = "offered"
           /\ \A b \in PickedApps(picked) \ Renewed(picked) :
                 /\ status[b] = "auto_withdrawn" /\ ~DuplicateExists(b)
                 /\ GivenBack(picked, b) \in {"in_progress", "pending_offer"}
<1>1. picked \subseteq caused /\ \A e \in picked : e.offer = out /\ status[e.app] = CascadeStatus(e.from)
  BY DEF Restorable, RestoreCandidates
<1>2. \A e \in picked : e.app \in Apps /\ e.from \in LiveStatuses
  BY <1>1 DEF TypeOK
<1>3. Renewed(picked) \subseteq PickedApps(picked)
  BY DEF Renewed, PickedApps
<1>4. ASSUME NEW b \in PickedApps(picked)
      PROVE  /\ b \in Apps
             /\ status[b] \in {"declined", "auto_withdrawn"}
             /\ \E e \in picked : e.app = b /\ e.from = GivenBack(picked, b)
  <2> DEFINE choice == CHOOSE e \in picked : e.app = b
  <2>1. \E e \in picked : e.app = b
    BY <1>4 DEF PickedApps
  <2>2. choice \in picked /\ choice.app = b
    BY <2>1
  <2>3. GivenBack(picked, b) = choice.from
    BY DEF GivenBack
  <2> HIDE DEF choice
  <2> QED BY <1>1, <1>2, <2>2, <2>3 DEF CascadeStatus
<1>5. ASSUME NEW b \in Renewed(picked)
      PROVE  /\ status[b] = "declined" /\ offerCount[b] < MaxOffers
             /\ GivenBack(picked, b) = "offered"
  <2>1. PICK e \in picked : e.app = b /\ e.from = "offered"
    BY <1>5 DEF Renewed
  <2>2. PICK f \in picked : f.app = b /\ f.from = GivenBack(picked, b)
    BY <1>3, <1>4
  <2>3. status[b] = "declined" /\ f.from = "offered"
    BY <1>1, <2>1, <2>2 DEF CascadeStatus
  <2> QED BY <2>1, <2>2, <2>3 DEF Restorable
<1>6. ASSUME NEW b \in PickedApps(picked) \ Renewed(picked)
      PROVE  /\ status[b] = "auto_withdrawn" /\ ~DuplicateExists(b)
             /\ GivenBack(picked, b) \in {"in_progress", "pending_offer"}
  <2>1. PICK e \in picked : e.app = b /\ e.from = GivenBack(picked, b)
    BY <1>4
  <2>2. e.from # "offered"
    BY <1>6, <2>1 DEF Renewed
  <2>3. ~DuplicateExists(b)
    BY <2>1, <2>2 DEF Restorable, RestoreBlocked
  <2> QED BY <1>1, <1>2, <2>1, <2>2, <2>3 DEF CascadeStatus, LiveStatuses
<1> QED BY <1>1, <1>2, <1>3, <1>4, <1>5, <1>6

\* From the pages of a book to what is committed.
LEMMA CommitPosts ==
    ASSUME NEW out, NEW picked, NEW d, NEW in, NEW swept, NEW credit, NEW books, NEW st, NEW off,
           Warranted(out, picked, d, in, swept, credit),
           Commit(books, PickedApps(picked)),
           Pages(books, st, off, RestoredCounts(picked), RestoredQueue(picked, d),
                 SweptCauses(status, in, swept)),
           st = [b \in Apps |-> st[b]],
           \A b \in Apps : st[b] = PostedStatus(out, picked, in, swept, b),
           off = [o \in OfferIds |-> off[o]],
           \A o \in OfferIds : off[o] = PostedRow(out, picked, d, in, swept, credit, o)
    PROVE  Posting(out, picked, d, in, swept, credit)
<1>1. /\ offers' = off
      /\ offerCount' = RestoredCounts(picked) /\ tasks' = RestoredQueue(picked, d)
      /\ Record(st, SweptCauses(status, in, swept), PickedApps(picked))
  BY DEF Commit, Pages
<1>2. status' = st
  BY <1>1 DEF Record
<1>3. offers' = [o \in OfferIds |-> PostedRow(out, picked, d, in, swept, credit, o)]
  BY <1>1
<1>4. status' = [b \in Apps |-> status'[b]]
  BY <1>2
<1>5. \A b \in Apps : status'[b] = PostedStatus(out, picked, in, swept, b)
  BY <1>2
<1> QED BY <1>1, <1>2, <1>3, <1>4, <1>5 DEF Posted, Posting

LEMMA NothingPicked ==
    ASSUME TypeOK
    PROVE  /\ PickedApps({}) = {} /\ Renewed({}) = {}
           /\ RestoredCounts({}) = offerCount
           /\ \A d : RestoredQueue({}, d) = tasks
           /\ \A h, d : Restorable(h, {}, d)
<1>1. PickedApps({}) = {} /\ Renewed({}) = {}
  BY DEF PickedApps, Renewed
<1>2. RestoredCounts({}) = offerCount
  <2>1. \A b \in Apps : offerCount[b] \in Nat
    BY ConstantsAssumption DEF TypeOK
  <2> QED BY <1>1, <2>1 DEF TypeOK, RestoredCounts
<1>3. \A d : RestoredQueue({}, d) = tasks
  BY <1>1 DEF RestoredQueue
<1>4. \A h, d : Restorable(h, {}, d)
  BY DEF Restorable, FitTheIndex
<1> QED BY <1>1, <1>2, <1>3, <1>4

LEMMA ExternalIsNotPortal ==
    ASSUME NEW x \in ExternalIds
    PROVE  ~IsPortal(x) /\ x \in AcceptanceIds /\ x \notin OfferIds
BY ConstantsAssumption DEF IsPortal, OfferIds, Slots, AcceptanceIds

\* An acceptance sweeps.
LEMMA SweepPosts ==
    ASSUME TypeOK, NEW x \in ExternalIds, NEW swept,
           \A b \in swept : b \in Apps /\ status[b] \in LiveStatuses,
           Commit(Sweep(Books, x, swept), {})
    PROVE  Posting(x, {}, status, x, swept, {})
<1> DEFINE st == SweptStatuses(status, swept)
           off == SweptRows(status, offers, swept)
<1>1. Pages(Sweep(Books, x, swept), st, off, offerCount, tasks, SweptCauses(status, x, swept))
  BY BooksPages, SweepPages
<1>2. Warranted(x, {}, status, x, swept, {})
  BY ExternalIsNotPortal, NothingPicked DEF Warranted
<1>3. \A b \in Apps : st[b] = PostedStatus(x, {}, x, swept, b)
  BY ExternalIsNotPortal, NothingPicked DEF PostedStatus, SweptStatuses
<1>4. \A o \in OfferIds : off[o] = PostedRow(x, {}, status, x, swept, {}, o)
  BY ExternalIsNotPortal, NothingPicked DEF PostedRow, SweptRows
<1>5. st = [b \in Apps |-> st[b]] /\ off = [o \in OfferIds |-> off[o]]
  BY DEF SweptStatuses, SweptRows
<1>6. /\ RestoredCounts({}) = offerCount /\ RestoredQueue({}, status) = tasks
      /\ PickedApps({}) = {}
  BY NothingPicked
<1> HIDE DEF st, off
<1> QED BY <1>1, <1>2, <1>3, <1>4, <1>5, <1>6, CommitPosts

\* Recording an offer that is not accepted writes nothing else.
LEMMA NothingPosts ==
    ASSUME TypeOK, NEW x \in ExternalIds, Commit(Books, {})
    PROVE  Posting(x, {}, status, x, {}, {})
<1>1. Warranted(x, {}, status, x, {}, {})
  BY ExternalIsNotPortal, NothingPicked DEF Warranted
<1>2. \A b \in Apps : status[b] = PostedStatus(x, {}, x, {}, b)
  BY ExternalIsNotPortal, NothingPicked DEF PostedStatus
<1>3. \A o \in OfferIds : offers[o] = PostedRow(x, {}, status, x, {}, {}, o)
  BY ExternalIsNotPortal, NothingPicked DEF PostedRow
<1>4. status = [b \in Apps |-> status[b]] /\ offers = [o \in OfferIds |-> offers[o]]
  BY DEF TypeOK
<1>5. /\ RestoredCounts({}) = offerCount /\ RestoredQueue({}, status) = tasks
      /\ PickedApps({}) = {}
  BY NothingPicked
<1>6. SweptCauses(status, x, {}) = {}
  BY DEF SweptCauses
<1> QED BY <1>1, <1>2, <1>3, <1>4, <1>5, <1>6, BooksPages, CommitPosts

\* The end of an external acceptance gives back.
LEMMA RestorePosts ==
    ASSUME TypeOK, NEW x \in ExternalIds, NEW picked, NEW d \in DeadlineChoices(picked),
           Restorable(x, picked, d),
           Commit(Restore(Books, picked, d), PickedApps(picked))
    PROVE  Posting(x, picked, d, x, {}, {})
<1> DEFINE st == RestoredStatuses(status, picked)
           off == RestoredRows(offers, picked, d)
<1>1. Pages(Restore(Books, picked, d), st, off, RestoredCounts(picked),
            RestoredQueue(picked, d), {})
  BY BooksPages, RestorePages
<1>2. Warranted(x, picked, d, x, {}, {})
  BY ExternalIsNotPortal DEF Warranted, DeadlineChoices
<1>3. \A b \in Apps : st[b] = PostedStatus(x, picked, x, {}, b)
  BY ExternalIsNotPortal DEF PostedStatus, RestoredStatuses
<1>4. \A o \in OfferIds : off[o] = PostedRow(x, picked, d, x, {}, {}, o)
  BY ExternalIsNotPortal DEF PostedRow, RestoredRows
<1>5. st = [b \in Apps |-> st[b]] /\ off = [o \in OfferIds |-> off[o]]
  BY DEF RestoredStatuses, RestoredRows
<1>6. SweptCauses(status, x, {}) = {}
  BY DEF SweptCauses
<1> HIDE DEF st, off
<1> QED BY <1>1, <1>2, <1>3, <1>4, <1>5, <1>6, CommitPosts

-----------------------------------------------------------------------------
(* replace_placement is a posting: the ending, the restoration, the sweep  *)
(* and the acceptance touch different rows.                                *)

\* The cascade of the incoming placement looks at the rows as the restoration
\* left them; the guard keeps it off those, so it looks at them as they were.
StatusesFreed(out, picked) == RestoredStatuses(EndedStatuses(out), picked)
FreedRows(out, picked, d) == RestoredRows(EndedRows(out), picked, d)
SweptFor(out, in, picked) == SweptByIncoming(out, in, StatusesFreed(out, picked))

LEMMA FreedPages ==
    ASSUME TypeOK, NEW out \in AcceptanceIds, NEW picked, NEW d
    PROVE  Pages(Restore(Ended(Books, out), picked, d), StatusesFreed(out, picked),
                 FreedRows(out, picked, d), RestoredCounts(picked), RestoredQueue(picked, d), {})
BY EndedPages, RestorePages DEF StatusesFreed, FreedRows

LEMMA FreedValues ==
    ASSUME NEW out, NEW picked, NEW b \in Apps
    PROVE  StatusesFreed(out, picked)[b] =
              IF b \in PickedApps(picked) THEN GivenBack(picked, b)
              ELSE IF IsPortal(out) /\ b = out[1] THEN "offer_terminated"
              ELSE status[b]
BY DEF StatusesFreed, RestoredStatuses, EndedStatuses

LEMMA SweptAreLive ==
    ASSUME NEW out \in AcceptanceIds, NEW in, NEW picked,
           SweptFor(out, in, picked) \cap PickedApps(picked) = {}
    PROVE  /\ \A b \in SweptFor(out, in, picked) :
                 /\ b \in Apps /\ status[b] \in LiveStatuses
                 /\ StatusesFreed(out, picked)[b] = status[b]
           /\ IsPortal(in) => in[1] \notin SweptFor(out, in, picked)
           /\ IsPortal(out) => out[1] \notin SweptFor(out, in, picked)
<1> DEFINE st == StatusesFreed(out, picked)
           swept == SweptFor(out, in, picked)
<1>1. \A b \in swept : b \in Apps /\ st[b] \in LiveStatuses
  BY DEF SweptFor, SweptByIncoming, SweptBy, Cascade, CascadeTakes
<1>2. IsPortal(in) => in[1] \notin swept
  BY DEF SweptFor, SweptByIncoming, Cascade
<1> HIDE DEF swept
<1>3. swept \cap PickedApps(picked) = {}
  BY DEF swept
<1>4. \A b \in swept : status[b] \in LiveStatuses /\ st[b] = status[b]
                       /\ (IsPortal(out) => b # out[1])
  BY <1>1, <1>3, FreedValues DEF LiveStatuses
<1> QED BY <1>1, <1>2, <1>4 DEF swept

CreditFor(out, in) ==
    {dom \in {"offer_cap"} : Credited(CapFull(HolderCycle(in), UsedAfter(out, in)), overrides[dom])}

LEMMA ReplacementWarranted ==
    ASSUME TypeOK, NEW out \in AcceptanceIds, NEW in \in AcceptanceIds, NEW picked,
           NEW d \in DeadlineChoices(picked),
           HoldsPlacement(out), AwaitsAnswer(in), Restorable(out, picked, d),
           SweptFor(out, in, picked) \cap PickedApps(picked) = {}
    PROVE  Warranted(out, picked, d, in, SweptFor(out, in, picked), CreditFor(out, in))
<1>1. CreditFor(out, in) \subseteq AllDomains
  BY DEF CreditFor, AllDomains
<1>2. IsPortal(out) => out = CurrentId(out[1]) /\ status[out[1]] = "accepted"
  BY DEF HoldsPlacement
<1>3. IsPortal(in) => in = CurrentId(in[1]) /\ Answerable(in[1])
  BY DEF AwaitsAnswer
<1> QED BY <1>1, <1>2, <1>3, SweptAreLive DEF Warranted, DeadlineChoices

\* The row that is taken up, those declined, those renewed and the one that is
\* ended belong to different applications.
LEMMA RowsApart ==
    ASSUME TypeOK, NEW out, NEW picked, NEW d, NEW in, NEW swept, NEW credit,
           Warranted(out, picked, d, in, swept, credit),
           IsPortal(out) => out[1] \notin swept, swept \cap PickedApps(picked) = {},
           NEW o \in OfferIds
    PROVE  /\ o[1] \in swept => o[1] \notin Renewed(picked) /\ o # out
           /\ o = in => o[1] \notin swept /\ o[1] \notin Renewed(picked) /\ o # out
<1>1. Renewed(picked) \subseteq PickedApps(picked)
  BY PickedFacts DEF Warranted
<1>2. o[1] \in swept => o[1] \notin Renewed(picked) /\ o # out
  BY <1>1 DEF IsPortal
<1>3. ASSUME o = in
      PROVE  o[1] \notin swept /\ o[1] \notin Renewed(picked) /\ o # out
  <2>1. IsPortal(in) /\ status[o[1]] = "offered" /\ o[1] \notin swept
    BY <1>3 DEF IsPortal, Warranted, Answerable
  <2>2. o[1] \notin Renewed(picked)
    BY <2>1, PickedFacts DEF Warranted
  <2>3. o # out
    BY <2>1, <1>3 DEF IsPortal, Warranted
  <2> QED BY <2>1, <2>2, <2>3
<1> QED BY <1>2, <1>3

LEMMA ReplacementPosts ==
    ASSUME TypeOK, NEW out \in AcceptanceIds, NEW in \in AcceptanceIds, NEW picked,
           NEW d \in DeadlineChoices(picked), ReplacePlacement(out, in, picked, d)
    PROVE  Posting(out, picked, d, in, SweptFor(out, in, picked), CreditFor(out, in))
<1> DEFINE credit == CreditFor(out, in)
           swept == SweptFor(out, in, picked)
           st0 == StatusesFreed(out, picked)
           off0 == FreedRows(out, picked, d)
           st1 == SweptStatuses(st0, swept)
           off1 == SweptRows(st0, off0, swept)
           st2 == TakenStatuses(st1, in)
           off2 == TakenRows(off1, in, credit)
           freed == Restore(Ended(Books, out), picked, d)
           cleared == Sweep(freed, in, swept)
           books == TakenUp(cleared, in, credit)
<1>1. Pages(freed, st0, off0, RestoredCounts(picked), RestoredQueue(picked, d), {})
  BY FreedPages
<1>2. freed.st = st0
  BY <1>1 DEF Pages
<1>3. SweptByIncoming(out, in, freed.st) = swept
  <2> HIDE DEF freed, st0
  <2> QED BY <1>2 DEF SweptFor, st0
<1>4. /\ Commit(books, PickedApps(picked)) /\ swept \cap PickedApps(picked) = {}
      /\ HoldsPlacement(out) /\ AwaitsAnswer(in) /\ Restorable(out, picked, d)
  BY <1>3 DEF ReplacePlacement, CreditFor
<1>5. Warranted(out, picked, d, in, swept, credit)
  BY <1>4, ReplacementWarranted
<1>6. /\ \A b \in swept : st0[b] = status[b]
      /\ IsPortal(out) => out[1] \notin swept
  BY <1>4, SweptAreLive
<1>7. \A b \in Apps : st0[b] = IF b \in PickedApps(picked) THEN GivenBack(picked, b)
                               ELSE IF IsPortal(out) /\ b = out[1] THEN "offer_terminated"
                               ELSE status[b]
  BY FreedValues
<1>8. \A o \in OfferIds : off0[o] =
         IF o[1] \in Renewed(picked) /\ o = NextId(o[1]) THEN FreshRow(d[o[1]])
         ELSE IF o = out THEN [offers[o] EXCEPT !.terminated = TRUE]
         ELSE offers[o]
  <2> TAKE o \in OfferIds
  <2> HIDE DEF off0
  <2> QED BY DEF off0, FreedRows, RestoredRows, EndedRows
<1> HIDE DEF freed, st0, off0, swept, credit
<1>9. Pages(cleared, st1, off1, RestoredCounts(picked), RestoredQueue(picked, d), SweptCauses(st0, in, swept))
  BY <1>1, SweepPages
<1>10. /\ \A b \in Apps : st1[b] = IF b \in swept THEN CascadeStatus(st0[b]) ELSE st0[b]
       /\ st1 = [b \in Apps |-> st1[b]]
  BY DEF SweptStatuses
<1>11. /\ \A o \in OfferIds : off1[o] =
             IF o = CurrentId(o[1]) /\ o[1] \in swept /\ st0[o[1]] = "offered"
             THEN [off0[o] EXCEPT !.response = "declined"] ELSE off0[o]
       /\ off1 = [o \in OfferIds |-> off1[o]]
  BY DEF SweptRows
<1> HIDE DEF cleared, st1, off1
<1>12. Pages(books, st2, off2, RestoredCounts(picked), RestoredQueue(picked, d), SweptCauses(st0, in, swept))
  BY <1>9, <1>10, <1>11, TakenUpPages
<1>13. /\ \A b \in Apps : st2[b] = IF IsPortal(in) /\ b = in[1] THEN "accepted" ELSE st1[b]
       /\ st2 = [b \in Apps |-> st2[b]]
  BY DEF TakenStatuses
<1>14. /\ \A o \in OfferIds : off2[o] =
             IF o = in THEN [off1[o] EXCEPT !.response = "accepted", !.waived = credit]
             ELSE off1[o]
       /\ off2 = [o \in OfferIds |-> off2[o]]
  BY DEF TakenRows
<1> HIDE DEF books, st2, off2
<1>15. SweptCauses(st0, in, swept) = SweptCauses(status, in, swept)
  BY <1>6 DEF SweptCauses
<1>16. \A b \in Apps : st2[b] = PostedStatus(out, picked, in, swept, b)
  BY <1>6, <1>7, <1>10, <1>13 DEF PostedStatus
<1>17. \A o \in OfferIds : off2[o] = PostedRow(out, picked, d, in, swept, credit, o)
  <2> SUFFICES ASSUME NEW o \in OfferIds
               PROVE  off2[o] = PostedRow(out, picked, d, in, swept, credit, o)
    OBVIOUS
  <2>1. /\ o[1] \in swept => o[1] \notin Renewed(picked) /\ o # out /\ st0[o[1]] = status[o[1]]
        /\ o = in => o[1] \notin swept /\ o[1] \notin Renewed(picked) /\ o # out
    BY <1>4, <1>5, <1>6, RowsApart
  <2>2. CASE o = in
    <3>1. off1[o] = offers[o]
      BY <1>8, <1>11, <2>1, <2>2
    <3> QED BY <1>14, <2>2, <3>1 DEF PostedRow
  <2>3. CASE o # in /\ o[1] \in swept
    <3>1. off0[o] = offers[o]
      BY <1>8, <2>1, <2>3
    <3> QED BY <1>11, <1>14, <2>1, <2>3, <3>1 DEF PostedRow
  <2>4. CASE o # in /\ o[1] \notin swept
    <3>1. off2[o] = off0[o]
      BY <1>11, <1>14, <2>4
    <3> QED BY <1>8, <2>4, <3>1 DEF PostedRow
  <2> QED BY <2>2, <2>3, <2>4
<1> HIDE DEF books, st2, off2
<1>18. Commit(books, PickedApps(picked))
  BY <1>4
<1>a. Pages(books, st2, off2, RestoredCounts(picked), RestoredQueue(picked, d),
            SweptCauses(status, in, swept))
  BY <1>12, <1>15
<1>b. st2 = [b \in Apps |-> st2[b]]
  BY <1>13
<1>c. off2 = [o \in OfferIds |-> off2[o]]
  BY <1>14, Zenon
<1>19. Posting(out, picked, d, in, swept, credit)
  BY <1>5, <1>a, <1>b, <1>c, <1>16, <1>17, <1>18, CommitPosts
<1> QED BY <1>19 DEF credit, swept

-----------------------------------------------------------------------------
(* A posting keeps rows well formed and moves each application as one of   *)
(* the BookSteps of OfferRecordsProofs.                                    *)

LEMMA PostedFacts ==
    ASSUME NEW out, NEW picked, NEW d, NEW in, NEW swept, NEW credit,
           Posting(out, picked, d, in, swept, credit)
    PROVE  /\ \A b \in Apps : status'[b] = PostedStatus(out, picked, in, swept, b)
           /\ \A o \in OfferIds : offers'[o] = PostedRow(out, picked, d, in, swept, credit, o)
           /\ offerCount' = RestoredCounts(picked)
           /\ tasks' = RestoredQueue(picked, d)
BY DEF Posting, Posted

\* Commands about external offers keep every row well formed.
LEMMA PostingTypes ==
    ASSUME TypeOK, NEW out, NEW picked, NEW d, NEW in, NEW swept, NEW credit,
           Posting(out, picked, d, in, swept, credit)
    PROVE  AppTypes' /\ OfferTypes'
<1>0. AppTypes /\ OfferTypes
  BY TypeParts
<1>w. Warranted(out, picked, d, in, swept, credit)
  BY DEF Posting
<1>1. /\ \A b \in swept : b \in Apps /\ status[b] \in LiveStatuses
      /\ in \in AcceptanceIds /\ credit \subseteq AllDomains
      /\ \A b \in PickedApps(picked) : d[b] \in Deadlines
  BY <1>w DEF Warranted
<1>2. /\ \A b \in PickedApps(picked) : b \in Apps /\ GivenBack(picked, b) \in LiveStatuses
      /\ Renewed(picked) \subseteq PickedApps(picked)
      /\ \A b \in Renewed(picked) : offerCount[b] < MaxOffers
  <2>1. Restorable(out, picked, d)
    BY <1>w DEF Warranted
  <2> QED BY <2>1, PickedFacts
<1>3. \A b \in Apps : PostedStatus(out, picked, in, swept, b) \in Statuses
  <2> TAKE b \in Apps
  <2>1. status[b] \in Statuses
    BY <1>0 DEF AppTypes
  <2>2. b \in swept => CascadeStatus(status[b]) \in Statuses
    BY <1>1, StatusFacts
  <2>3. b \in PickedApps(picked) => GivenBack(picked, b) \in Statuses
    BY <1>2, StatusFacts
  <2>4. "accepted" \in Statuses /\ "offer_terminated" \in Statuses
    BY DEF Statuses
  <2> QED BY <2>1, <2>2, <2>3, <2>4 DEF PostedStatus
<1>4. status' \in [Apps -> Statuses]
  <2>1. status' = [b \in Apps |-> status'[b]]
    BY DEF Posting, Posted
  <2> QED BY <1>3, <2>1, PostedFacts
<1>5. SweptCauses(status, in, swept)
         \in SUBSET [app : Apps, offer : AcceptanceIds, from : LiveStatuses]
  BY <1>1 DEF SweptCauses
<1>6. AppTypes'
  <2>1. Record(status', SweptCauses(status, in, swept), PickedApps(picked))
    BY DEF Posting, Posted
  <2>2. PickedApps(picked) \in SUBSET Apps
    BY <1>2
  <2> QED BY <1>0, <1>4, <1>5, <2>1, <2>2, RecordType
<1>7. offers' \in [OfferIds -> OfferRow]
  <2>1. ASSUME NEW o \in OfferIds
        PROVE  PostedRow(out, picked, d, in, swept, credit, o) \in OfferRow
    <3>1. offers[o] \in OfferRow
      BY <1>0 DEF OfferTypes
    <3>2. [offers[o] EXCEPT !.response = "accepted", !.waived = credit] \in OfferRow
      BY <1>1, <3>1 DEF OfferRow
    <3>3. [offers[o] EXCEPT !.response = "declined"] \in OfferRow
      BY <3>1 DEF OfferRow
    <3>4. [offers[o] EXCEPT !.terminated = TRUE] \in OfferRow
      BY <3>1 DEF OfferRow
    <3>5. o[1] \in Renewed(picked) => FreshRow(d[o[1]]) \in OfferRow
      BY <1>1, <1>2, FreshRowType
    <3> QED BY <3>1, <3>2, <3>3, <3>4, <3>5 DEF PostedRow
  <2>2. offers' = [o \in OfferIds |-> PostedRow(out, picked, d, in, swept, credit, o)]
    BY DEF Posting, Posted
  <2> QED BY <2>1, <2>2
<1>8. offerCount' \in [Apps -> 0..MaxOffers]
  <2>1. \A b \in Apps : offerCount[b] \in 0..MaxOffers
    BY <1>0 DEF OfferTypes
  <2>2. \A b \in Apps : offerCount[b] + (IF b \in Renewed(picked) THEN 1 ELSE 0) \in 0..MaxOffers
    BY <1>2, <2>1, ConstantsAssumption
  <2> QED BY <2>2, PostedFacts DEF RestoredCounts
<1>9. tasks' \subseteq [offer : OfferIds, at : Deadlines]
  <2>1. ASSUME NEW b \in Renewed(picked)
        PROVE  ExpiryTask(b, NextId(b), d[b]) \subseteq [offer : OfferIds, at : Deadlines]
    BY <1>0, <1>1, <1>2, OfferIdFacts, ExpiryTaskType
  <2>2. tasks' = tasks \cup UNION {ExpiryTask(b, NextId(b), d[b]) : b \in Renewed(picked)}
    BY PostedFacts DEF RestoredQueue
  <2> QED BY <1>0, <2>1, <2>2 DEF OfferTypes
<1> QED BY <1>6, <1>7, <1>8, <1>9 DEF OfferTypes

LEMMA RowEnds ==
    ASSUME NEW row \in OfferRow, NEW after, after = [row EXCEPT !.terminated = TRUE]
    PROVE  after.response = row.response /\ after.terminated /\ after.waived = row.waived
BY DEF OfferRow

LEMMA RowDeclines ==
    ASSUME NEW row \in OfferRow, NEW after, after = [row EXCEPT !.response = "declined"]
    PROVE  /\ after.response = "declined" /\ after.terminated = row.terminated
           /\ after.waived = row.waived
BY DEF OfferRow

\* Each application as such a command finds and leaves it.
LEMMA PostingBooks ==
    ASSUME TypeOK, NEW out, NEW picked, NEW d, NEW in, NEW swept, NEW credit,
           Posting(out, picked, d, in, swept, credit), NEW b \in Apps
    PROVE  BookStep(b)
<1>0. OfferTypes
  BY TypeParts
<1>1. /\ status'[b] = PostedStatus(out, picked, in, swept, b)
      /\ \A o \in OfferIds : offers'[o] = PostedRow(out, picked, d, in, swept, credit, o)
      /\ offerCount'[b] = offerCount[b] + IF b \in Renewed(picked) THEN 1 ELSE 0
  BY PostedFacts DEF RestoredCounts
<1>w. Warranted(out, picked, d, in, swept, credit)
  BY DEF Posting
<1>2. /\ IsPortal(out) => out = CurrentId(out[1]) /\ status[out[1]] = "accepted"
      /\ IsPortal(in) => in = CurrentId(in[1]) /\ Answerable(in[1]) /\ in[1] \notin swept
      /\ \A c \in swept : status[c] \in LiveStatuses
  BY <1>w DEF Warranted
<1>p. Restorable(out, picked, d)
  BY <1>w DEF Warranted
<1>3. /\ Renewed(picked) \subseteq PickedApps(picked)
      /\ b \in PickedApps(picked) => status[b] \in {"declined", "auto_withdrawn"}
      /\ b \in Renewed(picked) => /\ status[b] = "declined" /\ offerCount[b] < MaxOffers
                                  /\ GivenBack(picked, b) = "offered"
      /\ b \in PickedApps(picked) \ Renewed(picked) =>
            /\ status[b] = "auto_withdrawn"
            /\ GivenBack(picked, b) \in {"in_progress", "pending_offer"}
  BY <1>p, PickedFacts
<1>4. /\ offerCount[b] \in 0..MaxOffers /\ MaxOffers \in Nat
      /\ \A n \in Slots : <<b, n>> \in OfferIds /\ <<b, n>>[1] = b
      /\ \A n \in Slots : offers[<<b, n>>] \in OfferRow
  BY <1>0, ConstantsAssumption DEF OfferTypes, OfferIds
<1>c. offerCount[b] > 0 => /\ offerCount[b] \in Slots
                           /\ CurrentId(b) = <<b, offerCount[b]>>
                           /\ CurrentRow(b) = offers[<<b, offerCount[b]>>]
                           /\ offers[<<b, offerCount[b]>>] \in OfferRow
  BY <1>4 DEF Slots, CurrentId, CurrentRow
<1>5. CASE IsPortal(out) /\ b = out[1]
  <2>1. /\ status[b] = "accepted" /\ b \notin swept /\ b \notin PickedApps(picked)
        /\ ~(IsPortal(in) /\ b = in[1])
    BY <1>2, <1>3, <1>5 DEF LiveStatuses, Answerable
  <2>2. status'[b] = "offer_terminated" /\ offerCount'[b] = offerCount[b]
    BY <1>1, <1>3, <1>4, <1>5, <2>1 DEF PostedStatus
  <2>3. \A n \in Slots : offers'[<<b, n>>] =
           IF <<b, n>> = out THEN [offers[<<b, n>>] EXCEPT !.terminated = TRUE]
           ELSE offers[<<b, n>>]
    <3> TAKE n \in Slots
    <3>1. <<b, n>> # in
      BY <1>4, <2>1 DEF IsPortal
    <3> QED BY <1>1, <1>3, <1>4, <2>1, <3>1 DEF PostedRow
  <2>4. out = <<b, offerCount[b]>>
    BY <1>2, <1>5 DEF CurrentId
  <2>5. KeptBut(b, offerCount[b])
    BY <2>3, <2>4 DEF KeptBut, RowKept
  <2>6. offerCount[b] > 0 => /\ offers'[CurrentId(b)].response = CurrentRow(b).response
                             /\ offers'[CurrentId(b)].terminated
    <3>1. offerCount[b] > 0 => offers'[<<b, offerCount[b]>>] =
            [offers[<<b, offerCount[b]>>] EXCEPT !.terminated = TRUE]
      BY <1>c, <2>3, <2>4
    <3> QED BY <1>c, <3>1, RowEnds
  <2> QED BY <2>1, <2>2, <2>5, <2>6 DEF BookStep, BookTerminated
<1>6. CASE IsPortal(in) /\ b = in[1]
  <2>1. /\ status[b] = "offered" /\ b \notin swept /\ b \notin PickedApps(picked)
        /\ ~(IsPortal(out) /\ b = out[1])
    BY <1>2, <1>3, <1>6 DEF Answerable
  <2>2. status'[b] = "accepted" /\ offerCount'[b] = offerCount[b]
    BY <1>1, <1>3, <1>4, <1>6, <2>1 DEF PostedStatus
  <2>3. \A n \in Slots : offers'[<<b, n>>] =
           IF <<b, n>> = in
           THEN [offers[<<b, n>>] EXCEPT !.response = "accepted", !.waived = credit]
           ELSE offers[<<b, n>>]
    <3> TAKE n \in Slots
    <3>1. <<b, n>> # out
      BY <1>4, <2>1 DEF IsPortal
    <3> QED BY <1>1, <1>3, <1>4, <2>1, <3>1 DEF PostedRow
  <2>4. in = <<b, offerCount[b]>>
    BY <1>2, <1>6 DEF CurrentId
  <2>5. KeptBut(b, offerCount[b])
    BY <2>3, <2>4 DEF KeptBut, RowKept
  <2>6. offerCount[b] > 0 => /\ offers'[CurrentId(b)].response = "accepted"
                             /\ offers'[CurrentId(b)].terminated = CurrentRow(b).terminated
    <3>1. offerCount[b] > 0 => offers'[<<b, offerCount[b]>>] =
            [offers[<<b, offerCount[b]>>] EXCEPT !.response = "accepted", !.waived = credit]
      BY <1>c, <2>3, <2>4
    <3> DEFINE row == offers[<<b, offerCount[b]>>]
               after == [row EXCEPT !.response = "accepted", !.waived = credit]
    <3>2. offerCount[b] > 0 => offers'[<<b, offerCount[b]>>] = after
      BY <3>1
    <3>3. offerCount[b] > 0 => row \in OfferRow
      BY <1>c
    <3> HIDE DEF row
    <3>4. row \in OfferRow => after.response = "accepted" /\ after.terminated = row.terminated
      BY DEF OfferRow
    <3> HIDE DEF after
    <3>5. offerCount[b] > 0 => row = CurrentRow(b)
      BY <1>c DEF row
    <3> QED BY <1>c, <3>2, <3>3, <3>4, <3>5
  <2> QED BY <2>1, <2>2, <2>5, <2>6 DEF BookStep, BookAnswered
<1>7. CASE b \in swept
  <2>1. /\ status[b] \in LiveStatuses /\ b \notin PickedApps(picked)
        /\ ~(IsPortal(in) /\ b = in[1]) /\ ~(IsPortal(out) /\ b = out[1])
    BY <1>2, <1>3, <1>7 DEF LiveStatuses
  <2>2. status'[b] = CascadeStatus(status[b]) /\ offerCount'[b] = offerCount[b]
    BY <1>1, <1>3, <1>4, <1>7, <2>1 DEF PostedStatus
  <2>3. \A n \in Slots : offers'[<<b, n>>] =
           IF n = offerCount[b] /\ status[b] = "offered"
           THEN [offers[<<b, n>>] EXCEPT !.response = "declined"]
           ELSE offers[<<b, n>>]
    <3> TAKE n \in Slots
    <3>1. <<b, n>> # out /\ <<b, n>> # in /\ (<<b, n>> = CurrentId(b) <=> n = offerCount[b])
      BY <1>4, <2>1 DEF IsPortal, CurrentId
    <3> QED BY <1>1, <1>3, <1>4, <1>7, <2>1, <3>1 DEF PostedRow
  <2>4. CASE status[b] = "offered"
    <3>1. KeptBut(b, offerCount[b])
      BY <2>3 DEF KeptBut, RowKept
    <3>2. offerCount[b] > 0 => /\ offers'[CurrentId(b)].response = "declined"
                               /\ offers'[CurrentId(b)].terminated = CurrentRow(b).terminated
      <4>1. offerCount[b] > 0 => offers'[<<b, offerCount[b]>>] =
              [offers[<<b, offerCount[b]>>] EXCEPT !.response = "declined"]
        BY <1>c, <2>3, <2>4
      <4> QED BY <1>c, <4>1, RowDeclines
    <3> QED BY <2>2, <2>4, <3>1, <3>2 DEF BookStep, BookAnswered, CascadeStatus
  <2>5. CASE status[b] # "offered"
    BY <2>1, <2>2, <2>3, <2>5 DEF BookStep, BookAlone, RowKept, CascadeStatus, Plain, LiveStatuses
  <2> QED BY <2>4, <2>5
<1>8. CASE b \in Renewed(picked)
  <2>1. /\ b \in PickedApps(picked) /\ status[b] = "declined" /\ b \notin swept
        /\ ~(IsPortal(in) /\ b = in[1]) /\ ~(IsPortal(out) /\ b = out[1])
    BY <1>2, <1>3, <1>8 DEF LiveStatuses, Answerable
  <2>2. status'[b] = "offered" /\ offerCount'[b] = offerCount[b] + 1
    BY <1>1, <1>3, <1>4, <1>8, <2>1 DEF PostedStatus
  <2>3. \A n \in Slots : offers'[<<b, n>>] =
           IF n = offerCount[b] + 1 THEN FreshRow(d[b]) ELSE offers[<<b, n>>]
    <3> TAKE n \in Slots
    <3>1. <<b, n>> # out /\ <<b, n>> # in /\ (<<b, n>> = NextId(b) <=> n = offerCount[b] + 1)
      BY <1>4, <2>1 DEF IsPortal, NextId
    <3> QED BY <1>1, <1>4, <1>8, <2>1, <3>1 DEF PostedRow
  <2>4. NextId(b) \in OfferIds /\ NextId(b) = <<b, offerCount[b] + 1>>
    BY <1>0, <1>3, <1>8, OfferIdFacts DEF NextId
  <2>5. KeptBut(b, offerCount[b] + 1)
    BY <2>3 DEF KeptBut, RowKept
  <2>6. ~offers'[NextId(b)].terminated /\ offers'[NextId(b)].response = "none"
    BY <1>3, <1>4, <1>8, <2>3, <2>4 DEF FreshRow, Slots
  <2> QED BY <2>1, <2>2, <2>4, <2>5, <2>6 DEF BookStep, BookExtended
<1>9. CASE /\ ~(IsPortal(out) /\ b = out[1]) /\ ~(IsPortal(in) /\ b = in[1])
           /\ b \notin swept /\ b \notin Renewed(picked)
  <2>1. offerCount'[b] = offerCount[b]
    BY <1>1, <1>4, <1>9
  <2>2. \A n \in Slots : offers'[<<b, n>>] = offers[<<b, n>>]
    <3> TAKE n \in Slots
    <3>1. <<b, n>> # out /\ <<b, n>> # in
      BY <1>4, <1>9 DEF IsPortal
    <3> QED BY <1>1, <1>4, <1>9, <3>1 DEF PostedRow
  <2>3. status'[b] = IF b \in PickedApps(picked) THEN GivenBack(picked, b) ELSE status[b]
    BY <1>1, <1>9 DEF PostedStatus
  <2>4. status'[b] = status[b] \/ {status[b], status'[b]} \subseteq Plain
    BY <1>3, <1>9, <2>3 DEF Plain
  <2> QED BY <2>1, <2>2, <2>4 DEF BookStep, BookAlone, RowKept
<1> QED BY <1>5, <1>6, <1>7, <1>8, <1>9

-----------------------------------------------------------------------------
(* Every command about external offers is a posting or leaves the books    *)
(* aside.                                                                  *)

\* No command about an external offer writes these.
LEMMA ExternalFrame ==
    ASSUME ExternalStep
    PROVE  UNCHANGED <<jobs, archived, overrides, forced, cycles, now, interventions>>
<1> DEFINE Frame == UNCHANGED <<jobs, archived, overrides, forced, cycles, now, interventions>>
<1>1. ASSUME NEW x, NEW outcome, NEW st,
             CreateExternalOffer(x, outcome, st) \/ EditExternalOffer(x, outcome, st)
      PROVE  Frame
  BY <1>1 DEF CreateExternalOffer, EditExternalOffer, OnlyBooks
<1>2. ASSUME NEW x, AcceptExternalOffer(x) \/ DetachExternalOffer(x)
      PROVE  Frame
  BY <1>2 DEF AcceptExternalOffer, DetachExternalOffer, OnlyBooks
<1>3. ASSUME NEW x, NEW st, NEW picked, NEW d,
             DeleteExternalOffer(x, picked, d) \/ UnacceptExternalOffer(x, st, picked, d)
      PROVE  Frame
  BY <1>3 DEF DeleteExternalOffer, UnacceptExternalOffer, OnlyBooks
<1>4. ASSUME NEW c, NEW rows, NEW beyond, AttachExternalOffers(c, rows, beyond)
      PROVE  Frame
  BY <1>4 DEF AttachExternalOffers, OnlyBooks
<1>5. ASSUME NEW out, NEW in, NEW picked, NEW d, ReplacePlacement(out, in, picked, d)
      PROVE  Frame
  BY <1>5 DEF ReplacePlacement, OnlyBooks
<1> HIDE DEF Frame
<1>6. Frame
  BY <1>1, <1>2, <1>3, <1>4, <1>5 DEF ExternalStep
<1> QED BY <1>6 DEF Frame

LEMMA SweptByLive ==
    ASSUME NEW x, NEW outcome
    PROVE  \A b \in SweptBy(x, outcome, status) : b \in Apps /\ status[b] \in LiveStatuses
BY DEF SweptBy, CascadeTakes

\* What each command writes of the portal's rows.
LEMMA CreatePosts ==
    ASSUME TypeOK, NEW x \in ExternalIds, NEW outcome, NEW st, CreateExternalOffer(x, outcome, st)
    PROVE  Posting(x, {}, status, x, IF st = "accepted" THEN SweptBy(x, outcome, status) ELSE {}, {})
<1>1. CASE st = "accepted"
  <2>1. Commit(Sweep(Books, x, SweptBy(x, outcome, status)), {})
    BY <1>1 DEF CreateExternalOffer
  <2> QED BY <1>1, <2>1, SweptByLive, SweepPosts
<1>2. CASE st # "accepted"
  <2>1. Commit(Books, {})
    BY <1>2 DEF CreateExternalOffer
  <2> QED BY <1>2, <2>1, NothingPosts
<1> QED BY <1>1, <1>2

LEMMA AcceptPosts ==
    ASSUME TypeOK, NEW x \in ExternalIds, AcceptExternalOffer(x)
    PROVE  Posting(x, {}, status, x, SweptBy(x, external[x].outcome, status), {})
<1>1. Commit(Sweep(Books, x, SweptBy(x, external[x].outcome, status)), {})
  BY DEF AcceptExternalOffer
<1> QED BY <1>1, SweptByLive, SweepPosts

LEMMA UnacceptPosts ==
    ASSUME TypeOK, NEW x \in ExternalIds, NEW picked, NEW d \in DeadlineChoices(picked), NEW st,
           DeleteExternalOffer(x, picked, d) \/ UnacceptExternalOffer(x, st, picked, d)
    PROVE  Posting(x, picked, d, x, {}, {})
<1>1. Restorable(x, picked, d) /\ Commit(Restore(Books, picked, d), PickedApps(picked))
  BY DEF DeleteExternalOffer, UnacceptExternalOffer
<1> QED BY <1>1, RestorePosts

LEMMA AsideSteps ==
    ASSUME TypeOK,
           \/ \E x, outcome, st : EditExternalOffer(x, outcome, st)
           \/ \E x : DetachExternalOffer(x)
           \/ \E c, rows, beyond : AttachExternalOffers(c, rows, beyond)
    PROVE  Aside
<1>1. ASSUME UNCHANGED <<appVars, offerVars>>
      PROVE  Aside
  BY <1>1 DEF Aside, appVars, TypeOK
<1>2. ASSUME NEW c, NEW rows, NEW beyond, AttachExternalOffers(c, rows, beyond)
      PROVE  Aside
  <2>1. sanctioned' \subseteq sanctioned \cup Apps /\ UNCHANGED <<status, caused, standing, offerVars>>
    BY <1>2 DEF AttachExternalOffers
  <2> QED BY <2>1 DEF Aside, TypeOK
<1> QED BY <1>1, <1>2 DEF EditExternalOffer, DetachExternalOffer

\* Of the portal's rows, a command writes what its plan posts, or nothing.
LEMMA ExternalKinds ==
    ASSUME TypeOK, ExternalStep
    PROVE  \/ Aside
           \/ \E out, picked, d, in, swept, credit : Posting(out, picked, d, in, swept, credit)
<1>1. ASSUME NEW x \in ExternalIds, NEW outcome, NEW st, CreateExternalOffer(x, outcome, st)
      PROVE  \E out, picked, d, in, swept, credit : Posting(out, picked, d, in, swept, credit)
  BY <1>1, CreatePosts
<1>2. ASSUME NEW x \in ExternalIds, AcceptExternalOffer(x)
      PROVE  \E out, picked, d, in, swept, credit : Posting(out, picked, d, in, swept, credit)
  BY <1>2, AcceptPosts
<1>3. ASSUME NEW x \in ExternalIds, NEW picked, NEW d \in DeadlineChoices(picked), NEW st,
             DeleteExternalOffer(x, picked, d) \/ UnacceptExternalOffer(x, st, picked, d)
      PROVE  \E out, p, e, in, swept, credit : Posting(out, p, e, in, swept, credit)
  BY <1>3, UnacceptPosts
<1>4. ASSUME NEW out \in AcceptanceIds, NEW in \in AcceptanceIds, NEW picked,
             NEW d \in DeadlineChoices(picked), ReplacePlacement(out, in, picked, d)
      PROVE  \E o, p, e, i, swept, credit : Posting(o, p, e, i, swept, credit)
  BY <1>4, ReplacementPosts
<1> QED BY <1>1, <1>2, <1>3, <1>4, AsideSteps DEF ExternalStep

LEMMA ExternalBooks ==
    ASSUME TypeOK, ExternalStep, NEW b \in Apps
    PROVE  BookStep(b)
<1>1. CASE Aside
  BY <1>1, PlainBooks DEF Aside, offerVars
<1> QED BY <1>1, ExternalKinds, PostingBooks

LEMMA ExternalAppTypes ==
    ASSUME TypeOK, ExternalStep
    PROVE  AppTypes' /\ OfferTypes'
<1>1. CASE Aside
  BY <1>1, TypeParts DEF Aside, AppTypes, OfferTypes, offerVars
<1> QED BY <1>1, ExternalKinds, PostingTypes

-----------------------------------------------------------------------------
\* The offers staff record stay well formed.
LEMMA CreditsTyped ==
    /\ \A x, outcome : RecordingCredit(x, outcome) \subseteq AllDomains
    /\ \A out, in : CreditFor(out, in) \subseteq AllDomains
BY DEF RecordingCredit, CreditFor, AllDomains

LEMMA ExternalRows ==
    ASSUME TypeOK, ExternalStep
    PROVE  external' \in [ExternalIds -> ExternalRow]
<1>0. external \in [ExternalIds -> ExternalRow]
  BY DEF TypeOK
<1>r. \A row \in ExternalRow : /\ row.status \in ExternalStatuses /\ row.outcome \in Outcomes
                               /\ row.cycle \in Cycles \cup {Unattached}
                               /\ row.waived \subseteq AllDomains
  BY DEF ExternalRow
<1>1. ASSUME NEW x \in ExternalIds, NEW outcome \in Outcomes,
             NEW st \in {"offered", "accepted", "declined"}, CreateExternalOffer(x, outcome, st)
      PROVE  external' \in [ExternalIds -> ExternalRow]
  <2> DEFINE credit == IF st = "accepted" THEN RecordingCredit(x, outcome) ELSE {}
  <2>1. external' = [external EXCEPT ![x] = [status |-> st, outcome |-> outcome,
                                             cycle |-> Unattached, waived |-> credit]]
    BY <1>1 DEF CreateExternalOffer
  <2>2. credit \subseteq AllDomains
    BY CreditsTyped
  <2> HIDE DEF credit
  <2>3. [status |-> st, outcome |-> outcome, cycle |-> Unattached, waived |-> credit]
            \in ExternalRow
    BY <2>2 DEF ExternalRow, ExternalStatuses
  <2> QED BY <1>0, <2>1, <2>3
<1>2. ASSUME NEW x \in ExternalIds, NEW outcome \in Outcomes,
             NEW st \in {"offered", "accepted", "declined"}, EditExternalOffer(x, outcome, st)
      PROVE  external' \in [ExternalIds -> ExternalRow]
  <2>1. external' = [external EXCEPT ![x] = [external[x] EXCEPT !.outcome = outcome,
                                                                !.status = st]]
    BY <1>2 DEF EditExternalOffer
  <2>2. [external[x] EXCEPT !.outcome = outcome, !.status = st] \in ExternalRow
    BY <1>0 DEF ExternalRow, ExternalStatuses
  <2> QED BY <1>0, <2>1, <2>2
<1>3. ASSUME NEW x \in ExternalIds, AcceptExternalOffer(x)
      PROVE  external' \in [ExternalIds -> ExternalRow]
  <2>1. external' = [external EXCEPT ![x].status = "accepted",
                                     ![x].waived = RecordingCredit(x, external[x].outcome)]
    BY <1>3 DEF AcceptExternalOffer
  <2> QED BY <1>0, <2>1, CreditsTyped DEF ExternalRow, ExternalStatuses
<1>4. ASSUME NEW x \in ExternalIds, NEW picked, NEW d, NEW st \in {"offered", "declined"},
             UnacceptExternalOffer(x, st, picked, d)
      PROVE  external' \in [ExternalIds -> ExternalRow]
  <2>1. external' = [external EXCEPT ![x].status = st, ![x].waived = {}]
    BY <1>4 DEF UnacceptExternalOffer
  <2> QED BY <1>0, <2>1 DEF ExternalRow, ExternalStatuses
<1>5. ASSUME NEW x \in ExternalIds, NEW picked, NEW d, DeleteExternalOffer(x, picked, d)
      PROVE  external' \in [ExternalIds -> ExternalRow]
  <2>1. external' = [external EXCEPT ![x] = [NoExternal EXCEPT !.status = "deleted"]]
    BY <1>5 DEF DeleteExternalOffer
  <2> QED BY <1>0, <2>1 DEF ExternalRow, ExternalStatuses, NoExternal, Outcomes
<1>6. ASSUME NEW x \in ExternalIds, DetachExternalOffer(x)
      PROVE  external' \in [ExternalIds -> ExternalRow]
  <2>1. external' = [external EXCEPT ![x].cycle = Unattached, ![x].waived = @ \ {"offer_cap"}]
    BY <1>6 DEF DetachExternalOffer
  <2> QED BY <1>0, <2>1 DEF ExternalRow
<1>7. ASSUME NEW c \in Cycles, NEW rows, NEW beyond, AttachExternalOffers(c, rows, beyond)
      PROVE  external' \in [ExternalIds -> ExternalRow]
  <2>1. external' = [x \in ExternalIds |->
            IF x \notin rows THEN external[x]
            ELSE [external[x] EXCEPT !.cycle = c,
                     !.waived = @ \cup (IF x \in beyond THEN {"offer_cap"} ELSE {})]]
    BY <1>7 DEF AttachExternalOffers
  <2>2. ASSUME NEW x \in ExternalIds
        PROVE  [external[x] EXCEPT !.cycle = c,
                   !.waived = @ \cup (IF x \in beyond THEN {"offer_cap"} ELSE {})] \in ExternalRow
    BY <1>0 DEF ExternalRow, AllDomains
  <2> QED BY <1>0, <2>1, <2>2
<1>8. ASSUME NEW out, NEW in, NEW picked, NEW d, ReplacePlacement(out, in, picked, d)
      PROVE  external' \in [ExternalIds -> ExternalRow]
  <2>1. external' = [x \in ExternalIds |->
            IF x = out THEN [external[x] EXCEPT !.status = "declined", !.waived = {}]
            ELSE IF x = in THEN [external[x] EXCEPT !.status = "accepted",
                                                    !.waived = CreditFor(out, in)]
            ELSE external[x]]
    BY <1>8 DEF ReplacePlacement, CreditFor
  <2>2. ASSUME NEW x \in ExternalIds
        PROVE  /\ [external[x] EXCEPT !.status = "declined", !.waived = {}] \in ExternalRow
               /\ [external[x] EXCEPT !.status = "accepted", !.waived = CreditFor(out, in)]
                     \in ExternalRow
    BY <1>0, CreditsTyped DEF ExternalRow, ExternalStatuses
  <2> QED BY <1>0, <2>1, <2>2
<1> QED BY <1>1, <1>2, <1>3, <1>4, <1>5, <1>6, <1>7, <1>8 DEF ExternalStep

\* Only an attachment can make a member.
LEMMA AttachesOrNot ==
    ASSUME ExternalStep
    PROVE  \/ SameMembership
           \/ \E c \in Cycles : \E rows, beyond : AttachExternalOffers(c, rows, beyond)
<1>1. ASSUME NEW x, NEW outcome, NEW st,
             CreateExternalOffer(x, outcome, st) \/ EditExternalOffer(x, outcome, st)
      PROVE  SameMembership
  BY <1>1 DEF CreateExternalOffer, EditExternalOffer
<1>2. ASSUME NEW x, AcceptExternalOffer(x) \/ DetachExternalOffer(x)
      PROVE  SameMembership
  BY <1>2 DEF AcceptExternalOffer, DetachExternalOffer
<1>3. ASSUME NEW x, NEW st, NEW picked, NEW d,
             DeleteExternalOffer(x, picked, d) \/ UnacceptExternalOffer(x, st, picked, d)
      PROVE  SameMembership
  BY <1>3 DEF DeleteExternalOffer, UnacceptExternalOffer
<1>4. ASSUME NEW out, NEW in, NEW picked, NEW d, ReplacePlacement(out, in, picked, d)
      PROVE  SameMembership
  BY <1>4 DEF ReplacePlacement
<1> QED BY <1>1, <1>2, <1>3, <1>4 DEF ExternalStep

LEMMA ExternalMembers ==
    ASSUME member \in [Cycles -> BOOLEAN], ExternalStep
    PROVE  member' \in [Cycles -> BOOLEAN]
<1>1. ASSUME NEW c \in Cycles, NEW rows, NEW beyond, AttachExternalOffers(c, rows, beyond)
      PROVE  member' \in [Cycles -> BOOLEAN]
  BY <1>1 DEF AttachExternalOffers
<1>2. CASE SameMembership
  BY <1>2 DEF SameMembership
<1> QED BY <1>1, <1>2, AttachesOrNot

LEMMA ExternalStepType == ASSUME TypeOK, ExternalStep PROVE TypeOK'
<1>1. StaffTypes'
  BY ExternalFrame, ExternalRows, ExternalMembers, TypeParts DEF StaffTypes
<1>2. RestTypes'
  BY ExternalFrame, TypeParts DEF RestTypes
<1> QED BY <1>1, <1>2, ExternalAppTypes, NextTypeParts

-----------------------------------------------------------------------------
(* Memberships beside postings.                                             *)

\* A plan moves into the pipeline only what it gives back.
LEMMA PostingKeeps ==
    ASSUME MembersInv, NEW out, NEW picked, NEW d, NEW in, NEW swept, NEW credit,
           Posting(out, picked, d, in, swept, credit), SameMembership
    PROVE  MembersInv'
<1>1. /\ Record(status', SweptCauses(status, in, swept), PickedApps(picked))
      /\ status' = [b \in Apps |-> status'[b]]
  BY DEF Posting, Posted
<1>2. EntersRightly(status', PickedApps(picked))
  <2> SUFFICES ASSUME NEW b \in Apps, status'[b] \in EXIT_CASCADE_STATUSES,
                      b \notin PickedApps(picked)
               PROVE  status[b] \in EXIT_CASCADE_STATUSES
    BY DEF EntersRightly
  <2>1. status'[b] = PostedStatus(out, picked, in, swept, b)
    BY PostedFacts
  <2> QED BY <2>1, SweptLeaves DEF PostedStatus, EXIT_CASCADE_STATUSES
<1> QED BY <1>1, <1>2, RecordKeeps DEF SameMembership

\* Being attached to a cycle can only make a member.
LEMMA AttachmentKeeps ==
    ASSUME MembersInv, NEW c \in Cycles, NEW rows, NEW beyond,
           AttachExternalOffers(c, rows, beyond)
    PROVE  MembersInv'
<1>1. /\ status' = status
      /\ sanctioned \subseteq sanctioned'
      /\ membership' = [membership EXCEPT ![c] = IF membership[c] = "none" THEN "active" ELSE @]
      /\ member' = [member EXCEPT ![c] = @ \/ membership[c] = "none"]
  BY DEF AttachExternalOffers
<1>2. \A d \in Cycles : member[d] => member'[d]
  BY <1>1 DEF MembersInv
<1>3. PipelineNeedsMembership'
  BY <1>1, <1>2, CyclesOfApps DEF MembersInv, PipelineNeedsMembership, CycleOfApp
<1>4. member' = [d \in Cycles |-> membership'[d] = "active"]
  <2>1. \A d \in Cycles : member'[d] = (membership'[d] = "active")
    <3>1. \A d \in Cycles \ {c} : member'[d] = member[d] /\ membership'[d] = membership[d]
      BY <1>1 DEF MembersInv
    <3>2. member'[c] = (member[c] \/ membership[c] = "none")
      BY <1>1 DEF MembersInv
    <3>3. membership'[c] = IF membership[c] = "none" THEN "active" ELSE membership[c]
      BY <1>1 DEF MembersInv
    <3> QED BY <3>1, <3>2, <3>3 DEF MembersInv
  <2> QED BY <1>1, <2>1 DEF MembersInv
<1> QED BY <1>1, <1>3, <1>4 DEF MembersInv

LEMMA ExternalKeeps ==
    ASSUME TypeOK, MembersInv, ExternalStep
    PROVE  MembersInv'
<1>1. ASSUME NEW out, NEW picked, NEW d, NEW in, NEW swept, NEW credit,
             Posting(out, picked, d, in, swept, credit), SameMembership
      PROVE  MembersInv'
  BY <1>1, PostingKeeps
<1>2. ASSUME NEW x \in ExternalIds, NEW outcome, NEW st,
             CreateExternalOffer(x, outcome, st) \/ AcceptExternalOffer(x)
      PROVE  MembersInv'
  <2>1. SameMembership
    BY <1>2 DEF CreateExternalOffer, AcceptExternalOffer
  <2> QED BY <1>1, <1>2, <2>1, CreatePosts, AcceptPosts
<1>3. ASSUME NEW x \in ExternalIds, NEW picked, NEW d \in DeadlineChoices(picked), NEW st,
             DeleteExternalOffer(x, picked, d) \/ UnacceptExternalOffer(x, st, picked, d)
      PROVE  MembersInv'
  <2>1. SameMembership
    BY <1>3 DEF DeleteExternalOffer, UnacceptExternalOffer
  <2> QED BY <1>1, <1>3, <2>1, UnacceptPosts
<1>4. ASSUME NEW x, NEW outcome, NEW st, EditExternalOffer(x, outcome, st) \/ DetachExternalOffer(x)
      PROVE  MembersInv'
  BY <1>4, NothingMoves DEF EditExternalOffer, DetachExternalOffer, SameMembership
<1>5. ASSUME NEW out \in AcceptanceIds, NEW in \in AcceptanceIds, NEW picked,
             NEW d \in DeadlineChoices(picked), ReplacePlacement(out, in, picked, d)
      PROVE  MembersInv'
  <2>1. SameMembership
    BY <1>5 DEF ReplacePlacement
  <2> QED BY <1>1, <1>5, <2>1, ReplacementPosts
<1>6. CASE \E x \in ExternalIds :
         \/ \E outcome \in Outcomes, st \in {"offered", "accepted", "declined"} :
              CreateExternalOffer(x, outcome, st) \/ EditExternalOffer(x, outcome, st)
         \/ AcceptExternalOffer(x) \/ DetachExternalOffer(x)
  BY <1>2, <1>4, <1>6
<1>7. CASE \E x \in ExternalIds : \E picked \in Choices(x) : \E d \in DeadlineChoices(picked) :
              \/ DeleteExternalOffer(x, picked, d)
              \/ \E st \in {"offered", "declined"} : UnacceptExternalOffer(x, st, picked, d)
  BY <1>3, <1>7
<1> QED BY <1>5, <1>6, <1>7, AttachmentKeeps DEF ExternalStep

-----------------------------------------------------------------------------
(* Types and books for all commands together.                              *)

LEMMA PortalIsNext == PortalStep => Next /\ UNCHANGED memberVars
BY DEF PortalStep, Next, CycleStep

\* Of what the portal and staff write, a membership step writes the flag and,
\* on the way out of a cycle, the statuses of its pipeline.
LEMMA MembershipFrame ==
    ASSUME MembershipStep
    PROVE  /\ UNCHANGED <<offerVars, jobs, archived, overrides, external, forced>>
           /\ Intervene \/ UNCHANGED <<now, interventions>>
           /\ UNCHANGED appVars \/ \E c \in Cycles : ExitCascade(c)
<1> PICK c \in Cycles :
        \/ JoinCycle(c) \/ RerequestMembership(c) \/ ApproveMembership(c) \/ RejectMembership(c)
        \/ WithdrawMembership(c) \/ RemoveMembership(c) \/ ReadmitMember(c)
        \/ \E config \in CycleConfig : ConfigureCycle(c, config)
  BY DEF MembershipStep
<1>1. CASE OnlyMembership /\ UNCHANGED <<now, interventions>>
  BY <1>1 DEF OnlyMembership
<1>2. ASSUME NEW row, Leave(c, row)
      PROVE  /\ UNCHANGED <<offerVars, jobs, archived, overrides, external, forced>>
             /\ Intervene /\ ExitCascade(c)
  BY <1>2 DEF Leave
<1>3. ASSUME NEW config, ConfigureCycle(c, config)
      PROVE  /\ UNCHANGED <<offerVars, jobs, archived, overrides, external, forced>>
             /\ Intervene /\ UNCHANGED appVars
  BY <1>3 DEF ConfigureCycle, staffVars
<1> QED BY <1>1, <1>2, <1>3 DEF JoinCycle, RerequestMembership, ApproveMembership,
       RejectMembership, WithdrawMembership, RemoveMembership, ReadmitMember

MembershipRows ==
    /\ membership \in [Cycles -> MembershipStatuses]
    /\ cycles \in [Cycles -> CycleConfig]

LEMMA MembershipMoves ==
    ASSUME MembershipRows, member \in [Cycles -> BOOLEAN], MembershipStep
    PROVE  MembershipRows' /\ member' \in [Cycles -> BOOLEAN]
<1> PICK c \in Cycles :
        \/ JoinCycle(c) \/ RerequestMembership(c) \/ ApproveMembership(c) \/ RejectMembership(c)
        \/ WithdrawMembership(c) \/ RemoveMembership(c) \/ ReadmitMember(c)
        \/ \E config \in CycleConfig : ConfigureCycle(c, config)
  BY DEF MembershipStep
<1>1. ASSUME NEW row, MoveMembership(c, row), row.to \in MembershipStatuses, UNCHANGED cycles
      PROVE  MembershipRows' /\ member' \in [Cycles -> BOOLEAN]
  BY <1>1 DEF MoveMembership, MembershipRows
<1>2. \/ \E row : MoveMembership(c, row) /\ row.to \in MembershipStatuses /\ UNCHANGED cycles
      \/ \E config \in CycleConfig : ConfigureCycle(c, config)
  BY DEF JoinCycle, RerequestMembership, ApproveMembership, RejectMembership, WithdrawMembership,
     RemoveMembership, ReadmitMember, Leave, OnlyMembership, MEMBERSHIP_TRANSITIONS,
     MembershipRow, MembershipStatuses
<1>3. ASSUME NEW config \in CycleConfig, ConfigureCycle(c, config)
      PROVE  MembershipRows' /\ member' \in [Cycles -> BOOLEAN]
  BY <1>3 DEF ConfigureCycle, MembershipRows, staffVars
<1> QED BY <1>1, <1>2, <1>3

LEMMA MembershipStepType ==
    ASSUME TypeOK, MembershipRows, MembershipStep PROVE TypeOK'
<1>0. AppTypes /\ OfferTypes /\ StaffTypes /\ RestTypes
  BY TypeParts
<1>1. AppTypes'
  BY <1>0, MembershipFrame, ExitCascadeType, UnchangedParts
<1>2. OfferTypes'
  BY <1>0, MembershipFrame, UnchangedParts
<1>3. StaffTypes'
  BY <1>0, MembershipFrame, MembershipMoves DEF StaffTypes
<1>4. RestTypes'
  <2>1. UNCHANGED forced
    BY MembershipFrame
  <2> QED BY <1>0, <2>1, MembershipFrame, InterveneType, UnchangedParts DEF RestTypes
<1> QED BY <1>1, <1>2, <1>3, <1>4, NextTypeParts

LEMMA ExternalRowsKept ==
    ASSUME MembershipRows, member \in [Cycles -> BOOLEAN], ExternalStep
    PROVE  MembershipRows'
<1>1. ASSUME NEW c \in Cycles, NEW rows, NEW beyond, AttachExternalOffers(c, rows, beyond)
      PROVE  MembershipRows'
  <2>1. membership' = [membership EXCEPT ![c] = IF membership[c] = "none" THEN "active" ELSE @]
        /\ UNCHANGED cycles
    BY <1>1 DEF AttachExternalOffers, OnlyBooks
  <2> QED BY <2>1 DEF MembershipRows, MembershipStatuses
<1>2. CASE SameMembership
  BY <1>2, ExternalFrame DEF SameMembership, MembershipRows
<1> QED BY <1>1, <1>2, AttachesOrNot

\* Every row and flag stays well formed, and the flag the portal reads says
\* whether the membership is active.
ExternalTypes == TypeOK /\ MembershipRows

LEMMA ExternalInit == MembershipInit => ExternalTypes /\ BooksInv
<1> SUFFICES ASSUME MembershipInit PROVE ExternalTypes /\ BooksInv
  OBVIOUS
<1>1. TypeOK /\ BooksInv
  <2>1. InitWith([c \in Cycles |-> FALSE]) /\ [c \in Cycles |-> FALSE] \in [Cycles -> BOOLEAN]
    BY DEF MembershipInit
  <2> QED BY <2>1, InitType, BooksInit
<1>2. MembershipRows
  BY MembershipAssumption, ConstantsAssumption
     DEF MembershipInit, MembershipRows, MembershipStatuses, CycleConfig
<1> QED BY <1>1, <1>2 DEF ExternalTypes

LEMMA ExternalTypesKept ==
    ExternalTypes /\ [ExternalNext]_<<vars, memberVars>> => ExternalTypes'
<1> SUFFICES ASSUME ExternalTypes, [ExternalNext]_<<vars, memberVars>> PROVE ExternalTypes'
  OBVIOUS
<1>0. TypeOK /\ MembershipRows /\ member \in [Cycles -> BOOLEAN]
  BY DEF ExternalTypes, TypeOK
<1>1. CASE PortalStep \/ UNCHANGED <<vars, memberVars>>
  <2>1. [Next]_vars /\ UNCHANGED memberVars
    BY <1>1, PortalIsNext
  <2>2. TypeOK'
    BY <1>0, <2>1, TypeStep
  <2> QED BY <1>0, <2>1, <2>2 DEF ExternalTypes, MembershipRows, memberVars
<1>2. CASE MembershipStep
  BY <1>0, <1>2, MembershipStepType, MembershipMoves DEF ExternalTypes
<1>3. CASE ExternalStep
  BY <1>0, <1>3, ExternalStepType, ExternalRowsKept DEF ExternalTypes
<1> QED BY <1>1, <1>2, <1>3 DEF ExternalNext

\* What the books promise, with the commands of staff about memberships and
\* external offers running beside the portal's.
LEMMA AllBooks ==
    ASSUME TypeOK, [ExternalNext]_<<vars, memberVars>>, NEW b \in Apps
    PROVE  BookStep(b)
<1>1. CASE PortalStep \/ UNCHANGED <<vars, memberVars>>
  <2>1. [Next]_vars
    BY <1>1, PortalIsNext
  <2> QED BY <2>1, BookSteps
<1>2. CASE MembershipStep
  <2>1. UNCHANGED <<offers, offerCount>>
    BY <1>2, MembershipFrame DEF offerVars
  <2>2. CASE UNCHANGED appVars
    BY <2>1, <2>2, PlainBooks DEF appVars
  <2>3. ASSUME NEW c \in Cycles, ExitCascade(c)
        PROVE  BookStep(b)
    <3>1. status'[b] = IF CycleOfApp(b) = c THEN ExitStatus(status[b]) ELSE status[b]
      BY <2>3 DEF ExitCascade, Record
    <3>2. status'[b] = status[b] \/ {status[b], status'[b]} \subseteq Plain
      BY <3>1 DEF ExitStatus, EXIT_CASCADE_STATUSES, Plain
    <3> QED BY <2>1, <3>2, PlainBooks
  <2> QED BY <1>2, <2>2, <2>3, MembershipFrame
<1>3. CASE ExternalStep
  BY <1>3, ExternalBooks
<1> QED BY <1>1, <1>2, <1>3 DEF ExternalNext

LEMMA AllForcedStays ==
    ASSUME [ExternalNext]_<<vars, memberVars>> PROVE forced \subseteq forced'
<1>1. CASE PortalStep \/ UNCHANGED <<vars, memberVars>>
  <2>1. [Next]_vars
    BY <1>1, PortalIsNext
  <2> QED BY <2>1, ForcedStays
<1> QED BY <1>1, MembershipFrame, ExternalFrame DEF ExternalNext

LEMMA AllBooksKept ==
    ExternalTypes /\ BooksInv /\ [ExternalNext]_<<vars, memberVars>> => BooksInv'
<1> SUFFICES ASSUME TypeOK, BooksInv, [ExternalNext]_<<vars, memberVars>> PROVE BooksInv'
  BY DEF ExternalTypes
<1>1. \A a \in Apps : Unwritten(a)'
  BY AllBooks, UnwrittenKept DEF BooksInv
<1>2. \A a \in Ruled' : Booked(a)'
  BY AllBooks, BookedKept, AllForcedStays DEF BooksInv, Ruled
<1> QED BY <1>1, <1>2 DEF BooksInv

-----------------------------------------------------------------------------
(* One counted application per job, beside external offers.                *)

\* What a plan brings back was withdrawn, has no other application beside it,
\* and is the only pick of its job.
LEMMA PostingCounts ==
    ASSUME TypeOK, NEW out, NEW picked, NEW d, NEW in, NEW swept, NEW credit,
           Posting(out, picked, d, in, swept, credit),
           NEW b \in Apps, Counted(b)', ~Counted(b)
    PROVE  ~DuplicateExists(b) /\ b \in PickedApps(picked)
<1>w. Warranted(out, picked, d, in, swept, credit)
  BY DEF Posting
<1>p. Restorable(out, picked, d)
  BY <1>w DEF Warranted
<1>1. status'[b] = PostedStatus(out, picked, in, swept, b)
  BY PostedFacts
<1>2. status[b] \in FreedStatuses /\ status'[b] \notin FreedStatuses
  BY DEF Counted
<1>3. b \notin swept /\ ~(IsPortal(in) /\ b = in[1]) /\ ~(IsPortal(out) /\ b = out[1])
  BY <1>w, <1>2 DEF Warranted, Answerable, LiveStatuses, FreedStatuses
<1>4. b \in PickedApps(picked)
  BY <1>1, <1>2, <1>3 DEF PostedStatus
<1>5. b \notin Renewed(picked)
  BY <1>p, <1>2, PickedFacts DEF FreedStatuses
<1> QED BY <1>p, <1>4, <1>5, PickedFacts

LEMMA PostingSole ==
    ASSUME TypeOK, BooksInv, SoleInv, NEW out, NEW picked, NEW d, NEW in, NEW swept, NEW credit,
           Posting(out, picked, d, in, swept, credit)
    PROVE  SoleInv'
<1>w. Warranted(out, picked, d, in, swept, credit)
  BY DEF Posting
<1>p. Restorable(out, picked, d)
  BY <1>w DEF Warranted
<1>0. \A e \in caused : e.app \in Apps
  BY DEF TypeOK
<1>1. \A b, c \in Apps : Counted(b) /\ Counted(c) /\ JobOf[b] = JobOf[c] => b = c
  BY DEF SoleInv, OneActivePerJob, DuplicateExists, Counted
<1>2. ASSUME NEW b \in Apps, NEW c \in Apps, ~DuplicateExists(b), Counted(c), JobOf[b] = JobOf[c]
      PROVE  b = c
  BY <1>2 DEF DuplicateExists, Counted
<1>3. ASSUME NEW b \in Apps, NEW c \in Apps, Counted(b)', Counted(c)', JobOf[b] = JobOf[c]
      PROVE  b = c
  <2>1. CASE Counted(b) /\ Counted(c)
    BY <1>1, <1>3, <2>1
  <2>2. CASE Counted(b) /\ ~Counted(c)
    BY <1>2, <1>3, <2>2, PostingCounts
  <2>3. CASE ~Counted(b) /\ Counted(c)
    BY <1>2, <1>3, <2>3, PostingCounts
  <2>4. CASE ~Counted(b) /\ ~Counted(c)
    <3>1. b \in PickedApps(picked) /\ c \in PickedApps(picked)
      BY <1>3, <2>4, PostingCounts
    <3>2. PICK e \in picked, f \in picked : e.app = b /\ f.app = c
      BY <3>1 DEF PickedApps
    <3> QED BY <1>3, <1>p, <3>2 DEF Restorable, FitTheIndex
  <2> QED BY <2>1, <2>2, <2>3, <2>4
<1>4. OneActivePerJob'
  BY <1>3 DEF OneActivePerJob, DuplicateExists, Counted
<1>5. caused' \subseteq caused \cup SweptCauses(status, in, swept)
  BY DEF Posting, Posted, Record
<1>6. \A e \in SweptCauses(status, in, swept) :
         e.offer = in /\ e.app \in Apps /\ Counted(e.app)
  BY <1>w DEF SweptCauses, Warranted, Counted, LiveStatuses, FreedStatuses
<1>7. in \in OfferIds => ~Settled(in) /\ offers'[in].response = "accepted"
  <2> SUFFICES ASSUME in \in OfferIds
               PROVE  ~Settled(in) /\ offers'[in].response = "accepted"
    OBVIOUS
  <2>1. in = CurrentId(in[1]) /\ Answerable(in[1])
    BY <1>w DEF Warranted, IsPortal
  <2>2. offers'[in] = [offers[in] EXCEPT !.response = "accepted", !.waived = credit]
    <3>1. offers'[in] = PostedRow(out, picked, d, in, swept, credit, in)
      BY PostedFacts
    <3> QED BY <3>1, Zenon DEF PostedRow
  <2>3. offers[in] \in OfferRow
    BY DEF TypeOK
  <2>4. ~Settled(in)
    BY <2>1 DEF Answerable, Unanswered, CurrentRow, Settled
  <2> QED BY <2>2, <2>3, <2>4 DEF OfferRow
<1>8. SoleSweep'
  <2> SUFFICES ASSUME NEW e \in caused', NEW f \in caused', e.offer = f.offer,
                      e.offer \in OfferIds, JobOf[e.app] = JobOf[f.app]
               PROVE  e.app = f.app
    BY DEF SoleSweep
  <2>1. CASE e \in caused /\ f \in caused
    BY <2>1 DEF SoleInv, SoleSweep
  <2>2. CASE e \notin caused \/ f \notin caused
    <3>1. e.offer = in /\ f.offer = in
      BY <1>5, <1>6, <2>2
    <3>2. e \notin caused /\ f \notin caused
      BY <1>7, <3>1 DEF SoleInv, SweptBySettled
    <3> QED BY <1>1, <1>5, <1>6, <3>2
  <2> QED BY <2>1, <2>2
<1>9. SweptBySettled'
  <2> SUFFICES ASSUME NEW e \in caused', e.offer \in OfferIds PROVE Settled(e.offer)'
    BY DEF SweptBySettled, Settled
  <2>1. CASE e \in caused
    BY <2>1, PostingBooks, SettledStays DEF SoleInv, SweptBySettled
  <2>2. CASE e \notin caused
    <3>1. e.offer = in
      BY <1>5, <1>6, <2>2
    <3> QED BY <1>7, <3>1 DEF Settled
  <2> QED BY <2>1, <2>2
<1> QED BY <1>4, <1>8, <1>9 DEF SoleInv

LEMMA AllSoleKept ==
    ExternalTypes /\ ExternalTypes' /\ BooksInv /\ SoleInv /\ [ExternalNext]_<<vars, memberVars>>
        => SoleInv'
<1> SUFFICES ASSUME TypeOK, TypeOK', BooksInv, SoleInv, [ExternalNext]_<<vars, memberVars>>
             PROVE  SoleInv'
  BY DEF ExternalTypes
<1>1. CASE PortalStep \/ UNCHANGED <<vars, memberVars>>
  <2>1. [Next]_vars
    BY <1>1, PortalIsNext
  <2> QED BY <2>1, SoleSteps, BookSteps, SoleKept
<1>2. CASE MembershipStep
  <2>1. SoleStep
    BY <1>2, MembershipFrame, SameAppsSole, ExitSole
  <2> QED BY <2>1, AllBooks, SoleKept
<1>3. CASE ExternalStep
  <2>1. CASE Aside
    <3>1. UNCHANGED <<status, caused>>
      BY <2>1 DEF Aside
    <3>2. SoleStep
      BY <3>1 DEF SoleStep, KeepStep, Counted
    <3> QED BY <3>2, AllBooks, SoleKept
  <2> QED BY <1>3, <2>1, ExternalKinds, PostingSole
<1> QED BY <1>1, <1>2, <1>3 DEF ExternalNext

-----------------------------------------------------------------------------
(* The cap of a cycle, counted on both sides.                              *)

\* What a cycle has given out, portal and external, credited or not.
UsedOf(c) ==
    {o \in AcceptedIds : CycleOfApp(o[1]) = c} \cup {x \in AcceptedExternal : external[x].cycle = c}

LEMMA UsedFacts ==
    ASSUME TypeOK, NEW c \in Cycles
    PROVE  /\ IsFiniteSet(UsedOf(c)) /\ Cardinality(UsedOf(c)) = CapUsed(c) /\ CapUsed(c) \in Nat
           /\ UncreditedIn(c) \subseteq UsedOf(c)
           /\ IsFiniteSet(AcceptedExternal)
<1> DEFINE portal == {o \in AcceptedIds : CycleOfApp(o[1]) = c}
           outside == {x \in AcceptedExternal : external[x].cycle = c}
<1>1. IsFiniteSet(OfferIds) /\ IsFiniteSet(ExternalIds)
  BY OfferIdsFinite, ConstantsAssumption
<1>2. IsFiniteSet(portal) /\ IsFiniteSet(outside) /\ IsFiniteSet(AcceptedExternal)
  BY <1>1, FS_Subset DEF AcceptedIds, AcceptedExternal
<1>3. portal \cap outside = {}
  BY ConstantsAssumption DEF AcceptedIds, AcceptedExternal, OfferIds, Slots
<1>4. CapUsed(c) = Cardinality(portal) + Cardinality(outside) /\ UsedOf(c) = portal \cup outside
  BY DEF CapUsed, UsedOf
<1> HIDE DEF portal, outside
<1>5. Cardinality(portal \cap outside) = 0
  BY <1>3, FS_EmptySet
<1>6. Cardinality(portal) \in Nat /\ Cardinality(outside) \in Nat
  BY <1>2, FS_CardinalityType
<1>7. /\ IsFiniteSet(portal \cup outside)
      /\ Cardinality(portal \cup outside)
           = Cardinality(portal) + Cardinality(outside) - Cardinality(portal \cap outside)
  BY <1>2, FS_Union
<1>8. UncreditedIn(c) \subseteq UsedOf(c)
  BY DEF UncreditedIn, UsedOf
<1> QED BY <1>2, <1>4, <1>5, <1>6, <1>7, <1>8

\* A cap holds through a step that adds nothing to what counts against it, or
\* no more than what it kept leaves room for.
CapStep(c) ==
    \/ UncreditedIn(c)' \subseteq UncreditedIn(c)
    \/ \E kept \in SUBSET UsedOf(c) : \E new :
          /\ IsFiniteSet(new) /\ UncreditedIn(c)' \subseteq kept \cup new
          /\ Cardinality(kept) + Cardinality(new) <= Cap[c]

LEMMA CapStepKeeps ==
    ASSUME TypeOK, NEW c \in Cycles, CapStep(c), Cardinality(UncreditedIn(c)) <= Cap[c]
    PROVE  Cardinality(UncreditedIn(c)') <= Cap[c]
<1>0. Cap[c] \in Nat /\ IsFiniteSet(UsedOf(c)) /\ IsFiniteSet(UncreditedIn(c))
  BY ConstantsAssumption, UsedFacts, FS_Subset
<1>1. ASSUME NEW S, IsFiniteSet(S), UncreditedIn(c)' \subseteq S, Cardinality(S) <= Cap[c]
      PROVE  Cardinality(UncreditedIn(c)') <= Cap[c]
  <2> DEFINE T == UncreditedIn(c)'
  <2>1. T \in SUBSET S
    BY <1>1
  <2> HIDE DEF T
  <2>2. IsFiniteSet(T) /\ Cardinality(T) <= Cardinality(S)
    BY <1>1, <2>1, FS_Subset
  <2>3. Cardinality(T) \in Nat /\ Cardinality(S) \in Nat
    BY <1>1, <2>2, FS_CardinalityType
  <2>4. Cardinality(T) <= Cap[c]
    BY <1>0, <1>1, <2>2, <2>3
  <2> QED BY <2>4 DEF T
<1>2. CASE UncreditedIn(c)' \subseteq UncreditedIn(c)
  BY <1>0, <1>1, <1>2
<1>3. ASSUME NEW kept \in SUBSET UsedOf(c), NEW new, IsFiniteSet(new),
             UncreditedIn(c)' \subseteq kept \cup new,
             Cardinality(kept) + Cardinality(new) <= Cap[c]
      PROVE  Cardinality(UncreditedIn(c)') <= Cap[c]
  <2>1. IsFiniteSet(kept)
    BY <1>0, FS_Subset
  <2>2. /\ IsFiniteSet(kept \cup new) /\ IsFiniteSet(kept \cap new)
        /\ Cardinality(kept \cup new)
             = Cardinality(kept) + Cardinality(new) - Cardinality(kept \cap new)
    BY <1>3, <2>1, FS_Union, FS_Subset
  <2>3. /\ Cardinality(kept) \in Nat /\ Cardinality(new) \in Nat
        /\ Cardinality(kept \cap new) \in Nat /\ Cardinality(kept \cup new) \in Nat
    BY <1>3, <2>1, <2>2, FS_CardinalityType
  <2>4. Cardinality(kept \cup new) <= Cap[c]
    BY <1>0, <1>3, <2>2, <2>3
  <2> QED BY <1>1, <1>3, <2>2, <2>4
<1> QED BY <1>2, <1>3 DEF CapStep

\* One more where there is room for it.
LEMMA OneMore ==
    ASSUME TypeOK, NEW c \in Cycles, CapUsed(c) < Cap[c], NEW h,
           UncreditedIn(c)' \subseteq UsedOf(c) \cup {h}
    PROVE  CapStep(c)
<1>1. IsFiniteSet({h}) /\ Cardinality({h}) = 1 /\ Cap[c] \in Nat
  BY FS_Singleton, ConstantsAssumption
<1>2. Cardinality(UsedOf(c)) + Cardinality({h}) <= Cap[c]
  BY <1>1, UsedFacts
<1> QED BY <1>1, <1>2 DEF CapStep

\* One for another.
LEMMA OneForAnother ==
    ASSUME TypeOK, NEW c \in Cycles, CapUsed(c) - 1 < Cap[c], NEW h, NEW out \in UsedOf(c),
           UncreditedIn(c)' \subseteq (UsedOf(c) \ {out}) \cup {h}
    PROVE  CapStep(c)
<1> DEFINE kept == UsedOf(c) \ {out}
<1>1. IsFiniteSet({h}) /\ Cardinality({h}) = 1 /\ Cap[c] \in Nat
  BY FS_Singleton, ConstantsAssumption
<1>2. IsFiniteSet(kept) /\ Cardinality(kept) = CapUsed(c) - 1 /\ CapUsed(c) \in Nat
  BY UsedFacts, FS_RemoveElement
<1>3. kept \in SUBSET UsedOf(c) /\ UncreditedIn(c)' \subseteq kept \cup {h}
  OBVIOUS
<1> HIDE DEF kept
<1>4. Cardinality(kept) + Cardinality({h}) <= Cap[c]
  BY <1>1, <1>2
<1> QED BY <1>1, <1>3, <1>4 DEF CapStep

\* The commands of the portal.
LEMMA PortalCap ==
    ASSUME TypeOK, [Next]_vars, NEW c \in Cycles, Cap[c] # 0
    PROVE  CapStep(c)
<1>1. external' = external
  BY ExternalStays
<1>2. CASE QuietStep
  BY <1>1, <1>2 DEF QuietStep, CapStep, UncreditedIn, AcceptedIds, AcceptedExternal, CycleOfApp
<1>3. ASSUME NEW a, NEW o, AcceptanceStep(a, o)
      PROVE  CapStep(c)
  <2>1. UncreditedIn(c)' \subseteq UncreditedIn(c) \cup {o}
    BY <1>1, <1>3 DEF AcceptanceStep, UncreditedIn, AcceptedIds, AcceptedExternal, CycleOfApp
  <2>2. CASE o \notin UncreditedIn(c)'
    BY <2>1, <2>2 DEF CapStep
  <2>3. CASE o \in UncreditedIn(c)'
    <3>1. o \notin ExternalIds
      BY <1>3, ConstantsAssumption DEF AcceptanceStep, OfferIds, Slots
    <3>2. CycleOfApp(a) = c /\ "offer_cap" \notin ConstraintsCredit(a, "accept")
      BY <1>3, <2>3, <3>1 DEF AcceptanceStep, UncreditedIn, AcceptedExternal, CycleOfApp
    <3>3. ~CapFails(a)
      BY <1>3, <3>2 DEF AcceptanceStep, ConstraintsBlock, ConstraintsCredit, GateBlocks, Credited
    <3>4. CapUsed(c) < Cap[c]
      BY <3>2, <3>3, UsedFacts, ConstantsAssumption DEF CapFails
    <3> QED BY <2>1, <3>4, OneMore, UsedFacts
  <2> QED BY <2>2, <2>3
<1> QED BY <1>2, <1>3, StepKinds

\* A plan accepts one row at most, and none it ends.
LEMMA PostingAccepts ==
    ASSUME TypeOK, NEW out, NEW picked, NEW d, NEW in, NEW swept, NEW credit,
           Posting(out, picked, d, in, swept, credit)
    PROVE  /\ \A p \in OfferIds : Accepted(offers'[p]) =>
                 p = in \/ (p # out /\ offers'[p] = offers[p])
           /\ in \in OfferIds => offers'[in].waived = credit
<1>0. \A p \in OfferIds : offers[p] \in OfferRow
  BY DEF TypeOK
<1>1. ASSUME NEW p \in OfferIds, Accepted(offers'[p]), p # in
      PROVE  p # out /\ offers'[p] = offers[p]
  <2>1. offers'[p] = PostedRow(out, picked, d, in, swept, credit, p)
    BY PostedFacts
  <2>2. \/ offers'[p] = [offers[p] EXCEPT !.response = "declined"]
        \/ offers'[p] = FreshRow(d[p[1]])
        \/ offers'[p] = [offers[p] EXCEPT !.terminated = TRUE]
        \/ p # out /\ offers'[p] = offers[p]
    BY <1>1, <2>1 DEF PostedRow
  <2>3. ~Accepted([offers[p] EXCEPT !.response = "declined"])
    BY <1>0 DEF Accepted, OfferRow
  <2>4. ~Accepted([offers[p] EXCEPT !.terminated = TRUE])
    BY <1>0 DEF Accepted, OfferRow
  <2>5. ~Accepted(FreshRow(d[p[1]]))
    BY DEF Accepted, FreshRow
  <2> QED BY <1>1, <2>2, <2>3, <2>4, <2>5
<1>2. ASSUME in \in OfferIds
      PROVE  offers'[in].waived = credit
  <2>1. offers'[in] = PostedRow(out, picked, d, in, swept, credit, in)
    BY <1>2, PostedFacts
  <2> DEFINE row == offers[in]
             after == [row EXCEPT !.response = "accepted", !.waived = credit]
  <2>2. offers'[in] = after
    BY <2>1, Zenon DEF PostedRow
  <2>3. row \in OfferRow
    BY <1>0, <1>2
  <2> HIDE DEF row
  <2>4. after.waived = credit
    BY <2>3 DEF OfferRow
  <2> HIDE DEF after
  <2> QED BY <2>2, <2>4
<1> QED BY <1>1, <1>2

\* What counts against a cap is a portal offer or an external one.
LEMMA UncreditedKinds ==
    ASSUME NEW c, NEW h
    PROVE  /\ h \in UncreditedIn(c) <=>
                 \/ /\ h \in OfferIds /\ Accepted(offers[h]) /\ CycleOfApp(h[1]) = c
                    /\ "offer_cap" \notin offers[h].waived
                 \/ /\ h \in ExternalIds /\ external[h].status = "accepted"
                    /\ external[h].cycle = c /\ "offer_cap" \notin external[h].waived
           /\ h \in UncreditedIn(c)' <=>
                 \/ /\ h \in OfferIds /\ Accepted(offers'[h]) /\ CycleOfApp(h[1]) = c
                    /\ "offer_cap" \notin offers'[h].waived
                 \/ /\ h \in ExternalIds /\ external'[h].status = "accepted"
                    /\ external'[h].cycle = c /\ "offer_cap" \notin external'[h].waived
BY DEF UncreditedIn, AcceptedIds, AcceptedExternal, CycleOfApp

\* Where no portal row is taken up, what is new counts as an external offer.
LEMMA OnlyExternalNew ==
    ASSUME TypeOK, NEW out, NEW picked, NEW d, NEW in \in ExternalIds, NEW swept, NEW credit,
           Posting(out, picked, d, in, swept, credit), NEW c, NEW h \in UncreditedIn(c)'
    PROVE  \/ h \in UncreditedIn(c) /\ h # out
           \/ /\ h \in ExternalIds /\ external'[h].status = "accepted"
              /\ external'[h].cycle = c /\ "offer_cap" \notin external'[h].waived
<1>1. in \notin OfferIds
  BY ExternalIsNotPortal
<1> QED BY <1>1, UncreditedKinds, PostingAccepts

LEMMA CreateCap ==
    ASSUME TypeOK, NEW x \in ExternalIds, NEW outcome, NEW st,
           CreateExternalOffer(x, outcome, st), NEW c \in Cycles
    PROVE  CapStep(c)
<1>1. ASSUME NEW h \in UncreditedIn(c)'
      PROVE  h \in UncreditedIn(c)
  <2>1. \A y \in ExternalIds : external'[y] = external[y] \/ external'[y].cycle = Unattached
    BY DEF CreateExternalOffer, TypeOK
  <2>2. Unattached # c
    BY ConstantsAssumption DEF Unattached
  <2> QED BY <1>1, <2>1, <2>2, OnlyExternalNew, CreatePosts, UncreditedKinds
<1> QED BY <1>1 DEF CapStep

LEMMA UnacceptCap ==
    ASSUME TypeOK, NEW x \in ExternalIds, NEW picked, NEW d \in DeadlineChoices(picked),
           NEW st \in {"offered", "declined"},
           DeleteExternalOffer(x, picked, d) \/ UnacceptExternalOffer(x, st, picked, d),
           NEW c \in Cycles
    PROVE  CapStep(c)
<1>1. ASSUME NEW h \in UncreditedIn(c)'
      PROVE  h \in UncreditedIn(c)
  <2>1. \A y \in ExternalIds \ {x} : external'[y] = external[y]
    BY DEF DeleteExternalOffer, UnacceptExternalOffer, TypeOK
  <2>2. external'[x].status # "accepted"
    BY DEF DeleteExternalOffer, UnacceptExternalOffer, TypeOK, NoExternal, ExternalRow
  <2> QED BY <1>1, <2>1, <2>2, OnlyExternalNew, UnacceptPosts, UncreditedKinds
<1> QED BY <1>1 DEF CapStep

LEMMA AcceptCap ==
    ASSUME TypeOK, NEW x \in ExternalIds, AcceptExternalOffer(x), NEW c \in Cycles, Cap[c] # 0
    PROVE  CapStep(c)
<1> DEFINE credit == RecordingCredit(x, external[x].outcome)
<1>1. /\ \A y \in ExternalIds \ {x} : external'[y] = external[y]
      /\ external'[x].cycle = external[x].cycle /\ external'[x].waived = credit
  <2>1. external' = [external EXCEPT ![x].status = "accepted", ![x].waived = credit]
    BY DEF AcceptExternalOffer
  <2> HIDE DEF credit
  <2> QED BY <2>1 DEF TypeOK, ExternalRow
<1>2. ASSUME NEW h \in UncreditedIn(c)'
      PROVE  h \in UncreditedIn(c) \/ h = x
  BY <1>1, <1>2, OnlyExternalNew, AcceptPosts, UncreditedKinds
<1>3. CASE x \notin UncreditedIn(c)'
  BY <1>2, <1>3 DEF CapStep
<1>4. CASE x \in UncreditedIn(c)'
  <2>1. external[x].cycle = c /\ "offer_cap" \notin credit
    BY <1>1, <1>4, UncreditedKinds, ExternalIsNotPortal
  <2>2. c # Unattached
    BY ConstantsAssumption DEF Unattached
  <2>3. ~CapFull(c, UsedIn(c))
    BY <2>1, <2>2 DEF AcceptExternalOffer, RecordingBlocked, RecordingCredit, GateBlocks, Credited
  <2>4. CapUsed(c) < Cap[c]
    BY <2>2, <2>3, UsedFacts, ConstantsAssumption DEF CapFull, UsedIn
  <2>5. UncreditedIn(c)' \subseteq UsedOf(c) \cup {x}
    BY <1>2, UsedFacts
  <2> QED BY <2>4, <2>5, OneMore
<1> QED BY <1>3, <1>4

LEMMA EditDetachCap ==
    ASSUME TypeOK, NEW x \in ExternalIds, NEW outcome, NEW st \in {"offered", "accepted", "declined"},
           EditExternalOffer(x, outcome, st) \/ DetachExternalOffer(x), NEW c \in Cycles
    PROVE  CapStep(c)
<1>1. UNCHANGED offers
  BY DEF EditExternalOffer, DetachExternalOffer, offerVars
<1>2. \A y \in ExternalIds \ {x} : external'[y] = external[y]
  BY DEF EditExternalOffer, DetachExternalOffer, TypeOK
<1>3. external'[x].status # "accepted" \/ external'[x].cycle = Unattached
  BY DEF EditExternalOffer, DetachExternalOffer, TypeOK, ExternalRow
<1>4. Unattached # c
  BY ConstantsAssumption DEF Unattached
<1>5. ASSUME NEW h \in UncreditedIn(c)'
      PROVE  h \in UncreditedIn(c)
  BY <1>1, <1>2, <1>3, <1>4, <1>5, UncreditedKinds
<1> QED BY <1>5 DEF CapStep

LEMMA AttachCap ==
    ASSUME TypeOK, NEW e \in Cycles, NEW rows \in SUBSET ExternalIds, NEW beyond,
           AttachExternalOffers(e, rows, beyond), NEW c \in Cycles, Cap[c] # 0
    PROVE  CapStep(c)
<1> DEFINE accepted == rows \cap AcceptedExternal
           new == accepted \ beyond
<1>1. UNCHANGED offers
  BY DEF AttachExternalOffers, offerVars
<1>2. \A y \in ExternalIds : external'[y] =
         IF y \notin rows THEN external[y]
         ELSE [external[y] EXCEPT !.cycle = e,
                  !.waived = @ \cup (IF y \in beyond THEN {"offer_cap"} ELSE {})]
  BY DEF AttachExternalOffers
<1>3. ASSUME NEW y \in rows
      PROVE  /\ external'[y].status = external[y].status /\ external'[y].cycle = e
             /\ y \in beyond => "offer_cap" \in external'[y].waived
  <2> DEFINE row == external[y]
             more == row.waived \cup (IF y \in beyond THEN {"offer_cap"} ELSE {})
             after == [row EXCEPT !.cycle = e, !.waived = more]
  <2>1. external'[y] = after
    BY <1>2
  <2>2. row \in ExternalRow
    BY DEF TypeOK
  <2>3. y \in beyond => "offer_cap" \in more
    OBVIOUS
  <2> HIDE DEF row, more
  <2>4. after.status = row.status /\ after.cycle = e /\ after.waived = more
    BY <2>2 DEF ExternalRow
  <2> HIDE DEF after
  <2> QED BY <2>1, <2>3, <2>4 DEF row
<1>4. ASSUME NEW h \in UncreditedIn(c)'
      PROVE  h \in UncreditedIn(c) \/ (c = e /\ h \in new)
  BY <1>1, <1>2, <1>3, <1>4, UncreditedKinds DEF AcceptedExternal
<1>5. CASE c # e \/ new = {}
  BY <1>4, <1>5 DEF CapStep
<1>6. CASE c = e /\ new # {}
  <2>1. IsFiniteSet(accepted) /\ IsFiniteSet(new) /\ Cardinality(new) \in Nat
    <3>1. IsFiniteSet(AcceptedExternal)
      BY UsedFacts
    <3> QED BY <3>1, FS_Subset, FS_CardinalityType
  <2>2. Cardinality(new) # 0
    BY <1>6, <2>1, FS_EmptySet
  <2>3. Cardinality(new) <= IF UsedIn(c) >= Cap[c] THEN 0 ELSE Cap[c] - UsedIn(c)
    <3>1. Attachable(c, rows, beyond)
      BY <1>6 DEF AttachExternalOffers
    <3>2. beyond = {} => new = accepted
      OBVIOUS
    <3>3. beyond # {} => Cardinality(new) = IF UsedIn(c) >= Cap[c] THEN 0 ELSE Cap[c] - UsedIn(c)
      BY <3>1 DEF Attachable
    <3>4. beyond = {} =>
             Cardinality(accepted) <= IF UsedIn(c) >= Cap[c] THEN 0 ELSE Cap[c] - UsedIn(c)
      BY <3>1 DEF Attachable
    <3> HIDE DEF new, accepted
    <3>5. UsedIn(c) \in Nat /\ Cap[c] \in Nat
      BY UsedFacts, ConstantsAssumption DEF UsedIn, Unattached
    <3> QED BY <2>1, <3>2, <3>3, <3>4, <3>5
  <2>4. UsedIn(c) = Cardinality(UsedOf(c)) /\ Cardinality(UsedOf(c)) \in Nat /\ Cap[c] \in Nat
    BY UsedFacts, ConstantsAssumption DEF UsedIn, Unattached
  <2>5. UncreditedIn(c)' \subseteq UsedOf(c) \cup new
    BY <1>4, UsedFacts
  <2> HIDE DEF new
  <2>6. Cardinality(UsedOf(c)) + Cardinality(new) <= Cap[c]
    BY <2>1, <2>2, <2>3, <2>4
  <2> QED BY <2>1, <2>5, <2>6 DEF CapStep
<1> QED BY <1>5, <1>6

\* What a replacement takes back is held.
LEMMA OutgoingIsUsed ==
    ASSUME TypeOK, BooksInv, forced = {}, NEW out \in AcceptanceIds, HoldsPlacement(out)
    PROVE  /\ out \in OfferIds => Accepted(offers[out])
           /\ out \in UsedOf(HolderCycle(out))
<1>1. CASE out \in OfferIds
  <2>1. /\ out = CurrentId(out[1]) /\ status[out[1]] = "accepted" /\ out[1] \in Apps
    BY <1>1 DEF HoldsPlacement, IsPortal, OfferIds
  <2>2. Booked(out[1])
    BY <2>1 DEF BooksInv, Ruled
  <2>3. Accepted(offers[out])
    BY <2>1, <2>2 DEF Booked, RowAgrees, CurrentRow
  <2> QED BY <1>1, <2>3 DEF UsedOf, AcceptedIds, HolderCycle, IsPortal
<1>2. CASE out \notin OfferIds
  BY <1>2 DEF HoldsPlacement, IsPortal, UsedOf, AcceptedExternal, HolderCycle, AcceptanceIds
<1> QED BY <1>1, <1>2

LEMMA ReplaceExternals ==
    ASSUME TypeOK, NEW out, NEW in, NEW picked, NEW d, ReplacePlacement(out, in, picked, d),
           NEW y \in ExternalIds
    PROVE  /\ y \notin {out, in} => external'[y] = external[y]
           /\ y = out => external'[y].status = "declined"
           /\ y = in => /\ external'[y].cycle = external[y].cycle
                        /\ external'[y].waived = CreditFor(out, in)
                        /\ external'[y].outcome = external[y].outcome
           /\ out # in
<1> DEFINE credit == CreditFor(out, in)
<1>1. out # in
  BY DEF ReplacePlacement
<1>2. external' = [x \in ExternalIds |->
               IF x = out THEN [external[x] EXCEPT !.status = "declined", !.waived = {}]
               ELSE IF x = in THEN [external[x] EXCEPT !.status = "accepted", !.waived = credit]
               ELSE external[x]]
  BY DEF ReplacePlacement, CreditFor
<1> HIDE DEF credit
<1>3. external[y] \in ExternalRow
  BY DEF TypeOK
<1>4. y \notin {out, in} => external'[y] = external[y]
  BY <1>2
<1>5. y = out => external'[y].status = "declined"
  BY <1>2, <1>3 DEF ExternalRow
<1>6. y = in => /\ external'[y].cycle = external[y].cycle /\ external'[y].waived = credit
                /\ external'[y].outcome = external[y].outcome
  BY <1>1, <1>2, <1>3 DEF ExternalRow
<1> QED BY <1>1, <1>4, <1>5, <1>6 DEF credit

LEMMA ReplaceCap ==
    ASSUME TypeOK, BooksInv, forced = {}, NEW out \in AcceptanceIds, NEW in \in AcceptanceIds,
           NEW picked, NEW d \in DeadlineChoices(picked), ReplacePlacement(out, in, picked, d),
           NEW c \in Cycles, Cap[c] # 0
    PROVE  CapStep(c)
<1>1. Posting(out, picked, d, in, SweptFor(out, in, picked), CreditFor(out, in))
  BY ReplacementPosts
<1>2. ASSUME NEW h \in UncreditedIn(c)', h # in
      PROVE  h \in UncreditedIn(c) /\ h # out
  <2>1. CASE h \in OfferIds /\ Accepted(offers'[h]) /\ CycleOfApp(h[1]) = c
             /\ "offer_cap" \notin offers'[h].waived
    BY <1>1, <1>2, <2>1, PostingAccepts, UncreditedKinds
  <2>2. CASE h \in ExternalIds /\ external'[h].status = "accepted"
             /\ external'[h].cycle = c /\ "offer_cap" \notin external'[h].waived
    BY <1>2, <2>2, ReplaceExternals, UncreditedKinds
  <2> QED BY <2>1, <2>2, UncreditedKinds
<1>3. CASE in \notin UncreditedIn(c)'
  BY <1>2, <1>3 DEF CapStep
<1>4. CASE in \in UncreditedIn(c)'
  <2>1. HolderCycle(in) = c /\ "offer_cap" \notin CreditFor(out, in)
    <3>1. CASE in \in OfferIds
      BY <1>1, <1>4, <3>1, PostingAccepts, UncreditedKinds, ExternalIsNotPortal DEF HolderCycle, IsPortal
    <3>2. CASE in \notin OfferIds
      BY <1>4, <3>2, ReplaceExternals, UncreditedKinds DEF HolderCycle, IsPortal
    <3> QED BY <3>1, <3>2
  <2>2. ~CapFull(c, UsedAfter(out, in))
    BY <2>1 DEF ReplacePlacement, CreditFor, GateBlocks, Credited
  <2>3. c # Unattached
    BY ConstantsAssumption DEF Unattached
  <2>4. UsedAfter(out, in) < Cap[c] /\ UsedIn(c) = CapUsed(c)
    <3>1. UsedIn(c) = CapUsed(c) /\ CapUsed(c) \in Nat /\ Cap[c] \in Nat
      BY <2>3, UsedFacts, ConstantsAssumption DEF UsedIn
    <3>2. UsedAfter(out, in) \in Int
      BY <2>1, <3>1 DEF UsedAfter
    <3> QED BY <2>2, <2>3, <3>1, <3>2 DEF CapFull
  <2>5. CASE HolderCycle(out) = c
    <3>1. out \in UsedOf(c)
      BY <2>5, OutgoingIsUsed DEF ReplacePlacement
    <3>2. CapUsed(c) > 0
      BY <3>1, UsedFacts, FS_EmptySet
    <3>3. CapUsed(c) - 1 < Cap[c]
      BY <2>1, <2>4, <2>5, <3>2 DEF UsedAfter
    <3>4. UncreditedIn(c)' \subseteq (UsedOf(c) \ {out}) \cup {in}
      BY <1>2, UsedFacts
    <3> QED BY <3>1, <3>3, <3>4, OneForAnother
  <2>6. CASE HolderCycle(out) # c
    <3>1. CapUsed(c) < Cap[c]
      BY <2>1, <2>4, <2>6 DEF UsedAfter
    <3>2. UncreditedIn(c)' \subseteq UsedOf(c) \cup {in}
      BY <1>2, UsedFacts
    <3> QED BY <3>1, <3>2, OneMore
  <2> QED BY <2>5, <2>6
<1> QED BY <1>3, <1>4

LEMMA ExternalCap ==
    ASSUME TypeOK, BooksInv, forced = {}, ExternalStep, NEW c \in Cycles, Cap[c] # 0
    PROVE  CapStep(c)
<1>1. CASE \E x \in ExternalIds : \E outcome \in Outcomes, st \in {"offered", "accepted", "declined"} :
              CreateExternalOffer(x, outcome, st) \/ EditExternalOffer(x, outcome, st)
  BY <1>1, CreateCap, EditDetachCap
<1>2. CASE \E x \in ExternalIds : AcceptExternalOffer(x) \/ DetachExternalOffer(x)
  BY <1>2, AcceptCap, EditDetachCap
<1>3. CASE \E x \in ExternalIds : \E picked \in Choices(x) : \E d \in DeadlineChoices(picked) :
              \/ DeleteExternalOffer(x, picked, d)
              \/ \E st \in {"offered", "declined"} : UnacceptExternalOffer(x, st, picked, d)
  <2> PICK x \in ExternalIds : \E picked \in Choices(x) : \E d \in DeadlineChoices(picked) :
              \/ DeleteExternalOffer(x, picked, d)
              \/ \E st \in {"offered", "declined"} : UnacceptExternalOffer(x, st, picked, d)
    BY <1>3
  <2> PICK picked \in Choices(x) : \E d \in DeadlineChoices(picked) :
              \/ DeleteExternalOffer(x, picked, d)
              \/ \E st \in {"offered", "declined"} : UnacceptExternalOffer(x, st, picked, d)
    OBVIOUS
  <2> PICK d \in DeadlineChoices(picked) :
              \/ DeleteExternalOffer(x, picked, d)
              \/ \E st \in {"offered", "declined"} : UnacceptExternalOffer(x, st, picked, d)
    OBVIOUS
  <2>1. PICK st \in {"offered", "declined"} :
            DeleteExternalOffer(x, picked, d) \/ UnacceptExternalOffer(x, st, picked, d)
    OBVIOUS
  <2> QED BY <2>1, UnacceptCap
<1>4. CASE \E e \in Cycles, rows \in SUBSET ExternalIds : \E beyond \in SUBSET rows :
              AttachExternalOffers(e, rows, beyond)
  BY <1>4, AttachCap
<1>5. CASE \E out, in \in AcceptanceIds : \E picked \in Choices(out) :
              \E d \in DeadlineChoices(picked) : ReplacePlacement(out, in, picked, d)
  BY <1>5, ReplaceCap
<1> QED BY <1>1, <1>2, <1>3, <1>4, <1>5 DEF ExternalStep

\* No cycle gives out more than its cap, credited acceptances apart.
CapsInv ==
    forced = {} => \A c \in Cycles : Cap[c] # 0 => Cardinality(UncreditedIn(c)) <= Cap[c]

LEMMA CapsKept ==
    ExternalTypes /\ BooksInv /\ CapsInv /\ [ExternalNext]_<<vars, memberVars>> => CapsInv'
<1> SUFFICES ASSUME TypeOK, BooksInv, CapsInv, [ExternalNext]_<<vars, memberVars>>,
                    forced' = {}, NEW c \in Cycles, Cap[c] # 0
             PROVE  Cardinality(UncreditedIn(c)') <= Cap[c]
  BY DEF CapsInv, ExternalTypes
<1>1. forced = {} /\ Cardinality(UncreditedIn(c)) <= Cap[c]
  BY AllForcedStays DEF CapsInv
<1>2. CapStep(c)
  <2>1. CASE PortalStep \/ UNCHANGED <<vars, memberVars>>
    <3>1. [Next]_vars
      BY <2>1, PortalIsNext
    <3> QED BY <3>1, PortalCap
  <2>2. CASE MembershipStep
    <3>1. UNCHANGED <<offers, external>>
      BY <2>2, MembershipFrame DEF offerVars
    <3> QED BY <3>1 DEF CapStep, UncreditedIn, AcceptedIds, AcceptedExternal, CycleOfApp
  <2>3. CASE ExternalStep
    BY <1>1, <2>3, ExternalCap
  <2> QED BY <2>1, <2>2, <2>3 DEF ExternalNext
<1> QED BY <1>1, <1>2, CapStepKeeps

LEMMA CapsInit == MembershipInit => CapsInv
<1> SUFFICES ASSUME MembershipInit, NEW c \in Cycles
             PROVE  UncreditedIn(c) = {} /\ Cap[c] \in Nat
  BY FS_EmptySet DEF CapsInv
<1>1. AcceptedIds = {} /\ AcceptedExternal = {}
  BY DEF MembershipInit, InitWith, AcceptedIds, AcceptedExternal, Accepted, NoRow, NoExternal
<1> QED BY <1>1, ConstantsAssumption DEF UncreditedIn

-----------------------------------------------------------------------------
\* An offer attached to a cycle has the outcome the cycle is for.
AttachedInv ==
    \A x \in ExternalIds : external[x].cycle # Unattached =>
        external[x].outcome = Kind[external[x].cycle]

\* Each row either keeps what it is attached to, or is unattached, or is
\* attached to a cycle of its kind.
Attaches(x) ==
    \/ /\ external'[x].cycle = external[x].cycle
       /\ external[x].cycle # Unattached => external'[x].outcome = external[x].outcome
    \/ external'[x].cycle = Unattached
    \/ external'[x].outcome = Kind[external'[x].cycle]

LEMMA RowFields ==
    ASSUME NEW row \in ExternalRow, NEW st, NEW outcome, NEW c, NEW waived
    PROVE  /\ [row EXCEPT !.status = st, !.waived = waived].cycle = row.cycle
           /\ [row EXCEPT !.status = st, !.waived = waived].outcome = row.outcome
           /\ [row EXCEPT !.outcome = outcome, !.status = st].cycle = row.cycle
           /\ [row EXCEPT !.outcome = outcome, !.status = st].outcome = outcome
           /\ [row EXCEPT !.cycle = c, !.waived = waived].cycle = c
           /\ [row EXCEPT !.cycle = c, !.waived = waived].outcome = row.outcome
BY DEF ExternalRow

LEMMA RowChange ==
    ASSUME TypeOK, NEW x \in ExternalIds, NEW row, external' = [external EXCEPT ![x] = row]
    PROVE  external'[x] = row /\ \A y \in ExternalIds \ {x} : external'[y] = external[y]
BY DEF TypeOK

LEMMA CommandAttaches ==
    ASSUME TypeOK, NEW x \in ExternalIds, NEW outcome, NEW st, NEW picked, NEW d,
           \/ CreateExternalOffer(x, outcome, st) \/ EditExternalOffer(x, outcome, st)
           \/ AcceptExternalOffer(x) \/ UnacceptExternalOffer(x, st, picked, d)
           \/ DeleteExternalOffer(x, picked, d) \/ DetachExternalOffer(x),
           NEW y \in ExternalIds
    PROVE  Attaches(y)
<1>0. external[x] \in ExternalRow
  BY DEF TypeOK
<1>1. CASE CreateExternalOffer(x, outcome, st)
  <2> DEFINE waived == IF st = "accepted" THEN RecordingCredit(x, outcome) ELSE {}
  <2>1. external' = [external EXCEPT ![x] =
            [status |-> st, outcome |-> outcome, cycle |-> Unattached, waived |-> waived]]
    BY <1>1 DEF CreateExternalOffer
  <2> HIDE DEF waived
  <2> QED BY <2>1, RowChange DEF Attaches
<1>2. CASE EditExternalOffer(x, outcome, st)
  <2>1. /\ external' = [external EXCEPT ![x] = [external[x] EXCEPT !.outcome = outcome, !.status = st]]
        /\ external[x].cycle # Unattached => outcome = external[x].outcome
    BY <1>2 DEF EditExternalOffer
  <2> QED BY <1>0, <2>1, RowChange, RowFields DEF Attaches
<1>3. CASE AcceptExternalOffer(x)
  <2> DEFINE waived == RecordingCredit(x, external[x].outcome)
  <2>1. external' = [external EXCEPT ![x] = [external[x] EXCEPT !.status = "accepted", !.waived = waived]]
    BY <1>3 DEF AcceptExternalOffer
  <2> HIDE DEF waived
  <2> QED BY <1>0, <2>1, RowChange, RowFields DEF Attaches
<1>4. CASE UnacceptExternalOffer(x, st, picked, d)
  <2>1. external' = [external EXCEPT ![x] = [external[x] EXCEPT !.status = st, !.waived = {}]]
    BY <1>4 DEF UnacceptExternalOffer
  <2> QED BY <1>0, <2>1, RowChange, RowFields DEF Attaches
<1>5. CASE DeleteExternalOffer(x, picked, d)
  <2>1. external' = [external EXCEPT ![x] = [NoExternal EXCEPT !.status = "deleted"]]
    BY <1>5 DEF DeleteExternalOffer
  <2>2. [NoExternal EXCEPT !.status = "deleted"].cycle = Unattached
    BY DEF NoExternal
  <2> QED BY <2>1, <2>2, RowChange DEF Attaches
<1>6. CASE DetachExternalOffer(x)
  <2> DEFINE waived == external[x].waived \ {"offer_cap"}
  <2>1. external' = [external EXCEPT ![x] = [external[x] EXCEPT !.cycle = Unattached, !.waived = waived]]
    BY <1>6 DEF DetachExternalOffer
  <2> HIDE DEF waived
  <2> QED BY <1>0, <2>1, RowChange, RowFields DEF Attaches
<1> QED BY <1>1, <1>2, <1>3, <1>4, <1>5, <1>6

LEMMA AttachedKept ==
    ASSUME TypeOK, AttachedInv, ExternalStep
    PROVE  AttachedInv'
<1>1. ASSUME NEW y \in ExternalIds PROVE Attaches(y)
  <2>0. external[y] \in ExternalRow
    BY DEF TypeOK
  <2>1. CASE \E x \in ExternalIds :
         \/ \E outcome \in Outcomes, st \in {"offered", "accepted", "declined"} :
              CreateExternalOffer(x, outcome, st) \/ EditExternalOffer(x, outcome, st)
         \/ AcceptExternalOffer(x)
         \/ \E picked \in Choices(x) : \E d \in DeadlineChoices(picked) :
              \/ DeleteExternalOffer(x, picked, d)
              \/ \E st \in {"offered", "declined"} : UnacceptExternalOffer(x, st, picked, d)
         \/ DetachExternalOffer(x)
    BY <2>1, CommandAttaches
  <2>2. ASSUME NEW c, NEW rows, NEW beyond, AttachExternalOffers(c, rows, beyond)
        PROVE  Attaches(y)
    <3> DEFINE waived == external[y].waived \cup (IF y \in beyond THEN {"offer_cap"} ELSE {})
    <3>1. /\ external'[y] =
               IF y \notin rows THEN external[y]
               ELSE [external[y] EXCEPT !.cycle = c,
                        !.waived = @ \cup (IF y \in beyond THEN {"offer_cap"} ELSE {})]
          /\ y \in rows => external[y].outcome = Kind[c]
      BY <2>2 DEF AttachExternalOffers
    <3>2. external'[y] = IF y \notin rows THEN external[y]
                         ELSE [external[y] EXCEPT !.cycle = c, !.waived = waived]
      BY <3>1
    <3> HIDE DEF waived
    <3> QED BY <2>0, <3>1, <3>2, RowFields DEF Attaches
  <2>3. ASSUME NEW out, NEW in, NEW picked, NEW d, ReplacePlacement(out, in, picked, d)
        PROVE  Attaches(y)
    <3> DEFINE credit == CreditFor(out, in)
    <3>1. external'[y] = IF y = out THEN [external[y] EXCEPT !.status = "declined", !.waived = {}]
                         ELSE IF y = in THEN [external[y] EXCEPT !.status = "accepted", !.waived = credit]
                         ELSE external[y]
      BY <2>3 DEF ReplacePlacement, CreditFor
    <3> HIDE DEF credit
    <3> QED BY <2>0, <3>1, RowFields DEF Attaches
  <2> QED BY <2>1, <2>2, <2>3 DEF ExternalStep
<1> QED BY <1>1 DEF AttachedInv, Attaches

-----------------------------------------------------------------------------
\* A job of an open cycle has no deadline for answers.
OpenJobsUndated == \A j \in Jobs : Kind[CycleOf[j]] = "open" => jobs[j].deadline = 0

LEMMA UndatedKept ==
    ASSUME TypeOK, OpenJobsUndated, [Next]_vars
    PROVE  OpenJobsUndated'
<1>1. CASE UNCHANGED jobs
  BY <1>1 DEF OpenJobsUndated
<1>2. CASE JobStep
  <2> PICK j \in Jobs :
        \/ \E rows \in SUBSET {a \in Apps : JobOf[a] = j} : CancelJob(j, rows)
        \/ \E d \in Deadlines : UpdateJobBasics(j, d)
        \/ \E on \in BOOLEAN : SetPublished(j, on)
    BY <1>2 DEF JobStep
  <2>0. jobs \in [Jobs -> [published : BOOLEAN, cancelled : BOOLEAN, deadline : Deadlines]]
    BY DEF TypeOK
  <2>1. ASSUME NEW rows, CancelJob(j, rows)
        PROVE  OpenJobsUndated'
    <3>1. \A i \in Jobs : jobs'[i].deadline = jobs[i].deadline
      BY <2>0, <2>1 DEF CancelJob
    <3> QED BY <3>1 DEF OpenJobsUndated
  <2>2. ASSUME NEW d \in Deadlines, UpdateJobBasics(j, d)
        PROVE  OpenJobsUndated'
    <3>1. \A i \in Jobs : jobs'[i].deadline = IF i = j THEN d ELSE jobs[i].deadline
      BY <2>0, <2>2 DEF UpdateJobBasics
    <3> QED BY <2>2, <3>1 DEF OpenJobsUndated, UpdateJobBasics
  <2>3. ASSUME NEW on, SetPublished(j, on)
        PROVE  OpenJobsUndated'
    <3>1. \A i \in Jobs : jobs'[i].deadline = jobs[i].deadline
      BY <2>0, <2>3 DEF SetPublished
    <3> QED BY <3>1 DEF OpenJobsUndated
  <2> QED BY <2>1, <2>2, <2>3
<1>3. CASE StudentStep
  BY <1>1, <1>3 DEF StudentStep, Apply, WithdrawApplication, AcceptOffer, DeclineOffer, staffVars
<1>4. CASE ProcessStep
  BY <1>1, <1>4 DEF ProcessStep, Promote, Reject, ExtendOffer, RecordOpenOutcome, staffVars
<1>5. CASE InterventionStep
  BY <1>1, <1>5 DEF InterventionStep, TerminateOffer, ReExtendOffer, ReinstateApplication,
            ForceTransition, staffVars
<1>6. CASE CycleStep
  BY <1>1, <1>6 DEF CycleStep, ExitCycle, RestoreMembership, ArchiveCycle
<1>7. CASE \E t \in tasks : EnforceOfferExpiry(t)
  BY <1>1, <1>7 DEF EnforceOfferExpiry, staffVars
<1>8. CASE \E dom \in Domains, value \in {"none", "allow", "deny"} : SetOverride(dom, value)
  BY <1>1, <1>8 DEF SetOverride
<1>9. CASE Tick \/ UNCHANGED vars
  BY <1>1, <1>9 DEF Tick, vars, staffVars
<1> QED BY <1>2, <1>3, <1>4, <1>5, <1>6, <1>7, <1>8, <1>9 DEF Next

-----------------------------------------------------------------------------
\* Each query of the checker comes back empty.
ReportInv ==
    ExternalTypes /\ BooksInv /\ SoleInv /\ CapsInv /\ AttachedInv /\ OpenJobsUndated /\ MembersInv

LEMMA ReportInit == MembershipInit => ReportInv
<1> SUFFICES ASSUME MembershipInit PROVE ReportInv
  OBVIOUS
<1>1. ExternalTypes /\ BooksInv /\ CapsInv
  BY ExternalInit, CapsInit
<1>2. SoleInv
  BY DEF MembershipInit, InitWith, SoleInv, OneActivePerJob, SoleSweep, SweptBySettled,
         DuplicateExists, FreedStatuses
<1>3. AttachedInv
  BY DEF MembershipInit, InitWith, AttachedInv, NoExternal
<1>4. OpenJobsUndated
  BY ConstantsAssumption DEF MembershipInit, InitWith, OpenJobsUndated
<1>5. MembersInv
  BY DEF MembershipInit, InitWith, MembersInv, PipelineNeedsMembership, EXIT_CASCADE_STATUSES
<1> QED BY <1>1, <1>2, <1>3, <1>4, <1>5 DEF ReportInv

LEMMA MembersKept ==
    ExternalTypes /\ MembersInv /\ [ExternalNext]_<<vars, memberVars>> => MembersInv'
<1>1. ASSUME MembersInv, UNCHANGED <<vars, memberVars>>
      PROVE  MembersInv'
  BY <1>1, NothingMoves DEF vars, staffVars, memberVars
<1> QED BY <1>1, PortalKeeps, MembershipKeeps, ExternalKeeps DEF ExternalNext, ExternalTypes

LEMMA ReportKept == ReportInv /\ [ExternalNext]_<<vars, memberVars>> => ReportInv'
<1> SUFFICES ASSUME ReportInv, [ExternalNext]_<<vars, memberVars>> PROVE ReportInv'
  OBVIOUS
<1>0. ExternalTypes /\ TypeOK
  BY DEF ReportInv, ExternalTypes
<1>1. ExternalTypes' /\ BooksInv' /\ CapsInv' /\ MembersInv'
  BY ExternalTypesKept, AllBooksKept, CapsKept, MembersKept DEF ReportInv
<1>2. SoleInv'
  BY <1>1, AllSoleKept DEF ReportInv
<1>3. AttachedInv' /\ OpenJobsUndated'
  <2>1. CASE PortalStep \/ UNCHANGED <<vars, memberVars>>
    <3>1. [Next]_vars
      BY <2>1, PortalIsNext
    <3>2. AttachedInv'
      BY <3>1, ExternalStays DEF ReportInv, AttachedInv
    <3> QED BY <1>0, <3>1, <3>2, UndatedKept DEF ReportInv
  <2>2. CASE MembershipStep
    BY <2>2, MembershipFrame DEF ReportInv, AttachedInv, OpenJobsUndated
  <2>3. CASE ExternalStep
    BY <1>0, <2>3, AttachedKept, ExternalFrame DEF ReportInv, OpenJobsUndated
  <2> QED BY <2>1, <2>2, <2>3 DEF ExternalNext
<1> QED BY <1>1, <1>2, <1>3 DEF ReportInv

LEMMA NothingReported == ReportInv => NothingToReport
<1> SUFFICES ASSUME ReportInv, forced = {} PROVE NothingToReport
  BY DEF NothingToReport
<1>0. TypeOK /\ BooksInv /\ Ruled = Apps
  BY DEF ReportInv, ExternalTypes, Ruled
<1>1. DuplicatePairs = {}
  BY DEF ReportInv, SoleInv, OneActivePerJob, DuplicatePairs
<1>2. BeyondCap = {}
  <2> SUFFICES ASSUME NEW c \in Cycles, Cap[c] # 0
               PROVE  ~(Cardinality(UncreditedIn(c)) > Cap[c])
    BY DEF BeyondCap
  <2>1. Cardinality(UncreditedIn(c)) <= Cap[c]
    BY DEF ReportInv, CapsInv
  <2>2. Cap[c] \in Nat /\ Cardinality(UncreditedIn(c)) \in Nat
    BY <1>0, UsedFacts, FS_Subset, FS_CardinalityType, ConstantsAssumption
  <2> QED BY <2>1, <2>2
<1>3. ASSUME NEW a \in Apps
      PROVE  /\ offerCount[a] \in 0..MaxOffers
             /\ Booked(a) /\ Unwritten(a)
             /\ offerCount[a] > 0 => offerCount[a] \in Slots /\ CurrentRow(a) = offers[<<a, offerCount[a]>>]
  BY <1>0, ConstantsAssumption DEF TypeOK, BooksInv, CurrentRow, CurrentId, Slots
<1>4. UnsupportedAcceptances = {}
  <2> SUFFICES ASSUME NEW a \in Apps, status[a] = "accepted"
               PROVE  \E n \in Slots : Accepted(offers[<<a, n>>])
    BY DEF UnsupportedAcceptances
  <2>1. offerCount[a] > 0 /\ RowAgrees("accepted", CurrentRow(a))
    BY <1>3 DEF Booked
  <2> QED BY <1>3, <2>1 DEF RowAgrees
<1>5. StrayOpenOffers = {}
  <2> SUFFICES ASSUME NEW o \in OfferIds, Unanswered(offers[o]), status[o[1]] # "offered"
               PROVE  FALSE
    BY DEF StrayOpenOffers
  <2> PICK a \in Apps, n \in Slots : o = <<a, n>>
    BY DEF OfferIds
  <2>0. /\ n \in Nat /\ offerCount[a] \in Nat
        /\ Unanswered(offers[<<a, n>>]) /\ status[a] # "offered"
    <3>1. n \in Nat
      BY ConstantsAssumption DEF Slots
    <3>2. offerCount[a] \in Nat
      <4>1. offerCount[a] \in 0..MaxOffers
        BY <1>3
      <4> QED BY <4>1
    <3>3. Unanswered(offers[<<a, n>>]) /\ status[a] # "offered"
      OBVIOUS
    <3> QED BY <3>1, <3>2, <3>3
  <2>1. CASE n < offerCount[a]
    BY <1>3, <2>0, <2>1 DEF Booked
  <2>2. CASE n > offerCount[a]
    BY <1>3, <2>0, <2>2 DEF Unwritten, Unanswered
  <2>3. CASE n = offerCount[a]
    <3>1. offerCount[a] > 0 /\ CurrentRow(a) = offers[<<a, n>>]
      BY <1>3, <2>3, ConstantsAssumption DEF Slots
    <3>2. RowAgrees(status[a], CurrentRow(a))
      BY <1>3, <3>1 DEF Booked
    <3> QED BY <2>0, <3>1, <3>2 DEF RowAgrees, Unanswered, Accepted
  <2> QED BY <2>0, <2>1, <2>2, <2>3
<1>6. {a \in OutsideMembership \ sanctioned : status[a] # "offered"} = {}
  BY DEF ReportInv, MembersInv, PipelineNeedsMembership, OutsideMembership, LiveStatuses,
         EXIT_CASCADE_STATUSES
<1>7. MisattachedOffers = {}
  BY DEF ReportInv, AttachedInv, MisattachedOffers
<1>8. OpenJobsWithDeadline = {}
  BY DEF ReportInv, OpenJobsUndated, OpenJobsWithDeadline
<1> QED BY <1>1, <1>2, <1>4, <1>5, <1>6, <1>7, <1>8 DEF NothingToReport

LEMMA ReportHolds == ExternalSpec => []ReportInv
<1>1. MembershipInit => ReportInv
  BY ReportInit
<1>2. ReportInv /\ [ExternalNext]_<<vars, memberVars>> => ReportInv'
  BY ReportKept
<1> QED BY <1>1, <1>2, PTL DEF ExternalSpec

\* DER-1/CYC-2/EXT-4: the nightly checker finds nothing that a sequence of legal
\* commands of the portal, of staff and of the student could have produced: the
\* columns it compares agree in every state.
THEOREM NothingToReportHolds == ExternalSpec => []NothingToReport
<1> QED BY NothingReported, ReportHolds, PTL

\* CYC-3: however often the student leaves, asks again, is let back in or has
\* an offer attached, and whatever else happens in between, an application in
\* the pipeline is that of an active member, unless it was revived.
THEOREM PipelineNeedsMembershipHolds == ExternalSpec => []PipelineNeedsMembership
<1>1. ReportInv => PipelineNeedsMembership
  BY DEF ReportInv, MembersInv
<1> QED BY <1>1, ReportHolds, PTL

\* OFR-1 and the one-row-per-job rule, with external offers and memberships
\* moving beside the portal: the commands that sweep, restore and replace keep
\* the books the portal's own commands rely on.
THEOREM BooksStayInOrder ==
    ExternalSpec => [](OfferMatchesStatus /\ OneActivePerJob) /\ ClosedOfferIsFinal
<1>1. ReportInv => OfferMatchesStatus /\ OneActivePerJob
  BY DEF ReportInv, BooksInv, Booked, OfferMatchesStatus, SoleInv
<1>2. ReportInv /\ [ExternalNext]_<<vars, memberVars>> => [ClosedRowsStay]_vars
  BY AllBooks, ClosedStay DEF ReportInv, ExternalTypes
<1> QED BY <1>1, <1>2, ReportHolds, PTL DEF ExternalSpec, ClosedOfferIsFinal

\* CYC-3 in types: a membership has one of its six statuses, and the flag the
\* portal's gates read is exactly that status being "active".
THEOREM MembershipTypeCorrect == ExternalSpec => []MembershipTypeOK
<1>1. ReportInv => MembershipTypeOK
  BY DEF ReportInv, ExternalTypes, MembershipRows, MembersInv, MembershipTypeOK
<1> QED BY <1>1, ReportHolds, PTL

-----------------------------------------------------------------------------
(* The queue of expiry tasks, beside external offers.                      *)

\* A posting answers or ends an open offer, leaves it alone, or writes a fresh
\* one with a task at its deadline, and takes nothing from the queue.
LEMMA PostingQueue ==
    ASSUME TypeOK, UNCHANGED archived,
           NEW out, NEW picked, NEW d, NEW in, NEW swept, NEW credit,
           Posting(out, picked, d, in, swept, credit), NEW b \in Apps, InQueue(b)
    PROVE  InQueue(b)'
<1>0. OfferTypes
  BY TypeParts
<1>w. Warranted(out, picked, d, in, swept, credit)
  BY DEF Posting
<1>1. /\ \A o \in OfferIds : offers'[o] = PostedRow(out, picked, d, in, swept, credit, o)
      /\ offerCount'[b] = offerCount[b] + IF b \in Renewed(picked) THEN 1 ELSE 0
      /\ tasks' = tasks \cup UNION {ExpiryTask(c, NextId(c), d[c]) : c \in Renewed(picked)}
  BY PostedFacts DEF RestoredCounts, RestoredQueue
<1>2. offerCount[b] \in Nat /\ MaxOffers \in Nat
  BY <1>0, ConstantsAssumption DEF OfferTypes
<1>3. CASE b \in Renewed(picked)
  <2>1. Restorable(out, picked, d)
    BY <1>w DEF Warranted
  <2>2. b \in PickedApps(picked) /\ offerCount[b] < MaxOffers
    BY <1>3, <2>1, PickedFacts
  <2>3. d[b] \in Nat
    BY <1>w, <2>2, ConstantsAssumption DEF Warranted, Deadlines
  <2>4. NextId(b) \in OfferIds /\ NextId(b)[1] = b
    BY <1>2, <2>2 DEF NextId, OfferIds, Slots
  <2>5. NextId(b) # CurrentId(b)
    BY <1>2 DEF NextId, CurrentId
  <2>6. NextId(b) # in
    <3>1. IsPortal(in) => in = CurrentId(in[1])
      BY <1>w DEF Warranted
    <3> QED BY <2>4, <2>5, <3>1 DEF IsPortal
  <2>7. offers'[NextId(b)] = FreshRow(d[b])
    BY <1>1, <1>3, <2>4, <2>5, <2>6 DEF PostedRow
  <2>8. ExpiryTask(b, NextId(b), d[b]) \subseteq tasks'
    BY <1>1, <1>3
  <2>9. offerCount'[b] = offerCount[b] + 1 /\ offers'[NextId(b)].deadline = d[b]
    BY <1>1, <1>3, <2>7 DEF FreshRow
  <2> QED BY <2>3, <2>8, <2>9, QueueExtended
<1>4. CASE b \notin Renewed(picked)
  <2>1. offerCount'[b] = offerCount[b] /\ tasks \subseteq tasks'
    BY <1>1, <1>2, <1>4
  <2>2. ASSUME Due(b)' PROVE offers'[CurrentId(b)] = CurrentRow(b)
    <3>1. /\ CurrentId(b) \in OfferIds /\ CurrentId(b)[1] = b
          /\ CurrentRow(b) = offers[CurrentId(b)]
          /\ offers[CurrentId(b)] \in OfferRow
      BY <1>0, <2>1, <2>2, OfferIdFacts DEF Due, OfferTypes, CurrentId, CurrentRow
    <3>2. Unanswered(offers'[CurrentId(b)])
      BY <2>1, <2>2 DEF Due, CurrentRow, CurrentId, Unanswered
    <3>3. \A row \in OfferRow :
             /\ ~Unanswered([row EXCEPT !.response = "accepted", !.waived = credit])
             /\ ~Unanswered([row EXCEPT !.response = "declined"])
             /\ ~Unanswered([row EXCEPT !.terminated = TRUE])
      BY DEF OfferRow, Unanswered
    <3>4. offers'[CurrentId(b)] = PostedRow(out, picked, d, in, swept, credit, CurrentId(b))
      BY <1>1, <3>1
    <3> QED BY <1>4, <3>1, <3>2, <3>3, <3>4 DEF PostedRow
  <2> QED BY <2>1, <2>2, QueueKept
<1> QED BY <1>3, <1>4

LEMMA AllQueues ==
    ASSUME TypeOK, [ExternalNext]_<<vars, memberVars>>,
           NEW b \in Apps, Booked(b), InQueue(b)
    PROVE  InQueue(b)'
<1>1. CASE PortalStep \/ UNCHANGED <<vars, memberVars>>
  BY <1>1, PortalIsNext, QueueStep
<1>2. CASE UNCHANGED <<offerVars, archived>>
  BY <1>2, QueueClosed DEF offerVars
<1>3. CASE ExternalStep
  <2>1. UNCHANGED archived
    BY <1>3, ExternalFrame
  <2> QED BY <1>2, <1>3, <2>1, ExternalKinds, PostingQueue DEF Aside
<1> QED BY <1>1, <1>2, <1>3, MembershipFrame DEF ExternalNext

\* OFR-4 with external offers and memberships moving beside the portal: an
\* offer that the end of another acceptance gives back is queued with the
\* deadline staff set, and no sweep, replacement or archival leaves an open
\* offer without the task that will close it.
THEOREM ExpiryScheduledBesideExternal == ExternalSpec => []ExpiryScheduled
<1>1. ExpiryScheduled <=> \A a \in Ruled : InQueue(a)
  BY DEF ExpiryScheduled, InQueue, Due
<1>2. MembershipInit => ExpiryScheduled
  BY <1>1 DEF MembershipInit, InitWith, InQueue, Due, Ruled
<1>3. ReportInv /\ ExpiryScheduled /\ [ExternalNext]_<<vars, memberVars>> => ExpiryScheduled'
  <2> SUFFICES ASSUME TypeOK, BooksInv, ExpiryScheduled, [ExternalNext]_<<vars, memberVars>>,
                      NEW a \in Ruled'
               PROVE  InQueue(a)'
    BY DEF ReportInv, ExternalTypes, ExpiryScheduled, InQueue, Due
  <2>1. a \in Ruled /\ a \in Apps
    BY AllForcedStays DEF Ruled
  <2> QED BY <1>1, <2>1, AllQueues DEF BooksInv
<1> QED BY <1>2, <1>3, ReportHolds, PTL DEF ExternalSpec

-----------------------------------------------------------------------------
(* Placements held do not multiply behind the gate.                        *)

\* What a held placement is, on either side.
LEMMA HeldMeaning ==
    ASSUME NEW h \in AcceptanceIds
    PROVE  /\ h \in OfferIds =>
                /\ h \in HeldPlacements <=> Accepted(offers[h]) /\ OutcomeOf(h[1]) = "placement"
                /\ h \in HeldPlacements' <=> Accepted(offers'[h]) /\ OutcomeOf(h[1]) = "placement"
           /\ h \in ExternalIds =>
                /\ h \in HeldPlacements <=>
                      external[h].status = "accepted" /\ external[h].outcome = "placement"
                /\ h \in HeldPlacements' <=>
                      external'[h].status = "accepted" /\ external'[h].outcome = "placement"
<1>1. h \in ExternalIds => h \notin OfferIds
  BY ExternalIsNotPortal
<1>2. CASE h \in OfferIds
  BY <1>1, <1>2 DEF HeldPlacements, IsPlacement, IsPortal, AcceptedIds, AcceptedExternal, OutcomeOf
<1>3. CASE h \in ExternalIds
  BY <1>1, <1>3 DEF HeldPlacements, IsPlacement, IsPortal, AcceptedIds, AcceptedExternal
<1> QED BY <1>1, <1>2, <1>3

LEMMA HeldIsPlaced == HeldPlacements # {} => PlacementPlacedGlobal
<1> SUFFICES ASSUME NEW h \in HeldPlacements PROVE PlacementPlacedGlobal
  OBVIOUS
<1>1. h \in AcceptanceIds /\ h \in AcceptedIds \cup AcceptedExternal
  BY DEF HeldPlacements
<1>2. CASE h \in OfferIds
  BY <1>1, <1>2, HeldMeaning DEF PlacementPlacedGlobal, AcceptedIds
<1>3. CASE h \in ExternalIds
  BY <1>1, <1>3, HeldMeaning DEF PlacementPlacedGlobal, AcceptedExternal
<1> QED BY <1>1, <1>2, <1>3 DEF AcceptanceIds

LEMMA HeldFinite == IsFiniteSet(HeldPlacements)
<1>1. IsFiniteSet(OfferIds \cup ExternalIds)
  BY OfferIdsFinite, ConstantsAssumption, FS_Union
<1> QED BY <1>1, FS_Subset DEF HeldPlacements, AcceptanceIds

\* Placements do not multiply: none is new, or one stands for one given up.
HeldStep ==
    \/ HeldPlacements' \subseteq HeldPlacements
    \/ \E out \in HeldPlacements : \E in : HeldPlacements' \subseteq (HeldPlacements \ {out}) \cup {in}

LEMMA NoMoreThan ==
    ASSUME NEW S, NEW T, IsFiniteSet(S),
           T \subseteq S \/ \E out \in S : \E in : T \subseteq (S \ {out}) \cup {in}
    PROVE  ~(Cardinality(T) > Cardinality(S))
<1>0. Cardinality(S) \in Nat
  BY FS_CardinalityType
<1>1. ASSUME NEW U, IsFiniteSet(U), T \subseteq U, Cardinality(U) <= Cardinality(S)
      PROVE  ~(Cardinality(T) > Cardinality(S))
  <2>1. IsFiniteSet(T) /\ Cardinality(T) <= Cardinality(U)
    BY <1>1, FS_Subset
  <2>2. Cardinality(T) \in Nat /\ Cardinality(U) \in Nat
    BY <1>1, <2>1, FS_CardinalityType
  <2> QED BY <1>0, <1>1, <2>1, <2>2
<1>2. CASE T \subseteq S
  <2>1. Cardinality(S) <= Cardinality(S)
    BY <1>0
  <2> QED BY <1>1, <1>2, <2>1
<1>3. ASSUME NEW out \in S, NEW in, T \subseteq (S \ {out}) \cup {in}
      PROVE  ~(Cardinality(T) > Cardinality(S))
  <2> DEFINE U == S \ {out}
  <2>1. IsFiniteSet(U) /\ Cardinality(U) = Cardinality(S) - 1
    BY FS_RemoveElement
  <2>2. T \subseteq U \cup {in}
    BY <1>3
  <2> HIDE DEF U
  <2>3. /\ IsFiniteSet(U \cup {in})
        /\ Cardinality(U \cup {in}) = IF in \in U THEN Cardinality(U) ELSE Cardinality(U) + 1
    BY <2>1, FS_AddElement
  <2>4. Cardinality(U \cup {in}) <= Cardinality(S)
    BY <1>0, <2>1, <2>3
  <2> QED BY <1>1, <2>2, <2>3, <2>4
<1> QED BY <1>2, <1>3

LEMMA HeldStepCounts ==
    ASSUME HeldStep PROVE ~(Cardinality(HeldPlacements') > Cardinality(HeldPlacements))
BY HeldFinite, NoMoreThan DEF HeldStep

\* The placement a student gains past the gate.
Allowed == HeldPlacements # {} => HeldStep \/ overrides["outcome_gate"] = "allow"

LEMMA PortalHeld ==
    ASSUME TypeOK, [Next]_vars PROVE Allowed
<1> SUFFICES ASSUME HeldPlacements # {}
             PROVE  HeldStep \/ overrides["outcome_gate"] = "allow"
  BY DEF Allowed
<1>1. external' = external
  BY ExternalStays
<1>2. ASSUME NEW o,
             \A p \in OfferIds : p # o /\ Accepted(offers'[p]) => Accepted(offers[p]),
             o \in OfferIds /\ Accepted(offers'[o]) => OutcomeOf(o[1]) # "placement" \/ Accepted(offers[o])
      PROVE  HeldStep
  <2>1. ASSUME NEW h \in HeldPlacements' PROVE h \in HeldPlacements
    <3>1. h \in AcceptanceIds
      BY <2>1 DEF HeldPlacements
    <3> QED BY <1>1, <1>2, <2>1, <3>1, HeldMeaning DEF AcceptanceIds
  <2> QED BY <2>1 DEF HeldStep
<1>3. CASE QuietStep
  BY <1>2, <1>3 DEF QuietStep
<1>4. ASSUME NEW a, NEW o, AcceptanceStep(a, o), overrides["outcome_gate"] # "allow"
      PROVE  HeldStep
  <2>1. ~OutcomeFails(a, "accept")
    BY <1>4 DEF AcceptanceStep, ConstraintsBlock, GateBlocks
  <2>2. OutcomeOf(a) # "placement"
    BY <2>1, HeldIsPlaced DEF OutcomeFails, OutcomeGateFails
  <2>3. \A p \in OfferIds : p # o /\ Accepted(offers'[p]) => Accepted(offers[p])
    BY <1>4 DEF AcceptanceStep
  <2>4. OutcomeOf(o[1]) # "placement"
    BY <1>4, <2>2 DEF AcceptanceStep
  <2> QED BY <1>2, <2>3, <2>4
<1> QED BY <1>3, <1>4, StepKinds

\* Beside an external offer `x` no portal placement and no other offer is new.
LEMMA ExternalOnly ==
    ASSUME TypeOK, NEW x \in ExternalIds, NEW out, NEW picked, NEW d, NEW swept, NEW credit,
           Posting(out, picked, d, x, swept, credit),
           \A y \in ExternalIds \ {x} : external'[y] = external[y],
           external'[x].status = "accepted" /\ external'[x].outcome = "placement" =>
               external[x].status = "accepted" /\ external[x].outcome = "placement"
    PROVE  HeldStep
<1>1. ASSUME NEW h \in HeldPlacements' PROVE h \in HeldPlacements
  <2>1. h \in AcceptanceIds /\ x \notin OfferIds
    BY <1>1, ExternalIsNotPortal DEF HeldPlacements
  <2>2. CASE h \in OfferIds
    BY <1>1, <2>1, <2>2, HeldMeaning, PostingAccepts
  <2>3. CASE h \in ExternalIds
    BY <1>1, <2>1, <2>3, HeldMeaning
  <2> QED BY <2>1, <2>2, <2>3 DEF AcceptanceIds
<1> QED BY <1>1 DEF HeldStep

\* An acceptance recorded for a student who is placed passed the gate only if
\* it is no placement, or the gate is overridden.
LEMMA RecordedPasses ==
    ASSUME NEW x, NEW outcome, ~RecordingBlocked(x, outcome), HeldPlacements # {}
    PROVE  outcome # "placement" \/ overrides["outcome_gate"] = "allow"
BY HeldIsPlaced DEF RecordingBlocked, OutcomeGate, OutcomeGateFails, GateBlocks

LEMMA CreateHeld ==
    ASSUME TypeOK, NEW x \in ExternalIds, NEW outcome, NEW st, CreateExternalOffer(x, outcome, st)
    PROVE  Allowed
<1> DEFINE waived == IF st = "accepted" THEN RecordingCredit(x, outcome) ELSE {}
           row == [status |-> st, outcome |-> outcome, cycle |-> Unattached, waived |-> waived]
<1>1. external' = [external EXCEPT ![x] = row] /\ (st = "accepted" => ~RecordingBlocked(x, outcome))
  BY DEF CreateExternalOffer
<1>2. row.status = st /\ row.outcome = outcome
  OBVIOUS
<1> HIDE DEF row
<1>3. external'[x] = row /\ \A y \in ExternalIds \ {x} : external'[y] = external[y]
  BY <1>1, RowChange
<1> QED BY <1>1, <1>2, <1>3, CreatePosts, RecordedPasses, ExternalOnly DEF Allowed

LEMMA AcceptHeld ==
    ASSUME TypeOK, NEW x \in ExternalIds, AcceptExternalOffer(x)
    PROVE  Allowed
<1> DEFINE waived == RecordingCredit(x, external[x].outcome)
           row == [external[x] EXCEPT !.status = "accepted", !.waived = waived]
<1>1. external' = [external EXCEPT ![x] = row] /\ ~RecordingBlocked(x, external[x].outcome)
  BY DEF AcceptExternalOffer
<1>2. row.outcome = external[x].outcome
  <2>1. external[x] \in ExternalRow
    BY DEF TypeOK
  <2> HIDE DEF waived
  <2> QED BY <2>1, RowFields
<1> HIDE DEF row
<1>3. external'[x] = row /\ \A y \in ExternalIds \ {x} : external'[y] = external[y]
  BY <1>1, RowChange
<1> QED BY <1>1, <1>2, <1>3, AcceptPosts, RecordedPasses, ExternalOnly DEF Allowed

LEMMA UnacceptHeld ==
    ASSUME TypeOK, NEW x \in ExternalIds, NEW picked, NEW d \in DeadlineChoices(picked),
           NEW st \in {"offered", "declined"},
           DeleteExternalOffer(x, picked, d) \/ UnacceptExternalOffer(x, st, picked, d)
    PROVE  Allowed
<1>1. \A y \in ExternalIds \ {x} : external'[y] = external[y]
  BY DEF DeleteExternalOffer, UnacceptExternalOffer, TypeOK
<1>2. external'[x].status # "accepted"
  BY DEF DeleteExternalOffer, UnacceptExternalOffer, TypeOK, NoExternal, ExternalRow
<1> QED BY <1>1, <1>2, UnacceptPosts, ExternalOnly DEF Allowed

\* Editing, attaching and detaching accept nothing.
LEMMA AsideHeld ==
    ASSUME TypeOK, UNCHANGED offers,
           \A y \in ExternalIds : external'[y].status = "accepted" =>
               external[y].status = "accepted" /\ external'[y].outcome = external[y].outcome
    PROVE  Allowed
<1>1. ASSUME NEW h \in HeldPlacements' PROVE h \in HeldPlacements
  <2>1. h \in AcceptanceIds
    BY <1>1 DEF HeldPlacements
  <2> QED BY <1>1, <2>1, HeldMeaning DEF AcceptanceIds
<1> QED BY <1>1 DEF Allowed, HeldStep

LEMMA EditDetachHeld ==
    ASSUME TypeOK, NEW x \in ExternalIds, NEW outcome, NEW st \in {"offered", "accepted", "declined"},
           EditExternalOffer(x, outcome, st) \/ DetachExternalOffer(x)
    PROVE  Allowed
<1>1. UNCHANGED offers
  BY DEF EditExternalOffer, DetachExternalOffer, offerVars
<1>2. \A y \in ExternalIds \ {x} : external'[y] = external[y]
  BY DEF EditExternalOffer, DetachExternalOffer, TypeOK
<1>3. external'[x].status = "accepted" =>
          external[x].status = "accepted" /\ external'[x].outcome = external[x].outcome
  BY DEF EditExternalOffer, DetachExternalOffer, TypeOK, ExternalRow
<1> QED BY <1>1, <1>2, <1>3, AsideHeld

\* Attaching accepts nothing and changes no outcome.
LEMMA AttachStatuses ==
    ASSUME TypeOK, NEW c, NEW rows, NEW beyond, AttachExternalOffers(c, rows, beyond),
           NEW y \in ExternalIds
    PROVE  external'[y].status = external[y].status /\ external'[y].outcome = external[y].outcome
<1> DEFINE row == external[y]
           waived == row.waived \cup (IF y \in beyond THEN {"offer_cap"} ELSE {})
           after == [row EXCEPT !.cycle = c, !.waived = waived]
<1>1. external'[y] = IF y \notin rows THEN external[y]
             ELSE [external[y] EXCEPT !.cycle = c,
                      !.waived = @ \cup (IF y \in beyond THEN {"offer_cap"} ELSE {})]
  BY DEF AttachExternalOffers
<1>2. external'[y] = row \/ external'[y] = after
  BY <1>1
<1>3. row \in ExternalRow
  BY DEF TypeOK
<1> HIDE DEF row, waived
<1>4. after.status = row.status /\ after.outcome = row.outcome
  BY <1>3 DEF ExternalRow
<1> HIDE DEF after
<1> QED BY <1>2, <1>4 DEF row

LEMMA AttachHeld ==
    ASSUME TypeOK, NEW c, NEW rows, NEW beyond, AttachExternalOffers(c, rows, beyond)
    PROVE  Allowed
<1>1. UNCHANGED offers
  BY DEF AttachExternalOffers, offerVars
<1> QED BY <1>1, AttachStatuses, AsideHeld

LEMMA ReplaceHeld ==
    ASSUME TypeOK, BooksInv, forced = {}, NEW out \in AcceptanceIds, NEW in \in AcceptanceIds,
           NEW picked, NEW d \in DeadlineChoices(picked), ReplacePlacement(out, in, picked, d)
    PROVE  HeldStep
<1>1. Posting(out, picked, d, in, SweptFor(out, in, picked), CreditFor(out, in))
  BY ReplacementPosts
<1>2. HoldsPlacement(out)
  BY DEF ReplacePlacement
<1>3. out \in HeldPlacements
  <2>1. CASE out \in OfferIds
    BY <1>2, <2>1, OutgoingIsUsed, HeldMeaning DEF HoldsPlacement, IsPlacement, IsPortal
  <2>2. CASE out \notin OfferIds
    BY <1>2, <2>2, HeldMeaning DEF HoldsPlacement, IsPlacement, IsPortal, AcceptanceIds
  <2> QED BY <2>1, <2>2
<1>4. ASSUME NEW h \in HeldPlacements', h # in
      PROVE  h \in HeldPlacements /\ h # out
  <2>1. h \in AcceptanceIds
    BY <1>4 DEF HeldPlacements
  <2>2. CASE h \in OfferIds
    BY <1>1, <1>4, <2>1, <2>2, HeldMeaning, PostingAccepts
  <2>3. CASE h \in ExternalIds
    BY <1>4, <2>1, <2>3, HeldMeaning, ReplaceExternals
  <2> QED BY <2>1, <2>2, <2>3 DEF AcceptanceIds
<1> QED BY <1>3, <1>4 DEF HeldStep

LEMMA ExternalHeld ==
    ASSUME TypeOK, BooksInv, forced = {}, ExternalStep
    PROVE  Allowed
<1>1. CASE \E x \in ExternalIds : \E outcome \in Outcomes, st \in {"offered", "accepted", "declined"} :
              CreateExternalOffer(x, outcome, st) \/ EditExternalOffer(x, outcome, st)
  BY <1>1, CreateHeld, EditDetachHeld
<1>2. CASE \E x \in ExternalIds : AcceptExternalOffer(x) \/ DetachExternalOffer(x)
  BY <1>2, AcceptHeld, EditDetachHeld
<1>3. ASSUME NEW x \in ExternalIds, NEW picked, NEW d \in DeadlineChoices(picked),
             \/ DeleteExternalOffer(x, picked, d)
             \/ \E st \in {"offered", "declined"} : UnacceptExternalOffer(x, st, picked, d)
      PROVE  Allowed
  <2>1. PICK st \in {"offered", "declined"} :
            DeleteExternalOffer(x, picked, d) \/ UnacceptExternalOffer(x, st, picked, d)
    BY <1>3
  <2> QED BY <2>1, UnacceptHeld
<1>4. CASE \E e \in Cycles, rows \in SUBSET ExternalIds : \E beyond \in SUBSET rows :
              AttachExternalOffers(e, rows, beyond)
  BY <1>4, AttachHeld
<1>5. CASE \E out, in \in AcceptanceIds : \E picked \in Choices(out) :
              \E d \in DeadlineChoices(picked) : ReplacePlacement(out, in, picked, d)
  BY <1>5, ReplaceHeld DEF Allowed
<1> QED BY <1>1, <1>2, <1>3, <1>4, <1>5 DEF ExternalStep

\* DER-1/ELG-3.6: beside a placement the student holds, from the portal or from
\* outside, another one is gained only while staff allow the outcome gate;
\* replace_placement gives one up for each it takes.
THEOREM SecondPlacementNeedsOverrideHolds == ExternalSpec => SecondPlacementNeedsOverride
<1> DEFINE Moves ==
        /\ HeldPlacements # {} /\ forced' = {}
        /\ Cardinality(HeldPlacements') > Cardinality(HeldPlacements)
        => overrides["outcome_gate"] = "allow"
<1>1. ReportInv /\ [ExternalNext]_<<vars, memberVars>> => [Moves]_<<vars, memberVars>>
  <2> SUFFICES ASSUME ReportInv, ExternalNext, HeldPlacements # {}, forced' = {},
                      Cardinality(HeldPlacements') > Cardinality(HeldPlacements)
               PROVE  overrides["outcome_gate"] = "allow"
    OBVIOUS
  <2>0. TypeOK /\ BooksInv /\ forced = {}
    BY AllForcedStays DEF ReportInv, ExternalTypes
  <2>1. Allowed
    <3>1. CASE PortalStep
      <4>1. [Next]_vars
        BY <3>1, PortalIsNext
      <4> QED BY <2>0, <4>1, PortalHeld
    <3>2. CASE MembershipStep
      <4>1. UNCHANGED <<offers, external>>
        BY <3>2, MembershipFrame DEF offerVars
      <4> QED BY <2>0, <4>1, AsideHeld
    <3>3. CASE ExternalStep
      BY <2>0, <3>3, ExternalHeld
    <3> QED BY <3>1, <3>2, <3>3 DEF ExternalNext
  <2>2. ~HeldStep
    BY HeldStepCounts
  <2> QED BY <2>1, <2>2 DEF Allowed
<1> QED BY <1>1, ReportHolds, PTL DEF ExternalSpec, SecondPlacementNeedsOverride

-----------------------------------------------------------------------------
(* What a restoration gives back.                                          *)

\* Of the sweeps of an application by one acceptance one is remembered, and an
\* application a sweep was the last to touch is out of the running.
CausesInv ==
    /\ \A e, f \in caused : e.app = f.app /\ e.offer = f.offer => e = f
    /\ \A e \in standing : status[e.app] \notin LiveStatuses

CauseStep ==
    \/ UNCHANGED <<status, caused, standing>>
    \/ \E causes, revived :
          /\ Record(status', causes, revived)
          /\ \A e, f \in causes : e.app = f.app /\ e.offer = f.offer => e = f
          /\ \A e \in causes : status'[e.app] \notin LiveStatuses

LEMMA CausesKept ==
    ASSUME TypeOK, CausesInv, CauseStep PROVE CausesInv'
<1>1. CASE UNCHANGED <<status, caused, standing>>
  BY <1>1 DEF CausesInv
<1>2. ASSUME NEW causes, NEW revived, Record(status', causes, revived),
             \A e, f \in causes : e.app = f.app /\ e.offer = f.offer => e = f,
             \A e \in causes : status'[e.app] \notin LiveStatuses
      PROVE  CausesInv'
  <2>1. caused' = (caused \ Superseded(causes)) \cup causes
    BY <1>2 DEF Record
  <2>2. standing' = {e \in standing \ Superseded(causes) : status'[e.app] = status[e.app]} \cup causes
    BY <1>2 DEF Record
  <2>3. ASSUME NEW e \in caused', NEW f \in caused', e.app = f.app, e.offer = f.offer
        PROVE  e = f
    <3>1. e \in causes <=> f \in causes
      BY <2>1, <2>3 DEF Superseded
    <3> QED BY <1>2, <2>1, <2>3, <3>1 DEF CausesInv
  <2>4. ASSUME NEW e \in standing' PROVE status'[e.app] \notin LiveStatuses
    BY <1>2, <2>2, <2>4 DEF CausesInv
  <2> QED BY <2>3, <2>4 DEF CausesInv
<1> QED BY <1>1, <1>2 DEF CauseStep

LEMMA RecordCauses ==
    ASSUME NEW st, NEW revived, Record(st, {}, revived) PROVE CauseStep
<1>1. Record(status', {}, revived)
  BY DEF Record
<1> QED BY <1>1 DEF CauseStep

LEMMA SetStatusCauses ==
    ASSUME NEW a, NEW to, NEW revived, SetStatus(a, to, revived) PROVE CauseStep
BY RecordCauses DEF SetStatus

\* The causes of one acceptance.
LEMMA SweepCauses ==
    ASSUME NEW st, NEW h, NEW swept, NEW revived,
           Record(status', SweptCauses(st, h, swept), revived),
           \A b \in swept : status'[b] \notin LiveStatuses
    PROVE  CauseStep
<1> DEFINE causes == SweptCauses(st, h, swept)
<1>1. \A e \in causes : e.app \in swept /\ e = [app |-> e.app, offer |-> h, from |-> st[e.app]]
  BY DEF SweptCauses
<1> HIDE DEF causes
<1>2. \A e, f \in causes : e.app = f.app /\ e.offer = f.offer => e = f
  <2> SUFFICES ASSUME NEW e \in causes, NEW f \in causes, e.app = f.app PROVE e = f
    OBVIOUS
  <2>1. e = [app |-> e.app, offer |-> h, from |-> st[e.app]]
    BY <1>1
  <2>2. f = [app |-> f.app, offer |-> h, from |-> st[f.app]]
    BY <1>1
  <2> QED BY <2>1, <2>2, Zenon
<1>3. \A e \in causes : status'[e.app] \notin LiveStatuses
  BY <1>1
<1>4. Record(status', causes, revived)
  BY DEF causes
<1> QED BY <1>2, <1>3, <1>4 DEF CauseStep

LEMMA CascadeIsOver == \A s : CascadeStatus(s) \notin LiveStatuses
BY DEF CascadeStatus, LiveStatuses

LEMMA AcceptanceCauses ==
    ASSUME NEW a, NEW o, NEW st, NEW off, NEW count, NEW credits,
           PlanAcceptance(a, o, st, off, count, credits)
    PROVE  CauseStep
<1> DEFINE swept == Cascade(a, st)
           to == [b \in Apps |-> IF b = a THEN "accepted"
                                 ELSE IF b \in swept THEN CascadeStatus(st[b]) ELSE st[b]]
<1>1. Record(to, SweptCauses(st, o, swept), {})
  BY DEF PlanAcceptance, SweptCauses
<1>2. status' = to
  BY <1>1 DEF Record
<1>3. \A b \in swept : b \in Apps /\ b # a
  BY DEF Cascade
<1> HIDE DEF swept
<1>4. \A b \in swept : status'[b] \notin LiveStatuses
  BY <1>2, <1>3, CascadeIsOver
<1>5. Record(status', SweptCauses(st, o, swept), {})
  BY <1>1, <1>2
<1> QED BY <1>4, <1>5, SweepCauses

LEMMA PortalCauses ==
    ASSUME [Next]_vars PROVE CauseStep
<1>0. UNCHANGED appVars => CauseStep
  BY DEF CauseStep, appVars
<1>1. CASE StudentStep
  <2>1. ASSUME NEW a, Apply(a) PROVE CauseStep
    BY <2>1, SetStatusCauses DEF Apply
  <2>2. ASSUME NEW a, AcceptOffer(a) PROVE CauseStep
    BY <2>2, AcceptanceCauses DEF AcceptOffer
  <2>3. ASSUME NEW a, WithdrawApplication(a) \/ DeclineOffer(a) PROVE CauseStep
    BY <2>3, SetStatusCauses DEF WithdrawApplication, DeclineOffer, PlanDecline
  <2> QED BY <1>1, <2>1, <2>2, <2>3 DEF StudentStep
<1>2. CASE ProcessStep
  <2>1. ASSUME NEW a, Promote(a) \/ Reject(a) \/ ExtendOffer(a) PROVE CauseStep
    BY <2>1, SetStatusCauses DEF Promote, Reject, ExtendOffer, PlanExtension
  <2>2. ASSUME NEW a, NEW outcome, RecordOpenOutcome(a, outcome) PROVE CauseStep
    <3> DEFINE fresh == status[a] = "in_progress"
               o == IF fresh THEN NextId(a) ELSE CurrentId(a)
               off == IF fresh THEN [offers EXCEPT ![o] = FreshRow(0)] ELSE offers
               st == IF fresh THEN [status EXCEPT ![a] = "offered"] ELSE status
               count == IF fresh THEN [offerCount EXCEPT ![a] = @ + 1] ELSE offerCount
    <3>1. \/ PlanExtension(a, 0, {}) \/ PlanDecline(a, o, off)
          \/ PlanAcceptance(a, o, st, off, count, ConstraintsCredit(a, "accept"))
      BY <2>2 DEF RecordOpenOutcome
    <3> HIDE DEF o, off, st, count
    <3> QED BY <3>1, SetStatusCauses, AcceptanceCauses DEF PlanExtension, PlanDecline
  <2> QED BY <1>2, <2>1, <2>2 DEF ProcessStep
<1>3. CASE InterventionStep
  <2>1. ASSUME NEW a, NEW picked, NEW d, TerminateOffer(a, picked, d) PROVE CauseStep
    BY <2>1, RecordCauses DEF TerminateOffer
  <2>2. ASSUME NEW a, NEW d, ReExtendOffer(a, d) PROVE CauseStep
    BY <2>2, SetStatusCauses DEF ReExtendOffer, PlanExtension
  <2>3. ASSUME NEW a, ReinstateApplication(a) PROVE CauseStep
    BY <2>3, SetStatusCauses DEF ReinstateApplication
  <2>4. ASSUME NEW a, NEW to, ForceTransition(a, to) PROVE CauseStep
    BY <2>4, SetStatusCauses DEF ForceTransition
  <2> QED BY <1>3, <2>1, <2>2, <2>3, <2>4 DEF InterventionStep
<1>4. CASE JobStep
  <2>1. ASSUME NEW j, NEW rows, CancelJob(j, rows) PROVE CauseStep
    BY <2>1, RecordCauses DEF CancelJob
  <2>2. ASSUME NEW j, NEW d, UpdateJobBasics(j, d) PROVE CauseStep
    BY <1>0, <2>2 DEF UpdateJobBasics
  <2>3. ASSUME NEW j, NEW on, SetPublished(j, on) PROVE CauseStep
    BY <1>0, <2>3 DEF SetPublished
  <2> QED BY <1>4, <2>1, <2>2, <2>3 DEF JobStep
<1>5. CASE CycleStep
  BY <1>0, <1>5, RecordCauses DEF CycleStep, ExitCycle, RestoreMembership, ArchiveCycle, ExitCascade
<1>6. ASSUME NEW t \in tasks, EnforceOfferExpiry(t) PROVE CauseStep
  <2>1. \/ UNCHANGED appVars
        \/ PlanDecline(t.offer[1], t.offer, offers)
        \/ PlanAcceptance(t.offer[1], t.offer, status, offers, offerCount,
                          ConstraintsCredit(t.offer[1], "accept"))
    BY <1>6 DEF EnforceOfferExpiry
  <2> QED BY <1>0, <2>1, SetStatusCauses, AcceptanceCauses DEF PlanDecline
<1>7. CASE \E dom \in Domains, value \in {"none", "allow", "deny"} : SetOverride(dom, value)
  BY <1>0, <1>7 DEF SetOverride
<1>8. CASE Tick \/ UNCHANGED vars
  BY <1>0, <1>8 DEF Tick, vars
<1> QED BY <1>1, <1>2, <1>3, <1>4, <1>5, <1>6, <1>7, <1>8 DEF Next

LEMMA AllCauses ==
    ASSUME TypeOK, [ExternalNext]_<<vars, memberVars>> PROVE CauseStep
<1>1. CASE PortalStep \/ UNCHANGED <<vars, memberVars>>
  <2>1. [Next]_vars
    BY <1>1, PortalIsNext
  <2> QED BY <2>1, PortalCauses
<1>2. CASE MembershipStep
  BY <1>2, MembershipFrame, RecordCauses DEF ExitCascade, CauseStep, appVars
<1>3. CASE ExternalStep
  <2>1. CASE Aside
    BY <2>1 DEF Aside, CauseStep
  <2>2. ASSUME NEW out, NEW picked, NEW d, NEW in, NEW swept, NEW credit,
               Posting(out, picked, d, in, swept, credit)
        PROVE  CauseStep
    <3>1. Record(status', SweptCauses(status, in, swept), PickedApps(picked))
      BY <2>2 DEF Posting, Posted
    <3>2. ASSUME NEW b \in swept PROVE status'[b] \notin LiveStatuses
      <4>1. b \in Apps /\ ~(IsPortal(in) /\ b = in[1])
        BY <2>2, <3>2 DEF Posting, Warranted
      <4> QED BY <2>2, <3>2, <4>1, PostedFacts, CascadeIsOver DEF PostedStatus
    <3> QED BY <3>1, <3>2, SweepCauses
  <2> QED BY <1>3, <2>1, <2>2, ExternalKinds
<1> QED BY <1>1, <1>2, <1>3 DEF ExternalNext

-----------------------------------------------------------------------------
\* What is picked gets back what it had when it was swept.
LEMMA PostingGivesBack ==
    ASSUME TypeOK, CausesInv, NEW out, NEW picked, NEW d, NEW in, NEW swept, NEW credit,
           Posting(out, picked, d, in, swept, credit),
           NEW e \in standing, e.offer = out, status'[e.app] \in LiveStatuses
    PROVE  e.from = status'[e.app]
<1> DEFINE a == e.app
<1>1. e \in caused /\ a \in Apps /\ status[a] \notin LiveStatuses
  BY DEF TypeOK, CausesInv
<1>2. status'[a] = PostedStatus(out, picked, in, swept, a)
  BY <1>1, PostedFacts
<1>3. "accepted" \notin LiveStatuses /\ "offer_terminated" \notin LiveStatuses
  BY DEF LiveStatuses
<1>4. a \in PickedApps(picked) /\ status'[a] = GivenBack(picked, a)
  BY <1>1, <1>2, <1>3, CascadeIsOver DEF PostedStatus
<1>5. PICK f \in picked : f.app = a /\ f.from = GivenBack(picked, a)
  BY <1>4, PickedFacts DEF Posting, Warranted
<1>6. f \in caused /\ f.offer = out
  BY PickedFacts DEF Posting, Warranted
<1>7. f = e
  BY <1>1, <1>5, <1>6 DEF CausesInv
<1> QED BY <1>4, <1>5, <1>7

\* Only these commands end an external acceptance.
LEMMA EndsOwn ==
    ASSUME TypeOK, ExternalStep, NEW x \in ExternalIds,
           external[x].status = "accepted", external'[x].status # "accepted"
    PROVE  \E picked, d, in, swept, credit : Posting(x, picked, d, in, swept, credit)
<1>1. ASSUME NEW y \in ExternalIds, NEW outcome, NEW st, CreateExternalOffer(y, outcome, st)
      PROVE  FALSE
  <2>1. external[y].status = "absent"
    BY <1>1 DEF CreateExternalOffer
  <2>2. \A z \in ExternalIds \ {y} : external'[z] = external[z]
    BY <1>1 DEF CreateExternalOffer, TypeOK
  <2> QED BY <2>1, <2>2
<1>2. ASSUME NEW y \in ExternalIds, NEW outcome, NEW st, EditExternalOffer(y, outcome, st)
      PROVE  FALSE
  <2>1. external[y].status # "accepted"
    BY <1>2 DEF EditExternalOffer
  <2>2. \A z \in ExternalIds \ {y} : external'[z] = external[z]
    BY <1>2 DEF EditExternalOffer, TypeOK
  <2> QED BY <2>1, <2>2
<1>3. ASSUME NEW y \in ExternalIds, AcceptExternalOffer(y)
      PROVE  FALSE
  <2>1. external[y].status # "accepted"
    BY <1>3 DEF AcceptExternalOffer
  <2>2. \A z \in ExternalIds \ {y} : external'[z] = external[z]
    BY <1>3 DEF AcceptExternalOffer, TypeOK
  <2> QED BY <2>1, <2>2
<1>4. ASSUME NEW y \in ExternalIds, DetachExternalOffer(y)
      PROVE  FALSE
  <2>1. \A z \in ExternalIds : external'[z].status = external[z].status
    BY <1>4 DEF DetachExternalOffer, TypeOK, ExternalRow
  <2> QED BY <2>1
<1>5. ASSUME NEW y \in ExternalIds, NEW picked, NEW d \in DeadlineChoices(picked), NEW st,
             DeleteExternalOffer(y, picked, d) \/ UnacceptExternalOffer(y, st, picked, d)
      PROVE  \E p, e, in, swept, credit : Posting(x, p, e, in, swept, credit)
  <2>1. \A z \in ExternalIds \ {y} : external'[z] = external[z]
    BY <1>5 DEF DeleteExternalOffer, UnacceptExternalOffer, TypeOK
  <2>2. x = y
    BY <2>1
  <2> QED BY <1>5, <2>2, UnacceptPosts
<1>6. ASSUME NEW c, NEW rows, NEW beyond, AttachExternalOffers(c, rows, beyond)
      PROVE  FALSE
  BY <1>6, AttachStatuses
<1>7. ASSUME NEW out \in AcceptanceIds, NEW in \in AcceptanceIds, NEW picked,
             NEW d \in DeadlineChoices(picked), ReplacePlacement(out, in, picked, d)
      PROVE  \E p, e, i, swept, credit : Posting(x, p, e, i, swept, credit)
  <2>1. x = out
    <3>1. x # in
      <4>1. x = in => external[x].status = "offered"
        BY <1>7, ExternalIsNotPortal DEF ReplacePlacement, AwaitsAnswer
      <4> QED BY <4>1
    <3> QED BY <1>7, <3>1, ReplaceExternals
  <2> QED BY <1>7, <2>1, ReplacementPosts
<1>8. CASE \E y \in ExternalIds :
         \/ \E outcome \in Outcomes, st \in {"offered", "accepted", "declined"} :
              CreateExternalOffer(y, outcome, st) \/ EditExternalOffer(y, outcome, st)
         \/ AcceptExternalOffer(y)
         \/ DetachExternalOffer(y)
  BY <1>1, <1>2, <1>3, <1>4, <1>8
<1>9. CASE \E y \in ExternalIds : \E picked \in Choices(y) : \E d \in DeadlineChoices(picked) :
              \/ DeleteExternalOffer(y, picked, d)
              \/ \E st \in {"offered", "declined"} : UnacceptExternalOffer(y, st, picked, d)
  BY <1>5, <1>9
<1> QED BY <1>6, <1>7, <1>8, <1>9 DEF ExternalStep

LEMMA RestorationStep ==
    ASSUME TypeOK, CausesInv, ExternalNext PROVE GivesBackWhatItTook
<1> SUFFICES ASSUME NEW x \in ExternalIds, NEW a \in Apps,
                    external[x].status = "accepted", external'[x].status # "accepted",
                    NEW e \in standing, e.app = a, e.offer = x, status'[a] \in LiveStatuses
             PROVE  e.from = status'[a]
  BY DEF GivesBackWhatItTook
<1>1. ExternalStep
  <2>1. PortalStep => UNCHANGED external
    BY PortalIsNext, ExternalStays
  <2> QED BY <2>1, MembershipFrame DEF ExternalNext
<1> QED BY <1>1, EndsOwn, PostingGivesBack

\* EXT-4/OFR-5: ending an external acceptance gives an application back exactly
\* the status the latest sweep by that acceptance took from it.
THEOREM RestorationGivesBackHolds == ExternalSpec => RestorationGivesBack
<1> DEFINE Inv == ReportInv /\ CausesInv
<1>1. MembershipInit => Inv
  BY ReportInit DEF MembershipInit, InitWith, CausesInv
<1>2. Inv /\ [ExternalNext]_<<vars, memberVars>> => Inv'
  <2> SUFFICES ASSUME ReportInv, CausesInv, [ExternalNext]_<<vars, memberVars>>
               PROVE  ReportInv' /\ CausesInv'
    OBVIOUS
  <2>1. TypeOK
    BY DEF ReportInv, ExternalTypes
  <2> QED BY <2>1, ReportKept, AllCauses, CausesKept
<1>3. Inv /\ [ExternalNext]_<<vars, memberVars>> => [GivesBackWhatItTook]_<<vars, memberVars>>
  BY RestorationStep DEF ReportInv, ExternalTypes
<1> QED BY <1>1, <1>2, <1>3, PTL DEF ExternalSpec, RestorationGivesBack
=============================================================================
