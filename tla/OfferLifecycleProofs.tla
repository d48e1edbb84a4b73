------------------------ MODULE OfferLifecycleProofs ------------------------
(***************************************************************************)
(* What holds of OfferLifecycle for every set of applications, jobs and    *)
(* cycles, every policy and every bound.                                   *)
(***************************************************************************)
EXTENDS OfferLifecycle, TLAPS

\* The conjuncts of TypeOK, grouped as the actions change them.
AppTypes ==
    /\ status \in [Apps -> Statuses]
    /\ caused \subseteq [app : Apps, offer : AcceptanceIds, from : LiveStatuses]
    /\ standing \subseteq caused
    /\ sanctioned \subseteq Apps
OfferTypes ==
    /\ offers \in [OfferIds -> OfferRow]
    /\ offerCount \in [Apps -> 0..MaxOffers]
    /\ tasks \subseteq [offer : OfferIds, at : Deadlines]
StaffTypes ==
    /\ jobs \in [Jobs -> [published : BOOLEAN, cancelled : BOOLEAN, deadline : Deadlines]]
    /\ archived \subseteq Cycles
    /\ member \in [Cycles -> BOOLEAN]
    /\ overrides \in [AllDomains -> {"none", "allow", "deny"}]
    /\ external \in [ExternalIds -> ExternalRow]
RestTypes ==
    /\ forced \subseteq Apps
    /\ now \in 0..MaxTime
    /\ interventions \in 0..MaxInterventions

LEMMA TypeParts == TypeOK <=> AppTypes /\ OfferTypes /\ StaffTypes /\ RestTypes
  BY DEF TypeOK, AppTypes, OfferTypes, StaffTypes, RestTypes

LEMMA NextTypeParts == AppTypes' /\ OfferTypes' /\ StaffTypes' /\ RestTypes' => TypeOK'
  BY DEF TypeOK, AppTypes, OfferTypes, StaffTypes, RestTypes

LEMMA UnchangedParts ==
    /\ AppTypes /\ UNCHANGED appVars => AppTypes'
    /\ OfferTypes /\ UNCHANGED offerVars => OfferTypes'
    /\ StaffTypes /\ UNCHANGED staffVars => StaffTypes'
    /\ RestTypes /\ UNCHANGED <<forced, now, interventions>> => RestTypes'
  <1>1. AppTypes /\ UNCHANGED appVars => AppTypes'
    BY DEF AppTypes, appVars
  <1>2. OfferTypes /\ UNCHANGED offerVars => OfferTypes'
    BY DEF OfferTypes, offerVars
  <1>3. StaffTypes /\ UNCHANGED staffVars => StaffTypes'
    BY DEF StaffTypes, staffVars
  <1>4. RestTypes /\ UNCHANGED <<forced, now, interventions>> => RestTypes'
    BY DEF RestTypes
  <1> QED BY <1>1, <1>2, <1>3, <1>4

LEMMA StatusFacts ==
    /\ LiveStatuses \subseteq Statuses
    /\ \A st \in LiveStatuses : CascadeStatus(st) \in Statuses
    /\ \A st \in Statuses : ExitStatus(st) \in Statuses
  BY DEF LiveStatuses, Statuses, CascadeStatus, ExitStatus

LEMMA OfferIdFacts ==
    ASSUME NEW a \in Apps, OfferTypes
    PROVE  /\ offerCount[a] \in 0..MaxOffers
           /\ offerCount[a] > 0 => CurrentId(a) \in OfferIds
           /\ offerCount[a] < MaxOffers => NextId(a) \in OfferIds
  BY ConstantsAssumption DEF OfferTypes, CurrentId, NextId, OfferIds, Slots

LEMMA FreshRowType == \A d \in Deadlines : FreshRow(d) \in OfferRow
  BY DEF FreshRow, OfferRow, AllDomains

\* Record keeps the application variables well typed.
LEMMA RecordType ==
    ASSUME AppTypes,
           NEW st \in [Apps -> Statuses],
           NEW causes \in SUBSET [app : Apps, offer : AcceptanceIds, from : LiveStatuses],
           NEW revived \in SUBSET Apps,
           Record(st, causes, revived)
    PROVE  AppTypes'
  BY DEF AppTypes, Record

LEMMA SetStatusType ==
    ASSUME AppTypes, NEW a \in Apps, NEW to \in Statuses, NEW revived \in SUBSET Apps,
           SetStatus(a, to, revived)
    PROVE  AppTypes'
  <1>1. [status EXCEPT ![a] = to] \in [Apps -> Statuses]
    BY DEF AppTypes
  <1> QED BY <1>1, RecordType DEF SetStatus

LEMMA ExpiryTaskType ==
    ASSUME NEW a, NEW o \in OfferIds, NEW d \in Deadlines
    PROVE  ExpiryTask(a, o, d) \subseteq [offer : OfferIds, at : Deadlines]
  BY DEF ExpiryTask

LEMMA PlanExtensionType ==
    ASSUME AppTypes, OfferTypes, NEW a \in Apps, NEW d \in Deadlines,
           NEW revived \in SUBSET Apps, PlanExtension(a, d, revived)
    PROVE  AppTypes' /\ OfferTypes'
  <1>1. AppTypes'
    BY SetStatusType DEF PlanExtension, Statuses
  <1>2. NextId(a) \in OfferIds
    BY OfferIdFacts DEF PlanExtension
  <1>3. offers' \in [OfferIds -> OfferRow]
    BY <1>2, FreshRowType DEF PlanExtension, OfferTypes
  <1>4. offerCount' \in [Apps -> 0..MaxOffers]
    BY ConstantsAssumption DEF PlanExtension, OfferTypes
  <1>5. tasks' \subseteq [offer : OfferIds, at : Deadlines]
    BY <1>2, ExpiryTaskType DEF PlanExtension, OfferTypes
  <1> QED BY <1>1, <1>3, <1>4, <1>5 DEF OfferTypes

LEMMA PlanAcceptanceType ==
    ASSUME AppTypes, NEW a \in Apps, NEW o \in OfferIds,
           NEW st \in [Apps -> Statuses], NEW off \in [OfferIds -> OfferRow],
           NEW count, NEW credits \in SUBSET AllDomains,
           PlanAcceptance(a, o, st, off, count, credits)
    PROVE  AppTypes' /\ offers' \in [OfferIds -> OfferRow]
  <1> DEFINE swept == Cascade(a, st)
             to == [b \in Apps |-> IF b = a THEN "accepted"
                                   ELSE IF b \in swept THEN CascadeStatus(st[b])
                                   ELSE st[b]]
             causes == {[app |-> b, offer |-> o, from |-> st[b]] : b \in swept}
  <1>1. \A b \in swept : b \in Apps /\ st[b] \in LiveStatuses
    BY DEF Cascade, CascadeTakes
  <1>2. to \in [Apps -> Statuses]
    BY <1>1, StatusFacts DEF Statuses
  <1>3. causes \in SUBSET [app : Apps, offer : AcceptanceIds, from : LiveStatuses]
    BY <1>1 DEF AcceptanceIds
  <1>4. Record(to, causes, {})
    BY DEF PlanAcceptance
  <1>5. AppTypes'
    <2> HIDE DEF to, causes
    <2> QED BY <1>2, <1>3, <1>4, RecordType
  <1>6. offers' \in [OfferIds -> OfferRow]
    <2>1. \A p \in OfferIds :
             /\ [off[p] EXCEPT !.response = "accepted", !.waived = credits] \in OfferRow
             /\ [off[p] EXCEPT !.response = "declined"] \in OfferRow
             /\ off[p] \in OfferRow
      BY DEF OfferRow
    <2> QED BY <2>1 DEF PlanAcceptance
  <1> QED BY <1>5, <1>6

LEMMA PlanDeclineType ==
    ASSUME AppTypes, NEW a \in Apps, NEW o \in OfferIds,
           NEW off \in [OfferIds -> OfferRow], PlanDecline(a, o, off)
    PROVE  AppTypes' /\ offers' \in [OfferIds -> OfferRow]
  <1>1. AppTypes'
    BY SetStatusType DEF PlanDecline, Statuses
  <1>2. [off EXCEPT ![o].response = "declined"] \in [OfferIds -> OfferRow]
    BY DEF OfferRow
  <1> QED BY <1>1, <1>2 DEF PlanDecline

-----------------------------------------------------------------------------
(* TypeOK, one lemma per action that writes an application or an offer.    *)

LEMMA InitType ==
    ASSUME NEW memberOf \in [Cycles -> BOOLEAN], InitWith(memberOf)
    PROVE  TypeOK
  <1>1. AppTypes
    BY DEF InitWith, AppTypes, Statuses
  <1>2. OfferTypes
    BY ConstantsAssumption DEF InitWith, OfferTypes, NoRow, OfferRow, Deadlines
  <1>3. StaffTypes
    BY ConstantsAssumption DEF InitWith, StaffTypes, Deadlines, NoExternal, ExternalRow,
              ExternalStatuses, Outcomes
  <1>4. RestTypes
    BY ConstantsAssumption DEF InitWith, RestTypes
  <1> QED BY <1>1, <1>2, <1>3, <1>4, TypeParts

LEMMA JobDeadlineType ==
    ASSUME StaffTypes, NEW a \in Apps
    PROVE  jobs[JobOf[a]].deadline \in Deadlines
  BY ConstantsAssumption DEF StaffTypes

LEMMA CreditType ==
    ASSUME NEW a, NEW phase PROVE ConstraintsCredit(a, phase) \in SUBSET AllDomains
  BY DEF ConstraintsCredit, AllDomains

\* A step that moves one application's status and leaves offers and staff alone.
LEMMA StatusStepType ==
    ASSUME TypeOK, NEW a \in Apps, NEW to \in Statuses, NEW revived \in SUBSET Apps,
           SetStatus(a, to, revived),
           UNCHANGED <<offerVars, staffVars, forced, now, interventions>>
    PROVE  TypeOK'
  <1>0. AppTypes /\ OfferTypes /\ StaffTypes /\ RestTypes
    BY TypeParts
  <1>1. AppTypes'
    BY <1>0, SetStatusType
  <1>2. UNCHANGED offerVars /\ UNCHANGED staffVars /\ UNCHANGED <<forced, now, interventions>>
    OBVIOUS
  <1>3. OfferTypes' /\ StaffTypes' /\ RestTypes'
    BY <1>0, <1>2, UnchangedParts
  <1> QED BY <1>1, <1>3, NextTypeParts

LEMMA StudentStepType == TypeOK /\ StudentStep => TypeOK'
  <1> SUFFICES ASSUME TypeOK, NEW a \in Apps,
                      \/ Apply(a) \/ WithdrawApplication(a)
                      \/ AcceptOffer(a) \/ DeclineOffer(a)
               PROVE  TypeOK'
    BY DEF StudentStep
  <1>0. AppTypes /\ OfferTypes /\ StaffTypes /\ RestTypes
    BY TypeParts
  <1>1. CASE Apply(a)
    <2>1. (IF ConstraintsCredit(a, "apply") # {} THEN {a} ELSE {}) \in SUBSET Apps
      OBVIOUS
    <2> QED BY <1>1, <2>1, StatusStepType DEF Apply, Statuses
  <1>2. CASE WithdrawApplication(a)
    BY <1>2, StatusStepType DEF WithdrawApplication, Statuses
  <1>3. CASE AcceptOffer(a)
    <2>1. CurrentId(a) \in OfferIds
      BY <1>0, <1>3, OfferIdFacts DEF AcceptOffer, Answerable
    <2>2. PlanAcceptance(a, CurrentId(a), status, offers, offerCount,
                         ConstraintsCredit(a, "accept"))
      BY <1>3 DEF AcceptOffer
    <2>3. AppTypes' /\ offers' \in [OfferIds -> OfferRow]
      BY <1>0, <2>1, <2>2, CreditType, PlanAcceptanceType DEF AppTypes, OfferTypes
    <2>4. UNCHANGED <<offerCount, tasks, staffVars, forced, now, interventions>>
      BY <1>3 DEF AcceptOffer
    <2> QED BY <1>0, <2>3, <2>4, NextTypeParts, UnchangedParts DEF OfferTypes
  <1>4. CASE DeclineOffer(a)
    <2>1. CurrentId(a) \in OfferIds
      BY <1>0, <1>4, OfferIdFacts DEF DeclineOffer, Answerable
    <2>2. PlanDecline(a, CurrentId(a), offers)
      BY <1>4 DEF DeclineOffer
    <2>3. AppTypes' /\ offers' \in [OfferIds -> OfferRow]
      BY <1>0, <2>1, <2>2, PlanDeclineType DEF OfferTypes
    <2>4. UNCHANGED <<offerCount, tasks, staffVars, forced, now, interventions>>
      BY <1>4 DEF DeclineOffer
    <2> QED BY <1>0, <2>3, <2>4, NextTypeParts, UnchangedParts DEF OfferTypes
  <1> QED BY <1>1, <1>2, <1>3, <1>4

LEMMA ProcessStepType == TypeOK /\ ProcessStep => TypeOK'
  <1> SUFFICES ASSUME TypeOK, NEW a \in Apps,
                      NEW outcome \in {"offered", "accepted", "declined"},
                      \/ Promote(a) \/ Reject(a) \/ ExtendOffer(a)
                      \/ RecordOpenOutcome(a, outcome)
               PROVE  TypeOK'
    BY DEF ProcessStep
  <1>0. AppTypes /\ OfferTypes /\ StaffTypes /\ RestTypes
    BY TypeParts
  <1>1. CASE Promote(a)
    BY <1>1, StatusStepType DEF Promote, Statuses
  <1>2. CASE Reject(a)
    BY <1>2, StatusStepType DEF Reject, Statuses
  <1>3. CASE ExtendOffer(a)
    <2>1. AppTypes' /\ OfferTypes'
      BY <1>0, <1>3, JobDeadlineType, PlanExtensionType DEF ExtendOffer
    <2> QED BY <1>0, <1>3, <2>1, NextTypeParts, UnchangedParts DEF ExtendOffer
  <1>4. CASE RecordOpenOutcome(a, outcome)
    <2> DEFINE fresh == status[a] = "in_progress"
               o == IF fresh THEN NextId(a) ELSE CurrentId(a)
               off == IF fresh THEN [offers EXCEPT ![o] = FreshRow(0)] ELSE offers
               st == IF fresh THEN [status EXCEPT ![a] = "offered"] ELSE status
               count == IF fresh THEN [offerCount EXCEPT ![a] = @ + 1] ELSE offerCount
    <2>1. fresh => offerCount[a] < MaxOffers
      BY <1>4 DEF RecordOpenOutcome
    <2>2. o \in OfferIds
      BY <1>0, <1>4, OfferIdFacts DEF RecordOpenOutcome, Answerable
    <2>3. FreshRow(0) \in OfferRow /\ 0 \in Deadlines
      BY FreshRowType, ConstantsAssumption DEF Deadlines
    <2>4. off \in [OfferIds -> OfferRow]
      BY <1>0, <2>2, <2>3 DEF OfferTypes
    <2>5. st \in [Apps -> Statuses]
      BY <1>0 DEF AppTypes, Statuses
    <2>6. count \in [Apps -> 0..MaxOffers]
      BY <1>0, <2>1, ConstantsAssumption DEF OfferTypes
    <2>7. CASE PlanExtension(a, 0, {})
      BY <1>0, <1>4, <2>3, <2>7, PlanExtensionType, NextTypeParts, UnchangedParts
      DEF RecordOpenOutcome
    <2>8. CASE /\ PlanAcceptance(a, o, st, off, count, ConstraintsCredit(a, "accept"))
               /\ offerCount' = count /\ UNCHANGED tasks
      <3>1. AppTypes' /\ offers' \in [OfferIds -> OfferRow]
        <4> HIDE DEF o, off, st, count
        <4> QED BY <1>0, <2>2, <2>4, <2>5, <2>8, CreditType, PlanAcceptanceType
      <3> HIDE DEF count
      <3> QED BY <1>0, <1>4, <2>6, <2>8, <3>1, NextTypeParts, UnchangedParts
          DEF RecordOpenOutcome, OfferTypes
    <2>9. CASE PlanDecline(a, o, off) /\ offerCount' = count /\ UNCHANGED tasks
      <3>1. AppTypes' /\ offers' \in [OfferIds -> OfferRow]
        <4> HIDE DEF o, off
        <4> QED BY <1>0, <2>2, <2>4, <2>9, PlanDeclineType
      <3> HIDE DEF count
      <3> QED BY <1>0, <1>4, <2>6, <2>9, <3>1, NextTypeParts, UnchangedParts
          DEF RecordOpenOutcome, OfferTypes
    <2> QED BY <1>4, <2>7, <2>8, <2>9 DEF RecordOpenOutcome
  <1> QED BY <1>1, <1>2, <1>3, <1>4

LEMMA ExpiryStepType ==
    ASSUME TypeOK, NEW t \in tasks, EnforceOfferExpiry(t) PROVE TypeOK'
  <1> DEFINE o == t.offer
             a == o[1]
  <1>0. AppTypes /\ OfferTypes /\ StaffTypes /\ RestTypes
    BY TypeParts
  <1>1. o \in OfferIds /\ a \in Apps /\ offers[o] \in OfferRow
    BY <1>0 DEF OfferTypes, OfferIds
  <1>2. offers[o].deadline \in Deadlines
    BY <1>1 DEF OfferRow
  <1>3. tasks \ {t} \subseteq [offer : OfferIds, at : Deadlines]
    BY <1>0 DEF OfferTypes
  <1>4. UNCHANGED <<offerCount, staffVars, forced, now, interventions>>
    BY DEF EnforceOfferExpiry
  <1>5. CASE tasks' = tasks \ {t} /\ UNCHANGED <<appVars, offers>>
    BY <1>0, <1>3, <1>4, <1>5, NextTypeParts, UnchangedParts DEF OfferTypes
  <1>6. CASE /\ tasks' = (tasks \ {t}) \cup {[offer |-> o, at |-> offers[o].deadline]}
             /\ UNCHANGED <<appVars, offers>>
    <2>1. tasks' \subseteq [offer : OfferIds, at : Deadlines]
      BY <1>1, <1>2, <1>3, <1>6
    <2> QED BY <1>0, <1>4, <1>6, <2>1, NextTypeParts, UnchangedParts DEF OfferTypes
  <1>7. CASE tasks' = tasks \ {t} /\ PlanDecline(a, o, offers)
    <2>1. AppTypes' /\ offers' \in [OfferIds -> OfferRow]
      BY <1>0, <1>1, <1>7, PlanDeclineType DEF OfferTypes
    <2> QED BY <1>0, <1>3, <1>4, <1>7, <2>1, NextTypeParts, UnchangedParts DEF OfferTypes
  <1>8. CASE /\ tasks' = tasks \ {t}
             /\ PlanAcceptance(a, o, status, offers, offerCount,
                               ConstraintsCredit(a, "accept"))
    <2>1. AppTypes' /\ offers' \in [OfferIds -> OfferRow]
      BY <1>0, <1>1, <1>8, CreditType, PlanAcceptanceType DEF OfferTypes, AppTypes
    <2> QED BY <1>0, <1>3, <1>4, <1>8, <2>1, NextTypeParts, UnchangedParts DEF OfferTypes
  <1> QED BY <1>5, <1>6, <1>7, <1>8 DEF EnforceOfferExpiry

LEMMA TerminateType ==
    ASSUME TypeOK, NEW a \in Apps, NEW picked \in SUBSET RestoreCandidates(CurrentId(a)),
           NEW d \in [{e.app : e \in picked} -> Deadlines], TerminateOffer(a, picked, d)
    PROVE  TypeOK'
  <1> DEFINE o == CurrentId(a)
             renewed == {e.app : e \in {x \in picked : x.from = "offered"}}
             restored == {e.app : e \in picked}
             back(b) == (CHOOSE e \in picked : e.app = b).from
             to == [b \in Apps |-> IF b = a THEN "offer_terminated"
                                   ELSE IF b \in restored THEN back(b) ELSE status[b]]
  <1>0. AppTypes /\ OfferTypes /\ StaffTypes /\ RestTypes
    BY TypeParts
  <1>1. o \in OfferIds
    BY <1>0, OfferIdFacts DEF TerminateOffer
  <1>2. picked \subseteq caused /\ \A e \in picked : e.app \in Apps /\ e.from \in LiveStatuses
    BY <1>0 DEF RestoreCandidates, AppTypes
  <1>3. renewed \subseteq restored /\ restored \subseteq Apps
    BY <1>2
  <1>4. \A b \in renewed : d[b] \in Deadlines /\ NextId(b) \in OfferIds
                           /\ offerCount[b] + 1 \in 0..MaxOffers
    <2>1. \A b \in renewed : offerCount[b] < MaxOffers
      BY DEF TerminateOffer
    <2>2. \A b \in renewed : d[b] \in Deadlines /\ NextId(b) \in OfferIds
      BY <1>0, <1>3, <2>1, OfferIdFacts
    <2>3. \A b \in renewed : offerCount[b] + 1 \in 0..MaxOffers
      BY <1>0, <1>3, <2>1, ConstantsAssumption DEF OfferTypes
    <2> QED BY <2>2, <2>3
  <1>5. \A b \in restored : back(b) \in LiveStatuses
    BY <1>2
  <1>6. to \in [Apps -> Statuses]
    <2> HIDE DEF back, restored
    <2> QED BY <1>0, <1>5, StatusFacts DEF AppTypes, Statuses
  <1>7. AppTypes'
    <2>1. Record(to, {}, restored)
      BY DEF TerminateOffer
    <2> HIDE DEF to, restored
    <2> QED BY <1>0, <1>3, <1>6, <2>1, RecordType
  <1>8. offers' \in [OfferIds -> OfferRow]
    <2>1. offers' = [p \in OfferIds |->
                        IF p = o THEN [offers[p] EXCEPT !.terminated = TRUE]
                        ELSE IF p[1] \in renewed /\ p = NextId(p[1]) THEN FreshRow(d[p[1]])
                        ELSE offers[p]]
      BY DEF TerminateOffer
    <2>2. \A p \in OfferIds : /\ offers[p] \in OfferRow
                              /\ [offers[p] EXCEPT !.terminated = TRUE] \in OfferRow
                              /\ p[1] \in renewed => FreshRow(d[p[1]]) \in OfferRow
      <3>1. \A b \in renewed : FreshRow(d[b]) \in OfferRow
        BY <1>4, FreshRowType
      <3>2. \A p \in OfferIds : /\ offers[p] \in OfferRow
                                /\ [offers[p] EXCEPT !.terminated = TRUE] \in OfferRow
        BY <1>0 DEF OfferTypes, OfferRow
      <3> HIDE DEF renewed
      <3> QED BY <3>1, <3>2
    <2> HIDE DEF renewed, o
    <2> QED BY <2>1, <2>2
  <1>9. offerCount' \in [Apps -> 0..MaxOffers]
    <2>1. offerCount' = [b \in Apps |-> offerCount[b] + IF b \in renewed THEN 1 ELSE 0]
      BY DEF TerminateOffer
    <2>2. \A b \in Apps : offerCount[b] \in 0..MaxOffers
      BY <1>0 DEF OfferTypes
    <2> HIDE DEF renewed
    <2> QED BY <1>4, <2>1, <2>2, ConstantsAssumption
  <1>10. tasks' \subseteq [offer : OfferIds, at : Deadlines]
    <2>1. tasks' = tasks \cup UNION {ExpiryTask(b, NextId(b), d[b]) : b \in renewed}
      BY DEF TerminateOffer
    <2>2. \A b \in renewed :
             ExpiryTask(b, NextId(b), d[b]) \subseteq [offer : OfferIds, at : Deadlines]
      BY <1>4, ExpiryTaskType
    <2> HIDE DEF renewed
    <2> QED BY <1>0, <2>1, <2>2 DEF OfferTypes
  <1>11. StaffTypes' /\ RestTypes'
    <2>1. UNCHANGED staffVars /\ UNCHANGED forced /\ UNCHANGED now
      BY DEF TerminateOffer, Intervene
    <2>2. interventions' \in 0..MaxInterventions
      BY <1>0, ConstantsAssumption DEF TerminateOffer, Intervene, RestTypes
    <2> QED BY <1>0, <2>1, <2>2, UnchangedParts DEF RestTypes
  <1> QED BY <1>7, <1>8, <1>9, <1>10, <1>11, NextTypeParts DEF OfferTypes

LEMMA InterveneType == RestTypes /\ Intervene /\ UNCHANGED forced => RestTypes'
  BY ConstantsAssumption DEF RestTypes, Intervene

LEMMA InterventionStepType == TypeOK /\ InterventionStep => TypeOK'
  <1> SUFFICES ASSUME TypeOK, InterventionStep PROVE TypeOK'
    OBVIOUS
  <1>0. AppTypes /\ OfferTypes /\ StaffTypes /\ RestTypes
    BY TypeParts
  <1> PICK a \in Apps :
        \/ \E picked \in RestoreChoices(a) :
             \E d \in [{e.app : e \in picked} -> Deadlines] : TerminateOffer(a, picked, d)
        \/ \E d \in Deadlines : ReExtendOffer(a, d)
        \/ ReinstateApplication(a)
        \/ \E to \in Statuses : ForceTransition(a, to)
    BY DEF InterventionStep
  <1>1. CASE \E picked \in RestoreChoices(a) :
               \E d \in [{e.app : e \in picked} -> Deadlines] : TerminateOffer(a, picked, d)
    BY <1>1, TerminateType DEF RestoreChoices
  <1>2. ASSUME NEW d \in Deadlines, ReExtendOffer(a, d) PROVE TypeOK'
    <2>1. AppTypes' /\ OfferTypes'
      BY <1>0, <1>2, PlanExtensionType DEF ReExtendOffer
    <2>2. UNCHANGED staffVars /\ UNCHANGED forced /\ Intervene
      BY <1>2 DEF ReExtendOffer
    <2> QED BY <1>0, <2>1, <2>2, InterveneType, NextTypeParts, UnchangedParts
  <1>3. CASE ReinstateApplication(a)
    <2>1. AppTypes'
      BY <1>0, <1>3, SetStatusType DEF ReinstateApplication, Statuses
    <2>2. UNCHANGED offerVars /\ UNCHANGED staffVars /\ UNCHANGED forced /\ Intervene
      BY <1>3 DEF ReinstateApplication
    <2> QED BY <1>0, <2>1, <2>2, InterveneType, NextTypeParts, UnchangedParts
  <1>4. ASSUME NEW to \in Statuses, ForceTransition(a, to) PROVE TypeOK'
    <2>1. AppTypes'
      BY <1>0, <1>4, SetStatusType DEF ForceTransition
    <2>2. UNCHANGED offerVars /\ UNCHANGED staffVars /\ forced' \subseteq Apps /\ Intervene
      BY <1>0, <1>4 DEF ForceTransition, RestTypes
    <2>3. RestTypes'
      BY <1>0, <2>2, ConstantsAssumption DEF RestTypes, Intervene
    <2> QED BY <1>0, <2>1, <2>2, <2>3, NextTypeParts, UnchangedParts
  <1> QED BY <1>1, <1>2, <1>3, <1>4

LEMMA JobStepType == TypeOK /\ JobStep => TypeOK'
  <1> SUFFICES ASSUME TypeOK, JobStep PROVE TypeOK'
    OBVIOUS
  <1>0. AppTypes /\ OfferTypes /\ StaffTypes /\ RestTypes
    BY TypeParts
  <1> PICK j \in Jobs :
        \/ \E rows \in SUBSET {a \in Apps : JobOf[a] = j} : CancelJob(j, rows)
        \/ \E d \in Deadlines : UpdateJobBasics(j, d)
        \/ \E on \in BOOLEAN : SetPublished(j, on)
    BY DEF JobStep
  <1>1. ASSUME NEW rows \in SUBSET {a \in Apps : JobOf[a] = j}, CancelJob(j, rows)
        PROVE  TypeOK'
    <2> DEFINE hit == {a \in rows : Decide(TRANSITIONS.cancel_job, a, "rejected", "staff")}
               to == [a \in Apps |-> IF a \in hit THEN "rejected" ELSE status[a]]
    <2>1. to \in [Apps -> Statuses]
      BY <1>0 DEF AppTypes, Statuses
    <2>2. AppTypes'
      <3>1. Record(to, {}, {})
        BY <1>1 DEF CancelJob
      <3> HIDE DEF to
      <3> QED BY <1>0, <2>1, <3>1, RecordType
    <2>3. offers' \in [OfferIds -> OfferRow]
      <3>1. offers' = [o \in OfferIds |-> IF o[1] \in hit /\ Unanswered(offers[o])
                                          THEN [offers[o] EXCEPT !.terminated = TRUE]
                                          ELSE offers[o]]
        BY <1>1 DEF CancelJob
      <3>2. \A o \in OfferIds : /\ offers[o] \in OfferRow
                                /\ [offers[o] EXCEPT !.terminated = TRUE] \in OfferRow
        BY <1>0 DEF OfferTypes, OfferRow
      <3> HIDE DEF hit
      <3> QED BY <3>1, <3>2
    <2>4. StaffTypes'
      BY <1>0, <1>1 DEF CancelJob, StaffTypes
    <2>5. UNCHANGED <<offerCount, tasks>> /\ UNCHANGED forced /\ Intervene
      BY <1>1 DEF CancelJob
    <2> QED BY <1>0, <2>2, <2>3, <2>4, <2>5, InterveneType, NextTypeParts DEF OfferTypes
  <1>2. ASSUME NEW d \in Deadlines, UpdateJobBasics(j, d) PROVE TypeOK'
    <2> DEFINE open == {o \in OfferIds : JobOf[o[1]] = j /\ Unanswered(offers[o])}
    <2>1. offers' \in [OfferIds -> OfferRow]
      <3>1. offers' = [o \in OfferIds |-> IF o \in open
                                          THEN [offers[o] EXCEPT !.deadline = d]
                                          ELSE offers[o]]
        BY <1>2 DEF UpdateJobBasics
      <3>2. \A o \in OfferIds : /\ offers[o] \in OfferRow
                                /\ [offers[o] EXCEPT !.deadline = d] \in OfferRow
        BY <1>0 DEF OfferTypes, OfferRow
      <3> HIDE DEF open
      <3> QED BY <3>1, <3>2
    <2>2. tasks' \subseteq [offer : OfferIds, at : Deadlines]
      BY <1>0, <1>2 DEF UpdateJobBasics, OfferTypes
    <2>3. StaffTypes'
      BY <1>0, <1>2 DEF UpdateJobBasics, StaffTypes
    <2>4. UNCHANGED appVars /\ UNCHANGED offerCount /\ UNCHANGED forced /\ Intervene
      BY <1>2 DEF UpdateJobBasics
    <2> QED BY <1>0, <2>1, <2>2, <2>3, <2>4, InterveneType, NextTypeParts, UnchangedParts
        DEF OfferTypes
  <1>3. ASSUME NEW on \in BOOLEAN, SetPublished(j, on) PROVE TypeOK'
    <2>1. StaffTypes'
      BY <1>0, <1>3 DEF SetPublished, StaffTypes
    <2>2. UNCHANGED appVars /\ UNCHANGED offerVars /\ UNCHANGED forced /\ Intervene
      BY <1>3 DEF SetPublished
    <2> QED BY <1>0, <2>1, <2>2, InterveneType, NextTypeParts, UnchangedParts
  <1> QED BY <1>1, <1>2, <1>3

LEMMA ExitCascadeType == ASSUME AppTypes, NEW c, ExitCascade(c) PROVE AppTypes'
  <1> DEFINE to == [a \in Apps |-> IF CycleOfApp(a) = c THEN ExitStatus(status[a])
                                   ELSE status[a]]
  <1>1. to \in [Apps -> Statuses]
    BY StatusFacts DEF AppTypes
  <1>2. Record(to, {}, {})
    BY DEF ExitCascade
  <1> HIDE DEF to
  <1> QED BY <1>1, <1>2, RecordType

LEMMA CycleStepType == TypeOK /\ CycleStep => TypeOK'
  <1> SUFFICES ASSUME TypeOK, NEW c \in Cycles,
                      ExitCycle(c) \/ RestoreMembership(c) \/ ArchiveCycle(c)
               PROVE  TypeOK'
    BY DEF CycleStep
  <1>0. AppTypes /\ OfferTypes /\ StaffTypes /\ RestTypes
    BY TypeParts
  <1>1. StaffTypes'
    BY <1>0 DEF ExitCycle, RestoreMembership, ArchiveCycle, StaffTypes
  <1>2. UNCHANGED offerVars /\ UNCHANGED forced /\ Intervene
    BY DEF ExitCycle, RestoreMembership, ArchiveCycle
  <1>3. ExitCascade(c) \/ UNCHANGED appVars
    BY DEF ExitCycle, RestoreMembership, ArchiveCycle
  <1>4. AppTypes'
    BY <1>0, <1>3, ExitCascadeType, UnchangedParts
  <1> QED BY <1>0, <1>1, <1>2, <1>4, InterveneType, NextTypeParts, UnchangedParts

LEMMA OtherStepType ==
    ASSUME TypeOK,
           \/ \E dom \in Domains, value \in {"none", "allow", "deny"} : SetOverride(dom, value)
           \/ Tick
           \/ UNCHANGED vars
    PROVE  TypeOK'
  <1>0. AppTypes /\ OfferTypes /\ StaffTypes /\ RestTypes
    BY TypeParts
  <1>1. ASSUME NEW dom \in Domains, NEW value \in {"none", "allow", "deny"},
               SetOverride(dom, value)
        PROVE  TypeOK'
    <2>1. StaffTypes'
      BY <1>0, <1>1 DEF SetOverride, StaffTypes
    <2>2. UNCHANGED appVars /\ UNCHANGED offerVars /\ UNCHANGED forced /\ Intervene
      BY <1>1 DEF SetOverride
    <2> QED BY <1>0, <2>1, <2>2, InterveneType, NextTypeParts, UnchangedParts
  <1>2. CASE Tick
    <2>1. RestTypes'
      BY <1>0, <1>2, ConstantsAssumption DEF Tick, RestTypes
    <2> QED BY <1>0, <1>2, <2>1, NextTypeParts, UnchangedParts DEF Tick
  <1>3. CASE UNCHANGED vars
    BY <1>0, <1>3, NextTypeParts, UnchangedParts DEF vars
  <1> QED BY <1>1, <1>2, <1>3

LEMMA TypeStep == TypeOK /\ [Next]_vars => TypeOK'
  BY StudentStepType, ProcessStepType, InterventionStepType, JobStepType, CycleStepType,
     ExpiryStepType, OtherStepType DEF Next

\* Every status, offer row, task and cascade event stays well formed: in
\* particular no deadline a command computes leaves the clock's range.
THEOREM TypeCorrect == Spec => []TypeOK
  <1>1. Init => TypeOK
    BY InitType DEF Init
  <1> QED BY <1>1, TypeStep, PTL DEF Spec

-----------------------------------------------------------------------------
(* The acceptance invariants.  Every step is quiet, in that it adds nothing *)
(* to what the student has accepted, or it is one acceptance that passed    *)
(* the gates and swept what competes with it.                               *)

\* An application neither staff nor an override answers for.
Unexcused(b) == KindOf(b) # "open" /\ status[b] \in LiveStatuses /\ b \notin sanctioned

QuietStep ==
    /\ \A p \in OfferIds : Accepted(offers'[p]) =>
          Accepted(offers[p]) /\ offers'[p].waived = offers[p].waived
    /\ \A b \in Apps : Unexcused(b)' => Unexcused(b) \/ ~OutcomeFails(b, "accept")

AcceptanceStep(a, o) ==
    /\ a \in Apps /\ o \in OfferIds /\ o[1] = a
    /\ ~ConstraintsBlock(a, "accept")
    /\ offers'[o].waived = ConstraintsCredit(a, "accept")
    /\ \A p \in OfferIds \ {o} : Accepted(offers'[p]) =>
          Accepted(offers[p]) /\ offers'[p].waived = offers[p].waived
    /\ \A b \in Apps : Unexcused(b)' => b # a /\ Unexcused(b) /\ b \notin Cascade(a, status)

\* A record that revives nothing leaves no live application it did not find.
LEMMA RecordUnexcused ==
    ASSUME AppTypes, NEW st \in [Apps -> Statuses], NEW causes, NEW revived \in SUBSET Apps,
           Record(st, causes, revived), NEW b \in Apps, Unexcused(b)',
           st[b] \in LiveStatuses => status[b] \in LiveStatuses \/ b \in revived
    PROVE  Unexcused(b)
  BY DEF Record, Unexcused, AppTypes

LEMMA SetStatusUnexcused ==
    ASSUME AppTypes, NEW a \in Apps, NEW to \in Statuses, NEW revived \in SUBSET Apps,
           SetStatus(a, to, revived),
           to \in LiveStatuses => status[a] \in LiveStatuses \/ a \in revived
    PROVE  \A b \in Apps : Unexcused(b)' => Unexcused(b)
  <1> DEFINE st == [status EXCEPT ![a] = to]
  <1>1. st \in [Apps -> Statuses] /\ Record(st, {}, revived)
    BY DEF AppTypes, SetStatus
  <1>2. \A b \in Apps : st[b] \in LiveStatuses => status[b] \in LiveStatuses \/ b \in revived
    BY DEF AppTypes
  <1> HIDE DEF st
  <1> QED BY <1>1, <1>2, RecordUnexcused

\* Rows that only gain a termination, a decline or a deadline, or are fresh.
LEMMA DeclineAccepts ==
    ASSUME NEW a \in Apps, NEW o \in OfferIds, NEW off \in [OfferIds -> OfferRow],
           PlanDecline(a, o, off),
           \A p \in OfferIds \ {o} : off[p] = offers[p]
    PROVE  \A p \in OfferIds : Accepted(offers'[p]) =>
              Accepted(offers[p]) /\ offers'[p].waived = offers[p].waived
  BY DEF PlanDecline, Accepted, OfferRow

LEMMA ExtensionAccepts ==
    ASSUME OfferTypes, NEW a \in Apps, NEW d \in Deadlines, NEW revived \in SUBSET Apps,
           PlanExtension(a, d, revived)
    PROVE  \A p \in OfferIds : Accepted(offers'[p]) =>
              Accepted(offers[p]) /\ offers'[p].waived = offers[p].waived
  BY OfferIdFacts DEF PlanExtension, OfferTypes, Accepted, FreshRow, OfferRow

LEMMA AcceptanceEffect ==
    ASSUME AppTypes, NEW a \in Apps, NEW o \in OfferIds, o[1] = a,
           NEW st \in [Apps -> Statuses], NEW off \in [OfferIds -> OfferRow], NEW count,
           ~ConstraintsBlock(a, "accept"),
           PlanAcceptance(a, o, st, off, count, ConstraintsCredit(a, "accept")),
           \A b \in Apps \ {a} : st[b] = status[b],
           \A p \in OfferIds \ {o} : off[p] = offers[p]
    PROVE  AcceptanceStep(a, o)
  <1> DEFINE swept == Cascade(a, st)
             declined == {<<b, count[b]>> : b \in {x \in swept : st[x] = "offered"}}
             to == [b \in Apps |-> IF b = a THEN "accepted"
                                   ELSE IF b \in swept THEN CascadeStatus(st[b])
                                   ELSE st[b]]
             causes == {[app |-> b, offer |-> o, from |-> st[b]] : b \in swept}
             credits == ConstraintsCredit(a, "accept")
  <1>1. offers' = [p \in OfferIds |->
                      IF p = o THEN [off[p] EXCEPT !.response = "accepted",
                                                   !.waived = credits]
                      ELSE IF p \in declined
                           THEN [off[p] EXCEPT !.response = "declined"]
                      ELSE off[p]]
    BY DEF PlanAcceptance
  <1>2. offers'[o].waived = credits
    <2>1. \A row \in OfferRow :
             [row EXCEPT !.response = "accepted", !.waived = credits].waived = credits
      BY DEF OfferRow
    <2>2. offers'[o] = [off[o] EXCEPT !.response = "accepted", !.waived = credits]
      BY <1>1
    <2> QED BY <2>1, <2>2
  <1>3. \A p \in OfferIds \ {o} : Accepted(offers'[p]) =>
           Accepted(offers[p]) /\ offers'[p].waived = offers[p].waived
    <2>1. \A row \in OfferRow : ~Accepted([row EXCEPT !.response = "declined"])
      BY DEF OfferRow, Accepted
    <2> HIDE DEF declined, credits
    <2> QED BY <1>1, <2>1
  <1>4. Cascade(a, status) = swept
    BY DEF Cascade
  <1>5. to \in [Apps -> Statuses] /\ to[a] = "accepted"
    BY StatusFacts DEF Cascade, CascadeTakes, Statuses
  <1>6. \A b \in Apps : to[b] \in LiveStatuses =>
           b # a /\ b \notin swept /\ status[b] \in LiveStatuses
    <2>1. \A b \in swept : CascadeStatus(st[b]) \notin LiveStatuses
      BY DEF CascadeStatus, LiveStatuses
    <2> HIDE DEF swept
    <2> QED BY <2>1 DEF LiveStatuses
  <1>7. Record(to, causes, {})
    BY DEF PlanAcceptance
  <1>8. status' = to
    BY <1>7 DEF Record
  <1>9. \A b \in Apps : Unexcused(b)' => b # a /\ Unexcused(b) /\ b \notin Cascade(a, status)
    <2> SUFFICES ASSUME NEW b \in Apps, Unexcused(b)'
                 PROVE  b # a /\ Unexcused(b) /\ b \notin Cascade(a, status)
      OBVIOUS
    <2> HIDE DEF to, swept, causes
    <2>1. to[b] \in LiveStatuses
      BY <1>8 DEF Unexcused
    <2>2. Unexcused(b)
      BY <1>5, <1>6, <1>7, <2>1, RecordUnexcused
    <2> QED BY <1>4, <1>6, <2>1, <2>2
  <1> QED BY <1>2, <1>3, <1>9 DEF AcceptanceStep

LEMMA UntouchedIsQuiet ==
    ASSUME UNCHANGED offers, \A b \in Apps : Unexcused(b)' => Unexcused(b)
    PROVE  QuietStep
  BY DEF QuietStep

LEMMA SameAppsUnexcused == UNCHANGED appVars => \A b \in Apps : Unexcused(b)' => Unexcused(b)
  BY DEF appVars, Unexcused, KindOf, CycleOfApp

LEMMA StudentKinds ==
    ASSUME TypeOK, StudentStep
    PROVE  QuietStep \/ \E a, o : AcceptanceStep(a, o)
  <1> SUFFICES ASSUME NEW a \in Apps,
                      \/ Apply(a) \/ WithdrawApplication(a)
                      \/ AcceptOffer(a) \/ DeclineOffer(a)
               PROVE  QuietStep \/ \E b, o : AcceptanceStep(b, o)
    BY DEF StudentStep
  <1>0. AppTypes /\ OfferTypes
    BY TypeParts
  <1>1. CASE Apply(a)
    <2> DEFINE st == [status EXCEPT ![a] = "in_progress"]
               revived == IF ConstraintsCredit(a, "apply") # {} THEN {a} ELSE {}
    <2>1. st \in [Apps -> Statuses] /\ Record(st, {}, revived) /\ UNCHANGED offers
      BY <1>0, <1>1 DEF Apply, SetStatus, AppTypes, Statuses, offerVars
    <2>2. KindOf(a) # "open" /\ a \notin revived => ~OutcomeFails(a, "accept")
      BY <1>1 DEF Apply, ConstraintsBlock, ConstraintsCredit, GateBlocks, Credited,
                  OutcomeFails, OutcomeGateFails
    <2>3. \A b \in Apps \ {a} : st[b] \in LiveStatuses => status[b] \in LiveStatuses
      BY <1>0 DEF AppTypes
    <2>4. \A b \in Apps \ {a} : Unexcused(b)' => Unexcused(b)
      <3> HIDE DEF st, revived
      <3>1. revived \in SUBSET Apps
        BY DEF revived
      <3> QED BY <1>0, <2>1, <2>3, <3>1, RecordUnexcused
    <2>5. Unexcused(a)' => KindOf(a) # "open" /\ a \notin revived
      <3> HIDE DEF revived
      <3>1. a \in revived /\ status'[a] \in LiveStatuses => a \in sanctioned'
        BY <1>0, <2>1 DEF Record
      <3> QED BY <3>1 DEF Unexcused, KindOf, CycleOfApp
    <2> QED BY <2>1, <2>2, <2>4, <2>5 DEF QuietStep
  <1>2. CASE WithdrawApplication(a)
    <2>1. \A b \in Apps : Unexcused(b)' => Unexcused(b)
      BY <1>0, <1>2, SetStatusUnexcused DEF WithdrawApplication, Statuses, LiveStatuses
    <2> QED BY <1>2, <2>1, UntouchedIsQuiet DEF WithdrawApplication, offerVars
  <1>3. CASE AcceptOffer(a)
    <2>1. CurrentId(a) \in OfferIds /\ CurrentId(a)[1] = a
      BY <1>0, <1>3, OfferIdFacts DEF AcceptOffer, Answerable, CurrentId
    <2>2. AcceptanceStep(a, CurrentId(a))
      BY <1>0, <1>3, <2>1, AcceptanceEffect DEF AcceptOffer, AppTypes, OfferTypes
    <2> QED BY <2>2
  <1>4. CASE DeclineOffer(a)
    <2>1. CurrentId(a) \in OfferIds /\ PlanDecline(a, CurrentId(a), offers)
      BY <1>0, <1>4, OfferIdFacts DEF DeclineOffer, Answerable
    <2>2. \A b \in Apps : Unexcused(b)' => Unexcused(b)
      BY <1>0, <2>1, SetStatusUnexcused DEF PlanDecline, Statuses, LiveStatuses
    <2> QED BY <1>0, <2>1, <2>2, DeclineAccepts DEF QuietStep, OfferTypes
  <1> QED BY <1>1, <1>2, <1>3, <1>4

LEMMA ProcessKinds ==
    ASSUME TypeOK, ProcessStep
    PROVE  QuietStep \/ \E a, o : AcceptanceStep(a, o)
  <1> SUFFICES ASSUME NEW a \in Apps,
                      NEW outcome \in {"offered", "accepted", "declined"},
                      \/ Promote(a) \/ Reject(a) \/ ExtendOffer(a)
                      \/ RecordOpenOutcome(a, outcome)
               PROVE  QuietStep \/ \E b, o : AcceptanceStep(b, o)
    BY DEF ProcessStep
  <1>0. AppTypes /\ OfferTypes /\ StaffTypes
    BY TypeParts
  <1>1. CASE Promote(a) \/ Reject(a)
    <2>1. \E to \in Statuses : /\ SetStatus(a, to, {})
                               /\ to \in LiveStatuses => status[a] \in LiveStatuses
      BY <1>1 DEF Promote, Reject, Decide, Legal, TRANSITIONS, Row, Statuses, LiveStatuses
    <2>2. \A b \in Apps : Unexcused(b)' => Unexcused(b)
      BY <1>0, <2>1, SetStatusUnexcused
    <2> QED BY <1>1, <2>2, UntouchedIsQuiet DEF Promote, Reject, offerVars
  <1>2. CASE ExtendOffer(a)
    <2>1. SetStatus(a, "offered", {}) /\ status[a] \in LiveStatuses
      BY <1>2 DEF ExtendOffer, PlanExtension, Decide, Legal, TRANSITIONS, Row, LiveStatuses
    <2>2. \A b \in Apps : Unexcused(b)' => Unexcused(b)
      BY <1>0, <2>1, SetStatusUnexcused DEF Statuses
    <2> QED BY <1>0, <1>2, <2>2, ExtensionAccepts, JobDeadlineType DEF ExtendOffer, QuietStep
  <1>3. CASE RecordOpenOutcome(a, outcome)
    <2> DEFINE fresh == status[a] = "in_progress"
               o == IF fresh THEN NextId(a) ELSE CurrentId(a)
               off == IF fresh THEN [offers EXCEPT ![o] = FreshRow(0)] ELSE offers
               st == IF fresh THEN [status EXCEPT ![a] = "offered"] ELSE status
               count == IF fresh THEN [offerCount EXCEPT ![a] = @ + 1] ELSE offerCount
    <2>1. /\ o \in OfferIds /\ o[1] = a
          /\ 0 \in Deadlines /\ FreshRow(0) \in OfferRow
          /\ status[a] \in LiveStatuses
      BY <1>0, <1>3, OfferIdFacts, FreshRowType, ConstantsAssumption
      DEF RecordOpenOutcome, Answerable, CurrentId, NextId, Deadlines, LiveStatuses
    <2>2. /\ off \in [OfferIds -> OfferRow]
          /\ \A p \in OfferIds \ {o} : off[p] = offers[p]
      BY <1>0, <2>1 DEF OfferTypes
    <2>3. st \in [Apps -> Statuses] /\ \A b \in Apps \ {a} : st[b] = status[b]
      BY <1>0 DEF AppTypes, Statuses
    <2>4. CASE PlanExtension(a, 0, {})
      <3>1. \A b \in Apps : Unexcused(b)' => Unexcused(b)
        BY <1>0, <2>1, <2>4, SetStatusUnexcused DEF PlanExtension, Statuses
      <3> QED BY <1>0, <2>1, <2>4, <3>1, ExtensionAccepts DEF QuietStep
    <2>5. CASE /\ ~ConstraintsBlock(a, "accept")
               /\ PlanAcceptance(a, o, st, off, count, ConstraintsCredit(a, "accept"))
      <3> HIDE DEF o, off, st, count
      <3> QED BY <1>0, <2>1, <2>2, <2>3, <2>5, AcceptanceEffect
    <2>6. CASE PlanDecline(a, o, off)
      <3> HIDE DEF o, off
      <3>1. \A b \in Apps : Unexcused(b)' => Unexcused(b)
        BY <1>0, <2>6, SetStatusUnexcused DEF PlanDecline, Statuses, LiveStatuses
      <3> QED BY <2>1, <2>2, <2>6, <3>1, DeclineAccepts DEF QuietStep
    <2> QED BY <1>3, <2>4, <2>5, <2>6 DEF RecordOpenOutcome
  <1> QED BY <1>1, <1>2, <1>3

LEMMA ExpiryKinds ==
    ASSUME TypeOK, NEW t \in tasks, EnforceOfferExpiry(t)
    PROVE  QuietStep \/ \E a, o : AcceptanceStep(a, o)
  <1> DEFINE o == t.offer
             a == o[1]
             blocked == ~member[CycleOfApp(a)] \/ ConstraintsBlock(a, "accept")
  <1>0. AppTypes /\ OfferTypes
    BY TypeParts
  <1>1. o \in OfferIds /\ a \in Apps
    BY <1>0 DEF OfferTypes, OfferIds
  <1>2. CASE UNCHANGED <<appVars, offers>>
    BY <1>2, SameAppsUnexcused, UntouchedIsQuiet
  <1>3. CASE PlanDecline(a, o, offers)
    <2>1. \A b \in Apps : Unexcused(b)' => Unexcused(b)
      BY <1>0, <1>1, <1>3, SetStatusUnexcused DEF PlanDecline, Statuses, LiveStatuses
    <2> QED BY <1>0, <1>1, <1>3, <2>1, DeclineAccepts DEF QuietStep, OfferTypes
  <1>4. CASE /\ ~blocked
             /\ PlanAcceptance(a, o, status, offers, offerCount,
                               ConstraintsCredit(a, "accept"))
    BY <1>0, <1>1, <1>4, AcceptanceEffect DEF AppTypes, OfferTypes
  <1>5. \/ UNCHANGED <<appVars, offers>>
        \/ PlanDecline(a, o, offers)
        \/ /\ ~blocked
           /\ PlanAcceptance(a, o, status, offers, offerCount,
                             ConstraintsCredit(a, "accept"))
    <2> DEFINE action ==
          IF ~InScope(CycleOfApp(a)) THEN "noop"
          ELSE DecideExpiry(KindOf(a), o = CurrentId(a), status[a], offers[o], t.at,
                            now, Behavior[CycleOfApp(a)], blocked)
    <2>1. action = "auto_accept" => ~blocked
      <3> HIDE DEF blocked
      <3> QED BY DEF DecideExpiry
    <2>2. \/ UNCHANGED <<appVars, offers>>
          \/ PlanDecline(a, o, offers)
          \/ /\ action = "auto_accept"
             /\ PlanAcceptance(a, o, status, offers, offerCount,
                               ConstraintsCredit(a, "accept"))
      BY DEF EnforceOfferExpiry
    <2> QED BY <2>1, <2>2
  <1> QED BY <1>2, <1>3, <1>4, <1>5

LEMMA TerminateQuiet ==
    ASSUME TypeOK, NEW a \in Apps, NEW picked \in SUBSET RestoreCandidates(CurrentId(a)),
           NEW d \in [{e.app : e \in picked} -> Deadlines], TerminateOffer(a, picked, d)
    PROVE  QuietStep
  <1> DEFINE o == CurrentId(a)
             renewed == {e.app : e \in {x \in picked : x.from = "offered"}}
             restored == {e.app : e \in picked}
             to == [b \in Apps |-> IF b = a THEN "offer_terminated"
                                   ELSE IF b \in restored
                                        THEN (CHOOSE e \in picked : e.app = b).from
                                   ELSE status[b]]
  <1>0. AppTypes /\ OfferTypes
    BY TypeParts
  <1>1. picked \subseteq caused /\ \A e \in picked : e.app \in Apps /\ e.from \in LiveStatuses
    BY <1>0 DEF RestoreCandidates, AppTypes
  <1>2. restored \in SUBSET Apps
    BY <1>1
  <1>3. to \in [Apps -> Statuses]
    BY <1>0, <1>1, StatusFacts DEF AppTypes, Statuses
  <1>4. \A b \in Apps : to[b] \in LiveStatuses => status[b] \in LiveStatuses \/ b \in restored
    <2> HIDE DEF restored
    <2> QED BY DEF LiveStatuses
  <1>5. \A b \in Apps : Unexcused(b)' => Unexcused(b)
    <2>1. Record(to, {}, restored)
      BY DEF TerminateOffer
    <2> HIDE DEF to, restored
    <2> QED BY <1>0, <1>2, <1>3, <1>4, <2>1, RecordUnexcused
  <1>6. \A p \in OfferIds : Accepted(offers'[p]) =>
           Accepted(offers[p]) /\ offers'[p].waived = offers[p].waived
    <2>1. offers' = [p \in OfferIds |->
                        IF p = o THEN [offers[p] EXCEPT !.terminated = TRUE]
                        ELSE IF p[1] \in renewed /\ p = NextId(p[1]) THEN FreshRow(d[p[1]])
                        ELSE offers[p]]
      BY DEF TerminateOffer
    <2>2. \A p \in OfferIds : ~Accepted([offers[p] EXCEPT !.terminated = TRUE])
      BY <1>0 DEF OfferTypes, OfferRow, Accepted
    <2>3. \A x : ~Accepted(FreshRow(x))
      BY DEF Accepted, FreshRow
    <2> HIDE DEF renewed, o
    <2> QED BY <2>1, <2>2, <2>3
  <1> QED BY <1>5, <1>6 DEF QuietStep

LEMMA InterventionQuiet == ASSUME TypeOK, InterventionStep PROVE QuietStep
  <1>0. AppTypes /\ OfferTypes
    BY TypeParts
  <1> PICK a \in Apps :
        \/ \E picked \in RestoreChoices(a) :
             \E d \in [{e.app : e \in picked} -> Deadlines] : TerminateOffer(a, picked, d)
        \/ \E d \in Deadlines : ReExtendOffer(a, d)
        \/ ReinstateApplication(a)
        \/ \E to \in Statuses : ForceTransition(a, to)
    BY DEF InterventionStep
  <1>1. CASE \E picked \in RestoreChoices(a) :
               \E d \in [{e.app : e \in picked} -> Deadlines] : TerminateOffer(a, picked, d)
    BY <1>1, TerminateQuiet DEF RestoreChoices
  <1>2. ASSUME NEW d \in Deadlines, ReExtendOffer(a, d) PROVE QuietStep
    <2>1. PlanExtension(a, d, {a})
      BY <1>2 DEF ReExtendOffer
    <2>2. \A b \in Apps : Unexcused(b)' => Unexcused(b)
      BY <1>0, <2>1, SetStatusUnexcused DEF PlanExtension, Statuses
    <2> QED BY <1>0, <2>1, <2>2, ExtensionAccepts DEF QuietStep
  <1>3. CASE \E to \in Statuses : SetStatus(a, to, {a}) /\ UNCHANGED offers
    <2>1. \A b \in Apps : Unexcused(b)' => Unexcused(b)
      BY <1>0, <1>3, SetStatusUnexcused
    <2> QED BY <1>3, <2>1, UntouchedIsQuiet
  <1> QED BY <1>1, <1>2, <1>3 DEF ReinstateApplication, ForceTransition, Statuses, offerVars

LEMMA JobQuiet == ASSUME TypeOK, JobStep PROVE QuietStep
  <1>0. AppTypes /\ OfferTypes
    BY TypeParts
  <1> PICK j \in Jobs :
        \/ \E rows \in SUBSET {a \in Apps : JobOf[a] = j} : CancelJob(j, rows)
        \/ \E d \in Deadlines : UpdateJobBasics(j, d)
        \/ \E on \in BOOLEAN : SetPublished(j, on)
    BY DEF JobStep
  <1>1. ASSUME NEW rows \in SUBSET {a \in Apps : JobOf[a] = j}, CancelJob(j, rows)
        PROVE  QuietStep
    <2> DEFINE hit == {a \in rows : Decide(TRANSITIONS.cancel_job, a, "rejected", "staff")}
               to == [a \in Apps |-> IF a \in hit THEN "rejected" ELSE status[a]]
    <2>1. \A b \in Apps : Unexcused(b)' => Unexcused(b)
      <3>1. Record(to, {}, {})
        BY <1>1 DEF CancelJob
      <3>2. to \in [Apps -> Statuses]
        BY <1>0 DEF AppTypes, Statuses
      <3>3. \A b \in Apps : to[b] \in LiveStatuses => status[b] \in LiveStatuses
        BY DEF LiveStatuses
      <3> HIDE DEF to
      <3> QED BY <1>0, <3>1, <3>2, <3>3, RecordUnexcused
    <2>2. \A p \in OfferIds : Accepted(offers'[p]) =>
             Accepted(offers[p]) /\ offers'[p].waived = offers[p].waived
      <3>1. offers' = [o \in OfferIds |-> IF o[1] \in hit /\ Unanswered(offers[o])
                                          THEN [offers[o] EXCEPT !.terminated = TRUE]
                                          ELSE offers[o]]
        BY <1>1 DEF CancelJob
      <3>2. \A p \in OfferIds : ~Accepted([offers[p] EXCEPT !.terminated = TRUE])
        BY <1>0 DEF OfferTypes, OfferRow, Accepted
      <3> HIDE DEF hit
      <3> QED BY <3>1, <3>2
    <2> QED BY <2>1, <2>2 DEF QuietStep
  <1>2. ASSUME NEW d \in Deadlines, UpdateJobBasics(j, d) PROVE QuietStep
    <2> DEFINE open == {o \in OfferIds : JobOf[o[1]] = j /\ Unanswered(offers[o])}
    <2>1. offers' = [o \in OfferIds |-> IF o \in open
                                        THEN [offers[o] EXCEPT !.deadline = d]
                                        ELSE offers[o]]
      BY <1>2 DEF UpdateJobBasics
    <2>2. \A p \in OfferIds : LET row == [offers[p] EXCEPT !.deadline = d] IN
             /\ Accepted(row) => Accepted(offers[p])
             /\ row.waived = offers[p].waived
      BY <1>0 DEF OfferTypes, OfferRow, Accepted
    <2>3. \A b \in Apps : Unexcused(b)' => Unexcused(b)
      BY <1>2, SameAppsUnexcused DEF UpdateJobBasics
    <2> HIDE DEF open
    <2> QED BY <2>1, <2>2, <2>3 DEF QuietStep
  <1>3. ASSUME NEW on \in BOOLEAN, SetPublished(j, on) PROVE QuietStep
    BY <1>3, SameAppsUnexcused, UntouchedIsQuiet DEF SetPublished, offerVars
  <1> QED BY <1>1, <1>2, <1>3

LEMMA CycleQuiet == ASSUME TypeOK, CycleStep PROVE QuietStep
  <1> SUFFICES ASSUME NEW c \in Cycles,
                      ExitCycle(c) \/ RestoreMembership(c) \/ ArchiveCycle(c)
               PROVE  QuietStep
    BY DEF CycleStep
  <1>0. AppTypes
    BY TypeParts
  <1>1. UNCHANGED offers
    BY DEF ExitCycle, RestoreMembership, ArchiveCycle, offerVars
  <1>2. CASE UNCHANGED appVars
    BY <1>1, <1>2, SameAppsUnexcused, UntouchedIsQuiet
  <1>3. CASE ExitCascade(c)
    <2> DEFINE to == [a \in Apps |-> IF CycleOfApp(a) = c THEN ExitStatus(status[a])
                                     ELSE status[a]]
    <2>1. to \in [Apps -> Statuses] /\ Record(to, {}, {})
      BY <1>0, <1>3, StatusFacts DEF AppTypes, ExitCascade
    <2>2. \A b \in Apps : to[b] \in LiveStatuses => status[b] \in LiveStatuses
      BY DEF ExitStatus, LiveStatuses
    <2>3. \A b \in Apps : Unexcused(b)' => Unexcused(b)
      <3> HIDE DEF to
      <3> QED BY <1>0, <2>1, <2>2, RecordUnexcused
    <2> QED BY <1>1, <2>3, UntouchedIsQuiet
  <1> QED BY <1>2, <1>3 DEF ExitCycle, RestoreMembership, ArchiveCycle

LEMMA OtherQuiet ==
    ASSUME \/ \E dom \in Domains, value \in {"none", "allow", "deny"} : SetOverride(dom, value)
           \/ Tick
           \/ UNCHANGED vars
    PROVE  QuietStep
  <1>1. UNCHANGED appVars /\ UNCHANGED offers
    BY DEF SetOverride, Tick, vars, offerVars
  <1> QED BY <1>1, SameAppsUnexcused, UntouchedIsQuiet

\* Every step is quiet or one gated acceptance.
LEMMA StepKinds == TypeOK /\ [Next]_vars => QuietStep \/ \E a, o : AcceptanceStep(a, o)
  BY StudentKinds, ProcessKinds, ExpiryKinds, InterventionQuiet, JobQuiet, CycleQuiet,
     OtherQuiet DEF Next

LEMMA OneAcceptedStep ==
    TypeOK /\ OneAcceptedPlacement /\ [Next]_vars => OneAcceptedPlacement'
  <1> SUFFICES ASSUME TypeOK, OneAcceptedPlacement, [Next]_vars
               PROVE  OneAcceptedPlacement'
    OBVIOUS
  <1>1. CASE QuietStep
    BY <1>1 DEF QuietStep, OneAcceptedPlacement, AcceptedIds, OutcomeOf
  <1>2. ASSUME NEW a, NEW o, AcceptanceStep(a, o) PROVE OneAcceptedPlacement'
    <2>1. ASSUME NEW p \in OfferIds \ {o}, Accepted(offers'[p]),
                 OutcomeOf(o[1]) = "placement", OutcomeOf(p[1]) = "placement"
          PROVE  "outcome_gate" \in offers'[o].waived
      <3>1. p \in AcceptedIds /\ PlacementPlacedGlobal
        BY <1>2, <2>1 DEF AcceptanceStep, AcceptedIds, PlacementPlacedGlobal
      <3>2. OutcomeFails(a, "accept")
        BY <1>2, <2>1, <3>1 DEF AcceptanceStep, OutcomeFails, OutcomeGateFails
      <3> QED BY <1>2, <3>2 DEF AcceptanceStep, ConstraintsBlock, ConstraintsCredit,
                                GateBlocks, Credited
    <2>2. ASSUME NEW p \in OfferIds \ {o}, NEW q \in OfferIds \ {o}, p # q,
                 Accepted(offers'[p]), Accepted(offers'[q]),
                 OutcomeOf(p[1]) = "placement", OutcomeOf(q[1]) = "placement"
          PROVE  "outcome_gate" \in offers'[p].waived \cup offers'[q].waived
      BY <1>2, <2>2 DEF AcceptanceStep, OneAcceptedPlacement, AcceptedIds
    <2> QED BY <2>1, <2>2 DEF OneAcceptedPlacement, AcceptedIds, OutcomeOf
  <1> QED BY <1>1, <1>2, StepKinds

\* Of two placement offers the student holds at once, one was accepted under an
\* outcome-gate override, whichever commands answered them and in what order.
THEOREM OneAcceptedPlacementHolds == Spec => []OneAcceptedPlacement
  <1>1. Init => OneAcceptedPlacement
    BY DEF Init, InitWith, OneAcceptedPlacement, AcceptedIds, Accepted, NoRow
  <1> QED BY <1>1, TypeCorrect, OneAcceptedStep, PTL DEF Spec

\* No command of this module writes an external offer.
LEMMA ExternalStays == [Next]_vars => external' = external
  <1> SUFFICES ASSUME [Next]_vars PROVE external' = external
    OBVIOUS
  <1>1. CASE StudentStep
    BY <1>1 DEF StudentStep, Apply, WithdrawApplication, AcceptOffer, DeclineOffer, staffVars
  <1>2. CASE ProcessStep
    BY <1>2 DEF ProcessStep, Promote, Reject, ExtendOffer, RecordOpenOutcome, staffVars
  <1>3. CASE InterventionStep
    BY <1>3 DEF InterventionStep, TerminateOffer, ReExtendOffer, ReinstateApplication,
              ForceTransition, staffVars
  <1>4. CASE JobStep
    BY <1>4 DEF JobStep, CancelJob, UpdateJobBasics, SetPublished
  <1>5. CASE CycleStep
    BY <1>5 DEF CycleStep, ExitCycle, RestoreMembership, ArchiveCycle
  <1>6. CASE \E t \in tasks : EnforceOfferExpiry(t)
    BY <1>6 DEF EnforceOfferExpiry, staffVars
  <1>7. CASE \E dom \in Domains, value \in {"none", "allow", "deny"} : SetOverride(dom, value)
    BY <1>7 DEF SetOverride
  <1>8. CASE Tick \/ UNCHANGED vars
    BY <1>8 DEF Tick, vars, staffVars
  <1> QED BY <1>1, <1>2, <1>3, <1>4, <1>5, <1>6, <1>7, <1>8 DEF Next

LEMMA NoCompetingStep ==
    TypeOK /\ NoCompetingApplication /\ [Next]_vars => NoCompetingApplication'
  <1> SUFFICES ASSUME TypeOK, NoCompetingApplication, [Next]_vars,
                      NEW b \in Apps, Unexcused(b)'
               PROVE  ~OutcomeFails(b, "accept")'
    BY DEF NoCompetingApplication, Unexcused, KindOf, CycleOfApp
  <1>x. external' = external
    BY ExternalStays
  <1>0. Unexcused(b) => ~OutcomeFails(b, "accept")
    BY DEF NoCompetingApplication, Unexcused
  <1>1. CASE QuietStep
    <2>1. ~OutcomeFails(b, "accept")
      BY <1>0, <1>1 DEF QuietStep
    <2>2. AcceptedIds' \subseteq AcceptedIds
      BY <1>1 DEF QuietStep, AcceptedIds
    <2> QED BY <1>x, <2>1, <2>2 DEF OutcomeFails, OutcomeGateFails, PlacementPlacedGlobal,
              InternshipPlacedInCycle, AcceptedExternal, OutcomeOf, KindOf, CycleOfApp
  <1>2. ASSUME NEW a, NEW o, AcceptanceStep(a, o) PROVE ~OutcomeFails(b, "accept")'
    <2>1. b # a /\ Unexcused(b) /\ b \notin Cascade(a, status)
      BY <1>2 DEF AcceptanceStep
    <2>2. ~OutcomeFails(b, "accept")
      BY <1>0, <2>1
    <2>3. AcceptedIds' \subseteq AcceptedIds \cup {o} /\ o[1] = a /\ a \in Apps
      BY <1>2 DEF AcceptanceStep, AcceptedIds
    <2>4. ~CascadeTakes(OutcomeOf(a), CycleOfApp(a), KindOf(a),
                        OutcomeOf(b), CycleOfApp(b), KindOf(b), status[b])
      BY <2>1 DEF Cascade
    <2>5. KindOf(b) # "open" /\ status[b] \in LiveStatuses
      BY <2>1 DEF Unexcused
    <2>6. OutcomeOf(b) = "placement" => OutcomeOf(a) # "placement"
      BY <2>4, <2>5 DEF CascadeTakes
    <2>7. OutcomeOf(b) = "internship" =>
             OutcomeOf(a) # "internship" \/ CycleOfApp(a) # CycleOfApp(b)
      BY <2>4, <2>5 DEF CascadeTakes, KindOf
    <2> QED BY <1>x, <2>2, <2>3, <2>6, <2>7 DEF OutcomeFails, OutcomeGateFails,
              PlacementPlacedGlobal, InternshipPlacedInCycle, AcceptedExternal, OutcomeOf, KindOf, CycleOfApp
  <1> QED BY <1>1, <1>2, StepKinds

\* Whoever is placed competes nowhere else for the same thing, unless staff or
\* an override put them back.
THEOREM NoCompetingApplicationHolds == Spec => []NoCompetingApplication
  <1>1. Init => NoCompetingApplication
    BY DEF Init, InitWith, NoCompetingApplication, LiveStatuses
  <1> QED BY <1>1, TypeCorrect, NoCompetingStep, PTL DEF Spec
=============================================================================
