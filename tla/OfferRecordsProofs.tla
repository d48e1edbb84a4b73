------------------------- MODULE OfferRecordsProofs -------------------------
(***************************************************************************)
(* How the rows a student's offers are recorded in agree with each other,  *)
(* with the queue and with the cap, for every set of applications, jobs    *)
(* and cycles, every policy and every bound.                               *)
(***************************************************************************)
EXTENDS OfferLifecycleProofs, FiniteSetTheorems

\* The acceptances that count against the cap of a cycle.
Charged(c) == {o \in AcceptedIds : CycleOfApp(o[1]) = c /\ "offer_cap" \notin offers[o].waived}

LEMMA OfferIdsFinite == IsFiniteSet(OfferIds)
<1>1. IsFiniteSet(1..MaxOffers)
  <2>1. 1 \in Int /\ MaxOffers \in Int
    BY ConstantsAssumption
  <2> QED BY <2>1, FS_Interval
<1>2. IsFiniteSet(Apps)
  BY ConstantsAssumption
<1>3. IsFiniteSet(Apps \X (1..MaxOffers))
  BY <1>1, <1>2, FS_Product, Zenon
<1> QED BY <1>3 DEF OfferIds, Slots

LEMMA CapFacts ==
    ASSUME TypeOK, NEW c \in Cycles
    PROVE  /\ IsFiniteSet(Charged(c)) /\ Cardinality(Charged(c)) \in Nat
           /\ CapUsed(c) \in Nat /\ Cardinality(Charged(c)) <= CapUsed(c)
<1>1. IsFiniteSet(OfferIds)
  BY OfferIdsFinite
<1> DEFINE portal == {o \in AcceptedIds : CycleOfApp(o[1]) = c}
           outside == {x \in AcceptedExternal : external[x].cycle = c}
<1>2. IsFiniteSet(portal) /\ IsFiniteSet(outside)
  BY <1>1, ConstantsAssumption, FS_Subset DEF AcceptedIds, AcceptedExternal
<1>3. Charged(c) \subseteq portal
  BY DEF Charged
<1> HIDE DEF portal, outside
<1>4. /\ IsFiniteSet(Charged(c)) /\ Cardinality(Charged(c)) <= Cardinality(portal)
      /\ Cardinality(Charged(c)) \in Nat /\ Cardinality(portal) \in Nat
      /\ Cardinality(outside) \in Nat
  BY <1>2, <1>3, FS_Subset, FS_CardinalityType
<1>5. CapUsed(c) = Cardinality(portal) + Cardinality(outside)
  BY DEF CapUsed, portal, outside
<1> QED BY <1>4, <1>5

LEMMA WithinCapStep ==
    ASSUME TypeOK, WithinCycleCap, [Next]_vars
    PROVE  WithinCycleCap'
<1> SUFFICES ASSUME NEW c \in Cycles, Cap[c] # 0
             PROVE  Cardinality(Charged(c)') <= Cap[c]
  BY DEF WithinCycleCap, Charged, CycleOfApp
<1>1. Cardinality(Charged(c)) <= Cap[c] /\ Cap[c] \in Nat
  BY ConstantsAssumption DEF WithinCycleCap, Charged
<1>2. IsFiniteSet(Charged(c)) /\ Cardinality(Charged(c)) \in Nat
  BY CapFacts
<1>3. ASSUME Charged(c)' \subseteq Charged(c)
      PROVE  Cardinality(Charged(c)') <= Cap[c]
  <2>1. Cardinality(Charged(c)') \in Nat /\ Cardinality(Charged(c)') <= Cardinality(Charged(c))
    BY <1>2, <1>3, FS_Subset, FS_CardinalityType
  <2> QED BY <1>1, <1>2, <2>1
<1>4. CASE QuietStep
  BY <1>3, <1>4 DEF QuietStep, Charged, AcceptedIds, CycleOfApp
<1>5. ASSUME NEW a, NEW o, AcceptanceStep(a, o)
      PROVE  Cardinality(Charged(c)') <= Cap[c]
  <2>1. Charged(c)' \subseteq Charged(c) \cup {o}
    BY <1>5 DEF AcceptanceStep, Charged, AcceptedIds, CycleOfApp
  <2>2. CASE o \notin Charged(c)'
    BY <1>3, <2>1, <2>2
  <2>3. CASE o \in Charged(c)'
    <3>1. CycleOfApp(a) = c /\ "offer_cap" \notin ConstraintsCredit(a, "accept")
      BY <1>5, <2>3 DEF AcceptanceStep, Charged, CycleOfApp
    <3>2. ~CapFails(a)
      BY <1>5, <3>1 DEF AcceptanceStep, ConstraintsBlock, ConstraintsCredit, GateBlocks, Credited
    <3>3. Cardinality(Charged(c)) < Cap[c]
      BY <1>1, <1>2, <3>1, <3>2, CapFacts DEF CapFails
    <3>4. /\ IsFiniteSet(Charged(c) \cup {o})
          /\ Cardinality(Charged(c) \cup {o}) <= Cardinality(Charged(c)) + 1
      BY <1>2, FS_AddElement
    <3>5. /\ Cardinality(Charged(c)') <= Cardinality(Charged(c) \cup {o})
          /\ Cardinality(Charged(c)') \in Nat /\ Cardinality(Charged(c) \cup {o}) \in Nat
      BY <2>1, <3>4, FS_Subset, FS_CardinalityType
    <3> QED BY <1>1, <1>2, <3>3, <3>4, <3>5
  <2> QED BY <2>2, <2>3
<1> QED BY <1>4, <1>5, StepKinds

\* Whatever overrides are granted and revoked, and however slots are freed and
\* taken again, no cycle counts more acceptances than its cap admits.
THEOREM WithinCycleCapHolds == Spec => []WithinCycleCap
<1>1. Init => WithinCycleCap
  <2> SUFFICES ASSUME Init, NEW c \in Cycles
               PROVE  Cardinality(Charged(c)) <= Cap[c]
    BY DEF WithinCycleCap, Charged
  <2>1. Charged(c) = {}
    BY DEF Init, InitWith, Charged, AcceptedIds, Accepted, NoRow
  <2> QED BY <2>1, FS_EmptySet, ConstantsAssumption
<1> QED BY <1>1, TypeCorrect, WithinCapStep, PTL DEF Spec

-----------------------------------------------------------------------------
(* What a step does to the status and the offer rows of one application.   *)

Plain == {"none", "in_progress", "pending_offer", "rejected", "withdrawn", "auto_withdrawn"}

RowKept(p) ==
    /\ offers'[p].response = offers[p].response
    /\ offers'[p].terminated = offers[p].terminated

KeptBut(a, m) == \A n \in Slots \ {m} : RowKept(<<a, n>>)

BookAlone(a) ==
    /\ offerCount'[a] = offerCount[a]
    /\ \A n \in Slots : RowKept(<<a, n>>)
    /\ a \notin forced' => status'[a] = status[a] \/ {status[a], status'[a]} \subseteq Plain

\* A fresh row, which record_open_outcome may answer at once.
BookExtended(a) ==
    /\ offerCount'[a] = offerCount[a] + 1
    /\ KeptBut(a, offerCount[a] + 1)
    /\ status[a] \in Plain \cup {"declined", "offer_terminated"}
    /\ NextId(a) \in OfferIds /\ ~offers'[NextId(a)].terminated
    /\ \/ status'[a] = "offered" /\ offers'[NextId(a)].response = "none"
       \/ /\ status'[a] \in {"accepted", "declined"}
          /\ offers'[NextId(a)].response = status'[a]

BookAnswered(a) ==
    /\ offerCount'[a] = offerCount[a]
    /\ KeptBut(a, offerCount[a])
    /\ status[a] = "offered" /\ status'[a] \in {"accepted", "declined"}
    /\ offerCount[a] > 0 => /\ offers'[CurrentId(a)].response = status'[a]
                            /\ offers'[CurrentId(a)].terminated = CurrentRow(a).terminated

BookTerminated(a) ==
    /\ offerCount'[a] = offerCount[a]
    /\ KeptBut(a, offerCount[a])
    /\ status[a] \in {"offered", "accepted"} /\ status'[a] = "offer_terminated"
    /\ offerCount[a] > 0 => /\ offers'[CurrentId(a)].response = CurrentRow(a).response
                            /\ offers'[CurrentId(a)].terminated

BookRevoked(a) ==
    /\ offerCount'[a] = offerCount[a]
    /\ status[a] \in LiveStatuses /\ status'[a] = "rejected"
    /\ \A n \in Slots :
         /\ offers'[<<a, n>>].response = offers[<<a, n>>].response
         /\ offers'[<<a, n>>].terminated = (offers[<<a, n>>].terminated \/ Unanswered(offers[<<a, n>>]))

BookStep(a) ==
    \/ BookAlone(a)
    \/ BookExtended(a)
    \/ BookAnswered(a)
    \/ BookTerminated(a)
    \/ BookRevoked(a)

\* Offers and counts untouched, and a status moved within the plain ones.
LEMMA PlainBooks ==
    ASSUME UNCHANGED <<offers, offerCount>>, NEW a \in Apps,
           status'[a] = status[a] \/ {status[a], status'[a]} \subseteq Plain
    PROVE  BookStep(a)
  BY DEF BookStep, BookAlone, RowKept

\* The applications other than the one a plan is about.
LEMMA OtherBooks ==
    ASSUME TypeOK, NEW a \in Apps, NEW b \in Apps \ {a},
           \A p \in OfferIds : p[1] # a => offers'[p] = offers[p],
           offerCount'[b] = offerCount[b], status'[b] = status[b]
    PROVE  BookStep(b)
  <1>1. \A n \in Slots : <<b, n>> \in OfferIds /\ <<b, n>>[1] = b
    BY DEF OfferIds
  <1> QED BY <1>1 DEF BookStep, BookAlone, RowKept

LEMMA SetStatusValue ==
    ASSUME AppTypes, NEW a \in Apps, NEW to, NEW revived, SetStatus(a, to, revived)
    PROVE  status'[a] = to /\ \A b \in Apps \ {a} : status'[b] = status[b]
  BY DEF SetStatus, Record, AppTypes

LEMMA ExtensionBooks ==
    ASSUME TypeOK, NEW a \in Apps, NEW d \in Deadlines, NEW revived,
           PlanExtension(a, d, revived),
           status[a] \in Plain \cup {"declined", "offer_terminated"},
           NEW b \in Apps
    PROVE  BookStep(b)
  <1>0. AppTypes /\ OfferTypes
    BY TypeParts
  <1> DEFINE o == NextId(a)
  <1>1. o \in OfferIds /\ o = <<a, offerCount[a] + 1>>
    BY <1>0, OfferIdFacts DEF PlanExtension, NextId
  <1>2. /\ offers' = [offers EXCEPT ![o] = FreshRow(d)]
        /\ offerCount' = [offerCount EXCEPT ![a] = @ + 1]
        /\ status'[a] = "offered" /\ \A c \in Apps \ {a} : status'[c] = status[c]
    BY <1>0, SetStatusValue DEF PlanExtension
  <1>3. offers'[o] = FreshRow(d) /\ \A p \in OfferIds \ {o} : offers'[p] = offers[p]
    BY <1>0, <1>1, <1>2 DEF OfferTypes
  <1>4. offerCount'[a] = offerCount[a] + 1 /\ \A c \in Apps \ {a} : offerCount'[c] = offerCount[c]
    BY <1>0, <1>2 DEF OfferTypes
  <1>5. CASE b # a
    BY <1>1, <1>2, <1>3, <1>4, <1>5, OtherBooks
  <1>6. CASE b = a
    <2>1. \A n \in Slots \ {offerCount[a] + 1} : <<a, n>> \in OfferIds \ {o}
      BY <1>1 DEF OfferIds
    <2> HIDE DEF o
    <2>2. KeptBut(a, offerCount[a] + 1)
      BY <1>3, <2>1 DEF KeptBut, RowKept
    <2>3. ~offers'[o].terminated /\ offers'[o].response = "none"
      BY <1>3 DEF FreshRow
    <2> QED BY <1>1, <1>2, <1>4, <1>6, <2>2, <2>3 DEF BookStep, BookExtended, o
  <1> QED BY <1>5, <1>6

\* The two ways a row comes to be answered: the current row of an offered
\* application, or a fresh row of one still in progress.
AnswersCurrent(a, o, off) ==
    /\ status[a] = "offered" /\ o = CurrentId(a) /\ off = offers
    /\ offerCount' = offerCount

AnswersFresh(a, o, off) ==
    /\ status[a] = "in_progress" /\ o = NextId(a)
    /\ off = [offers EXCEPT ![o] = FreshRow(0)]
    /\ offerCount' = [offerCount EXCEPT ![a] = @ + 1]

LEMMA AnswerFacts ==
    ASSUME TypeOK, NEW a \in Apps, NEW o \in OfferIds, NEW off,
           AnswersCurrent(a, o, off) \/ AnswersFresh(a, o, off)
    PROVE  /\ o[1] = a /\ off \in [OfferIds -> OfferRow]
           /\ \A p \in OfferIds \ {o} : off[p] = offers[p]
           /\ \A b \in Apps \ {a} : offerCount'[b] = offerCount[b]
  <1>0. OfferTypes
    BY TypeParts
  <1>1. FreshRow(0) \in OfferRow
    BY FreshRowType, ConstantsAssumption DEF Deadlines
  <1> QED BY <1>0, <1>1 DEF AnswersCurrent, AnswersFresh, CurrentId, NextId, OfferTypes

\* What is left to show of an answered application, once its row is known.
LEMMA AnsweredBook ==
    ASSUME TypeOK, NEW a \in Apps, NEW o \in OfferIds, NEW off,
           AnswersCurrent(a, o, off) \/ AnswersFresh(a, o, off),
           status'[a] \in {"accepted", "declined"},
           offers'[o].response = status'[a], offers'[o].terminated = off[o].terminated,
           \A n \in Slots : <<a, n>> # o => offers'[<<a, n>>] = off[<<a, n>>]
    PROVE  BookStep(a)
  <1>0. OfferTypes
    BY TypeParts
  <1>1. \A n \in Slots : <<a, n>> # o => RowKept(<<a, n>>)
    <2>1. \A n \in Slots : <<a, n>> \in OfferIds
      BY DEF OfferIds
    <2> QED BY <2>1, AnswerFacts DEF RowKept
  <1>2. CASE AnswersCurrent(a, o, off)
    <2>1. KeptBut(a, offerCount[a])
      BY <1>1, <1>2 DEF AnswersCurrent, CurrentId, KeptBut
    <2> QED BY <1>2, <2>1 DEF AnswersCurrent, BookStep, BookAnswered, CurrentRow
  <1>3. CASE AnswersFresh(a, o, off)
    <2>1. KeptBut(a, offerCount[a] + 1)
      BY <1>1, <1>3 DEF AnswersFresh, NextId, KeptBut
    <2>2. off[o] = FreshRow(0)
      BY <1>0, <1>3 DEF AnswersFresh, OfferTypes
    <2>3. offerCount'[a] = offerCount[a] + 1
      BY <1>0, <1>3 DEF AnswersFresh, OfferTypes
    <2>4. ~offers'[o].terminated
      BY <2>2 DEF FreshRow
    <2> QED BY <1>3, <2>1, <2>3, <2>4 DEF AnswersFresh, BookStep, BookExtended, Plain
  <1> QED BY <1>2, <1>3

LEMMA DeclineBooks ==
    ASSUME TypeOK, NEW a \in Apps, NEW o \in OfferIds, NEW off,
           AnswersCurrent(a, o, off) \/ AnswersFresh(a, o, off),
           PlanDecline(a, o, off), NEW b \in Apps
    PROVE  BookStep(b)
  <1>0. AppTypes /\ OfferTypes
    BY TypeParts
  <1>1. /\ o[1] = a /\ off \in [OfferIds -> OfferRow]
        /\ \A p \in OfferIds \ {o} : off[p] = offers[p]
        /\ \A c \in Apps \ {a} : offerCount'[c] = offerCount[c]
    BY AnswerFacts
  <1>2. status'[a] = "declined" /\ \A c \in Apps \ {a} : status'[c] = status[c]
    BY <1>0, SetStatusValue DEF PlanDecline
  <1>3. /\ offers'[o].response = "declined" /\ offers'[o].terminated = off[o].terminated
        /\ \A p \in OfferIds \ {o} : offers'[p] = off[p]
    BY <1>1 DEF PlanDecline, OfferRow
  <1>4. CASE b # a
    BY <1>1, <1>2, <1>3, <1>4, OtherBooks
  <1>5. CASE b = a
    <2>1. \A n \in Slots : <<a, n>> \in OfferIds
      BY DEF OfferIds
    <2> QED BY <1>2, <1>3, <1>5, <2>1, AnsweredBook
  <1> QED BY <1>4, <1>5

LEMMA AcceptanceBooks ==
    ASSUME TypeOK, NEW a \in Apps, NEW o \in OfferIds, NEW off, NEW st, NEW count, NEW credits,
           AnswersCurrent(a, o, off) \/ AnswersFresh(a, o, off),
           st \in [Apps -> Statuses], \A c \in Apps \ {a} : st[c] = status[c],
           \A c \in Apps \ {a} : count[c] = offerCount[c],
           PlanAcceptance(a, o, st, off, count, credits), NEW b \in Apps
    PROVE  BookStep(b)
  <1>0. AppTypes /\ OfferTypes
    BY TypeParts
  <1> DEFINE swept == Cascade(a, st)
             declined == {<<c, count[c]>> : c \in {x \in swept : st[x] = "offered"}}
             to == [c \in Apps |-> IF c = a THEN "accepted"
                                   ELSE IF c \in swept THEN CascadeStatus(st[c])
                                   ELSE st[c]]
  <1>1. /\ o[1] = a /\ off \in [OfferIds -> OfferRow]
        /\ \A p \in OfferIds \ {o} : off[p] = offers[p]
        /\ \A c \in Apps \ {a} : offerCount'[c] = offerCount[c]
    BY AnswerFacts
  <1>2. offers' = [p \in OfferIds |->
                      IF p = o THEN [off[p] EXCEPT !.response = "accepted", !.waived = credits]
                      ELSE IF p \in declined THEN [off[p] EXCEPT !.response = "declined"]
                      ELSE off[p]]
    BY DEF PlanAcceptance
  <1>3. status' = to
    BY DEF PlanAcceptance, Record
  <1>4. swept \subseteq Apps \ {a} /\ \A c \in swept : st[c] \in LiveStatuses
    BY DEF Cascade, CascadeTakes
  <1>5. \A row \in OfferRow :
           /\ [row EXCEPT !.response = "accepted", !.waived = credits].response = "accepted"
           /\ [row EXCEPT !.response = "accepted", !.waived = credits].terminated = row.terminated
           /\ [row EXCEPT !.response = "declined"].response = "declined"
           /\ [row EXCEPT !.response = "declined"].terminated = row.terminated
    BY DEF OfferRow
  <1>6. CASE b = a
    <2>1. \A n \in Slots : <<a, n>> \in OfferIds /\ <<a, n>> \notin declined
      BY <1>4 DEF OfferIds
    <2>2. status'[a] = "accepted"
      BY <1>3
    <2>3. offers'[o] = [off[o] EXCEPT !.response = "accepted", !.waived = credits]
      BY <1>2
    <2>4. offers'[o].response = "accepted" /\ offers'[o].terminated = off[o].terminated
      BY <1>1, <1>5, <2>3
    <2> HIDE DEF declined, to
    <2>5. \A n \in Slots : <<a, n>> # o => offers'[<<a, n>>] = off[<<a, n>>]
      BY <1>2, <2>1
    <2> QED BY <1>6, <2>2, <2>4, <2>5, AnsweredBook
  <1>7. CASE b # a
    <2>1. offerCount'[b] = offerCount[b] /\ st[b] = status[b] /\ count[b] = offerCount[b]
      BY <1>1, <1>7
    <2>2. \A n \in Slots : /\ <<b, n>> \in OfferIds \ {o} /\ off[<<b, n>>] = offers[<<b, n>>]
                           /\ <<b, n>>[1] = b
      BY <1>1, <1>7 DEF OfferIds
    <2>3. CASE b \in swept /\ status[b] = "offered"
      <3>1. status'[b] = "declined"
        BY <1>3, <1>7, <2>1, <2>3 DEF CascadeStatus
      <3>2. \A n \in Slots : <<b, n>> \in declined <=> n = offerCount[b]
        BY <2>1, <2>3
      <3> HIDE DEF declined, to, swept
      <3>3. KeptBut(b, offerCount[b])
        BY <1>2, <2>2, <3>2 DEF KeptBut, RowKept
      <3>4. offerCount[b] > 0 => offerCount[b] \in Slots
        BY <1>0, ConstantsAssumption DEF OfferTypes, Slots
      <3>5. offerCount[b] > 0 =>
               /\ CurrentId(b) \in OfferIds
               /\ offers'[CurrentId(b)] = [offers[CurrentId(b)] EXCEPT !.response = "declined"]
        BY <1>2, <2>2, <3>2, <3>4 DEF CurrentId
      <3>6. offerCount[b] > 0 => /\ offers'[CurrentId(b)].response = "declined"
                                 /\ offers'[CurrentId(b)].terminated = CurrentRow(b).terminated
        <4> SUFFICES ASSUME offerCount[b] > 0
                     PROVE  /\ offers'[CurrentId(b)].response = "declined"
                            /\ offers'[CurrentId(b)].terminated = CurrentRow(b).terminated
          OBVIOUS
        <4> DEFINE row == offers[CurrentId(b)]
        <4>1. row \in OfferRow /\ CurrentRow(b) = row
          BY <1>0, <3>5 DEF OfferTypes, CurrentRow
        <4>2. offers'[CurrentId(b)] = [row EXCEPT !.response = "declined"]
          BY <3>5
        <4> HIDE DEF row
        <4> QED BY <1>5, <4>1, <4>2
      <3> QED BY <2>1, <2>3, <3>1, <3>3, <3>6 DEF BookStep, BookAnswered
    <2>4. CASE ~(b \in swept /\ status[b] = "offered")
      <3>1. \A n \in Slots : <<b, n>> \notin declined
        BY <2>1, <2>4
      <3>2. status'[b] = status[b] \/ {status[b], status'[b]} \subseteq Plain
        BY <1>3, <1>4, <1>7, <2>1, <2>4 DEF CascadeStatus, LiveStatuses, Plain
      <3> HIDE DEF declined, to, swept
      <3>3. \A n \in Slots : RowKept(<<b, n>>)
        BY <1>2, <2>2, <3>1 DEF RowKept
      <3> QED BY <2>1, <3>2, <3>3 DEF BookStep, BookAlone
    <2> QED BY <2>3, <2>4
  <1> QED BY <1>6, <1>7

LEMMA StudentBooks ==
    ASSUME TypeOK, StudentStep, NEW b \in Apps
    PROVE  BookStep(b)
  <1> SUFFICES ASSUME NEW a \in Apps,
                      \/ Apply(a) \/ WithdrawApplication(a)
                      \/ AcceptOffer(a) \/ DeclineOffer(a)
               PROVE  BookStep(b)
    BY DEF StudentStep
  <1>0. AppTypes /\ OfferTypes
    BY TypeParts
  <1>1. CASE Apply(a) \/ WithdrawApplication(a)
    <2>1. \E to \in Plain : status[a] \in Plain /\ \E revived : SetStatus(a, to, revived)
      BY <1>1 DEF Apply, WithdrawApplication, Decide, Legal, TRANSITIONS, Row, Plain
    <2>2. status'[b] = status[b] \/ {status[b], status'[b]} \subseteq Plain
      BY <1>0, <2>1, SetStatusValue
    <2>3. UNCHANGED <<offers, offerCount>>
      BY <1>1 DEF Apply, WithdrawApplication, offerVars
    <2> QED BY <2>2, <2>3, PlainBooks
  <1>2. CASE AcceptOffer(a)
    <2>1. CurrentId(a) \in OfferIds /\ AnswersCurrent(a, CurrentId(a), offers)
      BY <1>0, <1>2, OfferIdFacts DEF AcceptOffer, Answerable, AnswersCurrent
    <2>2. PlanAcceptance(a, CurrentId(a), status, offers, offerCount,
                         ConstraintsCredit(a, "accept"))
      BY <1>2 DEF AcceptOffer
    <2> QED BY <1>0, <2>1, <2>2, AcceptanceBooks DEF AppTypes
  <1>3. CASE DeclineOffer(a)
    <2>1. /\ CurrentId(a) \in OfferIds /\ AnswersCurrent(a, CurrentId(a), offers)
          /\ PlanDecline(a, CurrentId(a), offers)
      BY <1>0, <1>3, OfferIdFacts DEF DeclineOffer, Answerable, AnswersCurrent
    <2> QED BY <2>1, DeclineBooks
  <1> QED BY <1>1, <1>2, <1>3

LEMMA ProcessBooks ==
    ASSUME TypeOK, ProcessStep, NEW b \in Apps
    PROVE  BookStep(b)
  <1> SUFFICES ASSUME NEW a \in Apps,
                      NEW outcome \in {"offered", "accepted", "declined"},
                      \/ Promote(a) \/ Reject(a) \/ ExtendOffer(a)
                      \/ RecordOpenOutcome(a, outcome)
               PROVE  BookStep(b)
    BY DEF ProcessStep
  <1>0. AppTypes /\ OfferTypes /\ StaffTypes
    BY TypeParts
  <1>1. CASE Promote(a) \/ Reject(a)
    <2>1. \E to \in Plain : status[a] \in Plain /\ SetStatus(a, to, {})
      BY <1>1 DEF Promote, Reject, Decide, Legal, TRANSITIONS, Row, Plain
    <2>2. status'[b] = status[b] \/ {status[b], status'[b]} \subseteq Plain
      BY <1>0, <2>1, SetStatusValue
    <2>3. UNCHANGED <<offers, offerCount>>
      BY <1>1 DEF Promote, Reject, offerVars
    <2> QED BY <2>2, <2>3, PlainBooks
  <1>2. CASE ExtendOffer(a)
    <2>1. PlanExtension(a, jobs[JobOf[a]].deadline, {}) /\ status[a] \in Plain
      BY <1>2 DEF ExtendOffer, Decide, Legal, TRANSITIONS, Row, Plain
    <2> QED BY <1>0, <2>1, ExtensionBooks, JobDeadlineType
  <1>3. CASE RecordOpenOutcome(a, outcome)
    <2> DEFINE fresh == status[a] = "in_progress"
               o == IF fresh THEN NextId(a) ELSE CurrentId(a)
               off == IF fresh THEN [offers EXCEPT ![o] = FreshRow(0)] ELSE offers
               st == IF fresh THEN [status EXCEPT ![a] = "offered"] ELSE status
               count == IF fresh THEN [offerCount EXCEPT ![a] = @ + 1] ELSE offerCount
    <2>1. o \in OfferIds
      BY <1>0, <1>3, OfferIdFacts DEF RecordOpenOutcome, Answerable
    <2>2. offerCount' = count => AnswersCurrent(a, o, off) \/ AnswersFresh(a, o, off)
      BY <1>3 DEF RecordOpenOutcome, Answerable, AnswersCurrent, AnswersFresh
    <2>3. /\ st \in [Apps -> Statuses] /\ \A c \in Apps \ {a} : st[c] = status[c]
          /\ \A c \in Apps \ {a} : count[c] = offerCount[c]
      BY <1>0 DEF AppTypes, OfferTypes, Statuses
    <2>4. CASE fresh /\ PlanExtension(a, 0, {})
      BY <2>4, ExtensionBooks, ConstantsAssumption DEF Deadlines, Plain
    <2>5. CASE /\ PlanAcceptance(a, o, st, off, count, ConstraintsCredit(a, "accept"))
               /\ offerCount' = count
      <3> HIDE DEF o, off, st, count
      <3> QED BY <2>1, <2>2, <2>3, <2>5, AcceptanceBooks
    <2>6. CASE PlanDecline(a, o, off) /\ offerCount' = count
      <3> HIDE DEF o, off, count
      <3> QED BY <2>1, <2>2, <2>6, DeclineBooks
    <2> QED BY <1>3, <2>4, <2>5, <2>6 DEF RecordOpenOutcome
  <1> QED BY <1>1, <1>2, <1>3

LEMMA ExpiryBooks ==
    ASSUME TypeOK, NEW t \in tasks, EnforceOfferExpiry(t), NEW b \in Apps
    PROVE  BookStep(b)
  <1> DEFINE o == t.offer
             a == o[1]
             blocked == ~member[CycleOfApp(a)] \/ ConstraintsBlock(a, "accept")
             action == IF ~InScope(CycleOfApp(a)) THEN "noop"
                       ELSE DecideExpiry(KindOf(a), o = CurrentId(a), status[a], offers[o],
                                         t.at, now, Behavior[CycleOfApp(a)], blocked)
  <1>0. AppTypes /\ OfferTypes
    BY TypeParts
  <1>1. o \in OfferIds /\ a \in Apps /\ offerCount' = offerCount
    BY <1>0 DEF OfferTypes, OfferIds, EnforceOfferExpiry
  <1>2. action \notin {"noop", "reschedule"} => AnswersCurrent(a, o, offers)
    <2> HIDE DEF blocked, o, a
    <2> QED BY <1>1 DEF DecideExpiry, AnswersCurrent
  <1>3. CASE UNCHANGED <<appVars, offers>>
    BY <1>1, <1>3, PlainBooks DEF appVars
  <1>4. CASE action \notin {"noop", "reschedule"} /\ PlanDecline(a, o, offers)
    <2> HIDE DEF action
    <2> QED BY <1>1, <1>2, <1>4, DeclineBooks
  <1>5. CASE /\ action \notin {"noop", "reschedule"}
             /\ PlanAcceptance(a, o, status, offers, offerCount, ConstraintsCredit(a, "accept"))
    <2> HIDE DEF action
    <2> QED BY <1>0, <1>1, <1>2, <1>5, AcceptanceBooks DEF AppTypes
  <1> QED
    <2>1. \/ UNCHANGED <<appVars, offers>>
          \/ action \notin {"noop", "reschedule"} /\ PlanDecline(a, o, offers)
          \/ /\ action \notin {"noop", "reschedule"}
             /\ PlanAcceptance(a, o, status, offers, offerCount, ConstraintsCredit(a, "accept"))
      <3>1. \/ UNCHANGED <<appVars, offers>>
            \/ action \in {"auto_decline", "auto_decline_gate_fallback"} /\ PlanDecline(a, o, offers)
            \/ /\ action = "auto_accept"
               /\ PlanAcceptance(a, o, status, offers, offerCount, ConstraintsCredit(a, "accept"))
        BY DEF EnforceOfferExpiry
      <3> HIDE DEF action
      <3> QED BY <3>1
    <2> QED BY <1>3, <1>4, <1>5, <2>1

LEMMA TerminateBooks ==
    ASSUME TypeOK, NEW a \in Apps, NEW picked \in SUBSET RestoreCandidates(CurrentId(a)),
           NEW d \in [{e.app : e \in picked} -> Deadlines], TerminateOffer(a, picked, d),
           NEW b \in Apps
    PROVE  BookStep(b)
  <1> DEFINE o == CurrentId(a)
             renewed == {e.app : e \in {x \in picked : x.from = "offered"}}
             restored == {e.app : e \in picked}
             back(c) == (CHOOSE e \in picked : e.app = c).from
  <1>0. AppTypes /\ OfferTypes
    BY TypeParts
  <1>1. /\ offers' = [p \in OfferIds |->
                        IF p = o THEN [offers[p] EXCEPT !.terminated = TRUE]
                        ELSE IF p[1] \in renewed /\ p = NextId(p[1]) THEN FreshRow(d[p[1]])
                        ELSE offers[p]]
        /\ offerCount' = [c \in Apps |-> offerCount[c] + IF c \in renewed THEN 1 ELSE 0]
        /\ status' = [c \in Apps |-> IF c = a THEN "offer_terminated"
                                     ELSE IF c \in restored THEN back(c) ELSE status[c]]
        /\ offerCount[a] > 0 /\ status[a] \in {"offered", "accepted"}
        /\ \A c \in renewed : offerCount[c] < MaxOffers
    BY DEF TerminateOffer, Record, Decide, Legal, TRANSITIONS, Row
  <1>2. /\ \A e \in picked : /\ e.app \in Apps /\ e.from \in LiveStatuses
                             /\ status[e.app] = CascadeStatus(e.from)
        /\ renewed \subseteq restored /\ restored \subseteq Apps \ {a}
    <2>1. \A e \in picked : e \in caused /\ status[e.app] = CascadeStatus(e.from)
      BY DEF RestoreCandidates
    <2>2. \A e \in picked : e.app \in Apps /\ e.from \in LiveStatuses
      BY <1>0, <2>1 DEF AppTypes
    <2>3. \A e \in picked : e.app # a
      BY <1>1, <2>1 DEF CascadeStatus
    <2> QED BY <2>1, <2>2, <2>3
  <1>3. \A n \in Slots : <<b, n>> \in OfferIds /\ <<b, n>>[1] = b
    BY DEF OfferIds
  <1>4. CASE b = a
    <2>1. a \notin renewed /\ offerCount'[a] = offerCount[a] /\ status'[a] = "offer_terminated"
      <3>1. offerCount[a] \in Nat
        BY <1>0, ConstantsAssumption DEF OfferTypes
      <3> HIDE DEF renewed, restored, back
      <3> QED BY <1>1, <1>2, <3>1
    <2>2. o \in OfferIds
      BY <1>0, <1>1, OfferIdFacts
    <2>3. offers'[o] = [offers[o] EXCEPT !.terminated = TRUE]
      BY <1>1, <2>2
    <2>4. offers'[o].response = CurrentRow(a).response /\ offers'[o].terminated
      BY <1>0, <2>2, <2>3 DEF CurrentRow, OfferTypes, OfferRow
    <2>5. KeptBut(a, offerCount[a])
      <3> HIDE DEF renewed, restored, back
      <3> QED BY <1>1, <1>3, <1>4, <2>1 DEF KeptBut, RowKept, CurrentId
    <2> QED BY <1>1, <1>4, <2>1, <2>4, <2>5 DEF BookStep, BookTerminated
  <1>5. CASE b \in renewed
    <2>1. b # a /\ offerCount'[b] = offerCount[b] + 1 /\ status[b] = "declined"
      <3>1. \E e \in picked : e.app = b /\ e.from = "offered"
        BY <1>5
      <3>2. status[b] = "declined"
        BY <1>2, <3>1 DEF CascadeStatus
      <3> HIDE DEF renewed, restored, back
      <3> QED BY <1>1, <1>2, <1>5, <3>2
    <2>2. back(b) = "offered"
      <3>1. PICK e \in picked : e.app = b /\ e.from = "offered"
        BY <1>5
      <3>2. \A f \in picked : f.app = b => f.from = "offered"
        BY <1>2, <2>1 DEF CascadeStatus
      <3> QED BY <3>1, <3>2
    <2>3. status'[b] = "offered"
      <3> HIDE DEF renewed, restored, back
      <3> QED BY <1>1, <1>2, <1>5, <2>1, <2>2
    <2>4. NextId(b) \in OfferIds /\ NextId(b) = <<b, offerCount[b] + 1>>
      <3> HIDE DEF renewed
      <3> QED BY <1>0, <1>1, <1>5, OfferIdFacts DEF NextId
    <2>5. offers'[NextId(b)] = FreshRow(d[b])
      <3> HIDE DEF renewed
      <3> QED BY <1>1, <1>5, <2>1, <2>4 DEF CurrentId
    <2>6. KeptBut(b, offerCount[b] + 1)
      <3>1. ASSUME NEW n \in Slots \ {offerCount[b] + 1}
            PROVE  offers'[<<b, n>>] = offers[<<b, n>>]
        <4> DEFINE p == <<b, n>>
        <4>1. p \in OfferIds /\ p[1] = b /\ p # o /\ p # NextId(b)
          BY <1>3, <2>1, <2>4 DEF CurrentId
        <4> HIDE DEF renewed, o, p
        <4>2. offers'[p] = offers[p]
          BY <1>1, <4>1
        <4> QED BY <4>2 DEF p
      <3> QED BY <3>1 DEF KeptBut, RowKept
    <2>7. ~offers'[NextId(b)].terminated /\ offers'[NextId(b)].response = "none"
      BY <2>5 DEF FreshRow
    <2> HIDE DEF renewed, restored, back
    <2> QED BY <2>1, <2>3, <2>4, <2>6, <2>7 DEF BookStep, BookExtended
  <1>6. CASE b # a /\ b \notin renewed
    <2>1. offerCount'[b] = offerCount[b]
      <3>1. offerCount[b] \in Nat
        BY <1>0, ConstantsAssumption DEF OfferTypes
      <3> HIDE DEF renewed
      <3> QED BY <1>1, <1>6, <3>1
    <2>2. \A n \in Slots : RowKept(<<b, n>>)
      <3> HIDE DEF renewed
      <3> QED BY <1>1, <1>3, <1>6 DEF RowKept, CurrentId
    <2>3. status'[b] = status[b] \/ {status[b], status'[b]} \subseteq Plain
      <3>1. CASE b \in restored
        <4>1. \A e \in picked : e.app = b => e.from # "offered"
          BY <1>6
        <4>2. \E e \in picked : e.app = b
          BY <3>1
        <4>3. PICK e \in picked : e.app = b /\ e.from = back(b)
          <5> DEFINE choice == CHOOSE e \in picked : e.app = b
          <5>1. choice \in picked /\ choice.app = b
            BY <4>2
          <5> QED BY <5>1
        <4>4. back(b) \in Plain /\ status[b] = "auto_withdrawn"
          BY <1>2, <4>1, <4>3 DEF CascadeStatus, LiveStatuses, Plain
        <4>5. status'[b] = back(b)
          <5> HIDE DEF renewed, restored, back
          <5> QED BY <1>1, <1>6, <3>1
        <4> QED BY <4>4, <4>5 DEF Plain
      <3>2. CASE b \notin restored
        <4> HIDE DEF renewed, restored, back
        <4> QED BY <1>1, <1>6, <3>2
      <3> QED BY <3>1, <3>2
    <2> QED BY <2>1, <2>2, <2>3 DEF BookStep, BookAlone
  <1> QED BY <1>4, <1>5, <1>6

LEMMA InterventionBooks ==
    ASSUME TypeOK, InterventionStep, NEW b \in Apps
    PROVE  BookStep(b)
  <1>0. AppTypes /\ OfferTypes
    BY TypeParts
  <1> PICK a \in Apps :
        \/ \E picked \in RestoreChoices(a) :
             \E d \in [{e.app : e \in picked} -> Deadlines] : TerminateOffer(a, picked, d)
        \/ \E d \in Deadlines : ReExtendOffer(a, d)
        \/ ReinstateApplication(a)
        \/ \E to \in Statuses : ForceTransition(a, to)
    BY DEF InterventionStep
  <1>1. CASE \E picked \in RestoreChoices(a) :
               \E d \in [{e.app : e \in picked} -> Deadlines] : TerminateOffer(a, picked, d)
    BY <1>1, TerminateBooks DEF RestoreChoices
  <1>2. ASSUME NEW d \in Deadlines, ReExtendOffer(a, d) PROVE BookStep(b)
    <2>1. PlanExtension(a, d, {a}) /\ status[a] \in {"declined", "offer_terminated"}
      BY <1>2 DEF ReExtendOffer, Decide, Legal, TRANSITIONS, Row
    <2> QED BY <2>1, ExtensionBooks
  <1>3. CASE ReinstateApplication(a)
    <2>1. SetStatus(a, "in_progress", {a}) /\ status[a] \in Plain
      BY <1>3 DEF ReinstateApplication, Decide, Legal, TRANSITIONS, Row, Plain
    <2>2. status'[b] = status[b] \/ {status[b], status'[b]} \subseteq Plain
      BY <1>0, <2>1, SetStatusValue DEF Plain
    <2>3. UNCHANGED <<offers, offerCount>>
      BY <1>3 DEF ReinstateApplication, offerVars
    <2> QED BY <2>2, <2>3, PlainBooks
  <1>4. ASSUME NEW to \in Statuses, ForceTransition(a, to) PROVE BookStep(b)
    <2>1. /\ UNCHANGED <<offers, offerCount>> /\ a \in forced'
          /\ \A c \in Apps \ {a} : status'[c] = status[c]
      BY <1>0, <1>4, SetStatusValue DEF ForceTransition, offerVars
    <2> QED BY <2>1 DEF BookStep, BookAlone, RowKept
  <1> QED BY <1>1, <1>2, <1>3, <1>4

LEMMA CancelBooks ==
    ASSUME TypeOK, NEW j, NEW rows \in SUBSET Apps, CancelJob(j, rows), NEW b \in Apps
    PROVE  BookStep(b)
  <1>0. AppTypes /\ OfferTypes
    BY TypeParts
  <1> DEFINE hit == {a \in rows : Decide(TRANSITIONS.cancel_job, a, "rejected", "staff")}
  <1>1. /\ status' = [a \in Apps |-> IF a \in hit THEN "rejected" ELSE status[a]]
        /\ offers' = [o \in OfferIds |-> IF o[1] \in hit /\ Unanswered(offers[o])
                                         THEN [offers[o] EXCEPT !.terminated = TRUE]
                                         ELSE offers[o]]
        /\ offerCount' = offerCount
    BY DEF CancelJob, Record
  <1>2. \A a \in hit : status[a] \in LiveStatuses
    BY DEF Decide, Legal, TRANSITIONS, Row
  <1>3. \A n \in Slots : <<b, n>> \in OfferIds /\ <<b, n>>[1] = b
    BY DEF OfferIds
  <1>4. \A row \in OfferRow : /\ [row EXCEPT !.terminated = TRUE].response = row.response
                              /\ [row EXCEPT !.terminated = TRUE].terminated
                              /\ row.terminated \in BOOLEAN
    BY DEF OfferRow
  <1> HIDE DEF hit
  <1>5. CASE b \in hit
    <2>1. \A n \in Slots :
            /\ offers'[<<b, n>>].response = offers[<<b, n>>].response
            /\ offers'[<<b, n>>].terminated
                 = (offers[<<b, n>>].terminated \/ Unanswered(offers[<<b, n>>]))
      <3> SUFFICES ASSUME NEW n \in Slots
                   PROVE  /\ offers'[<<b, n>>].response = offers[<<b, n>>].response
                          /\ offers'[<<b, n>>].terminated
                               = (offers[<<b, n>>].terminated \/ Unanswered(offers[<<b, n>>]))
        OBVIOUS
      <3>1. offers[<<b, n>>] \in OfferRow
        BY <1>0, <1>3 DEF OfferTypes
      <3>2. offers'[<<b, n>>] = IF Unanswered(offers[<<b, n>>])
                                THEN [offers[<<b, n>>] EXCEPT !.terminated = TRUE]
                                ELSE offers[<<b, n>>]
        BY <1>1, <1>3, <1>5
      <3>3. CASE Unanswered(offers[<<b, n>>])
        BY <1>4, <3>1, <3>2, <3>3 DEF Unanswered, OfferRow
      <3>4. CASE ~Unanswered(offers[<<b, n>>])
        BY <1>4, <3>1, <3>2, <3>4 DEF OfferRow
      <3> QED BY <3>3, <3>4
    <2> QED BY <1>1, <1>2, <1>5, <2>1 DEF BookStep, BookRevoked
  <1>6. CASE b \notin hit
    <2>1. \A n \in Slots : RowKept(<<b, n>>)
      BY <1>1, <1>3, <1>6 DEF RowKept
    <2> QED BY <1>1, <1>6, <2>1 DEF BookStep, BookAlone
  <1> QED BY <1>5, <1>6

LEMMA JobBooks ==
    ASSUME TypeOK, JobStep, NEW b \in Apps
    PROVE  BookStep(b)
  <1>0. AppTypes /\ OfferTypes
    BY TypeParts
  <1> PICK j \in Jobs :
        \/ \E rows \in SUBSET {a \in Apps : JobOf[a] = j} : CancelJob(j, rows)
        \/ \E d \in Deadlines : UpdateJobBasics(j, d)
        \/ \E on \in BOOLEAN : SetPublished(j, on)
    BY DEF JobStep
  <1>1. CASE \E rows \in SUBSET {a \in Apps : JobOf[a] = j} : CancelJob(j, rows)
    BY <1>1, CancelBooks
  <1>2. ASSUME NEW d \in Deadlines, UpdateJobBasics(j, d) PROVE BookStep(b)
    <2> DEFINE open == {o \in OfferIds : JobOf[o[1]] = j /\ Unanswered(offers[o])}
    <2>1. offers' = [o \in OfferIds |-> IF o \in open
                                        THEN [offers[o] EXCEPT !.deadline = d]
                                        ELSE offers[o]]
      BY <1>2 DEF UpdateJobBasics
    <2>2. \A row \in OfferRow : /\ [row EXCEPT !.deadline = d].response = row.response
                                /\ [row EXCEPT !.deadline = d].terminated = row.terminated
      BY DEF OfferRow
    <2>3. \A n \in Slots : <<b, n>> \in OfferIds /\ offers[<<b, n>>] \in OfferRow
      BY <1>0 DEF OfferIds, OfferTypes
    <2>4. \A n \in Slots : RowKept(<<b, n>>)
      <3> HIDE DEF open
      <3> QED BY <2>1, <2>2, <2>3 DEF RowKept
    <2> QED BY <1>2, <2>4 DEF UpdateJobBasics, appVars, BookStep, BookAlone
  <1>3. ASSUME NEW on \in BOOLEAN, SetPublished(j, on) PROVE BookStep(b)
    BY <1>3, PlainBooks DEF SetPublished, appVars, offerVars
  <1> QED BY <1>1, <1>2, <1>3

LEMMA CycleBooks ==
    ASSUME TypeOK, CycleStep, NEW b \in Apps
    PROVE  BookStep(b)
  <1> SUFFICES ASSUME NEW c \in Cycles,
                      ExitCycle(c) \/ RestoreMembership(c) \/ ArchiveCycle(c)
               PROVE  BookStep(b)
    BY DEF CycleStep
  <1>1. UNCHANGED <<offers, offerCount>>
    BY DEF ExitCycle, RestoreMembership, ArchiveCycle, offerVars
  <1>2. ExitCascade(c) \/ status' = status
    BY DEF ExitCycle, RestoreMembership, ArchiveCycle, appVars
  <1>3. status'[b] = status[b] \/ {status[b], status'[b]} \subseteq Plain
    BY <1>2 DEF ExitCascade, Record, ExitStatus, EXIT_CASCADE_STATUSES, Plain
  <1> QED BY <1>1, <1>3, PlainBooks

\* Every step does one of five things to an application's status and rows.
LEMMA BookSteps ==
    ASSUME TypeOK, [Next]_vars, NEW b \in Apps
    PROVE  BookStep(b)
  <1>1. ASSUME \/ \E dom \in Domains, value \in {"none", "allow", "deny"} : SetOverride(dom, value)
               \/ Tick
               \/ UNCHANGED vars
        PROVE  BookStep(b)
    <2>1. UNCHANGED <<offers, offerCount, status>>
      BY <1>1 DEF SetOverride, Tick, vars, appVars, offerVars
    <2> QED BY <2>1, PlainBooks
  <1> QED BY <1>1, StudentBooks, ProcessBooks, ExpiryBooks, InterventionBooks, JobBooks,
             CycleBooks DEF Next

LEMMA ForcedStays == ASSUME [Next]_vars PROVE forced \subseteq forced'
  <1>1. CASE StudentStep
    BY <1>1 DEF StudentStep, Apply, WithdrawApplication, AcceptOffer, DeclineOffer
  <1>2. CASE ProcessStep
    BY <1>2 DEF ProcessStep, Promote, Reject, ExtendOffer, RecordOpenOutcome
  <1>3. CASE InterventionStep
    BY <1>3 DEF InterventionStep, TerminateOffer, ReExtendOffer, ReinstateApplication,
                ForceTransition
  <1>4. CASE JobStep
    BY <1>4 DEF JobStep, CancelJob, UpdateJobBasics, SetPublished
  <1>5. CASE CycleStep
    BY <1>5 DEF CycleStep, ExitCycle, RestoreMembership, ArchiveCycle
  <1>6. CASE \E t \in tasks : EnforceOfferExpiry(t)
    BY <1>6 DEF EnforceOfferExpiry
  <1>7. CASE \E dom \in Domains, value \in {"none", "allow", "deny"} : SetOverride(dom, value)
    BY <1>7 DEF SetOverride
  <1>8. CASE Tick \/ UNCHANGED vars
    BY <1>8 DEF Tick, vars
  <1> QED BY <1>1, <1>2, <1>3, <1>4, <1>5, <1>6, <1>7, <1>8 DEF Next

-----------------------------------------------------------------------------
(* Status and rows agree.  Beyond its last row an application has none,    *)
(* which is what a fresh row and the accepted rows of a cascade rely on.   *)

Unwritten(a) ==
    \A n \in Slots : n > offerCount[a] =>
        offers[<<a, n>>].response = "absent" /\ ~offers[<<a, n>>].terminated

Booked(a) ==
    /\ status[a] \in {"offered", "accepted", "declined", "offer_terminated"}
         => offerCount[a] > 0
    /\ offerCount[a] > 0 => RowAgrees(status[a], CurrentRow(a))
    /\ \A n \in Slots : n < offerCount[a] =>
            ~Unanswered(offers[<<a, n>>]) /\ ~Accepted(offers[<<a, n>>])

BooksInv ==
    /\ \A a \in Apps : Unwritten(a)
    /\ \A a \in Ruled : Booked(a)

\* Which row of an application a step may touch.
LEMMA RowMoves ==
    ASSUME TypeOK, NEW a \in Apps, BookStep(a), NEW n \in Slots, ~RowKept(<<a, n>>)
    PROVE  \/ n = offerCount[a] + 1 /\ BookExtended(a)
           \/ n = offerCount[a] /\ (BookAnswered(a) \/ BookTerminated(a))
           \/ Unanswered(offers[<<a, n>>]) /\ BookRevoked(a)
  <1>1. CASE BookAlone(a)
    BY <1>1 DEF BookAlone
  <1>2. CASE BookExtended(a)
    BY <1>2 DEF BookExtended, KeptBut
  <1>3. CASE BookAnswered(a)
    BY <1>3 DEF BookAnswered, KeptBut
  <1>4. CASE BookTerminated(a)
    BY <1>4 DEF BookTerminated, KeptBut
  <1>5. CASE BookRevoked(a)
    <2>1. offers[<<a, n>>].terminated \in BOOLEAN
      <3>1. OfferTypes /\ <<a, n>> \in OfferIds
        BY TypeParts DEF OfferIds
      <3>2. offers[<<a, n>>] \in OfferRow
        BY <3>1 DEF OfferTypes
      <3> QED BY <3>2 DEF OfferRow
    <2>2. /\ offers'[<<a, n>>].response = offers[<<a, n>>].response
          /\ offers'[<<a, n>>].terminated
               = (offers[<<a, n>>].terminated \/ Unanswered(offers[<<a, n>>]))
      BY <1>5 DEF BookRevoked
    <2>3. CASE ~Unanswered(offers[<<a, n>>])
      BY <2>1, <2>2, <2>3 DEF RowKept
    <2> QED BY <1>5, <2>3
  <1> QED BY <1>1, <1>2, <1>3, <1>4, <1>5 DEF BookStep

LEMMA UnwrittenKept ==
    ASSUME TypeOK, NEW a \in Apps, BookStep(a), Unwritten(a)
    PROVE  Unwritten(a)'
  <1>1. offerCount[a] \in Nat /\ Slots \subseteq Nat
    BY ConstantsAssumption DEF TypeOK, Slots
  <1>2. offerCount'[a] \in {offerCount[a], offerCount[a] + 1}
    BY DEF BookStep, BookAlone, BookExtended, BookAnswered, BookTerminated, BookRevoked
  <1> SUFFICES ASSUME NEW n \in Slots, n > offerCount'[a]
               PROVE  /\ offers'[<<a, n>>].response = "absent"
                      /\ ~offers'[<<a, n>>].terminated
    BY DEF Unwritten
  <1>3. n \in Nat /\ n > offerCount[a]
    BY <1>1, <1>2
  <1>4. offers[<<a, n>>].response = "absent" /\ ~offers[<<a, n>>].terminated
    BY <1>3 DEF Unwritten
  <1>5. RowKept(<<a, n>>)
    <2> SUFFICES ASSUME ~RowKept(<<a, n>>) PROVE FALSE
      OBVIOUS
    <2>1. CASE n = offerCount[a] + 1 /\ BookExtended(a)
      BY <1>1, <2>1 DEF BookExtended
    <2>2. CASE n = offerCount[a]
      BY <1>1, <1>3, <2>2
    <2>3. CASE Unanswered(offers[<<a, n>>])
      BY <1>4, <2>3 DEF Unanswered
    <2> QED BY <2>1, <2>2, <2>3, RowMoves
  <1> QED BY <1>4, <1>5 DEF RowKept

\* The current row of an agreeing application whose status has no offer of it
\* in force is closed.
LEMMA BookedKept ==
    ASSUME TypeOK, NEW a \in Apps, a \notin forced', BookStep(a), Unwritten(a), Booked(a)
    PROVE  Booked(a)'
  <1>1. offerCount[a] \in 0..MaxOffers /\ MaxOffers \in Nat /\ Slots = 1..MaxOffers
    BY ConstantsAssumption DEF TypeOK, Slots
  <1>2. offerCount[a] > 0 => offerCount[a] \in Slots /\ CurrentId(a) = <<a, offerCount[a]>>
    BY <1>1 DEF CurrentId
  <1> USE DEF Booked, RowAgrees, CurrentRow, Unanswered, Accepted
  <1>3. CASE BookAlone(a)
    <2>1. /\ offerCount'[a] = offerCount[a] /\ CurrentId(a)' = CurrentId(a)
          /\ \A n \in Slots : RowKept(<<a, n>>)
          /\ status'[a] = status[a] \/ {status[a], status'[a]} \subseteq Plain
      BY <1>3 DEF BookAlone, CurrentId
    <2>2. offerCount[a] > 0 => RowKept(CurrentId(a))
      BY <1>2, <2>1
    <2>3. offerCount[a] > 0 => RowAgrees(status[a], CurrentRow(a))'
      BY <2>1, <2>2 DEF RowKept, Plain
    <2>4. \A n \in Slots : n < offerCount[a] =>
             ~Unanswered(offers[<<a, n>>])' /\ ~Accepted(offers[<<a, n>>])'
      BY <2>1 DEF RowKept
    <2> QED BY <2>1, <2>3, <2>4 DEF Plain
  <1>4. CASE BookExtended(a)
    <2>1. /\ offerCount'[a] = offerCount[a] + 1 /\ CurrentId(a)' = NextId(a)
          /\ \A n \in Slots : n # offerCount[a] + 1 => RowKept(<<a, n>>)
      BY <1>4 DEF BookExtended, KeptBut, CurrentId, NextId
    <2>2. RowAgrees(status[a], CurrentRow(a))'
      BY <1>4, <2>1 DEF BookExtended
    <2>3. offerCount[a] > 0 => ~Unanswered(CurrentRow(a)) /\ ~Accepted(CurrentRow(a))
      BY <1>4 DEF BookExtended, Plain
    <2>4. \A n \in Slots : n < offerCount[a] + 1 =>
             ~Unanswered(offers[<<a, n>>]) /\ ~Accepted(offers[<<a, n>>])
      BY <1>1, <1>2, <2>3
    <2>5. \A n \in Slots : n < offerCount[a] + 1 =>
             ~Unanswered(offers[<<a, n>>])' /\ ~Accepted(offers[<<a, n>>])'
      BY <1>1, <2>1, <2>4 DEF RowKept
    <2> QED BY <1>1, <2>1, <2>2, <2>5
  <1>5. CASE BookAnswered(a) \/ BookTerminated(a)
    <2>1. /\ offerCount'[a] = offerCount[a] /\ CurrentId(a)' = CurrentId(a)
          /\ \A n \in Slots : n # offerCount[a] => RowKept(<<a, n>>)
          /\ offerCount[a] > 0
      BY <1>5 DEF BookAnswered, BookTerminated, KeptBut, CurrentId
    <2>2. RowAgrees(status[a], CurrentRow(a))'
      BY <1>5, <2>1 DEF BookAnswered, BookTerminated
    <2>3. \A n \in Slots : n < offerCount[a] =>
             ~Unanswered(offers[<<a, n>>])' /\ ~Accepted(offers[<<a, n>>])'
      BY <1>1, <2>1 DEF RowKept
    <2> QED BY <2>1, <2>2, <2>3
  <1>6. CASE BookRevoked(a)
    <2>1. /\ offerCount'[a] = offerCount[a] /\ CurrentId(a)' = CurrentId(a)
          /\ status'[a] = "rejected" /\ status[a] \in LiveStatuses
          /\ \A n \in Slots :
               /\ offers'[<<a, n>>].response = offers[<<a, n>>].response
               /\ offers'[<<a, n>>].terminated
                    = (offers[<<a, n>>].terminated \/ Unanswered(offers[<<a, n>>]))
      BY <1>6 DEF BookRevoked, CurrentId
    <2>2. \A n \in Slots : ~Accepted(offers[<<a, n>>]) =>
             ~Unanswered(offers[<<a, n>>])' /\ ~Accepted(offers[<<a, n>>])'
      BY <2>1
    <2>3. offerCount[a] > 0 => ~Accepted(CurrentRow(a))
      BY <2>1 DEF LiveStatuses
    <2>4. offerCount[a] > 0 => RowAgrees(status[a], CurrentRow(a))'
      BY <1>2, <2>1, <2>2, <2>3
    <2> QED BY <2>1, <2>2, <2>4
  <1> QED BY <1>3, <1>4, <1>5, <1>6 DEF BookStep

LEMMA BooksInit == ASSUME NEW memberOf, InitWith(memberOf) PROVE BooksInv
  BY ConstantsAssumption DEF InitWith, BooksInv, Unwritten, Booked, RowAgrees, NoRow, OfferIds, Slots,
     Unanswered, Accepted, Ruled

LEMMA BooksKept ==
    ASSUME TypeOK, BooksInv, [Next]_vars
    PROVE  BooksInv'
  <1>1. \A a \in Apps : Unwritten(a)'
    BY BookSteps, UnwrittenKept DEF BooksInv
  <1>2. \A a \in Apps : a \notin forced' => Booked(a)'
    BY BookSteps, BookedKept, ForcedStays DEF BooksInv, Ruled
  <1> QED BY <1>1, <1>2 DEF BooksInv, Ruled

LEMMA BooksHold == Spec => []BooksInv
  <1>1. Init => BooksInv
    BY BooksInit DEF Init
  <1> QED BY <1>1, BooksKept, TypeCorrect, PTL DEF Spec

\* Through extensions, answers, expiries, cascades, terminations, restorations
\* and cancellations, a status and the offer rows behind it never disagree,
\* unless staff forced the status.
THEOREM OfferMatchesStatusHolds == Spec => []OfferMatchesStatus
<1>1. BooksInv => OfferMatchesStatus
  BY DEF BooksInv, Booked, OfferMatchesStatus
<1> QED BY <1>1, BooksHold, PTL

\* What a command finds answered or terminated it leaves answered or terminated.
LEMMA ClosedStay ==
    ASSUME TypeOK, BooksInv, \A a \in Apps : BookStep(a)
    PROVE  ClosedRowsStay
<1> SUFFICES ASSUME NEW a \in Ruled, NEW n \in Slots,
                    offers[<<a, n>>].response # "absent", ~Unanswered(offers[<<a, n>>])
             PROVE  /\ offers'[<<a, n>>].response = offers[<<a, n>>].response
                    /\ offers[<<a, n>>].terminated => offers'[<<a, n>>].terminated
  BY DEF ClosedRowsStay, OfferIds
<1>1. Booked(a) /\ Unwritten(a) /\ a \in Apps /\ BookStep(a)
  BY DEF BooksInv, Ruled
<1>2. offerCount[a] \in Nat /\ n \in Nat /\ n <= offerCount[a]
  BY <1>1, ConstantsAssumption DEF Unwritten, TypeOK, Slots
<1>3. CASE RowKept(<<a, n>>)
  BY <1>3 DEF RowKept
<1>4. CASE ~RowKept(<<a, n>>)
  <2>1. n # offerCount[a] + 1
    BY <1>2
  <2>2. n = offerCount[a] /\ (BookAnswered(a) \/ BookTerminated(a))
    BY <1>1, <1>4, <2>1, RowMoves
  <2>3. CurrentRow(a) = offers[<<a, n>>] /\ CurrentId(a) = <<a, n>> /\ offerCount[a] > 0
    BY <1>1, <1>2, <2>2 DEF CurrentRow, CurrentId, BookAnswered, BookTerminated, Booked
  <2>4. ~BookAnswered(a)
    BY <1>1, <2>3 DEF Booked, BookAnswered, RowAgrees
  <2> QED BY <2>2, <2>3, <2>4 DEF BookTerminated
<1> QED BY <1>3, <1>4

\* OFR-1: an answered or terminated offer row is history, whatever command,
\* cascade or stale expiry task meets it later.
THEOREM ClosedOfferIsFinalHolds == Spec => ClosedOfferIsFinal
<1>1. TypeOK /\ BooksInv /\ [Next]_vars => ClosedRowsStay
  BY BookSteps, ClosedStay
<1>2. Spec => [](TypeOK /\ BooksInv)
  BY TypeCorrect, BooksHold, PTL
<1> QED BY <1>1, <1>2, PTL DEF Spec, ClosedOfferIsFinal

-----------------------------------------------------------------------------
(* One counted application per job.  A sweep takes at most one application *)
(* of each job, because only one of them was counted; so what staff restore*)
(* together is never two applications of one job.                          *)

Counted(b) == status[b] \notin FreedStatuses

KeepStep ==
    /\ \A b \in Apps : Counted(b)' => Counted(b)
    /\ caused' \subseteq caused

ReviveStep(a) ==
    /\ a \in Apps /\ ~DuplicateExists(a)
    /\ \A b \in Apps \ {a} : Counted(b)' => Counted(b)
    /\ caused' \subseteq caused

SweepStep(a, o) ==
    /\ o \in OfferIds /\ offers[o].response \in {"absent", "none"}
    /\ offers'[o].response = "accepted"
    /\ \A b \in Apps : Counted(b)' => Counted(b)
    /\ \A e \in caused' \ caused : e.offer = o /\ Counted(e.app)

RestoreStep(picked) ==
    /\ picked \subseteq caused
    /\ \A e, f \in picked : e.offer = f.offer /\ e.offer \in OfferIds
    /\ \A b \in Apps : Counted(b)' /\ ~Counted(b) =>
          ~DuplicateExists(b) /\ \E e \in picked : e.app = b
    /\ caused' \subseteq caused

SoleStep ==
    \/ KeepStep
    \/ \E a \in Apps : ReviveStep(a)
    \/ \E a, o : SweepStep(a, o)
    \/ \E picked : RestoreStep(picked)

LEMMA SetStatusCounted ==
    ASSUME AppTypes, NEW a \in Apps, NEW to, NEW revived, SetStatus(a, to, revived)
    PROVE  /\ caused' \subseteq caused
           /\ \A b \in Apps \ {a} : Counted(b)' => Counted(b)
           /\ Counted(a)' => to \notin FreedStatuses
  BY SetStatusValue DEF SetStatus, Record, Counted

LEMMA SetStatusSole ==
    ASSUME AppTypes, NEW a \in Apps, NEW to, NEW revived, SetStatus(a, to, revived),
           to \in FreedStatuses \/ Counted(a) \/ ~DuplicateExists(a)
    PROVE  SoleStep
  <1>1. CASE to \in FreedStatuses \/ Counted(a)
    BY <1>1, SetStatusCounted DEF SoleStep, KeepStep
  <1>2. CASE ~DuplicateExists(a)
    BY <1>2, SetStatusCounted DEF SoleStep, ReviveStep
  <1> QED BY <1>1, <1>2

LEMMA SameAppsSole == UNCHANGED appVars => SoleStep
  BY DEF appVars, SoleStep, KeepStep, Counted

\* A record of statuses of which none is counted afresh.
LEMMA RecordSole ==
    ASSUME NEW st, NEW revived, Record(st, {}, revived),
           \A b \in Apps : st[b] \notin FreedStatuses => Counted(b)
    PROVE  SoleStep
  BY DEF Record, SoleStep, KeepStep, Counted

LEMMA AcceptanceSole ==
    ASSUME AppTypes, NEW a \in Apps, NEW o \in OfferIds,
           NEW st \in [Apps -> Statuses], NEW off \in [OfferIds -> OfferRow],
           NEW count, NEW credits, PlanAcceptance(a, o, st, off, count, credits),
           Counted(a), \A b \in Apps \ {a} : st[b] = status[b],
           offers[o].response \in {"absent", "none"}
    PROVE  SoleStep
  <1> DEFINE swept == Cascade(a, st)
             declined == {<<b, count[b]>> : b \in {x \in swept : st[x] = "offered"}}
             to == [b \in Apps |-> IF b = a THEN "accepted"
                                   ELSE IF b \in swept THEN CascadeStatus(st[b])
                                   ELSE st[b]]
             causes == {[app |-> b, offer |-> o, from |-> st[b]] : b \in swept}
  <1>1. swept \subseteq Apps \ {a} /\ \A b \in swept : Counted(b)
    BY DEF Cascade, CascadeTakes, LiveStatuses, FreedStatuses, Counted
  <1>2. offers'[o].response = "accepted"
    <2>1. offers'[o] = [off[o] EXCEPT !.response = "accepted", !.waived = credits]
      BY DEF PlanAcceptance
    <2>2. \A row \in OfferRow :
             [row EXCEPT !.response = "accepted", !.waived = credits].response = "accepted"
      BY DEF OfferRow
    <2> QED BY <2>1, <2>2
  <1>3. Record(to, causes, {})
    BY DEF PlanAcceptance
  <1>4. \A b \in Apps : Counted(b)' => Counted(b)
    <2> HIDE DEF swept, causes
    <2>1. status' = to
      BY <1>3 DEF Record
    <2> QED BY <1>1, <2>1 DEF Counted
  <1>5. \A e \in caused' \ caused : e.offer = o /\ Counted(e.app)
    <2>1. caused' \subseteq caused \cup causes
      BY <1>3 DEF Record
    <2>2. \A e \in causes : e.offer = o /\ e.app \in swept
      OBVIOUS
    <2> HIDE DEF causes, swept
    <2> QED BY <1>1, <2>1, <2>2
  <1> QED BY <1>2, <1>4, <1>5 DEF SweepStep, SoleStep

LEMMA StudentSole ==
    ASSUME TypeOK, StudentStep
    PROVE  SoleStep
  <1> SUFFICES ASSUME NEW a \in Apps,
                      \/ Apply(a) \/ WithdrawApplication(a)
                      \/ AcceptOffer(a) \/ DeclineOffer(a)
               PROVE  SoleStep
    BY DEF StudentStep
  <1>0. AppTypes /\ OfferTypes
    BY TypeParts
  <1>1. CASE Apply(a)
    BY <1>0, <1>1, SetStatusSole DEF Apply
  <1>2. CASE WithdrawApplication(a)
    BY <1>0, <1>2, SetStatusSole DEF WithdrawApplication, FreedStatuses
  <1>3. CASE AcceptOffer(a)
    <2>1. CurrentId(a) \in OfferIds
      BY <1>0, <1>3, OfferIdFacts DEF AcceptOffer, Answerable, CurrentId
    <2>2. offers[CurrentId(a)].response = "none" /\ Counted(a)
      BY <1>3 DEF AcceptOffer, Answerable, CurrentRow, Unanswered, Counted, FreedStatuses
    <2> QED BY <1>0, <1>3, <2>1, <2>2, AcceptanceSole DEF AcceptOffer, AppTypes, OfferTypes
  <1>4. CASE DeclineOffer(a)
    BY <1>0, <1>4, SetStatusSole
    DEF DeclineOffer, PlanDecline, Answerable, Counted, FreedStatuses
  <1> QED BY <1>1, <1>2, <1>3, <1>4

LEMMA ProcessSole ==
    ASSUME TypeOK, BooksInv, ProcessStep
    PROVE  SoleStep
  <1> SUFFICES ASSUME NEW a \in Apps,
                      NEW outcome \in {"offered", "accepted", "declined"},
                      \/ Promote(a) \/ Reject(a) \/ ExtendOffer(a)
                      \/ RecordOpenOutcome(a, outcome)
               PROVE  SoleStep
    BY DEF ProcessStep
  <1>0. AppTypes /\ OfferTypes
    BY TypeParts
  <1>1. CASE Promote(a) \/ Reject(a) \/ ExtendOffer(a)
    <2>1. status[a] \in {"in_progress", "pending_offer"}
      BY <1>1 DEF Promote, Reject, ExtendOffer, Decide, Legal, TRANSITIONS, Row
    <2>2. Counted(a)
      BY <2>1 DEF Counted, FreedStatuses
    <2> QED BY <1>0, <1>1, <2>2, SetStatusSole DEF Promote, Reject, ExtendOffer, PlanExtension
  <1>2. CASE RecordOpenOutcome(a, outcome)
    <2> DEFINE fresh == status[a] = "in_progress"
               o == IF fresh THEN NextId(a) ELSE CurrentId(a)
               off == IF fresh THEN [offers EXCEPT ![o] = FreshRow(0)] ELSE offers
               st == IF fresh THEN [status EXCEPT ![a] = "offered"] ELSE status
               count == IF fresh THEN [offerCount EXCEPT ![a] = @ + 1] ELSE offerCount
    <2>1. Counted(a)
      BY <1>2 DEF RecordOpenOutcome, Counted, FreedStatuses
    <2>2. o \in OfferIds /\ FreshRow(0) \in OfferRow
      BY <1>0, <1>2, OfferIdFacts, FreshRowType, ConstantsAssumption
      DEF RecordOpenOutcome, Answerable, CurrentId, NextId, Deadlines
    <2>3. off \in [OfferIds -> OfferRow]
      BY <1>0, <2>2 DEF OfferTypes
    <2>4. st \in [Apps -> Statuses] /\ \A b \in Apps \ {a} : st[b] = status[b]
      BY <1>0 DEF AppTypes, Statuses
    <2>5. offers[o].response \in {"absent", "none"}
      <3>1. CASE fresh
        <4>1. offerCount[a] + 1 \in Slots /\ offerCount[a] \in Nat
          BY <1>0, <1>2, <3>1, ConstantsAssumption DEF RecordOpenOutcome, OfferTypes, Slots
        <4> QED BY <3>1, <4>1 DEF BooksInv, Unwritten, NextId
      <3>2. CASE ~fresh
        BY <1>2, <3>2 DEF RecordOpenOutcome, Answerable, CurrentRow, Unanswered
      <3> QED BY <3>1, <3>2
    <2>6. CASE PlanExtension(a, 0, {}) \/ PlanDecline(a, o, off)
      <3> HIDE DEF o, off
      <3> QED BY <1>0, <2>1, <2>6, SetStatusSole DEF PlanExtension, PlanDecline
    <2>7. CASE PlanAcceptance(a, o, st, off, count, ConstraintsCredit(a, "accept"))
      <3> HIDE DEF o, off, st, count
      <3> QED BY <1>0, <2>1, <2>2, <2>3, <2>4, <2>5, <2>7, AcceptanceSole
    <2> QED BY <1>2, <2>6, <2>7 DEF RecordOpenOutcome
  <1> QED BY <1>1, <1>2

\* A task that does anything found the offer open, current and unanswered.
LEMMA ExpirySole ==
    ASSUME TypeOK, NEW t \in tasks, EnforceOfferExpiry(t)
    PROVE  SoleStep
  <1> DEFINE o == t.offer
             a == o[1]
             blocked == ~member[CycleOfApp(a)] \/ ConstraintsBlock(a, "accept")
             decision == DecideExpiry(KindOf(a), o = CurrentId(a), status[a], offers[o], t.at,
                                      now, Behavior[CycleOfApp(a)], blocked)
             action == IF ~InScope(CycleOfApp(a)) THEN "noop" ELSE decision
  <1>0. AppTypes /\ OfferTypes
    BY TypeParts
  <1>1. o \in OfferIds /\ a \in Apps
    BY <1>0 DEF OfferTypes, OfferIds
  <1>2. action \notin {"noop", "reschedule"} =>
           status[a] = "offered" /\ offers[o].response = "none"
    <2> HIDE DEF blocked
    <2> QED BY DEF DecideExpiry
  <1>3. \/ UNCHANGED <<appVars, offers>>
        \/ action \notin {"noop", "reschedule"} /\ PlanDecline(a, o, offers)
        \/ /\ action \notin {"noop", "reschedule"}
           /\ PlanAcceptance(a, o, status, offers, offerCount, ConstraintsCredit(a, "accept"))
    <2>1. action = "auto_accept" \/ action \in {"auto_decline", "auto_decline_gate_fallback"}
            => action \notin {"noop", "reschedule"}
      <3> HIDE DEF action
      <3> QED OBVIOUS
    <2>2. \/ UNCHANGED <<appVars, offers>>
          \/ /\ action \in {"auto_decline", "auto_decline_gate_fallback"}
             /\ PlanDecline(a, o, offers)
          \/ /\ action = "auto_accept"
             /\ PlanAcceptance(a, o, status, offers, offerCount,
                               ConstraintsCredit(a, "accept"))
      BY DEF EnforceOfferExpiry
    <2> HIDE DEF action, o
    <2> QED BY <2>1, <2>2
  <1> HIDE DEF action, o
  <1>4. CASE UNCHANGED <<appVars, offers>>
    BY <1>4, SameAppsSole
  <1>5. ASSUME status[a] = "offered", PlanDecline(a, o, offers) PROVE SoleStep
    BY <1>0, <1>1, <1>5, SetStatusSole DEF PlanDecline, Counted, FreedStatuses
  <1>6. ASSUME status[a] = "offered", offers[o].response = "none",
               PlanAcceptance(a, o, status, offers, offerCount, ConstraintsCredit(a, "accept"))
        PROVE  SoleStep
    BY <1>0, <1>1, <1>6, AcceptanceSole DEF AppTypes, OfferTypes, Counted, FreedStatuses
  <1> QED BY <1>2, <1>3, <1>4, <1>5, <1>6

LEMMA TerminateSole ==
    ASSUME TypeOK, NEW a \in Apps, NEW picked \in SUBSET RestoreCandidates(CurrentId(a)),
           NEW d, TerminateOffer(a, picked, d)
    PROVE  SoleStep
  <1> DEFINE restored == {e.app : e \in picked}
             to == [b \in Apps |-> IF b = a THEN "offer_terminated"
                                   ELSE IF b \in restored
                                        THEN (CHOOSE e \in picked : e.app = b).from
                                   ELSE status[b]]
  <1>1. /\ picked \subseteq caused
        /\ \A e, f \in picked : e.offer = f.offer /\ e.offer \in OfferIds
        /\ \A e \in picked : status[e.app] = CascadeStatus(e.from)
    <2>1. CurrentId(a) \in OfferIds
      BY OfferIdFacts, TypeParts DEF TerminateOffer
    <2> QED BY <2>1 DEF RestoreCandidates
  <1>2. Record(to, {}, restored)
    BY DEF TerminateOffer
  <1>3. status' = to /\ caused' \subseteq caused
    BY <1>2 DEF Record
  <1>4. Counted(a)
    BY DEF TerminateOffer, Decide, Legal, TRANSITIONS, Row, Counted, FreedStatuses
  <1>5. \A e \in picked : ~Counted(e.app) => ~DuplicateExists(e.app)
    BY <1>1 DEF TerminateOffer, RestoreBlocked, CascadeStatus, Counted, FreedStatuses
  <1>6. \A b \in Apps : Counted(b)' /\ ~Counted(b) =>
           ~DuplicateExists(b) /\ \E e \in picked : e.app = b
    BY <1>3, <1>4, <1>5 DEF Counted
  <1> QED BY <1>1, <1>3, <1>6 DEF RestoreStep, SoleStep

LEMMA InterventionSole == ASSUME TypeOK, InterventionStep PROVE SoleStep
  <1>0. AppTypes
    BY TypeParts
  <1> PICK a \in Apps :
        \/ \E picked \in RestoreChoices(a) :
             \E d \in [{e.app : e \in picked} -> Deadlines] : TerminateOffer(a, picked, d)
        \/ \E d \in Deadlines : ReExtendOffer(a, d)
        \/ ReinstateApplication(a)
        \/ \E to \in Statuses : ForceTransition(a, to)
    BY DEF InterventionStep
  <1>1. CASE \E picked \in RestoreChoices(a) :
               \E d \in [{e.app : e \in picked} -> Deadlines] : TerminateOffer(a, picked, d)
    BY <1>1, TerminateSole DEF RestoreChoices
  <1>2. ASSUME NEW d \in Deadlines, ReExtendOffer(a, d) PROVE SoleStep
    <2>1. Counted(a)
      BY <1>2 DEF ReExtendOffer, Decide, Legal, TRANSITIONS, Row, Counted, FreedStatuses
    <2> QED BY <1>0, <1>2, <2>1, SetStatusSole DEF ReExtendOffer, PlanExtension
  <1>3. CASE ReinstateApplication(a)
    BY <1>0, <1>3, SetStatusSole DEF ReinstateApplication
  <1>4. ASSUME NEW to \in Statuses, ForceTransition(a, to) PROVE SoleStep
    BY <1>0, <1>4, SetStatusSole DEF ForceTransition
  <1> QED BY <1>1, <1>2, <1>3, <1>4

\* An application that leaves its pipeline counts no more than before.
LEMMA ExitSole == ASSUME NEW c, ExitCascade(c) PROVE SoleStep
  <1> DEFINE to == [a \in Apps |-> IF CycleOfApp(a) = c THEN ExitStatus(status[a])
                                   ELSE status[a]]
  <1>1. Record(to, {}, {})
    BY DEF ExitCascade
  <1>2. \A b \in Apps : to[b] \notin FreedStatuses => Counted(b)
    BY DEF ExitStatus, FreedStatuses, Counted
  <1> HIDE DEF to
  <1> QED BY <1>1, <1>2, RecordSole

LEMMA StaffSole == ASSUME TypeOK, JobStep \/ CycleStep PROVE SoleStep
  <1>1. ASSUME NEW j, NEW rows \in SUBSET Apps, CancelJob(j, rows) PROVE SoleStep
    <2> DEFINE hit == {a \in rows : Decide(TRANSITIONS.cancel_job, a, "rejected", "staff")}
               to == [a \in Apps |-> IF a \in hit THEN "rejected" ELSE status[a]]
    <2>1. \A b \in hit : Counted(b)
      BY DEF Decide, Legal, TRANSITIONS, Row, LiveStatuses, Counted, FreedStatuses
    <2>2. Record(to, {}, {})
      BY <1>1 DEF CancelJob
    <2>3. \A b \in Apps : to[b] \notin FreedStatuses => Counted(b)
      <3> HIDE DEF hit
      <3> QED BY <2>1 DEF Counted
    <2> HIDE DEF to
    <2> QED BY <2>2, <2>3, RecordSole
  <1>3. CASE JobStep
    BY <1>1, <1>3, SameAppsSole DEF JobStep, UpdateJobBasics, SetPublished
  <1>4. CASE CycleStep
    BY <1>4, ExitSole, SameAppsSole DEF CycleStep, ExitCycle, RestoreMembership, ArchiveCycle
  <1> QED BY <1>3, <1>4

LEMMA SoleSteps == ASSUME TypeOK, BooksInv, [Next]_vars PROVE SoleStep
  <1>1. CASE \/ \E dom \in Domains, value \in {"none", "allow", "deny"} : SetOverride(dom, value)
             \/ Tick
             \/ UNCHANGED vars
    BY <1>1, SameAppsSole DEF SetOverride, Tick, vars
  <1> QED BY <1>1, StudentSole, ProcessSole, ExpirySole, InterventionSole, StaffSole DEF Next

\* Of the sweeps of one portal offer: it is accepted once.
SoleSweep ==
    \A e, f \in caused :
        e.offer = f.offer /\ e.offer \in OfferIds /\ JobOf[e.app] = JobOf[f.app] => e.app = f.app

Settled(o) == offers[o].response \notin {"absent", "none"}

SweptBySettled == \A e \in caused : e.offer \in OfferIds => Settled(e.offer)

SoleInv == OneActivePerJob /\ SoleSweep /\ SweptBySettled

\* An answer is never taken back, whatever row it is in.
LEMMA SettledStays ==
    ASSUME TypeOK, BooksInv, \A a \in Apps : BookStep(a), NEW o \in OfferIds, Settled(o)
    PROVE  Settled(o)'
  <1>1. PICK a \in Apps, n \in Slots : o = <<a, n>>
    BY DEF OfferIds
  <1>2. BookStep(a) /\ Unwritten(a)
    BY DEF BooksInv
  <1>3. CASE RowKept(o)
    BY <1>3 DEF RowKept, Settled
  <1>4. CASE n = offerCount[a] + 1
    <2>1. offerCount[a] \in Nat /\ n > offerCount[a]
      BY <1>4, ConstantsAssumption DEF TypeOK
    <2> QED BY <1>1, <1>2, <2>1 DEF Unwritten, Settled
  <1>5. CASE n = offerCount[a] /\ (BookAnswered(a) \/ BookTerminated(a))
    <2>1. CurrentId(a) = o /\ offerCount[a] > 0
      BY <1>1, <1>5, ConstantsAssumption DEF CurrentId, Slots
    <2> QED BY <1>5, <2>1 DEF BookAnswered, BookTerminated, CurrentRow, Settled
  <1>6. CASE Unanswered(offers[o])
    BY <1>6 DEF Unanswered, Settled
  <1> QED BY <1>1, <1>2, <1>3, <1>4, <1>5, <1>6, RowMoves

LEMMA SoleKept ==
    ASSUME TypeOK, TypeOK', BooksInv, SoleInv, SoleStep, \A a \in Apps : BookStep(a)
    PROVE  SoleInv'
  <1>0. AppTypes /\ \A e \in caused : e.app \in Apps
    BY TypeParts DEF AppTypes
  <1>1. \A b, c \in Apps : Counted(b) /\ Counted(c) /\ JobOf[b] = JobOf[c] => b = c
    BY DEF SoleInv, OneActivePerJob, DuplicateExists, Counted
  <1>2. ASSUME NEW b \in Apps, NEW c \in Apps, ~DuplicateExists(b), Counted(c),
               JobOf[b] = JobOf[c]
        PROVE  b = c
    BY <1>2 DEF DuplicateExists, Counted
  <1>3. ASSUME \A b, c \in Apps : Counted(b)' /\ Counted(c)' /\ JobOf[b] = JobOf[c] => b = c
        PROVE  OneActivePerJob'
    BY <1>3 DEF OneActivePerJob, DuplicateExists, Counted
  <1>4. ASSUME caused' \subseteq caused PROVE SoleSweep' /\ SweptBySettled'
    BY <1>4, SettledStays DEF SoleInv, SoleSweep, SweptBySettled
  <1>5. CASE KeepStep
    BY <1>1, <1>3, <1>4, <1>5 DEF KeepStep, SoleInv
  <1>6. ASSUME NEW a \in Apps, ReviveStep(a) PROVE SoleInv'
    BY <1>1, <1>2, <1>3, <1>4, <1>6 DEF ReviveStep, SoleInv
  <1>7. ASSUME NEW a, NEW o, SweepStep(a, o) PROVE SoleInv'
    <2>1. \A e \in caused : e.offer # o
      BY <1>7 DEF SoleInv, SweptBySettled, SweepStep, Settled
    <2>2. \A e \in caused' : \/ e \in caused
                             \/ e \notin caused /\ e.offer = o /\ Counted(e.app) /\ e.app \in Apps
      <3>1. AppTypes'
        BY DEF TypeOK, AppTypes
      <3> QED BY <1>7, <3>1 DEF SweepStep, AppTypes
    <2>3. SoleSweep'
      BY <1>1, <2>1, <2>2 DEF SoleInv, SoleSweep
    <2>4. SweptBySettled'
      <3>1. o \in OfferIds /\ Settled(o)'
        BY <1>7 DEF SweepStep, Settled
      <3> QED BY <2>2, <3>1, SettledStays DEF SoleInv, SweptBySettled
    <2> QED BY <1>1, <1>3, <1>7, <2>3, <2>4 DEF SweepStep, SoleInv
  <1>8. ASSUME NEW picked, RestoreStep(picked) PROVE SoleInv'
    <2>1. ASSUME NEW b \in Apps, NEW c \in Apps, Counted(b)', Counted(c)', JobOf[b] = JobOf[c]
          PROVE  b = c
      <3>1. CASE Counted(b) \/ Counted(c)
        BY <1>1, <1>2, <1>8, <2>1, <3>1 DEF RestoreStep
      <3>2. CASE ~Counted(b) /\ ~Counted(c)
        <4>1. PICK e \in picked, f \in picked : e.app = b /\ f.app = c
          BY <1>8, <2>1, <3>2 DEF RestoreStep
        <4> QED BY <1>8, <2>1, <4>1 DEF RestoreStep, SoleInv, SoleSweep
      <3> QED BY <3>1, <3>2
    <2> QED BY <1>3, <1>4, <1>8, <2>1 DEF RestoreStep, SoleInv
  <1> QED BY <1>5, <1>6, <1>7, <1>8 DEF SoleStep

\* The commands' own duplicate checks leave the unique index nothing to catch,
\* even when one termination restores many applications at once.
THEOREM OneActivePerJobHolds == Spec => []OneActivePerJob
<1>1. Init => SoleInv
  BY DEF Init, InitWith, SoleInv, OneActivePerJob, SoleSweep, SweptBySettled, FreedStatuses
<1>2. TypeOK /\ TypeOK' /\ BooksInv /\ SoleInv /\ [Next]_vars => SoleInv'
  BY SoleSteps, BookSteps, SoleKept
<1>3. SoleInv => OneActivePerJob
  BY DEF SoleInv
<1> QED BY <1>1, <1>2, <1>3, TypeCorrect, BooksHold, PTL DEF Spec

-----------------------------------------------------------------------------
(* The queue and the offers.  A task leaves the queue only when it runs,   *)
(* and one that runs for an offer still open and not yet due is queued     *)
(* again; every other step leaves the offer alone, closes it, or queues a  *)
(* task at its deadline.                                                   *)

Due(a) ==
    /\ offerCount[a] > 0
    /\ Unanswered(CurrentRow(a)) /\ CurrentRow(a).deadline # 0
    /\ KindOf(a) # "open" /\ InScope(CycleOfApp(a))

InQueue(a) ==
    Due(a) => \E t \in tasks : t.offer = CurrentId(a) /\ t.at <= CurrentRow(a).deadline

LEMMA QueueKept ==
    ASSUME NEW a \in Apps, InQueue(a), offerCount'[a] = offerCount[a],
           archived \subseteq archived',
           Due(a)' => offers'[CurrentId(a)] = CurrentRow(a),
           \A t \in tasks : t.offer = CurrentId(a) => t \in tasks'
    PROVE  InQueue(a)'
  <1>1. CurrentId(a)' = CurrentId(a) /\ CurrentRow(a)' = offers'[CurrentId(a)]
    BY DEF CurrentId, CurrentRow
  <1>2. Due(a)' => Due(a) /\ CurrentRow(a)' = CurrentRow(a)
    BY <1>1 DEF Due, InScope, KindOf, CycleOfApp, Unanswered
  <1> QED BY <1>1, <1>2 DEF InQueue

LEMMA QueueExtended ==
    ASSUME NEW a \in Apps, NEW d \in Nat, offerCount'[a] = offerCount[a] + 1,
           offers'[NextId(a)].deadline = d, ExpiryTask(a, NextId(a), d) \subseteq tasks'
    PROVE  InQueue(a)'
  <1> SUFFICES ASSUME Due(a)' PROVE InQueue(a)'
    BY DEF InQueue
  <1>1. CurrentId(a)' = NextId(a) /\ CurrentRow(a)' = offers'[NextId(a)]
    BY DEF CurrentId, NextId, CurrentRow
  <1>2. d # 0 /\ KindOf(a) # "open"
    BY <1>1 DEF Due, KindOf, CycleOfApp
  <1>3. [offer |-> NextId(a), at |-> d] \in tasks'
    BY <1>2 DEF ExpiryTask
  <1>4. [offer |-> NextId(a), at |-> d].offer = NextId(a)
        /\ [offer |-> NextId(a), at |-> d].at <= d
    OBVIOUS
  <1> QED BY <1>1, <1>3, <1>4 DEF InQueue

LEMMA QueueMoved ==
    ASSUME NEW a \in Apps, NEW d \in Nat, offerCount'[a] = offerCount[a],
           offers'[CurrentId(a)].deadline = d, [offer |-> CurrentId(a), at |-> d] \in tasks'
    PROVE  InQueue(a)'
  <1>1. CurrentId(a)' = CurrentId(a) /\ CurrentRow(a)' = offers'[CurrentId(a)]
    BY DEF CurrentId, CurrentRow
  <1>2. [offer |-> CurrentId(a), at |-> d].offer = CurrentId(a)
        /\ [offer |-> CurrentId(a), at |-> d].at <= d
    OBVIOUS
  <1> QED BY <1>1, <1>2 DEF InQueue

\* Rows that stay as they are or are answered or terminated, and a queue that
\* loses nothing.
LEMMA QueueClosed ==
    ASSUME TypeOK, NEW a \in Apps, InQueue(a), offerCount'[a] = offerCount[a],
           archived \subseteq archived', tasks \subseteq tasks',
           \A p \in OfferIds : offers'[p] = offers[p] \/ ~Unanswered(offers'[p])
    PROVE  InQueue(a)'
  <1>1. offerCount[a] > 0 => CurrentId(a) \in OfferIds
    BY OfferIdFacts, TypeParts DEF OfferTypes
  <1>2. Due(a)' => offers'[CurrentId(a)] = CurrentRow(a)
    <2>1. Due(a)' => offerCount[a] > 0 /\ Unanswered(offers'[CurrentId(a)])
      BY DEF Due, CurrentRow, CurrentId, Unanswered
    <2> QED BY <1>1, <2>1 DEF CurrentRow
  <1> QED BY <1>2, QueueKept

LEMMA ExtensionQueue ==
    ASSUME TypeOK, NEW a \in Apps, NEW d \in Deadlines, NEW revived,
           PlanExtension(a, d, revived), archived' = archived,
           NEW b \in Apps, InQueue(b)
    PROVE  InQueue(b)'
  <1>0. OfferTypes
    BY TypeParts
  <1>1. NextId(a) \in OfferIds /\ d \in Nat
    BY <1>0, OfferIdFacts, ConstantsAssumption DEF PlanExtension, NextId, Deadlines
  <1>2. /\ offers'[NextId(a)] = FreshRow(d)
        /\ \A p \in OfferIds \ {NextId(a)} : offers'[p] = offers[p]
    BY <1>0, <1>1 DEF PlanExtension, OfferTypes
  <1>3. /\ offerCount'[a] = offerCount[a] + 1
        /\ \A c \in Apps \ {a} : offerCount'[c] = offerCount[c]
    BY <1>0 DEF PlanExtension, OfferTypes
  <1>4. CASE b = a
    BY <1>1, <1>2, <1>3, <1>4, QueueExtended DEF PlanExtension, FreshRow
  <1>5. CASE b # a
    <2>1. offerCount[b] > 0 => CurrentId(b) \in OfferIds \ {NextId(a)}
      BY <1>0, <1>5, OfferIdFacts DEF OfferTypes, CurrentId, NextId
    <2>2. Due(b)' => offers'[CurrentId(b)] = CurrentRow(b)
      BY <1>2, <1>3, <1>5, <2>1 DEF Due, CurrentRow
    <2> QED BY <1>3, <1>5, <2>2, QueueKept DEF PlanExtension
  <1> QED BY <1>4, <1>5

LEMMA AcceptanceCloses ==
    ASSUME NEW a, NEW o \in OfferIds, NEW st, NEW off \in [OfferIds -> OfferRow], NEW count,
           NEW credits, PlanAcceptance(a, o, st, off, count, credits)
    PROVE  /\ ~Unanswered(offers'[o])
           /\ \A p \in OfferIds : offers'[p] = off[p] \/ ~Unanswered(offers'[p])
  <1> DEFINE declined == {<<b, count[b]>> : b \in {x \in Cascade(a, st) : st[x] = "offered"}}
  <1>1. offers' = [p \in OfferIds |->
                      IF p = o THEN [off[p] EXCEPT !.response = "accepted",
                                                   !.waived = credits]
                      ELSE IF p \in declined
                           THEN [off[p] EXCEPT !.response = "declined"]
                      ELSE off[p]]
    BY DEF PlanAcceptance
  <1>2. \A row \in OfferRow :
           /\ ~Unanswered([row EXCEPT !.response = "accepted", !.waived = credits])
           /\ ~Unanswered([row EXCEPT !.response = "declined"])
    BY DEF OfferRow, Unanswered
  <1> HIDE DEF declined
  <1> QED BY <1>1, <1>2

LEMMA DeclineCloses ==
    ASSUME NEW a, NEW o \in OfferIds, NEW off \in [OfferIds -> OfferRow], PlanDecline(a, o, off)
    PROVE  /\ ~Unanswered(offers'[o])
           /\ \A p \in OfferIds : offers'[p] = off[p] \/ ~Unanswered(offers'[p])
  BY DEF PlanDecline, OfferRow, Unanswered

LEMMA StudentQueue ==
    ASSUME TypeOK, StudentStep, NEW b \in Apps, InQueue(b)
    PROVE  InQueue(b)'
  <1> SUFFICES ASSUME NEW a \in Apps,
                      \/ Apply(a) \/ WithdrawApplication(a)
                      \/ AcceptOffer(a) \/ DeclineOffer(a)
               PROVE  InQueue(b)'
    BY DEF StudentStep
  <1>0. OfferTypes
    BY TypeParts
  <1>1. UNCHANGED <<offerCount, tasks, archived>>
    BY DEF Apply, WithdrawApplication, AcceptOffer, DeclineOffer, offerVars, staffVars
  <1>2. \A p \in OfferIds : offers'[p] = offers[p] \/ ~Unanswered(offers'[p])
    <2>1. CASE Apply(a) \/ WithdrawApplication(a)
      BY <2>1 DEF Apply, WithdrawApplication, offerVars
    <2>2. CASE AcceptOffer(a) \/ DeclineOffer(a)
      <3>1. CurrentId(a) \in OfferIds
        BY <1>0, <2>2, OfferIdFacts DEF AcceptOffer, DeclineOffer, Answerable
      <3> QED BY <1>0, <2>2, <3>1, AcceptanceCloses, DeclineCloses
              DEF AcceptOffer, DeclineOffer, OfferTypes
    <2> QED BY <2>1, <2>2
  <1> QED BY <1>1, <1>2, QueueClosed

LEMMA ProcessQueue ==
    ASSUME TypeOK, ProcessStep, NEW b \in Apps, InQueue(b)
    PROVE  InQueue(b)'
  <1> SUFFICES ASSUME NEW a \in Apps,
                      NEW outcome \in {"offered", "accepted", "declined"},
                      \/ Promote(a) \/ Reject(a) \/ ExtendOffer(a)
                      \/ RecordOpenOutcome(a, outcome)
               PROVE  InQueue(b)'
    BY DEF ProcessStep
  <1>0. AppTypes /\ OfferTypes /\ StaffTypes
    BY TypeParts
  <1>1. archived' = archived
    BY DEF Promote, Reject, ExtendOffer, RecordOpenOutcome, staffVars
  <1>2. CASE Promote(a) \/ Reject(a)
    BY <1>1, <1>2, QueueClosed DEF Promote, Reject, offerVars
  <1>3. CASE ExtendOffer(a)
    BY <1>0, <1>1, <1>3, ExtensionQueue, JobDeadlineType DEF ExtendOffer
  <1>4. CASE RecordOpenOutcome(a, outcome)
    <2> DEFINE fresh == status[a] = "in_progress"
               o == IF fresh THEN NextId(a) ELSE CurrentId(a)
               off == IF fresh THEN [offers EXCEPT ![o] = FreshRow(0)] ELSE offers
               st == IF fresh THEN [status EXCEPT ![a] = "offered"] ELSE status
               count == IF fresh THEN [offerCount EXCEPT ![a] = @ + 1] ELSE offerCount
    <2>1. /\ o \in OfferIds /\ o[1] = a /\ 0 \in Deadlines /\ FreshRow(0) \in OfferRow
          /\ KindOf(a) = "open"
      BY <1>0, <1>4, OfferIdFacts, FreshRowType, ConstantsAssumption
      DEF RecordOpenOutcome, Answerable, CurrentId, NextId, Deadlines
    <2>2. CASE PlanExtension(a, 0, {})
      BY <1>1, <2>1, <2>2, ExtensionQueue
    <2>3. CASE b = a
      BY <2>1, <2>3 DEF InQueue, Due, KindOf, CycleOfApp
    <2>4. CASE /\ b # a /\ offerCount' = count /\ UNCHANGED tasks
               /\ \/ PlanAcceptance(a, o, st, off, count, ConstraintsCredit(a, "accept"))
                  \/ PlanDecline(a, o, off)
      <3>1. off \in [OfferIds -> OfferRow] /\ \A p \in OfferIds \ {o} : off[p] = offers[p]
        BY <1>0, <2>1 DEF OfferTypes
      <3>2. \A p \in OfferIds : offers'[p] = off[p] \/ ~Unanswered(offers'[p])
        <4> HIDE DEF o, off, st, count
        <4> QED BY <2>1, <2>4, <3>1, AcceptanceCloses, DeclineCloses
      <3>3. offerCount'[b] = offerCount[b]
        BY <1>0, <2>4 DEF OfferTypes
      <3>4. offerCount[b] > 0 => CurrentId(b) \in OfferIds /\ CurrentId(b) # o
        <4>1. CurrentId(b)[1] = b
          BY DEF CurrentId
        <4>2. offerCount[b] > 0 => CurrentId(b) \in OfferIds
          BY <1>0, OfferIdFacts DEF OfferTypes
        <4> HIDE DEF o
        <4> QED BY <2>1, <2>4, <4>1, <4>2
      <3>5. Due(b)' => offers'[CurrentId(b)] = CurrentRow(b)
        <4>1. Due(b)' => offerCount[b] > 0 /\ Unanswered(offers'[CurrentId(b)])
          BY <3>3 DEF Due, CurrentRow, CurrentId, Unanswered
        <4> HIDE DEF o, off
        <4> QED BY <3>1, <3>2, <3>4, <4>1 DEF CurrentRow
      <3> QED BY <1>1, <2>4, <3>3, <3>5, QueueKept
    <2> QED BY <1>4, <2>2, <2>3, <2>4 DEF RecordOpenOutcome
  <1> QED BY <1>2, <1>3, <1>4

\* A task that finds the offer it is for still due does not drop out of the
\* queue with nothing to show for it.
LEMMA ExpiryQueue ==
    ASSUME TypeOK, NEW t \in tasks, EnforceOfferExpiry(t),
           NEW b \in Apps, Booked(b), InQueue(b)
    PROVE  InQueue(b)'
  <1> DEFINE o == t.offer
             a == o[1]
             blocked == ~member[CycleOfApp(a)] \/ ConstraintsBlock(a, "accept")
             decision == DecideExpiry(KindOf(a), o = CurrentId(a), status[a], offers[o], t.at,
                                      now, Behavior[CycleOfApp(a)], blocked)
             action == IF ~InScope(CycleOfApp(a)) THEN "noop" ELSE decision
  <1>0. OfferTypes /\ o \in OfferIds /\ a \in Apps
    BY TypeParts DEF OfferTypes, OfferIds
  <1>1. UNCHANGED <<offerCount, archived>> /\ tasks \ {t} \subseteq tasks'
    BY DEF EnforceOfferExpiry, staffVars
  <1>2. \/ action = "noop" /\ UNCHANGED offers
        \/ /\ UNCHANGED offers
           /\ [offer |-> o, at |-> offers[o].deadline] \in tasks'
        \/ PlanDecline(a, o, offers)
        \/ PlanAcceptance(a, o, status, offers, offerCount, ConstraintsCredit(a, "accept"))
    <2>1. \/ action = "noop" /\ UNCHANGED <<appVars, offers>>
          \/ /\ tasks' = (tasks \ {t}) \cup {[offer |-> o, at |-> offers[o].deadline]}
             /\ UNCHANGED <<appVars, offers>>
          \/ PlanDecline(a, o, offers)
          \/ PlanAcceptance(a, o, status, offers, offerCount, ConstraintsCredit(a, "accept"))
      BY DEF EnforceOfferExpiry
    <2> HIDE DEF action, o
    <2> QED BY <2>1
  <1>3. /\ \A p \in OfferIds : offers'[p] = offers[p] \/ ~Unanswered(offers'[p])
        /\ UNCHANGED offers \/ ~Unanswered(offers'[o])
    <2> HIDE DEF o
    <2> QED BY <1>0, <1>2, AcceptanceCloses, DeclineCloses DEF OfferTypes
  <1>4. CASE CurrentId(b) # o
    <2>1. offerCount[b] > 0 => CurrentId(b) \in OfferIds
      BY <1>0, OfferIdFacts DEF OfferTypes
    <2>2. Due(b)' => offers'[CurrentId(b)] = CurrentRow(b)
      <3>1. Due(b)' => offerCount[b] > 0 /\ Unanswered(offers'[CurrentId(b)])
        BY <1>1 DEF Due, CurrentRow, CurrentId, Unanswered
      <3> QED BY <1>3, <2>1, <3>1 DEF CurrentRow
    <2> QED BY <1>1, <1>4, <2>2, QueueKept
  <1>5. CASE CurrentId(b) = o /\ Due(b)'
    <2>1. a = b /\ CurrentRow(b)' = offers'[o] /\ CurrentRow(b) = offers[o]
      BY <1>1, <1>5 DEF CurrentId, CurrentRow
    <2>2. Unanswered(offers'[o]) /\ UNCHANGED offers
      BY <1>3, <1>5, <2>1 DEF Due, Unanswered
    <2>3. Due(b)
      BY <1>1, <1>5, <2>1, <2>2 DEF Due, KindOf, CycleOfApp, InScope, Unanswered
    <2>4. status[b] = "offered"
      BY <2>3 DEF Due, Booked, RowAgrees, Unanswered, Accepted
    <2>5. action # "noop"
      <3>1. /\ KindOf(a) # "open" /\ o = CurrentId(a) /\ status[a] = "offered"
            /\ offers[o].response = "none" /\ ~offers[o].terminated /\ offers[o].deadline # 0
            /\ InScope(CycleOfApp(a))
        BY <1>5, <2>1, <2>3, <2>4 DEF Due, Unanswered
      <3> HIDE DEF o, a, blocked
      <3> QED BY <3>1 DEF DecideExpiry
    <2>6. [offer |-> o, at |-> offers[o].deadline] \in tasks'
      <3>1. ~PlanDecline(a, o, offers)
        BY <1>0, <2>2, DeclineCloses DEF OfferTypes
      <3>2. ~PlanAcceptance(a, o, status, offers, offerCount, ConstraintsCredit(a, "accept"))
        BY <1>0, <2>2, AcceptanceCloses DEF OfferTypes
      <3> HIDE DEF o, a, action
      <3> QED BY <1>2, <2>5, <3>1, <3>2
    <2>7. offers[o].deadline \in Nat
      <3>1. offers[o] \in OfferRow
        BY <1>0 DEF OfferTypes
      <3> QED BY <3>1, ConstantsAssumption DEF OfferRow, Deadlines
    <2> QED BY <1>1, <1>5, <2>2, <2>6, <2>7, QueueMoved
  <1> QED BY <1>4, <1>5 DEF InQueue

LEMMA TerminateQueue ==
    ASSUME TypeOK, NEW a \in Apps, NEW picked \in SUBSET RestoreCandidates(CurrentId(a)),
           NEW d \in [{e.app : e \in picked} -> Deadlines], TerminateOffer(a, picked, d),
           NEW b \in Apps, InQueue(b)
    PROVE  InQueue(b)'
  <1> DEFINE o == CurrentId(a)
             renewed == {e.app : e \in {x \in picked : x.from = "offered"}}
  <1>0. OfferTypes /\ archived' = archived
    BY TypeParts DEF TerminateOffer, staffVars
  <1>1. /\ offers' = [p \in OfferIds |->
                        IF p = o THEN [offers[p] EXCEPT !.terminated = TRUE]
                        ELSE IF p[1] \in renewed /\ p = NextId(p[1]) THEN FreshRow(d[p[1]])
                        ELSE offers[p]]
        /\ offerCount'[b] = offerCount[b] + IF b \in renewed THEN 1 ELSE 0
        /\ tasks' = tasks \cup UNION {ExpiryTask(x, NextId(x), d[x]) : x \in renewed}
    BY DEF TerminateOffer
  <1>2. offerCount[b] \in Nat /\ CurrentId(b)[1] = b /\ NextId(b)[1] = b
    BY <1>0, ConstantsAssumption DEF OfferTypes, CurrentId, NextId
  <1>3. CASE b \in renewed
    <2>1. NextId(b) \in OfferIds /\ NextId(b) # o
      <3>1. offerCount[b] < MaxOffers
        BY <1>3 DEF TerminateOffer
      <3>2. NextId(b) \in OfferIds
        BY <1>0, <3>1, OfferIdFacts DEF OfferTypes
      <3>3. NextId(b) # o
        BY <1>2 DEF NextId, CurrentId
      <3> QED BY <3>2, <3>3
    <2>2. d[b] \in Nat
      <3>1. d[b] \in Deadlines
        BY <1>3
      <3> QED BY <3>1, ConstantsAssumption DEF Deadlines
    <2>3. offers'[NextId(b)].deadline = d[b]
      <3> HIDE DEF renewed, o
      <3>1. offers'[NextId(b)] = FreshRow(d[b])
        BY <1>1, <1>2, <1>3, <2>1
      <3> QED BY <3>1 DEF FreshRow
    <2>4. ExpiryTask(b, NextId(b), d[b]) \subseteq tasks'
      <3> HIDE DEF renewed
      <3> QED BY <1>1, <1>3
    <2>5. offerCount'[b] = offerCount[b] + 1
      BY <1>1, <1>3
    <2> QED BY <2>2, <2>3, <2>4, <2>5, QueueExtended
  <1>4. CASE b \notin renewed
    <2>1. offerCount'[b] = offerCount[b]
      BY <1>1, <1>2, <1>4
    <2>2. Due(b)' => offers'[CurrentId(b)] = CurrentRow(b)
      <3> SUFFICES ASSUME Due(b)' PROVE offers'[CurrentId(b)] = CurrentRow(b)
        OBVIOUS
      <3>1. CurrentId(b) \in OfferIds /\ Unanswered(offers'[CurrentId(b)])
        BY <1>0, <2>1, OfferIdFacts DEF Due, CurrentRow, CurrentId, Unanswered, OfferTypes
      <3>2. CurrentId(b) # o
        <4>1. \A row \in OfferRow : ~Unanswered([row EXCEPT !.terminated = TRUE])
          BY DEF OfferRow, Unanswered
        <4> HIDE DEF o, renewed
        <4> QED BY <1>0, <1>1, <3>1, <4>1 DEF OfferTypes
      <3> HIDE DEF o, renewed
      <3> QED BY <1>1, <1>2, <1>4, <3>1, <3>2 DEF CurrentRow
    <2>3. tasks \subseteq tasks'
      BY <1>1
    <2> QED BY <1>0, <2>1, <2>2, <2>3, QueueKept
  <1> QED BY <1>3, <1>4

LEMMA InterventionQueue ==
    ASSUME TypeOK, InterventionStep, NEW b \in Apps, InQueue(b)
    PROVE  InQueue(b)'
  <1> PICK a \in Apps :
        \/ \E picked \in RestoreChoices(a) :
             \E d \in [{e.app : e \in picked} -> Deadlines] : TerminateOffer(a, picked, d)
        \/ \E d \in Deadlines : ReExtendOffer(a, d)
        \/ ReinstateApplication(a)
        \/ \E to \in Statuses : ForceTransition(a, to)
    BY DEF InterventionStep
  <1>1. CASE \E picked \in RestoreChoices(a) :
               \E d \in [{e.app : e \in picked} -> Deadlines] : TerminateOffer(a, picked, d)
    BY <1>1, TerminateQueue DEF RestoreChoices
  <1>2. ASSUME NEW d \in Deadlines, ReExtendOffer(a, d) PROVE InQueue(b)'
    BY <1>2, ExtensionQueue DEF ReExtendOffer, staffVars
  <1>3. CASE UNCHANGED offerVars /\ UNCHANGED staffVars
    BY <1>3, QueueClosed DEF offerVars, staffVars
  <1> QED BY <1>1, <1>2, <1>3 DEF ReinstateApplication, ForceTransition

LEMMA JobQueue ==
    ASSUME TypeOK, JobStep, NEW b \in Apps, InQueue(b)
    PROVE  InQueue(b)'
  <1>0. OfferTypes
    BY TypeParts
  <1>1. ASSUME NEW j, NEW rows, CancelJob(j, rows) PROVE InQueue(b)'
    <2> DEFINE hit == {a \in rows : Decide(TRANSITIONS.cancel_job, a, "rejected", "staff")}
    <2>1. /\ offers' = [p \in OfferIds |-> IF p[1] \in hit /\ Unanswered(offers[p])
                                           THEN [offers[p] EXCEPT !.terminated = TRUE]
                                           ELSE offers[p]]
          /\ UNCHANGED <<offerCount, tasks, archived>>
      BY <1>1 DEF CancelJob
    <2>2. \A row \in OfferRow : ~Unanswered([row EXCEPT !.terminated = TRUE])
      BY DEF OfferRow, Unanswered
    <2>3. \A p \in OfferIds : offers'[p] = offers[p] \/ ~Unanswered(offers'[p])
      <3> HIDE DEF hit
      <3> QED BY <1>0, <2>1, <2>2 DEF OfferTypes
    <2> QED BY <2>1, <2>3, QueueClosed
  <1>2. ASSUME NEW j, NEW d \in Deadlines, UpdateJobBasics(j, d) PROVE InQueue(b)'
    <2> DEFINE open == {p \in OfferIds : JobOf[p[1]] = j /\ Unanswered(offers[p])}
    <2>1. /\ offers' = [p \in OfferIds |-> IF p \in open THEN [offers[p] EXCEPT !.deadline = d]
                                           ELSE offers[p]]
          /\ tasks' = tasks \cup (IF d # 0 THEN {[offer |-> p, at |-> d] : p \in open} ELSE {})
          /\ UNCHANGED <<offerCount, archived>>
      BY <1>2 DEF UpdateJobBasics
    <2>2. offerCount[b] > 0 => CurrentId(b) \in OfferIds
      BY <1>0, OfferIdFacts DEF OfferTypes
    <2> HIDE DEF open
    <2>3. CASE CurrentId(b) \in OfferIds /\ CurrentId(b) \in open /\ d # 0
      <3>1. offers'[CurrentId(b)].deadline = d
        <4>1. \A row \in OfferRow : [row EXCEPT !.deadline = d].deadline = d
          BY DEF OfferRow
        <4> QED BY <1>0, <2>1, <2>3, <4>1 DEF OfferTypes
      <3>2. [offer |-> CurrentId(b), at |-> d] \in tasks'
        BY <2>1, <2>3
      <3>3. d \in Nat
        BY ConstantsAssumption DEF Deadlines
      <3> QED BY <2>1, <3>1, <3>2, <3>3, QueueMoved
    <2>4. CASE CurrentId(b) \in OfferIds /\ CurrentId(b) \in open /\ d = 0
      <3>1. offers'[CurrentId(b)].deadline = 0
        <4>1. \A row \in OfferRow : [row EXCEPT !.deadline = d].deadline = d
          BY DEF OfferRow
        <4> QED BY <1>0, <2>1, <2>4, <4>1 DEF OfferTypes
      <3> QED BY <2>1, <3>1 DEF InQueue, Due, CurrentRow, CurrentId
    <2>5. CASE CurrentId(b) \notin open \/ CurrentId(b) \notin OfferIds
      <3>1. Due(b)' => offers'[CurrentId(b)] = CurrentRow(b)
        BY <2>1, <2>2, <2>5 DEF Due, CurrentRow
      <3> QED BY <2>1, <3>1, QueueKept
    <2> QED BY <2>3, <2>4, <2>5
  <1>3. ASSUME NEW j, NEW on, SetPublished(j, on) PROVE InQueue(b)'
    BY <1>3, QueueClosed DEF SetPublished, offerVars
  <1> QED BY <1>1, <1>2, <1>3 DEF JobStep

LEMMA QueueStep ==
    ASSUME TypeOK, [Next]_vars, NEW b \in Apps, Booked(b), InQueue(b)
    PROVE  InQueue(b)'
  <1>1. CASE CycleStep
    <2>1. UNCHANGED offerVars /\ archived \subseteq archived'
      BY <1>1 DEF CycleStep, ExitCycle, RestoreMembership, ArchiveCycle
    <2> QED BY <2>1, QueueClosed DEF offerVars
  <1>2. CASE \/ \E dom \in Domains, value \in {"none", "allow", "deny"} : SetOverride(dom, value)
             \/ Tick
             \/ UNCHANGED vars
    BY <1>2, QueueClosed DEF SetOverride, Tick, vars, offerVars, staffVars
  <1> QED BY <1>1, <1>2, StudentQueue, ProcessQueue, ExpiryQueue, InterventionQueue, JobQueue
          DEF Next

\* Whatever set or moved the deadline, an open offer of a running cycle has a
\* task that runs by then, and no stale task takes it along when it goes.
THEOREM ExpiryScheduledHolds == Spec => []ExpiryScheduled
<1>1. ExpiryScheduled <=> \A a \in Ruled : InQueue(a)
  BY DEF ExpiryScheduled, InQueue, Due
<1>2. Init => ExpiryScheduled
  BY <1>1 DEF Init, InitWith, InQueue, Due, Ruled
<1>3. TypeOK /\ BooksInv /\ ExpiryScheduled /\ [Next]_vars => ExpiryScheduled'
  <2> SUFFICES ASSUME TypeOK, BooksInv, ExpiryScheduled, [Next]_vars, NEW a \in Ruled'
               PROVE  InQueue(a)'
    BY DEF ExpiryScheduled, InQueue, Due
  <2>1. a \in Ruled /\ a \in Apps
    BY ForcedStays DEF Ruled
  <2> QED BY <1>1, <2>1, QueueStep DEF BooksInv
<1> QED BY <1>2, <1>3, TypeCorrect, BooksHold, PTL DEF Spec
=============================================================================
