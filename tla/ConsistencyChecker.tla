------------------------- MODULE ConsistencyChecker -------------------------
(***************************************************************************)
(* The nightly consistency checker: each definition below is one of its    *)
(* queries, the rows of one student that the query returns.                *)
(***************************************************************************)
EXTENDS ExternalOffers

DuplicatePairs ==
    {a \in Apps : status[a] \notin FreedStatuses /\ DuplicateExists(a)}

UncreditedIn(c) ==
    {o \in AcceptedIds : CycleOfApp(o[1]) = c /\ "offer_cap" \notin offers[o].waived}
      \cup {x \in AcceptedExternal : external[x].cycle = c /\ "offer_cap" \notin external[x].waived}
BeyondCap == {c \in Cycles : Cap[c] # 0 /\ Cardinality(UncreditedIn(c)) > Cap[c]}

UnsupportedAcceptances ==
    {a \in Apps : /\ status[a] = "accepted"
                  /\ \A n \in Slots : ~Accepted(offers[<<a, n>>])}

StrayOpenOffers == {o \in OfferIds : Unanswered(offers[o]) /\ status[o[1]] # "offered"}

OutsideMembership == {a \in Apps : status[a] \in LiveStatuses /\ ~member[CycleOfApp(a)]}

MisattachedOffers ==
    {x \in ExternalIds : LET c == external[x].cycle
                         IN c # Unattached /\ Kind[c] # "open" /\ Kind[c] # external[x].outcome}

OpenJobsWithDeadline == {j \in Jobs : Kind[CycleOf[j]] = "open" /\ jobs[j].deadline # 0}

\* The checker reports nothing that a sequence of legal commands can produce:
\* the columns it compares are written by different commands (an offer's
\* response, an application's status, the attachment of an external offer, the
\* membership) and each of them keeps all of the others.  Left out are
\* one_accepted_placement_offer_globally and, for an offer held after leaving
\* its cycle, no_live_application_without_active_membership; a forced
\* transition may break everything (APP-4.17).
NothingToReport ==
    forced = {} =>
        /\ DuplicatePairs = {}
        /\ BeyondCap = {}
        /\ UnsupportedAcceptances = {}
        /\ StrayOpenOffers = {}
        /\ {a \in OutsideMembership \ sanctioned : status[a] # "offered"} = {}
        /\ MisattachedOffers = {}
        /\ OpenJobsWithDeadline = {}

=============================================================================
