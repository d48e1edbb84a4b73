-------------------------- MODULE MCExternalOffers --------------------------
(***************************************************************************)
(* A placement season with a cap of one and one application, and two       *)
(* external offers that staff record, attach and swap with what the        *)
(* student holds; the student starts outside the season, whose             *)
(* registration closes while the run lasts.                                *)
(***************************************************************************)
EXTENDS ConsistencyChecker, TLC

CONSTANTS a1, j1, season, x1, x2

MCApps == {a1}
MCJobs == {j1}
MCCycles == {season}
MCJobOf == a1 :> j1
MCCycleOf == j1 :> season
MCOutcome == j1 :> "placement"
MCApplyBy == [j \in MCJobs |-> 0]
MCFirstDeadline == [j \in MCJobs |-> 0]
MCKind == season :> "placement"
MCBehavior == [c \in MCCycles |-> "auto_decline"]
MCCap == [c \in MCCycles |-> 1]
MCLateWithdrawal == [c \in MCCycles |-> FALSE]
MCRequiresApproval == [c \in MCCycles |-> TRUE]
MCRegistrationOpens == [c \in MCCycles |-> 0]
MCRegistrationCloses == [c \in MCCycles |-> 1]
Symmetry == Permutations({x1, x2})
=============================================================================
