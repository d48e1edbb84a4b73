---------------------------- MODULE MCOfferExpiry ----------------------------
(***************************************************************************)
(* The expiry queue under fairness: two auto-accepting cycles whose offers *)
(* block each other, with deadlines staff may move, drop and add.          *)
(***************************************************************************)
EXTENDS OfferLifecycle, TLC

CONSTANTS a1, a2, j1, j2, c1, c2

MCApps == {a1, a2}
MCJobs == {j1, j2}
MCCycles == {c1, c2}
MCJobOf == (a1 :> j1) @@ (a2 :> j2)
MCCycleOf == (j1 :> c1) @@ (j2 :> c2)
MCOutcome == [j \in MCJobs |-> "placement"]
MCApplyBy == [j \in MCJobs |-> 0]
MCFirstDeadline == (j1 :> 2) @@ (j2 :> 1)
MCKind == [c \in MCCycles |-> "placement"]
MCBehavior == [c \in MCCycles |-> "auto_accept"]
MCCap == [c \in MCCycles |-> 1]
MCLateWithdrawal == [c \in MCCycles |-> FALSE]
=============================================================================
