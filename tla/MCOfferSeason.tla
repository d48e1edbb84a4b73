---------------------------- MODULE MCOfferSeason ----------------------------
(***************************************************************************)
(* A placement season: two dedicated placement cycles side by side, one    *)
(* auto-declining and one auto-accepting, and an open cycle with a         *)
(* placement job, whose outcome staff record.                              *)
(***************************************************************************)
EXTENDS OfferLifecycle, TLC

CONSTANTS a1, a2, a3, j1, j2, j3, c1, c2, openings

MCApps == {a1, a2, a3}
MCJobs == {j1, j2, j3}
MCCycles == {c1, c2, openings}
MCJobOf == (a1 :> j1) @@ (a2 :> j2) @@ (a3 :> j3)
MCCycleOf == (j1 :> c1) @@ (j2 :> c2) @@ (j3 :> openings)
MCOutcome == [j \in MCJobs |-> "placement"]
MCApplyBy == (j1 :> 0) @@ (j2 :> 1) @@ (j3 :> 0)
MCFirstDeadline == (j1 :> 1) @@ (j2 :> 0) @@ (j3 :> 0)
MCKind == (c1 :> "placement") @@ (c2 :> "placement") @@ (openings :> "open")
MCBehavior == (c1 :> "auto_decline") @@ (c2 :> "auto_accept") @@ (openings :> "auto_decline")
MCCap == (c1 :> 1) @@ (c2 :> 1) @@ (openings :> 0)
MCLateWithdrawal == [c \in MCCycles |-> c = c2]
=============================================================================
