--------------------------- MODULE MCOfferInterns ---------------------------
(***************************************************************************)
(* Internships: a cycle of two jobs and one acceptance beside an open      *)
(* internship the student may apply to twice, withdrawing between, until   *)
(* its deadline passes, with overrides of the acceptance gates and of the  *)
(* two windows granted and revoked meanwhile.                              *)
(***************************************************************************)
EXTENDS OfferLifecycle, TLC

CONSTANTS a1, a2, a3, a4, j1, j2, j3, openings, season

MCApps == {a1, a2, a3, a4}
MCJobs == {j1, j2, j3}
MCCycles == {openings, season}
MCJobOf == (a1 :> j1) @@ (a2 :> j2) @@ (a3 :> j3) @@ (a4 :> j1)
MCCycleOf == (j1 :> openings) @@ (j2 :> season) @@ (j3 :> season)
MCOutcome == [j \in MCJobs |-> "internship"]
MCApplyBy == (j1 :> 1) @@ (j2 :> 0) @@ (j3 :> 0)
MCFirstDeadline == (j1 :> 0) @@ (j2 :> 1) @@ (j3 :> 1)
MCKind == (openings :> "open") @@ (season :> "internship")
MCBehavior == [c \in MCCycles |-> "auto_accept"]
MCCap == (openings :> 0) @@ (season :> 1)
MCLateWithdrawal == [c \in MCCycles |-> FALSE]

\* The two applications to the open job, and the two jobs of the season each
\* with its application, are interchangeable.
SwapApplications == (a1 :> a4) @@ (a4 :> a1)
SwapJobs == (a2 :> a3) @@ (a3 :> a2) @@ (j2 :> j3) @@ (j3 :> j2)
Symmetry == {SwapApplications, SwapJobs, SwapApplications @@ SwapJobs}
=============================================================================
