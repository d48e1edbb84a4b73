------------------------ MODULE MCCommandTransactions ------------------------
(***************************************************************************)
(* Three applications of a student in two placement cycles: an open offer  *)
(* in each, and an application in progress in the second.  Offer ids are   *)
(* random UUIDs, so they need not come in the order of their applications. *)
(***************************************************************************)
EXTENDS CommandTransactions, TLC

CONSTANTS a1, a2, a3, j1, j2, j3, c1, c2

MCApps == {a1, a2, a3}
MCJobs == {j1, j2, j3}
MCCycles == {c1, c2}
MCJobOf == (a1 :> j1) @@ (a2 :> j2) @@ (a3 :> j3)
MCCycleOf == (j1 :> c1) @@ (j2 :> c2) @@ (j3 :> c2)
MCFirstStatus == (a1 :> "offered") @@ (a2 :> "offered") @@ (a3 :> "in_progress")
MCAppOrder == <<a1, a2, a3>>
MCOfferOrder == <<a2, a1, a3>>

\* A transaction is named by its command and the application it is given.
MCCommand == [t \in Txs |-> t[1]]
MCTarget == [t \in Txs |-> t[2]]

MCTxs == {<<"accept", a1>>, <<"expire", a2>>, <<"terminate", a1>>, <<"decline", a2>>,
          <<"withdraw", a3>>, <<"promote", a3>>, <<"extend", a3>>, <<"cancel", a2>>,
          <<"archive", a2>>, <<"leave", a2>>}

\* An acceptance against the decline of another of the student's offers.
DeclineTxs == {<<"accept", a1>>, <<"accept", a2>>, <<"decline", a2>>, <<"decline", a1>>}

\* A round closed while the student withdraws from it or is placed elsewhere.
FinalizeTxs == {<<"finalize", a3>>, <<"withdraw", a3>>, <<"accept", a1>>}

\* An application filed while an offer is being accepted.
ApplyFirstStatus == (a1 :> "offered") @@ (a2 :> "offered") @@ (a3 :> "none")
ApplyTxs == {<<"apply", a3>>, <<"accept", a1>>, <<"decline", a2>>}
=============================================================================
