----------------------------- MODULE MCServices -----------------------------
(***************************************************************************)
(* Two services that share no state: keyed calls to the executor, and the  *)
(* delivery of notifications by the worker.  A behaviour is that of one of *)
(* them while the other stands still.                                      *)
(*                                                                         *)
(* Four calls on one key: a batch of two chunks and its retry, a batch of  *)
(* the same principal that differs in the second chunk only, and the same  *)
(* chunks sent by somebody else.  Two notices, one deadline to remind of,  *)
(* and a schedule of two retries.                                          *)
(***************************************************************************)
EXTENDS CommandExecutor, Notifications, TLC

CONSTANTS r1, r2, r3, r4, k1

MCRequests == {r1, r2, r3, r4}
MCKeys == {k1}
MCPayloads == {"x", "y", "z"}
MCPrincipals == {"alice", "bob"}
MCKeyOf == [r \in MCRequests |-> k1]
From(who, chunks) == [principal |-> who, chunks |-> chunks]
MCBatchOf == (r1 :> From("alice", <<"x", "y">>)) @@ (r2 :> From("alice", <<"x", "y">>))
             @@ (r3 :> From("alice", <<"x", "z">>)) @@ (r4 :> From("bob", <<"x", "y">>))

MCRetryDelays == <<1, 2>>

VARIABLE service

serviceVars == <<service, executorVars, noticeVars>>

Init ==
    /\ service \in {"executor", "notifications"}
    /\ ExecutorInit /\ NoticeInit

AtExecutor(step) == service = "executor" /\ step /\ UNCHANGED <<service, noticeVars>>
AtNotices(step) == service = "notifications" /\ step /\ UNCHANGED <<service, executorVars>>

Next == AtExecutor(ExecutorNext) \/ AtNotices(NoticeNext)

\* The fairness of FairExecutorSpec and of FairNoticeSpec.
Spec ==
    /\ Init /\ [][Next]_serviceVars
    /\ WF_serviceVars(AtExecutor(\E r \in Requests : Work(r)))
    /\ WF_serviceVars(AtNotices(Tick))
    /\ \A n \in Notices : WF_serviceVars(AtNotices(WorkOn(n)))
=============================================================================
