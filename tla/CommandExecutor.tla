--------------------------- MODULE CommandExecutor ---------------------------
(***************************************************************************)
(* The executor's idempotency and bulk machinery: Executor.run_bulk splits *)
(* a batch into chunks, each chunk is one Executor.run in a transaction of *)
(* its own under the key "batch_key:n", and idempotency.reserve inserts    *)
(* that key before anything else happens in the transaction.  A single     *)
(* command with an idempotency key is a batch of one chunk.                *)
(*                                                                         *)
(* A request is one HTTP call; a client that retries or double-submits is  *)
(* another request with the same batch.  Any request may crash anywhere.   *)
(***************************************************************************)
EXTENDS Naturals, Sequences, FiniteSets

CONSTANTS
    Requests, Keys, Payloads, Principals,
    KeyOf,        \* request -> batch key
    BatchOf       \* request -> [principal, chunks]; chunk n carries payload chunks[n]

ASSUME RequestsAssumption ==
    /\ KeyOf \in [Requests -> Keys]
    /\ BatchOf \in [Requests -> [principal : Principals, chunks : Seq(Payloads)]]
    /\ \A r \in Requests : BatchOf[r].chunks # <<>>

VARIABLES
    pc,       \* request -> where it is
    chunk,    \* request -> number of the chunk it is at; those below are completed
    ledger,   \* committed idempotency rows [key, number, batch]
    effects,  \* key -> payloads of the committed chunk transactions, in commit order
    audits    \* key -> committed audit rows of the batch

executorVars == <<pc, chunk, ledger, effects, audits>>

InTransaction == {"decide", "commit"}
Finished == {"succeeded", "rejected", "interrupted", "denied", "crashed"}

ExecutorTypeOK ==
    /\ pc \in [Requests -> {"new", "reserve", "answer"} \cup InTransaction \cup Finished]
    /\ chunk \in [Requests -> Nat \ {0}]
    /\ ledger \subseteq [key : Keys, number : Nat \ {0},
                         batch : {BatchOf[r] : r \in Requests}]
    /\ effects \in [Keys -> Seq(Payloads)]
    /\ audits \in [Keys -> Nat]

ExecutorInit ==
    /\ pc = [r \in Requests |-> "new"]
    /\ chunk = [r \in Requests |-> 1]
    /\ ledger = {}
    /\ effects = [k \in Keys |-> <<>>]
    /\ audits = [k \in Keys |-> 0]

-----------------------------------------------------------------------------
Goto(r, label) == pc' = [pc EXCEPT ![r] = label]

\* Mutant: each chunk is fingerprinted by its own rows only.
FingerprintOfChunk(r) ==
    [BatchOf[r] EXCEPT !.chunks = IF chunk[r] <= Len(@) THEN <<@[chunk[r]]>> ELSE <<>>]

\* Mutant: the request is told apart by its principal alone.
FingerprintOfCaller(r) == [BatchOf[r] EXCEPT !.chunks = <<>>]

\* The principal and the fingerprint stored with the key.  run_bulk takes the
\* fingerprint of the whole batch and hands it to every chunk.
Fingerprint(r) == BatchOf[r]

RowOf(r) == [key |-> KeyOf[r], number |-> chunk[r], batch |-> Fingerprint(r)]
Stored(r) == {e \in ledger : e.key = KeyOf[r] /\ e.number = chunk[r]}

\* Mutant: a rejected command leaves its transaction open.
HoldersLeaky(r) ==
    {q \in Requests \ {r} : /\ pc[q] \in InTransaction \cup {"rejected", "interrupted"}
                            /\ KeyOf[q] = KeyOf[r] /\ chunk[q] = chunk[r]}

\* Requests whose open transaction has inserted the same key: ON CONFLICT DO
\* NOTHING waits for them to commit or roll back.
Holders(r) ==
    {q \in Requests \ {r} : /\ pc[q] \in InTransaction
                            /\ KeyOf[q] = KeyOf[r] /\ chunk[q] = chunk[r]}

\* run_bulk after a chunk that went through.
NextChunk(r) ==
    /\ chunk' = [chunk EXCEPT ![r] = @ + 1]
    /\ Goto(r, IF chunk[r] = Len(BatchOf[r].chunks) THEN "answer" ELSE "reserve")

\* run_bulk after a DomainRejection: the client is told of an interruption only
\* when some chunk of this call had been completed.
Refuse(r) ==
    /\ Goto(r, IF chunk[r] = 1 THEN "rejected" ELSE "interrupted")
    /\ UNCHANGED chunk

\* Mutant: the batch is audited once it is through.
AuditedWithLast(r) == chunk[r] = Len(BatchOf[r].chunks)

\* The batch is audited with its first chunk.
Audited(r) == chunk[r] = 1

-----------------------------------------------------------------------------
Start(r) ==
    /\ pc[r] = "new"
    /\ Goto(r, "reserve")
    /\ UNCHANGED <<chunk, ledger, effects, audits>>

\* Executor.run before the transaction, or check_replayed_scope in it: one actor
\* and one scope for the whole call, so it is the first chunk that is denied.
Deny(r) ==
    /\ pc[r] = "reserve" /\ chunk[r] = 1
    /\ Goto(r, "denied")
    /\ UNCHANGED <<chunk, ledger, effects, audits>>

\* reserve: the insert goes through ...
Reserve(r) ==
    /\ pc[r] = "reserve"
    /\ Holders(r) = {}
    /\ Stored(r) = {}
    /\ Goto(r, "decide")
    /\ UNCHANGED <<chunk, ledger, effects, audits>>

\* ... or finds the key of the same request: its result is replayed, and the
\* transaction rolled back ...
Replay(r) ==
    /\ pc[r] = "reserve"
    /\ Holders(r) = {}
    /\ \E e \in Stored(r) : e.batch = Fingerprint(r)
    /\ NextChunk(r)
    /\ UNCHANGED <<ledger, effects, audits>>

\* ... or of another one: IDEMPOTENCY_CONFLICT.
Conflict(r) ==
    /\ pc[r] = "reserve"
    /\ Holders(r) = {}
    /\ \E e \in Stored(r) : e.batch # Fingerprint(r)
    /\ Refuse(r)
    /\ UNCHANGED <<ledger, effects, audits>>

\* loader, check_scope and decide: the state of the rows is not modelled here,
\* so the command may be rejected at any chunk, which rolls back its key.
Decide(r) ==
    /\ pc[r] = "decide"
    /\ \/ Goto(r, "commit") /\ UNCHANGED chunk
       \/ Refuse(r)
    /\ UNCHANGED <<ledger, effects, audits>>

\* State operations, events, audit, deferred jobs and complete(), all of which
\* become visible with the commit.
Commit(r) ==
    /\ pc[r] = "commit"
    /\ ledger' = ledger \cup {RowOf(r)}
    /\ effects' = [effects EXCEPT ![KeyOf[r]] = Append(@, BatchOf[r].chunks[chunk[r]])]
    /\ audits' = [audits EXCEPT ![KeyOf[r]] = @ + IF Audited(r) THEN 1 ELSE 0]
    /\ NextChunk(r)

Answer(r) ==
    /\ pc[r] = "answer"
    /\ Goto(r, "succeeded")
    /\ UNCHANGED <<chunk, ledger, effects, audits>>

\* The process dies, the connection drops, or an exception that is no rejection
\* is raised: an open transaction is rolled back, what was committed stays.
CrashCall(r) ==
    /\ pc[r] \notin Finished \cup {"new"}
    /\ Goto(r, "crashed")
    /\ UNCHANGED <<chunk, ledger, effects, audits>>

Work(r) ==
    \/ Reserve(r) \/ Replay(r) \/ Conflict(r)
    \/ Decide(r) \/ Commit(r) \/ Answer(r)

ExecutorNext == \E r \in Requests : Start(r) \/ Deny(r) \/ Work(r) \/ CrashCall(r)

ExecutorSpec == ExecutorInit /\ [][ExecutorNext]_executorVars

\* The event loop runs a request that is not blocked on a key.  A call takes
\* finitely many steps, so nobody needs fairness of its own.
FairExecutorSpec == ExecutorSpec /\ WF_executorVars(\E r \in Requests : Work(r))

-----------------------------------------------------------------------------
\* RND-2: one batch key is one batch.  Each chunk takes effect at most once, in
\* order, and no key ever mixes chunks of two batches, although every chunk has
\* its own key and its own transaction (executor.py run_bulk, idempotency.py).
NoOwner == [principal |-> "nobody", chunks |-> <<>>]
Owner == [k \in Keys |-> IF \E e \in ledger : e.key = k
                         THEN (CHOOSE e \in ledger : e.key = k).batch ELSE NoOwner]
Promise == INSTANCE BatchLedger
    WITH Batches <- {BatchOf[r] : r \in Requests}, Unowned <- NoOwner, owner <- Owner
KeepsPromise == Promise!Spec

\* RND-2: one batch audit entry, present as soon as any of it is: not lost when
\* the call that wrote it crashed, not repeated by the calls that resume it.
AuditedOnce ==
    \A k \in Keys : audits[k] = IF effects[k] = <<>> THEN 0 ELSE 1

\* A call that reports success reports work that is really stored, its own or an
\* identical call's, and all of it.
SuccessIsStored ==
    \A r \in Requests : pc[r] = "succeeded" => effects[KeyOf[r]] = BatchOf[r].chunks

\* No call waits forever for the reservation of another one: whoever holds a key
\* commits, is rejected or dies, and each of those lets the key go.  Time and
\* again no call at all is under way.
EveryCallEnds ==
    (\E r \in Requests : pc[r] = "reserve")
    ~> (\A r \in Requests : pc[r] \in Finished \cup {"new"})
=============================================================================
