--------------------------- MODULE ServiceProofs ---------------------------
(***************************************************************************)
(* What two services promise, for instances of any size.  Of the executor, *)
(* what a batch key stores, for any calls, keys, principals and chunks and *)
(* whatever calls crash: CommandExecutor implements BatchLedger.  Of the   *)
(* notifications, the safety of their delivery for any notices, targets    *)
(* and schedule of retries.                                                *)
(***************************************************************************)
EXTENDS CommandExecutor, Notifications, FiniteSetTheorems, TLAPS

-----------------------------------------------------------------------------
(* The executor.                                                            *)

\* Under every key there is a prefix of one batch.
PrefixStored ==
    /\ \A e \in ledger :
         /\ e.number <= Len(effects[e.key]) /\ e.number <= Len(e.batch.chunks)
         /\ effects[e.key][e.number] = e.batch.chunks[e.number]
    /\ \A d, e \in ledger : d.key = e.key => d.batch = e.batch
    /\ \A k \in Keys : \A n \in 1 .. Len(effects[k]) :
         \E e \in ledger : e.key = k /\ e.number = n

\* A call has its completed chunks stored and knows how far it is.
Row(r, n) == [key |-> KeyOf[r], number |-> n, batch |-> BatchOf[r]]
Placed(r) ==
    /\ \A n \in 1 .. (chunk[r] - 1) : Row(r, n) \in ledger
    /\ pc[r] \in {"new", "reserve"} \cup InTransaction => chunk[r] <= Len(BatchOf[r].chunks)
    /\ pc[r] \in {"answer", "succeeded"} => chunk[r] = Len(BatchOf[r].chunks) + 1

\* A key is inserted by one open transaction, and by none once it is stored.
KeyHeld(r) == pc[r] \in InTransaction => Stored(r) = {} /\ Holders(r) = {}

ExecutorInv ==
    /\ ExecutorTypeOK
    /\ PrefixStored
    /\ \A r \in Requests : Placed(r) /\ KeyHeld(r)
    /\ AuditedOnce

-----------------------------------------------------------------------------
LEMMA BatchFacts ==
    ASSUME NEW r \in Requests
    PROVE  /\ KeyOf[r] \in Keys
           /\ BatchOf[r].chunks \in Seq(Payloads)
           /\ Len(BatchOf[r].chunks) \in Nat \ {0}
           /\ BatchOf[r] \in {BatchOf[q] : q \in Requests}
  <1>1. BatchOf[r] \in [principal : Principals, chunks : Seq(Payloads)]
    BY RequestsAssumption
  <1>2. BatchOf[r].chunks \in Seq(Payloads) /\ BatchOf[r].chunks # <<>>
    BY <1>1, RequestsAssumption
  <1> QED BY <1>2, RequestsAssumption

LEMMA InitInv == ExecutorInit => ExecutorInv
  <1> SUFFICES ASSUME ExecutorInit PROVE ExecutorInv
    OBVIOUS
  <1>1. ExecutorTypeOK /\ PrefixStored /\ AuditedOnce
    BY DEF ExecutorInit, ExecutorTypeOK, PrefixStored, AuditedOnce
  <1>2. ASSUME NEW r \in Requests PROVE Placed(r) /\ KeyHeld(r)
    BY BatchFacts DEF ExecutorInit, Placed, KeyHeld, InTransaction
  <1> QED BY <1>1, <1>2 DEF ExecutorInv

\* A call moves on: nothing is stored, and it holds its key if it is to.
LEMMA CallMoves ==
    ASSUME ExecutorInv, NEW r \in Requests, NEW label,
           label \in {"reserve", "decide", "commit", "answer"} \cup Finished,
           Goto(r, label), NEW n \in Nat \ {0}, chunk' = [chunk EXCEPT ![r] = n],
           UNCHANGED <<ledger, effects, audits>>,
           Placed(r)', label \in InTransaction => Stored(r) = {} /\ Holders(r) = {} /\ n = chunk[r]
    PROVE  ExecutorInv'
  <1>1. ExecutorTypeOK'
    BY DEF ExecutorInv, ExecutorTypeOK, Goto, InTransaction, Finished
  <1>2. PrefixStored' /\ AuditedOnce'
    BY DEF ExecutorInv, PrefixStored, AuditedOnce
  <1>3. \A q \in Requests \ {r} : pc'[q] = pc[q] /\ chunk'[q] = chunk[q]
    BY DEF ExecutorInv, ExecutorTypeOK, Goto
  <1>4. pc'[r] = label /\ chunk'[r] = n
    BY DEF ExecutorInv, ExecutorTypeOK, Goto
  <1>5. ASSUME NEW q \in Requests PROVE Placed(q)' /\ KeyHeld(q)'
    <2>1. CASE q = r
      <3>1. ASSUME label \in InTransaction PROVE Stored(r)' = {} /\ Holders(r)' = {}
        <4>1. Stored(r)' = Stored(r)
          BY <1>4, <3>1 DEF Stored
        <4>2. Holders(r)' = Holders(r)
          BY <1>3, <1>4, <3>1 DEF Holders
        <4> QED BY <3>1, <4>1, <4>2
      <3> QED BY <1>4, <2>1, <3>1 DEF KeyHeld
    <2>2. CASE q # r
      <3>1. Placed(q)'
        BY <1>3, <2>2 DEF ExecutorInv, Placed, Row
      <3>2. ASSUME pc[q] \in InTransaction PROVE Stored(q)' = {} /\ Holders(q)' = {}
        <4>1. Stored(q) = {} /\ Holders(q) = {}
          BY <3>2 DEF ExecutorInv, KeyHeld
        <4>2. Stored(q)' = Stored(q)
          BY <1>3, <2>2 DEF Stored
        <4>3. ASSUME NEW p \in Holders(q)' PROVE FALSE
          <5>1. CASE p = r
            <6>1. label \in InTransaction /\ KeyOf[r] = KeyOf[q] /\ n = chunk[q]
              BY <1>3, <1>4, <2>2, <4>3, <5>1 DEF Holders
            <6>2. q \in Holders(r)
              BY <2>2, <3>2, <6>1 DEF Holders
            <6> QED BY <6>1, <6>2
          <5>2. CASE p # r
            <6>1. p \in Holders(q)
              BY <1>3, <2>2, <4>3, <5>2 DEF Holders
            <6> QED BY <4>1, <6>1
          <5> QED BY <5>1, <5>2
        <4> QED BY <4>1, <4>2, <4>3
      <3> QED BY <1>3, <2>2, <3>1, <3>2 DEF KeyHeld
    <2> QED BY <2>1, <2>2
  <1> QED BY <1>1, <1>2, <1>5 DEF ExecutorInv

\* A step that leaves the call at its chunk.
LEMMA CallStays ==
    ASSUME ExecutorInv, NEW r \in Requests, NEW label,
           label \in {"reserve", "decide", "commit", "answer"} \cup Finished,
           Goto(r, label), UNCHANGED <<chunk, ledger, effects, audits>>,
           label \in {"reserve"} \cup InTransaction => pc[r] \in {"new", "reserve"} \cup InTransaction,
           label \in {"answer", "succeeded"} => pc[r] = "answer",
           label \in InTransaction => Stored(r) = {} /\ Holders(r) = {}
    PROVE  ExecutorInv'
  <1>1. chunk[r] \in Nat \ {0} /\ chunk' = [chunk EXCEPT ![r] = chunk[r]]
    BY DEF ExecutorInv, ExecutorTypeOK
  <1>2. pc'[r] = label
    BY DEF ExecutorInv, ExecutorTypeOK, Goto
  <1>3. Placed(r)
    BY DEF ExecutorInv
  <1>4. Placed(r)'
    BY <1>2, <1>3 DEF Placed, Row, InTransaction, Finished
  <1> QED BY <1>1, <1>4, CallMoves

\* What run_bulk does after a chunk whose row is stored.
LEMMA NextPlaced ==
    ASSUME ExecutorInv, NEW r \in Requests, NextChunk(r), chunk[r] <= Len(BatchOf[r].chunks),
           ledger \subseteq ledger', Row(r, chunk[r]) \in ledger'
    PROVE  /\ pc'[r] = IF chunk[r] = Len(BatchOf[r].chunks) THEN "answer" ELSE "reserve"
           /\ chunk'[r] = chunk[r] + 1
           /\ Placed(r)'
  <1>1. chunk[r] \in Nat \ {0} /\ Len(BatchOf[r].chunks) \in Nat
    BY BatchFacts DEF ExecutorInv, ExecutorTypeOK
  <1>2. /\ pc'[r] = IF chunk[r] = Len(BatchOf[r].chunks) THEN "answer" ELSE "reserve"
        /\ chunk'[r] = chunk[r] + 1
    BY DEF ExecutorInv, ExecutorTypeOK, NextChunk, Goto
  <1>3. ASSUME NEW n \in 1 .. (chunk'[r] - 1) PROVE Row(r, n) \in ledger'
    <2>1. n = chunk[r] \/ n \in 1 .. (chunk[r] - 1)
      BY <1>1, <1>2
    <2> QED BY <2>1 DEF ExecutorInv, Placed
  <1>4. Placed(r)'
    BY <1>1, <1>2, <1>3 DEF Placed, Row, InTransaction
  <1> QED BY <1>2, <1>4

LEMMA ReplayInv ==
    ASSUME ExecutorInv, NEW r \in Requests, Replay(r)
    PROVE  ExecutorInv'
  <1>1. PICK e \in Stored(r) : e.batch = Fingerprint(r)
    BY DEF Replay
  <1>2. e = Row(r, chunk[r]) /\ e \in ledger
    BY <1>1 DEF Stored, Fingerprint, Row, ExecutorInv, ExecutorTypeOK
  <1>3. chunk[r] <= Len(BatchOf[r].chunks)
    BY DEF ExecutorInv, Placed, Replay
  <1>4. /\ pc'[r] = IF chunk[r] = Len(BatchOf[r].chunks) THEN "answer" ELSE "reserve"
        /\ chunk'[r] = chunk[r] + 1 /\ Placed(r)'
    BY <1>2, <1>3, NextPlaced DEF Replay
  <1> DEFINE label == IF chunk[r] = Len(BatchOf[r].chunks) THEN "answer" ELSE "reserve"
  <1>5. Goto(r, label) /\ label \in {"answer", "reserve"}
    BY DEF Replay, NextChunk
  <1>6. chunk[r] + 1 \in Nat \ {0} /\ chunk' = [chunk EXCEPT ![r] = chunk[r] + 1]
    BY DEF Replay, NextChunk, ExecutorInv, ExecutorTypeOK
  <1> HIDE DEF label
  <1> QED BY <1>4, <1>5, <1>6, CallMoves DEF Replay, InTransaction

-----------------------------------------------------------------------------
\* Who holds the key of a chunk is next under it: the chunks before are stored,
\* its own is not.
LEMMA CommitsNext ==
    ASSUME ExecutorInv, NEW r \in Requests, pc[r] = "commit"
    PROVE  /\ Len(effects[KeyOf[r]]) = chunk[r] - 1
           /\ chunk[r] \in 1 .. Len(BatchOf[r].chunks)
           /\ \A e \in ledger : e.key = KeyOf[r] => e.batch = BatchOf[r]
  <1> DEFINE k == KeyOf[r]
             stored == effects[k]
  <1>1. /\ k \in Keys /\ stored \in Seq(Payloads) /\ Len(stored) \in Nat
        /\ chunk[r] \in Nat \ {0} /\ Len(BatchOf[r].chunks) \in Nat
    BY BatchFacts DEF ExecutorInv, ExecutorTypeOK
  <1>2. Stored(r) = {} /\ chunk[r] <= Len(BatchOf[r].chunks)
    BY DEF ExecutorInv, KeyHeld, Placed, InTransaction
  <1>3. ~ (chunk[r] \in 1 .. Len(stored))
    BY <1>1, <1>2 DEF ExecutorInv, PrefixStored, Stored
  <1>4. Len(stored) < chunk[r]
    BY <1>1, <1>3
  <1>5. CASE chunk[r] = 1
    <2>1. Len(stored) = 0
      BY <1>1, <1>4, <1>5
    <2>2. ASSUME NEW e \in ledger, e.key = k PROVE FALSE
      <3>1. e.number \in Nat \ {0} /\ e.number <= Len(stored)
        BY <2>2 DEF ExecutorInv, ExecutorTypeOK, PrefixStored
      <3> QED BY <2>1, <3>1
    <2> QED BY <1>1, <1>2, <1>5, <2>1, <2>2
  <1>6. CASE chunk[r] # 1
    <2>1. chunk[r] - 1 \in 1 .. (chunk[r] - 1)
      BY <1>1, <1>6
    <2>2. Row(r, chunk[r] - 1) \in ledger
      BY <2>1 DEF ExecutorInv, Placed
    <2>3. chunk[r] - 1 <= Len(stored)
      BY <2>2 DEF ExecutorInv, PrefixStored, Row
    <2>4. \A e \in ledger : e.key = k => e.batch = BatchOf[r]
      BY <2>2 DEF ExecutorInv, PrefixStored, Row
    <2> QED BY <1>1, <1>2, <1>4, <2>3, <2>4
  <1> QED BY <1>5, <1>6

LEMMA CommitInv ==
    ASSUME ExecutorInv, NEW r \in Requests, Commit(r)
    PROVE  ExecutorInv'
  <1> DEFINE k == KeyOf[r]
             n == chunk[r]
             chunks == BatchOf[r].chunks
  <1>1. /\ k \in Keys /\ effects[k] \in Seq(Payloads) /\ chunks \in Seq(Payloads)
        /\ n \in Nat \ {0} /\ Len(chunks) \in Nat \ {0} /\ pc[r] = "commit"
        /\ BatchOf[r] \in {BatchOf[q] : q \in Requests}
    BY BatchFacts DEF ExecutorInv, ExecutorTypeOK, Commit
  <1>2. /\ Len(effects[k]) = n - 1 /\ n \in 1 .. Len(chunks)
        /\ \A e \in ledger : e.key = k => e.batch = BatchOf[r]
    BY <1>1, CommitsNext
  <1>3. /\ ledger' = ledger \cup {Row(r, n)}
        /\ effects' = [effects EXCEPT ![k] = Append(effects[k], chunks[n])]
        /\ audits' = [audits EXCEPT ![k] = audits[k] + IF n = 1 THEN 1 ELSE 0]
        /\ NextChunk(r)
    BY DEF Commit, RowOf, Fingerprint, Row, Audited
  <1>4. /\ pc'[r] = IF n = Len(chunks) THEN "answer" ELSE "reserve"
        /\ chunk'[r] = n + 1 /\ Placed(r)'
    BY <1>1, <1>2, <1>3, NextPlaced
  <1>5. \A q \in Requests \ {r} : pc'[q] = pc[q] /\ chunk'[q] = chunk[q]
    BY <1>3 DEF NextChunk, Goto, ExecutorInv, ExecutorTypeOK
  <1>6. /\ \A j \in Keys \ {k} : effects'[j] = effects[j] /\ audits'[j] = audits[j]
        /\ effects'[k] = Append(effects[k], chunks[n])
        /\ audits'[k] = audits[k] + IF n = 1 THEN 1 ELSE 0
    BY <1>1, <1>3 DEF ExecutorInv, ExecutorTypeOK
  <1>7. /\ chunks[n] \in Payloads /\ effects'[k] \in Seq(Payloads)
        /\ Len(effects'[k]) = n /\ effects'[k][n] = chunks[n]
        /\ \A i \in 1 .. (n - 1) : effects'[k][i] = effects[k][i]
    BY <1>1, <1>2, <1>6
  <1>8. ExecutorTypeOK'
    <2>1. pc' \in [Requests -> {"new", "reserve", "answer"} \cup InTransaction \cup Finished]
      BY <1>3 DEF NextChunk, Goto, ExecutorInv, ExecutorTypeOK
    <2>2. chunk' \in [Requests -> Nat \ {0}]
      BY <1>1, <1>3 DEF NextChunk, ExecutorInv, ExecutorTypeOK
    <2>3. Row(r, n) \in [key : Keys, number : Nat \ {0},
                         batch : {BatchOf[q] : q \in Requests}]
      BY <1>1 DEF Row
    <2>4. effects' \in [Keys -> Seq(Payloads)]
      BY <1>1, <1>3, <1>7 DEF ExecutorInv, ExecutorTypeOK
    <2>5. audits' \in [Keys -> Nat]
      BY <1>1, <1>3 DEF ExecutorInv, ExecutorTypeOK
    <2> QED BY <1>3, <2>1, <2>2, <2>3, <2>4, <2>5 DEF ExecutorInv, ExecutorTypeOK
  <1>9. PrefixStored'
    <2>1. ASSUME NEW e \in ledger'
          PROVE  /\ e.number <= Len(effects'[e.key]) /\ e.number <= Len(e.batch.chunks)
                 /\ effects'[e.key][e.number] = e.batch.chunks[e.number]
      <3>1. CASE e = Row(r, n)
        BY <1>2, <1>7, <3>1 DEF Row
      <3>2. CASE e \in ledger
        <4>1. /\ e.number <= Len(effects[e.key]) /\ e.number <= Len(e.batch.chunks)
              /\ effects[e.key][e.number] = e.batch.chunks[e.number]
              /\ e.key \in Keys /\ e.number \in Nat \ {0}
          BY <3>2 DEF ExecutorInv, PrefixStored, ExecutorTypeOK
        <4>2. CASE e.key # k
          BY <1>6, <4>1, <4>2
        <4>3. CASE e.key = k
          <5>1. e.number \in 1 .. (n - 1) /\ e.number <= n
            BY <1>1, <1>2, <4>1, <4>3
          <5> QED BY <1>7, <4>1, <4>3, <5>1
        <4> QED BY <4>2, <4>3
      <3> QED BY <1>3, <3>1, <3>2
    <2>2. \A d, e \in ledger' : d.key = e.key => d.batch = e.batch
      <3>1. Row(r, n).key = k /\ Row(r, n).batch = BatchOf[r]
        BY DEF Row
      <3> QED BY <1>2, <1>3, <3>1 DEF ExecutorInv, PrefixStored
    <2>3. ASSUME NEW j \in Keys, NEW i \in 1 .. Len(effects'[j])
          PROVE  \E e \in ledger' : e.key = j /\ e.number = i
      <3>1. CASE j = k /\ i = n
        <4>1. Row(r, n) \in ledger' /\ Row(r, n).key = j /\ Row(r, n).number = i
          BY <1>3, <3>1 DEF Row
        <4> QED BY <4>1
      <3>2. CASE ~ (j = k /\ i = n)
        <4>1. ASSUME j # k PROVE i \in 1 .. Len(effects[j])
          BY <1>6, <4>1
        <4>2. ASSUME j = k PROVE i \in 1 .. Len(effects[j])
          <5>1. i \in 1 .. n /\ i # n
            BY <1>7, <3>2, <4>2
          <5> QED BY <1>1, <1>2, <4>2, <5>1
        <4>3. i \in 1 .. Len(effects[j])
          BY <4>1, <4>2
        <4> QED BY <1>3, <4>3 DEF ExecutorInv, PrefixStored
      <3> QED BY <3>1, <3>2
    <2> QED BY <2>1, <2>2, <2>3 DEF PrefixStored
  <1>10. AuditedOnce'
    <2>1. effects'[k] # <<>> /\ (effects[k] = <<>> <=> n = 1)
      BY <1>1, <1>2, <1>7
    <2>2. audits[k] = IF effects[k] = <<>> THEN 0 ELSE 1
      BY <1>1 DEF ExecutorInv, AuditedOnce
    <2>3. audits'[k] = 1
      BY <1>6, <2>1, <2>2
    <2> QED BY <1>6, <2>1, <2>3 DEF ExecutorInv, AuditedOnce
  <1>11. ASSUME NEW q \in Requests PROVE Placed(q)' /\ KeyHeld(q)'
    <2>1. CASE q = r
      BY <1>4, <2>1 DEF KeyHeld, InTransaction
    <2>2. CASE q # r
      <3>1. Placed(q)'
        BY <1>3, <1>5, <2>2 DEF ExecutorInv, Placed, Row
      <3>2. ASSUME pc[q] \in InTransaction PROVE Stored(q)' = {} /\ Holders(q)' = {}
        <4>1. Stored(q) = {} /\ Holders(q) = {}
          BY <3>2 DEF ExecutorInv, KeyHeld
        <4>2. ~ (KeyOf[q] = k /\ chunk[q] = n)
          BY <1>1, <2>2, <4>1 DEF Holders, InTransaction
        <4>3. Stored(q)' = Stored(q)
          BY <1>3, <1>5, <2>2, <4>2 DEF Stored, Row
        <4>4. Holders(q)' \subseteq Holders(q)
          BY <1>1, <1>4, <1>5, <2>2 DEF Holders, InTransaction
        <4> QED BY <4>1, <4>3, <4>4
      <3> QED BY <1>5, <2>2, <3>1, <3>2 DEF KeyHeld
    <2> QED BY <2>1, <2>2
  <1> QED BY <1>8, <1>9, <1>10, <1>11 DEF ExecutorInv

LEMMA InvStep == ExecutorInv /\ [ExecutorNext]_executorVars => ExecutorInv'
  <1> SUFFICES ASSUME ExecutorInv, [ExecutorNext]_executorVars PROVE ExecutorInv'
    OBVIOUS
  <1>1. ASSUME NEW r \in Requests, Start(r) \/ Deny(r) \/ Reserve(r) \/ Answer(r) \/ CrashCall(r)
        PROVE  ExecutorInv'
    BY <1>1, CallStays DEF Start, Deny, Reserve, Answer, CrashCall, InTransaction, Finished
  <1>2. ASSUME NEW r \in Requests, Conflict(r) PROVE ExecutorInv'
    BY <1>2, CallStays DEF Conflict, Refuse, InTransaction, Finished
  <1>3. ASSUME NEW r \in Requests, Decide(r) PROVE ExecutorInv'
    <2>1. pc[r] = "decide" /\ Stored(r) = {} /\ Holders(r) = {}
      BY <1>3 DEF Decide, ExecutorInv, KeyHeld, InTransaction
    <2> QED BY <1>3, <2>1, CallStays DEF Decide, Refuse, InTransaction, Finished
  <1>4. CASE UNCHANGED executorVars
    BY <1>4 DEF executorVars, ExecutorInv, ExecutorTypeOK, PrefixStored, Placed, Row,
                KeyHeld, Stored, Holders, AuditedOnce
  <1> QED BY <1>1, <1>2, <1>3, <1>4, ReplayInv, CommitInv DEF ExecutorNext, Work

LEMMA ExecutorInvHolds == ExecutorSpec => []ExecutorInv
  BY InitInv, InvStep, PTL DEF ExecutorSpec

-----------------------------------------------------------------------------
\* RND-2: whatever calls race, crash, are refused or resume, a batch has one
\* audit entry as soon as any of it is stored.
THEOREM AuditedOnceHolds == ExecutorSpec => []AuditedOnce
  <1>1. ExecutorInv => AuditedOnce
    BY DEF ExecutorInv
  <1> QED BY <1>1, ExecutorInvHolds, PTL

\* A call that reports success reports what is stored under its key: all of its
\* batch, in order, each chunk once.
THEOREM SuccessIsStoredHolds == ExecutorSpec => []SuccessIsStored
  <1>1. ExecutorInv => SuccessIsStored
    <2> SUFFICES ASSUME ExecutorInv, NEW r \in Requests, pc[r] = "succeeded"
                 PROVE  effects[KeyOf[r]] = BatchOf[r].chunks
      BY DEF SuccessIsStored
    <2> DEFINE stored == effects[KeyOf[r]]
               chunks == BatchOf[r].chunks
    <2>1. /\ KeyOf[r] \in Keys /\ stored \in Seq(Payloads) /\ chunks \in Seq(Payloads)
          /\ Len(stored) \in Nat /\ Len(chunks) \in Nat \ {0} /\ chunk[r] = Len(chunks) + 1
      BY BatchFacts DEF ExecutorInv, ExecutorTypeOK, Placed
    <2>2. ASSUME NEW n \in 1 .. Len(chunks)
          PROVE  n <= Len(stored) /\ stored[n] = chunks[n]
      <3>1. n \in 1 .. (chunk[r] - 1)
        BY <2>1
      <3>2. Row(r, n) \in ledger
        BY <3>1 DEF ExecutorInv, Placed
      <3> QED BY <3>2 DEF ExecutorInv, PrefixStored, Row
    <2>3. Len(stored) <= Len(chunks)
      <3>1. SUFFICES ASSUME Len(stored) > Len(chunks) PROVE FALSE
        BY <2>1
      <3>2. Len(stored) \in 1 .. Len(stored)
        BY <2>1, <3>1
      <3>3. PICK e \in ledger : e.key = KeyOf[r] /\ e.number = Len(stored)
        BY <2>1, <3>2 DEF ExecutorInv, PrefixStored
      <3>4. Row(r, 1) \in ledger
        BY <2>1 DEF ExecutorInv, Placed
      <3>5. e.batch = BatchOf[r]
        BY <3>3, <3>4 DEF ExecutorInv, PrefixStored, Row
      <3>6. e.number <= Len(chunks)
        BY <3>3, <3>5 DEF ExecutorInv, PrefixStored
      <3> QED BY <2>1, <3>1, <3>3, <3>6
    <2>4. Len(stored) = Len(chunks)
      BY <2>1, <2>2, <2>3
    <2>5. \A n \in 1 .. Len(chunks) : stored[n] = chunks[n]
      BY <2>2
    <2> HIDE DEF stored, chunks
    <2>6. stored = chunks
      BY <2>1, <2>4, <2>5
    <2> QED BY <2>6 DEF stored, chunks
  <1> QED BY <1>1, ExecutorInvHolds, PTL

-----------------------------------------------------------------------------
\* The rows of a key name its owner.
LEMMA OwnerFacts ==
    ASSUME PrefixStored, NEW k \in Keys
    PROVE  /\ (\A e \in ledger : e.key # k) => Owner[k] = NoOwner
           /\ \A e \in ledger : e.key = k => Owner[k] = e.batch
  <1>1. ASSUME \A e \in ledger : e.key # k PROVE Owner[k] = NoOwner
    BY <1>1 DEF Owner
  <1>2. ASSUME NEW e \in ledger, e.key = k PROVE Owner[k] = e.batch
    <2> DEFINE chosen == CHOOSE d \in ledger : d.key = k
    <2>1. chosen \in ledger /\ chosen.key = k
      BY <1>2
    <2>2. chosen.batch = e.batch
      BY <1>2, <2>1 DEF PrefixStored
    <2> QED BY <1>2, <2>2 DEF Owner
  <1> QED BY <1>1, <1>2

\* RND-2: the executor implements the promise of a batch key.  Its commits are
\* the steps of BatchLedger, everything else leaves what is promised alone.
THEOREM KeepsPromiseHolds == ExecutorSpec => KeepsPromise
  <1>1. ExecutorInit => Promise!Init
    <2> SUFFICES ASSUME ExecutorInit PROVE Promise!Init
      OBVIOUS
    <2>1. Owner = [k \in Keys |-> NoOwner]
      BY DEF ExecutorInit, Owner
    <2> QED BY <2>1 DEF ExecutorInit, Promise!Init
  <1>2. ExecutorInv /\ ExecutorInv' /\ [ExecutorNext]_executorVars
          => [Promise!Next]_(Promise!ledgerVars)
    <2> SUFFICES ASSUME ExecutorInv, ExecutorInv', [ExecutorNext]_executorVars
                 PROVE  [Promise!Next]_(Promise!ledgerVars)
      OBVIOUS
    <2>1. ASSUME UNCHANGED <<ledger, effects>> PROVE UNCHANGED Promise!ledgerVars
      BY <2>1 DEF Promise!ledgerVars, Owner
    <2>2. ASSUME NEW r \in Requests, Commit(r) PROVE Promise!Next
      <3> DEFINE k == KeyOf[r]
                 b == BatchOf[r]
      <3>1. k \in Keys /\ b \in {BatchOf[q] : q \in Requests}
        BY BatchFacts
      <3>2. /\ Len(effects[k]) = chunk[r] - 1 /\ chunk[r] \in 1 .. Len(b.chunks)
            /\ \A e \in ledger : e.key = k => e.batch = b
        BY <2>2, CommitsNext DEF Commit
      <3>3. Owner[k] \in {NoOwner, b}
        BY <3>1, <3>2, OwnerFacts DEF ExecutorInv
      <3>4. Len(effects[k]) \in Nat /\ chunk[r] \in Nat /\ Len(b.chunks) \in Nat
        BY <3>1, BatchFacts DEF ExecutorInv, ExecutorTypeOK
      <3>5. /\ Len(effects[k]) < Len(b.chunks)
            /\ effects' = [effects EXCEPT ![k] = Append(@, b.chunks[Len(@) + 1])]
        <4>1. Len(effects[k]) + 1 = chunk[r] /\ Len(effects[k]) < Len(b.chunks)
          BY <3>2, <3>4
        <4>2. effects' = [effects EXCEPT ![k] = Append(effects[k], b.chunks[chunk[r]])]
          BY <2>2 DEF Commit
        <4> HIDE DEF k, b
        <4> QED BY <4>1, <4>2
      <3>6. ledger' = ledger \cup {Row(r, chunk[r])}
        BY <2>2 DEF Commit, RowOf, Fingerprint, Row
      <3>7. Owner'[k] = b
        <4>1. Row(r, chunk[r]) \in ledger' /\ Row(r, chunk[r]).key = k
              /\ Row(r, chunk[r]).batch = b
          BY <3>6 DEF Row
        <4>2. PrefixStored'
          BY DEF ExecutorInv
        <4> DEFINE chosen == CHOOSE d \in ledger' : d.key = k
        <4>3. chosen \in ledger' /\ chosen.key = k
          BY <4>1
        <4>4. chosen.batch = b
          BY <4>1, <4>2, <4>3 DEF PrefixStored
        <4> QED BY <3>1, <4>1, <4>4 DEF Owner
      <3>8. ASSUME NEW j \in Keys, j # k PROVE Owner'[j] = Owner[j]
        <4>1. {e \in ledger' : e.key = j} = {e \in ledger : e.key = j}
          BY <3>6, <3>8 DEF Row
        <4>2. (CHOOSE e \in ledger' : e.key = j) = (CHOOSE e \in ledger : e.key = j)
          BY <4>1
        <4> QED BY <3>1, <4>1, <4>2 DEF Owner
      <3>9. Owner' = [Owner EXCEPT ![k] = b]
        <4>1. DOMAIN Owner' = Keys /\ DOMAIN Owner = Keys
          BY DEF Owner
        <4>2. Owner = [j \in Keys |-> Owner[j]] /\ Owner' = [j \in Keys |-> Owner'[j]]
          BY DEF Owner
        <4> HIDE DEF k, b
        <4> QED BY <3>1, <3>7, <3>8, <4>1, <4>2
      <3>10. Promise!ApplyChunk(k, b)
        BY <3>3, <3>5, <3>9 DEF Promise!ApplyChunk
      <3> HIDE DEF k, b
      <3> QED BY <3>1, <3>10 DEF Promise!Next
    <2> QED BY <2>1, <2>2
         DEF ExecutorNext, Work, Start, Deny, Reserve, Replay, Conflict, Decide, Answer,
             CrashCall, executorVars
  <1> QED BY <1>1, <1>2, ExecutorInvHolds, PTL
       DEF KeepsPromise, Promise!Spec, ExecutorSpec

-----------------------------------------------------------------------------
(* The notifications.                                                       *)

JobRow == [note : Notices, wait : Nat]
RunRow == [note : Notices, stage : {"sending", "accepted", "refused"}]
LogRow == [status : DeliveryStatuses, attempts : Nat]

DeliveryTypes ==
    /\ log \in [Notices -> LogRow]
    /\ jobs \subseteq JobRow
    /\ running \subseteq RunRow
    /\ confirmed \in [Notices -> Nat]

\* A notice has a job, in the queue or in hand, or neither.
Idle(n) == Waiting(n) = {} /\ InHand(n) = {}
Queued(n) == InHand(n) = {} /\ \E j \in jobs : Waiting(n) = {j}
Taken(n) == Waiting(n) = {} /\ \E r \in running : InHand(n) = {r}
Done(n) == log[n].status \in Settled

\* What a notice can be: without a job because it has been settled, was never
\* queued or was stranded, and else with exactly one.  A stranded one is never
\* settled, so nobody can resend it.
Chained(n) ==
    \/ Idle(n) /\ n \in stranded /\ ~Done(n)
    \/ Idle(n) /\ n \notin stranded /\ (Done(n) \/ log[n].status = "none")
    \/ (Queued(n) \/ Taken(n)) /\ n \notin stranded /\ ~Done(n)

\* The provider has confirmed a message that is sent, or whose attempt is in
\* hand or was lost, and no other.
Confirmable(n) ==
    /\ confirmed[n] <= 1
    /\ confirmed[n] = 1 =>
          \/ n \in stranded
          \/ log[n].status = "sent"
          \/ \E r \in running : InHand(n) = {r} /\ r.stage = "accepted"
    /\ log[n].status = "sent" => n \notin stranded

DeliveryInv ==
    /\ DeliveryTypes
    /\ \A n \in Notices : Chained(n) /\ Confirmable(n)

-----------------------------------------------------------------------------
\* A step that leaves the job, the attempts in hand and the log of a notice
\* alone keeps what is said of it.
LEMMA Untouched ==
    ASSUME NEW n \in Notices, Chained(n), Confirmable(n),
           Waiting(n)' = Waiting(n), InHand(n)' = InHand(n),
           log'[n] = log[n], confirmed'[n] = confirmed[n],
           n \in stranded' <=> n \in stranded
    PROVE  Chained(n)' /\ Confirmable(n)'
<1> USE DEF Chained, Confirmable, Idle, Queued, Taken, Done
<1>1. \A j : Waiting(n) = {j} => j \in jobs /\ j \in jobs'
  BY DEF Waiting
<1>2. \A r : InHand(n) = {r} => r \in running /\ r \in running'
  BY DEF InHand
<1> QED BY <1>1, <1>2

\* The job a notice waits with is its only one, and it is in the queue.
LEMMA TakesOnlyJob ==
    ASSUME NEW n \in Notices, Chained(n), NEW j \in Waiting(n)
    PROVE  /\ Waiting(n) = {j} /\ InHand(n) = {}
           /\ n \notin stranded /\ ~Done(n)
BY DEF Chained, Idle, Queued, Taken, Done

LEMMA HasOnlyAttempt ==
    ASSUME NEW n \in Notices, Chained(n), NEW r \in InHand(n)
    PROVE  /\ InHand(n) = {r} /\ Waiting(n) = {}
           /\ n \notin stranded /\ ~Done(n)
BY DEF Chained, Idle, Queued, Taken, Done

\* A step of one notice.
LEMMA OneNotice ==
    ASSUME DeliveryInv, NEW n \in Notices,
           DeliveryTypes', Chained(n)', Confirmable(n)',
           \A m \in Notices \ {n} :
              /\ Waiting(m)' = Waiting(m) /\ InHand(m)' = InHand(m)
              /\ log'[m] = log[m] /\ confirmed'[m] = confirmed[m]
              /\ m \in stranded' <=> m \in stranded
    PROVE  DeliveryInv'
<1>1. \A m \in Notices \ {n} : Chained(m)' /\ Confirmable(m)'
  BY Untouched DEF DeliveryInv
<1> QED BY <1>1 DEF DeliveryInv

\* A fresh job for a notice that has none and is not settled.
LEMMA FreshJob ==
    ASSUME NEW n \in Notices, NEW j, Idle(n), Confirmable(n), n \notin stranded,
           jobs' = jobs \cup {j}, j.note = n, running' = running,
           ~Done(n)', log[n].status # "sent", log'[n].status # "sent",
           UNCHANGED <<confirmed, stranded>>
    PROVE  Chained(n)' /\ Confirmable(n)'
<1>1. Waiting(n)' = {j} /\ InHand(n)' = {}
  BY DEF Idle, Waiting, InHand
<1>2. Queued(n)'
  BY <1>1 DEF Queued
<1>3. confirmed'[n] <= 1 /\ confirmed'[n] # 1
  BY DEF Confirmable, Idle
<1> QED BY <1>2, <1>3 DEF Chained, Confirmable

LEMMA QueueKeeps ==
    ASSUME DeliveryInv, NEW n \in Notices, QueueNotice(n)
    PROVE  DeliveryInv'
<1> DEFINE j == [note |-> n, wait |-> 0]
<1>1. /\ Idle(n) /\ n \notin stranded /\ log[n].status = "none"
      /\ jobs' = jobs \cup {j} /\ UNCHANGED <<log, running, confirmed, stranded>>
  BY DEF QueueNotice, Unused, Idle
<1>2. DeliveryTypes'
  BY <1>1 DEF DeliveryInv, DeliveryTypes, JobRow
<1>3. Chained(n)' /\ Confirmable(n)'
  <2>1. Confirmable(n) /\ ~Done(n)' /\ log[n].status # "sent" /\ log'[n].status # "sent"
    BY <1>1 DEF DeliveryInv, Done, Settled
  <2>2. j.note = n
    OBVIOUS
  <2> HIDE DEF j
  <2> QED BY <1>1, <2>1, <2>2, FreshJob
<1>4. \A m \in Notices \ {n} : Waiting(m)' = Waiting(m) /\ InHand(m)' = InHand(m)
  BY <1>1 DEF Waiting, InHand
<1> QED BY <1>1, <1>2, <1>3, <1>4, OneNotice

LEMMA ResendKeeps ==
    ASSUME DeliveryInv, NEW n \in Notices, Resend(n)
    PROVE  DeliveryInv'
<1> DEFINE j == [note |-> n, wait |-> 0]
<1>1. /\ log[n].status = "dead" /\ jobs' = jobs \cup {j}
      /\ log' = [log EXCEPT ![n] = [status |-> "queued", attempts |-> 0]]
      /\ UNCHANGED <<running, confirmed, stranded>>
  BY DEF Resend, Resendable
<1>2. Idle(n) /\ n \notin stranded
  BY <1>1 DEF DeliveryInv, Chained, Done, Settled
<1>3. log'[n] = [status |-> "queued", attempts |-> 0]
  BY <1>1 DEF DeliveryInv, DeliveryTypes
<1>4. DeliveryTypes'
  BY <1>1 DEF DeliveryInv, DeliveryTypes, JobRow, LogRow, DeliveryStatuses
<1>5. Chained(n)' /\ Confirmable(n)'
  <2>1. Confirmable(n) /\ ~Done(n)' /\ log[n].status # "sent" /\ log'[n].status # "sent"
    BY <1>1, <1>3 DEF DeliveryInv, Done, Settled
  <2>2. j.note = n
    OBVIOUS
  <2> HIDE DEF j
  <2> QED BY <1>1, <1>2, <2>1, <2>2, FreshJob
<1>6. \A m \in Notices \ {n} :
         Waiting(m)' = Waiting(m) /\ InHand(m)' = InHand(m) /\ log'[m] = log[m]
  BY <1>1 DEF Waiting, InHand, DeliveryInv, DeliveryTypes
<1> QED BY <1>1, <1>4, <1>5, <1>6, OneNotice

LEMMA BeginKeeps ==
    ASSUME DeliveryInv, NEW n \in Notices, NEW j \in Waiting(n), BeginDelivery(j)
    PROVE  DeliveryInv'
<1>1. j \in jobs /\ j.note = n /\ jobs' = jobs \ {j} /\ confirmed' = confirmed
  BY DEF Waiting, BeginDelivery
<1>2. Waiting(n) = {j} /\ InHand(n) = {} /\ n \notin stranded /\ ~Done(n)
  BY TakesOnlyJob DEF DeliveryInv
<1>3. Waiting(n)' = {} /\ \A m \in Notices \ {n} : Waiting(m)' = Waiting(m)
  BY <1>1, <1>2 DEF Waiting
<1>4. confirmed[n] <= 1 /\ confirmed[n] # 1
  BY <1>2 DEF DeliveryInv, Confirmable, Done, Settled
<1>5. CASE stranded' = stranded \cup {n} /\ UNCHANGED <<log, running>>
  <2>1. DeliveryTypes'
    BY <1>1, <1>5 DEF DeliveryInv, DeliveryTypes
  <2>2. Idle(n)' /\ n \in stranded' /\ ~Done(n)'
    BY <1>2, <1>3, <1>5 DEF Idle, InHand, Done
  <2>3. Chained(n)' /\ Confirmable(n)'
    BY <1>1, <1>4, <2>2 DEF Chained, Confirmable, Done, Settled
  <2>4. \A m \in Notices : InHand(m)' = InHand(m)
    BY <1>5 DEF InHand
  <2> QED BY <1>1, <1>3, <1>5, <2>1, <2>3, <2>4, OneNotice
<1>6. CASE log' = [log EXCEPT ![n].status = "dead"] /\ UNCHANGED <<running, stranded>>
  <2>1. DeliveryTypes'
    BY <1>1, <1>6 DEF DeliveryInv, DeliveryTypes, LogRow, DeliveryStatuses, Settled
  <2>2. log'[n].status = "dead" /\ \A m \in Notices \ {n} : log'[m] = log[m]
    BY <1>6 DEF DeliveryInv, DeliveryTypes, LogRow
  <2>3. Idle(n)' /\ n \notin stranded' /\ Done(n)'
    BY <1>2, <1>3, <1>6, <2>2 DEF Idle, InHand, Done, Settled
  <2>4. Chained(n)' /\ Confirmable(n)'
    BY <1>1, <1>4, <2>2, <2>3 DEF Chained, Confirmable
  <2>5. \A m \in Notices : InHand(m)' = InHand(m)
    BY <1>6 DEF InHand
  <2> QED BY <1>1, <1>3, <1>6, <2>1, <2>2, <2>4, <2>5, OneNotice
<1>7. CASE /\ log' = [log EXCEPT ![n].status = IF @ = "none" THEN "queued" ELSE @]
           /\ running' = running \cup {[note |-> n, stage |-> "sending"]}
           /\ UNCHANGED stranded
  <2> DEFINE r == [note |-> n, stage |-> "sending"]
  <2>1. DeliveryTypes'
    BY <1>1, <1>7 DEF DeliveryInv, DeliveryTypes, LogRow, RunRow, DeliveryStatuses, Settled
  <2>2. /\ log'[n].status = "queued" \/ log'[n].status = log[n].status
        /\ \A m \in Notices \ {n} : log'[m] = log[m]
    BY <1>7 DEF DeliveryInv, DeliveryTypes, LogRow
  <2>3. InHand(n)' = {r} /\ r \in running'
    BY <1>2, <1>7 DEF InHand
  <2>4. Taken(n)' /\ ~Done(n)' /\ n \notin stranded'
    BY <1>2, <1>3, <1>7, <2>2, <2>3 DEF Taken, Done, Settled
  <2>5. Chained(n)' /\ Confirmable(n)'
    BY <1>1, <1>4, <2>4 DEF Chained, Confirmable, Done, Settled
  <2>6. \A m \in Notices \ {n} : InHand(m)' = InHand(m)
    BY <1>7 DEF InHand
  <2> QED BY <1>1, <1>3, <1>7, <2>1, <2>2, <2>5, <2>6, OneNotice
<1> QED BY <1>1, <1>2, <1>5, <1>6, <1>7 DEF BeginDelivery, Done

LEMMA SendKeeps ==
    ASSUME DeliveryInv, NEW n \in Notices, NEW r \in InHand(n),
           NEW stage \in {"accepted", "refused"}, Send(r, stage)
    PROVE  DeliveryInv'
<1> DEFINE answered == [r EXCEPT !.stage = stage]
<1>1. /\ r \in running /\ r.note = n /\ r.stage = "sending"
      /\ running' = (running \ {r}) \cup {answered}
      /\ confirmed' = [confirmed EXCEPT ![r.note] = @ + IF stage = "accepted" THEN 1 ELSE 0]
      /\ UNCHANGED <<log, jobs, stranded>>
  BY DEF InHand, Send
<1>2. InHand(n) = {r} /\ Waiting(n) = {} /\ n \notin stranded /\ ~Done(n)
  BY HasOnlyAttempt DEF DeliveryInv
<1>3. answered \in RunRow /\ answered.note = n /\ answered.stage = stage
  BY <1>1 DEF DeliveryInv, DeliveryTypes, RunRow
<1>4. confirmed[n] = 0 /\ confirmed'[n] = IF stage = "accepted" THEN 1 ELSE 0
  BY <1>1, <1>2 DEF DeliveryInv, DeliveryTypes, Confirmable, Done, Settled
<1>5. confirmed' \in [Notices -> Nat] /\ \A m \in Notices \ {n} : confirmed'[m] = confirmed[m]
  BY <1>1 DEF DeliveryInv, DeliveryTypes
<1> HIDE DEF answered
<1>6. DeliveryTypes'
  BY <1>1, <1>3, <1>5 DEF DeliveryInv, DeliveryTypes
<1>7. InHand(n)' = {answered} /\ \A m \in Notices \ {n} : InHand(m)' = InHand(m)
  BY <1>1, <1>2, <1>3 DEF InHand
<1>8. \A m \in Notices : Waiting(m)' = Waiting(m)
  BY <1>1 DEF Waiting
<1>9. Taken(n)' /\ answered \in running'
  BY <1>1, <1>2, <1>7, <1>8 DEF Taken
<1>10. Chained(n)'
  BY <1>1, <1>2, <1>9 DEF Chained, Done
<1>11. Confirmable(n)'
  BY <1>1, <1>2, <1>3, <1>4, <1>7, <1>9 DEF Confirmable, Done, Settled
<1> QED BY <1>1, <1>5, <1>6, <1>7, <1>8, <1>10, <1>11, OneNotice

\* A failed attempt leaves its notice dead, or failed with one retry queued.
LEMMA FailureOutcome ==
    ASSUME NEW n \in Notices, NEW attempts \in Nat \ {0}
    PROVE  \/ AfterFailure(n, attempts) = <<"dead", {}>>
           \/ \E j \in JobRow : j.note = n /\ AfterFailure(n, attempts) = <<"failed", {j}>>
<1>1. CASE attempts >= MaxAttempts
  BY <1>1 DEF AfterFailure
<1>2. CASE ~(attempts >= MaxAttempts)
  <2>1. Len(RetryDelays) \in Nat /\ \A i \in 1 .. Len(RetryDelays) : RetryDelays[i] \in Nat
    BY NotificationAssumption
  <2>2. attempts \in 1 .. Len(RetryDelays)
    BY <1>2, <2>1 DEF MaxAttempts
  <2>3. [note |-> n, wait |-> RetryDelays[attempts]] \in JobRow
    BY <2>1, <2>2 DEF JobRow
  <2> QED BY <1>2, <2>3 DEF AfterFailure
<1> QED BY <1>1, <1>2

LEMMA RecordKeeps ==
    ASSUME DeliveryInv, NEW n \in Notices, NEW r \in InHand(n), RecordAttempt(r)
    PROVE  DeliveryInv'
<1> DEFINE attempts == log[n].attempts + 1
           next == IF r.stage = "accepted" THEN <<"sent", {}>> ELSE AfterFailure(n, attempts)
<1>1. /\ r \in running /\ r.note = n /\ running' = running \ {r}
      /\ UNCHANGED <<confirmed, stranded>>
  BY DEF InHand, RecordAttempt
<1>2. InHand(n) = {r} /\ Waiting(n) = {} /\ n \notin stranded /\ ~Done(n)
  BY HasOnlyAttempt DEF DeliveryInv
<1>3. /\ log' = [log EXCEPT ![n] = [status |-> next[1], attempts |-> attempts]]
      /\ jobs' = jobs \cup next[2]
  BY <1>1, <1>2 DEF RecordAttempt, Done
<1>4. attempts \in Nat \ {0}
  BY DEF DeliveryInv, DeliveryTypes, LogRow
<1>5. InHand(n)' = {} /\ \A m \in Notices \ {n} : InHand(m)' = InHand(m)
  BY <1>1, <1>2 DEF InHand
<1>6. confirmed[n] <= 1 /\ (confirmed[n] = 1 => r.stage = "accepted")
  BY <1>2 DEF DeliveryInv, Confirmable, Done, Settled
<1>7. CASE r.stage = "accepted" \/ next = <<"dead", {}>>
  <2>1. next[2] = {} /\ next[1] \in {"sent", "dead"} /\ (r.stage = "accepted" => next[1] = "sent")
    BY <1>7
  <2> HIDE DEF next, attempts
  <2>2. log' \in [Notices -> LogRow] /\ log'[n].status = next[1]
    BY <1>3, <1>4, <2>1 DEF DeliveryInv, DeliveryTypes, LogRow, DeliveryStatuses, Settled
  <2>3. \A m \in Notices \ {n} : log'[m] = log[m]
    BY <1>3 DEF DeliveryInv, DeliveryTypes
  <2>4. jobs' = jobs
    BY <1>3, <2>1
  <2>5. DeliveryTypes'
    BY <1>1, <2>2, <2>4 DEF DeliveryInv, DeliveryTypes
  <2>6. \A m \in Notices : Waiting(m)' = Waiting(m)
    BY <2>4 DEF Waiting
  <2>7. Chained(n)' /\ Confirmable(n)'
    BY <1>1, <1>2, <1>5, <1>6, <2>1, <2>2, <2>6
       DEF Chained, Confirmable, Idle, Done, Settled
  <2> QED BY <1>1, <1>5, <2>3, <2>5, <2>6, <2>7, OneNotice
<1>8. ASSUME r.stage # "accepted", NEW j \in JobRow, j.note = n, next = <<"failed", {j}>>
      PROVE  DeliveryInv'
  <2>1. next[2] = {j} /\ next[1] = "failed"
    BY <1>8
  <2> HIDE DEF next, attempts
  <2>2. log' \in [Notices -> LogRow] /\ log'[n].status = "failed"
    BY <1>3, <1>4, <2>1 DEF DeliveryInv, DeliveryTypes, LogRow, DeliveryStatuses, Settled
  <2>3. \A m \in Notices \ {n} : log'[m] = log[m]
    BY <1>3 DEF DeliveryInv, DeliveryTypes
  <2>4. jobs' = jobs \cup {j}
    BY <1>3, <2>1
  <2>5. DeliveryTypes'
    BY <1>1, <1>8, <2>2, <2>4 DEF DeliveryInv, DeliveryTypes
  <2>6. Waiting(n)' = {j} /\ \A m \in Notices \ {n} : Waiting(m)' = Waiting(m)
    BY <1>2, <1>8, <2>4 DEF Waiting
  <2>7. Queued(n)' /\ ~Done(n)' /\ n \notin stranded'
    BY <1>1, <1>2, <1>5, <2>2, <2>4, <2>6 DEF Queued, Done, Settled
  <2>8. Chained(n)' /\ Confirmable(n)'
    BY <1>1, <1>6, <1>8, <2>2, <2>7 DEF Chained, Confirmable, DeliveryInv, DeliveryTypes
  <2> QED BY <1>1, <1>5, <2>3, <2>5, <2>6, <2>8, OneNotice
<1> QED BY <1>4, <1>7, <1>8, FailureOutcome

LEMMA CrashKeeps ==
    ASSUME DeliveryInv, NEW r \in running, Crash(r)
    PROVE  DeliveryInv'
<1> DEFINE n == r.note
<1>1. n \in Notices /\ r \in InHand(n)
  BY DEF InHand, DeliveryInv, DeliveryTypes, RunRow
<1>2. running' = running \ {r} /\ stranded' = stranded \cup {n} /\ UNCHANGED <<log, jobs, confirmed>>
  BY DEF Crash
<1>3. InHand(n) = {r} /\ Waiting(n) = {} /\ ~Done(n)
  BY <1>1, HasOnlyAttempt DEF DeliveryInv
<1>4. InHand(n)' = {} /\ \A m \in Notices \ {n} : InHand(m)' = InHand(m)
  BY <1>2, <1>3 DEF InHand
<1>5. \A m \in Notices : Waiting(m)' = Waiting(m)
  BY <1>2 DEF Waiting
<1>6. DeliveryTypes'
  BY <1>2 DEF DeliveryInv, DeliveryTypes
<1>7. Chained(n)' /\ Confirmable(n)'
  BY <1>1, <1>2, <1>3, <1>4, <1>5 DEF DeliveryInv, Chained, Confirmable, Idle, Done, Settled
<1> QED BY <1>1, <1>2, <1>4, <1>5, <1>6, <1>7, OneNotice

\* Reminders: every notice they take was unused, and gets one job.
LEMMA RemindKeeps ==
    ASSUME DeliveryInv, NEW age, SendDeadlineReminders(age)
    PROVE  DeliveryInv'
<1> DEFINE hits == {t \in Targets : Remindable(t, age)}
           job(n) == [note |-> n, wait |-> 0]
<1>1. /\ \E note \in [hits -> Unused] : jobs' = jobs \cup {job(note[t]) : t \in hits}
      /\ UNCHANGED <<log, running, confirmed, stranded>>
  BY DEF SendDeadlineReminders
<1>2. PICK note \in [hits -> Unused] : jobs' = jobs \cup {job(note[t]) : t \in hits}
  BY <1>1
<1>3. \A t \in hits : note[t] \in Notices /\ job(note[t]) \in JobRow
  BY <1>2 DEF Unused, JobRow
<1>4. DeliveryTypes'
  BY <1>1, <1>2, <1>3 DEF DeliveryInv, DeliveryTypes
<1>5. \A n \in Notices : InHand(n)' = InHand(n)
  BY <1>1 DEF InHand
<1> HIDE DEF hits
<1>6. ASSUME NEW n \in Notices, \E t \in hits : note[t] = n
      PROVE  Chained(n)' /\ Confirmable(n)'
  <2>1. Idle(n) /\ n \notin stranded /\ log[n].status = "none"
    BY <1>2, <1>6 DEF Unused, Idle
  <2>2. Waiting(n)' = {job(n)} /\ job(n) \in jobs'
    BY <1>2, <1>6, <2>1 DEF Idle, Waiting
  <2>3. Queued(n)' /\ ~Done(n)' /\ n \notin stranded'
    BY <1>1, <1>5, <2>1, <2>2 DEF Idle, Queued, Done, Settled
  <2>4. confirmed[n] <= 1 /\ confirmed[n] # 1
    BY <2>1 DEF DeliveryInv, Confirmable, Idle
  <2> QED BY <1>1, <2>1, <2>3, <2>4 DEF Chained, Confirmable
<1>7. ASSUME NEW n \in Notices, ~ \E t \in hits : note[t] = n
      PROVE  Chained(n)' /\ Confirmable(n)'
  <2>1. Waiting(n)' = Waiting(n)
    BY <1>2, <1>7 DEF Waiting
  <2> QED BY <1>1, <1>5, <2>1, Untouched DEF DeliveryInv
<1> QED BY <1>4, <1>6, <1>7 DEF DeliveryInv

\* The clock brings every job nearer and merges none: a notice has only one.
LEMMA TickKeeps ==
    ASSUME DeliveryInv, Tick
    PROVE  DeliveryInv'
<1> DEFINE nearer(j) == [j EXCEPT !.wait = Closer(@)]
<1>1. jobs' = {nearer(j) : j \in jobs} /\ UNCHANGED <<log, running, confirmed, stranded>>
  BY DEF Tick
<1>2. \A j \in jobs : nearer(j) \in JobRow /\ nearer(j).note = j.note
  BY DEF DeliveryInv, DeliveryTypes, JobRow, Closer
<1> HIDE DEF nearer
<1>3. DeliveryTypes'
  BY <1>1, <1>2 DEF DeliveryInv, DeliveryTypes
<1>4. ASSUME NEW n \in Notices
      PROVE  Chained(n)' /\ Confirmable(n)'
  <2>1. InHand(n)' = InHand(n) /\ Waiting(n)' = {nearer(j) : j \in Waiting(n)}
    BY <1>1, <1>2 DEF InHand, Waiting
  <2>2. CASE Waiting(n) = {}
    BY <1>1, <2>1, <2>2, Untouched DEF DeliveryInv
  <2>3. CASE Waiting(n) # {}
    <3>1. PICK j \in Waiting(n) : Waiting(n) = {j} /\ InHand(n) = {} /\ n \notin stranded /\ ~Done(n)
      BY <2>3, TakesOnlyJob DEF DeliveryInv
    <3>2. Waiting(n)' = {nearer(j)} /\ nearer(j) \in jobs'
      BY <1>1, <2>1, <3>1 DEF Waiting
    <3>3. Queued(n)' /\ ~Done(n)' /\ n \notin stranded'
      BY <1>1, <2>1, <3>1, <3>2 DEF Queued, Done
    <3>4. Confirmable(n)'
      BY <1>1, <2>1, <3>1 DEF DeliveryInv, Confirmable
    <3> QED BY <3>3, <3>4 DEF Chained
  <2> QED BY <2>2, <2>3
<1> QED BY <1>3, <1>4 DEF DeliveryInv

LEMMA DeliveryStarts ==
    ASSUME NoticeInit
    PROVE  DeliveryInv
BY DEF NoticeInit, DeliveryInv, DeliveryTypes, LogRow, DeliveryStatuses, Settled,
       Chained, Confirmable, Idle, Waiting, InHand, Done

LEMMA DeliveryStep ==
    ASSUME DeliveryInv, [NoticeNext]_noticeVars
    PROVE  DeliveryInv'
<1>1. ASSUME UNCHANGED deliveryVars
      PROVE  DeliveryInv'
  <2>1. UNCHANGED <<log, jobs, running, confirmed, stranded>>
    BY <1>1 DEF deliveryVars
  <2>2. \A n \in Notices : Waiting(n)' = Waiting(n) /\ InHand(n)' = InHand(n)
    BY <2>1 DEF Waiting, InHand
  <2> QED BY <2>1, <2>2, Untouched DEF DeliveryInv, DeliveryTypes
<1>2. CASE StaffStep
  <2>1. \A scope \in Scopes, enabled \in {"on", "off"} :
           UpdateTemplate(scope, enabled) => UNCHANGED deliveryVars
    BY DEF UpdateTemplate
  <2>2. \A t \in Targets : /\ ChangeInterest(t) => UNCHANGED deliveryVars
                           /\ \A d \in 0..MaxLeft : MoveDeadline(t, d) => UNCHANGED deliveryVars
    BY DEF ChangeInterest, MoveDeadline
  <2> QED BY <1>1, <1>2, <2>1, <2>2, QueueKeeps, ResendKeeps DEF StaffStep
<1>3. CASE \E n \in Notices : WorkOn(n)
  BY <1>3, BeginKeeps, RecordKeeps, SendKeeps DEF WorkOn
<1>4. CASE \E r \in running : Crash(r)
  BY <1>4, CrashKeeps
<1>5. CASE \E age \in scans : SendDeadlineReminders(age)
  BY <1>5, RemindKeeps
<1>6. CASE \E old \in SUBSET Targets : PurgeMarks(old)
  BY <1>1, <1>6 DEF PurgeMarks
<1>7. CASE Tick
  BY <1>7, TickKeeps
<1>8. CASE UNCHANGED noticeVars
  BY <1>1, <1>8 DEF noticeVars
<1> QED BY <1>2, <1>3, <1>4, <1>5, <1>6, <1>7, <1>8 DEF NoticeNext

\* Every notice keeps its chain of at most one job, and its one confirmation.
THEOREM DeliveryInvHolds == NoticeSpec => []DeliveryInv
<1>1. NoticeInit => DeliveryInv
  BY DeliveryStarts
<1>2. DeliveryInv /\ [NoticeNext]_noticeVars => DeliveryInv'
  BY DeliveryStep
<1> QED BY <1>1, <1>2, PTL DEF NoticeSpec

\* However many notices there are, and whatever retries, resends and crashes
\* they go through, the provider confirms each at most once.
THEOREM ConfirmedOnceHolds == NoticeSpec => []ConfirmedOnce
<1>1. DeliveryInv => ConfirmedOnce
  BY DEF DeliveryInv, Confirmable, ConfirmedOnce
<1> QED BY <1>1, DeliveryInvHolds, PTL

\* An unsettled notice that was not stranded has exactly one job, a settled one
\* none, for every schedule of retries.
THEOREM OneChainOfJobsHolds == NoticeSpec => []OneChainOfJobs
<1>1. ASSUME DeliveryInv, NEW n \in Notices \ (stranded \cup Unused)
      PROVE  Cardinality(Waiting(n)) + Cardinality(InHand(n)) = IF Done(n) THEN 0 ELSE 1
  <2>1. Cardinality({}) = 0 /\ \A x : Cardinality({x}) = 1
    BY FS_EmptySet, FS_Singleton
  <2>2. CASE Idle(n)
    <3>1. Done(n)
      BY <1>1, <2>2 DEF DeliveryInv, Chained, Unused, Idle, Queued, Taken
    <3> QED BY <2>1, <2>2, <3>1 DEF Idle
  <2>3. CASE ~Idle(n)
    <3>1. ~Done(n) /\ (Queued(n) \/ Taken(n))
      BY <1>1, <2>3 DEF DeliveryInv, Chained
    <3>2. CASE Queued(n)
      <4>1. PICK j \in jobs : Waiting(n) = {j} /\ InHand(n) = {}
        BY <3>2 DEF Queued
      <4>2. Cardinality(Waiting(n)) = 1 /\ Cardinality(InHand(n)) = 0
        BY <2>1, <4>1, Zenon
      <4> QED BY <3>1, <4>2
    <3>3. CASE Taken(n)
      <4>1. PICK r \in running : Waiting(n) = {} /\ InHand(n) = {r}
        BY <3>3 DEF Taken
      <4>2. Cardinality(Waiting(n)) = 0 /\ Cardinality(InHand(n)) = 1
        BY <2>1, <4>1, Zenon
      <4> QED BY <3>1, <4>2
    <3> QED BY <3>1, <3>2, <3>3
  <2> QED BY <2>2, <2>3
<1>2. DeliveryInv => OneChainOfJobs
  BY <1>1 DEF OneChainOfJobs, Done
<1> QED BY <1>2, DeliveryInvHolds, PTL

-----------------------------------------------------------------------------
\* A reminder younger than the retention of its marker still has that marker,
\* of its own age: nothing but the purge of old markers removes one.
ReminderInv ==
    /\ marks \in [Targets -> Int]
    /\ reminds \subseteq [note : Notices, target : Targets, age : Nat]
    /\ \A m \in reminds : /\ m.age <= Retention
                          /\ m.age # Retention => marks[m.target] = m.age
    /\ RemindedOnce

LEMMA RemindersStart ==
    ASSUME NoticeInit
    PROVE  ReminderInv
BY DEF NoticeInit, ReminderInv, RemindedOnce, NoMark

\* A scan reminds only of targets without a marker, whose reminders so far are
\* all past the retention, and gives each of them one reminder.
LEMMA RemindersSent ==
    ASSUME ReminderInv, NEW age, SendDeadlineReminders(age)
    PROVE  ReminderInv'
<1> DEFINE hits == {t \in Targets : Remindable(t, age)}
           fresh(note, t) == [note |-> note[t], target |-> t, age |-> 0]
<1>1. PICK note \in [hits -> Unused] : reminds' = reminds \cup {fresh(note, t) : t \in hits}
  BY DEF SendDeadlineReminders
<1>2. marks' = [t \in Targets |-> IF t \in hits THEN 0 ELSE marks[t]]
  BY DEF SendDeadlineReminders
<1>3. Retention \in Nat \ {0} /\ \A t \in hits : t \in Targets /\ marks[t] = -1 /\ note[t] \in Notices
  BY <1>1, NotificationAssumption DEF Remindable, NoMark, Unused
<1> HIDE DEF hits
<1>4. \A m \in reminds : m.target \in hits => m.age = Retention
  BY <1>3 DEF ReminderInv
<1>5. \A m \in reminds' \ reminds : \E t \in hits : m = fresh(note, t)
  BY <1>1
<1>6. marks' \in [Targets -> Int]
  BY <1>2 DEF ReminderInv
<1>7. reminds' \subseteq [note : Notices, target : Targets, age : Nat]
  BY <1>1, <1>3 DEF ReminderInv
<1>8. \A m \in reminds' : m.age <= Retention /\ (m.age # Retention => marks'[m.target] = m.age)
  <2>1. SUFFICES ASSUME NEW m \in reminds'
                 PROVE  m.age <= Retention /\ (m.age # Retention => marks'[m.target] = m.age)
    OBVIOUS
  <2>2. CASE m \in reminds
    BY <1>2, <1>4, <2>2 DEF ReminderInv
  <2>3. CASE m \notin reminds
    BY <1>2, <1>3, <1>5, <2>3
  <2> QED BY <2>2, <2>3
<1>9. RemindedOnce'
  <2>1. SUFFICES ASSUME NEW m \in reminds', NEW n \in reminds', m.note # n.note, m.target = n.target
                 PROVE  m.age = Retention \/ n.age = Retention
    BY DEF RemindedOnce
  <2>2. CASE m \in reminds /\ n \in reminds
    BY <2>1, <2>2 DEF ReminderInv, RemindedOnce
  <2>3. CASE m \notin reminds /\ n \notin reminds
    BY <1>5, <2>1, <2>3
  <2>4. CASE m \in reminds /\ n \notin reminds
    BY <1>4, <1>5, <2>1, <2>4
  <2>5. CASE m \notin reminds /\ n \in reminds
    BY <1>4, <1>5, <2>1, <2>5
  <2> QED BY <2>2, <2>3, <2>4, <2>5
<1> QED BY <1>6, <1>7, <1>8, <1>9 DEF ReminderInv

\* Markers and reminders age together, up to the retention.
LEMMA RemindersAge ==
    ASSUME ReminderInv, Tick
    PROVE  ReminderInv'
<1> DEFINE older(m) == [m EXCEPT !.age = IF @ = Retention THEN @ ELSE @ + 1]
<1>1. /\ marks' = [t \in Targets |-> IF marks[t] \in {NoMark, Retention} THEN marks[t]
                                     ELSE marks[t] + 1]
      /\ reminds' = {older(m) : m \in reminds}
  BY DEF Tick
<1>2. Retention \in Nat \ {0}
  BY NotificationAssumption
<1>3. ASSUME NEW m \in reminds
      PROVE  /\ older(m) \in [note : Notices, target : Targets, age : Nat]
             /\ older(m).note = m.note /\ older(m).target = m.target
             /\ older(m).age = IF m.age = Retention THEN m.age ELSE m.age + 1
  BY DEF ReminderInv
<1> HIDE DEF older
<1>4. ASSUME NEW m \in reminds
      PROVE  /\ older(m).age <= Retention
             /\ older(m).age # Retention => marks'[older(m).target] = older(m).age
  <2>1. m.age \in Nat /\ m.age <= Retention /\ m.target \in Targets /\ marks[m.target] \in Int
    BY DEF ReminderInv
  <2>2. CASE m.age = Retention
    BY <1>2, <1>3, <2>2
  <2>3. CASE m.age # Retention
    <3>1. marks[m.target] = m.age
      BY <2>3 DEF ReminderInv
    <3>2. marks'[m.target] = m.age + 1
      BY <1>1, <2>1, <2>3, <3>1 DEF NoMark
    <3> QED BY <1>2, <1>3, <2>1, <2>3, <3>2
  <2> QED BY <2>2, <2>3
<1>5. marks' \in [Targets -> Int]
  BY <1>1 DEF ReminderInv
<1>6. RemindedOnce'
  BY <1>1, <1>3 DEF ReminderInv, RemindedOnce
<1> QED BY <1>1, <1>3, <1>4, <1>5, <1>6 DEF ReminderInv

LEMMA RemindersStep ==
    ASSUME ReminderInv, [NoticeNext]_noticeVars
    PROVE  ReminderInv'
<1>1. CASE \E age \in scans : SendDeadlineReminders(age)
  BY <1>1, RemindersSent
<1>2. CASE Tick
  BY <1>2, RemindersAge
<1>3. CASE \E old \in SUBSET Targets : PurgeMarks(old)
  <2>1. PICK old \in SUBSET Targets :
           /\ old \subseteq {t \in Targets : marks[t] = Retention}
           /\ marks' = [t \in Targets |-> IF t \in old THEN NoMark ELSE marks[t]]
           /\ reminds' = reminds
    BY <1>3 DEF PurgeMarks
  <2>2. \A m \in reminds : m.age # Retention => marks'[m.target] = marks[m.target]
    BY <2>1 DEF ReminderInv
  <2> QED BY <2>1, <2>2 DEF ReminderInv, RemindedOnce, NoMark
<1>4. ASSUME UNCHANGED <<marks, reminds>>
      PROVE  ReminderInv'
  BY <1>4 DEF ReminderInv, RemindedOnce
<1>5. CASE StaffStep
  <2>1. UNCHANGED <<marks, reminds>>
    BY <1>5 DEF StaffStep, QueueNotice, Resend, UpdateTemplate, ChangeInterest, MoveDeadline,
                reminderVars
  <2> QED BY <1>4, <2>1
<1>6. CASE \E n \in Notices : WorkOn(n)
  <2>1. UNCHANGED <<marks, reminds>>
    BY <1>6 DEF WorkOn, BeginDelivery, Send, RecordAttempt, reminderVars
  <2> QED BY <1>4, <2>1
<1>7. CASE \E r \in running : Crash(r)
  BY <1>4, <1>7 DEF Crash, reminderVars
<1>8. CASE UNCHANGED noticeVars
  BY <1>4, <1>8 DEF noticeVars, reminderVars
<1> QED BY <1>1, <1>2, <1>3, <1>5, <1>6, <1>7, <1>8 DEF NoticeNext

\* However staff move deadlines and whatever markers the purge takes, a student
\* gets one reminder of a job within the retention of its marker.
THEOREM RemindedOnceHolds == NoticeSpec => []RemindedOnce
<1>1. NoticeInit => ReminderInv
  BY RemindersStart
<1>2. ReminderInv /\ [NoticeNext]_noticeVars => ReminderInv'
  BY RemindersStep
<1>3. ReminderInv => RemindedOnce
  BY DEF ReminderInv
<1> QED BY <1>1, <1>2, <1>3, PTL DEF NoticeSpec
=============================================================================
