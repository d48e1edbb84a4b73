----------------------------- MODULE BatchLedger -----------------------------
(***************************************************************************)
(* What a batch key promises its clients (LLD section 5, RND-2): the first *)
(* batch whose work is stored under the key owns it for good, and the      *)
(* chunks of that batch take effect one after the other, each once,        *)
(* whatever is resubmitted, interrupted or raced.                          *)
(***************************************************************************)
EXTENDS Naturals, Sequences

CONSTANTS Keys,     \* batch keys
          Batches,  \* what a client may submit: who it is and the chunks it sends
          Unowned   \* a value that is no batch

VARIABLES owner,    \* key -> the batch it belongs to
          effects   \* key -> the chunks that took effect, oldest first

ledgerVars == <<owner, effects>>

Init ==
    /\ owner = [k \in Keys |-> Unowned]
    /\ effects = [k \in Keys |-> <<>>]

\* The next chunk of the batch that owns `k`, or the first chunk of any.
ApplyChunk(k, b) ==
    /\ owner[k] \in {Unowned, b}
    /\ Len(effects[k]) < Len(b.chunks)
    /\ effects' = [effects EXCEPT ![k] = Append(@, b.chunks[Len(@) + 1])]
    /\ owner' = [owner EXCEPT ![k] = b]

Next == \E k \in Keys, b \in Batches : ApplyChunk(k, b)

Spec == Init /\ [][Next]_ledgerVars
=============================================================================
