-------------------------- MODULE ExpiryIndexSpec --------------------------
(***************************************************************************)
(* What the expiry index promises to mining, to REAP validation and to the *)
(* scan RPC: it stands at a block, holds the expiry heights of exactly the *)
(* outputs that are unspent at that block, and its root commits to them.   *)
(* It moves one block at a time, forwards only past a block whose          *)
(* commitment is right for the state the index holds.                      *)
(***************************************************************************)
EXTENDS ExpiryBuckets

VARIABLES tip, content, root

\* The index is at block b.
At(b) == /\ tip = b
         /\ content = ExpirySet(ViewAt(b))
         /\ root = Root(ExpirySet(ViewAt(b)))

Init == At(NoBlock)

ConnectBlock(b) ==
    /\ Parent[b] = tip
    /\ IsIndexingEnabled(Height[b]) => validateExpiryCommitment(b, root)
    /\ At(b)'

DisconnectBlock ==
    /\ tip \notin {NoBlock, Genesis}
    /\ \E b \in Block : b = Parent[tip] /\ At(b)'

Next == DisconnectBlock \/ \E b \in Block : ConnectBlock(b)

Spec == Init /\ [][Next]_<<tip, content, root>>
=============================================================================
