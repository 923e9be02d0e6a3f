--------------------------- MODULE MCExpiryIndex ---------------------------
(***************************************************************************)
(* The expiry index on the tree of MCTree.                                 *)
(***************************************************************************)
EXTENDS ExpiryIndex, MCTree

\* The commitment a miner on this tip would write.
Honest(b) == [version |-> CommitmentVersion, root |-> Root(ExpirySet(ViewAt(Parent[b])))]

\* x2 commits to the state after a2 instead of the state before.
MCCommitment ==
    [b \in MCBlock |->
        CASE b \in {"g0", "a1", "y3"} -> <<>>
          [] b = "x2" -> <<[Honest(b) EXCEPT !.root = Root(ExpirySet(ViewAt("a2")))]>>
          [] b = "x3" -> <<Honest(b), Honest(b)>>
          [] OTHER -> <<Honest(b)>>]
=============================================================================
