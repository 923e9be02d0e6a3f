-------------------------- MODULE MCExpiryStartup --------------------------
(***************************************************************************)
(* The start of a node on the tree of MCTree.                              *)
(***************************************************************************)
EXTENDS ExpiryStartup, MCTree

Honest(b) == [version |-> CommitmentVersion, root |-> Root(ExpirySet(ViewAt(Parent[b])))]

\* The blocks x2, x3 and y3 carry none.
MCCommitment ==
    [b \in MCBlock |->
        IF b \in {"g0", "a1", "x2", "x3", "y3"} THEN <<>> ELSE <<Honest(b)>>]
=============================================================================
