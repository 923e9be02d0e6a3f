---------------------------- MODULE MCUtxoCache ----------------------------
(***************************************************************************)
(* The cache of unspent outputs on the tree of MCTree.                     *)
(***************************************************************************)
EXTENDS UtxoCache, MCTree

\* Outputs that are created, spent in a later or in the same block, created at
\* two heights on two branches, and a coinbase output of one branch.
MCLooked == {"c1", "t", "s", "d2"}

MCAncestors[b \in MCBlock] ==
    {b} \cup (IF b = "g0" THEN {} ELSE MCAncestors[MCParent[b]])
=============================================================================
