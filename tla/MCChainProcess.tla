--------------------------- MODULE MCChainProcess ---------------------------
(***************************************************************************)
(* A tree on the genesis block g: two branches a1 a2 a3 and b1 b2 b3 from  *)
(* the genesis block, and a block c2 on a1.  A configuration takes the     *)
(* blocks it needs.                                                        *)
(***************************************************************************)
EXTENDS ChainProcess

CONSTANTS g, a1, a2, a3, b1, b2, b3, c2

MCParent ==
    [b \in Block |-> CASE b = g -> None
                       [] b \in {a1, b1} -> g
                       [] b \in {a2, c2} -> a1
                       [] b = a3 -> a2
                       [] b = b2 -> b1
                       [] b = b3 -> b2]

MCPath ==
    [b \in Block |-> CASE b = g -> <<g>>
                       [] b = a1 -> <<g, a1>>
                       [] b = a2 -> <<g, a1, a2>>
                       [] b = a3 -> <<g, a1, a2, a3>>
                       [] b = c2 -> <<g, a1, c2>>
                       [] b = b1 -> <<g, b1>>
                       [] b = b2 -> <<g, b1, b2>>
                       [] b = b3 -> <<g, b1, b2, b3>>]

MCWork ==
    [b \in Block |-> CASE b = g -> 0
                       [] b \in {a1, b1} -> 1
                       [] b \in {a2, b2, c2} -> 2
                       [] b \in {a3, b3} -> 3]
=============================================================================
