------------------------------- MODULE MCTree -------------------------------
(***************************************************************************)
(* A small block tree for model checking.                                  *)
(*                                                                         *)
(*   g0 - a1 - a2 - a3          a2, a3 and b2, b3 are the two branches     *)
(*          \    \ x3           x2, x3, y3 carry a bad expiry commitment:  *)
(*           \ b2 - b3          wrong root, duplicate and missing          *)
(*           \    \ y3                                                     *)
(*            x2                                                           *)
(*                                                                         *)
(* Transaction T (c1 -> t) is in a2 and in b3, so t is created at height 2 *)
(* on one branch and at height 3 on the other.  Transaction S (t -> s) is  *)
(* in a3, a block after T, and in b3, in the same block as T.  Output u of *)
(* the coinbase of a2 is provably unspendable.                             *)
(***************************************************************************)
EXTENDS Integers, Sequences

MCBlock == {"g0", "a1", "a2", "a3", "b2", "b3", "x2", "x3", "y3"}

MCParent ==
    [g0 |-> "none", a1 |-> "g0", a2 |-> "a1", a3 |-> "a2", b2 |-> "a1",
     b3 |-> "b2", x2 |-> "a1", x3 |-> "a2", y3 |-> "b2"]

MCHeight ==
    [g0 |-> 0, a1 |-> 1, a2 |-> 2, a3 |-> 3, b2 |-> 2, b3 |-> 3,
     x2 |-> 2, x3 |-> 3, y3 |-> 3]

MCOutPoint == {"g", "c1", "c2", "d2", "c3", "d3", "t", "s", "u"}
MCSpendable == MCOutPoint \ {"u"}
MCAmount ==
    [g |-> 5, c1 |-> 4, c2 |-> 3, d2 |-> 3, c3 |-> 2, d3 |-> 2, t |-> 4, s |-> 1, u |-> 0]

\* A transaction: what it spends, what it creates.
Coinbase(outs) == [ins |-> {}, outs |-> outs]
T == [ins |-> {"c1"}, outs |-> {"t"}]
S == [ins |-> {"t"}, outs |-> {"s"}]

MCTxs ==
    [g0 |-> <<Coinbase({"g"})>>,
     a1 |-> <<Coinbase({"c1"})>>,
     a2 |-> <<Coinbase({"c2", "u"}), T>>,
     a3 |-> <<Coinbase({"c3"}), S>>,
     b2 |-> <<Coinbase({"d2"})>>,
     b3 |-> <<Coinbase({"d3"}), T, S>>,
     x2 |-> <<Coinbase({"d2"})>>,
     x3 |-> <<Coinbase({"c3"})>>,
     y3 |-> <<Coinbase({"d3"})>>]

MCNumTxs == [b \in MCBlock |-> Len(MCTxs[b])]
MCIns == [b \in MCBlock |-> [i \in 1..MCNumTxs[b] |-> MCTxs[b][i].ins]]
MCOuts == [b \in MCBlock |-> [i \in 1..MCNumTxs[b] |-> MCTxs[b][i].outs]]

\* Unspent outputs, computed from the genesis block up.
RECURSIVE ViewAfter(_, _)
ViewAfter(b, n) ==
    IF b = "none" THEN [o \in MCOutPoint |-> -1]
    ELSE IF n = 0 THEN ViewAfter(MCParent[b], IF b = "g0" THEN 0 ELSE MCNumTxs[MCParent[b]])
    ELSE LET v == ViewAfter(b, n - 1)
         IN  [o \in MCOutPoint |->
                IF b # "g0" /\ o \in MCOuts[b][n] \cap MCSpendable THEN MCHeight[b]
                ELSE IF o \in MCIns[b][n] THEN -1 ELSE v[o]]

MCLive == [b \in MCBlock |-> [n \in 0..MCNumTxs[b] |-> ViewAfter(b, n)]]
=============================================================================
