----------------------------- MODULE BlockTree -----------------------------
(***************************************************************************)
(* The block tree the node works on.  Blocks are data here: what connects  *)
(* them and which outputs each transaction spends and creates.  The state  *)
(* machines of the other modules move along this tree.                     *)
(*                                                                         *)
(* Live[b][t] is the set of unspent outputs that block validation holds    *)
(* after the first t transactions of block b, as a function from outpoint  *)
(* to creation height; it is what the spend journal of b records for the   *)
(* outputs b spends.  The assumptions below say how one transaction        *)
(* changes it, which is all that the proofs use.                           *)
(***************************************************************************)
EXTENDS Integers, Sequences

CONSTANTS
    Block,        \* the blocks of the tree
    Genesis,      \* the block at height 0
    NoBlock,      \* the parent of Genesis: the zero hash
    Parent,       \* block -> the block its header names as previous
    Height,       \* block -> height
    OutPoint,     \* transaction outputs
    Amount,       \* outpoint -> value in satoshi
    Spendable,    \* the outpoints whose script is not provably unspendable
    NumTxs,       \* block -> number of transactions, the coinbase included
    Ins,          \* block -> transaction number -> outpoints it spends
    Outs,         \* block -> transaction number -> outpoints it creates
    Live          \* block -> number of transactions applied -> creation heights

\* An outpoint that is not in a view, or not in an index bucket.
None == -1

CreateHeight == {Height[b] : b \in Block} \cup {None}
View == [OutPoint -> CreateHeight]
EmptyView == [o \in OutPoint |-> None]

\* The view that validation holds when the tip of the chain is b.
ViewAt(b) == IF b = NoBlock THEN EmptyView ELSE Live[b][NumTxs[b]]

\* What one transaction does to a view at height h: inputs leave it, outputs
\* enter it unless they are provably unspendable.
ApplyTx(v, ins, outs, h) ==
    [o \in OutPoint |-> IF o \in outs \cap Spendable THEN h
                        ELSE IF o \in ins THEN None
                        ELSE v[o]]

\* The genesis coinbase is not part of the unspent outputs.
Created(b, t) == IF b = Genesis THEN {} ELSE Outs[b][t]

-----------------------------------------------------------------------------
ASSUME TreeAssumption ==
    /\ Genesis \in Block
    /\ NoBlock \notin Block
    /\ Parent \in [Block -> Block \cup {NoBlock}]
    /\ Height \in [Block -> Nat]
    /\ \A b \in Block : /\ Parent[b] = NoBlock <=> b = Genesis
                        /\ Height[b] = IF b = Genesis THEN 0 ELSE Height[Parent[b]] + 1

ASSUME TxAssumption ==
    /\ Amount \in [OutPoint -> Nat]
    /\ Spendable \subseteq OutPoint
    /\ NumTxs \in [Block -> Nat \ {0}]
    /\ \A b \in Block : /\ Ins[b] \in [1..NumTxs[b] -> SUBSET OutPoint]
                        /\ Outs[b] \in [1..NumTxs[b] -> SUBSET OutPoint]
                        /\ Ins[b][1] = {}

(***************************************************************************)
(* Blocks reach the index only after block validation: every input is      *)
(* unspent when it is spent, no output replaces an unspent one (BIP 30),   *)
(* and transaction 1 is the coinbase, which spends nothing.                *)
(***************************************************************************)
ASSUME LiveAssumption ==
    \A b \in Block :
        /\ Live[b] \in [0..NumTxs[b] -> View]
        /\ Live[b][0] = ViewAt(Parent[b])
        /\ \A t \in 0..NumTxs[b], o \in OutPoint : Live[b][t][o] <= Height[b]
        /\ \A t \in 1..NumTxs[b] :
              /\ \A o \in Ins[b][t] : Live[b][t-1][o] # None
              /\ \A o \in Outs[b][t] : Live[b][t-1][o] = None
              /\ Live[b][t] = ApplyTx(Live[b][t-1], Ins[b][t], Created(b, t), Height[b])
=============================================================================
