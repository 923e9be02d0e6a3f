-------------------------- MODULE MCReapValidation --------------------------
(***************************************************************************)
(* A tree whose outputs expire, for a window of two blocks:                *)
(*                                                                         *)
(*   g0 - r1 - r2 - r3 - r4      r4 reaps q1 and p1, w4 reaps nothing;     *)
(*                    \ w4       n (p3 -> m) is an ordinary transaction    *)
(*                                                                         *)
(* q1 and q2 are dust; p1 and s1 have the same age and amount.             *)
(***************************************************************************)
EXTENDS ReapValidation, Integers, Sequences

RBlock == {"g0", "r1", "r2", "r3", "r4", "w4"}
RParent == [g0 |-> "none", r1 |-> "g0", r2 |-> "r1", r3 |-> "r2", r4 |-> "r3", w4 |-> "r3"]
RHeight == [g0 |-> 0, r1 |-> 1, r2 |-> 2, r3 |-> 3, r4 |-> 4, w4 |-> 4]

ROutPoint == {"g", "p1", "s1", "q1", "p2", "q2", "p3", "c4", "d4", "f4", "m"}
RAmount == [g |-> 5, p1 |-> 10, s1 |-> 10, q1 |-> 2, p2 |-> 7, q2 |-> 1, p3 |-> 11,
            c4 |-> 5, d4 |-> 5, f4 |-> 7, m |-> 10]
RPkScript == [g |-> "A", p1 |-> "A", s1 |-> "B", q1 |-> "B", p2 |-> "A", q2 |-> "A",
              p3 |-> "B", c4 |-> "B", d4 |-> "B", f4 |-> "A", m |-> "A"]
RScriptRank == [A |-> 1, B |-> 2]
ROutPointRank == [g |-> 0, p1 |-> 4, s1 |-> 2, q1 |-> 7, p2 |-> 1, q2 |-> 9, p3 |-> 5,
                  c4 |-> 6, d4 |-> 8, f4 |-> 3, m |-> 10]

RTxs ==
    [g0 |-> <<[ins |-> {}, outs |-> {"g"}]>>,
     r1 |-> <<[ins |-> {}, outs |-> {"p1", "s1", "q1"}]>>,
     r2 |-> <<[ins |-> {}, outs |-> {"p2", "q2"}]>>,
     r3 |-> <<[ins |-> {}, outs |-> {"p3"}]>>,
     r4 |-> <<[ins |-> {}, outs |-> {"c4"}], [ins |-> {"q1", "p1"}, outs |-> {"f4"}]>>,
     w4 |-> <<[ins |-> {}, outs |-> {"d4"}], [ins |-> {"p3"}, outs |-> {"m"}]>>]

RNumTxs == [b \in RBlock |-> Len(RTxs[b])]
RIns == [b \in RBlock |-> [i \in 1..RNumTxs[b] |-> RTxs[b][i].ins]]
ROuts == [b \in RBlock |-> [i \in 1..RNumTxs[b] |-> RTxs[b][i].outs]]

RECURSIVE RViewAfter(_, _)
RViewAfter(b, n) ==
    IF b = "none" THEN [o \in ROutPoint |-> -1]
    ELSE IF n = 0 THEN RViewAfter(RParent[b], IF b = "g0" THEN 0 ELSE RNumTxs[RParent[b]])
    ELSE LET v == RViewAfter(b, n - 1)
         IN  [o \in ROutPoint |->
                IF b # "g0" /\ o \in ROuts[b][n] THEN RHeight[b]
                ELSE IF o \in RIns[b][n] THEN -1 ELSE v[o]]

RLive == [b \in RBlock |-> [n \in 0..RNumTxs[b] |-> RViewAfter(b, n)]]

-----------------------------------------------------------------------------
(***************************************************************************)
(* Blocks of at most two transactions on the tree above.  Inputs   *)
(* are taken from the live outputs in any order; outputs and markers are   *)
(* right, or wrong in one of the ways that the rules tell apart.           *)
(***************************************************************************)

RCommitment == [b \in RBlock |-> <<>>]

Inputs(v) ==
    LET live == {o \in OutPoint : v[o] # None}
        seqs == {<<o>> : o \in live}
                  \cup {<<o, p>> : o, p \in {"q1", "p1", "s1", "q2"}}
                  \cup {<<"q1", "p1", "s1">>, <<"q1", "s1", "p1">>, <<"p1", "s1", "q1">>,
                        <<"q1", "q2", "p1">>, <<"q1", "p1", "p2">>, <<"s1", "p1", "q2">>,
                        <<"s1", "q2", "p2">>, <<"q2", "p2", "p3">>}
    IN  {s \in seqs : \A i, j \in DOMAIN s : s[i] \in live /\ (i # j => s[i] # s[j])}

\* Everything to one owner, the right total.
OneOutput(ins) ==
    LET total == SumFunction(Refunds(ins))
    IN  IF total = 0 THEN <<>> ELSE <<[script |-> "A", value |-> total]>>

RProposals ==
  [b \in RBlock |->
    LET h == RHeight[b] + 1
        v == RLive[b][RNumTxs[b]]
        right(ins) == BuildBlueprint(ins, h)
    IN  {right(ins) : ins \in Inputs(v)}
        \cup {[right(ins) EXCEPT !.outs = OneOutput(ins)] : ins \in Inputs(v)}
        \cup {[right(ins) EXCEPT !.marker.height = h - 1] : ins \in {s \in Inputs(v) : Len(s) = 1}}
        \cup {[right(ins) EXCEPT !.marker.count = 0] : ins \in {s \in Inputs(v) : Len(s) = 1}}
        \cup {[right(ins) EXCEPT !.reap = FALSE] : ins \in {s \in Inputs(v) : Len(s) <= 2}}]
=============================================================================
