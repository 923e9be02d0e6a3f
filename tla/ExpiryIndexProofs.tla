------------------------- MODULE ExpiryIndexProofs -------------------------
(***************************************************************************)
(* Proofs about ExpiryIndex, for every block tree and every choice of the  *)
(* expiry parameters.                                                      *)
(***************************************************************************)
EXTENDS ExpiryIndex, TLAPS

USE Zenon

\* The index content ix is the one that view v determines.
Good(ix, v) ==
    /\ ix.o2e = ExpirySet(v)
    /\ Agree(ix)
    /\ ix.acc = Root(ix.o2e)

\* The fields of disconnectTxOut's result.
LEMMA DisconnectFields ==
    ASSUME NEW ix \in IndexType, NEW S \in SUBSET OutPoint
    PROVE  LET r == disconnectTxOut(ix, S)
               T == Present(ix, S) IN
           /\ r \in IndexType
           /\ r.o2e = [o \in OutPoint |-> IF o \in T THEN None ELSE ix.o2e[o]]
           /\ r.e2o = ix.e2o \ {<<ix.o2e[o], o>> : o \in T}
           /\ r.reap = ix.reap \ {<<ix.o2r[o][1], ix.o2r[o][2], o>> : o \in T}
           /\ r.o2r = [o \in OutPoint |-> IF o \in T THEN NoKey ELSE ix.o2r[o]]
           /\ r.acc = ix.acc
           /\ r.tipHeight = ix.tipHeight
           /\ r.tipHash = ix.tipHash
  <1> DEFINE T == Present(ix, S)
  <1>1. None \in Int /\ NoKey \in Int \X Int
    BY SMT DEF None, NoKey
  <1> HIDE DEF T
  <1>2. [ix EXCEPT
           !.o2e  = [o \in OutPoint |-> IF o \in T THEN None ELSE @[o]],
           !.e2o  = @ \ {<<ix.o2e[o], o>> : o \in T},
           !.reap = @ \ {<<ix.o2r[o][1], ix.o2r[o][2], o>> : o \in T},
           !.o2r  = [o \in OutPoint |-> IF o \in T THEN NoKey ELSE @[o]]]
          \in IndexType
    BY <1>1, Zenon DEF IndexType
  <1> QED
    BY <1>2, Zenon DEF disconnectTxOut, IndexType, T

\* What connectTxOut(ix, S, hs) is to hold, field by field.
Connected(r, ix, S, hs) ==
    LET T == Indexable(S, hs) IN
    /\ r \in IndexType
    /\ r.o2e = [o \in OutPoint |-> IF o \in T THEN CalculateExpiryKey(hs[o]) ELSE ix.o2e[o]]
    /\ r.e2o = ix.e2o \cup {<<CalculateExpiryKey(hs[o]), o>> : o \in T}
    /\ r.reap = ix.reap \cup {<<CalculateExpiryKey(hs[o]), Amount[o], o>> : o \in T}
    /\ r.o2r = [o \in OutPoint |-> IF o \in T THEN <<CalculateExpiryKey(hs[o]), Amount[o]>>
                                   ELSE ix.o2r[o]]
    /\ r.acc = ix.acc
    /\ r.tipHeight = ix.tipHeight
    /\ r.tipHash = ix.tipHash

\* The fields of connectTxOut's result.
LEMMA ConnectFields ==
    ASSUME NEW ix \in IndexType, NEW S \in SUBSET OutPoint,
           NEW hs, \A o \in S : hs[o] \in CreateHeight
    PROVE  Connected(connectTxOut(ix, S, hs), ix, S, hs)
  <1> DEFINE T == Indexable(S, hs)
             k(o) == CalculateExpiryKey(hs[o])
  <1>1. \A o \in T : k(o) \in Key /\ k(o) \in Int
    BY TreeAssumption, ParamAssumption, SMT
    DEF Key, CalculateExpiryKey, shouldIndexCreateHeight, Indexable, CreateHeight, None
  <1>2. T \subseteq OutPoint /\ \A o \in OutPoint : Amount[o] \in Int
    BY TxAssumption, SMT DEF Indexable
  <1> HIDE DEF k, T
  <1>3. /\ [o \in OutPoint |-> IF o \in T THEN k(o) ELSE ix.o2e[o]] \in [OutPoint -> Key \cup {None}]
        /\ ix.e2o \cup {<<k(o), o>> : o \in T} \in SUBSET (Int \X OutPoint)
        /\ ix.reap \cup {<<k(o), Amount[o], o>> : o \in T} \in SUBSET (Int \X Int \X OutPoint)
        /\ [o \in OutPoint |-> IF o \in T THEN <<k(o), Amount[o]>> ELSE ix.o2r[o]]
             \in [OutPoint -> Int \X Int]
    <2>1. /\ ix.o2e \in [OutPoint -> Key \cup {None}]
          /\ ix.e2o \in SUBSET (Int \X OutPoint)
          /\ ix.reap \in SUBSET (Int \X Int \X OutPoint)
          /\ ix.o2r \in [OutPoint -> Int \X Int]
      BY DEF IndexType
    <2>2. [o \in OutPoint |-> IF o \in T THEN k(o) ELSE ix.o2e[o]] \in [OutPoint -> Key \cup {None}]
      BY <2>1, <1>1
    <2>3. ix.e2o \cup {<<k(o), o>> : o \in T} \in SUBSET (Int \X OutPoint)
      BY <2>1, <1>1, <1>2, SMT
    <2>4. ix.reap \cup {<<k(o), Amount[o], o>> : o \in T} \in SUBSET (Int \X Int \X OutPoint)
      BY <2>1, <1>1, <1>2, SMT
    <2>5. [o \in OutPoint |-> IF o \in T THEN <<k(o), Amount[o]>> ELSE ix.o2r[o]]
             \in [OutPoint -> Int \X Int]
      BY <2>1, <1>1, <1>2
    <2> QED
      BY <2>2, <2>3, <2>4, <2>5
  <1>4. connectTxOut(ix, S, hs) =
         [ix EXCEPT
           !.o2e  = [o \in OutPoint |-> IF o \in T THEN k(o) ELSE @[o]],
           !.e2o  = @ \cup {<<k(o), o>> : o \in T},
           !.reap = @ \cup {<<k(o), Amount[o], o>> : o \in T},
           !.o2r  = [o \in OutPoint |-> IF o \in T THEN <<k(o), Amount[o]>> ELSE @[o]]]
    BY DEF connectTxOut, k, T
  <1>5. LET r == connectTxOut(ix, S, hs) IN
           /\ r \in IndexType
           /\ r.o2e = [o \in OutPoint |-> IF o \in T THEN k(o) ELSE ix.o2e[o]]
           /\ r.e2o = ix.e2o \cup {<<k(o), o>> : o \in T}
           /\ r.reap = ix.reap \cup {<<k(o), Amount[o], o>> : o \in T}
           /\ r.o2r = [o \in OutPoint |-> IF o \in T THEN <<k(o), Amount[o]>> ELSE ix.o2r[o]]
           /\ r.acc = ix.acc
           /\ r.tipHeight = ix.tipHeight
           /\ r.tipHash = ix.tipHash
    BY <1>3, <1>4, Zenon DEF IndexType
  <1> QED
    BY <1>5 DEF Connected, k, T

\* No expiry key is None: heights and the window are natural numbers.
LEMMA KeyNotNone == Key \subseteq Int /\ None \notin Key
  BY TreeAssumption, ParamAssumption, SMT DEF Key, CalculateExpiryKey, None

\* disconnectTxOut keeps the buckets in agreement and meets no inconsistency.
LEMMA AgreeDisconnect ==
    ASSUME NEW ix \in IndexType, NEW S \in SUBSET OutPoint, Agree(ix)
    PROVE  Agree(disconnectTxOut(ix, S)) /\ ~InconsistentIndex(ix, S)
  <1> DEFINE r == disconnectTxOut(ix, S)
             T == Present(ix, S)
             P == Present(ix, OutPoint)
  <1>1. /\ r.o2e = [o \in OutPoint |-> IF o \in T THEN None ELSE ix.o2e[o]]
        /\ r.e2o = ix.e2o \ {<<ix.o2e[o], o>> : o \in T}
        /\ r.reap = ix.reap \ {<<ix.o2r[o][1], ix.o2r[o][2], o>> : o \in T}
        /\ r.o2r = [o \in OutPoint |-> IF o \in T THEN NoKey ELSE ix.o2r[o]]
    BY DisconnectFields
  <1>2. /\ ix.e2o = {<<ix.o2e[o], o>> : o \in P}
        /\ ix.reap = {<<ix.o2e[o], Amount[o], o>> : o \in P}
        /\ \A o \in OutPoint : ix.o2r[o] = IF o \in P THEN <<ix.o2e[o], Amount[o]>> ELSE NoKey
    BY DEF Agree
  <1>3. T \subseteq P
    BY DEF Present
  <1>4. Present(r, OutPoint) = P \ T
    BY <1>1 DEF Present
  <1>5. \A o \in P : ix.o2e[o] # None
    BY DEF Present
  <1> HIDE DEF r, T, P
  <1>6. r.e2o = {<<r.o2e[o], o>> : o \in P \ T}
    <2>1. P \subseteq OutPoint
      BY DEF P, Present
    <2> QED BY <1>1, <1>2, <1>3, <2>1, SMT
  <1>7. r.reap = {<<r.o2e[o], Amount[o], o>> : o \in P \ T}
    <2>1. P \subseteq OutPoint
      BY DEF P, Present
    <2>2. \A o \in T : <<ix.o2r[o][1], ix.o2r[o][2], o>> = <<ix.o2e[o], Amount[o], o>>
      <3> SUFFICES ASSUME NEW o \in T
                   PROVE  <<ix.o2r[o][1], ix.o2r[o][2], o>> = <<ix.o2e[o], Amount[o], o>>
        OBVIOUS
      <3>1. ix.o2r[o] = <<ix.o2e[o], Amount[o]>>
        BY <1>2, <1>3, <2>1, Zenon
      <3> QED BY <3>1, SMT
    <2> QED BY <1>1, <1>2, <1>3, <2>1, <2>2, SMT
  <1>8. \A o \in OutPoint :
           r.o2r[o] = IF o \in P \ T THEN <<r.o2e[o], Amount[o]>> ELSE NoKey
    BY <1>1, <1>2, <1>3
  <1>9. ~InconsistentIndex(ix, S)
    <2>1. P \subseteq OutPoint
      BY DEF P, Present
    <2>2. \A o \in T : /\ <<ix.o2e[o], o>> \in ix.e2o
                       /\ ix.o2r[o] = <<ix.o2e[o], Amount[o]>>
                       /\ <<ix.o2e[o], Amount[o], o>> \in ix.reap
                       /\ ix.o2r[o] # NoKey
      <3> SUFFICES ASSUME NEW o \in T
                   PROVE  /\ <<ix.o2e[o], o>> \in ix.e2o
                          /\ ix.o2r[o] = <<ix.o2e[o], Amount[o]>>
                          /\ <<ix.o2e[o], Amount[o], o>> \in ix.reap
                          /\ ix.o2r[o] # NoKey
        OBVIOUS
      <3>1. o \in P /\ o \in OutPoint
        BY <1>3, <2>1
      <3>2. ix.o2r[o] = <<ix.o2e[o], Amount[o]>>
        BY <1>2, <3>1, Zenon
      <3>3. ix.o2r[o] # NoKey
        BY <1>5, <3>1, <3>2, SMT DEF NoKey
      <3> QED BY <1>2, <3>1, <3>2, <3>3
    <2>3. \A o \in T : <<ix.o2r[o][1], ix.o2r[o][2], o>> = <<ix.o2e[o], Amount[o], o>>
      <3> SUFFICES ASSUME NEW o \in T
                   PROVE  <<ix.o2r[o][1], ix.o2r[o][2], o>> = <<ix.o2e[o], Amount[o], o>>
        OBVIOUS
      <3>1. ix.o2r[o] = <<ix.o2e[o], Amount[o]>>
        BY <2>2, Zenon
      <3> QED BY <3>1, SMT
    <2> QED BY <2>2, <2>3, Zenon DEF InconsistentIndex, T
  <1> QED
    BY <1>4, <1>6, <1>7, <1>8, <1>9 DEF Agree, r

\* connectTxOut keeps the buckets in agreement when its outpoints are new.
LEMMA AgreeConnect ==
    ASSUME NEW ix \in IndexType, NEW S \in SUBSET OutPoint,
           NEW hs, \A o \in S : hs[o] \in CreateHeight,
           Agree(ix), \A o \in S : ix.o2e[o] = None
    PROVE  Agree(connectTxOut(ix, S, hs))
  <1> DEFINE r == connectTxOut(ix, S, hs)
             T == Indexable(S, hs)
             k(o) == CalculateExpiryKey(hs[o])
             P == Present(ix, OutPoint)
  <1>1. /\ r.o2e = [o \in OutPoint |-> IF o \in T THEN k(o) ELSE ix.o2e[o]]
        /\ r.e2o = ix.e2o \cup {<<k(o), o>> : o \in T}
        /\ r.reap = ix.reap \cup {<<k(o), Amount[o], o>> : o \in T}
        /\ r.o2r = [o \in OutPoint |-> IF o \in T THEN <<k(o), Amount[o]>> ELSE ix.o2r[o]]
    <2>1. Connected(r, ix, S, hs)
      BY ConnectFields
    <2> QED BY <2>1, Zenon DEF Connected
  <1>2. /\ ix.e2o = {<<ix.o2e[o], o>> : o \in P}
        /\ ix.reap = {<<ix.o2e[o], Amount[o], o>> : o \in P}
        /\ \A o \in OutPoint : ix.o2r[o] = IF o \in P THEN <<ix.o2e[o], Amount[o]>> ELSE NoKey
    BY DEF Agree
  <1>3. T \subseteq OutPoint /\ P \subseteq OutPoint /\ T \cap P = {}
    BY DEF Present, Indexable
  <1>4. \A o \in T : k(o) # None
    BY TreeAssumption, ParamAssumption, SMT
    DEF CalculateExpiryKey, shouldIndexCreateHeight, Indexable, CreateHeight, None
  <1> HIDE DEF k
  <1>5. Present(r, OutPoint) = P \cup T
    BY <1>1, <1>3, <1>4, SMT DEF Present
  <1> HIDE DEF r, T, P
  <1>6. r.e2o = {<<r.o2e[o], o>> : o \in P \cup T}
    BY <1>1, <1>2, <1>3, SMT
  <1>7. r.reap = {<<r.o2e[o], Amount[o], o>> : o \in P \cup T}
    BY <1>1, <1>2, <1>3, SMT
  <1>8. \A o \in OutPoint :
           r.o2r[o] = IF o \in P \cup T THEN <<r.o2e[o], Amount[o]>> ELSE NoKey
    BY <1>1, <1>2, <1>3
  <1> QED
    BY <1>5, <1>6, <1>7, <1>8 DEF Agree, r

\* What the state after transaction t of block b looks like in the index.
LEMMA ConnectTxGood ==
    ASSUME NEW b \in Block, NEW t \in 1..NumTxs[b],
           NEW ix \in IndexType, Good(ix, Live[b][t-1])
    PROVE  LET r == ConnectTx(ix, Ins[b][t], Outs[b][t], Height[b]) IN
           /\ ~InconsistentIndex(ix, Ins[b][t])
           /\ r \in IndexType
           /\ Good(r, Live[b][t])
  <1> DEFINE ins == Ins[b][t]
             h == Height[b]
             v == Live[b][t-1]
             w == Live[b][t]
             new == IndexedOuts(Outs[b][t], h)
             hs == [o \in new |-> h]
             d == disconnectTxOut(ix, ins)
             c == connectTxOut(d, new, hs)
             r == ConnectTx(ix, ins, Outs[b][t], h)
             spent == {<<o, ix.o2e[o]>> : o \in Present(ix, ins)}
             added == {<<o, CalculateExpiryKey(h)>> : o \in new}
  <1>1. /\ ins \in SUBSET OutPoint
        /\ new \in SUBSET OutPoint
        /\ h \in Nat
        /\ t - 1 \in 0..NumTxs[b]
        /\ t \in 0..NumTxs[b]
        /\ NumTxs[b] \in Nat
    <2>1. NumTxs[b] \in Nat \ {0} /\ Height[b] \in Nat
      BY TxAssumption, TreeAssumption
    <2>2. /\ Ins[b] \in [1..NumTxs[b] -> SUBSET OutPoint]
          /\ Outs[b] \in [1..NumTxs[b] -> SUBSET OutPoint]
      BY TxAssumption
    <2>3. Ins[b][t] \in SUBSET OutPoint /\ Outs[b][t] \in SUBSET OutPoint
      BY <2>2, Zenon
    <2> QED
      BY <2>1, <2>3, SMT DEF IndexedOuts
  <1>2. /\ v \in View
        /\ w \in View
        /\ \A o \in ins : v[o] # None
        /\ \A o \in Outs[b][t] : v[o] = None
        /\ w = ApplyTx(v, ins, Created(b, t), h)
    BY <1>1, LiveAssumption
  <1>3. ix.o2e = ExpirySet(v) /\ Agree(ix) /\ ix.acc = Root(ix.o2e)
    BY DEF Good
  <1> HIDE DEF ins, h, v, w
  <1>4. \A o \in new : ix.o2e[o] = None /\ o \notin ins
    BY <1>1, <1>2, <1>3, SMT DEF ExpirySet, IndexedOuts, shouldIndexCreateHeight, None
  <1> HIDE DEF new
  <1>5. /\ d \in IndexType
        /\ d.o2e = [o \in OutPoint |-> IF o \in Present(ix, ins) THEN None ELSE ix.o2e[o]]
        /\ d.acc = ix.acc
        /\ Agree(d)
        /\ ~InconsistentIndex(ix, ins)
    BY <1>1, <1>3, DisconnectFields, AgreeDisconnect, Zenon
  <1>6. /\ \A o \in new : hs[o] \in CreateHeight
        /\ \A o \in new : d.o2e[o] = None
    BY <1>1, <1>4, <1>5 DEF h, CreateHeight
  <1>7. Indexable(new, hs) = new
    BY DEF Indexable, new, IndexedOuts
  <1>8. /\ c \in IndexType
        /\ c.o2e = [o \in OutPoint |-> IF o \in new THEN CalculateExpiryKey(hs[o]) ELSE d.o2e[o]]
        /\ c.acc = d.acc
        /\ Agree(c)
    <2> HIDE DEF d, hs
    <2>1. d \in IndexType
      BY <1>5
    <2>2. new \in SUBSET OutPoint
      BY <1>1
    <2>3. \A o \in new : hs[o] \in CreateHeight
      BY <1>6
    <2>4. Agree(c)
      BY <2>1, <2>2, <2>3, <1>5, <1>6, AgreeConnect
    <2>5. /\ c \in IndexType
          /\ c.o2e = [o \in OutPoint |-> IF o \in Indexable(new, hs)
                                         THEN CalculateExpiryKey(hs[o]) ELSE d.o2e[o]]
          /\ c.acc = d.acc
      <3>1. Connected(c, d, new, hs)
        BY <2>1, <2>2, <2>3, ConnectFields
      <3> QED BY <3>1, Zenon DEF Connected
    <2> QED BY <1>7, <2>4, <2>5
  <1>9. r = [c EXCEPT !.acc = MuAdd(MuRemove(ix.acc, spent), added)]
    BY DEF ConnectTx, new
  <1>10. MuAdd(MuRemove(ix.acc, spent), added) \in [Entry -> Int]
    <2>1. ix.acc \in [Entry -> Int]
      BY DEF IndexType
    <2> QED BY <2>1, SMT DEF MuAdd, MuRemove
  <1> HIDE DEF c, r, d, spent, added
  <1>11. /\ r \in IndexType
         /\ r.o2e = c.o2e /\ r.e2o = c.e2o /\ r.reap = c.reap /\ r.o2r = c.o2r
         /\ r.acc = MuAdd(MuRemove(ix.acc, spent), added)
    BY <1>8, <1>9, <1>10, Zenon DEF IndexType
  <1>12. Agree(r)
    BY <1>8, <1>11, SMT DEF Agree, Present
  <1>13. r.o2e = [o \in OutPoint |-> IF o \in new THEN CalculateExpiryKey(h)
                                     ELSE IF o \in Present(ix, ins) THEN None ELSE ix.o2e[o]]
    BY <1>1, <1>5, <1>8, <1>11
  <1>14. \A o \in OutPoint : r.o2e[o] = ExpirySet(w)[o]
    <2> SUFFICES ASSUME NEW o \in OutPoint
                 PROVE  r.o2e[o] = ExpirySet(w)[o]
      OBVIOUS
    <2>1. w[o] = IF o \in Created(b, t) \cap Spendable THEN h
                 ELSE IF o \in ins THEN None ELSE v[o]
      BY <1>2 DEF ApplyTx
    <2>2. ExpirySet(w)[o] = IF shouldIndexCreateHeight(w[o])
                            THEN CalculateExpiryKey(w[o]) ELSE None
      BY DEF ExpirySet
    <2>3. ix.o2e[o] = IF shouldIndexCreateHeight(v[o])
                      THEN CalculateExpiryKey(v[o]) ELSE None
      BY <1>3 DEF ExpirySet
    <2>4. ~shouldIndexCreateHeight(None)
      BY SMT DEF shouldIndexCreateHeight, None
    <2>5. CASE o \in new
      <3>1. o \in Outs[b][t] /\ o \in Spendable /\ shouldIndexCreateHeight(h)
        BY <2>5 DEF new, IndexedOuts
      <3>2. b # Genesis
        BY <3>1, TreeAssumption, SMT DEF shouldIndexCreateHeight, h
      <3>3. w[o] = h
        BY <2>1, <3>1, <3>2 DEF Created
      <3> QED BY <1>13, <2>2, <2>5, <3>1, <3>3
    <2>6. CASE o \notin new /\ o \in Created(b, t) \cap Spendable
      <3>1. o \in Outs[b][t]
        BY <2>6 DEF Created
      <3>2. v[o] = None /\ o \notin ins
        BY <1>2, <3>1
      <3>3. ~shouldIndexCreateHeight(h)
        BY <2>6, <3>1 DEF new, IndexedOuts
      <3> QED BY <1>13, <2>1, <2>2, <2>3, <2>4, <2>6, <3>2, <3>3 DEF Present
    <2>7. CASE o \notin new /\ o \notin Created(b, t) \cap Spendable
      <3>1. CASE o \in ins
        BY <1>13, <2>1, <2>2, <2>4, <2>7, <3>1 DEF Present
      <3>2. CASE o \notin ins
        BY <1>13, <2>1, <2>2, <2>3, <2>7, <3>2, SMT DEF Present
      <3> QED BY <3>1, <3>2
    <2> QED BY <2>5, <2>6, <2>7
  <1>15. r.o2e = ExpirySet(w)
    BY <1>13, <1>14 DEF ExpirySet
  <1>16. \A e \in Entry : r.acc[e] = Root(r.o2e)[e]
    <2> SUFFICES ASSUME NEW o \in OutPoint, NEW x \in Key
                 PROVE  r.acc[<<o, x>>] = Root(r.o2e)[<<o, x>>]
      BY SMT DEF Entry
    <2>1. <<o, x>> \in Entry /\ x # None
      BY KeyNotNone DEF Entry
    <2>2. Root(r.o2e)[<<o, x>>] = IF r.o2e[o] = x THEN 1 ELSE 0
      BY <2>1 DEF Root
    <2>3. ix.acc[<<o, x>>] = IF ix.o2e[o] = x THEN 1 ELSE 0
      BY <1>3, <2>1 DEF Root
    <2>4. <<o, x>> \in spent <=> o \in Present(ix, ins) /\ ix.o2e[o] = x
      BY DEF spent
    <2>5. <<o, x>> \in added <=> o \in new /\ x = CalculateExpiryKey(h)
      BY DEF added
    <2>6. r.acc[<<o, x>>] = (IF ix.o2e[o] = x THEN 1 ELSE 0)
                             - (IF <<o, x>> \in spent THEN 1 ELSE 0)
                             + (IF <<o, x>> \in added THEN 1 ELSE 0)
      BY <1>11, <2>1, <2>3, SMT DEF MuAdd, MuRemove
    <2> QED BY <1>4, <1>13, <2>1, <2>2, <2>4, <2>5, <2>6, SMT DEF Present
  <1>17. r.acc = Root(r.o2e)
    <2>1. r.acc \in [Entry -> Int]
      BY <1>11, SMTT(30) DEF IndexType
    <2> QED BY <1>16, <2>1 DEF Root
  <1> QED
    BY <1>5, <1>11, <1>12, <1>15, <1>17 DEF Good, r, ins, h, w

\* Disconnecting transaction t takes the index back to the state before it.
LEMMA DisconnectTxGood ==
    ASSUME NEW b \in Block, NEW t \in 1..NumTxs[b],
           NEW ix \in IndexType, Good(ix, Live[b][t])
    PROVE  LET r == DisconnectTx(ix, Ins[b][t], Outs[b][t], Height[b], Live[b][t-1]) IN
           /\ ~InconsistentIndex(ix, IndexedOuts(Outs[b][t], Height[b]))
           /\ r \in IndexType
           /\ Good(r, Live[b][t-1])
  <1> DEFINE ins == Ins[b][t]
             h == Height[b]
             v == Live[b][t-1]
             w == Live[b][t]
             gone == IndexedOuts(Outs[b][t], h)
             back == Indexable(ins, v)
             d == disconnectTxOut(ix, gone)
             c == connectTxOut(d, back, v)
             r == DisconnectTx(ix, ins, Outs[b][t], h, v)
             removed == {<<o, CalculateExpiryKey(h)>> : o \in gone}
             restored == {<<o, CalculateExpiryKey(v[o])>> : o \in back}
  <1>1. /\ ins \in SUBSET OutPoint
        /\ gone \in SUBSET OutPoint
        /\ back \in SUBSET OutPoint
        /\ h \in Nat
        /\ t - 1 \in 0..NumTxs[b]
        /\ t \in 0..NumTxs[b]
    <2>1. NumTxs[b] \in Nat \ {0} /\ Height[b] \in Nat
      BY TxAssumption, TreeAssumption
    <2>2. /\ Ins[b] \in [1..NumTxs[b] -> SUBSET OutPoint]
          /\ Outs[b] \in [1..NumTxs[b] -> SUBSET OutPoint]
      BY TxAssumption
    <2>3. Ins[b][t] \in SUBSET OutPoint /\ Outs[b][t] \in SUBSET OutPoint
      BY <2>2, Zenon
    <2> QED
      BY <2>1, <2>3, SMT DEF IndexedOuts, Indexable
  <1>2. /\ v \in View
        /\ w \in View
        /\ \A o \in ins : v[o] # None
        /\ \A o \in Outs[b][t] : v[o] = None
        /\ w = ApplyTx(v, ins, Created(b, t), h)
    BY <1>1, LiveAssumption, Zenon
  <1>3. ix.o2e = ExpirySet(w) /\ Agree(ix) /\ ix.acc = Root(ix.o2e)
    BY DEF Good
  <1> HIDE DEF ins, h, v, w
  <1>4. \A o \in OutPoint :
           /\ w[o] = IF o \in Created(b, t) \cap Spendable THEN h
                     ELSE IF o \in ins THEN None ELSE v[o]
           /\ ix.o2e[o] = IF shouldIndexCreateHeight(w[o])
                          THEN CalculateExpiryKey(w[o]) ELSE None
           /\ ExpirySet(v)[o] = IF shouldIndexCreateHeight(v[o])
                                THEN CalculateExpiryKey(v[o]) ELSE None
    BY <1>2, <1>3 DEF ApplyTx, ExpirySet
  <1>5. ~shouldIndexCreateHeight(None)
    BY SMT DEF shouldIndexCreateHeight, None
  <1>6. \A o \in gone : v[o] = None /\ o \notin ins /\ ix.o2e[o] = CalculateExpiryKey(h)
    <2> SUFFICES ASSUME NEW o \in gone
                 PROVE  v[o] = None /\ o \notin ins /\ ix.o2e[o] = CalculateExpiryKey(h)
      OBVIOUS
    <2>1. o \in Outs[b][t] /\ o \in Spendable /\ shouldIndexCreateHeight(h)
      BY DEF IndexedOuts
    <2>2. b # Genesis
      BY <2>1, TreeAssumption, SMT DEF shouldIndexCreateHeight, h
    <2>3. w[o] = h
      BY <1>1, <1>4, <2>1, <2>2 DEF Created
    <2> QED BY <1>1, <1>2, <1>4, <2>1, <2>3
  <1>7. \A o \in ins : ix.o2e[o] = None
    <2> SUFFICES ASSUME NEW o \in ins
                 PROVE  ix.o2e[o] = None
      OBVIOUS
    <2>1. o \notin Created(b, t)
      BY <1>2 DEF Created
    <2> QED BY <1>1, <1>4, <1>5, <2>1
  <1>8. back \subseteq ins /\ Indexable(back, v) = back
    BY DEF Indexable
  <1>9. \A o \in back : v[o] \in CreateHeight /\ v[o] # None
    BY <1>1, <1>2, <1>8 DEF View
  <1> HIDE DEF gone, back
  <1>10. /\ d \in IndexType
         /\ d.o2e = [o \in OutPoint |-> IF o \in Present(ix, gone) THEN None ELSE ix.o2e[o]]
         /\ d.acc = ix.acc
         /\ Agree(d)
         /\ ~InconsistentIndex(ix, gone)
    BY <1>1, <1>3, DisconnectFields, AgreeDisconnect, Zenon
  <1>11. \A o \in back : d.o2e[o] = None
    BY <1>1, <1>7, <1>8, <1>10
  <1>12. /\ c \in IndexType
         /\ c.o2e = [o \in OutPoint |-> IF o \in back THEN CalculateExpiryKey(v[o]) ELSE d.o2e[o]]
         /\ c.acc = d.acc
         /\ Agree(c)
    <2> HIDE DEF d
    <2>1. d \in IndexType
      BY <1>10
    <2>2. back \in SUBSET OutPoint
      BY <1>1
    <2>3. \A o \in back : v[o] \in CreateHeight
      BY <1>9
    <2>4. Agree(c)
      BY <2>1, <2>2, <2>3, <1>10, <1>11, AgreeConnect
    <2>5. /\ c \in IndexType
          /\ c.o2e = [o \in OutPoint |-> IF o \in Indexable(back, v)
                                         THEN CalculateExpiryKey(v[o]) ELSE d.o2e[o]]
          /\ c.acc = d.acc
      <3>1. Connected(c, d, back, v)
        BY <2>1, <2>2, <2>3, ConnectFields
      <3> QED BY <3>1, Zenon DEF Connected
    <2> QED BY <1>8, <2>4, <2>5
  <1>13. r = [c EXCEPT !.acc = MuAdd(MuRemove(ix.acc, removed), restored)]
    BY DEF DisconnectTx, gone, back
  <1>14. MuAdd(MuRemove(ix.acc, removed), restored) \in [Entry -> Int]
    <2>1. ix.acc \in [Entry -> Int]
      BY DEF IndexType
    <2> QED BY <2>1, SMT DEF MuAdd, MuRemove
  <1> HIDE DEF c, r, d, removed, restored
  <1>15. /\ r \in IndexType
         /\ r.o2e = c.o2e /\ r.e2o = c.e2o /\ r.reap = c.reap /\ r.o2r = c.o2r
         /\ r.acc = MuAdd(MuRemove(ix.acc, removed), restored)
    BY <1>12, <1>13, <1>14, Zenon DEF IndexType
  <1>16. Agree(r)
    BY <1>12, <1>15, SMT DEF Agree, Present
  <1>17. r.o2e = [o \in OutPoint |-> IF o \in back THEN CalculateExpiryKey(v[o])
                                     ELSE IF o \in Present(ix, gone) THEN None ELSE ix.o2e[o]]
    BY <1>10, <1>12, <1>15
  <1>18. \A o \in OutPoint : r.o2e[o] = ExpirySet(v)[o]
    <2> SUFFICES ASSUME NEW o \in OutPoint
                 PROVE  r.o2e[o] = ExpirySet(v)[o]
      OBVIOUS
    <2>1. o \in back <=> o \in ins /\ shouldIndexCreateHeight(v[o])
      BY DEF back, Indexable
    <2>2. CASE o \in gone
      <3>1. r.o2e[o] = None
        BY <1>5, <1>6, <1>17, <2>1, <2>2 DEF Present
      <3> QED BY <1>4, <1>5, <1>6, <2>2, <3>1
    <2>3. CASE o \notin gone /\ o \in Created(b, t) \cap Spendable
      <3>1. o \in Outs[b][t]
        BY <2>3 DEF Created
      <3>2. ~shouldIndexCreateHeight(h)
        BY <2>3, <3>1 DEF gone, IndexedOuts
      <3>3. v[o] = None /\ o \notin ins
        BY <1>2, <3>1
      <3> QED BY <1>4, <1>5, <1>17, <2>1, <2>3, <3>2, <3>3 DEF Present
    <2>4. CASE o \notin gone /\ o \notin Created(b, t) \cap Spendable
      BY <1>4, <1>5, <1>7, <1>17, <2>1, <2>4 DEF Present
    <2> QED BY <2>2, <2>3, <2>4
  <1>19. r.o2e = ExpirySet(v)
    BY <1>17, <1>18 DEF ExpirySet
  <1>20. \A e \in Entry : r.acc[e] = Root(r.o2e)[e]
    <2> SUFFICES ASSUME NEW o \in OutPoint, NEW x \in Key
                 PROVE  r.acc[<<o, x>>] = Root(r.o2e)[<<o, x>>]
      BY SMT DEF Entry
    <2>1. <<o, x>> \in Entry /\ x # None
      BY KeyNotNone DEF Entry
    <2>2. Root(r.o2e)[<<o, x>>] = IF r.o2e[o] = x THEN 1 ELSE 0
      BY <2>1 DEF Root
    <2>3. ix.acc[<<o, x>>] = IF ix.o2e[o] = x THEN 1 ELSE 0
      BY <1>3, <2>1 DEF Root
    <2>4. <<o, x>> \in removed <=> o \in gone /\ x = CalculateExpiryKey(h)
      BY DEF removed
    <2>5. <<o, x>> \in restored <=> o \in back /\ x = CalculateExpiryKey(v[o])
      BY DEF restored
    <2>6. r.acc[<<o, x>>] = (IF ix.o2e[o] = x THEN 1 ELSE 0)
                             - (IF <<o, x>> \in removed THEN 1 ELSE 0)
                             + (IF <<o, x>> \in restored THEN 1 ELSE 0)
      BY <1>15, <2>1, <2>3, SMT DEF MuAdd, MuRemove
    <2>7. o \in back => ix.o2e[o] = None /\ o \notin gone
      BY <1>6, <1>7, <1>8
    <2>8. o \in gone => ix.o2e[o] = CalculateExpiryKey(h)
      BY <1>6
    <2>9. r.o2e[o] = IF o \in back THEN CalculateExpiryKey(v[o])
                     ELSE IF o \in Present(ix, gone) THEN None ELSE ix.o2e[o]
      BY <1>17
    <2> QED BY <2>1, <2>2, <2>4, <2>5, <2>6, <2>7, <2>8, <2>9, SMT DEF Present
  <1>21. r.acc = Root(r.o2e)
    <2>1. r.acc \in [Entry -> Int]
      BY <1>15 DEF IndexType
    <2> QED BY <1>20, <2>1 DEF Root
  <1> QED
    BY <1>10, <1>15, <1>16, <1>19, <1>21 DEF Good, r, ins, h, v, gone

-----------------------------------------------------------------------------
(***************************************************************************)
(* The inductive invariant.  IndexMatchesTip speaks of committed states    *)
(* only; to carry it through a block, the open transaction is tied to the  *)
(* view after the transactions applied so far, and to the block and the    *)
(* tip it works on.                                                        *)
(***************************************************************************)
TipIs(ix, b) ==
    /\ ix.tipHash = b
    /\ ix.tipHeight = IF b = NoBlock THEN -1 ELSE Height[b]

Connecting ==
    op \in {"connect", "connected"} =>
        /\ blk \in Block
        /\ Parent[blk] = mgrTip
        /\ IsIndexingEnabled(Height[blk]) => validateExpiryCommitment(blk, db.acc)

Disconnecting ==
    op \in {"disconnect", "disconnected"} => blk = mgrTip /\ blk \in Block \ {Genesis}

Halfway ==
    op \in {"connect", "disconnect"} =>
        pos \in 0..NumTxs[blk] /\ Good(work, Live[blk][pos])

Done ==
    /\ op = "connected" => Good(work, ViewAt(blk)) /\ TipIs(work, blk)
    /\ op = "disconnected" => Good(work, ViewAt(Parent[blk])) /\ TipIs(work, Parent[blk])

Errors ==
    /\ err # "inconsistent"
    /\ err = "commitment" =>
          blk \in Block /\ ~validateExpiryCommitment(blk, Root(ExpirySet(ViewAt(Parent[blk]))))

IInv ==
    /\ TypeOK
    /\ Good(db, ViewAt(mgrTip)) /\ TipIs(db, mgrTip)
    /\ Agree(work) /\ work.acc = Root(work.o2e)
    /\ Connecting /\ Disconnecting /\ Halfway /\ Done /\ Errors

\* Storing a tip changes nothing else.
LEMMA SetTipFields ==
    ASSUME NEW ix \in IndexType, NEW b \in Block \cup {NoBlock}, NEW h \in Int
    PROVE  /\ SetTip(ix, b, h) \in IndexType
           /\ SetTip(ix, b, h).tipHash = b
           /\ SetTip(ix, b, h).tipHeight = h
           /\ \A v : Good(ix, v) => Good(SetTip(ix, b, h), v)
  <1> DEFINE r == SetTip(ix, b, h)
  <1>1. /\ r \in IndexType
        /\ r.tipHash = b
        /\ r.tipHeight = h
        /\ r.o2e = ix.o2e /\ r.e2o = ix.e2o /\ r.reap = ix.reap /\ r.o2r = ix.o2r
        /\ r.acc = ix.acc
    BY Zenon DEF SetTip, IndexType
  <1> HIDE DEF r
  <1>2. Agree(ix) => Agree(r)
    BY <1>1, SMT DEF Agree, Present
  <1> QED BY <1>1, <1>2 DEF Good, r

\* The views at both ends of a block.
LEMMA BlockViews ==
    ASSUME NEW b \in Block
    PROVE  /\ NumTxs[b] \in Nat \ {0}
           /\ ViewAt(b) = Live[b][NumTxs[b]]
           /\ ViewAt(Parent[b]) = Live[b][0]
           /\ Parent[b] \in Block \cup {NoBlock}
           /\ b # Genesis => Parent[b] \in Block /\ Height[Parent[b]] = Height[b] - 1
           /\ b = Genesis => Parent[b] = NoBlock /\ Height[b] = 0
           /\ Height[b] \in Nat
           /\ b # NoBlock
  BY TreeAssumption, TxAssumption, LiveAssumption, SMTT(30) DEF ViewAt

\* A block below StartScanHeight changes no expiry set.
LEMMA SkippedBlock ==
    ASSUME NEW b \in Block, ~IsIndexingEnabled(Height[b])
    PROVE  ExpirySet(ViewAt(b)) = ExpirySet(ViewAt(Parent[b]))
  <1>1. \A t \in 0..NumTxs[b] : \A o \in OutPoint : ~shouldIndexCreateHeight(Live[b][t][o])
    <2> SUFFICES ASSUME NEW t \in 0..NumTxs[b], NEW o \in OutPoint
                 PROVE  ~shouldIndexCreateHeight(Live[b][t][o])
      OBVIOUS
    <2>1. Live[b] \in [0..NumTxs[b] -> View] /\ Live[b][t][o] <= Height[b]
      BY LiveAssumption
    <2>2. Live[b][t][o] \in CreateHeight
      BY <2>1, Zenon DEF View
    <2>3. Live[b][t][o] \in Int
      BY <2>2, TreeAssumption, SMT DEF CreateHeight, None
    <2> QED
      BY <2>1, <2>3, TreeAssumption, ParamAssumption, SMT
      DEF IsIndexingEnabled, shouldIndexCreateHeight
  <1>2. 0 \in 0..NumTxs[b] /\ NumTxs[b] \in 0..NumTxs[b]
    BY BlockViews, SMT
  <1>3. /\ \A o \in OutPoint : ~shouldIndexCreateHeight(ViewAt(b)[o])
        /\ \A o \in OutPoint : ~shouldIndexCreateHeight(ViewAt(Parent[b])[o])
    BY <1>1, <1>2, BlockViews
  <1> QED BY <1>3 DEF ExpirySet

\* The new database satisfies the invariant.
LEMMA EmptyGood == EmptyIndex \in IndexType /\ Good(EmptyIndex, EmptyView)
  <1> DEFINE nokeys == [o \in OutPoint |-> NoKey]
  <1>1. EmptyView \in [OutPoint -> Key \cup {None}] /\ nokeys \in [OutPoint -> Int \X Int]
    BY SMT DEF EmptyView, NoKey, None
  <1>2. EmptyAcc \in [Entry -> Int]
    BY SMT DEF EmptyAcc
  <1>3. EmptyIndex \in IndexType
    BY <1>1, <1>2, SMT DEF EmptyIndex, IndexType
  <1>4. /\ EmptyIndex.o2e = EmptyView /\ EmptyIndex.e2o = {} /\ EmptyIndex.reap = {}
        /\ EmptyIndex.o2r = nokeys /\ EmptyIndex.acc = EmptyAcc
    BY DEF EmptyIndex
  <1>5. \A o \in OutPoint : EmptyView[o] = None
    BY DEF EmptyView
  <1>6. EmptyView = ExpirySet(EmptyView)
    BY <1>5, SMT DEF ExpirySet, shouldIndexCreateHeight, None, EmptyView
  <1>7. Present(EmptyIndex, OutPoint) = {}
    BY <1>4, <1>5 DEF Present
  <1>8. Agree(EmptyIndex)
    BY <1>4, <1>7 DEF Agree
  <1>9. EmptyAcc = Root(EmptyView)
    BY <1>5, KeyNotNone DEF EmptyAcc, Root, Entry
  <1> QED BY <1>3, <1>4, <1>6, <1>8, <1>9 DEF Good

LEMMA InitIInv == Init => IInv
  <1> SUFFICES ASSUME Init PROVE IInv
    OBVIOUS
  <1>1. ViewAt(NoBlock) = EmptyView
    BY DEF ViewAt
  <1>2. EmptyIndex.tipHash = NoBlock /\ EmptyIndex.tipHeight = -1
    BY DEF EmptyIndex
  <1>3. TypeOK
    BY EmptyGood, SMT DEF Init, TypeOK, Ops, Errs
  <1>4. Agree(EmptyIndex) /\ EmptyIndex.acc = Root(EmptyIndex.o2e)
    BY EmptyGood DEF Good
  <1> QED
    BY <1>1, <1>2, <1>3, <1>4, EmptyGood
    DEF Init, IInv, TipIs, Connecting, Disconnecting, Halfway, Done, Errors

LEMMA StartConnectIInv ==
    ASSUME IInv, NEW b \in Block, StartConnect(b)
    PROVE  IInv'
  <1>1. db \in IndexType /\ Height[b] \in Nat /\ b \in Block \cup {NoBlock}
    BY TreeAssumption DEF IInv, TypeOK
  <1>2. Good(db, Live[b][0]) /\ db.acc = Root(ExpirySet(ViewAt(Parent[b])))
    BY BlockViews DEF IInv, StartConnect, Good
  <1>3. CASE ~IsIndexingEnabled(Height[b])
    <2>1. /\ work' = SetTip(db, b, Height[b]) /\ op' = "connected" /\ blk' = b
          /\ pos' = NumTxs[b] /\ err' = "none"
          /\ UNCHANGED <<db, mgrTip, curTipHeight>> /\ Parent[b] = mgrTip
      BY <1>3 DEF StartConnect
    <2>2. Good(db, ViewAt(b))
      BY <1>3, <2>1, SkippedBlock DEF IInv, Good
    <2>3. work' \in IndexType /\ Good(work', ViewAt(b)) /\ TipIs(work', b)
      <3>1. /\ SetTip(db, b, Height[b]) \in IndexType
            /\ SetTip(db, b, Height[b]).tipHash = b
            /\ SetTip(db, b, Height[b]).tipHeight = Height[b]
            /\ Good(SetTip(db, b, Height[b]), ViewAt(b))
        BY <1>1, <2>2, SetTipFields, SMT
      <3> QED BY <2>1, <3>1, BlockViews DEF TipIs
    <2>4. TypeOK'
      BY <2>1, <2>3, BlockViews DEF IInv, TypeOK, Ops, Errs
    <2>5. Agree(work)' /\ (work.acc = Root(work.o2e))'
      BY <2>3, SMTT(30) DEF Good, Agree, Present
    <2>6. (Good(db, ViewAt(mgrTip)) /\ TipIs(db, mgrTip))'
      BY <2>1 DEF IInv, Good, TipIs, Agree, Present
    <2>7. Connecting' /\ Disconnecting' /\ Halfway' /\ Errors'
      BY <1>3, <2>1, Zenon DEF Connecting, Disconnecting, Halfway, Errors
    <2>8. Done'
      BY <2>1, <2>3 DEF Done, Good, TipIs, Agree, Present
    <2> QED
      BY <2>4, <2>5, <2>6, <2>7, <2>8, SMTT(30) DEF IInv
  <1>4. CASE IsIndexingEnabled(Height[b]) /\ validateExpiryCommitment(b, db.acc)
    <2>1. /\ work' = db /\ op' = "connect" /\ blk' = b /\ pos' = 0 /\ err' = "none"
          /\ UNCHANGED <<db, mgrTip, curTipHeight>> /\ Parent[b] = mgrTip
      BY <1>4 DEF StartConnect
    <2>2. TypeOK'
      BY <2>1 DEF IInv, TypeOK, Ops, Errs
    <2>3. 0 \in 0..NumTxs[b]
      BY BlockViews, SMT
    <2> QED
      BY <1>2, <1>4, <2>1, <2>2, <2>3, Zenon
      DEF IInv, Connecting, Disconnecting, Halfway, Done, Errors, Good, TipIs
  <1>5. CASE IsIndexingEnabled(Height[b]) /\ ~validateExpiryCommitment(b, db.acc)
    <2>1. /\ work' = db /\ op' = "abort" /\ blk' = b /\ pos' = 0 /\ err' = "commitment"
          /\ UNCHANGED <<db, mgrTip, curTipHeight>>
      BY <1>5 DEF StartConnect
    <2>2. TypeOK'
      BY <2>1 DEF IInv, TypeOK, Ops, Errs
    <2> QED
      BY <1>2, <1>5, <2>1, <2>2, Zenon
      DEF IInv, Connecting, Disconnecting, Halfway, Done, Errors, Good, TipIs
  <1> QED BY <1>3, <1>4, <1>5

LEMMA ConnectNextTxIInv ==
    ASSUME IInv, ConnectNextTx
    PROVE  IInv'
  <1> DEFINE ins == Ins[blk][pos + 1]
             outs == Outs[blk][pos + 1]
  <1>1. op = "connect" /\ pos < NumTxs[blk] /\ blk \in Block
    BY DEF IInv, ConnectNextTx, Connecting
  <1>2. pos \in 0..NumTxs[blk] /\ Good(work, Live[blk][pos]) /\ work \in IndexType
    BY <1>1 DEF IInv, Halfway, TypeOK
  <1>3. pos + 1 \in 1..NumTxs[blk] /\ (pos + 1) - 1 = pos /\ pos + 1 \in 0..NumTxs[blk]
    BY <1>1, <1>2, BlockViews, SMT
  <1>4. /\ ~InconsistentIndex(work, ins)
        /\ ConnectTx(work, ins, outs, Height[blk]) \in IndexType
        /\ Good(ConnectTx(work, ins, outs, Height[blk]), Live[blk][pos + 1])
    BY <1>1, <1>2, <1>3, ConnectTxGood
  <1>5. /\ work' = ConnectTx(work, ins, outs, Height[blk]) /\ pos' = pos + 1
        /\ UNCHANGED <<op, err, db, mgrTip, blk, curTipHeight>>
    BY <1>4, SMTT(30) DEF ConnectNextTx
  <1>6. work' \in IndexType /\ Good(work', Live[blk][pos + 1])
    BY <1>4, <1>5, SMTT(30)
  <1>7. TypeOK'
    BY <1>3, <1>5, <1>6, SMT DEF IInv, TypeOK
  <1>8. Agree(work)' /\ (work.acc = Root(work.o2e))'
    BY <1>6, SMTT(30) DEF Good, Agree, Present
  <1>9. Halfway'
    BY <1>3, <1>5, <1>6 DEF Halfway, Good, Agree, Present
  <1>10. (Good(db, ViewAt(mgrTip)) /\ TipIs(db, mgrTip))'
    BY <1>5 DEF IInv, Good, TipIs, Agree, Present
  <1>11. Connecting' /\ Disconnecting' /\ Done' /\ Errors'
    BY <1>1, <1>5, Zenon DEF IInv, Connecting, Disconnecting, Done, Errors
  <1> QED
    BY <1>7, <1>8, <1>9, <1>10, <1>11 DEF IInv

LEMMA FinishConnectIInv ==
    ASSUME IInv, FinishConnect
    PROVE  IInv'
  <1>1. op = "connect" /\ pos = NumTxs[blk] /\ blk \in Block
    BY DEF IInv, FinishConnect, Connecting
  <1>2. Good(work, ViewAt(blk)) /\ work \in IndexType
    BY <1>1, BlockViews DEF IInv, Halfway, TypeOK
  <1>3. /\ work' = SetTip(work, blk, Height[blk]) /\ op' = "connected"
        /\ curTipHeight' = Height[blk]
        /\ UNCHANGED <<db, mgrTip, blk, pos, err>>
    BY DEF FinishConnect
  <1>4. work' \in IndexType /\ Good(work', ViewAt(blk)) /\ TipIs(work', blk)
    <2>1. blk \in Block \cup {NoBlock} /\ Height[blk] \in Int
      BY <1>1, BlockViews, SMT
    <2>2. /\ SetTip(work, blk, Height[blk]) \in IndexType
          /\ SetTip(work, blk, Height[blk]).tipHash = blk
          /\ SetTip(work, blk, Height[blk]).tipHeight = Height[blk]
          /\ Good(SetTip(work, blk, Height[blk]), ViewAt(blk))
      <3>1. work \in IndexType
        BY <1>2
      <3>2. \A v : Good(work, v) => Good(SetTip(work, blk, Height[blk]), v)
        BY <2>1, <3>1, SetTipFields, Zenon
      <3>3. /\ SetTip(work, blk, Height[blk]) \in IndexType
            /\ SetTip(work, blk, Height[blk]).tipHash = blk
            /\ SetTip(work, blk, Height[blk]).tipHeight = Height[blk]
        BY <2>1, <3>1, SetTipFields, SMT
      <3> QED BY <1>2, <3>2, <3>3
    <2> QED BY <1>1, <1>3, <2>2, BlockViews DEF TipIs
  <1>5. TypeOK'
    BY <1>1, <1>3, <1>4, BlockViews, SMT DEF IInv, TypeOK, Ops
  <1>6. Agree(work)' /\ (work.acc = Root(work.o2e))'
    BY <1>4 DEF Good, Agree, Present
  <1>7. Done'
    BY <1>3, <1>4 DEF Done, Good, TipIs, Agree, Present
  <1>8. (Good(db, ViewAt(mgrTip)) /\ TipIs(db, mgrTip))'
    BY <1>3, ZenonT(40) DEF IInv, Good, TipIs, Agree, Present
  <1>9. Connecting' /\ Disconnecting' /\ Halfway' /\ Errors'
    BY <1>1, <1>3 DEF IInv, Connecting, Disconnecting, Halfway, Errors
  <1> QED
    BY <1>5, <1>6, <1>7, <1>8, <1>9 DEF IInv

LEMMA StartDisconnectIInv ==
    ASSUME IInv, StartDisconnect
    PROVE  IInv'
  <1>1. /\ mgrTip \in Block \ {Genesis} /\ db \in IndexType /\ Good(db, ViewAt(mgrTip))
        /\ blk' = mgrTip /\ err' = "none" /\ UNCHANGED <<db, mgrTip, curTipHeight>>
    BY DEF IInv, StartDisconnect, TypeOK
  <1>2. (Good(db, ViewAt(mgrTip)) /\ TipIs(db, mgrTip))'
    BY <1>1, ZenonT(40) DEF IInv, Good, TipIs, Agree, Present
  <1>3. CASE ~IsIndexingEnabled(Height[mgrTip])
    <2> DEFINE r == SetTip(db, Parent[mgrTip], Height[mgrTip] - 1)
    <2>1. work' = r /\ op' = "disconnected" /\ pos' = 0
      BY <1>3, SMTT(30) DEF StartDisconnect
    <2>2. Good(db, ViewAt(Parent[mgrTip]))
      BY <1>1, <1>3, SkippedBlock DEF Good
    <2>3. /\ Parent[mgrTip] \in Block \cup {NoBlock} /\ Height[mgrTip] - 1 \in Int
          /\ Parent[mgrTip] # NoBlock /\ Height[Parent[mgrTip]] = Height[mgrTip] - 1
      BY <1>1, BlockViews, TreeAssumption, SMT
    <2>4. /\ r \in IndexType /\ r.tipHash = Parent[mgrTip] /\ r.tipHeight = Height[mgrTip] - 1
          /\ Good(r, ViewAt(Parent[mgrTip]))
      BY <1>1, <2>2, <2>3, SetTipFields, SMT
    <2> HIDE DEF r
    <2>5. work' \in IndexType /\ Good(work', ViewAt(Parent[mgrTip])) /\ TipIs(work', Parent[mgrTip])
      BY <2>1, <2>3, <2>4 DEF TipIs
    <2>6. TypeOK'
      BY <1>1, <2>1, <2>5 DEF IInv, TypeOK, Ops, Errs
    <2>7. (Agree(work) /\ work.acc = Root(work.o2e))'
      BY <2>5 DEF Good, Agree, Present
    <2>8. Connecting' /\ Disconnecting' /\ Halfway' /\ Errors'
      BY <1>1, <2>1, SMTT(30) DEF Connecting, Disconnecting, Halfway, Errors
    <2>9. Done'
      BY <1>1, <2>1, <2>5 DEF Done, Good, TipIs, Agree, Present
    <2> QED
      BY <1>2, <2>6, <2>7, <2>8, <2>9 DEF IInv
  <1>4. CASE IsIndexingEnabled(Height[mgrTip])
    <2>1. work' = db /\ op' = "disconnect" /\ pos' = NumTxs[mgrTip]
      BY <1>4 DEF StartDisconnect
    <2>2. NumTxs[mgrTip] \in Nat /\ NumTxs[mgrTip] \in 0..NumTxs[mgrTip]
      BY <1>1, BlockViews, SMT
    <2>3. Good(db, Live[mgrTip][NumTxs[mgrTip]])
      BY <1>1, BlockViews
    <2>4. TypeOK'
      BY <1>1, <2>1, <2>2 DEF IInv, TypeOK, Ops, Errs
    <2>5. (Agree(work) /\ work.acc = Root(work.o2e))'
      BY <1>1, <2>1 DEF Good, Agree, Present
    <2>6. Connecting' /\ Disconnecting' /\ Done' /\ Errors'
      BY <1>1, <2>1, SMTT(30) DEF Connecting, Disconnecting, Done, Errors
    <2>7. Halfway'
      BY <1>1, <2>1, <2>2, <2>3 DEF Halfway, Good, Agree, Present
    <2> QED
      BY <1>2, <2>4, <2>5, <2>6, <2>7 DEF IInv
  <1> QED BY <1>3, <1>4, SMTT(30)

LEMMA DisconnectNextTxIInv ==
    ASSUME IInv, DisconnectNextTx
    PROVE  IInv'
  <1> DEFINE r == DisconnectTx(work, Ins[blk][pos], Outs[blk][pos], Height[blk], Live[blk][pos - 1])
  <1>1. op = "disconnect" /\ pos > 0 /\ blk \in Block
    BY DEF IInv, DisconnectNextTx, Disconnecting
  <1>2. pos \in 0..NumTxs[blk] /\ Good(work, Live[blk][pos]) /\ work \in IndexType
    BY <1>1 DEF IInv, Halfway, TypeOK
  <1>3. pos \in 1..NumTxs[blk] /\ pos - 1 \in 0..NumTxs[blk] /\ pos - 1 \in Nat
    BY <1>1, <1>2, BlockViews, SMTT(30)
  <1>4. /\ ~InconsistentIndex(work, IndexedOuts(Outs[blk][pos], Height[blk]))
        /\ r \in IndexType
        /\ Good(r, Live[blk][pos - 1])
    BY <1>1, <1>2, <1>3, DisconnectTxGood
  <1>5. /\ work' = r /\ pos' = pos - 1
        /\ UNCHANGED <<op, err, db, mgrTip, blk, curTipHeight>>
    BY <1>4, SMTT(30) DEF DisconnectNextTx
  <1>6. work' \in IndexType /\ Good(work', Live[blk][pos - 1])
    BY <1>4, <1>5
  <1>7. TypeOK'
    BY <1>3, <1>5, <1>6, SMTT(30) DEF IInv, TypeOK
  <1>8. (Agree(work) /\ work.acc = Root(work.o2e))'
    BY <1>6, SMTT(30) DEF Good, Agree, Present
  <1>9. Halfway'
    BY <1>3, <1>5, <1>6 DEF Halfway, Good, Agree, Present
  <1>10. (Good(db, ViewAt(mgrTip)) /\ TipIs(db, mgrTip))'
    BY <1>5 DEF IInv, Good, TipIs, Agree, Present
  <1>11. Connecting' /\ Disconnecting' /\ Done' /\ Errors'
    BY <1>1, <1>5, Zenon DEF IInv, Connecting, Disconnecting, Done, Errors
  <1> QED
    BY <1>7, <1>8, <1>9, <1>10, <1>11, SMTT(30) DEF IInv

LEMMA FinishDisconnectIInv ==
    ASSUME IInv, FinishDisconnect
    PROVE  IInv'
  <1> DEFINE r == SetTip(work, Parent[blk], Height[blk] - 1)
  <1>1. op = "disconnect" /\ pos = 0 /\ blk \in Block \ {Genesis}
    BY DEF IInv, FinishDisconnect, Disconnecting
  <1>2. Good(work, ViewAt(Parent[blk])) /\ work \in IndexType
    BY <1>1, BlockViews DEF IInv, Halfway, TypeOK
  <1>3. /\ work' = r /\ op' = "disconnected" /\ curTipHeight' = Height[blk] - 1
        /\ UNCHANGED <<db, mgrTip, blk, pos, err>>
    BY DEF FinishDisconnect
  <1>4. /\ Parent[blk] \in Block \cup {NoBlock} /\ Height[blk] - 1 \in Int
        /\ Parent[blk] # NoBlock /\ Height[Parent[blk]] = Height[blk] - 1
    BY <1>1, BlockViews, TreeAssumption, SMT
  <1>5. /\ r \in IndexType /\ r.tipHash = Parent[blk] /\ r.tipHeight = Height[blk] - 1
        /\ Good(r, ViewAt(Parent[blk]))
    BY <1>2, <1>4, SetTipFields, SMT
  <1> HIDE DEF r
  <1>6. work' \in IndexType /\ Good(work', ViewAt(Parent[blk])) /\ TipIs(work', Parent[blk])
    BY <1>3, <1>4, <1>5 DEF TipIs
  <1>7. TypeOK'
    BY <1>3, <1>4, <1>6, SMTT(30) DEF IInv, TypeOK, Ops
  <1>8. (Agree(work) /\ work.acc = Root(work.o2e))'
    BY <1>6 DEF Good, Agree, Present
  <1>9. Done'
    BY <1>3, <1>6, SMTT(30) DEF Done, Good, TipIs, Agree, Present
  <1>10. (Good(db, ViewAt(mgrTip)) /\ TipIs(db, mgrTip))'
    BY <1>3 DEF IInv, Good, TipIs, Agree, Present
  <1>11. Connecting' /\ Disconnecting' /\ Halfway' /\ Errors'
    BY <1>1, <1>3, Zenon DEF IInv, Connecting, Disconnecting, Halfway, Errors
  <1> QED
    BY <1>7, <1>8, <1>9, <1>10, <1>11 DEF IInv

LEMMA CommitIInv ==
    ASSUME IInv, Commit
    PROVE  IInv'
  <1>1. /\ op \in {"connected", "disconnected"} /\ op' = "idle"
        /\ db' = work /\ mgrTip' = IF op = "connected" THEN blk ELSE Parent[blk]
        /\ UNCHANGED <<work, blk, pos, err, curTipHeight>>
    BY DEF Commit
  <1>2. blk \in Block
    BY <1>1 DEF IInv, Connecting, Disconnecting
  <1>3. Good(work, ViewAt(mgrTip')) /\ TipIs(work, mgrTip')
    BY <1>1 DEF IInv, Done
  <1>4. TypeOK'
    BY <1>1, <1>2, BlockViews, SMTT(30) DEF IInv, TypeOK, Ops
  <1>5. (Good(db, ViewAt(mgrTip)) /\ TipIs(db, mgrTip))'
    <2>1. db' = work
      BY <1>1
    <2> QED BY <2>1, <1>3 DEF Good, TipIs, Agree, Present, ViewAt
  <1>6. (Agree(work) /\ work.acc = Root(work.o2e))'
    BY <1>1, SMTT(30) DEF IInv, Agree, Present
  <1>7. Connecting' /\ Disconnecting' /\ Halfway' /\ Done' /\ Errors'
    BY <1>1 DEF IInv, Connecting, Disconnecting, Halfway, Done, Errors
  <1> QED
    BY <1>4, <1>5, <1>6, <1>7 DEF IInv

LEMMA DatabaseErrorIInv ==
    ASSUME IInv, DatabaseError
    PROVE  IInv'
  <1>1. op' = "abort" /\ err' = "database" /\ UNCHANGED <<db, mgrTip, work, blk, pos, curTipHeight>>
    BY DEF DatabaseError
  <1>2. TypeOK'
    BY <1>1, SMTT(30) DEF IInv, TypeOK, Ops, Errs
  <1>3. (Good(db, ViewAt(mgrTip)) /\ TipIs(db, mgrTip) /\ Agree(work) /\ work.acc = Root(work.o2e))'
    BY <1>1, ZenonT(40) DEF IInv, Good, TipIs, Agree, Present
  <1>4. Connecting' /\ Disconnecting' /\ Halfway' /\ Done' /\ Errors'
    BY <1>1, Zenon DEF Connecting, Disconnecting, Halfway, Done, Errors
  <1> QED
    BY <1>2, <1>3, <1>4 DEF IInv

LEMMA RollbackIInv ==
    ASSUME IInv, Rollback
    PROVE  IInv'
  <1>1. op' = "idle" /\ work' = db /\ UNCHANGED <<db, mgrTip, blk, pos, err, curTipHeight>>
    BY DEF Rollback
  <1>2. TypeOK'
    BY <1>1, SMTT(30) DEF IInv, TypeOK, Ops
  <1>3. (Good(db, ViewAt(mgrTip)) /\ TipIs(db, mgrTip) /\ Agree(work) /\ work.acc = Root(work.o2e))'
    BY <1>1, ZenonT(40) DEF IInv, Good, TipIs, Agree, Present
  <1>4. Connecting' /\ Disconnecting' /\ Halfway' /\ Done' /\ Errors'
    BY <1>1, Zenon DEF IInv, Connecting, Disconnecting, Halfway, Done, Errors
  <1> QED
    BY <1>2, <1>3, <1>4 DEF IInv

LEMMA CrashIInv ==
    ASSUME IInv, Crash
    PROVE  IInv'
  <1>1. /\ op' = "idle" /\ work' = db /\ blk' = NoBlock /\ pos' = 0 /\ err' = "none"
        /\ curTipHeight' = db.tipHeight /\ UNCHANGED <<db, mgrTip>>
    BY DEF Crash
  <1>2. db.tipHeight \in Int
    BY DEF IInv, TypeOK, IndexType
  <1>3. TypeOK'
    BY <1>1, <1>2 DEF IInv, TypeOK, Ops, Errs
  <1>4. (Good(db, ViewAt(mgrTip)) /\ TipIs(db, mgrTip) /\ Agree(work) /\ work.acc = Root(work.o2e))'
    BY <1>1, Zenon DEF IInv, Good, TipIs, Agree, Present
  <1>5. Connecting' /\ Disconnecting' /\ Halfway' /\ Done' /\ Errors'
    BY <1>1, Zenon DEF Connecting, Disconnecting, Halfway, Done, Errors
  <1> QED
    BY <1>3, <1>4, <1>5 DEF IInv

LEMMA StutterIInv ==
    ASSUME IInv, UNCHANGED vars
    PROVE  IInv'
  <1>1. UNCHANGED <<db, mgrTip, work, op, blk, pos, err, curTipHeight>>
    BY DEF vars
  <1> QED
    BY <1>1, ZenonT(40) DEF IInv, TypeOK, Good, TipIs, Agree, Present, Connecting, Disconnecting,
                Halfway, Done, Errors

\* Every step of the index preserves the inductive invariant.
LEMMA NextIInv ==
    ASSUME IInv, [Next]_vars
    PROVE  IInv'
  <1>1. ASSUME NEW b \in Block, StartConnect(b) PROVE IInv'
    BY <1>1, StartConnectIInv
  <1> QED
    BY <1>1, ConnectNextTxIInv, FinishConnectIInv, StartDisconnectIInv, DisconnectNextTxIInv,
       FinishDisconnectIInv, CommitIInv, DatabaseErrorIInv, RollbackIInv, CrashIInv, StutterIInv
    DEF Next

\* The inductive invariant holds in every reachable state.
THEOREM Invariance == Spec => []IInv
  <1>1. IInv /\ [Next]_vars => IInv'
    BY NextIInv
  <1> QED
    BY <1>1, InitIInv, PTL DEF Spec

\* The persisted and the open index content are always well formed.
THEOREM TypeCorrect == Spec => []TypeOK
  <1>1. IInv => TypeOK
    BY DEF IInv
  <1> QED BY <1>1, Invariance, PTL

\* The four buckets never disagree, not even inside a block.
THEOREM BucketsAlwaysAgree == Spec => []BucketsAgree
  <1>1. IInv => BucketsAgree
    BY DEF IInv, Good, BucketsAgree
  <1> QED BY <1>1, Invariance, PTL

\* What ConnectBlock and DisconnectBlock commit is always the expiry set of the
\* unspent outputs at the committed tip.
THEOREM IndexAlwaysMatchesTip == Spec => []IndexMatchesTip
  <1>1. IInv => IndexMatchesTip
    BY DEF IInv, Good, TipIs, IndexMatchesTip
  <1> QED BY <1>1, Invariance, PTL

\* The MuHash accumulator is always the hash of the indexed set.
THEOREM RootAlwaysMatchesSet == Spec => []RootMatchesSet
  <1>1. IInv => RootMatchesSet
    BY DEF IInv, Good, RootMatchesSet
  <1> QED BY <1>1, Invariance, PTL

\* The "inconsistent index" errors of disconnectTxOut are unreachable.
THEOREM InconsistencyUnreachable == Spec => []NeverInconsistent
  <1>1. IInv => NeverInconsistent
    BY DEF IInv, Errors, NeverInconsistent
  <1> QED BY <1>1, Invariance, PTL

\* All of it at once: the types, the agreement of the buckets, the content, the
\* accumulator and the unreachable errors.
THEOREM IndexAlwaysSound == Spec => []IndexSound
  <1>1. IInv => IndexSound
    BY DEF IInv, Good, TipIs, Errors, IndexSound, BucketsAgree, IndexMatchesTip,
           RootMatchesSet, NeverInconsistent
  <1> QED BY <1>1, Invariance, PTL

\* No block with the right commitment is ever refused.
THEOREM HonestCommitmentAlwaysAccepted == Spec => []HonestCommitmentAccepted
  <1>1. IInv => HonestCommitmentAccepted
    BY DEF IInv, Errors, HonestCommitmentAccepted
  <1> QED BY <1>1, Invariance, PTL

\* Only a commit moves the tip or changes what is committed.
LEMMA OnlyCommitWrites ==
    ASSUME [Next]_vars, ~Commit
    PROVE  UNCHANGED <<db, mgrTip>>
  BY Zenon DEF Next, vars, StartConnect, ConnectNextTx, FinishConnect, StartDisconnect,
         DisconnectNextTx, FinishDisconnect, DatabaseError, Rollback, Crash

\* The abstract index is about the same tree and the same expiry rules.
LEMMA SameTree ==
    /\ \A b \in Block \cup {NoBlock} :
          /\ Abstract!ExpirySet(Abstract!ViewAt(b)) = ExpirySet(ViewAt(b))
          /\ Abstract!Root(Abstract!ExpirySet(Abstract!ViewAt(b))) = Root(ExpirySet(ViewAt(b)))
    /\ \A b \in Block : \A r :
          /\ Abstract!IsIndexingEnabled(Height[b]) <=> IsIndexingEnabled(Height[b])
          /\ Abstract!validateExpiryCommitment(b, r) <=> validateExpiryCommitment(b, r)
  <1>1. \A b \in Block \cup {NoBlock} : Abstract!ViewAt(b) = ViewAt(b)
    BY DEF ViewAt, Abstract!ViewAt, EmptyView, Abstract!EmptyView, None, Abstract!None
  <1>2. \A v : Abstract!ExpirySet(v) = ExpirySet(v)
    BY DEF ExpirySet, Abstract!ExpirySet, None, Abstract!None,
           shouldIndexCreateHeight, Abstract!shouldIndexCreateHeight,
           CalculateExpiryKey, Abstract!CalculateExpiryKey
  <1>3. Abstract!Entry = Entry
    BY DEF Entry, Abstract!Entry, Key, Abstract!Key, CalculateExpiryKey, Abstract!CalculateExpiryKey
  <1>4. \A x : Abstract!Root(x) = Root(x)
    BY <1>3 DEF Root, Abstract!Root
  <1>5. \A b \in Block : \A r :
          /\ Abstract!IsIndexingEnabled(Height[b]) <=> IsIndexingEnabled(Height[b])
          /\ Abstract!validateExpiryCommitment(b, r) <=> validateExpiryCommitment(b, r)
    BY DEF IsIndexingEnabled, Abstract!IsIndexingEnabled,
           validateExpiryCommitment, Abstract!validateExpiryCommitment,
           isCommitmentActive, Abstract!isCommitmentActive,
           CommitmentVersion, Abstract!CommitmentVersion
  <1> QED BY <1>1, <1>2, <1>4, <1>5

\* A commit is a step of the abstract index.
LEMMA CommitRefines ==
    ASSUME IInv, Commit
    PROVE  Abstract!Next
  <1>1. /\ op \in {"connected", "disconnected"} /\ db' = work
        /\ mgrTip' = IF op = "connected" THEN blk ELSE Parent[blk]
    BY DEF Commit
  <1>2. CASE op = "connected"
    <2>1. PICK b \in Block : b = blk
      BY <1>2 DEF IInv, Connecting
    <2>2. Parent[b] = mgrTip /\ (IsIndexingEnabled(Height[b]) => validateExpiryCommitment(b, db.acc))
      BY <1>2, <2>1 DEF IInv, Connecting
    <2>3. work.o2e = ExpirySet(ViewAt(b)) /\ work.acc = Root(ExpirySet(ViewAt(b)))
      BY <1>2, <2>1 DEF IInv, Done, Good
    <2>4. Abstract!At(b)'
      BY <1>1, <1>2, <2>1, <2>3, SameTree DEF Abstract!At
    <2>5. Abstract!IsIndexingEnabled(Height[b]) => Abstract!validateExpiryCommitment(b, db.acc)
      BY <2>2, SameTree, SMTT(30)
    <2> QED
      BY <2>2, <2>4, <2>5 DEF Abstract!ConnectBlock, Abstract!Next
  <1>3. CASE op = "disconnected"
    <2>1. blk = mgrTip /\ blk \in Block \ {Genesis}
      BY <1>3 DEF IInv, Disconnecting
    <2>2. Parent[blk] \in Block /\ blk # NoBlock
      BY <2>1, BlockViews
    <2>3. /\ work.o2e = ExpirySet(ViewAt(Parent[blk]))
          /\ work.acc = Root(ExpirySet(ViewAt(Parent[blk])))
      BY <1>3 DEF IInv, Done, Good
    <2> QED
      BY <1>1, <1>3, <2>1, <2>2, <2>3, SameTree DEF Abstract!DisconnectBlock, Abstract!At, Abstract!Next
  <1> QED BY <1>1, <1>2, <1>3

\* A block enters the committed chain only with the right commitment.
THEOREM CommitmentAlwaysBindsParent == Spec => CommitmentBindsParent
  <1> DEFINE A == \A b \in Block :
                    mgrTip' = b /\ Parent[b] = mgrTip /\ IsIndexingEnabled(Height[b]) =>
                      validateExpiryCommitment(b, Root(ExpirySet(ViewAt(mgrTip))))
  <1>1. IInv /\ [Next]_vars => A
    <2> SUFFICES ASSUME IInv, [Next]_vars, NEW b \in Block,
                        mgrTip' = b, Parent[b] = mgrTip, IsIndexingEnabled(Height[b])
                 PROVE  validateExpiryCommitment(b, Root(ExpirySet(ViewAt(mgrTip))))
      OBVIOUS
    <2>1. CASE Commit
      <3>1. db.acc = Root(ExpirySet(ViewAt(mgrTip)))
        BY DEF IInv, Good
      <3>2. CASE op = "connected"
        BY <2>1, <3>1, <3>2 DEF Commit, IInv, Connecting
      <3>3. CASE op = "disconnected"
        <4>1. blk = mgrTip /\ blk \in Block \ {Genesis} /\ mgrTip' = Parent[blk]
          BY <2>1, <3>3 DEF Commit, IInv, Disconnecting
        <4>2. Height[b] = Height[mgrTip] - 1 /\ Height[mgrTip] \in Nat
          BY <4>1, BlockViews, SMT
        <4>3. b # Genesis /\ Height[mgrTip] = Height[b] - 1
          BY <4>1, BlockViews
        <4> QED BY <4>2, <4>3, SMT
      <3> QED BY <2>1, <3>2, <3>3 DEF Commit
    <2>2. CASE ~Commit
      <3>1. mgrTip = b
        BY <2>2, OnlyCommitWrites
      <3> QED BY <3>1, BlockViews, TreeAssumption, SMT
    <2> QED BY <2>1, <2>2
  <1> QED
    BY <1>1, Invariance, PTL DEF Spec, CommitmentBindsParent

\* The index, with its open transactions, errors, rollbacks and crashes,
\* implements the block-at-a-time index of ExpiryIndexSpec.
THEOREM IndexImplementsSpec == Spec => ImplementsSpec
  <1>1. Init => Abstract!Init
    <2> SUFFICES ASSUME Init PROVE Abstract!Init
      OBVIOUS
    <2>1. mgrTip = NoBlock /\ Good(db, ViewAt(mgrTip))
      BY InitIInv DEF Init, IInv
    <2> QED BY <2>1, SameTree DEF Good, Abstract!Init, Abstract!At
  <1>2. IInv /\ [Next]_vars => [Abstract!Next]_<<mgrTip, db.o2e, db.acc>>
    <2> SUFFICES ASSUME IInv, [Next]_vars
                 PROVE  Abstract!Next \/ UNCHANGED <<mgrTip, db.o2e, db.acc>>
      OBVIOUS
    <2>1. CASE Commit
      BY <2>1, CommitRefines
    <2>2. CASE ~Commit
      BY <2>2, OnlyCommitWrites
    <2> QED BY <2>1, <2>2
  <1> QED
    BY <1>1, <1>2, Invariance, PTL DEF Spec, ImplementsSpec, Abstract!Spec
=============================================================================
