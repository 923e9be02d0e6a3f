-------------------------- MODULE UtxoCacheProofs --------------------------
(***************************************************************************)
(* Proofs about UtxoCache, for every block tree, every pruning depth and   *)
(* any number of crashes and failed database transactions.                 *)
(***************************************************************************)
EXTENDS UtxoCache, TLAPS

USE Zenon

(***************************************************************************)
(* The operators on the cache and on the view                              *)
(***************************************************************************)

\* The cache c over the database: what Lookup finds for every outpoint.
Over(c) == [o \in OutPoint |-> IF o \notin DOMAIN c THEN disk[o]
                               ELSE IF c[o].spent THEN None ELSE c[o].h]

\* A cache and the flags of its entries, as FlagsAreTrue has them.
Entries(c) == DOMAIN c \subseteq OutPoint /\ \A o \in DOMAIN c : c[o] \in CacheEntry
Flags(c) == \A o \in DOMAIN c :
    /\ c[o].fresh => disk[o] = None
    /\ ~c[o].modified => c[o].h = disk[o] /\ ~c[o].spent

\* The view of a reorganization that began with the unspent outputs old, and
\* has undone transactions until they are new.
Undone(v, old, new) == \A o \in OutPoint :
    IF o \notin DOMAIN v THEN new[o] = old[o]
    ELSE IF v[o].modified THEN new[o] = IF v[o].spent THEN None ELSE v[o].h
    ELSE new[o] = old[o] /\ v[o].h = new[o] /\ ~v[o].spent

\* Every set of unspent outputs of the tree is a view.
LEMMA LiveIsView ==
    ASSUME NEW b \in Block, NEW t \in 0..NumTxs[b]
    PROVE  Live[b][t] \in View
  BY LiveAssumption

LEMMA ViewAtIsView ==
    ASSUME NEW b \in Block
    PROVE  ViewAt(b) = Live[b][NumTxs[b]] /\ ViewAt(b) \in View
  BY LiveIsView, TreeAssumption, TxAssumption, SMT DEF ViewAt

\* The empty cache shows the database.
LEMMA EmptyCache ==
    ASSUME disk \in View
    PROVE  Over(Empty) = disk /\ Entries(Empty) /\ Flags(Empty)
  BY DEF Over, Empty, Entries, Flags, View

\* A lookup fills the cache with what it shows already.
LEMMA FetchKeeps ==
    ASSUME NEW c, Entries(c), Flags(c), disk \in View, NEW S \in SUBSET OutPoint
    PROVE  LET f == fetchEntries(c, S) IN
           /\ Entries(f) /\ Flags(f) /\ Over(f) = Over(c)
           /\ DOMAIN f = DOMAIN c \cup S
           /\ \A o \in DOMAIN c : f[o] = c[o]
  <1> DEFINE new(o) == [h |-> disk[o], spent |-> FALSE, fresh |-> FALSE, modified |-> FALSE]
             f == fetchEntries(c, S)
  <1>1. \A o \in OutPoint : disk[o] \in CreateHeight
    BY DEF View
  <1>2. DOMAIN f = DOMAIN c \cup S
    BY DEF fetchEntries
  <1>3. \A o \in DOMAIN f : f[o] = IF o \in DOMAIN c THEN c[o] ELSE new(o)
    BY DEF fetchEntries
  <1>4. \A o \in OutPoint : /\ new(o) \in CacheEntry
                            /\ new(o).h = disk[o] /\ new(o).spent = FALSE
                            /\ new(o).fresh = FALSE /\ new(o).modified = FALSE
    BY <1>1 DEF CacheEntry
  <1> HIDE DEF f, new
  <1>5. Entries(f)
    BY <1>2, <1>3, <1>4 DEF Entries
  <1>6. Flags(f)
    BY <1>2, <1>3, <1>4 DEF Entries, Flags
  <1>7. Over(f) = Over(c)
    BY <1>2, <1>3, <1>4 DEF Entries, Over
  <1> QED
    BY <1>2, <1>3, <1>5, <1>6, <1>7 DEF f

\* A flush writes exactly what the cache shows.
LEMMA FlushWritesLookup ==
    ASSUME NEW c, Entries(c), Flags(c), disk \in View
    PROVE  writeCache(c) = Over(c)
  <1> SUFFICES ASSUME NEW o \in OutPoint
               PROVE  (IF o \notin DOMAIN c THEN disk[o]
                        ELSE IF c[o].h = None \/ c[o].spent THEN None
                        ELSE IF ~c[o].modified THEN disk[o]
                        ELSE c[o].h)
                      = (IF o \notin DOMAIN c THEN disk[o]
                         ELSE IF c[o].spent THEN None ELSE c[o].h)
    BY DEF writeCache, Over
  <1> QED
    BY DEF Flags

\* A cache that shows what block validation holds misses no input.
LEMMA NoInputMissing ==
    ASSUME NEW c, Entries(c), Flags(c), disk \in View,
           NEW b \in Block, NEW t \in 1..NumTxs[b], Over(c) = Live[b][t-1]
    PROVE  ~MissingInput(c, Ins[b][t])
  <1> DEFINE f == fetchEntries(c, Ins[b][t])
  <1>1. Ins[b][t] \in SUBSET OutPoint
    BY TxAssumption
  <1>2. /\ DOMAIN f = DOMAIN c \cup Ins[b][t]
        /\ Over(f) = Live[b][t-1]
    BY <1>1, FetchKeeps
  <1>3. \A o \in Ins[b][t] : Live[b][t-1][o] # None
    BY LiveAssumption
  <1> HIDE DEF f
  <1>4. \A o \in Ins[b][t] : f[o].h # None
    BY <1>1, <1>2, <1>3 DEF Over
  <1> QED
    BY <1>4 DEF MissingInput, f

\* Spending inputs: an entry leaves the cache only if the database lacks it too.
LEMMA SpendInputs ==
    ASSUME NEW c, Entries(c), Flags(c), disk \in View, NEW ins \in SUBSET OutPoint
    PROVE  LET d == addTxIns(c, ins) IN
           /\ Entries(d) /\ Flags(d)
           /\ Over(d) = [o \in OutPoint |-> IF o \in ins THEN None ELSE Over(c)[o]]
  <1> DEFINE f == fetchEntries(c, ins)
             D == DOMAIN f \ {o \in ins : f[o].fresh}
             s(o) == [f[o] EXCEPT !.spent = TRUE, !.modified = TRUE]
             d == addTxIns(c, ins)
  <1>1. /\ Entries(f) /\ Flags(f) /\ Over(f) = Over(c)
        /\ DOMAIN f = DOMAIN c \cup ins
    BY FetchKeeps
  <1>2. DOMAIN d = D /\ \A o \in D : d[o] = IF o \in ins THEN s(o) ELSE f[o]
    BY DEF addTxIns
  <1> HIDE DEF f, d
  <1>3. \A o \in DOMAIN f : /\ s(o) \in CacheEntry
                             /\ s(o).spent = TRUE /\ s(o).modified = TRUE
                             /\ s(o).fresh = f[o].fresh
    BY <1>1 DEF Entries, CacheEntry
  <1> HIDE DEF s
  <1>4. Entries(d)
    BY <1>1, <1>2, <1>3 DEF Entries
  <1>5. Flags(d)
    BY <1>1, <1>2, <1>3 DEF Flags
  <1>6. \A o \in OutPoint : Over(d)[o] = IF o \in ins THEN None ELSE Over(f)[o]
    <2> SUFFICES ASSUME NEW o \in OutPoint
                 PROVE  Over(d)[o] = IF o \in ins THEN None ELSE Over(f)[o]
      OBVIOUS
    <2>1. CASE o \in ins /\ o \in D
      BY <2>1, <1>1, <1>2, <1>3, SMT DEF Over
    <2>2. CASE o \in ins /\ o \notin D
      BY <2>2, <1>1, <1>2 DEF Over, Flags
    <2>3. CASE o \notin ins
      BY <2>3, <1>1, <1>2 DEF Over
    <2> QED BY <2>1, <2>2, <2>3
  <1>7. Over(d) = [o \in OutPoint |-> IF o \in ins THEN None ELSE Over(c)[o]]
    BY <1>1, <1>6 DEF Over
  <1> QED
    BY <1>4, <1>5, <1>7 DEF d

\* Adding outputs that the database does not have.
LEMMA AddOutputs ==
    ASSUME NEW c, Entries(c), Flags(c), disk \in View, NEW outs \in SUBSET OutPoint,
           NEW hh \in CreateHeight, \A o \in outs : disk[o] = None
    PROVE  LET d == addTxOuts(c, outs, hh) IN
           /\ Entries(d) /\ Flags(d)
           /\ Over(d) = [o \in OutPoint |-> IF o \in outs \cap Spendable THEN hh ELSE Over(c)[o]]
  <1> DEFINE N == outs \cap Spendable
             e == [h |-> hh, spent |-> FALSE, fresh |-> TRUE, modified |-> TRUE]
             d == addTxOuts(c, outs, hh)
  <1>1. /\ DOMAIN d = DOMAIN c \cup N
        /\ \A o \in DOMAIN d : d[o] = IF o \in N THEN e ELSE c[o]
    BY DEF addTxOuts
  <1>2. /\ e \in CacheEntry /\ e.h = hh /\ e.spent = FALSE
        /\ e.modified = TRUE
    BY DEF CacheEntry
  <1> HIDE DEF d, e
  <1>3. Entries(d)
    BY <1>1, <1>2 DEF Entries
  <1>4. Flags(d)
    BY <1>1, <1>2 DEF Flags
  <1>5. Over(d) = [o \in OutPoint |-> IF o \in N THEN hh ELSE Over(c)[o]]
    BY <1>1, <1>2 DEF Over
  <1> QED
    BY <1>3, <1>4, <1>5 DEF d

\* Connecting a transaction to the cache is applying it to what the cache shows.
LEMMA ConnectApplies ==
    ASSUME NEW c, Entries(c), Flags(c), disk \in View,
           NEW b \in Block \ {Genesis}, NEW t \in 1..NumTxs[b],
           Over(c) = Live[b][t-1], \A o \in Outs[b][t] : disk[o] = None
    PROVE  LET d == connectTransaction(c, b, t) IN
           Entries(d) /\ Flags(d) /\ Over(d) = Live[b][t]
  <1> DEFINE d1 == addTxIns(c, Ins[b][t])
             d == connectTransaction(c, b, t)
             ins == Ins[b][t]
             outs == Outs[b][t]
  <1>1. ins \in SUBSET OutPoint /\ outs \in SUBSET OutPoint
    BY TxAssumption
  <1>2. Height[b] \in CreateHeight
    BY DEF CreateHeight
  <1>3. /\ Entries(d1) /\ Flags(d1)
        /\ Over(d1) = [o \in OutPoint |-> IF o \in ins THEN None ELSE Live[b][t-1][o]]
    BY <1>1, SpendInputs, SMT
  <1> HIDE DEF d1
  <1>4. d = addTxOuts(d1, outs, Height[b])
    BY DEF connectTransaction, d1
  <1>5. /\ Entries(d) /\ Flags(d)
        /\ Over(d) = [o \in OutPoint |-> IF o \in outs \cap Spendable THEN Height[b]
                                         ELSE Over(d1)[o]]
    BY <1>1, <1>2, <1>3, <1>4, AddOutputs, SMTT(30)
  <1>6. Live[b][t] = [o \in OutPoint |-> IF o \in outs \cap Spendable THEN Height[b]
                                         ELSE IF o \in ins THEN None ELSE Live[b][t-1][o]]
    BY LiveAssumption, SMT DEF ApplyTx, Created
  <1> HIDE DEF d, ins, outs
  <1>7. Over(d) = Live[b][t]
    BY <1>3, <1>5, <1>6, SMT
  <1> QED
    BY <1>5, <1>7 DEF d

\* The view of a reorganization as a cache of entries.
ViewEntries(v) == DOMAIN v \subseteq OutPoint /\ \A o \in DOMAIN v : v[o] \in ViewEntry

\* Undoing a transaction in the view takes it back from the unspent outputs.
LEMMA DisconnectUndoes ==
    ASSUME NEW v, ViewEntries(v), NEW b \in Block \ {Genesis}, NEW t \in 1..NumTxs[b],
           NEW old, Undone(v, old, Live[b][t])
    PROVE  LET w == disconnectTransaction(v, b, t) IN
           ViewEntries(w) /\ Undone(w, old, Live[b][t-1])
  <1> DEFINE ins == Ins[b][t]
             outs == Outs[b][t] \cap Spendable
             before == Live[b][t-1]
             e(o) == IF o \in DOMAIN v THEN v[o]
                     ELSE [h |-> Height[b], spent |-> FALSE, modified |-> FALSE]
             back(o) == [h |-> before[o], spent |-> FALSE, modified |-> TRUE]
             gone(o) == [e(o) EXCEPT !.spent = TRUE, !.modified = TRUE]
             w == disconnectTransaction(v, b, t)
  <1>1. ins \in SUBSET OutPoint /\ outs \in SUBSET OutPoint
    BY TxAssumption
  <1>2. /\ before \in View
        /\ \A o \in outs : before[o] = None
        /\ \A o \in OutPoint \ (ins \cup outs) : Live[b][t][o] = before[o]
    <2>1. before \in View
      BY LiveIsView, TxAssumption, SMT
    <2>2. \A o \in outs : before[o] = None
      BY LiveAssumption
    <2>3. Live[b][t] = ApplyTx(before, ins, Outs[b][t], Height[b])
      BY LiveAssumption DEF Created
    <2> QED BY <2>1, <2>2, <2>3 DEF ApplyTx
  <1>3. \A o \in OutPoint : e(o) \in ViewEntry
    BY DEF ViewEntries, ViewEntry, CreateHeight
  <1> HIDE DEF before
  <1>4. DOMAIN w = DOMAIN v \cup outs \cup ins
    BY DEF disconnectTransaction
  <1>5. \A o \in DOMAIN w : w[o] = IF o \in ins THEN back(o)
                                   ELSE IF o \in outs /\ ~e(o).spent THEN gone(o)
                                   ELSE v[o]
    BY DEF disconnectTransaction, before
  <1>6. \A o \in OutPoint : /\ back(o) \in ViewEntry
                            /\ back(o).h = before[o]
                            /\ back(o).spent = FALSE /\ back(o).modified = TRUE
    BY <1>2 DEF ViewEntry, View
  <1>7. \A o \in OutPoint : /\ gone(o) \in ViewEntry
                            /\ gone(o).spent = TRUE /\ gone(o).modified = TRUE
    BY <1>3 DEF ViewEntry
  <1>8. \A o \in OutPoint : o \notin DOMAIN v => e(o).spent = FALSE
    OBVIOUS
  <1>9. \A o \in DOMAIN v : e(o) = v[o]
    OBVIOUS
  <1> HIDE DEF w, e, back, gone
  <1>10. ViewEntries(w)
    BY <1>1, <1>4, <1>5, <1>6, <1>7, <1>8, <1>9, SMT DEF ViewEntries
  <1>11. Undone(w, old, before)
    <2> SUFFICES ASSUME NEW o \in OutPoint
                 PROVE  IF o \notin DOMAIN w THEN before[o] = old[o]
                        ELSE IF w[o].modified
                        THEN before[o] = IF w[o].spent THEN None ELSE w[o].h
                        ELSE before[o] = old[o] /\ w[o].h = before[o] /\ ~w[o].spent
      BY DEF Undone
    <2>1. CASE o \in ins
      BY <2>1, <1>4, <1>5, <1>6
    <2>2. CASE o \notin ins /\ o \in outs /\ ~e(o).spent
      BY <2>2, <1>2, <1>4, <1>5, <1>7
    <2>3. CASE o \notin ins /\ o \in outs /\ e(o).spent
      <3>1. o \in DOMAIN v /\ v[o].spent
        BY <2>3, <1>8, <1>9
      <3>2. v[o].modified
        BY <3>1 DEF Undone
      <3> QED BY <2>3, <3>1, <3>2, <1>2, <1>4, <1>5
    <2>4. CASE o \notin ins /\ o \notin outs
      BY <2>4, <1>2, <1>4, <1>5, SMT DEF Undone
    <2> QED BY <2>1, <2>2, <2>3, <2>4
  <1> QED
    BY <1>10, <1>11 DEF w, before

\* Writing a view over the outputs it began with gives those it ended with, and
\* what commit leaves of it is a view that has undone nothing since.
LEMMA CommitWrites ==
    ASSUME NEW v, ViewEntries(v), NEW old, NEW new \in View, Undone(v, old, new)
    PROVE  /\ dbPutUtxoView(old, v) = new
           /\ ViewEntries(commit(v))
           /\ Undone(commit(v), new, new)
  <1>1. dbPutUtxoView(old, v) = new
    <2>1. \A o \in OutPoint :
             (IF o \in DOMAIN v /\ v[o].modified
              THEN IF v[o].spent THEN None ELSE v[o].h ELSE old[o]) = new[o]
      BY DEF Undone
    <2>2. new = [o \in OutPoint |-> new[o]]
      BY DEF View
    <2> QED BY <2>1, <2>2 DEF dbPutUtxoView
  <1> DEFINE w == commit(v)
             m(o) == [v[o] EXCEPT !.modified = ~@]
  <1>2. /\ DOMAIN w = {p \in DOMAIN v : ~(v[p].modified /\ v[p].spent)}
        /\ \A o \in DOMAIN w : w[o] = m(o)
    BY DEF commit
  <1>3. \A o \in DOMAIN v : /\ m(o) \in ViewEntry
                            /\ m(o).h = v[o].h /\ m(o).spent = v[o].spent
                            /\ m(o).modified = ~v[o].modified
    BY DEF ViewEntries, ViewEntry
  <1> HIDE DEF w, m
  <1>4. ViewEntries(w)
    BY <1>2, <1>3 DEF ViewEntries
  <1>5. Undone(w, new, new)
    <2> SUFFICES ASSUME NEW o \in DOMAIN w
                 PROVE  IF w[o].modified THEN new[o] = IF w[o].spent THEN None ELSE w[o].h
                        ELSE w[o].h = new[o] /\ ~w[o].spent
      BY DEF Undone
    <2>1. /\ o \in DOMAIN v /\ o \in OutPoint /\ v[o] \in ViewEntry
          /\ ~(v[o].modified /\ v[o].spent)
          /\ w[o].h = v[o].h /\ w[o].spent = v[o].spent /\ w[o].modified = ~v[o].modified
      BY <1>2, <1>3 DEF ViewEntries
    <2>2. IF v[o].modified THEN new[o] = IF v[o].spent THEN None ELSE v[o].h
          ELSE new[o] = old[o] /\ v[o].h = new[o] /\ ~v[o].spent
      BY <2>1 DEF Undone
    <2> QED BY <2>1, <2>2 DEF ViewEntry
  <1> QED
    BY <1>1, <1>4, <1>5 DEF w

-----------------------------------------------------------------------------
(***************************************************************************)
(* Types                                                                   *)
(***************************************************************************)

LEMMA ConnectEntries ==
    ASSUME NEW c, Entries(c), disk \in View, NEW b \in Block, NEW t \in 1..NumTxs[b]
    PROVE  Entries(connectTransaction(c, b, t))
  <1> DEFINE ins == Ins[b][t]
             outs == Outs[b][t]
             f == fetchEntries(c, ins)
             d == addTxIns(c, ins)
             r == addTxOuts(d, outs, Height[b])
  <1>1. ins \in SUBSET OutPoint /\ outs \in SUBSET OutPoint /\ Height[b] \in CreateHeight
    BY TxAssumption DEF CreateHeight
  <1>2. Entries(f) /\ DOMAIN f = DOMAIN c \cup ins
    <2>1. \A o \in ins : disk[o] \in CreateHeight
      BY <1>1 DEF View
    <2> QED BY <1>1, <2>1 DEF fetchEntries, Entries, CacheEntry
  <1>3. Entries(d)
    <2>1. \A o \in DOMAIN f : [f[o] EXCEPT !.spent = TRUE, !.modified = TRUE] \in CacheEntry
      BY <1>2 DEF Entries, CacheEntry
    <2> HIDE DEF f
    <2>2. d = [o \in DOMAIN f \ {o \in ins : f[o].fresh} |->
                 IF o \in ins THEN [f[o] EXCEPT !.spent = TRUE, !.modified = TRUE] ELSE f[o]]
      BY DEF addTxIns, f
    <2> QED BY <1>2, <2>1, <2>2, Zenon DEF Entries
  <1> HIDE DEF d
  <1>4. Entries(r)
    BY <1>1, <1>3 DEF addTxOuts, Entries, CacheEntry
  <1> QED
    BY <1>4 DEF connectTransaction, d

LEMMA WriteIsView ==
    ASSUME NEW c, Entries(c), disk \in View
    PROVE  writeCache(c) \in View
  BY DEF writeCache, Entries, CacheEntry, View, CreateHeight

LEMMA DisconnectEntries ==
    ASSUME NEW v, ViewEntries(v), NEW b \in Block, NEW t \in 1..NumTxs[b]
    PROVE  ViewEntries(disconnectTransaction(v, b, t))
  <1> DEFINE ins == Ins[b][t]
             outs == Outs[b][t] \cap Spendable
             e(o) == IF o \in DOMAIN v THEN v[o]
                     ELSE [h |-> Height[b], spent |-> FALSE, modified |-> FALSE]
             back(o) == [h |-> Live[b][t-1][o], spent |-> FALSE, modified |-> TRUE]
             gone(o) == [e(o) EXCEPT !.spent = TRUE, !.modified = TRUE]
             w == disconnectTransaction(v, b, t)
  <1>1. ins \in SUBSET OutPoint /\ outs \in SUBSET OutPoint
    BY TxAssumption
  <1>2. Live[b][t-1] \in View
    BY LiveIsView, TxAssumption, SMT
  <1>3. \A o \in OutPoint : e(o) \in ViewEntry
    BY DEF ViewEntries, ViewEntry, CreateHeight
  <1>4. \A o \in OutPoint : back(o) \in ViewEntry
    BY <1>2 DEF ViewEntry, View
  <1>5. \A o \in OutPoint : gone(o) \in ViewEntry
    BY <1>3 DEF ViewEntry
  <1>6. \A o \in OutPoint : o \notin DOMAIN v => e(o).spent = FALSE
    OBVIOUS
  <1>7. /\ DOMAIN w = DOMAIN v \cup outs \cup ins
        /\ \A o \in DOMAIN w : w[o] = IF o \in ins THEN back(o)
                                      ELSE IF o \in outs /\ ~e(o).spent THEN gone(o)
                                      ELSE v[o]
    BY DEF disconnectTransaction
  <1> HIDE DEF w, e, back, gone
  <1> QED
    BY <1>1, <1>4, <1>5, <1>6, <1>7 DEF ViewEntries, w

LEMMA CommitEntries ==
    ASSUME NEW v, ViewEntries(v), NEW d \in View
    PROVE  ViewEntries(commit(v)) /\ dbPutUtxoView(d, v) \in View
  <1>1. \A o \in DOMAIN v : [v[o] EXCEPT !.modified = ~@] \in ViewEntry
    BY DEF ViewEntries, ViewEntry
  <1>2. ViewEntries(commit(v))
    BY <1>1 DEF ViewEntries, commit
  <1>3. dbPutUtxoView(d, v) \in View
    BY DEF dbPutUtxoView, ViewEntries, ViewEntry, View, CreateHeight
  <1> QED BY <1>2, <1>3

LEMMA ParentIsBlock ==
    ASSUME NEW b \in Block, b # Genesis
    PROVE  Parent[b] \in Block
  BY TreeAssumption

LEMMA FetchedEntries ==
    ASSUME NEW c, Entries(c), disk \in View, NEW S \in SUBSET OutPoint
    PROVE  Entries(fetchEntries(c, S))
  <1>1. \A o \in S : disk[o] \in CreateHeight
    BY DEF View
  <1> QED BY <1>1 DEF fetchEntries, Entries, CacheEntry

\* The chain of a block is the block and the chain of its parent.
LEMMA Chains ==
    ASSUME NEW b \in Block
    PROVE  /\ b \in Ancestors[b]
           /\ b # Genesis => Ancestors[b] = {b} \cup Ancestors[Parent[b]]
  BY AncestorAssumption

-----------------------------------------------------------------------------
(***************************************************************************)
(* The inductive invariant.  CacheSound and DiskSound say nothing of a     *)
(* half-done reorganization or replay, from which the next steps follow.   *)
(***************************************************************************)

\* What the node is at, whatever has failed.
Control ==
    /\ node # "up" => op = "idle"
    /\ node = "down" => cache = Empty
    /\ failed = "memory" => node = "up"
    /\ op = "connect" => blk # Genesis /\ Parent[blk] = best /\ blk \in stored
    /\ op = "disconnect" => blk = best /\ best # Genesis

\* The database, until a flush writes what a failed transaction left in memory.
OnDisk == failed # "disk" => disk = ViewAt(diskHash) /\ diskHash \in Ancestors[best]

\* The unspent outputs that the cache over the database is to show.
Shown == IF op = "connect" \/ node = "replay" THEN Live[blk][pos] ELSE ViewAt(best)

InMemory == failed = "no" => ~err /\ Flags(cache) /\ (node # "down" => Over(cache) = Shown)

\* A reorganization's view turns the tip's outputs into those at pos.
Reorganizing ==
    failed = "no" /\ op \in {"disconnect", "disconnected"} =>
        Undone(view, ViewAt(best), IF op = "disconnect" THEN Live[blk][pos] ELSE ViewAt(best))

\* A replay is between the block of the database and the best block.
Replaying ==
    failed = "no" /\ node = "replay" =>
        /\ blk \in Ancestors[best]
        /\ IF pos < NumTxs[blk] THEN blk # Genesis /\ diskHash \in Ancestors[Parent[blk]]
           ELSE diskHash \in Ancestors[blk]

\* Before the first fault the cache remembers the flush the database is at, and
\* the blocks above that flush are stored.
Pruning ==
    faults = 0 =>
        /\ failed = "no" /\ node # "replay"
        /\ IF node = "up" THEN lastFlushHash = diskHash ELSE diskHash = best
        /\ Height[diskHash] <= Height[best]
        /\ \A x \in Ancestors[best] \ Ancestors[diskHash] :
              x \in stored /\ Height[x] > Height[diskHash]

IInv == TypeOK /\ Control /\ OnDisk /\ InMemory /\ Reorganizing /\ Replaying /\ Pruning

-----------------------------------------------------------------------------
(***************************************************************************)
(* The actions that connect and flush preserve the invariant               *)
(***************************************************************************)

LEMMA InitInv == Init => IInv
  <1> SUFFICES ASSUME Init PROVE IInv
    OBVIOUS
  <1>1. Genesis \in Block
    BY TreeAssumption
  <1>2. disk \in View /\ ViewAt(Genesis) = disk
    BY <1>1, ViewAtIsView DEF Init
  <1>3. Over(cache) = disk /\ Entries(cache) /\ Flags(cache)
    BY <1>2, EmptyCache DEF Init
  <1>4. TypeOK
    <2>1. Entries(cache) /\ DOMAIN view = {} /\ pos \in 0..NumTxs[blk] /\ faults \in 0..MaxFaults
      BY <1>1, <1>3, TxAssumption, CacheAssumption, SMT DEF Init, Empty
    <2> QED BY <1>1, <1>2, <2>1 DEF Init, TypeOK, Entries, Ops
  <1>5. Control /\ OnDisk /\ Reorganizing /\ Replaying
    BY <1>1, Chains DEF Init, Control, OnDisk, Reorganizing, Replaying
  <1>6. InMemory
    BY <1>2, <1>3 DEF Init, InMemory, Shown
  <1>7. Pruning
    BY <1>1, TreeAssumption, SMT DEF Init, Pruning
  <1> QED
    BY <1>4, <1>5, <1>6, <1>7 DEF IInv

LEMMA FetchStep ==
    ASSUME IInv, NEW o \in Looked, FetchUtxo(o)
    PROVE  IInv'
  <1>1. {o} \in SUBSET OutPoint /\ disk \in View /\ Entries(cache)
    BY CacheAssumption DEF IInv, TypeOK, Entries
  <1>2. TypeOK'
    <2>1. Entries(cache')
      BY <1>1, FetchedEntries DEF FetchUtxo
    <2> QED BY <2>1 DEF IInv, TypeOK, FetchUtxo, durable, Entries
  <1>3. Control' /\ OnDisk' /\ Reorganizing' /\ Replaying' /\ Pruning'
    BY DEF IInv, Control, OnDisk, Reorganizing, Replaying, Pruning, FetchUtxo, durable
  <1>4. InMemory'
    <2> SUFFICES ASSUME failed = "no" PROVE InMemory'
      BY DEF InMemory, FetchUtxo
    <2>1. Flags(cache) /\ ~err /\ Over(cache) = Shown
      BY DEF IInv, InMemory, FetchUtxo
    <2>2. Flags(cache') /\ Over(cache') = Over(cache)
      BY <1>1, <2>1, FetchKeeps DEF FetchUtxo
    <2> QED
      BY <2>1, <2>2 DEF InMemory, FetchUtxo, durable, Flags, Over, Shown
  <1> QED
    BY <1>2, <1>3, <1>4 DEF IInv

LEMMA StartConnectStep ==
    ASSUME IInv, NEW b \in Block, StartConnect(b)
    PROVE  IInv'
  <1>1. b # Genesis /\ Live[b][0] = ViewAt(best) /\ NumTxs[b] \in Nat
    BY TreeAssumption, LiveAssumption, TxAssumption DEF StartConnect, IInv, TypeOK
  <1>2. TypeOK'
    BY <1>1, SMT DEF IInv, TypeOK, StartConnect, durable, Ops
  <1>3. Control' /\ OnDisk' /\ Reorganizing' /\ Replaying' /\ Pruning'
    BY <1>1 DEF IInv, Control, OnDisk, Reorganizing, Replaying, Pruning, StartConnect, durable
  <1>4. InMemory'
    BY <1>1 DEF IInv, InMemory, StartConnect, durable, Flags, Over, Shown
  <1> QED
    BY <1>2, <1>3, <1>4 DEF IInv

\* The outputs of the block after one on the database's chain are not on disk.
LEMMA NewOutputs ==
    ASSUME OnDisk, failed = "no", NEW b \in Block \ {Genesis}, NEW t \in 1..NumTxs[b],
           diskHash \in Ancestors[Parent[b]]
    PROVE  \A o \in Outs[b][t] : disk[o] = None
  BY TxIdsUnique, SMT DEF OnDisk

LEMMA ConnectNextTxStep ==
    ASSUME IInv, ConnectNextTx
    PROVE  IInv'
  <1>1. /\ disk \in View /\ Entries(cache) /\ blk \in Block \ {Genesis}
        /\ pos + 1 \in 1..NumTxs[blk] /\ (pos + 1) - 1 = pos /\ NumTxs[blk] \in Nat /\ pos \in Nat
    BY TxAssumption, SMT DEF IInv, TypeOK, Control, ConnectNextTx, Entries
  <1>2. Entries(connectTransaction(cache, blk, pos + 1))
    BY <1>1, ConnectEntries
  <1>3. TypeOK'
    <2>1. Entries(cache') /\ pos' \in 0..NumTxs[blk] /\ err' \in BOOLEAN /\ op' \in Ops
      <3>1. CASE MissingInput(cache, Ins[blk][pos + 1])
        BY <3>1, <1>1 DEF IInv, TypeOK, ConnectNextTx, Ops
      <3>2. CASE ~MissingInput(cache, Ins[blk][pos + 1])
        BY <3>2, <1>1, <1>2, SMT DEF IInv, TypeOK, ConnectNextTx, Ops
      <3> QED BY <3>1, <3>2
    <2> QED BY <2>1 DEF IInv, TypeOK, ConnectNextTx, durable, Entries
  <1>4. Control' /\ OnDisk' /\ Reorganizing' /\ Replaying' /\ Pruning'
    BY DEF IInv, Control, OnDisk, Reorganizing, Replaying, Pruning, ConnectNextTx, durable
  <1>5. InMemory'
    <2> SUFFICES ASSUME failed = "no" PROVE InMemory'
      BY DEF InMemory, ConnectNextTx
    <2>1. /\ Flags(cache) /\ ~err /\ Over(cache) = Live[blk][pos]
          /\ diskHash \in Ancestors[Parent[blk]]
      BY DEF IInv, InMemory, Shown, OnDisk, Control, ConnectNextTx
    <2>2. ~MissingInput(cache, Ins[blk][pos + 1])
      BY <1>1, <2>1, NoInputMissing
    <2>3. \A o \in Outs[blk][pos + 1] : disk[o] = None
      BY <1>1, <2>1, NewOutputs DEF IInv
    <2>4. Flags(cache') /\ Over(cache') = Live[blk][pos + 1]
      BY <1>1, <2>1, <2>2, <2>3, ConnectApplies, SMT DEF ConnectNextTx
    <2> QED
      BY <2>1, <2>2, <2>4 DEF InMemory, ConnectNextTx, durable, Flags, Over, Shown
  <1> QED
    BY <1>3, <1>4, <1>5 DEF IInv

\* What a flush does, when the cache shows the unspent outputs of block b.
LEMMA FlushShows ==
    ASSUME IInv, node = "up", NEW b \in Block, Flush(b),
           failed = "no" => Over(cache) = ViewAt(b)
    PROVE  /\ disk' \in View /\ cache' = Empty /\ Entries(cache')
           /\ failed' # "memory" /\ failed' \in {"no", "disk"}
           /\ failed' = "no" => /\ failed = "no" /\ disk' = ViewAt(b)
                                /\ Flags(cache)' /\ Over(cache)' = ViewAt(b)
  <1>1. disk \in View /\ Entries(cache)
    BY DEF IInv, TypeOK, Entries
  <1>2. disk' \in View /\ cache' = Empty /\ Entries(cache')
    BY <1>1, WriteIsView DEF Flush, Empty, Entries
  <1>3. failed' \in {"no", "disk"} /\ (failed' = "no" => failed = "no")
    BY DEF Flush
  <1>4. ASSUME failed' = "no"
        PROVE  disk' = ViewAt(b) /\ Flags(cache)' /\ Over(cache)' = ViewAt(b)
    <2>1. disk' = ViewAt(b)
      BY <1>1, <1>3, <1>4, FlushWritesLookup DEF Flush, IInv, InMemory
    <2> QED BY <1>2, <2>1 DEF Flags, Over, Empty, View
  <1> QED BY <1>2, <1>3, <1>4

LEMMA CommitConnectStep ==
    ASSUME IInv, CommitConnect
    PROVE  IInv'
  <1>1. PICK deleted \in PruneBlocks :
          /\ stored' = stored \ deleted
          /\ IF deleted # {} /\ flushNeededAfterPrune(deleted) THEN Flush(blk) ELSE NoFlush
    BY DEF CommitConnect
  <1>2. /\ blk \in Block /\ blk # Genesis /\ Parent[blk] = best /\ blk \in stored
        /\ best \in Block /\ diskHash \in Block /\ disk \in View /\ Entries(cache)
        /\ stored \subseteq Block /\ node = "up" /\ op = "connect" /\ pos = NumTxs[blk]
    BY DEF IInv, TypeOK, Control, CommitConnect, Entries
  <1>3. /\ best' = blk /\ op' = "connected" /\ node' = node /\ blk' = blk
        /\ pos' = pos /\ err' = err /\ faults' = faults /\ view' = view
    BY DEF CommitConnect
  <1>4. Ancestors[blk] = {blk} \cup Ancestors[best] /\ Height[blk] = Height[best] + 1
    BY <1>2, Chains, TreeAssumption
  <1>5. failed = "no" => Over(cache) = ViewAt(blk)
    BY <1>2, ViewAtIsView DEF IInv, InMemory, Shown
  <1>6. CASE deleted # {} /\ flushNeededAfterPrune(deleted)
    <2>1. Flush(blk)
      BY <1>1, <1>6
    <2>2. /\ disk' \in View /\ cache' = Empty /\ Entries(cache')
          /\ failed' # "memory" /\ failed' \in {"no", "disk"}
          /\ failed' = "no" => /\ failed = "no" /\ disk' = ViewAt(blk)
                               /\ Flags(cache)' /\ Over(cache)' = ViewAt(blk)
      BY <1>2, <1>5, <2>1, FlushShows
    <2>3. diskHash' = blk /\ lastFlushHash' = blk
      BY <2>1 DEF Flush
    <2>4. TypeOK'
      BY <1>1, <1>2, <1>3, <2>2, <2>3 DEF IInv, TypeOK, Entries, Ops
    <2>5. Control' /\ OnDisk' /\ Reorganizing' /\ Replaying'
      BY <1>2, <1>3, <1>4, <2>2, <2>3
      DEF Control, OnDisk, Reorganizing, Replaying
    <2>6. InMemory'
      BY <1>2, <1>3, <2>2 DEF IInv, InMemory, Shown
    <2>7. Pruning'
      BY <1>2, <1>3, <2>1, <2>3, TreeAssumption, SMT DEF IInv, Pruning, Flush
    <2> QED BY <2>4, <2>5, <2>6, <2>7 DEF IInv
  <1>7. CASE ~(deleted # {} /\ flushNeededAfterPrune(deleted))
    <2>1. /\ disk' = disk /\ diskHash' = diskHash /\ cache' = cache
          /\ lastFlushHash' = lastFlushHash /\ failed' = failed
      BY <1>1, <1>7 DEF NoFlush
    <2>2. TypeOK'
      BY <1>1, <1>2, <1>3, <2>1 DEF IInv, TypeOK, Ops
    <2>3. Control' /\ OnDisk' /\ Reorganizing' /\ Replaying'
      BY <1>2, <1>3, <1>4, <2>1 DEF IInv, Control, OnDisk, Reorganizing, Replaying
    <2>4. InMemory'
      BY <1>2, <1>3, <1>5, <2>1 DEF IInv, InMemory, Shown, Flags, Over
    <2>5. Pruning'
      <3> SUFFICES ASSUME faults = 0 PROVE Pruning'
        BY <1>3 DEF Pruning
      <3>1. /\ failed = "no" /\ lastFlushHash = diskHash /\ Height[diskHash] <= Height[best]
            /\ \A x \in Ancestors[best] \ Ancestors[diskHash] :
                 x \in stored /\ Height[x] > Height[diskHash]
        BY <1>2 DEF IInv, Pruning
      <3>2. /\ Height[diskHash] \in Nat /\ Height[best] \in Nat
            /\ Height[blk] > Height[diskHash] /\ Height[diskHash] <= Height[blk]
        BY <1>2, <1>4, <3>1, TreeAssumption, SMT
      <3>3. \A b \in deleted : Height[b] < Height[diskHash]
        <4>1. \A b \in deleted : b \in Block /\ Height[b] \in Nat
          BY <1>2, TreeAssumption DEF PruneBlocks
        <4> QED BY <1>2, <1>7, <3>1, <3>2, <4>1, SMT DEF flushNeededAfterPrune
      <3>4. \A x \in Ancestors[blk] \ Ancestors[diskHash] :
              x \in stored' /\ Height[x] > Height[diskHash]
        <4> SUFFICES ASSUME NEW x \in Ancestors[blk] \ Ancestors[diskHash]
                     PROVE  x \in stored' /\ Height[x] > Height[diskHash]
          OBVIOUS
        <4>1. x \in stored /\ Height[x] > Height[diskHash]
          BY <1>2, <1>4, <3>1, <3>2
        <4>2. x \notin deleted
          BY <1>2, <3>2, <3>3, <4>1, TreeAssumption, SMT
        <4> QED BY <1>1, <4>1, <4>2
      <3> QED BY <1>2, <1>3, <2>1, <3>1, <3>2, <3>4 DEF Pruning
    <2> QED BY <2>2, <2>3, <2>4, <2>5 DEF IInv
  <1> QED BY <1>6, <1>7

\* A flush of a running node between blocks, which then runs on or shuts down.
LEMMA FlushAtTip ==
    ASSUME IInv, node = "up", op \in {"idle", "connected"}, Flush(best),
           op' = "idle", node' \in {"up", "down"},
           UNCHANGED <<best, stored, view, blk, pos, err, faults>>
    PROVE  IInv'
  <1>1. best \in Block /\ (failed = "no" => Over(cache) = ViewAt(best))
    BY DEF IInv, TypeOK, InMemory, Shown
  <1>2. /\ disk' \in View /\ cache' = Empty /\ Entries(cache')
        /\ failed' # "memory" /\ failed' \in {"no", "disk"}
        /\ failed' = "no" => /\ failed = "no" /\ disk' = ViewAt(best)
                             /\ Flags(cache)' /\ Over(cache)' = ViewAt(best)
    BY <1>1, FlushShows
  <1>3. diskHash' = best /\ lastFlushHash' = best
    BY DEF Flush
  <1>4. TypeOK'
    BY <1>1, <1>2, <1>3 DEF IInv, TypeOK, Entries, Ops
  <1>5. Control' /\ OnDisk' /\ Reorganizing' /\ Replaying'
    BY <1>1, <1>2, <1>3, Chains DEF Control, OnDisk, Reorganizing, Replaying
  <1>6. InMemory'
    BY <1>1, <1>2 DEF IInv, InMemory, Shown
  <1>7. Pruning'
    BY <1>1, <1>3, TreeAssumption, SMT DEF IInv, Pruning, Flush
  <1> QED
    BY <1>4, <1>5, <1>6, <1>7 DEF IInv

LEMMA FlushIfNeededStep ==
    ASSUME IInv, FlushIfNeeded
    PROVE  IInv'
  <1>1. CASE NoFlush
    <2>1. TypeOK'
      BY <1>1 DEF IInv, TypeOK, FlushIfNeeded, NoFlush, Ops
    <2>2. Control' /\ OnDisk' /\ Reorganizing' /\ Replaying' /\ Pruning'
      BY <1>1
      DEF IInv, Control, OnDisk, Reorganizing, Replaying, Pruning, FlushIfNeeded, NoFlush
    <2>3. InMemory'
      BY <1>1 DEF IInv, InMemory, Shown, Flags, Over, FlushIfNeeded, NoFlush
    <2> QED BY <2>1, <2>2, <2>3 DEF IInv
  <1>2. CASE Flush(best)
    BY <1>2, FlushAtTip DEF FlushIfNeeded
  <1> QED BY <1>1, <1>2 DEF FlushIfNeeded

LEMMA FlushPeriodicStep ==
    ASSUME IInv, FlushPeriodic
    PROVE  IInv'
  BY FlushAtTip DEF FlushPeriodic

LEMMA ShutdownStep ==
    ASSUME IInv, Shutdown
    PROVE  IInv'
  BY FlushAtTip DEF Shutdown

(***************************************************************************)
(* Reorganizations, faults and replays preserve the invariant              *)
(***************************************************************************)

LEMMA StartDisconnectStep ==
    ASSUME IInv, StartDisconnect
    PROVE  IInv'
  <1>1. /\ best \in Block /\ NumTxs[best] \in Nat /\ NumTxs[best] \in 0..NumTxs[best]
        /\ ViewAt(best) = Live[best][NumTxs[best]]
    BY ViewAtIsView, TxAssumption, SMT DEF IInv, TypeOK
  <1>2. ViewEntries(view') /\ (failed = "no" => Undone(view', ViewAt(best), ViewAt(best)))
    <2>1. CASE op = "idle"
      BY <2>1 DEF StartDisconnect, Empty, Undone, ViewEntries
    <2>2. CASE op = "disconnected"
      BY <2>2 DEF StartDisconnect, IInv, TypeOK, Reorganizing, ViewEntries
    <2> QED BY <2>1, <2>2 DEF StartDisconnect
  <1>3. TypeOK'
    BY <1>1, <1>2 DEF IInv, TypeOK, StartDisconnect, durable, ViewEntries, Ops
  <1>4. Control' /\ OnDisk' /\ Replaying' /\ Pruning'
    BY DEF IInv, Control, OnDisk, Replaying, Pruning, StartDisconnect, durable
  <1>5. Reorganizing'
    BY <1>1, <1>2 DEF Reorganizing, StartDisconnect, durable
  <1>6. InMemory'
    BY DEF IInv, InMemory, Shown, Flags, Over, StartDisconnect, durable
  <1> QED
    BY <1>3, <1>4, <1>5, <1>6 DEF IInv

LEMMA DisconnectNextTxStep ==
    ASSUME IInv, DisconnectNextTx
    PROVE  IInv'
  <1>1. /\ blk \in Block \ {Genesis} /\ pos \in 1..NumTxs[blk] /\ pos - 1 \in 0..NumTxs[blk]
        /\ ViewEntries(view)
    BY TxAssumption, SMT DEF IInv, TypeOK, Control, DisconnectNextTx, ViewEntries
  <1>2. ViewEntries(view')
    BY <1>1, DisconnectEntries DEF DisconnectNextTx
  <1>3. TypeOK'
    BY <1>1, <1>2 DEF IInv, TypeOK, DisconnectNextTx, durable, ViewEntries
  <1>4. Control' /\ OnDisk' /\ Replaying' /\ Pruning'
    BY DEF IInv, Control, OnDisk, Replaying, Pruning, DisconnectNextTx, durable
  <1>5. Reorganizing'
    <2>1. failed = "no" => Undone(view, ViewAt(best), Live[blk][pos])
      BY DEF IInv, Reorganizing, DisconnectNextTx
    <2>2. failed = "no" => Undone(view', ViewAt(best), Live[blk][pos - 1])
      BY <1>1, <2>1, DisconnectUndoes DEF DisconnectNextTx
    <2> QED BY <2>2 DEF Reorganizing, DisconnectNextTx, durable
  <1>6. InMemory'
    BY DEF IInv, Control, InMemory, Shown, Flags, Over, DisconnectNextTx, durable
  <1> QED
    BY <1>3, <1>4, <1>5, <1>6 DEF IInv

LEMMA CommitDisconnectStep ==
    ASSUME IInv, CommitDisconnect
    PROVE  IInv'
  <1> DEFINE p == Parent[best]
  <1>1. /\ blk = best /\ best \in Block \ {Genesis} /\ p \in Block /\ ViewEntries(view)
        /\ disk \in View /\ Entries(cache) /\ pos = 0
        /\ ViewAt(p) \in View /\ Live[best][0] = ViewAt(p)
    BY ParentIsBlock, ViewAtIsView, LiveAssumption
    DEF IInv, TypeOK, Control, CommitDisconnect, ViewEntries, Entries
  <1> DEFINE d == writeCache(cache)
  <1>2. d \in View
    BY <1>1, WriteIsView
  <1>3. ViewEntries(view') /\ disk' \in View
    BY <1>1, <1>2, CommitEntries DEF CommitDisconnect
  <1>4. failed = "no" => disk' = ViewAt(p) /\ Undone(view', ViewAt(p), ViewAt(p))
    <2> SUFFICES ASSUME failed = "no"
                 PROVE  disk' = ViewAt(p) /\ Undone(view', ViewAt(p), ViewAt(p))
      OBVIOUS
    <2>1. Flags(cache) /\ Over(cache) = ViewAt(best)
      BY DEF IInv, InMemory, Shown, CommitDisconnect
    <2>2. d = ViewAt(best)
      BY <1>1, <2>1, FlushWritesLookup
    <2>3. Undone(view, ViewAt(best), ViewAt(p))
      BY <1>1 DEF IInv, Reorganizing, CommitDisconnect
    <2> QED BY <1>1, <2>2, <2>3, CommitWrites DEF CommitDisconnect
  <1>5. /\ best' = p /\ diskHash' = p /\ lastFlushHash' = p /\ cache' = Empty
        /\ op' = "disconnected" /\ node' = "up" /\ failed' \in {"no", "disk"}
        /\ failed' = "no" <=> failed = "no"
        /\ UNCHANGED <<stored, blk, pos, err, faults>>
    BY DEF CommitDisconnect
  <1> HIDE DEF p, d
  <1>6. TypeOK'
    <2>1. DOMAIN cache' = {}
      BY <1>5 DEF Empty
    <2> QED BY <1>1, <1>3, <1>5, <2>1 DEF IInv, TypeOK, ViewEntries, Ops
  <1>7. Control' /\ OnDisk' /\ Replaying' /\ Reorganizing'
    BY <1>1, <1>4, <1>5, Chains DEF Control, OnDisk, Replaying, Reorganizing
  <1>8. InMemory'
    BY <1>1, <1>4, <1>5 DEF IInv, InMemory, Shown, Flags, Over, Empty, View
  <1>9. Pruning'
    BY <1>1, <1>5, TreeAssumption, SMT DEF IInv, Pruning
  <1> QED
    BY <1>6, <1>7, <1>8, <1>9 DEF IInv

LEMMA EndDetachStep ==
    ASSUME IInv, EndDetach
    PROVE  IInv'
  <1>1. TypeOK'
    BY DEF IInv, TypeOK, EndDetach, durable, Empty, Ops
  <1>2. Control' /\ OnDisk' /\ Replaying' /\ Reorganizing' /\ Pruning'
    BY DEF IInv, Control, OnDisk, Replaying, Reorganizing, Pruning, EndDetach, durable
  <1>3. InMemory'
    BY DEF IInv, InMemory, Shown, Flags, Over, EndDetach, durable
  <1> QED
    BY <1>1, <1>2, <1>3 DEF IInv

\* A failed transaction leaves the database alone, and memory is given up.
LEMMA FailStep ==
    ASSUME IInv, node = "up", Fail, Entries(cache'), lastFlushHash' \in Block \cup {NoBlock}
    PROVE  IInv'
  <1>1. failed' \in {"memory", "disk"} /\ (failed' = "disk" <=> failed = "disk") /\ faults' # 0
    BY SMT DEF IInv, TypeOK, Fail
  <1>2. TypeOK'
    BY CacheAssumption, SMT DEF IInv, TypeOK, Fail, durable, Entries, Ops
  <1>3. Control' /\ OnDisk' /\ InMemory' /\ Reorganizing' /\ Replaying' /\ Pruning'
    BY <1>1
    DEF IInv, Control, OnDisk, InMemory, Reorganizing, Replaying, Pruning, Fail, durable
  <1> QED BY <1>2, <1>3 DEF IInv

LEMMA FailedSteps ==
    ASSUME IInv, FailedConnect \/ FailedDisconnect \/ FailedFlush
    PROVE  IInv'
  <1>1. Entries(Empty)
    BY DEF Entries, Empty
  <1>2. Entries(cache) /\ blk \in Block /\ best \in Block /\ Parent[best] \in Block \cup {NoBlock}
        /\ lastFlushHash \in Block \cup {NoBlock}
    BY TreeAssumption DEF IInv, TypeOK, Entries
  <1>3. node = "up" /\ Fail /\ Entries(cache') /\ lastFlushHash' \in Block \cup {NoBlock}
    BY <1>1, <1>2 DEF FailedConnect, FailedDisconnect, FailedFlush, LostFlush
  <1> QED BY <1>3, FailStep

LEMMA CrashStep ==
    ASSUME IInv, Crash
    PROVE  IInv'
  <1>1. faults' # 0 /\ faults' \in 0..MaxFaults
    BY CacheAssumption, SMT DEF IInv, TypeOK, Crash
  <1>2. TypeOK'
    BY <1>1 DEF IInv, TypeOK, Crash, durable, Empty, Ops
  <1>3. Control' /\ OnDisk' /\ Reorganizing' /\ Replaying' /\ Pruning'
    BY <1>1
    DEF IInv, TypeOK, Control, OnDisk, Reorganizing, Replaying, Pruning, Crash, durable
  <1>4. InMemory'
    BY DEF InMemory, Flags, Crash, Empty
  <1> QED BY <1>2, <1>3, <1>4 DEF IInv

LEMMA StartStep ==
    ASSUME IInv, Start
    PROVE  IInv'
  <1>1. /\ diskHash \in Block /\ best \in Block /\ disk \in View /\ NumTxs[diskHash] \in Nat
        /\ NumTxs[diskHash] \in 0..NumTxs[diskHash]
        /\ ViewAt(diskHash) = Live[diskHash][NumTxs[diskHash]] /\ cache = Empty /\ op = "idle"
    BY TxAssumption, ViewAtIsView, SMT DEF IInv, TypeOK, Control, Start
  <1>2. TypeOK'
    BY <1>1 DEF IInv, TypeOK, Start, durable
  <1>3. Control' /\ OnDisk' /\ Reorganizing' /\ Pruning'
    BY <1>1 DEF IInv, Control, OnDisk, Reorganizing, Pruning, Start, durable
  <1>4. Replaying'
    BY <1>1, Chains, SMT DEF IInv, OnDisk, Replaying, Start, durable
  <1>5. InMemory'
    <2> SUFFICES ASSUME failed = "no" PROVE InMemory'
      BY DEF InMemory, Start
    <2>1. Over(cache) = disk /\ Flags(cache) /\ disk = ViewAt(diskHash) /\ ~err
      BY <1>1, EmptyCache DEF IInv, OnDisk, InMemory
    <2> QED BY <1>1, <2>1 DEF InMemory, Shown, Flags, Over, Start, durable
  <1> QED BY <1>2, <1>3, <1>4, <1>5 DEF IInv

LEMMA ReplayBlockStep ==
    ASSUME IInv, ReplayBlock
    PROVE  IInv'
  <1>1. PICK b \in Ancestors[best] :
          /\ Parent[b] = blk
          /\ IF b \in stored
             THEN blk' = b /\ pos' = 0 /\ UNCHANGED <<node, cache>>
             ELSE node' = "down" /\ cache' = Empty /\ UNCHANGED <<blk, pos>>
    BY DEF ReplayBlock
  <1>2. blk \in Block /\ stored \subseteq Block /\ node = "replay" /\ op = "idle" /\ pos = NumTxs[blk]
    BY DEF IInv, TypeOK, Control, ReplayBlock
  <1>3. CASE b \in stored
    <2>1. /\ b \in Block /\ b # Genesis /\ NumTxs[b] \in Nat /\ 0 < NumTxs[b]
          /\ Live[b][0] = Live[blk][pos]
      BY <1>1, <1>2, <1>3, TreeAssumption, TxAssumption, LiveAssumption, ViewAtIsView, SMT
    <2>2. TypeOK'
      BY <1>1, <1>3, <2>1, SMT DEF IInv, TypeOK, ReplayBlock, durable
    <2>3. Control' /\ OnDisk' /\ Reorganizing' /\ Pruning'
      BY <1>1, <1>2, <1>3 DEF IInv, Control, OnDisk, Reorganizing, Pruning, ReplayBlock, durable
    <2>4. Replaying'
      <3>1. ~(pos < NumTxs[blk])
        BY <1>2, TxAssumption, SMT
      <3>2. failed = "no" => diskHash \in Ancestors[blk]
        BY <1>2, <3>1 DEF IInv, Replaying
      <3> QED BY <1>1, <1>3, <2>1, <3>2 DEF Replaying, ReplayBlock, durable
    <2>5. InMemory'
      BY <1>1, <1>2, <1>3, <2>1 DEF IInv, InMemory, Shown, Flags, Over, ReplayBlock, durable
    <2> QED BY <2>2, <2>3, <2>4, <2>5 DEF IInv
  <1>4. CASE b \notin stored
    <2>1. TypeOK'
      BY <1>1, <1>4 DEF IInv, TypeOK, ReplayBlock, durable, Empty
    <2>2. Control' /\ OnDisk' /\ Reorganizing' /\ Replaying' /\ Pruning'
      BY <1>1, <1>2, <1>4
      DEF IInv, Control, OnDisk, Reorganizing, Replaying, Pruning, ReplayBlock, durable
    <2>3. InMemory'
      BY <1>1, <1>4 DEF IInv, InMemory, Flags, ReplayBlock, durable, Empty
    <2> QED BY <2>1, <2>2, <2>3 DEF IInv
  <1> QED BY <1>3, <1>4

LEMMA ReplayDoneStep ==
    ASSUME IInv, ReplayDone
    PROVE  IInv'
  <1>1. best \in Block /\ op = "idle" /\ ViewAt(best) = Live[best][NumTxs[best]]
    BY ViewAtIsView DEF IInv, TypeOK, Control, ReplayDone
  <1>2. TypeOK'
    BY DEF IInv, TypeOK, ReplayDone, durable
  <1>3. Control' /\ OnDisk' /\ Reorganizing' /\ Replaying' /\ Pruning'
    BY <1>1
    DEF IInv, Control, OnDisk, Reorganizing, Replaying, Pruning, ReplayDone, durable
  <1>4. InMemory'
    BY <1>1 DEF IInv, InMemory, Shown, Flags, Over, ReplayDone, durable
  <1> QED BY <1>2, <1>3, <1>4 DEF IInv

LEMMA ReplayNextTxStep ==
    ASSUME IInv, ReplayNextTx
    PROVE  IInv'
  <1> DEFINE c == connectTransaction(cache, blk, pos + 1)
  <1>1. /\ disk \in View /\ Entries(cache) /\ blk \in Block /\ op = "idle" /\ node = "replay"
        /\ pos + 1 \in 1..NumTxs[blk] /\ pos + 1 \in 0..NumTxs[blk] /\ (pos + 1) - 1 = pos
        /\ pos \in Nat /\ NumTxs[blk] \in Nat
    BY TxAssumption, SMT DEF IInv, TypeOK, Control, ReplayNextTx, Entries
  <1>2. Entries(c)
    BY <1>1, ConnectEntries
  <1>3. writeCache(c) \in View
    BY <1>1, <1>2, WriteIsView
  <1>4. failed = "no" =>
          /\ ~MissingInput(cache, Ins[blk][pos + 1])
          /\ Flags(c) /\ Over(c) = Live[blk][pos + 1]
          /\ blk # Genesis /\ diskHash \in Ancestors[Parent[blk]] /\ blk \in Ancestors[best]
    <2> SUFFICES ASSUME failed = "no"
                 PROVE  /\ ~MissingInput(cache, Ins[blk][pos + 1])
                        /\ Flags(c) /\ Over(c) = Live[blk][pos + 1]
                        /\ blk # Genesis /\ diskHash \in Ancestors[Parent[blk]]
                        /\ blk \in Ancestors[best]
      OBVIOUS
    <2>1. /\ Flags(cache) /\ Over(cache) = Live[blk][pos]
          /\ blk # Genesis /\ diskHash \in Ancestors[Parent[blk]] /\ blk \in Ancestors[best]
      BY <1>1 DEF IInv, InMemory, Shown, Replaying, ReplayNextTx
    <2>2. ~MissingInput(cache, Ins[blk][pos + 1])
      BY <1>1, <2>1, NoInputMissing
    <2>3. \A o \in Outs[blk][pos + 1] : disk[o] = None
      BY <1>1, <2>1, NewOutputs DEF IInv
    <2>4. Flags(c) /\ Over(c) = Live[blk][pos + 1]
      BY <1>1, <2>1, <2>3, ConnectApplies, SMT
    <2> QED BY <2>1, <2>2, <2>4
  <1> HIDE DEF c
  <1>5. CASE MissingInput(cache, Ins[blk][pos + 1])
    <2>1. failed = "disk"
      BY <1>1, <1>4, <1>5 DEF IInv, TypeOK, Control
    <2>2. TypeOK'
      BY <1>5 DEF IInv, TypeOK, ReplayNextTx, Empty
    <2>3. Control' /\ OnDisk' /\ InMemory' /\ Reorganizing' /\ Replaying' /\ Pruning'
      BY <1>1, <1>5, <2>1
      DEF IInv, Control, OnDisk, InMemory, Reorganizing, Replaying, Pruning, ReplayNextTx
    <2> QED BY <2>2, <2>3 DEF IInv
  <1>6. CASE ~MissingInput(cache, Ins[blk][pos + 1]) /\ cache' = c
             /\ UNCHANGED <<disk, diskHash, lastFlushHash>>
    <2>1. TypeOK'
      BY <1>1, <1>2, <1>6 DEF IInv, TypeOK, ReplayNextTx, Entries
    <2>2. Control' /\ OnDisk' /\ Reorganizing' /\ Pruning'
      BY <1>1, <1>6 DEF IInv, Control, OnDisk, Reorganizing, Pruning, ReplayNextTx
    <2>3. Replaying'
      <3>1. failed = "no" => diskHash \in Ancestors[blk]
        BY <1>1, <1>4, Chains
      <3>2. /\ failed' = failed /\ blk' = blk /\ best' = best /\ diskHash' = diskHash
        BY <1>6 DEF ReplayNextTx
      <3> QED BY <1>4, <3>1, <3>2 DEF Replaying
    <2>4. InMemory'
      BY <1>1, <1>4, <1>6 DEF IInv, InMemory, Shown, Flags, Over, ReplayNextTx
    <2> QED BY <2>1, <2>2, <2>3, <2>4 DEF IInv
  <1>7. CASE /\ ~MissingInput(cache, Ins[blk][pos + 1])
             /\ pos + 1 = NumTxs[blk] /\ disk' = writeCache(c) /\ diskHash' = blk
             /\ cache' = Empty /\ lastFlushHash' = blk
    <2>1. failed = "no" => disk' = ViewAt(blk)
      BY <1>1, <1>2, <1>4, <1>7, FlushWritesLookup, ViewAtIsView
    <2>2. TypeOK'
      BY <1>1, <1>3, <1>7 DEF IInv, TypeOK, ReplayNextTx, Empty
    <2>3. failed # "memory" /\ failed' = failed
      BY <1>1 DEF IInv, Control, ReplayNextTx
    <2>4. Control' /\ OnDisk' /\ Reorganizing' /\ Pruning'
      BY <1>1, <1>4, <1>7, <2>1, <2>2, <2>3
      DEF IInv, TypeOK, Control, OnDisk, Reorganizing, Pruning, ReplayNextTx
    <2>5. Replaying'
      <3>1. /\ failed' = failed /\ blk' = blk /\ best' = best
            /\ pos' = NumTxs[blk] /\ ~(pos' < NumTxs[blk])
        BY <1>1, <1>7, SMT DEF ReplayNextTx
      <3>2. blk \in Ancestors[blk]
        BY <1>1, Chains
      <3> QED BY <1>4, <1>7, <3>1, <3>2 DEF Replaying
    <2>6. InMemory'
      <3>1. failed = "no" => Over(cache)' = disk' /\ Flags(cache)'
        BY <1>3, <1>7 DEF Over, Flags, Empty, View
      <3>2. failed = "no" => disk' = Live[blk][pos + 1]
        BY <1>1, <1>7, <2>1, ViewAtIsView
      <3> QED BY <1>1, <1>7, <2>3, <3>1, <3>2 DEF IInv, InMemory, Shown, ReplayNextTx
    <2> QED BY <2>2, <2>4, <2>5, <2>6 DEF IInv
  <1> QED BY <1>5, <1>6, <1>7 DEF ReplayNextTx, c

LEMMA StutterStep ==
    ASSUME IInv, UNCHANGED vars
    PROVE  IInv'
  <1>1. TypeOK' /\ Control' /\ OnDisk' /\ Reorganizing' /\ Replaying' /\ Pruning'
    BY DEF IInv, TypeOK, Control, OnDisk, Reorganizing, Replaying, Pruning, vars
  <1>2. InMemory'
    BY DEF IInv, InMemory, Shown, Flags, Over, vars
  <1> QED BY <1>1, <1>2 DEF IInv

THEOREM CacheInvariance == Spec => []IInv
  <1>1. ASSUME IInv, [Next]_vars
        PROVE  IInv'
    <2>1. CASE \E o \in Looked : FetchUtxo(o)
      BY <1>1, <2>1, FetchStep
    <2>2. CASE \E b \in Block : StartConnect(b)
      BY <1>1, <2>2, StartConnectStep
    <2>3. CASE ConnectNextTx
      BY <1>1, <2>3, ConnectNextTxStep
    <2>4. CASE CommitConnect
      BY <1>1, <2>4, CommitConnectStep
    <2>5. CASE FlushIfNeeded
      BY <1>1, <2>5, FlushIfNeededStep
    <2>6. CASE StartDisconnect
      BY <1>1, <2>6, StartDisconnectStep
    <2>7. CASE DisconnectNextTx
      BY <1>1, <2>7, DisconnectNextTxStep
    <2>8. CASE CommitDisconnect
      BY <1>1, <2>8, CommitDisconnectStep
    <2>9. CASE EndDetach
      BY <1>1, <2>9, EndDetachStep
    <2>10. CASE FailedConnect \/ FailedDisconnect \/ FailedFlush
      BY <1>1, <2>10, FailedSteps
    <2>11. CASE FlushPeriodic
      BY <1>1, <2>11, FlushPeriodicStep
    <2>12. CASE Shutdown
      BY <1>1, <2>12, ShutdownStep
    <2>13. CASE Crash
      BY <1>1, <2>13, CrashStep
    <2>14. CASE Start
      BY <1>1, <2>14, StartStep
    <2>15. CASE ReplayBlock
      BY <1>1, <2>15, ReplayBlockStep
    <2>16. CASE ReplayNextTx
      BY <1>1, <2>16, ReplayNextTxStep
    <2>17. CASE ReplayDone
      BY <1>1, <2>17, ReplayDoneStep
    <2>18. CASE UNCHANGED vars
      BY <1>1, <2>18, StutterStep
    <2> QED
      BY <1>1, <2>1, <2>2, <2>3, <2>4, <2>5, <2>6, <2>7, <2>8, <2>9, <2>10,
         <2>11, <2>12, <2>13, <2>14, <2>15, <2>16, <2>17, <2>18 DEF Next
  <1> QED
    BY <1>1, InitInv, PTL DEF Spec

-----------------------------------------------------------------------------
\* After any sequence of connects, reorganizations, lookups, flushes, crashes
\* and replays, and until a database transaction fails, the cache over the
\* database is the unspent outputs of the tip, its flags are true and addTxIn
\* misses no input.
THEOREM CacheAlwaysSound == Spec => []CacheSound
  <1>1. ASSUME IInv PROVE CacheSound
    <2>1. TypeOK /\ NoMissingInput
      BY <1>1 DEF IInv, InMemory, NoMissingInput
    <2>2. FlagsAreTrue
      BY <1>1 DEF IInv, InMemory, Flags, FlagsAreTrue
    <2>3. ViewMatchesTip
      <3> SUFFICES ASSUME node = "up", failed = "no", NEW o \in OutPoint
                   PROVE  Lookup(o) = (IF op = "connect" THEN Live[blk][pos] ELSE ViewAt(best))[o]
        BY DEF ViewMatchesTip
      <3>1. Over(cache) = IF op = "connect" THEN Live[blk][pos] ELSE ViewAt(best)
        BY <1>1 DEF IInv, InMemory, Shown
      <3>2. Lookup(o) = Over(cache)[o]
        BY DEF Lookup, Over
      <3> QED BY <3>1, <3>2
    <2> QED BY <2>1, <2>2, <2>3 DEF CacheSound
  <1> QED
    BY <1>1, CacheInvariance, PTL

\* The database is at all times that of the block its status names, a block of
\* the best chain, so that a replay which only goes forward repairs any crash.
THEOREM DiskAlwaysSound == Spec => []DiskSound
  <1>1. ASSUME IInv PROVE DiskSound
    BY <1>1 DEF IInv, OnDisk, DiskSound, DiskMatchesStatus, StatusOnBestChain
  <1> QED
    BY <1>1, CacheInvariance, PTL

\* Before the first crash or failure, flushNeededAfterPrune makes every prune
\* spare the blocks that a replay would need, whatever the pruning depth.
THEOREM PruningSparesReplay == Spec => []RecoverableBeforeCrash
  <1>1. ASSUME IInv PROVE RecoverableBeforeCrash
    BY <1>1 DEF IInv, Pruning, RecoverableBeforeCrash, Recoverable
  <1> QED
    BY <1>1, CacheInvariance, PTL
=============================================================================
