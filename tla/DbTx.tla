-------------------------------- MODULE DbTx --------------------------------
(***************************************************************************)
(* The buckets, keys and cursors a transaction of database/ffldb offers,   *)
(* over the flat key space of leveldb.  A raw key is a number that keeps   *)
(* the order of the real ones: 10*id + k is the key k of the bucket id,    *)
(* 1000 + 10*id + name the row of the bucket index that holds the id of    *)
(* the bucket `name' in the bucket id.  Reads go through three layers: the *)
(* updates of the transaction, the cache of the snapshot, leveldb; the     *)
(* cursor is two merging iterators, one over the other.                    *)
(***************************************************************************)
EXTENDS Integers, Sequences, SequencesExt, FiniteSets, TLC

CONSTANTS BucketNames,  \* small numbers, names of buckets
          ItemKeys,     \* small numbers, keys of items
          MaxTxOps,     \* bound: changes over all transactions
          MaxId,        \* bound: bucket ids
          MaxCommits    \* bound: transactions

VARIABLES
  disk,       \* leveldb: raw key -> value
  cached,     \* the cache: [puts, rems]
  pending,    \* the transaction: pendingKeys and pendingRemove
  tree,       \* reference: path -> items, as the transaction should see them
  kept,       \* reference: the tree as last committed
  cur,        \* an open cursor, or NoCursor
  acts        \* [ops, commits]

dbtxVars == <<disk, cached, pending, tree, kept, cur, acts>>

Root == 0                 \* metadataBucketID
CurBucketID == 2000       \* the key "bidx-cbid"
bucketizedKey(id, k) == 10 * id + k
bucketIndexKey(id, name) == 1000 + 10 * id + name
Clear == [puts |-> <<>>, rems |-> {}]

Without(f, S) == [x \in DOMAIN f \ S |-> f[x]]

---------------------------------------------------------------------------
(* Keys.                                                                   *)

None == -1

\* dbCacheSnapshot.Get and Has.
SnapGet(k) == IF k \in cached.rems THEN None
              ELSE IF k \in DOMAIN cached.puts THEN cached.puts[k]
              ELSE IF k \in DOMAIN disk THEN disk[k] ELSE None

\* transaction.fetchKey and hasKey.
fetchKey(p, k) == IF k \in p.rems THEN None
                  ELSE IF k \in DOMAIN p.puts THEN p.puts[k] ELSE SnapGet(k)

putKey(p, k, v) == [puts |-> (k :> v) @@ p.puts, rems |-> p.rems \ {k}]
deleteKey(p, k) == [puts |-> Without(p.puts, {k}), rems |-> p.rems \cup {k}]

nextBucketID(p) ==
  LET id == fetchKey(p, CurBucketID) + 1
  IN [id |-> id, p |-> putKey(p, CurBucketID, id)]

\* bucket.Bucket along a path of names, from the root.
Bucket(p, path) ==
  FoldLeft(LAMBDA id, name : IF id = None THEN None
                             ELSE fetchKey(p, bucketIndexKey(id, name)),
           Root, path)

Present(p) ==
  {k \in DOMAIN disk \cup DOMAIN cached.puts \cup DOMAIN p.puts : fetchKey(p, k) # None}

KeysOf(p, id) == {k \in Present(p) : k \div 10 = id}
IndexOf(p, id) == {k \in Present(p) : k \div 10 = 100 + id /\ k # CurBucketID}

---------------------------------------------------------------------------
(* Buckets and items.                                                      *)

Acting == acts.ops < MaxTxOps /\ cur.on = FALSE
Acted == acts' = [acts EXCEPT !.ops = @ + 1]

Prefix(path, q) == Len(path) <= Len(q) /\ SubSeq(q, 1, Len(path)) = path

\* CreateBucket; with an existing name it fails, and CreateBucketIfNotExists
\* returns that bucket.
CreateBucket(path, name) ==
  /\ Acting /\ path \in DOMAIN tree /\ Append(path, name) \notin DOMAIN tree
  /\ LET new == nextBucketID(pending)
     IN /\ new.id <= MaxId
        /\ pending' = putKey(new.p, bucketIndexKey(Bucket(pending, path), name), new.id)
  /\ tree' = (Append(path, name) :> <<>>) @@ tree
  /\ Acted /\ UNCHANGED <<disk, cached, kept, cur>>

\* The rows of a bucket and of every bucket in it.
Under(p, id) ==
  LET Wider(ids, n) == ids \cup {fetchKey(p, b) : b \in UNION {IndexOf(p, i) : i \in ids}}
      ids == FoldLeft(Wider, {id}, [n \in 1..MaxId |-> n])
  IN UNION {KeysOf(p, i) \cup IndexOf(p, i) : i \in ids}

\* What DeleteBucket's walk deletes of them: every row that is not pending, and
\* some or all of the pending ones (the iterator over the pending keys is not
\* told that they go, see DbTreap).
Doomed(p, id) ==
  {(Under(p, id) \ DOMAIN p.puts) \cup some : some \in SUBSET (Under(p, id) \cap DOMAIN p.puts)}

DeleteBucket(path, name) ==
  /\ Acting /\ Append(path, name) \in DOMAIN tree
  /\ LET row == bucketIndexKey(Bucket(pending, path), name)
     IN \E gone \in Doomed(pending, fetchKey(pending, row)) :
          pending' = FoldSet(LAMBDA k, p : deleteKey(p, k), pending, gone \cup {row})
  /\ tree' = Without(tree, {q \in DOMAIN tree : Prefix(Append(path, name), q)})
  /\ Acted /\ UNCHANGED <<disk, cached, kept, cur>>

Put(path, k) ==
  /\ Acting /\ path \in DOMAIN tree
  /\ pending' = putKey(pending, bucketizedKey(Bucket(pending, path), k), acts.ops)
  /\ tree' = [tree EXCEPT ![path] = (k :> acts.ops) @@ @]
  /\ Acted /\ UNCHANGED <<disk, cached, kept, cur>>

Delete(path, k) ==
  /\ Acting /\ path \in DOMAIN tree /\ k \in DOMAIN tree[path]
  /\ pending' = deleteKey(pending, bucketizedKey(Bucket(pending, path), k))
  /\ tree' = [tree EXCEPT ![path] = Without(@, {k})]
  /\ Acted /\ UNCHANGED <<disk, cached, kept, cur>>

\* Commit, into the cache or, after a flush, past it; a transaction that fails
\* is rolled back.
Commit(flush) ==
  /\ acts.commits < MaxCommits /\ ~cur.on
  /\ acts' = [acts EXCEPT !.commits = @ + 1]
  /\ LET Over(p, c) == [puts |-> p.puts @@ Without(c.puts, p.rems),
                        rems |-> (c.rems \ DOMAIN p.puts) \cup p.rems]
         all == Over(pending, cached)
     IN IF flush THEN /\ disk' = all.puts @@ Without(disk, all.rems)
                      /\ cached' = Clear
        ELSE cached' = all /\ disk' = disk
  /\ pending' = Clear /\ kept' = tree
  /\ UNCHANGED <<tree, cur>>

Rollback ==
  /\ pending # Clear /\ ~cur.on
  /\ pending' = Clear /\ tree' = kept
  /\ UNCHANGED <<disk, cached, kept, cur, acts>>

---------------------------------------------------------------------------
(* Cursors.                                                                *)

End == 9999

\* A leveldb iterator over a set of keys: it can turn back at either end.
LdbStep(S, at, forwards) ==
  LET rest == {k \in S : IF forwards THEN k > at ELSE k < at}
  IN IF rest = {} THEN (IF forwards THEN End ELSE None)
     ELSE CHOOSE k \in rest : \A j \in rest : IF forwards THEN k <= j ELSE k >= j

\* A treap iterator: exhausted, it stays so.
TreapStep(S, at, forwards) ==
  IF at \in {None, End} THEN at ELSE LdbStep(S, at, forwards)

Edge(forwards) == IF forwards THEN None ELSE End

\* Which of two iterators gives the next key: chooseIterator.
Choose(a, b, forwards) ==
  LET Valid(k) == k \notin {None, End}
  IN IF ~Valid(a) /\ ~Valid(b) THEN "none"
     ELSE IF ~Valid(b) THEN "a"
     ELSE IF ~Valid(a) THEN "b"
     ELSE IF (forwards /\ a > b) \/ (~forwards /\ a < b) THEN "b" ELSE "a"

Rows == IF cur.kind = "keys" THEN 10 * cur.id..(10 * cur.id + 9)
        ELSE IF cur.kind = "buckets" THEN (1000 + 10 * cur.id)..(1009 + 10 * cur.id)
        ELSE (10 * cur.id..(10 * cur.id + 9)) \cup ((1000 + 10 * cur.id)..(1009 + 10 * cur.id))

\* dbCacheIterator: leveldb under the cache.  skipPendingUpdates passes over
\* the keys the cache removes or replaces.
Settle(i, forwards) ==
  LET hidden == cached.rems \cup DOMAIN cached.puts
      a == IF i.a \in hidden THEN LdbStep((DOMAIN disk \cap Rows) \ hidden, i.a, forwards)
           ELSE i.a
  IN [a |-> a, b |-> i.b, use |-> Choose(a, i.b, forwards)]

SnapStart(forwards) ==
  Settle([a |-> LdbStep(DOMAIN disk \cap Rows, Edge(forwards), forwards),
          b |-> LdbStep(DOMAIN cached.puts \cap Rows, Edge(forwards), forwards)], forwards)

SnapStep(i, forwards) ==
  IF i.use = "none" THEN i
  ELSE IF i.use = "a"
  THEN Settle([i EXCEPT !.a = LdbStep(DOMAIN disk \cap Rows, @, forwards)], forwards)
  ELSE Settle([i EXCEPT !.b = TreapStep(DOMAIN cached.puts \cap Rows, @, forwards)], forwards)

SnapKey(i) == IF i.use = "a" THEN i.a ELSE IF i.use = "b" THEN i.b ELSE None

\* The keys of the snapshot the transaction removed or replaced.
Hidden == pending.rems \cup DOMAIN pending.puts

\* cursor: the snapshot's iterator under the pending keys.
SettleCursor(c, forwards) ==
  LET Skip(i, n) == IF SnapKey(i) \in Hidden THEN SnapStep(i, forwards) ELSE i
      snap == FoldLeft(Skip, c.snap, [n \in 1..Cardinality(Hidden) |-> n])
  IN [c EXCEPT !.snap = snap, !.use = Choose(SnapKey(snap), c.own, forwards)]

CursorKey(c) == IF c.use = "a" THEN SnapKey(c.snap)
                ELSE IF c.use = "b" THEN c.own ELSE None

NoCursor == [on |-> FALSE, kind |-> "full", id |-> 0, forwards |-> TRUE,
             snap |-> [a |-> None, b |-> None, use |-> "none"], own |-> None,
             use |-> "none", seen |-> <<>>, due |-> <<>>, turned |-> FALSE]

\* The rows a sweep should visit, in order.
Due(p, forwards, rows) ==
  SetToSortSeq(Present(p) \cap rows, LAMBDA a, b : IF forwards THEN a < b ELSE a > b)

\* Seen: the row the cursor is at is added to what it visited.
Noted(c) == IF CursorKey(c) = None THEN c
            ELSE [c EXCEPT !.seen = Append(@, CursorKey(c))]

OpenCursor(path, kind) ==
  /\ ~cur.on /\ path \in DOMAIN tree /\ pending # Clear
  /\ cur' = [NoCursor EXCEPT !.on = TRUE, !.kind = kind, !.id = Bucket(pending, path)]
  /\ UNCHANGED <<disk, cached, pending, tree, kept, acts>>

\* First and Last.
CursorStart(forwards) ==
  /\ cur.on /\ cur.seen = <<>> /\ cur.use = "none" /\ cur.due = <<>>
  /\ cur' = Noted(SettleCursor(
       [cur EXCEPT !.forwards = forwards, !.due = Due(pending, forwards, Rows),
                   !.snap = SnapStart(forwards),
                   !.own = LdbStep(DOMAIN pending.puts \cap Rows, Edge(forwards), forwards)],
       forwards))
  /\ UNCHANGED <<disk, cached, pending, tree, kept, acts>>

\* Next and Prev.
CursorStep(forwards) ==
  /\ cur.on /\ cur.use # "none" /\ ~cur.turned
  /\ LET c == [cur EXCEPT !.turned = forwards # cur.forwards]
     IN cur' = Noted(SettleCursor(
          IF cur.use = "a" THEN [c EXCEPT !.snap = SnapStep(@, forwards)]
          ELSE [c EXCEPT !.own = TreapStep(DOMAIN pending.puts \cap Rows, @, forwards)],
          forwards))
  /\ UNCHANGED <<disk, cached, pending, tree, kept, acts>>

\* Delete: not for buckets.
CursorDelete ==
  /\ cur.on /\ CursorKey(cur) \in 0..999 /\ acts.ops < MaxTxOps
  /\ CursorKey(cur) \in Present(pending)
  /\ pending' = deleteKey(pending, CursorKey(cur))
  /\ \E path \in DOMAIN tree :
       /\ Bucket(pending, path) = cur.id
       /\ tree' = [tree EXCEPT ![path] = Without(@, {CursorKey(cur) % 10})]
  /\ Acted /\ UNCHANGED <<disk, cached, kept, cur>>

CloseCursor ==
  /\ cur.on /\ cur' = NoCursor
  /\ UNCHANGED <<disk, cached, pending, tree, kept, acts>>

DbTxInit ==
  /\ disk = CurBucketID :> 1 /\ cached = Clear /\ pending = Clear
  /\ tree = <<>> :> <<>> /\ kept = tree /\ cur = NoCursor
  /\ acts = [ops |-> 0, commits |-> 0]

DbTxNext ==
  \/ \E path \in DOMAIN tree :
       \/ \E name \in BucketNames : CreateBucket(path, name) \/ DeleteBucket(path, name)
       \/ \E k \in ItemKeys : Put(path, k) \/ Delete(path, k)
       \/ \E kind \in {"keys", "buckets", "full"} : OpenCursor(path, kind)
  \/ \E flush \in BOOLEAN : Commit(flush)
  \/ Rollback
  \/ \E forwards \in BOOLEAN : CursorStart(forwards) \/ CursorStep(forwards)
  \/ CursorDelete \/ CloseCursor

---------------------------------------------------------------------------
(* Properties.                                                             *)

\* Types of the variables.
DbTxTypeOK ==
  /\ DOMAIN cached.puts \cap cached.rems = {}
  /\ DOMAIN pending.puts \cap pending.rems = {}
  /\ fetchKey(pending, CurBucketID) \in 1..MaxId
  /\ cur.use \in {"none", "a", "b"}

\* A transaction sees the tree of buckets and items its own and the committed
\* operations built: deleted buckets are gone with all that was in them, also
\* when one of the same name is created again, although the loop that deletes
\* a bucket can leave rows behind.
BucketsAreTree ==
  \A path \in DOMAIN tree :
    LET id == Bucket(pending, path)
    IN /\ id # None
       /\ \A k \in ItemKeys : fetchKey(pending, bucketizedKey(id, k)) =
            IF k \in DOMAIN tree[path] THEN tree[path][k] ELSE None
       /\ \A name \in BucketNames :
            (Bucket(pending, Append(path, name)) # None) <=> (Append(path, name) \in DOMAIN tree)

\* A cursor that is moved in one direction visits every row of its bucket once,
\* in order, through all three layers, also when it deletes rows on its way.
CursorVisitsAll ==
  cur.on /\ ~cur.turned /\ cur.due # <<>> =>
    /\ IsPrefix(cur.seen, cur.due)
    /\ cur.use = "none" => cur.seen = cur.due

\* A cursor that turns around gives the row before ("Prev moves the cursor one
\* key/value pair backward").
CursorTurns ==
  cur.on /\ cur.turned /\ Len(cur.seen) > 2 => cur.seen[Len(cur.seen)] = cur.seen[Len(cur.seen) - 2]

-----------------------------------------------------------------------------
(***************************************************************************)
(* The treaps of database/internal/treap, which hold the pending keys of a *)
(* transaction (mutable) and the cached keys of the database (immutable),  *)
(* and their iterators.  The nodes are modelled as the objects they are: a *)
(* heap of numbered nodes with left and right pointers, 0 being nil, so    *)
(* that what an older version of an immutable treap, or an iterator that   *)
(* points into a treap being changed, sees is what the code would see.     *)
(***************************************************************************)

CONSTANTS Keys,       \* a set of numbers
          Priorities, \* what rand.Int returns
          Ranges,     \* [start, limit] of the iterators
          MaxNodes,   \* bound: live nodes
          MaxOps      \* bound: changes of a treap

VARIABLES
  kind,       \* "mutable" or "immutable"
  nodes,      \* the heap: id -> [key, val, prio, left, right]
  root,       \* the root of the treap (of its latest version)
  map,        \* the reference: the keys put and not deleted, with their values
  version,    \* an older version of an immutable treap: [root, map]
  iter,       \* an iterator, or NoIter
  moved,      \* its last move: where it was, which way, what the treap held
  sweep,      \* DeleteBucket's loop: "no", "on" or "done"
  ops

treapVars == <<kind, nodes, root, map, version, iter, moved, sweep, ops>>

Ids == 1..MaxNodes
Nil == [key |-> 0, val |-> 0, prio |-> 0, left |-> 0, right |-> 0]

---------------------------------------------------------------------------
(* Walking.                                                                *)

\* The nodes on the way to a key, from the root, the one that has it included:
\* Mutable.get, Immutable.get and the first loops of TreapPut and TreapDelete.
Path(h, r, k) ==
  LET p[n \in 0..MaxNodes] ==
        IF n = 0 THEN <<>>
        ELSE IF k = h[n].key THEN <<n>>
        ELSE <<n>> \o p[IF k < h[n].key THEN h[n].left ELSE h[n].right]
  IN p[r]

\* The nodes of a treap in ForEach's order.
ForEach(h, r) ==
  LET f[n \in 0..MaxNodes] ==
        IF n = 0 THEN <<>> ELSE f[h[n].left] \o <<n>> \o f[h[n].right]
  IN f[r]

Holds(h, r) ==
  LET Pairs(order) == [i \in 1..Len(order) |-> <<h[order[i]].key, h[order[i]].val>>]
  IN Pairs(ForEach(h, r))

\* The nodes something still points to; the others are free.
Live(h, roots, it) ==
  UNION {ToSet(ForEach(h, r)) : r \in roots}
    \cup IF it.on THEN ({it.node} \cup ToSet(it.parents)) \ {0} ELSE {}

Swept(h, live) == [n \in Ids |-> IF n \in live THEN h[n] ELSE Nil]

\* A free node: new, or a clone.
Fresh(h, used) == CHOOSE n \in Ids \ used : h[n] = Nil

---------------------------------------------------------------------------
(* TreapPut and TreapDelete.  A state of the computation is [h, root, used, ...].    *)

\* relinkGrandparent: the child pointer of a node, or the root.
Relink(s, parent, old, new) ==
  IF parent = 0 THEN [s EXCEPT !.root = new]
  ELSE IF s.h[parent].left = old THEN [s EXCEPT !.h[parent].left = new]
  ELSE [s EXCEPT !.h[parent].right = new]

\* cloneTreapNode along a path: each clone points to the next one.
ClonePath(s, path) ==
  FoldLeft(LAMBDA t, i :
             LET n == Fresh(t.h, t.used)
                 c == [t EXCEPT !.h[n] = t.h[path[i]], !.used = @ \cup {n},
                                !.path = Append(@, n)]
             IN Relink(c, IF i = 1 THEN 0 ELSE t.path[i - 1], path[i], n),
           [s EXCEPT !.path = <<>>], [i \in 1..Len(path) |-> i])

Prepared(cow, h, r, used, path) ==
  LET s == [h |-> h, root |-> r, used |-> used, path |-> path]
  IN IF cow THEN ClonePath(s, path) ELSE s

\* A child takes the place of its parent, which becomes its child.
Turned(s, parent, n) ==
  IF s.h[parent].left = n
  THEN [s EXCEPT !.h[parent].left = s.h[n].right, !.h[n].right = parent]
  ELSE [s EXCEPT !.h[parent].right = s.h[n].left, !.h[n].left = parent]

\* TreapPut's last loop: the new node rotates up past the parents with a greater
\* priority.
RotateUp(s, n) ==
  LET Up(t, i) ==
        LET parent == t.path[i]
        IN IF t.stop \/ t.h[n].prio >= t.h[parent].prio
           THEN [t EXCEPT !.stop = TRUE]
           ELSE Relink(Turned(t, parent, n), IF i = 1 THEN 0 ELSE t.path[i - 1],
                       parent, n)
      len == Len(s.path)
  IN FoldLeft(Up, [h |-> s.h, root |-> s.root, path |-> s.path, stop |-> FALSE],
              [i \in 1..len |-> len + 1 - i])

\* A new node below the last one of the path.
Linked(s, last, n, new) ==
  IF new.key < s.h[last].key THEN [s EXCEPT !.h[n] = new, !.h[last].left = n]
  ELSE [s EXCEPT !.h[n] = new, !.h[last].right = n]

PutBelow(s, last, n, new) ==
  IF s.h[last].key = new.key THEN [s EXCEPT !.h[last].val = new.val]
  ELSE RotateUp(Linked(s, last, n, new), n)

PutKey(cow, h, r, used, k, v, prio) ==
  LET new == [key |-> k, val |-> v, prio |-> prio, left |-> 0, right |-> 0]
      n == Fresh(h, used)
      Below(s) == PutBelow(s, Last(s.path), Fresh(s.h, s.used), new)
  IN IF r = 0 THEN [h |-> [h EXCEPT ![n] = new], root |-> n]
     ELSE Below(Prepared(cow, h, r, used, Path(h, r, k)))

\* TreapDelete's loop: the child with the greater priority takes the place of the
\* node `del', until that is a leaf.
MoveUp(cow, t, child) ==
  LET c == IF cow THEN Fresh(t.h, t.used) ELSE child
      copied == Relink([t EXCEPT !.h[c] = t.h[child], !.used = @ \cup {c}], t.del, child, c)
  IN [Relink(Turned(copied, t.del, c), t.parent, t.del, c) EXCEPT !.parent = c]

Sunk(cow, s) ==
  LET Down(t, i) ==
        LET node == t.h[t.del]
            isLeft == \/ node.right = 0
                      \/ node.left # 0 /\ t.h[node.left].prio >= t.h[node.right].prio
        IN IF node.left = 0 /\ node.right = 0 THEN t
           ELSE MoveUp(cow, t, IF isLeft THEN node.left ELSE node.right)
  IN FoldLeft(Down,
       [h |-> s.h, root |-> s.root, used |-> s.used, del |-> Last(s.path),
        parent |-> IF Len(s.path) = 1 THEN 0 ELSE s.path[Len(s.path) - 1]],
       [i \in Ids |-> i])

CutOff(t) ==
  IF t.parent # 0 /\ t.h[t.parent].right = t.del THEN [t EXCEPT !.h[t.parent].right = 0]
  ELSE Relink(t, t.parent, t.del, 0)

DeleteKey(cow, h, r, used, k) ==
  LET From(path) == IF path = <<>> \/ h[Last(path)].key # k THEN [h |-> h, root |-> r]
                    ELSE CutOff(Sunk(cow, Prepared(cow, h, r, used, path)))
  IN From(Path(h, r, k))

---------------------------------------------------------------------------
(* Iterators.                                                              *)

NoIter == [on |-> FALSE, node |-> 0, parents |-> <<>>, isNew |-> TRUE,
           seekKey |-> 0, root |-> 0, start |-> 0, limit |-> 0]

limitIterator(h, it) ==
  IF it.node # 0 /\ (h[it.node].key < it.start \/ h[it.node].key >= it.limit)
  THEN [it EXCEPT !.node = 0] ELSE it

\* The greatest of a set of indices, 0 when there is none.
Greatest(S) == IF S = {} THEN 0 ELSE CHOOSE i \in S : \A j \in S : j <= i

\* seek: the node with the key, or the nearest one above (or below) it, and the
\* parents on the way to it.
seek(h, it, k, exact, greater) ==
  LET walk[n \in 0..MaxNodes] ==
        IF n = 0 THEN <<>>
        ELSE <<n>> \o (IF k = h[n].key /\ exact THEN <<>>
                       ELSE walk[IF k < h[n].key \/ (k = h[n].key /\ ~greater)
                                 THEN h[n].left ELSE h[n].right])
      Fits(n) == \/ exact /\ h[n].key = k
                 \/ greater /\ h[n].key > k
                 \/ ~greater /\ h[n].key < k
      At(way, i) == IF i = 0 THEN [it EXCEPT !.node = 0, !.parents = <<>>]
                    ELSE [it EXCEPT !.node = way[i], !.parents = SubSeq(way, 1, i - 1)]
      Found(way) == At(way, Greatest({i \in 1..Len(way) : Fits(way[i])}))
  IN limitIterator(h, Found(walk[it.root]))

\* The walk of Next to the leftmost node of the right subtree, or up; Prev is
\* its mirror image.
Walk(h, it, forwards) ==
  LET Near(n) == IF forwards THEN h[n].right ELSE h[n].left
      Far(n) == IF forwards THEN h[n].left ELSE h[n].right
      down[n \in 0..MaxNodes] == IF n = 0 THEN <<>> ELSE <<n>> \o down[Far(n)]
      all == Append(it.parents, it.node)
      \* to the deepest parent that was not left through its near pointer
      Up(i) == IF i = 0 THEN [it EXCEPT !.node = 0, !.parents = <<>>]
               ELSE [it EXCEPT !.node = it.parents[i], !.parents = SubSeq(@, 1, i - 1)]
      Along(way) ==
        IF way # <<>> THEN [it EXCEPT !.node = Last(way), !.parents = all \o Front(way)]
        ELSE Up(Greatest({i \in 1..Len(it.parents) : Near(it.parents[i]) # all[i + 1]}))
  IN limitIterator(h, Along(down[Near(it.node)]))

\* First and Last, for the ranges every iterator of ffldb has.
First(h, it) == seek(h, [it EXCEPT !.isNew = FALSE], it.start, TRUE, TRUE)
LastOf(h, it) == seek(h, [it EXCEPT !.isNew = FALSE], it.limit, FALSE, FALSE)

\* Next (forwards) and Prev.
Step(h, it, forwards) ==
  IF it.isNew THEN IF forwards THEN First(h, it) ELSE LastOf(h, it)
  ELSE IF it.node = 0 THEN it
  ELSE IF it.seekKey # 0
       THEN seek(h, [it EXCEPT !.seekKey = 0], it.seekKey, FALSE, forwards)
  ELSE Walk(h, it, forwards)

ForceReseek(h, r, it) ==
  IF kind = "immutable" \/ ~it.on THEN it
  ELSE [it EXCEPT !.root = r,
                  !.seekKey = IF it.node = 0 THEN 0 ELSE h[it.node].key]

---------------------------------------------------------------------------
(* Actions.                                                                *)

Roots == {root, version.root, IF iter.on THEN iter.root ELSE 0}

\* A change of the treap, and the iterators told of it (notifyActiveIters).
Change(result, newMap) ==
  /\ iter' = ForceReseek(nodes, result.root, iter)
  /\ nodes' = Swept(result.h, Live(result.h, {result.root, version.root,
                                             IF iter'.on THEN iter'.root ELSE 0}, iter'))
  /\ root' = result.root /\ map' = newMap
  /\ ops' = ops + 1
  /\ UNCHANGED <<kind, version, moved, sweep>>

Room(n) == Cardinality(Ids \ Live(nodes, Roots, iter)) >= n

Cow == kind = "immutable"

\* The value put is the priority drawn, so that a second put can be told from the
\* first.
TreapPut(k, prio) ==
  /\ sweep = "no" /\ ops < MaxOps /\ Room(Len(Path(nodes, root, k)) + 1)
  /\ Change(PutKey(Cow, nodes, root, Live(nodes, Roots, iter), k, prio, prio),
            [x \in DOMAIN map \cup {k} |-> IF x = k THEN prio ELSE map[x]])

TreapDelete(k) ==
  /\ sweep = "no" /\ ops < MaxOps /\ k \in DOMAIN map /\ Room(Cardinality(DOMAIN map))
  /\ Change(DeleteKey(Cow, nodes, root, Live(nodes, Roots, iter), k),
            [x \in DOMAIN map \ {k} |-> map[x]])

\* A snapshot keeps a version of an immutable treap while it changes on.
Keep ==
  /\ kind = "immutable" /\ version.root = 0 /\ root # 0
  /\ version' = [root |-> root, map |-> map]
  /\ UNCHANGED <<kind, nodes, root, map, iter, moved, sweep, ops>>

\* Mutable.Iterator and Immutable.Iterator.
NewIterator(range) ==
  /\ ~iter.on /\ root # 0
  /\ iter' = [NoIter EXCEPT !.on = TRUE, !.root = root, !.start = range.start,
                            !.limit = range.limit]
  /\ UNCHANGED <<kind, nodes, root, map, version, moved, sweep, ops>>

\* The keys the iterator ranges over: of the treap it was made for.
InRange ==
  {h[1] : h \in ToSet(Holds(nodes, iter.root))} \cap iter.start..(iter.limit - 1)

Position == IF iter.node = 0 THEN 0 ELSE nodes[iter.node].key

Unmoved == [to |-> -1, stale |-> FALSE]

\* A move, with the key it has to lead to.
Move(to, mayBeStale, it) ==
  /\ iter.on /\ sweep = "no"
  /\ iter' = it
  /\ moved' = [to |-> to, stale |-> mayBeStale /\ iter.seekKey \notin {0, Position}]
  /\ UNCHANGED <<kind, nodes, root, map, version, sweep, ops>>

Least(S) == IF S = {} THEN 0 ELSE CHOOSE x \in S : \A y \in S : x <= y

\* A new iterator starts with the first or the last key, an exhausted one stays so.
Following == IF iter.isNew THEN InRange
             ELSE {k \in InRange : Position # 0 /\ k > Position}
Preceding == IF iter.isNew THEN InRange
             ELSE {k \in InRange : Position # 0 /\ k < Position}

MoveFirst == Move(Least(InRange), FALSE, First(nodes, iter))
MoveLast == Move(Greatest(InRange), FALSE, LastOf(nodes, iter))
MoveNext == Move(Least(Following), TRUE, Step(nodes, iter, TRUE))
MovePrev == Move(Greatest(Preceding), TRUE, Step(nodes, iter, FALSE))
Seek(k) == /\ k >= iter.start
           /\ Move(Least({x \in InRange : x >= k}), FALSE,
                   seek(nodes, [iter EXCEPT !.isNew = FALSE], k, TRUE, TRUE))

\* DeleteBucket: a new iterator over the bucket's keys, each of which is
\* deleted without the iterators being told.
SweepStart(range) ==
  /\ kind = "mutable" /\ ~iter.on /\ sweep = "no" /\ root # 0
  /\ iter' = First(nodes, [NoIter EXCEPT !.on = TRUE, !.root = root,
                             !.start = range.start, !.limit = range.limit])
  /\ sweep' = "on"
  /\ UNCHANGED <<kind, nodes, root, map, version, moved, ops>>

SweepStep ==
  /\ sweep = "on"
  /\ IF iter.node = 0
     THEN /\ sweep' = "done"
          /\ UNCHANGED <<kind, nodes, root, map, version, iter, moved, ops>>
     ELSE \E cut \in {DeleteKey(FALSE, nodes, root, Live(nodes, Roots, iter), Position)} :
            /\ nodes' = cut.h /\ root' = cut.root
            /\ map' = [x \in DOMAIN map \ {Position} |-> map[x]]
            /\ iter' = Step(cut.h, iter, TRUE)
            /\ UNCHANGED <<kind, version, moved, sweep, ops>>

TreapInit ==
  /\ kind \in {"mutable", "immutable"}
  /\ nodes = [n \in Ids |-> Nil] /\ root = 0 /\ map = <<>>
  /\ version = [root |-> 0, map |-> <<>>] /\ iter = NoIter
  /\ moved = Unmoved
  /\ sweep = "no" /\ ops = 0

TreapNext ==
  \/ \E k \in Keys, prio \in Priorities : TreapPut(k, prio)
  \/ \E k \in Keys : TreapDelete(k)
  \/ Keep
  \/ \E range \in Ranges : NewIterator(range) \/ SweepStart(range)
  \/ MoveFirst \/ MoveLast \/ MoveNext \/ MovePrev
  \/ \E k \in Keys : Seek(k)
  \/ SweepStep

---------------------------------------------------------------------------
(* Properties.                                                             *)

\* Types of the variables.
TreapTypeOK ==
  /\ root \in 0..MaxNodes /\ DOMAIN nodes = Ids
  /\ \A n \in Ids : {nodes[n].left, nodes[n].right} \subseteq 0..MaxNodes
  /\ iter.node \in 0..MaxNodes /\ sweep \in {"no", "on", "done"}

Represents(r, m) ==
  LET Ordered(all) == /\ \A i \in 1..(Len(all) - 1) : all[i][1] < all[i + 1][1]
                      /\ ToSet(all) = {<<k, m[k]>> : k \in DOMAIN m}
  IN Ordered(Holds(nodes, r))

\* Whatever was put and deleted, in whatever order and with whatever
\* priorities, a treap holds exactly those keys, in order, with their values.
TreapIsMap == Represents(root, map)

\* A version of an immutable treap never changes, although later versions share
\* its nodes: the snapshots of the database depend on it.
VersionsFrozen == Represents(version.root, version.map)

\* Every move of an iterator leads to the neighbour of the key it was at, also
\* when that key and others were deleted or put since.  Excepted is the first
\* move after First, Last or Seek when the treap had changed before: they leave
\* the key to seek from in place.
IteratorMoves == moved.to # -1 => Position = moved.to \/ moved.stale

\* A key deleted during DeleteBucket's loop does not keep the loop from the
\* others (interface.go: "removing all nested buckets and keys under the bucket
\* being deleted").
BucketIsEmptied ==
  sweep = "done" => DOMAIN map \cap iter.start..(iter.limit - 1) = {}

\* Parents have the smaller priorities (README: "binary search tree and heap
\* semantics").
HeapOrdered ==
  \A n \in ToSet(ForEach(nodes, root)) :
    \A c \in {nodes[n].left, nodes[n].right} \ {0} : nodes[c].prio >= nodes[n].prio
=============================================================================
