---------------------------- MODULE AddrManager -----------------------------
(***************************************************************************)
(* addrmgr: the addresses a node knows, each either in up to               *)
(* newBucketsPerAddress of the new buckets or in one tried bucket, the     *)
(* counters that GetAddress trusts, and the file they are saved to and     *)
(* loaded from.  Every exported operation runs under the manager's mutex   *)
(* and is one action.  Time is counted in coarse units; the buckets that   *)
(* the hashes select are constants.                                        *)
(***************************************************************************)
EXTENDS Integers, Sequences, FiniteSets, SequencesExt, FiniteSetsExt, Functions

CONSTANTS
    Addrs, Sources,
    NewBucketOf,    \* [Addrs -> [Sources -> new bucket]]
    TriedBucketOf,  \* [Addrs -> tried bucket]
    NewBuckets, TriedBuckets,
    NewBucketSize, TriedBucketSize, NewBucketsPerAddress,
    NumRetries, MaxFailures,    \* attempts that make an address bad
    MissingTime, BadTime,       \* numMissingDays, minBadDays
    MaxTime,                    \* bound on the clock
    Dialed,                     \* the addresses that the node connects to
    Stamps,                     \* the timestamps that addresses are advertised with
    PeersFiles                  \* what may be on disk at the first start

VARIABLES
    addrIndex, addrNew, addrTried, nNew, nTried,
    peersFile,
    time,
    life        \* "off" or "running"

addrVars == <<addrIndex, addrNew, addrTried, nNew, nTried, peersFile, time, life>>

NoFile == [kind |-> "none"]
Torn == [kind |-> "torn"]   \* os.Create truncated it, the rest was not written
InUse == [kind |-> "in use"]
IsSaved(f) == f.kind = "saved"

AddrAssumption ==
    /\ NewBucketOf \in [Addrs -> [Sources -> NewBuckets]]
    /\ TriedBucketOf \in [Addrs -> TriedBuckets]
    /\ {NewBucketSize, TriedBucketSize, NewBucketsPerAddress} \subseteq Nat \ {0}

Known == DOMAIN addrIndex

AddrTypeOK ==
    /\ Known \subseteq Addrs
    /\ \A a \in Known : /\ addrIndex[a].src \in Sources
                        /\ addrIndex[a].attempts \in 0..MaxFailures
                        /\ addrIndex[a].refs \in 0..NewBucketsPerAddress
                        /\ addrIndex[a].tried \in BOOLEAN
    /\ addrNew \in [NewBuckets -> SUBSET Addrs]
    /\ \A b \in TriedBuckets : Range(addrTried[b]) \subseteq Addrs
    /\ time \in 1..MaxTime /\ life \in {"off", "running"}

Without(f, gone) == Restrict(f, DOMAIN f \ gone)
With(f, a, v) == [x \in DOMAIN f \cup {a} |-> IF x = a THEN v ELSE f[x]]

\* The fields of AddrManager, as one value.
Tables(index, new, tried, nn, nt) ==
    [index |-> index, new |-> new, tried |-> tried, nNew |-> nn, nTried |-> nt]
Now == Tables(addrIndex, addrNew, addrTried, nNew, nTried)
Becomes(t) ==
    /\ addrIndex' = t.index /\ addrNew' = t.new /\ addrTried' = t.tried
    /\ nNew' = t.nNew /\ nTried' = t.nTried

reset(t) == [t EXCEPT !.index = <<>>, !.new = [b \in NewBuckets |-> {}],
                      !.tried = [b \in TriedBuckets |-> <<>>]]
New == reset(Tables(<<>>, <<>>, <<>>, 0, 0))

AddrInit ==
    /\ addrIndex = New.index /\ addrNew = New.new /\ addrTried = New.tried
    /\ nNew = 0 /\ nTried = 0
    /\ peersFile \in PeersFiles /\ time = 1 /\ life = "off"

(***************************************************************************)
(* Adding addresses.                                                       *)
(***************************************************************************)
isBad(ka) ==
    /\ ka.lastattempt # time
    /\ \/ ka.stamp > time
       \/ ka.stamp < time - MissingTime
       \/ ka.lastsuccess = 0 /\ ka.attempts >= NumRetries
       \/ ka.lastsuccess <= time - BadTime /\ ka.attempts >= MaxFailures

\* Takes addresses out of a new bucket, and forgets those in no bucket.
Drop(t, bucket, gone) ==
    LET last == {a \in gone : t.index[a].refs = 1}
    IN  [t EXCEPT !.new[bucket] = @ \ gone,
                  !.index = [a \in DOMAIN t.index \ last |->
                      IF a \in gone THEN [t.index[a] EXCEPT !.refs = @ - 1] ELSE t.index[a]],
                  !.nNew = @ - Cardinality(last)]

\* The bad entries and the oldest other one; of several oldest any can be last
\* in the order in which the map is walked.
expireNew(t, bucket) ==
    LET bad == {a \in t.new[bucket] : isBad(t.index[a])}
        rest == t.new[bucket] \ bad
        oldest == {a \in rest : \A o \in rest : t.index[a].stamp <= t.index[o].stamp}
    IN  IF rest = {} THEN {Drop(t, bucket, bad)}
        ELSE {Drop(t, bucket, bad \cup {a}) : a \in oldest}

Placed(t, a, bucket) ==
    IF a \in t.new[bucket] THEN {t}
    ELSE {[u EXCEPT !.index[a].refs = @ + 1, !.new[bucket] = @ \cup {a}] :
             u \in IF Cardinality(t.new[bucket]) > NewBucketSize THEN expireNew(t, bucket) ELSE {t}}

\* updateAddress of a routable address a that source s advertised with a
\* timestamp.  The random choice that keeps an entry from growing is either.
updateAddress(t, a, s, stamp) ==
    LET fresh == [src |-> s, stamp |-> stamp, attempts |-> 0, lastattempt |-> 0,
                  lastsuccess |-> 0, tried |-> FALSE, refs |-> 0]
        bucket == NewBucketOf[a][s]
    IN  IF a \notin DOMAIN t.index
        THEN Placed([t EXCEPT !.index = With(@, a, fresh), !.nNew = @ + 1], a, bucket)
        ELSE LET seen == [t EXCEPT !.index[a].stamp = Max({@, stamp})]
             IN  IF t.index[a].tried \/ t.index[a].refs = NewBucketsPerAddress
                 THEN {seen} ELSE {seen} \cup Placed(seen, a, bucket)

\* Timestamps are what the server lets through: not in the future.
AddAddresses(a, s, stamp) ==
    /\ life = "running" /\ stamp \in 1..time
    /\ \E t \in updateAddress(Now, a, s, stamp) : Becomes(t)
    /\ UNCHANGED <<peersFile, time, life>>

(***************************************************************************)
(* What the server reports about an address.                               *)
(***************************************************************************)
Attempt(a) ==
    /\ life = "running" /\ a \in Known /\ addrIndex[a].attempts < MaxFailures
    /\ addrIndex' = [addrIndex EXCEPT ![a].attempts = @ + 1, ![a].lastattempt = time]
    /\ UNCHANGED <<addrNew, addrTried, nNew, nTried, peersFile, time, life>>

\* Twenty minutes are within one unit of time.
Connected(a) ==
    /\ life = "running" /\ a \in Known /\ addrIndex[a].stamp < time
    /\ addrIndex' = [addrIndex EXCEPT ![a].stamp = time]
    /\ UNCHANGED <<addrNew, addrTried, nNew, nTried, peersFile, time, life>>

\* The first of the oldest.
pickTried(t, bucket) ==
    CHOOSE i \in DOMAIN t.tried[bucket] :
        \A j \in DOMAIN t.tried[bucket] \ {i} :
            IF j < i THEN t.index[t.tried[bucket][j]].stamp > t.index[t.tried[bucket][i]].stamp
                     ELSE t.index[t.tried[bucket][j]].stamp >= t.index[t.tried[bucket][i]].stamp

Evict(t, a, bucket, oldBucket) ==
    LET i == pickTried(t, bucket)
        rm == t.tried[bucket][i]
        first == NewBucketOf[rm][t.index[rm].src]
        to == IF Cardinality(t.new[first]) >= NewBucketSize THEN oldBucket ELSE first
    IN  [t EXCEPT !.tried[bucket][i] = a, !.new[to] = @ \cup {rm}, !.nNew = @ + 1,
                  !.index[a].tried = TRUE, !.index[rm].tried = FALSE, !.index[rm].refs = @ + 1]

MoveToTried(t, a) ==
    LET holds == {b \in NewBuckets : a \in t.new[b]}
        out == [t EXCEPT !.new = [b \in NewBuckets |-> t.new[b] \ {a}],
                         !.index[a].refs = @ - Cardinality(holds), !.nNew = @ - 1]
        bucket == TriedBucketOf[a]
    IN  IF holds = {} THEN out
        ELSE IF Len(out.tried[bucket]) < TriedBucketSize
        THEN [out EXCEPT !.index[a].tried = TRUE, !.tried[bucket] = Append(@, a), !.nTried = @ + 1]
        ELSE Evict(out, a, bucket, Min(holds))

Good(a) ==
    LET worked == [Now EXCEPT !.index[a].lastsuccess = time, !.index[a].lastattempt = time,
                              !.index[a].attempts = 0]
    IN  /\ life = "running" /\ a \in Known
        /\ Becomes(IF addrIndex[a].tried THEN worked ELSE MoveToTried(worked, a))
        /\ UNCHANGED <<peersFile, time, life>>

(***************************************************************************)
(* The file.                                                               *)
(***************************************************************************)
\* What savePeers writes: neither the references nor which table, and loading
\* gives every address the time of loading.
Serialized(t) ==
    [kind |-> "saved",
     addrs |-> [a \in DOMAIN t.index |->
                   [src |-> t.index[a].src, attempts |-> t.index[a].attempts,
                    lastattempt |-> t.index[a].lastattempt, lastsuccess |-> t.index[a].lastsuccess]],
     new |-> t.new, tried |-> t.tried]

savePeers == Serialized(Now)

BucketsOf(f, a) == {b \in NewBuckets : a \in f.new[b]}
TriedIn(f) == UNION {Range(f.tried[b]) : b \in TriedBuckets}
Listed(f) == UNION {f.new[b] : b \in NewBuckets}

NewCount(f) == Cardinality(Listed(f))
TriedCount(f) == MapThenSumSet(LAMBDA b : Len(f.tried[b]), TriedBuckets)

Restored(f) ==
    Tables([a \in DOMAIN f.addrs |->
               [src |-> f.addrs[a].src, stamp |-> time, attempts |-> f.addrs[a].attempts,
                lastattempt |-> f.addrs[a].lastattempt, lastsuccess |-> f.addrs[a].lastsuccess,
                tried |-> a \in TriedIn(f), refs |-> Cardinality(BucketsOf(f, a))]],
           f.new, f.tried, NewCount(f), TriedCount(f))

\* The errors of deserializePeers, in the order in which they are found.
UnlistedNew(f) == ~(Listed(f) \subseteq DOMAIN f.addrs)
UnlistedTried(f) == ~(TriedIn(f) \subseteq DOMAIN f.addrs)
Insane(f) == \E a \in DOMAIN f.addrs : (BucketsOf(f, a) = {}) = (a \notin TriedIn(f))

\* loadPeers: a file that cannot be used is removed and the tables are reset;
\* the counters are as far as the entries were counted when the error showed.
loadPeers ==
    IF peersFile = NoFile THEN Becomes(Now) /\ UNCHANGED peersFile
    ELSE IF peersFile = Torn THEN Becomes(reset(Now)) /\ peersFile' = NoFile
    ELSE IF UnlistedNew(peersFile) THEN
        /\ \E n \in 0..Cardinality(Listed(peersFile) \cap DOMAIN peersFile.addrs) :
              Becomes(reset([Now EXCEPT !.nNew = n]))
        /\ peersFile' = NoFile
    ELSE IF UnlistedTried(peersFile) THEN
        /\ \E n \in 0..Cardinality(TriedIn(peersFile) \cap DOMAIN peersFile.addrs) :
              Becomes(reset([Now EXCEPT !.nNew = NewCount(peersFile), !.nTried = n]))
        /\ peersFile' = NoFile
    ELSE IF Insane(peersFile)
    THEN Becomes(reset(Restored(peersFile))) /\ peersFile' = NoFile
    ELSE Becomes(Restored(peersFile)) /\ peersFile' = InUse

StartAddrs == life = "off" /\ loadPeers /\ life' = "running" /\ UNCHANGED time

\* Stop: addressHandler saves a last time.
StopAddrs ==
    /\ life = "running" /\ peersFile' = savePeers /\ life' = "off"
    /\ Becomes(New) /\ UNCHANGED time

\* The process ends without Stop.  The file is what the ticker of addressHandler
\* saved last, or that save was cut short.  What is read back does not depend
\* on what happened since it was saved, so it is enough to let the last save be
\* of the last state; for the same reason the content of the file is not kept
\* while the process runs.
Crash ==
    /\ life = "running" /\ peersFile' \in {savePeers, Torn} /\ life' = "off"
    /\ Becomes(New) /\ UNCHANGED time

TimePasses ==
    /\ life = "running" /\ time < MaxTime /\ time' = time + 1
    /\ UNCHANGED <<addrIndex, addrNew, addrTried, nNew, nTried, peersFile, life>>

AddrNext ==
    \/ \E a \in Dialed : Attempt(a) \/ Connected(a) \/ Good(a)
    \/ \E a \in Addrs, s \in Sources, stamp \in Stamps : AddAddresses(a, s, stamp)
    \/ StartAddrs \/ StopAddrs \/ Crash \/ TimePasses

(***************************************************************************)
(* Properties.                                                             *)
(***************************************************************************)
\* The tables, the references of the addresses and the counters agree, and the
\* buckets keep their sizes (a new bucket holds one more than newBucketSize,
\* since updateAddress makes room only when there are more).
TablesAgree ==
    /\ \A a \in Known :
         LET holds == {b \in NewBuckets : a \in addrNew[b]}
         IN  /\ addrIndex[a].refs = Cardinality(holds)
             /\ addrIndex[a].tried = (holds = {})
             /\ addrIndex[a].tried <=> \E b \in TriedBuckets : a \in Range(addrTried[b])
    /\ \A b \in NewBuckets : addrNew[b] \subseteq Known /\ Cardinality(addrNew[b]) <= NewBucketSize + 1
    /\ \A b \in TriedBuckets : /\ Range(addrTried[b]) \subseteq Known
                               /\ IsInjective(addrTried[b]) /\ Len(addrTried[b]) <= TriedBucketSize
    /\ nTried = Cardinality({a \in Known : addrIndex[a].tried})
    /\ nNew = Cardinality({a \in Known : ~addrIndex[a].tried})

\* GetAddress draws buckets until it meets one that is not empty, holding the
\* mutex: whenever it starts to draw from a table there is something to find.
GetAddressEnds ==
    /\ nTried > 0 => \E b \in TriedBuckets : addrTried[b] # <<>>
    /\ nNew > 0 => \E b \in NewBuckets : addrNew[b] # {}

\* What is saved and loaded again is what there was, but for the timestamps.
SavedIsLoaded ==
    LET f == Serialized(Now)
        stamped == [Now EXCEPT !.index = [a \in Known |-> [addrIndex[a] EXCEPT !.stamp = time]]]
    IN  ~UnlistedNew(f) /\ ~UnlistedTried(f) /\ ~Insane(f) /\ Restored(f) = stamped

KeepsTried ==
    life = "running" /\ life' = "running" =>
        \A a \in Known : addrIndex[a].tried => a \in DOMAIN addrIndex'

\* No operation of a running manager forgets an address that worked: Good may
\* move it back to the new buckets, but only updateAddress can expire it there.
TriedNotForgotten == [][KeepsTried]_addrVars

\* What the comment on loadPeers says: after a malformed file the manager
\* starts fresh, with no addresses counted.
MalformedStartsFresh == life = "running" /\ peersFile = NoFile /\ Known = {} => nNew + nTried = 0

-----------------------------------------------------------------------------
(***************************************************************************)
(* addrmgr/network.go and the local addresses of the address manager:      *)
(* which addresses are routable, the group of an address, and the local    *)
(* address that is told to a remote one.  An IPv4 address (also mapped     *)
(* into IPv6) is four bytes, another IPv6 address sixteen, as net.IP       *)
(* compares them; a version 3 onion address is one byte, its key.          *)
(***************************************************************************)

CONSTANTS
    LocalCandidates,    \* addresses the node may find to be its own
    Remotes,            \* addresses of peers
    EmbeddedV4,         \* IPv4 addresses looked at inside IPv6 ones
    Priorities,         \* InterfacePrio = 0 .. ManualPrio = 4
    MaxLocal            \* bound on the local addresses

VARIABLE localAddresses     \* [address -> score]

IsTorV3(na) == Len(na) = 1
IsIPv4(na) == Len(na) = 4

V6(front, back) == front \o [i \in 1..(16 - Len(front) - Len(back)) |-> 0] \o back
ipNet(ip, ones) == [ip |-> ip, ones |-> ones]

\* What is left of a byte at position i under a mask of n one bits.
MaskByte(b, i, n) ==
    IF 8 * i <= n THEN b
    ELSE IF 8 * (i - 1) >= n THEN 0
    ELSE (b \div 2^(8 * i - n)) * 2^(8 * i - n)
Mask(ip, n) == [i \in 1..Len(ip) |-> MaskByte(ip[i], i, n)]
In(na, net) == Len(na) = Len(net.ip) /\ Mask(na, net.ones) = Mask(net.ip, net.ones)

rfc1918Nets == {ipNet(<<10, 0, 0, 0>>, 8), ipNet(<<172, 16, 0, 0>>, 12), ipNet(<<192, 168, 0, 0>>, 16)}
rfc5737Net == {ipNet(<<192, 0, 2, 0>>, 24), ipNet(<<198, 51, 100, 0>>, 24), ipNet(<<203, 0, 113, 0>>, 24)}
rfc2544Net == ipNet(<<198, 18, 0, 0>>, 15)
rfc3927Net == ipNet(<<169, 254, 0, 0>>, 16)
rfc6598Net == ipNet(<<100, 64, 0, 0>>, 10)
zero4Net == ipNet(<<0, 0, 0, 0>>, 8)
rfc3849Net == ipNet(V6(<<32, 1, 13, 184>>, <<>>), 32)
rfc3964Net == ipNet(V6(<<32, 2>>, <<>>), 16)
rfc4193Net == ipNet(V6(<<252>>, <<>>), 7)
rfc4380Net == ipNet(V6(<<32, 1>>, <<>>), 32)
rfc4843Net == ipNet(V6(<<32, 1, 0, 16>>, <<>>), 28)
rfc4862Net == ipNet(V6(<<254, 128>>, <<>>), 64)
rfc6052Net == ipNet(V6(<<0, 100, 255, 155>>, <<>>), 96)
rfc6145Net == ipNet(V6(<<>>, <<255, 255, 0, 0, 0, 0, 0, 0>>), 96)
onionCatNet == ipNet(V6(<<253, 135, 216, 126, 235, 67>>, <<>>), 48)
heNet == ipNet(V6(<<32, 1, 4, 112>>, <<>>), 32)

IsLocal(na) == \/ IsIPv4(na) /\ na[1] = 127
               \/ na = V6(<<>>, <<1>>)
               \/ In(na, zero4Net)
IsOnionCatTor(na) == In(na, onionCatNet)
Reserved == rfc1918Nets \cup rfc5737Net \cup {rfc2544Net, rfc3927Net, rfc4862Net, rfc3849Net,
                                             rfc4843Net, rfc6598Net}
IsValid(na) == na \notin {<<0, 0, 0, 0>>, V6(<<>>, <<>>), <<255, 255, 255, 255>>}

IsRoutable(na) ==
    IsTorV3(na) \/ /\ IsValid(na) /\ ~IsLocal(na)
                   /\ \A net \in Reserved : ~In(na, net)
                   /\ In(na, rfc4193Net) => IsOnionCatTor(na)

Slice(na, from) == Mask(SubSeq(na, from, from + 3), 16)

\* The client's IPv4 address is stored inverted.
Teredo(na) == Mask([i \in 1..4 |-> 255 - na[12 + i]], 16)

GroupKey(na) ==
    CASE IsTorV3(na) -> <<"tor", na[1] % 16>>
      [] ~IsTorV3(na) /\ IsLocal(na) -> <<"local">>
      [] ~IsTorV3(na) /\ ~IsLocal(na) /\ ~IsRoutable(na) -> <<"unroutable">>
      [] OTHER ->
           IF IsIPv4(na) THEN <<"net", Mask(na, 16)>>
           ELSE IF In(na, rfc6145Net) \/ In(na, rfc6052Net) THEN <<"net", Slice(na, 13)>>
           ELSE IF In(na, rfc3964Net) THEN <<"net", Slice(na, 3)>>
           ELSE IF In(na, rfc4380Net) THEN <<"net", Teredo(na)>>
           ELSE IF IsOnionCatTor(na) THEN <<"tor", na[7] % 16>>
           ELSE <<"net", Mask(na, IF In(na, heNet) THEN 36 ELSE 32)>>

(***************************************************************************)
(* Local addresses.                                                        *)
(***************************************************************************)
Unreachable == 0
Default == 1
TeredoReach == 2
Ipv6Weak == 3
Ipv4 == 4
Ipv6Strong == 5
Private == 6

RoutableV4(na) == IsRoutable(na) /\ IsIPv4(na)

FromTorV3(local) ==
    IF IsTorV3(local) THEN Private
    ELSE IF IsOnionCatTor(local) THEN Unreachable
    ELSE IF RoutableV4(local) THEN Ipv4 ELSE Default

FromTeredo(local) ==
    IF ~IsRoutable(local) THEN Default
    ELSE IF In(local, rfc4380Net) THEN TeredoReach
    ELSE IF IsIPv4(local) THEN Ipv4 ELSE Ipv6Weak

FromIPv6(local) ==
    IF ~IsRoutable(local) THEN Default
    ELSE IF In(local, rfc4380Net) THEN TeredoReach
    ELSE IF IsIPv4(local) THEN Ipv4
    ELSE IF \E net \in {rfc3964Net, rfc6052Net, rfc6145Net} : In(local, net) THEN Ipv6Weak
    ELSE Ipv6Strong

getReachabilityFrom(local, remote) ==
    IF ~IsRoutable(remote) THEN Unreachable
    ELSE IF IsTorV3(remote) THEN FromTorV3(local)
    ELSE IF IsTorV3(local) THEN Default
    ELSE IF IsOnionCatTor(remote)
         THEN IF IsOnionCatTor(local) THEN Private ELSE IF RoutableV4(local) THEN Ipv4 ELSE Default
    ELSE IF In(remote, rfc4380Net) THEN FromTeredo(local)
    ELSE IF IsIPv4(remote) THEN IF RoutableV4(local) THEN Ipv4 ELSE Unreachable
    ELSE FromIPv6(local)

AddLocalAddress(na, priority) ==
    /\ IsRoutable(na) /\ Cardinality(DOMAIN localAddresses \cup {na}) <= MaxLocal
    /\ na \in DOMAIN localAddresses => localAddresses[na] < priority
    /\ localAddresses' = [a \in DOMAIN localAddresses \cup {na} |->
           IF a # na THEN localAddresses[a]
           ELSE IF na \in DOMAIN localAddresses THEN priority + 1 ELSE priority]

None == <<>>
NoBest == [reach |-> 0, score |-> 0, na |-> None]

Better(reach, score, best) ==
    reach > best.reach \/ (reach = best.reach /\ score > best.score)

\* GetBestLocalAddress, when the map is walked in the given order.
GetBestLocalAddress(order, remote) ==
    FoldLeft(LAMBDA best, na :
                 LET reach == getReachabilityFrom(na, remote)
                 IN  IF Better(reach, localAddresses[na], best)
                     THEN [reach |-> reach, score |-> localAddresses[na], na |-> na] ELSE best,
             NoBest, order)

LocalInit == localAddresses = <<>>
LocalNext == \E na \in LocalCandidates, priority \in Priorities : AddLocalAddress(na, priority)

(***************************************************************************)
(* Properties.                                                             *)
(***************************************************************************)
\* The ways to write an IPv4 address as an IPv6 one.
Embeddings(v4) ==
    {V6(<<0, 100, 255, 155>>, v4), V6(<<>>, <<255, 255, 0, 0>> \o v4), V6(<<32, 2>> \o v4, <<7>>),
     V6(<<32, 1>>, [i \in 1..4 |-> 255 - v4[i]])}

\* An address that is tunnelled over IPv6 is in the group of the IPv4 address
\* behind it: a host cannot reach more groups by tunnelling.
TunnelsShareGroup ==
    \A v4 \in EmbeddedV4 \cup {na \in DOMAIN localAddresses : IsIPv4(na)} : IsRoutable(v4) =>
        \A na \in Embeddings(v4) : GroupKey(na) = GroupKey(v4)

\* In whatever order the map is walked, the address suggested is one that is
\* best for the peer to reach and, among those, has the highest score.
BestLocalIsBest ==
    \A remote \in Remotes : \A order \in SetToSeqs(DOMAIN localAddresses) :
        LET best == GetBestLocalAddress(order, remote)
        IN  \A na \in DOMAIN localAddresses :
               LET reach == getReachabilityFrom(na, remote)
               IN  reach < best.reach \/ (reach = best.reach /\ localAddresses[na] <= best.score)

\* What the comment in GetBestLocalAddress says: without a suitable address an
\* unroutable one is sent, so an address that is suggested can be reached.
SuggestedIsReachable ==
    \A remote \in Remotes : \A order \in SetToSeqs(DOMAIN localAddresses) :
        LET best == GetBestLocalAddress(order, remote)
        IN  best.na # None => best.reach > Unreachable
=============================================================================
