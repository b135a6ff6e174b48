---------------------------- MODULE StorageProofs ----------------------------
(***************************************************************************)
(* Proofs about PersistentStorage, for every set of events, capacity, WAL  *)
(* length and number of crashes and faults: the indexes are sound and      *)
(* complete, so that queries return what a scan would; deletions hide      *)
(* exactly what their author may hide and outlive crashes; ephemeral       *)
(* events are forgotten and the caches an older parser poisoned are never  *)
(* served.                                                                 *)
(***************************************************************************)
EXTENDS PersistentStorage, TLAPS

-----------------------------------------------------------------------------
(* The rings and the records, as predicates of the values they concern.    *)
RingsOK(R) ==
    /\ DOMAIN R = Shards
    /\ \A s \in Shards : /\ R[s] = [head |-> R[s].head, buf |-> R[s].buf]
                         /\ R[s].head \in Nat
                         /\ R[s].buf \in RecordsOf(s)

\* An offset is in its ring or before it, and if in it, at the event x.
PointsTo(R, off, x) ==
    /\ off \in Shards \X Nat
    /\ off[2] < R[off[1]].head + Len(R[off[1]].buf)
    /\ off[2] >= R[off[1]].head => R[off[1]].buf[off[2] - R[off[1]].head + 1] = x

RecordsOK(ids, n, R) ==
    /\ DOMAIN ids \subseteq Event /\ n \in Nat
    /\ \A x \in DOMAIN ids :
         /\ ids[x].key \in Nat /\ ids[x].key < n
         /\ ids[x].created = Created(x)
         /\ PointsTo(R, ids[x].off, x)
    /\ \A x, y \in DOMAIN ids : ids[x].key = ids[y].key => x = y

\* Every kind has a shard.
LEMMA ShardType == \A k \in Nat : Shard(k) \in Shards
<1> SUFFICES ASSUME NEW k \in Nat PROVE Shard(k) \in Shards
  BY Zenon
<1>1. PICK v : v = Shard(k)
  BY Zenon
<1>2. v \in Shards
  BY <1>1, SMT DEF Shard, Shards
<1> QED BY Zenon, <1>1, <1>2

\* What appending a record, after the eviction of k, does to a ring.
LEMMA AppendedRing ==
    ASSUME NEW s \in Shards, NEW r, r = [head |-> r.head, buf |-> r.buf],
           r.head \in Nat, r.buf \in RecordsOf(s),
           NEW e \in Event, Shard(Kind(e)) = s, NEW k \in 0..Len(r.buf)
    PROVE  LET q == Appended(r, e, k)
           IN  /\ q = [head |-> q.head, buf |-> q.buf]
               /\ q.head \in Nat /\ q.buf \in RecordsOf(s)
               /\ q.head + Len(q.buf) - 1 = r.head + Len(r.buf)
               /\ q.head >= r.head
               /\ q.buf[Len(q.buf)] = e
               /\ \A o \in Nat : q.head <= o /\ o < r.head + Len(r.buf)
                                   => q.buf[o - q.head + 1] = r.buf[o - r.head + 1]
<1> DEFINE q == Appended(r, e, k)
           R == {x \in Event : Shard(Kind(x)) = s}
           t == SubSeq(r.buf, k + 1, Len(r.buf))
<1>1. r.buf \in Seq(R) /\ e \in R /\ Len(r.buf) \in Nat
  BY DEF RecordsOf
<1>2. \A i \in (k + 1)..Len(r.buf) : r.buf[i] \in R
  BY <1>1
<1>3. /\ t \in Seq(R)
      /\ Len(t) = Len(r.buf) - k
      /\ \A i \in 1..(Len(r.buf) - k) : t[i] = r.buf[k + i]
  <2>1. /\ t \in Seq(R)
        /\ Len(t) = IF k + 1 <= Len(r.buf) THEN Len(r.buf) - (k + 1) + 1 ELSE 0
        /\ \A i \in 1..(Len(r.buf) - (k + 1) + 1) : t[i] = r.buf[(k + 1) + i - 1]
    <3> k + 1 \in Int /\ Len(r.buf) \in Int
      BY <1>1
    <3> QED BY <1>2
  <2> HIDE DEF t
  <2> QED BY <2>1, <1>1
<1> HIDE DEF R, t
<1>4. /\ Append(t, e) \in Seq(R)
      /\ Len(Append(t, e)) = Len(t) + 1
      /\ \A i \in 1..Len(t) : Append(t, e)[i] = t[i]
      /\ Append(t, e)[Len(t) + 1] = e
  BY <1>1, <1>3
<1>5. q = [head |-> r.head + k, buf |-> Append(t, e)]
  BY Zenon DEF Appended, t
<1>6. q.head = r.head + k /\ q.buf = Append(t, e) /\ k \in Nat
  BY <1>5, <1>1
<1>7. ASSUME NEW o \in Nat, q.head <= o, o < r.head + Len(r.buf)
      PROVE  q.buf[o - q.head + 1] = r.buf[o - r.head + 1]
  <2>1. o - q.head + 1 \in 1..(Len(r.buf) - k)
    BY <1>1, <1>6, <1>7
  <2>2. q.buf[o - q.head + 1] = t[o - q.head + 1]
    BY Zenon, <2>1, <1>3, <1>4, <1>6
  <2>3. t[o - q.head + 1] = r.buf[k + (o - q.head + 1)]
    BY Zenon, <2>1, <1>3
  <2>4. k + (o - q.head + 1) = o - r.head + 1
    BY <1>1, <1>6, <1>7
  <2> QED BY Zenon, <2>2, <2>3, <2>4
<1>8. q.buf \in RecordsOf(s)
  BY Zenon, <1>4, <1>6 DEF RecordsOf, R
<1>9. q.head + Len(q.buf) - 1 = r.head + Len(r.buf) /\ q.buf[Len(q.buf)] = e /\ q.head \in Nat /\ q.head >= r.head
  BY <1>1, <1>3, <1>4, <1>6
<1> QED BY <1>5, <1>6, <1>7, <1>8, <1>9, Zenon DEF q

\* The other records still point to their events after the append.
LEMMA AppendKeepsRecords ==
    ASSUME NEW R, RingsOK(R), NEW e \in Event, NEW k \in 0..Len(R[Shard(Kind(e))].buf),
           NEW ids, NEW n, RecordsOK(ids, n, R)
    PROVE  LET s == Shard(Kind(e))
               Q == [R EXCEPT ![s] = Appended(R[s], e, k)]
           IN  /\ RingsOK(Q)
               /\ RecordsOK(ids, n, Q)
               /\ PointsTo(Q, <<s, Q[s].head + Len(Q[s].buf) - 1>>, e)
<1> DEFINE s == Shard(Kind(e))
           q == Appended(R[s], e, k)
           Q == [R EXCEPT ![s] = q]
<1>1. s \in Shards
  BY Zenon, ShardType, EventAssumption
<1>2. R[s] = [head |-> R[s].head, buf |-> R[s].buf] /\ R[s].head \in Nat /\ R[s].buf \in RecordsOf(s)
  BY Zenon, <1>1 DEF RingsOK
<1>3. /\ q = [head |-> q.head, buf |-> q.buf]
      /\ q.head \in Nat /\ q.buf \in RecordsOf(s)
      /\ q.head + Len(q.buf) - 1 = R[s].head + Len(R[s].buf)
      /\ q.head >= R[s].head
      /\ q.buf[Len(q.buf)] = e
      /\ \A o \in Nat : q.head <= o /\ o < R[s].head + Len(R[s].buf)
                          => q.buf[o - q.head + 1] = R[s].buf[o - R[s].head + 1]
  BY <1>1, <1>2, AppendedRing, SMTT(30)
<1>4. Len(q.buf) \in Nat /\ Len(R[s].buf) \in Nat
  BY <1>2, <1>3 DEF RecordsOf
<1> HIDE DEF q, s
<1>5. /\ DOMAIN Q = Shards /\ Q[s] = q
      /\ \A x \in Shards \ {s} : Q[x] = R[x]
  BY Zenon, <1>1 DEF RingsOK
<1> HIDE DEF Q
<1>6. RingsOK(Q)
  BY Zenon, <1>1, <1>3, <1>5 DEF RingsOK
<1>7. ASSUME NEW x \in DOMAIN ids PROVE PointsTo(Q, ids[x].off, x)
  <2> DEFINE o == ids[x].off
  <2>1. PointsTo(R, o, x)
    BY Zenon DEF RecordsOK
  <2> HIDE DEF o
  <2>2. ASSUME o[1] # s PROVE PointsTo(Q, o, x)
    <3>1. o[1] \in Shards
      BY Zenon, <2>1 DEF PointsTo
    <3>2. Q[o[1]] = R[o[1]]
      BY Zenon, <3>1, <2>2, <1>5
    <3> QED BY Zenon, <2>1, <3>2 DEF PointsTo
  <2>3. ASSUME o[1] = s PROVE PointsTo(Q, o, x)
    <3>1. o \in Shards \X Nat /\ o[2] \in Nat /\ o[2] < R[s].head + Len(R[s].buf)
      BY Zenon, <2>1, <2>3 DEF PointsTo
    <3>2. o[2] < q.head + Len(q.buf)
      BY <3>1, <1>2, <1>3, <1>4
    <3>3. ASSUME o[2] >= q.head PROVE q.buf[o[2] - q.head + 1] = x
      <4>1. o[2] >= R[s].head /\ q.head <= o[2]
        BY <3>1, <3>3, <1>2, <1>3
      <4>2. R[s].buf[o[2] - R[s].head + 1] = x
        BY Zenon, <4>1, <2>1, <2>3 DEF PointsTo
      <4> DEFINE p == o[2]
      <4>3. p \in Nat /\ q.head <= p /\ p < R[s].head + Len(R[s].buf)
        BY Zenon, <4>1, <3>1
      <4> HIDE DEF p
      <4>4. q.buf[p - q.head + 1] = R[s].buf[p - R[s].head + 1]
        BY Zenon, <4>3, <1>3
      <4> QED BY Zenon, <4>2, <4>4 DEF p
    <3> QED BY Zenon, <2>3, <3>1, <3>2, <3>3, <1>5 DEF PointsTo
  <2> QED BY Zenon, <2>2, <2>3 DEF o
<1>8. RecordsOK(ids, n, Q)
  BY Zenon, <1>7 DEF RecordsOK
<1>9. PointsTo(Q, <<s, Q[s].head + Len(Q[s].buf) - 1>>, e)
  <2> DEFINE o == q.head + Len(q.buf) - 1
  <2>1. o \in Nat /\ o < q.head + Len(q.buf) /\ o - q.head + 1 = Len(q.buf)
    BY <1>2, <1>3, <1>4
  <2> HIDE DEF o
  <2>2. PointsTo(Q, <<s, o>>, e)
    BY Zenon, <2>1, <1>1, <1>3, <1>5 DEF PointsTo
  <2> QED BY Zenon, <2>2, <1>5 DEF o
<1> QED BY Zenon, <1>6, <1>8, <1>9 DEF Q, q, s

\* The records and the next key after e has been indexed at off.
IdsAfter(ids, n, e, off) ==
    LET k == IF e \in DOMAIN ids THEN ids[e].key ELSE n
    IN  [x \in DOMAIN ids \union {e} |->
           IF x = e THEN [key |-> k, off |-> off, created |-> Created(e)] ELSE ids[x]]
KeyAfter(ids, n, e) == IF e \in DOMAIN ids THEN n ELSE n + 1

\* Indexing keeps the records sound.
LEMMA IndexKeepsRecords ==
    ASSUME NEW R, NEW ids, NEW n, RecordsOK(ids, n, R),
           NEW e \in Event, NEW off, PointsTo(R, off, e)
    PROVE  RecordsOK(IdsAfter(ids, n, e, off), KeyAfter(ids, n, e), R)
<1> DEFINE new == IdsAfter(ids, n, e, off)
           m == KeyAfter(ids, n, e)
           k == IF e \in DOMAIN ids THEN ids[e].key ELSE n
<1>1. /\ DOMAIN new = DOMAIN ids \union {e}
      /\ new[e] = [key |-> k, off |-> off, created |-> Created(e)]
      /\ \A x \in DOMAIN ids \ {e} : new[x] = ids[x]
  BY Zenon DEF IdsAfter
<1>2. n \in Nat /\ m \in Nat /\ n <= m /\ k \in Nat /\ k < m
  BY DEF RecordsOK, KeyAfter
<1>3. \A x \in DOMAIN ids \ {e} : ids[x].key # k /\ ids[x].key \in Nat /\ ids[x].key < m
  BY <1>2 DEF RecordsOK
<1> HIDE DEF new, m, k
<1>4. DOMAIN new \subseteq Event
  BY Zenon, <1>1 DEF RecordsOK
<1>5. \A x \in DOMAIN new :
         /\ new[x].key \in Nat /\ new[x].key < m
         /\ new[x].created = Created(x)
         /\ PointsTo(R, new[x].off, x)
  BY <1>1, <1>2, <1>3 DEF RecordsOK
<1>6. \A x, y \in DOMAIN new : new[x].key = new[y].key => x = y
  BY <1>1, <1>3 DEF RecordsOK
<1>7. RecordsOK(new, m, R)
  BY Zenon, <1>2, <1>4, <1>5, <1>6 DEF RecordsOK
<1> QED BY Zenon, <1>7 DEF new, m

-----------------------------------------------------------------------------
(* The indexes and the tombstones.  A posting under the key of a record is *)
(* a fact about its event, and every such fact is posted.                  *)
PostOK(post, ids, n) ==
    /\ \A p \in post : p = <<p[1], p[2], p[3]>> /\ p[3] \in Nat /\ p[3] < n
    /\ \A x \in DOMAIN ids : \A p \in post : p[3] = ids[x].key => p \in PostingsOf(x, ids[x].key)
    /\ \A x \in DOMAIN ids : PostingsOf(x, ids[x].key) \subseteq post

Deletion == {d \in Event : Kind(d) = EVENT_DELETION}
DisputedIn(x, A) == \E d \in A : x \in Tag(d, "e") /\ Author(d) # Author(x)

\* A hidden key is that of an event a deletion covers; what a deletion of A names
\* is indexed or waits in the pending slots; and what A covers is hidden.
TombOK(t, ids, n, A) ==
    /\ A \subseteq Deletion
    /\ t = [keys |-> t.keys, pending |-> t.pending, addresses |-> t.addresses]
    /\ \A k \in t.keys : k \in Nat /\ k < n
    /\ \A x \in DOMAIN ids : ids[x].key \in t.keys =>
         \E d \in A : CoversById(d, x) \/ CoversByAddress(d, x)
    /\ DOMAIN t.pending \subseteq Event
    /\ \A x \in DOMAIN t.pending : \E d \in A : x \in Tag(d, "e") /\ t.pending[x].author = Author(d)
    /\ \A a \in DOMAIN t.addresses :
         \E d \in A : a \in Tag(d, "a") /\ a[2] = Author(d) /\ t.addresses[a] = Created(d)
    /\ \A d \in A : Tag(d, "e") \subseteq DOMAIN ids \union DOMAIN t.pending
    /\ \A d \in A : \A a \in Tag(d, "a") :
         a[2] = Author(d) => a \in DOMAIN t.addresses /\ Created(d) <= t.addresses[a]
    /\ \A d \in A : \A x \in DOMAIN ids :
         (CoversById(d, x) /\ ~DisputedIn(x, A)) \/ (CoversByAddress(d, x) /\ Addressable(x))
           => ids[x].key \in t.keys

\* A posting names its event's kind, its author or one of its tags.
LEMMA PostingMeans ==
    ASSUME NEW x \in Event, NEW k
    PROVE  /\ \A v : <<"author", v, k>> \in PostingsOf(x, k) <=> v = Author(x)
           /\ \A v : <<"kind", v, k>> \in PostingsOf(x, k) <=> v = Kind(x)
           /\ \A v : <<"d", v, k>> \in PostingsOf(x, k) => v \in Tag(x, "d")
           /\ \A v \in Tag(x, "d") : <<"d", v, k>> \in PostingsOf(x, k)
<1>1. \A t \in EventInfo[x].tags : t[1] # "author" /\ t[1] # "kind"
  BY Zenon, EventAssumption DEF TagNames
<1>2. \A v : <<"author", v, k>> \in PostingsOf(x, k) <=> v = Author(x)
  BY Zenon, <1>1 DEF PostingsOf
<1>3. \A v : <<"kind", v, k>> \in PostingsOf(x, k) <=> v = Kind(x)
  BY Zenon, <1>1 DEF PostingsOf
<1>4. \A v : <<"d", v, k>> \in PostingsOf(x, k) => v \in Tag(x, "d")
  BY Zenon DEF PostingsOf, Tag
<1>5. \A v \in Tag(x, "d") : <<"d", v, k>> \in PostingsOf(x, k)
  BY Zenon DEF PostingsOf, Tag
<1> QED BY Zenon, <1>2, <1>3, <1>4, <1>5

\* Indexing keeps the postings exact.
LEMMA IndexKeepsPostings ==
    ASSUME NEW R, NEW ids, NEW n, RecordsOK(ids, n, R), NEW post, PostOK(post, ids, n),
           NEW e \in Event, NEW off
    PROVE  PostOK(post \union PostingsOf(e, IF e \in DOMAIN ids THEN ids[e].key ELSE n),
                  IdsAfter(ids, n, e, off), KeyAfter(ids, n, e))
<1> DEFINE new == IdsAfter(ids, n, e, off)
           m == KeyAfter(ids, n, e)
           k == IF e \in DOMAIN ids THEN ids[e].key ELSE n
           mine == PostingsOf(e, k)
<1>1. /\ DOMAIN new = DOMAIN ids \union {e}
      /\ new[e].key = k
      /\ \A x \in DOMAIN ids \ {e} : new[x] = ids[x]
  BY Zenon DEF IdsAfter
<1>2. n \in Nat /\ m \in Nat /\ n <= m /\ k \in Nat /\ k < m
  BY DEF RecordsOK, KeyAfter
<1>3. \A x \in DOMAIN ids \ {e} : ids[x].key # k
  BY DEF RecordsOK
<1>4. \A p \in mine : p = <<p[1], p[2], p[3]>> /\ p[3] = k
  BY DEF PostingsOf
<1>5. \A p \in post : p[3] = k => p \in mine
  BY DEF PostOK, RecordsOK
<1>6. \A x \in DOMAIN ids \ {e} : \A p \in mine : p[3] # ids[x].key
  BY Zenon, <1>3, <1>4
<1> HIDE DEF new, m, k, mine
<1>7. \A p \in post \union mine : p = <<p[1], p[2], p[3]>> /\ p[3] \in Nat /\ p[3] < m
  BY <1>2, <1>4 DEF PostOK
<1>8. ASSUME NEW x \in DOMAIN new, NEW p \in post \union mine, p[3] = new[x].key
      PROVE  p \in PostingsOf(x, new[x].key)
  <2>1. CASE x = e
    BY Zenon, <2>1, <1>8, <1>1, <1>5 DEF mine
  <2>2. CASE x # e
    BY <2>2, <1>8, <1>1, <1>6 DEF PostOK
  <2> QED BY Zenon, <2>1, <2>2
<1>9. ASSUME NEW x \in DOMAIN new PROVE PostingsOf(x, new[x].key) \subseteq post \union mine
  <2>1. CASE x = e
    BY Zenon, <2>1, <1>1 DEF mine
  <2>2. CASE x # e
    BY Zenon, <2>2, <1>1 DEF PostOK
  <2> QED BY Zenon, <2>1, <2>2
<1>10. PostOK(post \union mine, new, m)
  BY Zenon, <1>7, <1>8, <1>9 DEF PostOK
<1> QED BY Zenon, <1>10 DEF new, m, mine, k

\* An event that arrives after the deletions that cover it is hidden at once.
LEMMA ApplyKeepsTombstones ==
    ASSUME NEW R, NEW ids, NEW n, RecordsOK(ids, n, R), NEW t, NEW A, TombOK(t, ids, n, A),
           NEW e \in Event, NEW off
    PROVE  TombOK(ApplyTombstones(t, e, IF e \in DOMAIN ids THEN ids[e].key ELSE n),
                  IdsAfter(ids, n, e, off), KeyAfter(ids, n, e), A)
<1> DEFINE new == IdsAfter(ids, n, e, off)
           m == KeyAfter(ids, n, e)
           k == IF e \in DOMAIN ids THEN ids[e].key ELSE n
           u == ApplyTombstones(t, e, k)
           byIdTag == e \in DOMAIN t.pending /\ t.pending[e].author = Author(e)
           byAddress == /\ Addressable(e)
                        /\ \E d \in Tag(e, "d") :
                             LET a == <<Kind(e), Author(e), d>>
                             IN  a \in DOMAIN t.addresses /\ Created(e) <= t.addresses[a]
<1>1. /\ DOMAIN new = DOMAIN ids \union {e}
      /\ new[e].key = k
      /\ \A x \in DOMAIN ids \ {e} : new[x] = ids[x]
  BY Zenon DEF IdsAfter
<1>2. n \in Nat /\ m \in Nat /\ n <= m /\ k \in Nat /\ k < m
  BY DEF RecordsOK, KeyAfter
<1>3. \A x \in DOMAIN ids \ {e} : ids[x].key # k
  BY DEF RecordsOK
<1>4. e \notin DOMAIN ids => k \notin t.keys
  BY <1>2 DEF TombOK
<1>5. /\ u = [keys |-> u.keys, pending |-> t.pending, addresses |-> t.addresses]
      /\ u.keys = IF byIdTag \/ byAddress THEN t.keys \union {k} ELSE t.keys
      /\ u.pending = t.pending /\ u.addresses = t.addresses
  <2>1. u = IF byIdTag \/ byAddress THEN [t EXCEPT !.keys = @ \union {k}] ELSE t
    BY Zenon DEF ApplyTombstones
  <2>2. t = [keys |-> t.keys, pending |-> t.pending, addresses |-> t.addresses]
    BY Zenon DEF TombOK
  <2> HIDE DEF u, k, byIdTag, byAddress
  <2>3. CASE byIdTag \/ byAddress
    <3>1. u = [t EXCEPT !.keys = t.keys \union {k}]
      BY Zenon, <2>1, <2>3
    <3>2. u = [keys |-> t.keys \union {k}, pending |-> t.pending, addresses |-> t.addresses]
      BY Zenon, <2>2, <3>1
    <3> QED BY Zenon, <2>3, <3>2
  <2>4. CASE ~(byIdTag \/ byAddress)
    BY Zenon, <2>1, <2>2, <2>4
  <2> QED BY Zenon, <2>3, <2>4
<1>6. byIdTag => \E d \in A : CoversById(d, e)
  BY Zenon DEF TombOK, CoversById
<1>7. byAddress => \E d \in A : CoversByAddress(d, e)
  <2> SUFFICES ASSUME byAddress PROVE \E d \in A : CoversByAddress(d, e)
    BY Zenon
  <2>1. PICK v \in Tag(e, "d") : /\ <<Kind(e), Author(e), v>> \in DOMAIN t.addresses
                                 /\ Created(e) <= t.addresses[<<Kind(e), Author(e), v>>]
    BY Zenon
  <2> DEFINE a == <<Kind(e), Author(e), v>>
  <2>2. PICK d \in A : a \in Tag(d, "a") /\ a[2] = Author(d) /\ t.addresses[a] = Created(d)
    BY Zenon, <2>1 DEF TombOK
  <2>3. CoversByAddress(d, e)
    BY Zenon, <2>1, <2>2 DEF CoversByAddress
  <2> QED BY Zenon, <2>3
<1>8. ASSUME NEW d \in A, CoversById(d, e), ~DisputedIn(e, A), e \notin DOMAIN ids PROVE byIdTag
  <2>1. e \in DOMAIN t.pending
    BY Zenon, <1>8 DEF TombOK, CoversById
  <2>2. PICK b \in A : e \in Tag(b, "e") /\ t.pending[e].author = Author(b)
    BY Zenon, <2>1 DEF TombOK
  <2> QED BY Zenon, <2>1, <2>2, <1>8 DEF DisputedIn
<1>9. ASSUME NEW d \in A, CoversByAddress(d, e), Addressable(e) PROVE byAddress
  <2>1. PICK a \in Tag(d, "a") : a[2] = Author(d) /\ \E v \in Tag(e, "d") : a = <<Kind(e), Author(e), v>>
    BY Zenon, <1>9 DEF CoversByAddress
  <2>2. PICK v \in Tag(e, "d") : a = <<Kind(e), Author(e), v>>
    BY Zenon, <2>1
  <2>3. a \in DOMAIN t.addresses /\ Created(d) <= t.addresses[a] /\ Created(e) <= Created(d)
    BY Zenon, <2>1, <1>9 DEF TombOK, CoversByAddress
  <2>4. PICK b \in A : t.addresses[a] = Created(b)
    BY Zenon, <2>3 DEF TombOK
  <2>5. Created(e) \in Nat /\ Created(d) \in Nat /\ Created(b) \in Nat
    BY Zenon, EventAssumption DEF TombOK, Deletion
  <2>6. Created(e) <= t.addresses[a]
    BY <2>3, <2>4, <2>5
  <2> QED BY Zenon, <2>2, <2>3, <2>6, <1>9
<1> HIDE DEF new, m, k, u, byIdTag, byAddress
<1>10. t.keys \subseteq u.keys /\ u.keys \subseteq t.keys \union {k}
  BY Zenon, <1>5
<1>11. \A j \in u.keys : j \in Nat /\ j < m
  BY <1>2, <1>10 DEF TombOK
<1>12. ASSUME NEW x \in DOMAIN new, new[x].key \in u.keys
       PROVE  \E d \in A : CoversById(d, x) \/ CoversByAddress(d, x)
  <2>1. CASE x # e
    BY <2>1, <1>12, <1>1, <1>3, <1>10 DEF TombOK
  <2>2. CASE x = e /\ e \in DOMAIN ids /\ k \in t.keys
    BY Zenon, <2>2 DEF TombOK, k
  <2>3. CASE x = e /\ (e \notin DOMAIN ids \/ k \notin t.keys)
    <3>1. byIdTag \/ byAddress
      BY Zenon, <2>3, <1>12, <1>1, <1>4, <1>5
    <3> QED BY Zenon, <2>3, <3>1, <1>6, <1>7
  <2> QED BY Zenon, <2>1, <2>2, <2>3
<1>13. ASSUME NEW d \in A, NEW x \in DOMAIN new,
              \/ CoversById(d, x) /\ ~DisputedIn(x, A)
              \/ CoversByAddress(d, x) /\ Addressable(x)
       PROVE  new[x].key \in u.keys
  <2>1. CASE x \in DOMAIN ids
    <3>1. new[x].key = ids[x].key
      BY Zenon, <2>1, <1>1 DEF k
    <3>2. \A b \in A : \A y \in DOMAIN ids :
            (CoversById(b, y) /\ ~DisputedIn(y, A)) \/ (CoversByAddress(b, y) /\ Addressable(y))
              => ids[y].key \in t.keys
      BY Zenon DEF TombOK
    <3>3. ids[x].key \in t.keys
      BY Zenon, <2>1, <3>2, <1>13
    <3> QED BY Zenon, <3>1, <3>3, <1>10
  <2>2. CASE x \notin DOMAIN ids
    <3>1. x = e
      BY Zenon, <2>2, <1>1
    <3>2. byIdTag \/ byAddress
      BY Zenon, <3>1, <2>2, <1>13, <1>8, <1>9
    <3> QED BY Zenon, <3>1, <3>2, <1>1, <1>5
  <2> QED BY Zenon, <2>1, <2>2
<1>14. \A d \in A : Tag(d, "e") \subseteq DOMAIN new \union DOMAIN u.pending
  BY Zenon, <1>1, <1>5 DEF TombOK
<1>15. /\ A \subseteq Deletion /\ DOMAIN u.pending \subseteq Event
       /\ \A x \in DOMAIN u.pending : \E d \in A : x \in Tag(d, "e") /\ u.pending[x].author = Author(d)
       /\ \A a \in DOMAIN u.addresses :
            \E d \in A : a \in Tag(d, "a") /\ a[2] = Author(d) /\ u.addresses[a] = Created(d)
       /\ \A d \in A : \A a \in Tag(d, "a") :
            a[2] = Author(d) => a \in DOMAIN u.addresses /\ Created(d) <= u.addresses[a]
  BY Zenon, <1>5 DEF TombOK
<1>16. u = [keys |-> u.keys, pending |-> u.pending, addresses |-> u.addresses]
  BY Zenon, <1>5
<1>17. TombOK(u, new, m, A)
  BY Zenon, <1>11, <1>12, <1>13, <1>14, <1>15, <1>16 DEF TombOK
<1> QED BY Zenon, <1>17 DEF new, m, k, u

\* What process_deletion_tags hides, the deletion covers, and the converse.
LEMMA TargetsCovered ==
    ASSUME NEW R, NEW ids, NEW n, RecordsOK(ids, n, R), NEW post, PostOK(post, ids, n),
           NEW d \in Event, NEW x \in DOMAIN ids
    PROVE  x \in DeletionTargets(d, ids, post) <=> CoversById(d, x) \/ CoversByAddress(d, x)
<1> DEFINE k == ids[x].key
<1>1. x \in Event /\ ids[x].created = Created(x)
  BY Zenon DEF RecordsOK
<1>2. /\ \A v : <<"author", v, k>> \in post <=> <<"author", v, k>> \in PostingsOf(x, k)
      /\ \A v : <<"kind", v, k>> \in post <=> <<"kind", v, k>> \in PostingsOf(x, k)
      /\ \A v : <<"d", v, k>> \in post <=> <<"d", v, k>> \in PostingsOf(x, k)
  BY Zenon DEF PostOK
<1> HIDE DEF k
<1>3. /\ \A v : <<"author", v, k>> \in post <=> v = Author(x)
      /\ \A v : <<"kind", v, k>> \in post <=> v = Kind(x)
      /\ \A v : <<"d", v, k>> \in post <=> v \in Tag(x, "d")
  BY Zenon, <1>1, <1>2, PostingMeans
<1>4. <<"author", Author(d), k>> \in post /\ x \in Tag(d, "e") <=> CoversById(d, x)
  BY Zenon, <1>3 DEF CoversById
<1>5. ASSUME NEW a \in Tag(d, "a")
      PROVE  (/\ <<"d", a[3], k>> \in post
              /\ <<"kind", a[1], k>> \in post
              /\ <<"author", a[2], k>> \in post)
               <=> \E v \in Tag(x, "d") : a = <<Kind(x), Author(x), v>>
  <2>1. a = <<a[1], a[2], a[3]>>
    BY Zenon, EventAssumption
  <2> QED BY <2>1, <1>3
<1> QED BY <1>1, <1>4, <1>5, Zenon DEF DeletionTargets, CoversByAddress, k

\* Processing a deletion keeps the tombstones sound and complete.
LEMMA DeletionKeepsTombstones ==
    ASSUME NEW R, NEW ids, NEW n, RecordsOK(ids, n, R), NEW post, PostOK(post, ids, n),
           NEW t, NEW A, TombOK(t, ids, n, A), NEW d \in Deletion
    PROVE  TombOK(ProcessDeletion(t, d, ids, post), ids, n, A \union {d})
<1> DEFINE u == ProcessDeletion(t, d, ids, post)
           B == A \union {d}
           absent == Tag(d, "e") \ DOMAIN ids
           newer  == {x \in absent : x \in DOMAIN t.pending => Created(d) > t.pending[x].at}
           mine   == {a \in Tag(d, "a") : a[2] = Author(d)}
           later(a) == a \in mine /\ (a \in DOMAIN t.addresses => Created(d) > t.addresses[a])
           hit == {ids[x].key : x \in DeletionTargets(d, ids, post)}
<1>1. /\ u = [keys |-> u.keys, pending |-> u.pending, addresses |-> u.addresses]
      /\ u.keys = t.keys \union hit
      /\ u.pending = [x \in DOMAIN t.pending \union absent |->
                        IF x \in newer THEN [author |-> Author(d), at |-> Created(d)]
                        ELSE t.pending[x]]
      /\ u.addresses = [a \in DOMAIN t.addresses \union mine |->
                          IF later(a) THEN Created(d) ELSE t.addresses[a]]
  BY Zenon DEF ProcessDeletion
<1>2. B \subseteq Deletion /\ d \in Event
  BY Zenon DEF TombOK, Deletion
<1>3. \A x \in DOMAIN ids : x \in DeletionTargets(d, ids, post) <=> CoversById(d, x) \/ CoversByAddress(d, x)
  BY Zenon, <1>2, TargetsCovered
<1>4. DeletionTargets(d, ids, post) \subseteq DOMAIN ids
  BY Zenon DEF DeletionTargets
<1>5. \A x \in DOMAIN ids : ids[x].key \in hit <=> x \in DeletionTargets(d, ids, post)
  BY Zenon, <1>4 DEF RecordsOK
<1>6. \A k \in hit : k \in Nat /\ k < n
  BY <1>4 DEF RecordsOK
<1>7. Tag(d, "e") \subseteq Event
  BY Zenon, <1>2, EventAssumption
<1>8. absent \subseteq newer \union DOMAIN t.pending /\ newer \subseteq absent
  BY Zenon
<1>9. \A a \in mine : later(a) \/ (a \in DOMAIN t.addresses /\ ~(Created(d) > t.addresses[a]))
  BY Zenon
<1>10. mine \subseteq Tag(d, "a") /\ \A a \in mine : a[2] = Author(d)
  BY Zenon
<1>11. \A a : later(a) => a \in mine /\ (a \in DOMAIN t.addresses => Created(d) > t.addresses[a])
  BY Zenon
<1> HIDE DEF u, B, hit, newer, later
<1>12. \A k \in u.keys : k \in Nat /\ k < n
  BY Zenon, <1>1, <1>6 DEF TombOK
<1>13. \A x \in DOMAIN ids : ids[x].key \in u.keys =>
         \E b \in B : CoversById(b, x) \/ CoversByAddress(b, x)
  BY Zenon, <1>1, <1>3, <1>5 DEF TombOK, B
<1>14. DOMAIN u.pending = DOMAIN t.pending \union absent
  BY Zenon, <1>1
<1>15. DOMAIN u.pending \subseteq Event
  BY Zenon, <1>7, <1>14 DEF TombOK
<1>16. ASSUME NEW x \in DOMAIN u.pending
       PROVE  \E b \in B : x \in Tag(b, "e") /\ u.pending[x].author = Author(b)
  <2>1. CASE x \in newer
    <3>1. u.pending[x] = [author |-> Author(d), at |-> Created(d)] /\ x \in Tag(d, "e")
      BY Zenon, <2>1, <1>1, <1>8, <1>14
    <3> QED BY <3>1 DEF B
  <2>2. CASE x \notin newer
    <3>1. u.pending[x] = t.pending[x] /\ x \in DOMAIN t.pending
      BY Zenon, <2>2, <1>1, <1>8, <1>14
    <3> QED BY Zenon, <3>1 DEF TombOK, B
  <2> QED BY Zenon, <2>1, <2>2
<1>17. DOMAIN u.addresses = DOMAIN t.addresses \union mine
  BY Zenon, <1>1
<1>18. ASSUME NEW a \in DOMAIN u.addresses
       PROVE  \E b \in B : a \in Tag(b, "a") /\ a[2] = Author(b) /\ u.addresses[a] = Created(b)
  <2>1. CASE later(a)
    <3>1. u.addresses[a] = Created(d) /\ a \in Tag(d, "a") /\ a[2] = Author(d)
      BY Zenon, <2>1, <1>1, <1>10, <1>11, <1>17
    <3> QED BY Zenon, <3>1 DEF B
  <2>2. CASE ~later(a)
    <3>1. u.addresses[a] = t.addresses[a] /\ a \in DOMAIN t.addresses
      BY Zenon, <2>2, <1>1, <1>9, <1>17
    <3> QED BY Zenon, <3>1 DEF TombOK, B
  <2> QED BY Zenon, <2>1, <2>2
<1>19. \A b \in B : Tag(b, "e") \subseteq DOMAIN ids \union DOMAIN u.pending
  BY Zenon, <1>14 DEF TombOK, B
<1>20. ASSUME NEW b \in B, NEW a \in Tag(b, "a"), a[2] = Author(b)
       PROVE  a \in DOMAIN u.addresses /\ Created(b) <= u.addresses[a]
  <2>1. Created(b) \in Nat /\ Created(d) \in Nat
    BY Zenon, <1>2, EventAssumption DEF Deletion
  <2>2. ASSUME a \in DOMAIN t.addresses PROVE t.addresses[a] \in Nat
    <3>1. PICK c \in A : t.addresses[a] = Created(c)
      BY Zenon, <2>2 DEF TombOK
    <3> QED BY <3>1, <1>2, EventAssumption DEF B, Deletion
  <2>3. CASE b = d
    <3>1. a \in mine
      BY Zenon, <2>3, <1>20
    <3>2. a \in DOMAIN u.addresses
      BY Zenon, <3>1, <1>17
    <3>3. CASE later(a)
      BY <3>2, <3>3, <2>1, <2>3, <1>1
    <3>4. CASE ~later(a)
      <4>1. a \in DOMAIN t.addresses /\ ~(Created(d) > t.addresses[a]) /\ u.addresses[a] = t.addresses[a]
        BY Zenon, <3>1, <3>2, <3>4, <1>1, <1>9, <1>17
      <4> QED BY <4>1, <3>2, <2>1, <2>2, <2>3
    <3> QED BY Zenon, <3>3, <3>4
  <2>4. CASE b \in A
    <3>1. a \in DOMAIN t.addresses /\ Created(b) <= t.addresses[a]
      BY Zenon, <2>4, <1>20 DEF TombOK
    <3>2. u.addresses[a] = t.addresses[a] \/ (u.addresses[a] = Created(d) /\ Created(d) > t.addresses[a])
      BY Zenon, <3>1, <1>1, <1>11, <1>17
    <3> QED BY <3>1, <3>2, <2>1, <2>2, <1>17
  <2> QED BY Zenon, <2>3, <2>4 DEF B
<1>21. ASSUME NEW b \in B, NEW x \in DOMAIN ids,
              (CoversById(b, x) /\ ~DisputedIn(x, B)) \/ (CoversByAddress(b, x) /\ Addressable(x))
       PROVE  ids[x].key \in u.keys
  <2>1. CASE b = d
    BY Zenon, <2>1, <1>21, <1>1, <1>3, <1>5
  <2>2. CASE b \in A
    <3>1. (CoversById(b, x) /\ ~DisputedIn(x, A)) \/ (CoversByAddress(b, x) /\ Addressable(x))
      BY Zenon, <1>21 DEF DisputedIn, B
    <3>2. ids[x].key \in t.keys
      BY Zenon, <2>2, <3>1 DEF TombOK
    <3> QED BY Zenon, <3>2, <1>1
  <2> QED BY Zenon, <2>1, <2>2 DEF B
<1>22. u = [keys |-> u.keys, pending |-> u.pending, addresses |-> u.addresses]
  BY Zenon, <1>1
<1> HIDE DEF absent, mine
<1>23. TombOK(u, ids, n, B)
  BY Zenon, <1>2, <1>12, <1>13, <1>15, <1>16, <1>18, <1>19, <1>20, <1>21, <1>22 DEF TombOK
<1> QED BY Zenon, <1>23 DEF u, B

-----------------------------------------------------------------------------
(* Sequences.                                                              *)
\* What an append leaves in a sequence.
LEMMA RangeAppend ==
    ASSUME NEW S, NEW q \in Seq(S), NEW e \in S, NEW k \in 0..Len(q)
    PROVE  Range(Append(SubSeq(q, k + 1, Len(q)), e)) \subseteq Range(q) \union {e}
<1>1. \A i \in 1..Len(q) : q[i] \in Range(q)
  BY DEF Range
<1>2. Len(q) \in Nat /\ k \in Nat
  OBVIOUS
<1>3. SubSeq(q, k + 1, Len(q)) = [i \in 1..(Len(q) - k) |-> q[k + i]]
  BY <1>2
<1> DEFINE r == SubSeq(q, k + 1, Len(q))
<1>4. r \in Seq(S) /\ Len(r) = Len(q) - k /\ \A i \in 1..Len(r) : r[i] \in Range(q)
  BY <1>1, <1>2, <1>3
<1> HIDE DEF r
<1>5. \A i \in 1..(Len(r) + 1) : Append(r, e)[i] \in Range(q) \union {e}
  BY <1>4
<1>6. DOMAIN Append(r, e) = 1..(Len(r) + 1)
  <2>1. Append(r, e) \in Seq(S) /\ Len(Append(r, e)) = Len(r) + 1
    BY <1>4
  <2> QED BY <2>1
<1> QED BY Zenon, <1>5, <1>6 DEF Range, r

\* What is left of a sequence without its first k, with one more at the end.
LEMMA TailAppend ==
    ASSUME NEW S, NEW q \in Seq(S), NEW e \in S, NEW k \in 0..Len(q)
    PROVE  LET a == Append(SubSeq(q, k + 1, Len(q)), e)
           IN  /\ Len(a) = Len(q) - k + 1
               /\ a[Len(q) - k + 1] = e
               /\ \A i \in 1..(Len(q) - k) : a[i] = q[k + i]
<1>1. Len(q) \in Nat /\ k \in Nat /\ k <= Len(q)
  OBVIOUS
<1> DEFINE r == SubSeq(q, k + 1, Len(q))
<1>2. r = [i \in 1..(Len(q) - k) |-> q[k + i]]
  BY <1>1
<1>3. r \in Seq(S) /\ Len(r) = Len(q) - k /\ \A i \in 1..(Len(q) - k) : r[i] = q[k + i]
  BY <1>1, <1>2
<1> HIDE DEF r
<1>4. /\ Len(Append(r, e)) = Len(q) - k + 1
      /\ Append(r, e)[Len(q) - k + 1] = e
      /\ \A i \in 1..(Len(q) - k) : Append(r, e)[i] = q[k + i]
  BY <1>1, <1>3
<1> QED BY Zenon, <1>4 DEF r

\* The lesser of two numbers.
LEMMA MinOfTwo == \A a, b \in Nat : Min({a, b}) = IF a <= b THEN a ELSE b
  BY DEF Min

\* A ring holds events of its own shard.
LEMMA RecordShard ==
    ASSUME NEW R, RingsOK(R), NEW s \in Shards
    PROVE  /\ Len(R[s].buf) \in Nat
           /\ \A i \in 1..Len(R[s].buf) : Shard(Kind(R[s].buf[i])) = s
<1> DEFINE b == R[s].buf
<1>1. b \in Seq({x \in Event : Shard(Kind(x)) = s})
  BY Zenon DEF RingsOK, RecordsOf
<1> HIDE DEF b
<1>2. Len(b) \in Nat /\ \A i \in 1..Len(b) : b[i] \in {x \in Event : Shard(Kind(x)) = s}
  BY <1>1
<1> QED BY Zenon, <1>2 DEF b

\* compact_wal keeps entries of the log, at most MaxWal of them.
LEMMA CompactOK ==
    ASSUME NEW w \in Seq(Deletion), Len(w) <= MaxWal, NEW e \in Deletion
    PROVE  LET c == Compact(Append(w, e))
           IN  c \in Seq(Deletion) /\ Len(c) <= MaxWal /\ Range(c) \subseteq Range(w) \union {e}
<1>1. MaxWal \in Nat \ {0} /\ Len(w) \in Nat
  BY PersistentAssumption
<1> DEFINE a == Append(w, e)
           k == Len(a) - MaxWal
<1>2. a \in Seq(Deletion) /\ Len(a) = Len(w) + 1 /\ DOMAIN a = 1..Len(a)
  OBVIOUS
<1>3. Range(a) \subseteq Range(w) \union {e}
  <2>1. \A i \in 1..Len(a) : a[i] \in Range(w) \union {e}
    BY <1>1, <1>2 DEF Range
  <2> QED BY Zenon, <1>2, <2>1 DEF Range
<1> HIDE DEF a
<1>4. CASE Len(a) <= MaxWal
  BY <1>1, <1>2, <1>3, <1>4 DEF Compact, a
<1>5. CASE Len(a) > MaxWal
  <2>1. k \in Nat /\ k + 1 \in Nat /\ k + 1 <= Len(a) /\ Len(a) \in Nat
    BY <1>1, <1>2, <1>5
  <2>2. Compact(a) = SubSeq(a, k + 1, Len(a))
    BY <1>5, Zenon DEF Compact
  <2> HIDE DEF k
  <2>3. /\ SubSeq(a, k + 1, Len(a)) \in Seq(Deletion)
        /\ Len(SubSeq(a, k + 1, Len(a))) = Len(a) - k
        /\ \A i \in 1..(Len(a) - k) : SubSeq(a, k + 1, Len(a))[i] = a[k + i]
    BY <1>2, <2>1
  <2>4. Len(a) - k = MaxWal
    BY <1>1, <2>1 DEF k
  <2>5. \A i \in 1..(Len(a) - k) : k + i \in DOMAIN a
    BY <1>2, <2>1
  <2>6. Range(SubSeq(a, k + 1, Len(a))) \subseteq Range(a)
    BY <2>3, <2>5 DEF Range
  <2>7. Compact(a) \in Seq(Deletion) /\ Len(Compact(a)) <= MaxWal
    BY <1>1, <2>2, <2>3, <2>4
  <2>8. Range(Compact(a)) \subseteq Range(w) \union {e}
    BY Zenon, <1>3, <2>2, <2>6
  <2> QED BY Zenon, <2>7, <2>8 DEF a
<1> QED BY <1>1, <1>2, <1>4, <1>5

-----------------------------------------------------------------------------
(* The invariant.                                                          *)
IndexOK(R, ids, n, post, t, A) ==
    RecordsOK(ids, n, R) /\ PostOK(post, ids, n) /\ TombOK(t, ids, n, A)

\* The records of a shard; after a start that succeeded, none is poisoned.
ServedOK(s, q) ==
    /\ q \in RecordsOf(s)
    /\ s \notin Range(Poisoned) \/ ~degraded => Range(q) \intersect Poisonous = {}

RingsInv ==
    /\ RingsOK(rings)
    /\ \A s \in Shards : ServedOK(s, rings[s].buf)
    /\ Range(rings["ephemeral"].buf) \subseteq session
    /\ session \subseteq Event /\ degraded \in BOOLEAN

\* The cursor of the rebuild never passes the end of a ring, whose head is 0.
CursorOK ==
    At("index") =>
      /\ pc = [at |-> "index", done |-> pc.done] /\ pc.done \in [Shards -> Nat]
      /\ \A s \in Shards : rings[s].head = 0 /\ pc.done[s] <= Len(rings[s].buf)

IndexInv ==
    /\ IndexOK(rings, byId, nextKey, postings, tomb, applied)
    /\ CursorOK
    /\ pc.at \in {"down", "migrate", "hydrate"} => applied = {}

\* One call at a time, and what it still has to do.
PcInv ==
    /\ \/ pc.at \in {"down", "hydrate", "index", "ready", "flush"}
       \/ pc = [at |-> "migrate", todo |-> pc.todo, found |-> pc.found]
       \/ pc = [at |-> "replay", todo |-> pc.todo]
       \/ pc = [at |-> "sync", todo |-> pc.todo]
    /\ At("migrate") => pc.todo \in Seq(Range(Poisoned)) /\ pc.found \in BOOLEAN
    /\ At("replay") => pc.todo \in Seq(Deletion)
    /\ At("sync") => /\ DOMAIN pc.todo \subseteq {s \in Shards : IsPersistent(s)}
                     /\ \A s \in DOMAIN pc.todo : ServedOK(s, pc.todo[s])
    /\ wal \in Seq(Deletion) /\ Len(wal) <= MaxWal
    /\ walIds \subseteq Event /\ due \in BOOLEAN

\* The blobs are clean once marked, or once the migration has passed them.
DiskInv ==
    /\ DiskOK(disk)
    /\ ~degraded =>
         /\ disk.marker \/ pc.at \notin {"down", "migrate"} => Clean(disk.shards)
         /\ At("migrate") => \A s \in DOMAIN disk.shards \ Range(pc.todo) :
                               Range(disk.shards[s]) \intersect Poisonous = {}

\* The entries of the WAL are in force, or about to be.
WalInv ==
    ~degraded =>
      /\ At("replay") => Range(wal) \union Range(disk.wal) \subseteq applied \union Range(pc.todo)
      /\ pc.at \in {"ready", "flush", "sync"} => Range(wal) \union Range(disk.wal) \subseteq applied

Inv == RingsInv /\ IndexInv /\ PcInv /\ DiskInv /\ WalInv

\* A record indexed where it lies keeps all three.
LEMMA IndexStep ==
    ASSUME IndexOK(rings', byId, nextKey, postings, tomb, applied),
           NEW e \in Event, NEW off, PointsTo(rings', off, e), IndexEvent(e, off),
           applied' = IF Kind(e) = EVENT_DELETION THEN applied \union {e} ELSE applied
    PROVE  IndexOK(rings, byId, nextKey, postings, tomb, applied)'
<1> DEFINE k == IF e \in DOMAIN byId THEN byId[e].key ELSE nextKey
           t == ApplyTombstones(tomb, e, k)
           post == postings \union PostingsOf(e, k)
<1>1. /\ byId' = IdsAfter(byId, nextKey, e, off)
      /\ nextKey' = KeyAfter(byId, nextKey, e)
      /\ postings' = post
      /\ tomb' = IF Kind(e) = EVENT_DELETION THEN ProcessDeletion(t, e, byId', postings') ELSE t
  BY Zenon DEF IndexEvent, IdsAfter, KeyAfter, KeyFor
<1>2. RecordsOK(byId', nextKey', rings')
  BY <1>1, IndexKeepsRecords DEF IndexOK
<1>3. PostOK(postings', byId', nextKey')
  BY Zenon, <1>1, IndexKeepsPostings DEF IndexOK
<1>4. TombOK(t, byId', nextKey', applied)
  BY Zenon, <1>1, ApplyKeepsTombstones DEF IndexOK
<1> HIDE DEF t, post
<1>5. TombOK(tomb', byId', nextKey', applied')
  <2>1. CASE Kind(e) = EVENT_DELETION
    BY Zenon, <2>1, <1>1, <1>2, <1>3, <1>4, DeletionKeepsTombstones DEF Deletion
  <2>2. CASE Kind(e) # EVENT_DELETION
    BY Zenon, <2>2, <1>1, <1>4
  <2> QED BY Zenon, <2>1, <2>2
<1> QED BY Zenon, <1>2, <1>3, <1>5 DEF IndexOK

\* The store after `clear`.
LEMMA EmptyOK ==
    ASSUME NEW R, NEW A, A = {}
    PROVE  /\ RingsOK(EmptyRings)
           /\ \A s \in Shards : EmptyRings[s].buf = <<>> /\ EmptyRings[s].head = 0
           /\ IndexOK(R, << >>, 0, {}, NoTombstones, A)
<1>1. RingsOK(EmptyRings) /\ \A s \in Shards : EmptyRings[s].buf = <<>> /\ EmptyRings[s].head = 0
  <2>1. \A s \in Shards : <<>> \in RecordsOf(s)
    BY DEF RecordsOf
  <2>2. DOMAIN EmptyRings = Shards /\ \A s \in Shards : EmptyRings[s] = [head |-> 0, buf |-> <<>>]
    BY Zenon DEF EmptyRings
  <2> QED BY <2>1, <2>2 DEF RingsOK
<1>2. DOMAIN << >> = {}
  OBVIOUS
<1>3. RecordsOK(<< >>, 0, R)
  BY Zenon, <1>2 DEF RecordsOK
<1>4. PostOK({}, << >>, 0)
  BY Zenon, <1>2 DEF PostOK
<1>5. TombOK(NoTombstones, << >>, 0, A)
  BY Zenon, <1>2 DEF TombOK, NoTombstones
<1> QED BY Zenon, <1>1, <1>3, <1>4, <1>5 DEF IndexOK

-----------------------------------------------------------------------------
(* Preservation, one group of conjuncts at a time.                         *)
Quiet ==
    \/ MigrateShard \/ MigrateMarker \/ LoadTombstones \/ Initialized \/ Flush
    \/ SyncShard \/ SyncMarker \/ PutFails \/ Elapse

LEMMA QuietStep == Quiet => UNCHANGED storeVars /\ UNCHANGED <<applied, session, degraded>>
  BY Zenon DEF Quiet, MigrateShard, MigrateMarker, LoadTombstones, Initialized, Flush, SyncShard,
         SyncMarker, PutFails, Elapse, ghosts

\* Of these, only the end of the rebuild moves from loading to serving.
LEMMA QuietPc ==
    Quiet => /\ pc'.at # "index"
             /\ pc'.at \in {"down", "migrate", "hydrate"} => pc.at \in {"down", "migrate", "hydrate"}
             /\ pc'.at \notin {"down", "migrate", "hydrate"} =>
                  pc.at \notin {"down", "migrate", "hydrate", "index"} \/ Indexed
<1> USE DEF At
<1>1. CASE MigrateShard \/ MigrateMarker
  BY <1>1 DEF MigrateShard, MigrateMarker, Go
<1>2. CASE LoadTombstones
  BY <1>2 DEF LoadTombstones
<1>3. CASE Initialized \/ SyncMarker \/ PutFails
  BY <1>3 DEF Initialized, SyncMarker, PutFails, Go
<1>4. CASE Flush
  BY <1>4 DEF Flush, SyncOrReturn, Go
<1>5. CASE SyncShard
  BY <1>5 DEF SyncShard
<1>6. CASE Elapse
  BY <1>6 DEF Elapse
<1> QED BY Zenon, <1>1, <1>2, <1>3, <1>4, <1>5, <1>6 DEF Quiet

LEMMA IndexRecordPc == IndexRecord => pc'.at = "index"
<1> SUFFICES ASSUME IndexRecord PROVE pc'.at = "index"
  BY Zenon
<1>1. PICK s \in Shards : pc' = [at |-> "index", done |-> [pc.done EXCEPT ![s] = @ + 1]]
  BY Zenon DEF IndexRecord
<1> QED BY Zenon, <1>1

LEMMA NextCases ==
    [Next]_vars => \/ Quiet \/ Start \/ Hydrate \/ IndexRecord \/ ReplayEntry \/ InitializeFails
                   \/ (\E e \in Incoming : Persist(e)) \/ Crash \/ UNCHANGED vars
  BY Zenon DEF Next, Run, Quiet

\* What is loaded are the blobs of the persistent shards.
LEMMA LoadedOK ==
    ASSUME PersistentAssumption, DiskInv, At("hydrate"), NEW s \in Shards
    PROVE  ServedOK(s, Loaded[s]) /\ (s = "ephemeral" => Loaded[s] = <<>>)
<1>1. Loaded[s] = CASE ~IsPersistent(s) -> <<>>
                    [] IsPersistent(s) /\ s \in DOMAIN disk.shards -> disk.shards[s]
                    [] s = "replaceable" /\ s \notin DOMAIN disk.shards -> disk.kind10002
                    [] OTHER -> <<>>
  BY Zenon DEF Loaded
<1>2. ServedOK(s, <<>>)
  BY DEF ServedOK, RecordsOf, Range
<1>3. CASE ~IsPersistent(s)
  <2>1. Loaded[s] = <<>>
    BY Zenon, <1>1, <1>3 DEF IsPersistent
  <2> QED BY Zenon, <2>1, <1>2
<1>4. CASE IsPersistent(s) /\ s \in DOMAIN disk.shards
  <2>1. Loaded[s] = disk.shards[s]
    BY Zenon, <1>1, <1>4 DEF IsPersistent
  <2>2. disk.shards[s] \in RecordsOf(s)
    BY Zenon, <1>4 DEF DiskInv, DiskOK
  <2>3. ASSUME s \notin Range(Poisoned) \/ ~degraded
        PROVE  Range(disk.shards[s]) \intersect Poisonous = {}
    BY Zenon, <2>3, <1>4 DEF DiskInv, DiskOK, At, Clean
  <2>4. s # "ephemeral"
    BY Zenon, <1>4 DEF IsPersistent
  <2> QED BY Zenon, <2>1, <2>2, <2>3, <2>4 DEF ServedOK
<1>5. CASE IsPersistent(s) /\ s \notin DOMAIN disk.shards
  <2>1. CASE s = "replaceable"
    <3>1. Loaded[s] = disk.kind10002
      BY Zenon, <1>1, <1>5, <2>1
    <3>2. disk.kind10002 \in RecordsOf(s) /\ Range(disk.kind10002) \intersect Poisonous = {}
      BY Zenon, <2>1 DEF DiskInv, DiskOK
    <3> QED BY Zenon, <2>1, <3>1, <3>2 DEF ServedOK
  <2>2. CASE s # "replaceable"
    <3>1. Loaded[s] = <<>>
      BY Zenon, <1>1, <1>5, <2>2
    <3> QED BY Zenon, <3>1, <1>2
  <2> QED BY Zenon, <2>1, <2>2
<1> QED BY Zenon, <1>3, <1>4, <1>5

LEMMA RingsStep == ASSUME Inv, [Next]_vars PROVE RingsInv'
<1> USE DEF Inv
<1>1. CASE UNCHANGED <<rings, session, degraded>>
  BY Zenon, <1>1 DEF RingsInv, ServedOK
<1>2. CASE Start \/ Crash
  <2>1. rings' = EmptyRings /\ degraded' = degraded /\ session' \in {{}, session}
    BY Zenon, <1>2 DEF Start, Crash, Clear, ghosts
  <2>2. RingsOK(EmptyRings) /\ \A s \in Shards : EmptyRings[s].buf = <<>>
    BY EmptyOK, Zenon
  <2>3. \A s \in Shards : <<>> \in RecordsOf(s)
    BY DEF RecordsOf
  <2>4. Range(<<>>) = {}
    BY DEF Range
  <2>5. "ephemeral" \in Shards
    BY Zenon DEF Shards
  <2> QED BY Zenon, <2>1, <2>2, <2>3, <2>4, <2>5 DEF RingsInv, ServedOK
<1>3. CASE Hydrate
  <2>1. /\ rings' = [s \in Shards |-> [head |-> 0, buf |-> Loaded[s]]]
        /\ degraded' = degraded /\ session' = session /\ At("hydrate")
    BY Zenon, <1>3 DEF Hydrate, ghosts
  <2>2. \A s \in Shards : ServedOK(s, Loaded[s]) /\ (s = "ephemeral" => Loaded[s] = <<>>)
    BY Zenon, <2>1, LoadedOK, PersistentAssumption
  <2>3. \A s \in Shards : rings'[s] = [head |-> 0, buf |-> Loaded[s]]
    BY Zenon, <2>1
  <2>4. RingsOK(rings')
    BY Zenon, <2>1, <2>2, <2>3 DEF RingsOK, ServedOK
  <2>5. \A s \in Shards : ServedOK(s, rings[s].buf)'
    BY Zenon, <2>1, <2>2, <2>3 DEF ServedOK
  <2>6. rings'["ephemeral"].buf = <<>>
    BY <2>2, <2>3 DEF Shards
  <2>7. Range(<<>>) = {}
    BY DEF Range
  <2> QED BY Zenon, <2>1, <2>4, <2>5, <2>6, <2>7 DEF RingsInv
<1>4. CASE InitializeFails
  BY Zenon, <1>4 DEF RingsInv, ServedOK, InitializeFails, storeVars
<1>5. ASSUME NEW e \in Incoming, Persist(e) PROVE RingsInv'
  <2> DEFINE s == Shard(Kind(e))
  <2>1. /\ e \in Event /\ e \notin Poisonous /\ s \in Shards
        /\ degraded' = degraded /\ session' = session \union {e}
    BY Zenon, <1>5, PersistentAssumption, EventAssumption, ShardType DEF Persist
  <2>2. PICK k \in 0..Len(rings[s].buf) : rings' = [rings EXCEPT ![s] = Appended(rings[s], e, k)]
    BY <1>5, Zenon DEF Persist, AddEvent
  <2> DEFINE q == Append(SubSeq(rings[s].buf, k + 1, Len(rings[s].buf)), e)
  <2>3. RingsOK(rings')
    BY <2>1, <2>2, AppendKeepsRecords, EmptyOK, Zenon DEF RingsInv, IndexInv, IndexOK
  <2>4. rings'[s].buf = q /\ \A x \in Shards \ {s} : rings'[x] = rings[x]
    BY <2>1, <2>2, Zenon DEF RingsInv, RingsOK, Appended
  <2>5. Range(q) \subseteq Range(rings[s].buf) \union {e}
    <3> DEFINE S == {x \in Event : Shard(Kind(x)) = s}
    <3>1. rings[s].buf \in Seq(S) /\ e \in S
      BY Zenon, <2>1 DEF RingsInv, RingsOK, RecordsOf
    <3> DEFINE b == rings[s].buf
    <3>2. b \in Seq(S) /\ k \in 0..Len(b) /\ q = Append(SubSeq(b, k + 1, Len(b)), e)
      BY Zenon, <3>1
    <3> HIDE DEF S, b, q, s
    <3>3. Range(Append(SubSeq(b, k + 1, Len(b)), e)) \subseteq Range(b) \union {e}
      BY Zenon, <3>1, <3>2, RangeAppend
    <3> QED BY Zenon, <3>2, <3>3 DEF b
  <2> HIDE DEF q, s
  <2>6. ASSUME NEW x \in Shards PROVE ServedOK(x, rings[x].buf)'
    <3>1. rings'[x].buf \in RecordsOf(x)
      BY Zenon, <2>3 DEF RingsOK
    <3>2. ASSUME x \notin Range(Poisoned) \/ ~degraded PROVE Range(rings[x].buf) \intersect Poisonous = {}
      BY Zenon, <3>2 DEF RingsInv, ServedOK
    <3>3. ASSUME x \notin Range(Poisoned) \/ ~degraded PROVE Range(rings'[x].buf) \intersect Poisonous = {}
      BY Zenon, <3>2, <3>3, <2>1, <2>4, <2>5
    <3> QED BY Zenon, <3>1, <3>3, <2>1 DEF ServedOK
  <2>7. Range(rings'["ephemeral"].buf) \subseteq session'
    <3>1. "ephemeral" \in Shards
      BY Zenon DEF Shards
    <3> QED BY Zenon, <3>1, <2>1, <2>4, <2>5 DEF RingsInv
  <2> QED BY Zenon, <2>1, <2>3, <2>6, <2>7 DEF RingsInv
<1>6. CASE Quiet \/ IndexRecord \/ ReplayEntry \/ UNCHANGED vars
  BY Zenon, <1>1, <1>6, QuietStep DEF IndexRecord, ReplayEntry, vars, storeVars, ghosts
<1> QED BY Zenon, <1>2, <1>3, <1>4, <1>5, <1>6, NextCases

LEMMA IndexInvStep == ASSUME Inv, [Next]_vars PROVE IndexInv'
<1> USE DEF Inv
<1>1. CASE Quiet
  <2>1. UNCHANGED storeVars /\ UNCHANGED applied
    BY Zenon, <1>1, QuietStep
  <2>2. pc'.at # "index" /\ (pc'.at \in {"down", "migrate", "hydrate"} => pc.at \in {"down", "migrate", "hydrate"})
    BY Zenon, <1>1, QuietPc
  <2>3. IndexOK(rings, byId, nextKey, postings, tomb, applied)'
    BY Zenon, <2>1 DEF IndexInv, storeVars
  <2> QED BY Zenon, <2>1, <2>2, <2>3 DEF IndexInv, CursorOK, At
<1>2. CASE UNCHANGED vars
  BY Zenon, <1>2 DEF IndexInv, IndexOK, CursorOK, At, vars, storeVars, ghosts
<1>3. CASE Start \/ Crash
  <2>1. /\ byId' = << >> /\ nextKey' = 0 /\ postings' = {} /\ tomb' = NoTombstones
        /\ applied' = {} /\ pc'.at # "index"
    BY <1>3 DEF Start, Crash, Clear, ghosts, Go, At, IndexInv
  <2>2. IndexOK(rings', << >>, 0, {}, NoTombstones, applied')
    BY Zenon, <2>1, EmptyOK
  <2> QED BY Zenon, <2>1, <2>2 DEF IndexInv, CursorOK, At
<1>4. CASE Hydrate
  <2>1. /\ byId' = << >> /\ nextKey' = 0 /\ postings' = {} /\ tomb' = NoTombstones
        /\ applied' = {} /\ pc' = [at |-> "index", done |-> [s \in Shards |-> 0]]
        /\ rings' = [s \in Shards |-> [head |-> 0, buf |-> Loaded[s]]]
    BY <1>4 DEF Hydrate, ghosts, At, IndexInv
  <2>2. IndexOK(rings', << >>, 0, {}, NoTombstones, applied')
    BY Zenon, <2>1, EmptyOK
  <2>3. RingsOK(rings')
    BY Zenon, RingsStep DEF RingsInv
  <2>4. pc'.done = [s \in Shards |-> 0] /\ pc' = [at |-> "index", done |-> pc'.done] /\ pc'.done \in [Shards -> Nat]
    BY Zenon, <2>1
  <2>5. ASSUME NEW s \in Shards PROVE rings'[s].head = 0 /\ pc'.done[s] <= Len(rings'[s].buf)
    <3>1. rings'[s].head = 0 /\ pc'.done[s] = 0
      BY Zenon, <2>1, <2>4
    <3>2. Len(rings'[s].buf) \in Nat
      BY <2>3 DEF RingsOK, RecordsOf
    <3> QED BY <3>1, <3>2
  <2> QED BY <2>1, <2>2, <2>4, <2>5 DEF IndexInv, CursorOK, At
<1>5. CASE IndexRecord
  <2>1. PICK s \in Shards : LET off == <<s, pc.done[s]>>
                               e   == EventAt(off)
                           IN  /\ NextShard(s)
                               /\ IndexEvent(e, off)
                               /\ applied' = IF Kind(e) = EVENT_DELETION THEN applied \union {e} ELSE applied
                               /\ pc' = [at |-> "index", done |-> [pc.done EXCEPT ![s] = @ + 1]]
    BY <1>5, Zenon DEF IndexRecord
  <2>2. /\ pc.done[s] < Len(rings[s].buf) /\ rings' = rings /\ At("index")
    BY <1>5, <2>1 DEF IndexRecord, NextShard, ToIndex
  <2>3. /\ pc.done \in [Shards -> Nat] /\ pc.done[s] \in Nat /\ rings[s].head = 0
        /\ rings[s].buf \in Seq({x \in Event : Shard(Kind(x)) = s}) /\ Len(rings[s].buf) \in Nat
    BY <2>2 DEF IndexInv, CursorOK, RingsInv, RingsOK, RecordsOf
  <2> DEFINE off == <<s, pc.done[s]>>
             e == rings[s].buf[pc.done[s] + 1]
  <2>4. EventAt(off) = e /\ e \in Event
    <3>1. pc.done[s] - 0 + 1 = pc.done[s] + 1 /\ pc.done[s] + 1 \in 1..Len(rings[s].buf)
      BY <2>2, <2>3
    <3>2. EventAt(off) = e
      BY Zenon, <2>3, <3>1 DEF EventAt
    <3> QED BY <2>3, <3>1, <3>2
  <2>5. PointsTo(rings', off, e)
    BY <2>2, <2>3, <2>4 DEF PointsTo
  <2>6. IndexOK(rings', byId, nextKey, postings, tomb, applied)
    BY Zenon, <2>2 DEF IndexInv
  <2>7. IndexEvent(e, off) /\ applied' = IF Kind(e) = EVENT_DELETION THEN applied \union {e} ELSE applied
    BY <2>1, <2>4, Zenon
  <2> HIDE DEF off, e
  <2>8. IndexOK(rings, byId, nextKey, postings, tomb, applied)'
    BY <2>4, <2>5, <2>6, <2>7, IndexStep, Zenon
  <2>9. pc'.done = [pc.done EXCEPT ![s] = @ + 1] /\ pc' = [at |-> "index", done |-> pc'.done]
    BY Zenon, <2>1
  <2>10. pc'.done \in [Shards -> Nat]
    BY <2>3, <2>9
  <2>11. \A x \in Shards : rings[x].head = 0 /\ pc.done[x] <= Len(rings[x].buf)
    BY Zenon, <2>2 DEF IndexInv, CursorOK
  <2>12. \A x \in Shards : rings'[x].head = 0 /\ pc'.done[x] <= Len(rings'[x].buf)
    BY <2>2, <2>3, <2>9, <2>11
  <2> QED BY <2>8, <2>9, <2>10, <2>12 DEF IndexInv, CursorOK, At
<1>6. CASE ReplayEntry
  <2> DEFINE d == Head(pc.todo)
  <2>1. /\ tomb' = ProcessDeletion(tomb, d, byId, postings) /\ applied' = applied \union {d}
        /\ UNCHANGED <<rings, byId, nextKey, postings>> /\ pc'.at = "replay"
    BY Zenon, <1>6 DEF ReplayEntry, At, PcInv
  <2>2. d \in Deletion
    BY <1>6 DEF ReplayEntry, PcInv
  <2> HIDE DEF d
  <2>3. TombOK(tomb', byId, nextKey, applied')
    BY Zenon, <2>1, <2>2, DeletionKeepsTombstones DEF IndexInv, IndexOK
  <2> QED BY Zenon, <2>1, <2>3 DEF IndexInv, IndexOK, CursorOK, At
<1>7. CASE InitializeFails
  BY Zenon, <1>7 DEF InitializeFails, Go, IndexInv, IndexOK, CursorOK, At, storeVars
<1>8. ASSUME NEW e \in Incoming, Persist(e) PROVE IndexInv'
  <2> DEFINE s == Shard(Kind(e))
  <2>1. e \in Event
    BY Zenon, PersistentAssumption
  <2>2. PICK k \in 0..Len(rings[s].buf) :
          LET r == Appended(rings[s], e, k)
          IN  /\ rings' = [rings EXCEPT ![s] = r]
              /\ IndexEvent(e, <<s, r.head + Len(r.buf) - 1>>)
    BY <1>8, Zenon DEF Persist, AddEvent
  <2>3. /\ RecordsOK(byId, nextKey, rings')
        /\ PointsTo(rings', <<s, rings'[s].head + Len(rings'[s].buf) - 1>>, e)
    BY <2>1, <2>2, AppendKeepsRecords, Zenon DEF RingsInv, IndexInv, IndexOK
  <2>4. rings'[s] = Appended(rings[s], e, k)
    BY Zenon, <2>1, <2>2, ShardType, EventAssumption DEF RingsInv, RingsOK
  <2>5. IndexOK(rings', byId, nextKey, postings, tomb, applied)
    BY Zenon, <2>3 DEF IndexInv, IndexOK
  <2>6. applied' = IF Kind(e) = EVENT_DELETION THEN applied \union {e} ELSE applied
    BY Zenon, <1>8 DEF Persist
  <2>7. IndexEvent(e, <<s, rings'[s].head + Len(rings'[s].buf) - 1>>)
    BY Zenon, <2>2, <2>4
  <2>8. IndexOK(rings, byId, nextKey, postings, tomb, applied)'
    BY <2>1, <2>3, <2>5, <2>6, <2>7, IndexStep, Zenon
  <2>9. pc'.at \in {"flush", "sync", "ready"}
    BY <1>8 DEF Persist, SyncOrReturn, Go
  <2> QED BY Zenon, <2>8, <2>9 DEF IndexInv, CursorOK, At
<1> QED BY Zenon, <1>1, <1>2, <1>3, <1>4, <1>5, <1>6, <1>7, <1>8, NextCases

\* A snapshot holds only what is in the rings.
LEMMA SnapshotStep ==
    ASSUME RingsInv', SyncOrReturn(rings')
    PROVE  /\ pc' = [at |-> "ready"] \/ pc' = [at |-> "sync", todo |-> pc'.todo]
           /\ pc'.at = "sync" =>
                /\ DOMAIN pc'.todo \subseteq {s \in Shards : IsPersistent(s)}
                /\ \A s \in DOMAIN pc'.todo : ServedOK(s, pc.todo[s])'
<1>1. CASE ~due
  BY <1>1 DEF SyncOrReturn, Go
<1>2. CASE due
  <2>1. pc' = [at |-> "sync", todo |-> Snapshot(rings')]
    BY Zenon, <1>2 DEF SyncOrReturn
  <2>2. pc'.todo = Snapshot(rings')
    BY Zenon, <2>1
  <2>3. \A s \in DOMAIN pc'.todo : s \in Shards /\ IsPersistent(s) /\ pc'.todo[s] = rings'[s].buf
    BY Zenon, <2>2 DEF Snapshot
  <2>4. \A s \in DOMAIN pc'.todo : ServedOK(s, pc.todo[s])'
    BY Zenon, <2>3 DEF RingsInv, ServedOK
  <2> QED BY Zenon, <2>1, <2>3, <2>4
<1> QED BY Zenon, <1>1, <1>2

LEMMA PcStep == ASSUME Inv, [Next]_vars PROVE PcInv'
<1> USE DEF Inv
<1>0. wal \in Seq(Deletion) /\ Len(wal) <= MaxWal /\ walIds \subseteq Event /\ due \in BOOLEAN
  BY Zenon DEF PcInv
<1>1. CASE Start
  <2>1. Poisoned \in Seq(Range(Poisoned))
    <3> DEFINE P == {"kind4", "kind7375", "replaceable", "regular"}
    <3>1. Poisoned \in Seq(P)
      BY DEF Poisoned
    <3>2. Range(Poisoned) = P
      BY DEF Poisoned, Range
    <3> QED BY Zenon, <3>1, <3>2
  <2>2. UNCHANGED <<wal, walIds, due>>
    BY Zenon, <1>1 DEF Start
  <2>3. pc' = [at |-> "hydrate"] \/ pc' = [at |-> "migrate", todo |-> Poisoned, found |-> FALSE]
    BY Zenon, <1>1 DEF Start, Go
  <2>4. CASE pc' = [at |-> "hydrate"]
    BY Zenon, <2>2, <2>4 DEF PcInv, At
  <2>5. CASE pc' = [at |-> "migrate", todo |-> Poisoned, found |-> FALSE]
    <3>1. pc'.at = "migrate" /\ pc'.todo = Poisoned /\ pc'.found = FALSE
      BY Zenon, <2>5
    <3>2. pc' = [at |-> "migrate", todo |-> pc'.todo, found |-> pc'.found]
      BY Zenon, <2>5, <3>1
    <3> HIDE DEF Inv
    <3> QED BY <2>1, <2>2, <3>1, <3>2, <1>0, Zenon DEF PcInv, At
  <2> QED BY Zenon, <2>3, <2>4, <2>5
<1>2. CASE MigrateShard
  <2>1. /\ pc' = [at |-> "migrate", todo |-> pc'.todo, found |-> pc'.found]
        /\ pc'.todo = Tail(pc.todo) /\ pc'.found \in BOOLEAN
        /\ pc.todo \in Seq(Range(Poisoned)) /\ pc.todo # <<>>
    BY Zenon, <1>2 DEF MigrateShard, PcInv, At
  <2>2. UNCHANGED <<wal, walIds, due>>
    BY Zenon, <1>2 DEF MigrateShard
  <2>3. pc'.todo \in Seq(Range(Poisoned))
    BY <2>1
  <2> QED BY <2>1, <2>2, <2>3 DEF PcInv, At
<1>3. CASE MigrateMarker
  <2>1. pc' = [at |-> "hydrate"] /\ UNCHANGED <<wal, walIds, due>>
    BY Zenon, <1>3 DEF MigrateMarker, Go
  <2> QED BY Zenon, <2>1 DEF PcInv, At
<1>4. CASE Hydrate
  BY Zenon, <1>4 DEF Hydrate, PcInv, At
<1>5. CASE IndexRecord
  <2>1. UNCHANGED <<wal, walIds, due>>
    BY Zenon, <1>5 DEF IndexRecord
  <2> QED BY Zenon, <2>1, <1>5, IndexRecordPc DEF PcInv, At
<1>6. CASE LoadTombstones
  <2>1. wal' = disk.wal /\ pc' = [at |-> "replay", todo |-> disk.wal] /\ UNCHANGED <<walIds, due>>
    BY Zenon, <1>6 DEF LoadTombstones
  <2>2. disk.wal \in Seq(Deletion) /\ Len(disk.wal) <= MaxWal
    BY Zenon DEF DiskInv, DiskOK, Deletion
  <2> QED BY Zenon, <2>1, <2>2 DEF PcInv, At
<1>7. CASE ReplayEntry
  <2>1. pc = [at |-> "replay", todo |-> pc.todo] /\ pc.todo \in Seq(Deletion) /\ pc.todo # <<>>
    BY <1>7 DEF ReplayEntry, PcInv, At
  <2>2. pc' = [pc EXCEPT !.todo = Tail(pc.todo)] /\ UNCHANGED <<wal, due>> /\ walIds' = walIds \union {Head(pc.todo)}
    BY Zenon, <1>7 DEF ReplayEntry
  <2>3. pc' = [at |-> "replay", todo |-> Tail(pc.todo)]
    <3> DEFINE T == Tail(pc.todo)
               todo == pc.todo
    <3>1. pc = [at |-> "replay", todo |-> todo] /\ pc' = [pc EXCEPT !.todo = T]
      BY Zenon, <2>1, <2>2
    <3> HIDE DEF T, todo
    <3>2. pc' = [at |-> "replay", todo |-> T]
      BY <3>1, Zenon
    <3> QED BY Zenon, <3>2 DEF T
  <2>4. Tail(pc.todo) \in Seq(Deletion) /\ Head(pc.todo) \in Deletion
    BY <2>1
  <2>5. walIds' \subseteq Event
    BY Zenon, <2>2, <2>4 DEF PcInv, Deletion
  <2>6. pc'.at = "replay" /\ pc'.todo = Tail(pc.todo) /\ pc' = [at |-> "replay", todo |-> pc'.todo]
    BY Zenon, <2>3
  <2>7. wal' \in Seq(Deletion) /\ Len(wal') <= MaxWal /\ due' \in BOOLEAN
    BY Zenon, <2>2, <1>0
  <2> HIDE DEF Inv
  <2> QED BY Zenon, <2>4, <2>5, <2>6, <2>7 DEF PcInv, At
<1>8. CASE Initialized
  <2>1. pc' = [at |-> "ready"] /\ UNCHANGED <<wal, walIds>> /\ due' = FALSE
    BY Zenon, <1>8 DEF Initialized, Go
  <2> QED BY <2>1, Zenon DEF PcInv, At
<1>9. CASE InitializeFails
  <2>1. pc' = [at |-> "ready"] /\ UNCHANGED <<wal, walIds, due>>
    BY Zenon, <1>9 DEF InitializeFails, Go
  <2> QED BY Zenon, <2>1 DEF PcInv, At
<1>10. ASSUME NEW e \in Incoming, Persist(e) PROVE PcInv'
  <2>1. CASE Kind(e) = EVENT_DELETION /\ e \notin walIds
    <3>1. /\ wal' = Compact(Append(wal, e)) /\ pc' = [at |-> "flush"] /\ due' = due
          /\ walIds' \in {Range(Compact(Append(wal, e))), walIds \union {e}}
      BY Zenon, <1>10, <2>1 DEF Persist, Go
    <3>2. e \in Deletion
      BY Zenon, <2>1, PersistentAssumption DEF Deletion
    <3>3. wal' \in Seq(Deletion) /\ Len(wal') <= MaxWal /\ Range(wal') \subseteq Range(wal) \union {e}
      BY Zenon, <3>1, <3>2, CompactOK DEF PcInv
    <3>4. Range(wal) \subseteq Event
      BY DEF PcInv, Range, Deletion
    <3>5. walIds' \subseteq Event
      BY Zenon, <3>1, <3>2, <3>3, <3>4 DEF PcInv, Deletion
    <3> QED BY Zenon, <3>1, <3>3, <3>5 DEF PcInv, At
  <2>2. CASE ~(Kind(e) = EVENT_DELETION /\ e \notin walIds)
    <3>1. UNCHANGED <<wal, walIds, due>> /\ SyncOrReturn(rings')
      BY Zenon, <1>10, <2>2 DEF Persist
    <3> QED BY <3>1, RingsStep, SnapshotStep DEF PcInv, At
  <2> QED BY Zenon, <2>1, <2>2
<1>11. CASE Flush
  <2>1. UNCHANGED <<rings, wal, walIds, due>> /\ SyncOrReturn(rings)
    BY Zenon, <1>11 DEF Flush, storeVars
  <2>2. SyncOrReturn(rings')
    BY Zenon, <2>1
  <2> QED BY <2>1, <2>2, RingsStep, SnapshotStep DEF PcInv, At
<1>12. CASE SyncShard
  <2>1. PICK s \in DOMAIN pc.todo :
          pc' = [at |-> "sync", todo |-> [x \in DOMAIN pc.todo \ {s} |-> pc.todo[x]]]
    BY Zenon, <1>12 DEF SyncShard
  <2>2. UNCHANGED <<wal, walIds, due, degraded>> /\ At("sync")
    BY Zenon, <1>12 DEF SyncShard, ghosts
  <2>3. /\ pc' = [at |-> "sync", todo |-> pc'.todo] /\ DOMAIN pc'.todo = DOMAIN pc.todo \ {s}
        /\ \A x \in DOMAIN pc'.todo : pc'.todo[x] = pc.todo[x]
    BY Zenon, <2>1
  <2>4. \A x \in DOMAIN pc'.todo : ServedOK(x, pc.todo[x])'
    BY Zenon, <2>2, <2>3 DEF PcInv, ServedOK
  <2> QED BY <2>2, <2>3, <2>4 DEF PcInv, At
<1>13. CASE SyncMarker
  <2>1. pc' = [at |-> "ready"] /\ UNCHANGED <<wal, walIds>> /\ due' = FALSE
    BY Zenon, <1>13 DEF SyncMarker, Go
  <2> QED BY Zenon, <2>1 DEF PcInv, At
<1>14. CASE PutFails
  <2>1. pc' = [at |-> "ready"] /\ UNCHANGED <<wal, walIds, due>>
    BY Zenon, <1>14 DEF PutFails, Go
  <2> QED BY Zenon, <2>1 DEF PcInv, At
<1>15. CASE Elapse
  BY Zenon, <1>15 DEF Elapse, PcInv, At
<1>16. CASE Crash
  <2>1. pc' = [at |-> "down"] /\ wal' = <<>> /\ walIds' = {} /\ due' = TRUE
    BY Zenon, <1>16 DEF Crash, Go
  <2>2. wal' \in Seq(Deletion) /\ Len(wal') <= MaxWal
    BY <2>1, PersistentAssumption
  <2> QED BY Zenon, <2>1, <2>2 DEF PcInv, At
<1>17. CASE UNCHANGED vars
  BY <1>17 DEF vars, ghosts, PcInv, ServedOK, At
<1> QED BY <1>1, <1>2, <1>3, <1>4, <1>5, <1>6, <1>7, <1>8, <1>9, <1>10, <1>11, <1>12, <1>13,
           <1>14, <1>15, <1>16, <1>17 DEF Next, Run

\* A put replaces one blob.
LEMMA PutStep ==
    ASSUME DiskOK(disk), NEW s, NEW blob, Put(s, blob)
    PROVE  /\ disk' = [shards |-> disk'.shards, kind10002 |-> disk.kind10002,
                       wal |-> disk.wal, marker |-> disk.marker]
           /\ disk'.kind10002 = disk.kind10002 /\ disk'.wal = disk.wal /\ disk'.marker = disk.marker
           /\ DOMAIN disk'.shards = DOMAIN disk.shards \union {s}
           /\ disk'.shards[s] = blob
           /\ \A x \in DOMAIN disk.shards \ {s} : disk'.shards[x] = disk.shards[x]
<1> DEFINE new == [x \in DOMAIN disk.shards \union {s} |-> IF x = s THEN blob ELSE disk.shards[x]]
           D == [shards |-> disk.shards, kind10002 |-> disk.kind10002,
                 wal |-> disk.wal, marker |-> disk.marker]
<1>1. disk = D /\ disk' = [disk EXCEPT !.shards = new]
  BY Zenon DEF DiskOK, Put
<1>2. /\ DOMAIN new = DOMAIN disk.shards \union {s} /\ new[s] = blob
      /\ \A x \in DOMAIN disk.shards \ {s} : new[x] = disk.shards[x]
  BY Zenon
<1> HIDE DEF new
<1>3. disk' = [shards |-> new, kind10002 |-> disk.kind10002, wal |-> disk.wal, marker |-> disk.marker]
  BY Zenon, <1>1
<1> QED BY Zenon, <1>2, <1>3

LEMMA DiskStep == ASSUME Inv, [Next]_vars PROVE DiskInv'
<1> USE DEF Inv
<1>1. DiskOK(disk)
  BY Zenon DEF DiskInv
<1>2. disk = [shards |-> disk.shards, kind10002 |-> disk.kind10002, wal |-> disk.wal, marker |-> disk.marker]
  BY Zenon DEF DiskInv, DiskOK
<1>3. CASE UNCHANGED <<disk, degraded>> /\ (pc'.at \in {"down", "migrate"} => pc'.at = "down" \/ pc' = pc)
           /\ (pc'.at \notin {"down", "migrate"} => pc.at \notin {"down", "migrate"} \/ (At("down") /\ disk.marker))
  <2>1. CASE pc'.at \notin {"down", "migrate"}
    BY Zenon, <1>3, <2>1 DEF DiskInv, At
  <2>2. CASE pc'.at = "down"
    BY Zenon, <1>3, <2>2 DEF DiskInv, At
  <2>3. CASE pc'.at = "migrate" /\ pc' = pc
    BY Zenon, <1>3, <2>3 DEF DiskInv, At
  <2> QED BY Zenon, <1>3, <2>1, <2>2, <2>3
<1>4. CASE Start
  <2>1. UNCHANGED <<disk, degraded>> /\ At("down")
    BY Zenon, <1>4 DEF Start, ghosts
  <2>2. CASE disk.marker
    BY SMTT(30), <1>3, <1>4, <2>1, <2>2 DEF Start, Go
  <2>3. CASE ~disk.marker
    <3>1. pc' = [at |-> "migrate", todo |-> Poisoned, found |-> FALSE]
      BY Zenon, <1>4, <2>3 DEF Start
    <3>2. pc'.at = "migrate" /\ pc'.todo = Poisoned
      BY Zenon, <3>1
    <3>3. \A s \in DOMAIN disk.shards \ Range(Poisoned) : Range(disk.shards[s]) \intersect Poisonous = {}
      BY Zenon, <1>1 DEF DiskOK
    <3> QED BY Zenon, <1>1, <2>1, <2>3, <3>2, <3>3 DEF DiskInv, At
  <2> QED BY Zenon, <2>2, <2>3
<1>5. CASE MigrateShard
  <2> DEFINE s == Head(pc.todo)
  <2>1. pc.todo \in Seq(Range(Poisoned)) /\ pc.todo # <<>> /\ UNCHANGED degraded /\ At("migrate")
    BY Zenon, <1>5 DEF MigrateShard, PcInv, ghosts
  <2>2. s \in Range(Poisoned) /\ Range(pc.todo) \subseteq Range(Tail(pc.todo)) \union {s}
    <3>1. \A i \in DOMAIN pc.todo : i = 1 \/ (i - 1 \in DOMAIN Tail(pc.todo) /\ pc.todo[i] = Tail(pc.todo)[i - 1])
      BY <2>1
    <3>2. s = pc.todo[1] /\ s \in Range(Poisoned)
      BY <2>1
    <3> QED BY <3>1, <3>2, ZenonT(30) DEF Range
  <2>3. s \in Shards /\ IsPersistent(s)
    BY <2>2 DEF Poisoned, Range, Shards, IsPersistent
  <2>4. pc'.at = "migrate" /\ pc'.todo = Tail(pc.todo)
    BY Zenon, <1>5 DEF MigrateShard
  <2>5. \/ UNCHANGED disk /\ (s \in DOMAIN disk.shards => disk.shards[s] = <<>>)
        \/ Put(s, <<>>)
    BY Zenon, <1>5 DEF MigrateShard
  <2>6. Range(<<>>) = {} /\ <<>> \in RecordsOf(s)
    BY DEF Range, RecordsOf
  <2> HIDE DEF s
  <2>7. CASE UNCHANGED disk /\ (s \in DOMAIN disk.shards => disk.shards[s] = <<>>)
    <3>1. ASSUME NEW x \in DOMAIN disk.shards \ Range(pc'.todo), ~degraded
          PROVE  Range(disk.shards[x]) \intersect Poisonous = {}
      <4>1. CASE x = s
        BY Zenon, <4>1, <2>6, <2>7
      <4>2. CASE x # s
        BY Zenon, <4>2, <3>1, <2>1, <2>2, <2>4 DEF DiskInv
      <4> QED BY Zenon, <4>1, <4>2
    <3> QED BY Zenon, <2>1, <2>4, <2>7, <3>1 DEF DiskInv, At
  <2>8. CASE Put(s, <<>>)
    <3>1. /\ disk' = [shards |-> disk'.shards, kind10002 |-> disk.kind10002,
                       wal |-> disk.wal, marker |-> disk.marker]
          /\ disk'.kind10002 = disk.kind10002 /\ disk'.wal = disk.wal /\ disk'.marker = disk.marker
          /\ DOMAIN disk'.shards = DOMAIN disk.shards \union {s}
          /\ disk'.shards[s] = <<>>
          /\ \A x \in DOMAIN disk.shards \ {s} : disk'.shards[x] = disk.shards[x]
      BY Zenon, <1>1, <2>8, PutStep
    <3>2. DiskOK(disk')
      BY Zenon, <1>1, <2>3, <2>6, <3>1 DEF DiskOK
    <3>3. ASSUME NEW x \in DOMAIN disk'.shards \ Range(pc'.todo), ~degraded
          PROVE  Range(disk'.shards[x]) \intersect Poisonous = {}
      <4>1. CASE x = s
        BY Zenon, <4>1, <2>6, <3>1
      <4>2. CASE x # s
        BY Zenon, <4>2, <3>1, <3>3, <2>1, <2>2, <2>4 DEF DiskInv
      <4> QED BY Zenon, <4>1, <4>2
    <3>4. ASSUME ~degraded, disk.marker PROVE Clean(disk'.shards)
      BY Zenon, <3>1, <3>4, <2>6 DEF DiskInv, Clean
    <3> QED BY Zenon, <2>1, <2>4, <3>1, <3>2, <3>3, <3>4 DEF DiskInv, At
  <2> QED BY Zenon, <2>5, <2>7, <2>8
<1>6. CASE MigrateMarker
  <2>1. /\ disk' = [disk EXCEPT !.marker = disk.marker \/ pc.found] /\ pc'.at = "hydrate"
        /\ UNCHANGED degraded /\ At("migrate") /\ pc.todo = <<>> /\ pc.found \in BOOLEAN
    BY Zenon, <1>6 DEF MigrateMarker, Go, ghosts, PcInv
  <2> DEFINE m == disk.marker \/ pc.found
  <2>2. m \in BOOLEAN
    BY Zenon
  <2> HIDE DEF m
  <2>3. disk' = [shards |-> disk.shards, kind10002 |-> disk.kind10002, wal |-> disk.wal, marker |-> m]
    BY Zenon, <1>2, <2>1 DEF m
  <2>4. DiskOK(disk')
    BY Zenon, <1>1, <2>2, <2>3 DEF DiskOK
  <2>5. Range(pc.todo) = {}
    BY <2>1 DEF Range
  <2>6. ~degraded => Clean(disk.shards)
    BY Zenon, <2>1, <2>5 DEF DiskInv, Clean
  <2>7. disk'.shards = disk.shards
    BY Zenon, <2>3
  <2> QED BY Zenon, <2>1, <2>4, <2>6, <2>7 DEF DiskInv, At
<1>7. CASE Flush
  <2>1. disk' = [disk EXCEPT !.wal = wal] /\ UNCHANGED degraded /\ At("flush") /\ pc'.at \in {"sync", "ready"}
    BY <1>7 DEF Flush, ghosts, SyncOrReturn, Go
  <2>2. disk' = [shards |-> disk.shards, kind10002 |-> disk.kind10002, wal |-> wal, marker |-> disk.marker]
    BY Zenon, <1>2, <2>1
  <2>3. DiskOK(disk')
    BY Zenon, <1>1, <2>2 DEF DiskOK, PcInv, Deletion
  <2>4. disk'.shards = disk.shards
    BY Zenon, <2>2
  <2> QED BY Zenon, <2>1, <2>3, <2>4 DEF DiskInv, At
<1>8. CASE SyncShard
  <2>1. PICK s \in DOMAIN pc.todo : Put(s, pc.todo[s])
    BY Zenon, <1>8 DEF SyncShard
  <2>2. At("sync") /\ UNCHANGED degraded /\ pc'.at = "sync"
    BY <1>8 DEF SyncShard, ghosts
  <2>3. s \in Shards /\ IsPersistent(s) /\ ServedOK(s, pc.todo[s])
    BY Zenon, <2>2 DEF PcInv
  <2>4. /\ disk' = [shards |-> disk'.shards, kind10002 |-> disk.kind10002,
                     wal |-> disk.wal, marker |-> disk.marker]
        /\ disk'.kind10002 = disk.kind10002 /\ disk'.wal = disk.wal /\ disk'.marker = disk.marker
        /\ DOMAIN disk'.shards = DOMAIN disk.shards \union {s}
        /\ disk'.shards[s] = pc.todo[s]
        /\ \A x \in DOMAIN disk.shards \ {s} : disk'.shards[x] = disk.shards[x]
    BY Zenon, <1>1, <2>1, PutStep
  <2>5. DiskOK(disk')
    BY Zenon, <1>1, <2>3, <2>4 DEF DiskOK, ServedOK
  <2>6. ~degraded => Clean(disk'.shards)
    BY Zenon, <2>2, <2>3, <2>4 DEF DiskInv, Clean, ServedOK, At
  <2> QED BY Zenon, <2>2, <2>5, <2>6 DEF DiskInv, At
<1>9. CASE SyncMarker
  <2>1. disk' = [disk EXCEPT !.marker = TRUE] /\ UNCHANGED degraded /\ At("sync") /\ pc'.at = "ready"
    BY Zenon, <1>9 DEF SyncMarker, ghosts, Go
  <2>2. disk' = [shards |-> disk.shards, kind10002 |-> disk.kind10002, wal |-> disk.wal, marker |-> TRUE]
    BY <1>2, <2>1, Zenon
  <2>3. DiskOK(disk')
    BY Zenon, <1>1, <2>2 DEF DiskOK
  <2>4. disk'.shards = disk.shards
    BY Zenon, <2>2
  <2> QED BY Zenon, <2>1, <2>3, <2>4 DEF DiskInv, At
<1>10. CASE InitializeFails
  BY Zenon, <1>10 DEF InitializeFails, DiskInv
<1>11. CASE Hydrate \/ IndexRecord \/ LoadTombstones \/ Initialized
  <2>1. UNCHANGED <<disk, degraded>>
    BY Zenon, <1>11 DEF Hydrate, IndexRecord, LoadTombstones, Initialized, ghosts
  <2>2. pc.at \in {"hydrate", "index", "replay"}
    BY <1>11, Zenon DEF Hydrate, IndexRecord, LoadTombstones, Indexed, Initialized, At
  <2>3. CASE Hydrate \/ LoadTombstones \/ Initialized
    BY <1>3, <2>1, <2>2, <2>3 DEF Hydrate, LoadTombstones, Initialized, Go
  <2>4. CASE IndexRecord
    <3>1. pc'.at = "index"
      BY Zenon, <2>4, IndexRecordPc
    <3> QED BY Zenon, <1>3, <2>1, <2>2, <3>1
  <2> QED BY Zenon, <1>11, <2>3, <2>4
<1>12. CASE ReplayEntry
  <2>1. pc'.at = "replay" /\ At("replay") /\ UNCHANGED <<disk, degraded>>
    BY Zenon, <1>12, PcStep DEF ReplayEntry, PcInv, At
  <2> QED BY Zenon, <1>3, <2>1 DEF At
<1>13. ASSUME NEW e \in Incoming, Persist(e) PROVE DiskInv'
  BY <1>3, <1>13 DEF Persist, SyncOrReturn, Go, At
<1>14. CASE PutFails \/ Elapse \/ Crash
  BY <1>3, <1>14 DEF PutFails, Elapse, Crash, Go, At, ghosts
<1>15. CASE UNCHANGED vars
  BY Zenon, <1>3, <1>15 DEF vars, ghosts, DiskInv, At
<1> QED BY <1>4, <1>5, <1>6, <1>7, <1>8, <1>9, <1>10, <1>11, <1>12, <1>13, <1>14, <1>15 DEF Next, Run

LEMMA WalStep == ASSUME Inv, [Next]_vars PROVE WalInv'
<1> USE DEF Inv
<1>1. CASE /\ UNCHANGED <<wal, degraded>> /\ disk'.wal = disk.wal /\ applied \subseteq applied'
           /\ pc'.at # "replay"
           /\ pc'.at \in {"ready", "flush", "sync"} => pc.at \in {"ready", "flush", "sync"}
  BY Zenon, <1>1 DEF WalInv, At
<1>2. CASE UNCHANGED vars
  BY Zenon, <1>2 DEF vars, ghosts, WalInv, At
<1>3. CASE Start \/ Hydrate \/ Crash
  <2>1. pc'.at \notin {"replay", "ready", "flush", "sync"}
    BY SMTT(30), <1>3 DEF Start, Hydrate, Crash, Go
  <2> QED BY Zenon, <2>1 DEF WalInv, At
<1>4. CASE MigrateShard \/ MigrateMarker \/ IndexRecord
  <2>1. pc'.at \in {"migrate", "hydrate", "index"}
    <3>1. CASE MigrateShard
      BY Zenon, <3>1 DEF MigrateShard
    <3>2. CASE MigrateMarker
      BY Zenon, <3>2 DEF MigrateMarker, Go
    <3>3. CASE IndexRecord
      BY Zenon, <3>3, IndexRecordPc
    <3> QED BY Zenon, <1>4, <3>1, <3>2, <3>3
  <2> QED BY Zenon, <2>1 DEF WalInv, At
<1>5. CASE LoadTombstones
  <2>1. /\ wal' = disk.wal /\ pc'.todo = disk.wal /\ pc'.at = "replay" /\ disk' = disk
    BY Zenon, <1>5 DEF LoadTombstones
  <2> QED BY Zenon, <2>1 DEF WalInv, At
<1>6. CASE ReplayEntry
  <2>1. pc = [at |-> "replay", todo |-> pc.todo] /\ pc.todo \in Seq(Deletion) /\ pc.todo # <<>>
    BY <1>6 DEF ReplayEntry, PcInv, At
  <2>2. /\ pc' = [pc EXCEPT !.todo = Tail(pc.todo)] /\ UNCHANGED <<wal, disk, degraded>>
        /\ applied' = applied \union {Head(pc.todo)}
    BY Zenon, <1>6 DEF ReplayEntry
  <2>3. pc'.at = "replay" /\ pc'.todo = Tail(pc.todo)
    BY <2>1, <2>2
  <2>4. Range(pc.todo) \subseteq Range(Tail(pc.todo)) \union {Head(pc.todo)}
    <3>1. \A i \in DOMAIN pc.todo : i = 1 \/ (i - 1 \in DOMAIN Tail(pc.todo) /\ pc.todo[i] = Tail(pc.todo)[i - 1])
      BY <2>1
    <3>2. Head(pc.todo) = pc.todo[1]
      BY <2>1
    <3> QED BY <3>1, <3>2, Zenon DEF Range
  <2>5. pc.at = "replay"
    BY Zenon, <1>6 DEF ReplayEntry, At
  <2> QED BY <2>2, <2>3, <2>4, <2>5 DEF WalInv, At
<1>7. CASE Initialized
  <2>1. pc'.at = "ready" /\ UNCHANGED <<wal, disk, degraded, applied>> /\ At("replay") /\ pc.todo = <<>>
    BY Zenon, <1>7 DEF Initialized, Go, ghosts
  <2>2. Range(pc.todo) = {}
    BY <2>1 DEF Range
  <2> QED BY Zenon, <2>1, <2>2 DEF WalInv, At
<1>8. CASE InitializeFails
  BY Zenon, <1>8 DEF InitializeFails, WalInv
<1>9. ASSUME NEW e \in Incoming, Persist(e) PROVE WalInv'
  <2>1. UNCHANGED <<disk, degraded>> /\ applied \subseteq applied' /\ At("ready")
    BY Zenon, <1>9 DEF Persist
  <2>2. pc'.at \in {"flush", "sync", "ready"}
    BY <1>9 DEF Persist, SyncOrReturn, Go
  <2>3. CASE Kind(e) = EVENT_DELETION /\ e \notin walIds
    <3>1. wal' = Compact(Append(wal, e)) /\ applied' = applied \union {e}
      BY Zenon, <1>9, <2>3 DEF Persist
    <3>2. e \in Deletion
      BY Zenon, <2>3, PersistentAssumption DEF Deletion
    <3>3. Range(wal') \subseteq Range(wal) \union {e}
      BY Zenon, <3>1, <3>2, CompactOK DEF PcInv
    <3> QED BY Zenon, <2>1, <2>2, <3>1, <3>3 DEF WalInv, At
  <2>4. CASE ~(Kind(e) = EVENT_DELETION /\ e \notin walIds)
    <3>1. wal' = wal
      BY Zenon, <1>9, <2>4 DEF Persist
    <3> QED BY Zenon, <1>1, <2>1, <2>2, <3>1 DEF At
  <2> QED BY Zenon, <2>3, <2>4
<1>10. CASE Flush
  <2>1. disk' = [disk EXCEPT !.wal = wal] /\ UNCHANGED <<wal, degraded, applied>> /\ At("flush")
    BY Zenon, <1>10 DEF Flush, ghosts
  <2>2. disk = [shards |-> disk.shards, kind10002 |-> disk.kind10002, wal |-> disk.wal, marker |-> disk.marker]
    BY Zenon DEF DiskInv, DiskOK
  <2>3. disk'.wal = wal
    BY Zenon, <2>1, <2>2
  <2>4. pc'.at \in {"sync", "ready"}
    BY <1>10 DEF Flush, SyncOrReturn, Go
  <2> QED BY Zenon, <2>1, <2>3, <2>4 DEF WalInv, At
<1>11. CASE SyncShard
  <2>1. PICK s \in DOMAIN pc.todo : Put(s, pc.todo[s])
    BY Zenon, <1>11 DEF SyncShard
  <2>2. disk'.wal = disk.wal
    BY Zenon, <2>1, PutStep DEF DiskInv
  <2>3. UNCHANGED <<wal, degraded, applied>> /\ At("sync") /\ pc'.at = "sync"
    BY <1>11 DEF SyncShard, ghosts
  <2> QED BY Zenon, <1>1, <2>2, <2>3 DEF At
<1>12. CASE SyncMarker
  <2>1. disk' = [disk EXCEPT !.marker = TRUE] /\ UNCHANGED <<wal, degraded, applied>> /\ At("sync") /\ pc'.at = "ready"
    BY Zenon, <1>12 DEF SyncMarker, ghosts, Go
  <2>2. disk = [shards |-> disk.shards, kind10002 |-> disk.kind10002, wal |-> disk.wal, marker |-> disk.marker]
    BY Zenon DEF DiskInv, DiskOK
  <2>3. disk'.wal = disk.wal
    BY Zenon, <2>1, <2>2
  <2> QED BY Zenon, <1>1, <2>1, <2>3 DEF At
<1>13. CASE PutFails
  BY Zenon, <1>1, <1>13 DEF PutFails, Go, At
<1>14. CASE Elapse
  BY Zenon, <1>1, <1>14 DEF Elapse, At, ghosts
<1> QED BY <1>2, <1>3, <1>4, <1>5, <1>6, <1>7, <1>8, <1>9, <1>10, <1>11, <1>12, <1>13, <1>14 DEF Next, Run

LEMMA InitInv == ASSUME Init PROVE Inv
<1> USE DEF Init, EmptyStore
<1>1. RingsOK(rings) /\ \A s \in Shards : rings[s].buf = <<>>
  BY EmptyOK, Zenon
<1>2. IndexOK(rings, byId, nextKey, postings, tomb, applied)
  BY Zenon, EmptyOK
<1>3. Range(<<>>) = {} /\ \A s \in Shards : <<>> \in RecordsOf(s)
  BY DEF Range, RecordsOf
<1>4. RingsInv
  BY <1>1, <1>3, Zenon DEF RingsInv, ServedOK, Shards
<1>5. IndexInv
  BY Zenon, <1>2 DEF IndexInv, CursorOK, At
<1>6. PcInv
  BY PersistentAssumption DEF PcInv, At
<1>7. DiskInv
  BY Zenon, PersistentAssumption DEF DiskInv, At
<1>8. WalInv
  BY Zenon DEF WalInv, At
<1> QED BY Zenon, <1>4, <1>5, <1>6, <1>7, <1>8 DEF Inv

\* The invariant holds in every state of every behaviour.
THEOREM StorageInvariant == Spec => []Inv
<1>1. Init => Inv
  BY Zenon, InitInv
<1>2. Inv /\ [Next]_vars => Inv'
  BY Zenon, RingsStep, IndexInvStep, PcStep, DiskStep, WalStep DEF Inv
<1> QED BY <1>1, <1>2, PTL DEF Spec

-----------------------------------------------------------------------------
\* A record's offset reads back its own event for as long as it is in the ring,
\* and no two events share a key, after any evictions, second copies, rebuilds.
THEOREM IndexesSound == Spec => []IndexSound
<1>1. Inv => IndexSound
  <2> SUFFICES ASSUME Inv PROVE IndexSound
    BY Zenon
  <2>1. ASSUME NEW x \in DOMAIN byId, ContainsOffset(byId[x].off) PROVE EventAt(byId[x].off) = x
    BY <2>1, Zenon DEF Inv, IndexInv, IndexOK, RecordsOK, PointsTo, ContainsOffset, EventAt
  <2> QED BY Zenon, <2>1 DEF IndexSound, Inv, IndexInv, IndexOK, RecordsOK
<1> QED BY <1>1, StorageInvariant, PTL

\* Only a processed deletion of its own author hides an event from queries.
THEOREM DeletionsSound == Spec => []DeletionSound
<1>1. Inv => DeletionSound
  BY Zenon DEF Inv, IndexInv, IndexOK, TombOK, DeletionSound, Hidden, Deletion
<1> QED BY <1>1, StorageInvariant, PTL

\* A processed deletion hides what it covers, whichever arrives first.
THEOREM DeletionsComplete == Spec => []DeletionComplete
<1>1. Inv => DeletionComplete
  <2> SUFFICES ASSUME Inv, NEW x \in DOMAIN byId, Deleted(x, applied) PROVE Hidden(x)
    BY Zenon DEF DeletionComplete
  <2>1. PICK d \in applied : (CoversById(d, x) /\ ~Contested(x)) \/ (CoversByAddress(d, x) /\ Addressable(x))
    BY Zenon DEF Deleted
  <2>2. Contested(x) <=> DisputedIn(x, applied)
    BY Zenon DEF Contested, DisputedIn
  <2> QED BY Zenon, <2>1, <2>2 DEF Inv, IndexInv, IndexOK, TombOK, Hidden
<1> QED BY <1>1, StorageInvariant, PTL

\* Deletions hide exactly what they may (process_deletion_tags,
\* apply_tombstones_to_event): the two halves together.
THEOREM DeletionsExact == Spec => []DeletionExact
<1>1. DeletionSound /\ DeletionComplete => DeletionExact
  BY Zenon DEF DeletionExact
<1> QED BY <1>1, DeletionsSound, DeletionsComplete, PTL

\* A deletion in the WAL blob is in force after any number of crashes.
THEOREM DeletionsDurable == Spec => []DeletionDurable
<1>1. Inv /\ DeletionComplete => DeletionDurable
  <2> SUFFICES ASSUME Inv, DeletionComplete, At("ready"), ~degraded,
                      NEW x \in DOMAIN byId, Deleted(x, Range(disk.wal))
               PROVE  Hidden(x)
    BY Zenon DEF DeletionDurable
  <2>1. Range(disk.wal) \subseteq applied
    BY Zenon DEF Inv, WalInv, At
  <2>2. Deleted(x, applied)
    BY Zenon, <2>1 DEF Deleted
  <2> QED BY Zenon, <2>2 DEF DeletionComplete
<1> QED BY <1>1, StorageInvariant, DeletionsComplete, PTL

\* Ephemeral events are gone with the session that stored them.
THEOREM EphemeralsForgotten == Spec => []EphemeralForgotten
<1>1. Inv => EphemeralForgotten
  <2> SUFFICES ASSUME Inv, NEW e \in Cached, Shard(Kind(e)) = "ephemeral" PROVE e \in session
    BY Zenon DEF EphemeralForgotten
  <2>1. PICK s \in Shards : e \in {rings[s].buf[i] : i \in DOMAIN rings[s].buf}
    BY Zenon DEF Cached
  <2>2. PICK i \in DOMAIN rings[s].buf : e = rings[s].buf[i]
    BY Zenon, <2>1
  <2>3. rings[s].buf \in Seq({x \in Event : Shard(Kind(x)) = s})
    BY Zenon DEF Inv, RingsInv, RingsOK, RecordsOf
  <2>4. Shard(Kind(e)) = s
    BY <2>2, <2>3
  <2>5. e \in Range(rings["ephemeral"].buf)
    BY Zenon, <2>2, <2>4 DEF Range
  <2> QED BY Zenon, <2>5 DEF Inv, RingsInv
<1> QED BY <1>1, StorageInvariant, PTL

\* A poisoned event is never served once a start has cleared the caches.
THEOREM PoisonsGone == Spec => []PoisonGone
<1>1. Inv => PoisonGone
  <2> SUFFICES ASSUME Inv, ~degraded, NEW e \in Cached, e \in Poisonous PROVE FALSE
    BY Zenon DEF PoisonGone
  <2>1. PICK s \in Shards : e \in {rings[s].buf[i] : i \in DOMAIN rings[s].buf}
    BY Zenon DEF Cached
  <2>2. e \in Range(rings[s].buf)
    BY Zenon, <2>1 DEF Range
  <2> QED BY Zenon, <2>2 DEF Inv, RingsInv, ServedOK
<1> QED BY <1>1, StorageInvariant, PTL

\* Every variable keeps its type.
THEOREM StorageTypes == Spec => []TypeOK
<1>1. Inv => TypeOK
  <2> SUFFICES ASSUME Inv PROVE TypeOK
    BY Zenon
  <2>1. \A s \in Shards : rings[s].head \in Nat /\ rings[s].buf \in RecordsOf(s)
    BY Zenon DEF Inv, RingsInv, RingsOK
  <2>2. /\ DOMAIN byId \subseteq Event /\ nextKey \in Nat
        /\ \A x \in DOMAIN byId :
             byId[x].key \in Nat /\ byId[x].off \in Shards \X Nat /\ byId[x].created = Created(x)
    BY Zenon DEF Inv, IndexInv, IndexOK, RecordsOK, PointsTo
  <2>3. tomb.keys \subseteq Nat /\ DOMAIN tomb.pending \subseteq Event /\ applied \subseteq Event
    BY Zenon DEF Inv, IndexInv, IndexOK, TombOK, Deletion
  <2>4. wal \in Seq(Event) /\ Len(wal) <= MaxWal /\ walIds \subseteq Event /\ due \in BOOLEAN
    <3>1. wal \in Seq(Deletion) /\ Len(wal) <= MaxWal /\ walIds \subseteq Event /\ due \in BOOLEAN
      BY Zenon DEF Inv, PcInv
    <3>2. \A i \in 1..Len(wal) : wal[i] \in Event
      BY <3>1 DEF Deletion
    <3> QED BY <3>1, <3>2
  <2>5. pc.at \in {"down", "migrate", "hydrate", "index", "replay", "ready", "flush", "sync"}
    BY DEF Inv, PcInv
  <2> QED BY Zenon, <2>1, <2>2, <2>3, <2>4, <2>5 DEF TypeOK, Inv, RingsInv, DiskInv
<1> QED BY <1>1, StorageInvariant, PTL

-----------------------------------------------------------------------------
(* Queries.  The invariant says that what is indexed can be read back; that *)
(* everything in the rings is indexed is a second one, on top of it.        *)
\* The first n events of a shard each have a record, of that copy or a later one.
Listed(R, ids, s, n) ==
    \A i \in 1..n : LET x == R[s].buf[i]
                    IN  /\ x \in DOMAIN ids /\ ids[x].off[1] = s
                        /\ R[s].head + i - 1 <= ids[x].off[2]

\* The rings are empty until they are loaded, indexed up to the cursor of the
\* rebuild while it runs, and indexed whole from then on.
CoverInv ==
    /\ pc.at \in {"down", "migrate", "hydrate"} => \A s \in Shards : rings[s].buf = <<>>
    /\ At("index") => \A s \in Shards : Listed(rings, byId, s, pc.done[s])
    /\ pc.at \notin {"down", "migrate", "hydrate", "index"} =>
         \A s \in Shards : Listed(rings, byId, s, Len(rings[s].buf))

\* Once the cursor has passed every record, the rings are indexed whole.
LEMMA IndexedWhole ==
    ASSUME Inv, CoverInv, Indexed, NEW s \in Shards
    PROVE  Listed(rings, byId, s, Len(rings[s].buf))
<1>1. /\ pc.done[s] \in Nat /\ pc.done[s] <= Len(rings[s].buf) /\ ~ToIndex(s)
      /\ Listed(rings, byId, s, pc.done[s])
  BY Zenon DEF Inv, IndexInv, CursorOK, CoverInv, Indexed, At
<1>2. Len(rings[s].buf) \in Nat
  BY DEF Inv, RingsInv, RingsOK, RecordsOf
<1>3. pc.done[s] = Len(rings[s].buf)
  BY <1>1, <1>2 DEF ToIndex
<1> QED BY Zenon, <1>1, <1>3

\* Indexing the event at an offset of its shard keeps what is listed so far, and
\* lists that event.
LEMMA IndexKeepsListed ==
    ASSUME NEW R, NEW ids, NEW n, NEW s \in Shards, NEW m \in Nat, Listed(R, ids, s, m),
           R[s].head \in Nat, NEW e, NEW t \in Shards, NEW o \in Nat,
           \A i \in 1..m : R[s].buf[i] = e => s = t /\ R[s].head + i - 1 <= o
    PROVE  Listed(R, IdsAfter(ids, n, e, <<t, o>>), s, m)
<1> DEFINE new == IdsAfter(ids, n, e, <<t, o>>)
<1>1. /\ DOMAIN new = DOMAIN ids \union {e}
      /\ new[e].off = <<t, o>>
      /\ \A x \in DOMAIN ids \ {e} : new[x] = ids[x]
  BY Zenon DEF IdsAfter
<1> HIDE DEF new
<1>2. ASSUME NEW i \in 1..m
      PROVE  LET x == R[s].buf[i]
             IN  x \in DOMAIN new /\ new[x].off[1] = s /\ R[s].head + i - 1 <= new[x].off[2]
  <2> DEFINE x == R[s].buf[i]
  <2>1. x \in DOMAIN ids /\ ids[x].off[1] = s /\ R[s].head + i - 1 <= ids[x].off[2]
    BY Zenon DEF Listed
  <2>2. CASE x = e
    <3>1. s = t /\ R[s].head + i - 1 <= o
      BY Zenon, <2>2
    <3>2. new[x].off = <<t, o>>
      BY Zenon, <1>1, <2>2
    <3>3. new[x].off[1] = t /\ new[x].off[2] = o
      BY SMTT(30), <3>2
    <3> QED BY Zenon, <1>1, <2>2, <3>1, <3>3
  <2>3. CASE x # e
    BY Zenon, <1>1, <2>1, <2>3
  <2> QED BY Zenon, <2>2, <2>3
<1> QED BY Zenon, <1>2 DEF Listed, new

LEMMA CoverStep == ASSUME Inv, CoverInv, [Next]_vars PROVE CoverInv'
<1> USE DEF Inv
<1>1. CASE Quiet
  <2>1. UNCHANGED storeVars
    BY Zenon, <1>1, QuietStep
  <2>2. /\ pc'.at # "index"
        /\ pc'.at \in {"down", "migrate", "hydrate"} => pc.at \in {"down", "migrate", "hydrate"}
        /\ pc'.at \notin {"down", "migrate", "hydrate"} =>
             pc.at \notin {"down", "migrate", "hydrate", "index"} \/ Indexed
    BY Zenon, <1>1, QuietPc
  <2>3. ASSUME Indexed, NEW s \in Shards PROVE Listed(rings, byId, s, Len(rings[s].buf))
    BY Zenon, <2>3, IndexedWhole
  <2> QED BY Zenon, <2>1, <2>2, <2>3 DEF CoverInv, At, storeVars
<1>2. CASE UNCHANGED vars
  BY Zenon, <1>2 DEF CoverInv, At, vars, storeVars
<1>3. CASE Start \/ Crash
  <2>1. rings' = EmptyRings /\ pc'.at \in {"down", "migrate", "hydrate"}
    BY <1>3 DEF Start, Crash, Clear, Go
  <2>2. \A s \in Shards : EmptyRings[s].buf = <<>>
    BY Zenon, EmptyOK
  <2> QED BY Zenon, <2>1, <2>2 DEF CoverInv, At
<1>4. CASE Hydrate
  <2>1. pc'.at = "index" /\ \A s \in Shards : pc'.done[s] = 0
    BY <1>4 DEF Hydrate
  <2>2. ASSUME NEW s \in Shards PROVE Listed(rings', byId', s, pc'.done[s])
    <3>1. \A i \in 1..0 : FALSE
      OBVIOUS
    <3> QED BY Zenon, <2>1, <3>1 DEF Listed
  <2> QED BY Zenon, <2>1, <2>2 DEF CoverInv, At
<1>5. CASE IndexRecord
  <2>1. PICK s \in Shards : LET off == <<s, pc.done[s]>>
                            IN  /\ NextShard(s)
                                /\ IndexEvent(EventAt(off), off)
                                /\ pc' = [at |-> "index", done |-> [pc.done EXCEPT ![s] = @ + 1]]
    BY <1>5, Zenon DEF IndexRecord
  <2> DEFINE o == pc.done[s]
             e == rings[s].buf[o + 1]
  <2>2. o < Len(rings[s].buf) /\ rings' = rings /\ At("index")
    BY <1>5, <2>1 DEF IndexRecord, NextShard, ToIndex
  <2>3. /\ pc.done \in [Shards -> Nat] /\ o \in Nat
        /\ \A x \in Shards : rings[x].head = 0 /\ pc.done[x] <= Len(rings[x].buf) /\ pc.done[x] \in Nat
    BY Zenon, <2>2 DEF IndexInv, CursorOK
  <2>4. \A x \in Shards : /\ Len(rings[x].buf) \in Nat
                          /\ \A i \in 1..Len(rings[x].buf) : Shard(Kind(rings[x].buf[i])) = x
    BY Zenon, RecordShard DEF RingsInv
  <2>5. EventAt(<<s, o>>) = e
    <3>1. o - 0 + 1 = o + 1
      BY <2>3
    <3> QED BY Zenon, <2>3, <3>1 DEF EventAt
  <2>6. byId' = IdsAfter(byId, nextKey, e, <<s, o>>)
    BY Zenon, <2>1, <2>5 DEF IndexEvent, IdsAfter, KeyFor
  <2>7. Shard(Kind(e)) = s
    <3>1. o + 1 \in 1..Len(rings[s].buf)
      BY SMTT(30), <2>2, <2>3, <2>4
    <3> QED BY Zenon, <2>4, <3>1
  <2> HIDE DEF e, o
  <2>8. /\ pc'.at = "index" /\ pc'.done[s] = o + 1
        /\ \A x \in Shards \ {s} : pc'.done[x] = pc.done[x]
    BY <2>1, <2>3 DEF o
  <2>9. ASSUME NEW x \in Shards PROVE Listed(rings', byId', x, pc.done[x])
    <3>1. Listed(rings, byId, x, pc.done[x])
      BY Zenon, <2>2 DEF CoverInv
    <3>2. ASSUME NEW i \in 1..pc.done[x], rings[x].buf[i] = e PROVE x = s /\ rings[x].head + i - 1 <= o
      <4>1. i \in 1..Len(rings[x].buf)
        BY SMTT(30), <2>3, <2>4
      <4>2. x = s
        BY Zenon, <4>1, <3>2, <2>4, <2>7
      <4> QED BY <4>2, <2>3 DEF o
    <3>3. pc.done[x] \in Nat /\ rings[x].head \in Nat
      BY <2>3
    <3> QED BY Zenon, <3>1, <3>2, <3>3, <2>2, <2>3, <2>6, IndexKeepsListed
  <2>10. Listed(rings', byId', s, o + 1)
    <3>1. ASSUME NEW i \in 1..(o + 1), i \notin 1..o PROVE i = o + 1
      BY <3>1, <2>3
    <3>2. e \in DOMAIN byId' /\ byId'[e].off = <<s, o>>
      BY Zenon, <2>6 DEF IdsAfter
    <3>3. byId'[e].off[1] = s /\ byId'[e].off[2] = o
      BY <3>2
    <3>4. rings[s].head + (o + 1) - 1 <= o
      BY <2>3
    <3>5. rings[s].buf[o + 1] = e
      BY Zenon DEF e
    <3>6. Listed(rings', byId', s, o)
      BY Zenon, <2>9 DEF o
    <3> QED BY Zenon, <3>1, <3>2, <3>3, <3>4, <3>5, <3>6, <2>2 DEF Listed
  <2>11. ASSUME NEW x \in Shards PROVE Listed(rings', byId', x, pc'.done[x])
    BY Zenon, <2>8, <2>9, <2>10
  <2> QED BY Zenon, <2>8, <2>11 DEF CoverInv, At
<1>6. CASE ReplayEntry
  <2>1. UNCHANGED <<rings, byId>> /\ pc.at = "replay" /\ pc'.at = "replay"
    BY Zenon, <1>6 DEF ReplayEntry, At, PcInv
  <2> QED BY Zenon, <2>1 DEF CoverInv, At
<1>7. CASE InitializeFails
  <2>1. UNCHANGED storeVars /\ pc'.at = "ready"
    BY Zenon, <1>7 DEF InitializeFails, Go
  <2>2. ASSUME NEW s \in Shards PROVE Listed(rings, byId, s, Len(rings[s].buf))
    <3>1. CASE At("migrate") \/ At("hydrate")
      <4>1. rings[s].buf = <<>>
        BY Zenon, <3>1 DEF CoverInv, At
      <4>2. Len(<<>>) = 0 /\ \A i \in 1..0 : FALSE
        OBVIOUS
      <4> QED BY Zenon, <4>1, <4>2 DEF Listed
    <3>2. CASE Indexed
      BY Zenon, <3>2, IndexedWhole
    <3> QED BY Zenon, <1>7, <3>1, <3>2 DEF InitializeFails
  <2>3. pc'.at \notin {"down", "migrate", "hydrate", "index"}
    BY <2>1
  <2> QED BY Zenon, <2>1, <2>2, <2>3 DEF CoverInv, At, storeVars
<1>8. ASSUME NEW e \in Incoming, Persist(e) PROVE CoverInv'
  <2> DEFINE s == Shard(Kind(e))
  <2>1. e \in Event /\ s \in Shards
    BY Zenon, PersistentAssumption, EventAssumption, ShardType
  <2>2. PICK k \in 0..Len(rings[s].buf) :
          LET r == Appended(rings[s], e, k)
          IN  /\ rings' = [rings EXCEPT ![s] = r]
              /\ IndexEvent(e, <<s, r.head + Len(r.buf) - 1>>)
    BY <1>8, Zenon DEF Persist, AddEvent
  <2> DEFINE r == rings[s]
             q == Appended(r, e, k)
             o == q.head + Len(q.buf) - 1
  <2>3. /\ r = [head |-> r.head, buf |-> r.buf] /\ r.head \in Nat /\ r.buf \in RecordsOf(s)
        /\ Len(r.buf) \in Nat
    BY SMTT(30), <2>1 DEF RingsInv, RingsOK, RecordsOf
  <2>4. rings'[s] = q /\ \A x \in Shards \ {s} : rings'[x] = rings[x]
    BY Zenon, <2>1, <2>2 DEF RingsInv, RingsOK
  <2>5. byId' = IdsAfter(byId, nextKey, e, <<s, o>>)
    BY Zenon, <2>2 DEF IndexEvent, IdsAfter, KeyFor
  <2>6. k \in Nat /\ k <= Len(r.buf)
    BY <2>2, <2>3
  <2>7. /\ q.head = r.head + k /\ Len(q.buf) = Len(r.buf) - k + 1
        /\ q.buf[Len(r.buf) - k + 1] = e
        /\ \A i \in 1..(Len(r.buf) - k) : q.buf[i] = r.buf[k + i]
    <3>1. q.head = r.head + k /\ q.buf = Append(SubSeq(r.buf, k + 1, Len(r.buf)), e)
      BY Zenon DEF Appended
    <3> DEFINE b == r.buf
               S == {x \in Event : Shard(Kind(x)) = s}
    <3>2. b \in Seq(S) /\ e \in S
      BY Zenon, <2>1, <2>3 DEF RecordsOf
    <3>3. k \in 0..Len(b)
      BY Zenon
    <3> HIDE DEF b, S, q, r, s
    <3>4. /\ Len(Append(SubSeq(b, k + 1, Len(b)), e)) = Len(b) - k + 1
          /\ Append(SubSeq(b, k + 1, Len(b)), e)[Len(b) - k + 1] = e
          /\ \A i \in 1..(Len(b) - k) : Append(SubSeq(b, k + 1, Len(b)), e)[i] = b[k + i]
      BY <3>2, <3>3, TailAppend
    <3> QED BY Zenon, <3>1, <3>4 DEF b
  <2> HIDE DEF s, q, r
  <2>8. o = r.head + Len(r.buf) /\ o \in Nat /\ q.head \in Nat
    BY SMTT(30), <2>3, <2>6, <2>7
  <2> HIDE DEF o
  <2>9. pc.at \notin {"down", "migrate", "hydrate", "index"} /\ pc'.at \in {"flush", "sync", "ready"}
    BY <1>8 DEF Persist, SyncOrReturn, Go, At
  <2>10. ASSUME NEW x \in Shards, x # s PROVE Listed(rings', byId', x, Len(rings'[x].buf))
    <3>1. Listed(rings', byId, x, Len(rings'[x].buf))
      BY ZenonT(30), <2>4, <2>9, <2>10 DEF CoverInv, Listed
    <3>2. /\ rings'[x].head \in Nat /\ Len(rings'[x].buf) \in Nat
          /\ \A i \in 1..Len(rings'[x].buf) : Shard(Kind(rings'[x].buf[i])) = x
      <4>1. /\ rings[x].head \in Nat /\ Len(rings[x].buf) \in Nat
            /\ \A i \in 1..Len(rings[x].buf) : Shard(Kind(rings[x].buf[i])) = x
        <5>1. RingsOK(rings)
          BY Zenon DEF RingsInv
        <5>2. rings[x].head \in Nat
          BY Zenon, <5>1 DEF RingsOK
        <5> QED BY Zenon, <5>1, <5>2, RecordShard
      <4>2. rings'[x] = rings[x]
        BY Zenon, <2>4, <2>10
      <4> QED BY Zenon, <4>1, <4>2
    <3>3. ASSUME NEW i \in 1..Len(rings'[x].buf), rings'[x].buf[i] = e PROVE FALSE
      BY Zenon, <3>2, <3>3, <2>10 DEF s
    <3> QED BY Zenon, <3>1, <3>2, <3>3, <2>1, <2>5, <2>8, IndexKeepsListed DEF s
  <2>11. Listed(rings', byId', s, Len(rings'[s].buf))
    <3> DEFINE m == Len(r.buf) - k
    <3>1. m \in Nat /\ Len(rings'[s].buf) = m + 1
      BY <2>3, <2>4, <2>6, <2>7
    <3>2. Listed(rings, byId, s, Len(r.buf))
      BY Zenon, <2>1, <2>9 DEF CoverInv, s, r
    <3>3. Listed(rings', byId, s, m)
      <4>1. ASSUME NEW i \in 1..m
            PROVE  /\ k + i \in 1..Len(r.buf)
                   /\ rings'[s].head + i - 1 = r.head + (k + i) - 1
        BY <2>3, <2>4, <2>6, <2>7
      <4>2. \A i \in 1..m : rings'[s].buf[i] = r.buf[k + i]
        BY Zenon, <2>4, <2>7
      <4>3. ASSUME NEW i \in 1..m
            PROVE  LET x == rings'[s].buf[i]
                   IN  x \in DOMAIN byId /\ byId[x].off[1] = s /\ rings'[s].head + i - 1 <= byId[x].off[2]
        <5> DEFINE j == k + i
        <5>1. j \in 1..Len(r.buf) /\ rings'[s].head + i - 1 = r.head + j - 1 /\ rings'[s].buf[i] = r.buf[j]
          BY Zenon, <4>1, <4>2
        <5> HIDE DEF j
        <5> QED BY Zenon, <3>2, <5>1 DEF Listed, r
      <4> HIDE DEF m
      <4> QED BY Zenon, <4>3 DEF Listed
    <3>4. \A i \in 1..m : rings'[s].head + i - 1 <= o
      BY <2>3, <2>4, <2>6, <2>7, <2>8
    <3>5. rings'[s].head \in Nat
      BY Zenon, <2>4, <2>8
    <3>6. Listed(rings', byId', s, m)
      BY Zenon, <3>1, <3>3, <3>4, <3>5, <2>1, <2>5, <2>8, IndexKeepsListed DEF s
    <3>7. ASSUME NEW i \in 1..(m + 1), i \notin 1..m PROVE i = m + 1
      BY <3>1, <3>7
    <3>8. e \in DOMAIN byId' /\ byId'[e].off = <<s, o>>
      BY Zenon, <2>5 DEF IdsAfter
    <3>9. byId'[e].off[1] = s /\ byId'[e].off[2] = o
      BY <3>8
    <3>10. rings'[s].head + (m + 1) - 1 <= o
      BY <2>3, <2>4, <2>6, <2>7, <2>8
    <3>11. rings'[s].buf[m + 1] = e
      BY Zenon, <2>4, <2>7
    <3> HIDE DEF m
    <3> QED BY Zenon, <3>1, <3>6, <3>7, <3>8, <3>9, <3>10, <3>11 DEF Listed
  <2>12. pc'.at \notin {"down", "migrate", "hydrate", "index"}
    BY <2>9
  <2> QED BY Zenon, <2>10, <2>11, <2>12 DEF CoverInv, At
<1> QED BY Zenon, <1>1, <1>2, <1>3, <1>4, <1>5, <1>6, <1>7, <1>8, NextCases

\* Every event in a ring is reachable through the indexes once the start has
\* indexed its shard, through evictions, second copies, failed starts and
\* crashes: nothing the database holds is lost to queries.
THEOREM RecordsComplete == Spec => []CoverInv
<1>1. Init => CoverInv
  <2>1. \A s \in Shards : EmptyRings[s].buf = <<>>
    BY Zenon, EmptyOK
  <2> QED BY <2>1 DEF Init, EmptyStore, CoverInv, At
<1>2. Inv /\ CoverInv /\ [Next]_vars => CoverInv'
  BY Zenon, CoverStep
<1> QED BY <1>1, <1>2, StorageInvariant, PTL DEF Spec

\* A record whose event is in a ring can be read through its offset.
LEMMA CachedIsReadable ==
    ASSUME Inv, CoverInv, At("ready")
    PROVE  \A x : x \in Cached <=> x \in DOMAIN byId /\ ContainsOffset(byId[x].off)
<1>1. ASSUME NEW x \in Cached PROVE x \in DOMAIN byId /\ ContainsOffset(byId[x].off)
  <2>1. PICK s \in Shards : x \in {rings[s].buf[i] : i \in DOMAIN rings[s].buf}
    BY Zenon DEF Cached
  <2>2. rings[s].buf \in Seq({y \in Event : Shard(Kind(y)) = s}) /\ rings[s].head \in Nat
    BY Zenon DEF Inv, RingsInv, RingsOK, RecordsOf
  <2>3. PICK i \in 1..Len(rings[s].buf) : x = rings[s].buf[i]
    BY <2>1, <2>2
  <2>4. x \in DOMAIN byId /\ byId[x].off[1] = s /\ rings[s].head + i - 1 <= byId[x].off[2]
    <3>1. pc.at \notin {"down", "migrate", "hydrate", "index"}
      BY DEF At
    <3> QED BY Zenon, <2>3, <3>1 DEF CoverInv, Listed
  <2>5. byId[x].off \in Shards \X Nat /\ byId[x].off[2] < rings[s].head + Len(rings[s].buf)
    BY Zenon, <2>4 DEF Inv, IndexInv, IndexOK, RecordsOK, PointsTo
  <2>6. byId[x].off[2] \in Nat /\ Len(rings[s].buf) \in Nat
    BY <2>2, <2>5
  <2>7. rings[s].head <= byId[x].off[2]
    BY SMTT(30), <2>2, <2>3, <2>4, <2>6
  <2> QED BY <2>2, <2>4, <2>5, <2>6, <2>7 DEF ContainsOffset
<1>2. ASSUME NEW x \in DOMAIN byId, ContainsOffset(byId[x].off) PROVE x \in Cached
  <2> DEFINE off == byId[x].off
             s == off[1]
  <2>1. PointsTo(rings, off, x)
    BY Zenon DEF Inv, IndexInv, IndexOK, RecordsOK
  <2>2. s \in Shards /\ off[2] \in Nat
    BY <2>1 DEF PointsTo
  <2>3. rings[s].buf \in Seq({y \in Event : Shard(Kind(y)) = s}) /\ rings[s].head \in Nat
    BY Zenon, <2>2 DEF Inv, RingsInv, RingsOK, RecordsOf
  <2>4. off[2] >= rings[s].head /\ off[2] < rings[s].head + Len(rings[s].buf)
    BY Zenon, <1>2 DEF ContainsOffset
  <2>5. rings[s].buf[off[2] - rings[s].head + 1] = x
    BY Zenon, <2>1, <2>4 DEF PointsTo
  <2> HIDE DEF s, off
  <2> DEFINE j == off[2] - rings[s].head + 1
  <2>6. j \in DOMAIN rings[s].buf
    BY <2>2, <2>3, <2>4
  <2> HIDE DEF j
  <2>7. x \in {rings[s].buf[i] : i \in DOMAIN rings[s].buf}
    BY Zenon, <2>5, <2>6 DEF j
  <2> QED BY Zenon, <2>2, <2>7 DEF Cached
<1> QED BY Zenon, <1>1, <1>2

\* A posting under the key of a record says what its event matches.
LEMMA PostingMatches ==
    ASSUME Inv, NEW x \in DOMAIN byId, NEW n \in {"kind", "author"} \union TagNames, NEW v
    PROVE  <<n, v, byId[x].key>> \in postings <=>
             CASE n = "kind" -> v = Kind(x)
               [] n = "author" -> v = Author(x)
               [] OTHER -> v \in Tag(x, n)
<1> DEFINE k == byId[x].key
           p == <<n, v, k>>
<1>1. x \in Event /\ PostOK(postings, byId, nextKey)
  BY Zenon DEF Inv, IndexInv, IndexOK, RecordsOK
<1>2. p \in postings <=> p \in PostingsOf(x, k)
  <2>1. p[3] = k
    BY Zenon
  <2> QED BY Zenon, <2>1, <1>1 DEF PostOK
<1> HIDE DEF k
<1>3. /\ <<"kind", v, k>> \in PostingsOf(x, k) <=> v = Kind(x)
      /\ <<"author", v, k>> \in PostingsOf(x, k) <=> v = Author(x)
  BY Zenon, <1>1, PostingMeans
<1>4. CASE n = "kind"
  BY <1>2, <1>3, <1>4 DEF k
<1>5. CASE n = "author"
  BY <1>2, <1>3, <1>5 DEF k
<1>6. CASE n \in TagNames
  <2>1. n # "kind" /\ n # "author"
    BY <1>6 DEF TagNames
  <2>2. p \in PostingsOf(x, k) <=> \E t \in EventInfo[x].tags : p = <<t[1], t[2], k>>
    BY Zenon, <2>1 DEF PostingsOf
  <2>3. (\E t \in EventInfo[x].tags : p = <<t[1], t[2], k>>) <=> v \in Tag(x, n)
    BY Zenon DEF Tag
  <2> QED BY Zenon, <2>1, <2>2, <2>3, <1>2 DEF k
<1> QED BY Zenon, <1>4, <1>5, <1>6

\* What survives the filter, the tombstones and the offsets is what a scan wants.
LEMMA SurvivorsExact ==
    ASSUME Inv, CoverInv, At("ready"), NEW f \in Filters
    PROVE  Survivors(f) = {e \in Cached : Matches(e, f) /\ ~Hidden(e)}
<1>1. ASSUME NEW x \in DOMAIN byId, NEW n \in DOMAIN f.fields
      PROVE  (IF n = "id" THEN x \in f.fields[n]
              ELSE \E v \in f.fields[n] : <<n, v, byId[x].key>> \in postings)
               <=> CASE n = "id" -> x \in f.fields[n]
                     [] n = "kind" -> Kind(x) \in f.fields[n]
                     [] n = "author" -> Author(x) \in f.fields[n]
                     [] OTHER -> Tag(x, n) \intersect f.fields[n] # {}
  <2>1. CASE n = "id"
    BY Zenon, <2>1
  <2>2. CASE n # "id"
    <3>1. n \in {"kind", "author"} \union TagNames
      BY Zenon, <2>2, QueryAssumption
    <3>2. \A v : <<n, v, byId[x].key>> \in postings <=>
                   CASE n = "kind" -> v = Kind(x)
                     [] n = "author" -> v = Author(x)
                     [] OTHER -> v \in Tag(x, n)
      BY Zenon, <3>1, PostingMatches
    <3>3. CASE n = "kind"
      BY <3>2, <3>3
    <3>4. CASE n = "author"
      BY <3>2, <3>4
    <3>5. CASE n # "kind" /\ n # "author"
      BY Zenon, <2>2, <3>2, <3>5
    <3> QED BY Zenon, <3>3, <3>4, <3>5
  <2> QED BY Zenon, <2>1, <2>2
<1>2. \A x \in DOMAIN byId : byId[x].created = Created(x)
  BY Zenon DEF Inv, IndexInv, IndexOK, RecordsOK
<1>3. \A x \in DOMAIN byId : x \in Candidates(f) /\ byId[x].created \in f.since..f.until <=> Matches(x, f)
  BY Zenon, <1>1, <1>2 DEF Candidates, Matches
<1>4. \A x : x \in Cached <=> x \in DOMAIN byId /\ ContainsOffset(byId[x].off)
  BY Zenon, CachedIsReadable
<1>5. \A x : x \in Candidates(f) => x \in DOMAIN byId
  BY Zenon DEF Candidates
<1> QED BY Zenon, <1>3, <1>4, <1>5 DEF Survivors, Hidden

\* Every query of every filter returns the newest `limit` of the events that a
\* scan of the rings would find: matching, stored and not deleted, each once,
\* after any evictions, second copies, deletions, failed starts and crashes
\* (query_events_with_filter_inner).
THEOREM QueriesExact == Spec => []QueryExact
<1>1. Inv /\ CoverInv => QueryExact
  <2> SUFFICES ASSUME Inv, CoverInv, At("ready"), NEW f \in Filters, NEW A \in Answers(f)
               PROVE  LET wanted == {e \in Cached : Matches(e, f) /\ ~Hidden(e)}
                      IN  /\ A \subseteq wanted
                          /\ Cardinality(A) = Min({f.limit, Cardinality(wanted)})
                          /\ \A x \in A, y \in wanted \ A : Created(x) >= Created(y)
    BY Zenon DEF QueryExact
  <2> DEFINE W == {e \in Cached : Matches(e, f) /\ ~Hidden(e)}
  <2>1. Survivors(f) = W
    BY Zenon, SurvivorsExact
  <2>2. PICK T \in Top(W, f.limit) : A = {EventAt(byId[x].off) : x \in T}
    BY Zenon, <2>1 DEF Answers
  <2>3. \A x \in W : x \in DOMAIN byId /\ ContainsOffset(byId[x].off)
    BY Zenon, CachedIsReadable
  <2>4. \A x \in W : EventAt(byId[x].off) = x
    BY <2>3, Zenon DEF Inv, IndexInv, IndexOK, RecordsOK, PointsTo, ContainsOffset, EventAt
  <2>5. W \subseteq Event
    BY Zenon, <2>3 DEF Inv, IndexInv, IndexOK, RecordsOK
  <2>6. \A x \in W : byId[x].created = Created(x) /\ Created(x) \in Nat
    BY Zenon, <2>3, <2>5, EventAssumption DEF Inv, IndexInv, IndexOK, RecordsOK
  <2> HIDE DEF W
  <2>7. f.limit \in Nat /\ Cardinality(W) \in Nat
    BY Zenon, <2>5, QueryAssumption
  <2>8. T \subseteq W
    BY Zenon DEF Top, kSubset
  <2>9. A = T
    BY Zenon, <2>2, <2>4, <2>8
  <2>10. Cardinality(A) = Min({f.limit, Cardinality(W)})
    <3>1. \A a, b \in Nat : Min({a, b}) = IF a <= b THEN a ELSE b
      BY MinOfTwo
    <3>2. Cardinality(T) = IF Cardinality(W) <= f.limit THEN Cardinality(W) ELSE f.limit
      BY Zenon DEF Top, kSubset
    <3> QED BY <3>1, <3>2, <2>7, <2>9
  <2>11. ASSUME NEW x \in A, NEW y \in W \ A PROVE Created(x) >= Created(y)
    <3>1. T # W
      BY Zenon, <2>9
    <3>2. byId[x].created >= byId[y].created
      BY Zenon, <3>1, <2>9 DEF Top
    <3>3. x \in W
      BY Zenon, <2>8, <2>9
    <3> QED BY Zenon, <3>2, <3>3, <2>6
  <2> QED BY Zenon, <2>8, <2>9, <2>10, <2>11 DEF W
<1> QED BY <1>1, StorageInvariant, RecordsComplete, PTL
=============================================================================
