----------------------------- MODULE EventStore -----------------------------
(***************************************************************************)
(* The event database of crates/core/src/storage/db: one ring buffer per   *)
(* shard of kinds (ring_buffer.rs, sharded_storage.rs), indexes from ids   *)
(* and tags to events (index.rs, types.rs) and the NIP-09 tombstones that  *)
(* hide deleted events from queries.                                       *)
(*                                                                         *)
(* An event is its id; EventInfo gives what the database reads of it.  An  *)
(* offset is the shard and the ordinal of the record in it, counted from   *)
(* the first record ever written: byte offsets are strictly increasing in  *)
(* that ordinal, and sizes matter only for how many records are evicted.   *)
(* Re-persisting a known id appends a second copy and moves the record.    *)
(***************************************************************************)
EXTENDS Naturals, Sequences, FiniteSets, FiniteSetsExt

CONSTANTS
    Event,      \* event ids
    EventInfo,  \* id -> what the database reads of the event
    Capacity    \* shard -> max_buffer_size, in the unit of EventInfo.size

Shards == {"default", "profile", "kind4", "kind7375", "replaceable",
           "regular", "reaction", "ephemeral", "addressable"}
TagNames == {"e", "E", "p", "P", "a", "d", "q"}
EVENT_DELETION == 5

Kind(e) == EventInfo[e].kind
Author(e) == EventInfo[e].author
Created(e) == EventInfo[e].created
Size(e) == EventInfo[e].size
\* The values of e's tags called n; the value of an "a" tag is <<kind, author, d>>.
Tag(e, n) == {t[2] : t \in {u \in EventInfo[e].tags : u[1] = n}}

\* At most one "d" tag, so that the first is any; e-tags name events.
ASSUME EventAssumption ==
    /\ Capacity \in [Shards -> Nat]
    /\ \A e \in Event :
         /\ Kind(e) \in Nat /\ Created(e) \in Nat /\ Size(e) \in Nat \ {0}
         /\ \A t \in EventInfo[e].tags : t[1] \in TagNames
         /\ Tag(e, "e") \subseteq Event
         /\ \A a \in Tag(e, "a") : a = <<a[1], a[2], a[3]>>
         /\ \A d1, d2 \in Tag(e, "d") : d1 = d2

VARIABLES
    rings,     \* shard -> [head, buf]: head_offset and the records
    byId,      \* events_by_id and events_by_key: id -> [key, off, created]
    nextKey,   \* next_event_key
    postings,  \* the secondary indexes: triples <<index, value, key>>
    tomb       \* Tombstones: deleted_keys, pending_ids, deleted_addresses

storeVars == <<rings, byId, nextKey, postings, tomb>>

EmptyRings == [s \in Shards |-> [head |-> 0, buf |-> <<>>]]
NoTombstones == [keys |-> {}, pending |-> << >>, addresses |-> << >>]

EmptyStore ==
    /\ rings = EmptyRings
    /\ byId = << >> /\ nextKey = 0 /\ postings = {}
    /\ tomb = NoTombstones

Clear ==
    /\ rings' = EmptyRings
    /\ byId' = << >> /\ nextKey' = 0 /\ postings' = {}
    /\ tomb' = NoTombstones

-----------------------------------------------------------------------------
\* Sharding and the rings.
Shard(k) ==
    IF k = 0 THEN "profile"
    ELSE IF k = 3 THEN "replaceable"
    ELSE IF k = 4 THEN "kind4"
    ELSE IF k = 7 THEN "reaction"
    ELSE IF k = 7375 THEN "kind7375"
    ELSE IF k <= 9999 THEN "regular"
    ELSE IF k <= 19999 THEN "replaceable"
    ELSE IF k <= 29999 THEN "ephemeral"
    ELSE IF k <= 39999 THEN "addressable"
    ELSE "default"

\* Ephemeral events answer queries in this session and are never saved.
IsPersistent(s) == s # "ephemeral"

\* from_legacy_default: the budget of a database, split by weights of a sum of
\* 28, the remainder of the divisions to the addressable shard.
Weight == [default |-> 1, profile |-> 2, kind4 |-> 2, kind7375 |-> 1, replaceable |-> 4,
           regular |-> 8, reaction |-> 3, ephemeral |-> 2]
Weighted(total, w) == (total \div 28) * w + ((total % 28) * w) \div 28
ShardCapacities(total) ==
    [s \in Shards |->
       IF s # "addressable" THEN Weighted(total, Weight[s])
       ELSE total - MapThenSumSet(LAMBDA x : Weighted(total, Weight[x]), DOMAIN Weight)]

Bytes(buf) == MapThenSumSet(LAMBDA i : Size(buf[i]), DOMAIN buf)

\* evict_to_fit: k is the fewest records, oldest first, whose removal makes room.
Evicts(buf, need, cap, k) ==
    LET fits(n) == Bytes(SubSeq(buf, n + 1, Len(buf))) + need <= cap
    IN  (fits(k) \/ k = Len(buf)) /\ \A n \in 0..(k - 1) : ~fits(n)

\* add_event of e, once k records have made room for it.
Appended(r, e, k) ==
    [head |-> r.head + k, buf |-> Append(SubSeq(r.buf, k + 1, Len(r.buf)), e)]

\* contains_offset and get_event_at_offset.
ContainsOffset(off) ==
    LET r == rings[off[1]] IN off[2] >= r.head /\ off[2] < r.head + Len(r.buf)
EventAt(off) == LET r == rings[off[1]] IN r.buf[off[2] - r.head + 1]

Cached == UNION {{rings[s].buf[i] : i \in DOMAIN rings[s].buf} : s \in Shards}

-----------------------------------------------------------------------------
\* Indexing.  upsert_event_record keeps the key of an id it knows.
KeyFor(e) == IF e \in DOMAIN byId THEN byId[e].key ELSE nextKey

Addressable(e) == 30000 <= Kind(e) /\ Kind(e) <= 39999

\* apply_tombstones_to_event: the event with key k has just been indexed.
ApplyTombstones(t, e, k) ==
    LET byIdTag == e \in DOMAIN t.pending /\ t.pending[e].author = Author(e)
        byAddress == /\ Addressable(e)
                     /\ \E d \in Tag(e, "d") :
                          LET addr == <<Kind(e), Author(e), d>>
                          IN  addr \in DOMAIN t.addresses /\ Created(e) <= t.addresses[addr]
    IN  IF byIdTag \/ byAddress THEN [t EXCEPT !.keys = @ \union {k}] ELSE t

\* process_deletion_tags of the deletion d, against the records and the indexes.
DeletionTargetsOfAnyone(d, ids, post) == Tag(d, "e") \intersect DOMAIN ids
DeletionTargets(d, ids, post) ==
    {x \in Tag(d, "e") \intersect DOMAIN ids : <<"author", Author(d), ids[x].key>> \in post}
      \union
    {x \in DOMAIN ids :
       /\ ids[x].created <= Created(d)
       /\ \E a \in Tag(d, "a") :
            /\ a[2] = Author(d)
            /\ <<"d", a[3], ids[x].key>> \in post
            /\ <<"kind", a[1], ids[x].key>> \in post
            /\ <<"author", a[2], ids[x].key>> \in post}

ProcessDeletion(t, d, ids, post) ==
    LET absent == Tag(d, "e") \ DOMAIN ids
        newer  == {x \in absent : x \in DOMAIN t.pending => Created(d) > t.pending[x].at}
        mine   == {a \in Tag(d, "a") : a[2] = Author(d)}
    IN  [keys |-> t.keys \union {ids[x].key : x \in DeletionTargets(d, ids, post)},
         pending |-> [x \in DOMAIN t.pending \union absent |->
                        IF x \in newer THEN [author |-> Author(d), at |-> Created(d)]
                        ELSE t.pending[x]],
         addresses |-> [a \in DOMAIN t.addresses \union mine |->
                          IF a \in mine /\ (a \in DOMAIN t.addresses => Created(d) > t.addresses[a])
                          THEN Created(d) ELSE t.addresses[a]]]

\* index_parsed_event and index_nostr_event: record, postings, tombstones.
PostingsOf(e, k) ==
    {<<"kind", Kind(e), k>>, <<"author", Author(e), k>>}
      \union {<<t[1], t[2], k>> : t \in EventInfo[e].tags}

IndexEvent(e, off) ==
    LET k    == KeyFor(e)
        ids  == [x \in DOMAIN byId \union {e} |->
                   IF x = e THEN [key |-> k, off |-> off, created |-> Created(e)] ELSE byId[x]]
        post == postings \union PostingsOf(e, k)
        t    == ApplyTombstones(tomb, e, k)
    IN  /\ byId' = ids
        /\ nextKey' = IF e \in DOMAIN byId THEN nextKey ELSE nextKey + 1
        /\ postings' = post
        /\ tomb' = IF Kind(e) = EVENT_DELETION THEN ProcessDeletion(t, e, ids, post) ELSE t

\* add_worker_message_bytes; an event larger than a shard is refused.
AddEvent(e) ==
    LET s == Shard(Kind(e))
    IN  /\ Size(e) <= Capacity[s]
        /\ \E k \in 0..Len(rings[s].buf) :
             LET r == Appended(rings[s], e, k)
             IN  /\ Evicts(rings[s].buf, Size(e), Capacity[s], k)
                 /\ rings' = [rings EXCEPT ![s] = r]
                 /\ IndexEvent(e, <<s, r.head + Len(r.buf) - 1>>)

-----------------------------------------------------------------------------
\* query_events_with_filter: f.fields maps an index to the wanted values; the
\* candidates of every field are intersected.
Candidates(f) ==
    {x \in DOMAIN byId : \A n \in DOMAIN f.fields :
       IF n = "id" THEN x \in f.fields[n]
       ELSE \E v \in f.fields[n] : <<n, v, byId[x].key>> \in postings}

Survivors(f) ==
    {x \in Candidates(f) : /\ byId[x].key \notin tomb.keys
                           /\ byId[x].created \in f.since..f.until
                           /\ ContainsOffset(byId[x].off)}

\* The limit keeps the newest; which of equally old ones is not defined.
TopUnsorted(S, limit) == IF Cardinality(S) <= limit THEN {S} ELSE kSubset(limit, S)
Top(S, limit) ==
    IF Cardinality(S) <= limit THEN {S}
    ELSE {T \in kSubset(limit, S) : \A x \in T, y \in S \ T : byId[x].created >= byId[y].created}

\* What one filter may return: the events at the offsets kept.
Answers(f) == {{EventAt(byId[x].off) : x \in T} : T \in Top(Survivors(f), f.limit)}
=============================================================================
