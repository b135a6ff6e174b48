-------------------------- MODULE PersistentStorage --------------------------
(***************************************************************************)
(* The event database over a blob store: crates/core/src/storage/          *)
(* persistent.rs.  Every 30 seconds at most, a persist also saves a        *)
(* snapshot of the shards, blob by blob; a deletion is appended at once to *)
(* a write-ahead log (WAL) blob.  A start clears the caches an older       *)
(* parser poisoned, loads the shards, rebuilds the indexes and replays the *)
(* WAL.                                                                    *)
(*                                                                         *)
(* The cache worker awaits one persist before the next, so the only        *)
(* interleavings are with time passing and with the process being killed   *)
(* between two blob operations.  A put replaces a blob whole.              *)
(***************************************************************************)
EXTENDS EventStore

CONSTANTS
    MaxWal,       \* MAX_WAL_ENTRIES
    OldDisks,     \* what earlier sessions, of this release or older, may have left
    Incoming,     \* the events this release is asked to persist
    Poisonous,    \* encrypted events as an older parser stored them
    Filters,      \* the filters of the queries: [fields, since, until, limit]
    MaxPersists,  \* bound: persists per behaviour
    MaxCrashes,   \* bound: crashes per behaviour
    MaxFaults     \* bound: failing blob operations per behaviour

ShardOrder == <<"default", "profile", "kind4", "kind7375", "replaceable",
                "regular", "reaction", "ephemeral", "addressable">>
Poisoned == <<"kind4", "kind7375", "replaceable", "regular">>

\* The records of a shard, and the blobs: what a disk may hold.
RecordsOf(s) == Seq({e \in Event : Shard(Kind(e)) = s})
DiskOK(D) ==
    /\ D = [shards |-> D.shards, kind10002 |-> D.kind10002, wal |-> D.wal, marker |-> D.marker]
    /\ DOMAIN D.shards \subseteq {s \in Shards : IsPersistent(s)}
    /\ \A s \in DOMAIN D.shards : D.shards[s] \in RecordsOf(s)
    /\ \A s \in DOMAIN D.shards \ Range(Poisoned) : Range(D.shards[s]) \intersect Poisonous = {}
    /\ D.kind10002 \in RecordsOf("replaceable") /\ Range(D.kind10002) \intersect Poisonous = {}
    /\ D.wal \in Seq({e \in Event : Kind(e) = EVENT_DELETION}) /\ Len(D.wal) <= MaxWal
    /\ D.marker \in BOOLEAN
Clean(blobs) == \A s \in DOMAIN blobs : Range(blobs[s]) \intersect Poisonous = {}

ASSUME PersistentAssumption ==
    /\ MaxWal \in Nat \ {0} /\ Incoming \subseteq Event /\ Poisonous \subseteq Event \ Incoming
    /\ \A D \in OldDisks : DiskOK(D) /\ (~D.marker \/ Clean(D.shards))
    /\ MaxPersists \in Nat /\ MaxCrashes \in Nat /\ MaxFaults \in Nat

\* Filters name indexes, and sets of events have a number of elements.
ASSUME QueryAssumption ==
    /\ \A f \in Filters :
         DOMAIN f.fields \subseteq {"id", "kind", "author"} \union TagNames /\ f.limit \in Nat
    /\ \A S \in SUBSET Event : Cardinality(S) \in Nat

VARIABLES
    disk,      \* the blobs: [shards (shard -> records, partial), kind10002, wal, marker]
    wal,       \* the WAL in memory
    walIds,    \* wal_ids
    due,       \* more than SYNC_INTERVAL_MS since last_sync_ms
    pc,        \* where the call in progress is, [at |-> ...]
    applied,   \* history: deletions processed since the start
    session,   \* history: events persisted since the start
    degraded,  \* history: a start has failed half-way
    used       \* bound: [persists, crashes, faults]

ghosts == <<applied, session, degraded, used>>
vars == <<storeVars, disk, wal, walIds, due, pc, ghosts>>

At(x) == pc.at = x
Go(x) == pc' = [at |-> x]
Count(n) == used' = [used EXCEPT ![n] = @ + 1]

Init ==
    /\ EmptyStore
    /\ disk \in OldDisks
    /\ wal = <<>> /\ walIds = {} /\ due = TRUE
    /\ pc = [at |-> "down"]
    /\ applied = {} /\ session = {} /\ degraded = FALSE
    /\ used = [persists |-> 0, crashes |-> 0, faults |-> 0]

-----------------------------------------------------------------------------
\* Starting.
Put(s, blob) ==
    disk' = [disk EXCEPT !.shards = [x \in DOMAIN @ \union {s} |-> IF x = s THEN blob ELSE @[x]]]

\* (StartMarkingFirst and the like are slips that a property must notice.)
\* core.initialize on an empty store, then the marker is read.
StartMarkingFirst ==
    /\ At("down")
    /\ Clear
    /\ disk' = [disk EXCEPT !.marker = TRUE]
    /\ IF disk.marker THEN Go("hydrate") ELSE pc' = [at |-> "migrate", todo |-> Poisoned, found |-> FALSE]
    /\ UNCHANGED <<wal, walIds, due, ghosts>>
Start ==
    /\ At("down")
    /\ Clear
    /\ IF disk.marker THEN Go("hydrate") ELSE pc' = [at |-> "migrate", todo |-> Poisoned, found |-> FALSE]
    /\ UNCHANGED <<disk, wal, walIds, due, ghosts>>

\* migrate_poisoned_encrypted_cache, one shard a step.
MigrateShard ==
    /\ At("migrate") /\ pc.todo # <<>>
    /\ LET s   == Head(pc.todo)
           old == s \in DOMAIN disk.shards /\ disk.shards[s] # <<>>
       IN  /\ IF old THEN Put(s, <<>>) ELSE UNCHANGED disk
           /\ pc' = [at |-> "migrate", todo |-> Tail(pc.todo), found |-> pc.found \/ old]
    /\ UNCHANGED <<storeVars, wal, walIds, due, ghosts>>

MigrateMarker ==
    /\ At("migrate") /\ pc.todo = <<>>
    /\ disk' = [disk EXCEPT !.marker = @ \/ pc.found]
    /\ Go("hydrate")
    /\ UNCHANGED <<storeVars, wal, walIds, due, ghosts>>

\* hydrate_from_blob_store: the shards that are loaded, and the order in which
\* rebuild_indexes_from_storage meets their records.
Loaded ==
    [s \in Shards |->
       CASE ~IsPersistent(s) -> <<>>
         [] IsPersistent(s) /\ s \in DOMAIN disk.shards -> disk.shards[s]
         [] s = "replaceable" /\ s \notin DOMAIN disk.shards -> disk.kind10002
         [] OTHER -> <<>>]

Hydrate ==
    /\ At("hydrate")
    /\ rings' = [s \in Shards |-> [head |-> 0, buf |-> Loaded[s]]]
    /\ byId' = << >> /\ nextKey' = 0 /\ postings' = {} /\ tomb' = NoTombstones
    /\ pc' = [at |-> "index", done |-> [s \in Shards |-> 0]]
    /\ UNCHANGED <<disk, wal, walIds, due, ghosts>>

\* build_indexes_from_events, one record a step, in the order of load_events.
ToIndex(s) == pc.done[s] < Len(rings[s].buf)
NextShard(s) ==
    \E i \in 1..Len(ShardOrder) :
      s = ShardOrder[i] /\ ToIndex(s) /\ \A j \in 1..(i - 1) : ~ToIndex(ShardOrder[j])
IndexRecord ==
    /\ At("index")
    /\ \E s \in Shards :
         LET off == <<s, pc.done[s]>>
             e   == EventAt(off)
         IN  /\ NextShard(s)
             /\ IndexEvent(e, off)
             /\ applied' = IF Kind(e) = EVENT_DELETION THEN applied \union {e} ELSE applied
             /\ pc' = [at |-> "index", done |-> [pc.done EXCEPT ![s] = @ + 1]]
    /\ UNCHANGED <<rings, disk, wal, walIds, due, session, degraded, used>>

Indexed == At("index") /\ \A s \in Shards : ~ToIndex(s)

\* load_tombstones: read the blob, then replay entry by entry.
LoadTombstones ==
    /\ Indexed
    /\ wal' = disk.wal
    /\ pc' = [at |-> "replay", todo |-> disk.wal]
    /\ UNCHANGED <<storeVars, disk, walIds, due, ghosts>>

ReplayEntryIdOnly ==
    /\ At("replay") /\ pc.todo # <<>>
    /\ walIds' = walIds \union {Head(pc.todo)}
    /\ pc' = [pc EXCEPT !.todo = Tail(@)]
    /\ UNCHANGED <<storeVars, disk, wal, due, ghosts>>
ReplayEntry ==
    /\ At("replay") /\ pc.todo # <<>>
    /\ LET d == Head(pc.todo)
       IN  /\ tomb' = ProcessDeletion(tomb, d, byId, postings)
           /\ walIds' = walIds \union {d}
           /\ applied' = applied \union {d}
    /\ pc' = [pc EXCEPT !.todo = Tail(@)]
    /\ UNCHANGED <<rings, byId, nextKey, postings, disk, wal, due, session, degraded, used>>

Initialized ==
    /\ At("replay") /\ pc.todo = <<>>
    /\ due' = FALSE
    /\ Go("ready")
    /\ UNCHANGED <<storeVars, disk, wal, walIds, ghosts>>

\* A blob operation of the start fails: the cache worker logs it and serves.
InitializeFails ==
    /\ \/ At("migrate")
       \/ At("hydrate")
       \/ Indexed
    /\ used.faults < MaxFaults /\ Count("faults")
    /\ degraded' = TRUE
    /\ Go("ready")
    /\ UNCHANGED <<storeVars, disk, wal, walIds, due, applied, session>>

-----------------------------------------------------------------------------
\* Persisting.  save_all_shards, taken when the sync starts.
Snapshot(R) == [s \in {x \in Shards : IsPersistent(x) /\ R[x].buf # <<>>} |-> R[s].buf]

\* The end of persist: sync if the interval has passed.
SyncOrReturn(R) ==
    IF due THEN pc' = [at |-> "sync", todo |-> Snapshot(R)] ELSE Go("ready")

\* compact_wal: the newest MaxWal entries, and their ids.
Compact(w) == IF Len(w) > MaxWal THEN SubSeq(w, Len(w) - MaxWal + 1, Len(w)) ELSE w

Persist(e) ==
    /\ At("ready") /\ used.persists < MaxPersists /\ Count("persists")
    /\ AddEvent(e)
    /\ session' = session \union {e}
    /\ applied' = IF Kind(e) = EVENT_DELETION THEN applied \union {e} ELSE applied
    /\ IF Kind(e) = EVENT_DELETION /\ e \notin walIds
       THEN LET w == Append(wal, e)
            IN  /\ wal' = Compact(w)
                /\ walIds' = IF Len(w) > MaxWal THEN Range(Compact(w)) ELSE walIds \union {e}
                /\ Go("flush")
       ELSE UNCHANGED <<wal, walIds>> /\ SyncOrReturn(rings')
    /\ UNCHANGED <<disk, due, degraded>>

\* The put of the WAL, which persist awaits before anything else.
Flush ==
    /\ At("flush")
    /\ disk' = [disk EXCEPT !.wal = wal]
    /\ SyncOrReturn(rings)
    /\ UNCHANGED <<storeVars, wal, walIds, due, ghosts>>

\* sync_to_blob_store: the blobs in any order, the marker last.
SyncShard ==
    /\ At("sync")
    /\ \E s \in DOMAIN pc.todo :
         /\ Put(s, pc.todo[s])
         /\ pc' = [at |-> "sync", todo |-> [x \in DOMAIN pc.todo \ {s} |-> pc.todo[x]]]
    /\ UNCHANGED <<storeVars, wal, walIds, due, ghosts>>

SyncMarker ==
    /\ At("sync") /\ DOMAIN pc.todo = {}
    /\ disk' = [disk EXCEPT !.marker = TRUE]
    /\ due' = FALSE
    /\ Go("ready")
    /\ UNCHANGED <<storeVars, wal, walIds, ghosts>>

\* A put fails: persist returns the error, the cache worker logs it.
PutFails ==
    /\ At("flush") \/ At("sync")
    /\ used.faults < MaxFaults /\ Count("faults")
    /\ Go("ready")
    /\ UNCHANGED <<storeVars, disk, wal, walIds, due, applied, session, degraded>>

Elapse ==
    /\ At("ready") \/ At("flush")
    /\ ~due /\ due' = TRUE
    /\ UNCHANGED <<storeVars, disk, wal, walIds, pc, ghosts>>

\* The process ends, between any two steps; only the blobs remain.
Crash ==
    /\ ~At("down") /\ used.crashes < MaxCrashes /\ Count("crashes")
    /\ Clear
    /\ wal' = <<>> /\ walIds' = {} /\ due' = TRUE
    /\ Go("down")
    /\ applied' = {} /\ session' = {}
    /\ UNCHANGED <<disk, degraded>>

Run ==
    \/ Start \/ MigrateShard \/ MigrateMarker \/ Hydrate \/ IndexRecord
    \/ LoadTombstones \/ ReplayEntry \/ Initialized \/ InitializeFails
    \/ \E e \in Incoming : Persist(e)
    \/ Flush \/ SyncShard \/ SyncMarker \/ PutFails \/ Elapse

Next == Run \/ Crash

Spec == Init /\ [][Next]_vars

-----------------------------------------------------------------------------
TypeOK ==
    /\ \A s \in Shards : rings[s].head \in Nat /\ rings[s].buf \in RecordsOf(s)
    /\ DOMAIN byId \subseteq Event /\ nextKey \in Nat
    /\ \A x \in DOMAIN byId :
         byId[x].key \in Nat /\ byId[x].off \in Shards \X Nat /\ byId[x].created = Created(x)
    /\ tomb.keys \subseteq Nat /\ DOMAIN tomb.pending \subseteq Event
    /\ DiskOK(disk)
    /\ wal \in Seq(Event) /\ Len(wal) <= MaxWal /\ walIds \subseteq Event /\ due \in BOOLEAN
    /\ pc.at \in {"down", "migrate", "hydrate", "index", "replay", "ready", "flush", "sync"}
    /\ applied \subseteq Event /\ session \subseteq Event /\ degraded \in BOOLEAN

\* A record whose offset is still in the ring reads back the event it was made
\* for, and keys are not shared: contains_offset, which only compares offsets, is
\* enough to keep a query from returning another event's bytes after evictions,
\* second copies and restarts.
IndexSound ==
    /\ \A x \in DOMAIN byId : ContainsOffset(byId[x].off) => EventAt(byId[x].off) = x
    /\ \A x, y \in DOMAIN byId : byId[x].key = byId[y].key => x = y

\* The event matches the filter, by its own content.
Matches(e, f) ==
    /\ Created(e) \in f.since..f.until
    /\ \A n \in DOMAIN f.fields :
         CASE n = "id" -> e \in f.fields[n]
           [] n = "kind" -> Kind(e) \in f.fields[n]
           [] n = "author" -> Author(e) \in f.fields[n]
           [] OTHER -> Tag(e, n) \intersect f.fields[n] # {}

Hidden(e) == e \in DOMAIN byId /\ byId[e].key \in tomb.keys

\* A query by index intersection (query_events_with_filter_inner) returns exactly
\* what a scan of the rings would: the newest `limit` events that match and are
\* not deleted, each once.
QueryExact ==
    At("ready") =>
      \A f \in Filters :
        LET wanted == {e \in Cached : Matches(e, f) /\ ~Hidden(e)}
        IN  \A A \in Answers(f) :
              /\ A \subseteq wanted
              /\ Cardinality(A) = Min({f.limit, Cardinality(wanted)})
              /\ \A x \in A, y \in wanted \ A : Created(x) >= Created(y)

\* The deletion d, of x's own author, names x or the address of a version no
\* newer than itself (NIP-09).
CoversById(d, x) == Author(d) = Author(x) /\ x \in Tag(d, "e")
CoversByAddress(d, x) ==
    /\ Created(x) <= Created(d)
    /\ \E a \in Tag(d, "a") : a[2] = Author(d) /\ \E v \in Tag(x, "d") : a = <<Kind(x), Author(x), v>>

\* An event is hidden from queries only by a deletion its own author published
\* and this store has processed: neither another author's kind 5, nor a key that
\* a rebuild gave to another event, hides it.
DeletionSound ==
    \A x \in DOMAIN byId : Hidden(x) =>
      \E d \in applied : Kind(d) = EVENT_DELETION /\ (CoversById(d, x) \/ CoversByAddress(d, x))

\* Somebody else's deletion names x too: the one pending slot per id may hold it.
Contested(x) == \E d \in applied : x \in Tag(d, "e") /\ Author(d) # Author(x)

Deleted(x, D) ==
    \E d \in D : \/ CoversById(d, x) /\ ~Contested(x)
                 \/ CoversByAddress(d, x) /\ Addressable(x)

\* A processed deletion hides what it covers, whichever of the two arrives first
\* and however often either is stored, evicted or stored again.
DeletionComplete == \A x \in DOMAIN byId : Deleted(x, applied) => Hidden(x)

\* Deletions hide exactly what they may: DeletionSound and DeletionComplete
\* together (process_deletion_tags, apply_tombstones_to_event).
DeletionExact == DeletionSound /\ DeletionComplete

\* A deletion that reached the WAL blob still hides what it covers after any
\* number of crashes, whatever the shard blobs say: once a start has succeeded,
\* every entry of the blob is in force.
DeletionDurable ==
    At("ready") /\ ~degraded => \A x \in DOMAIN byId : Deleted(x, Range(disk.wal)) => Hidden(x)

\* An ephemeral event answers queries only in the session that stored it, as the
\* comment on is_persistent asks.
EphemeralForgotten == \A e \in Cached : Shard(Kind(e)) = "ephemeral" => e \in session

\* What an older parser stored of encrypted events is never served, even when
\* the start that clears it is cut short and repeated.
PoisonGone == ~degraded => Cached \intersect Poisonous = {}
=============================================================================
