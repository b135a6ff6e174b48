---------------------------- MODULE CacheWorker ----------------------------
(***************************************************************************)
(* The cache worker with a mesh store: crates/core/src/worker/             *)
(* cache_worker.rs.  Two endpoints, one for the parser and one for the     *)
(* mesh, run as two tasks over a shared registry of live mesh watches and  *)
(* a shared TTL index.  Each awaits its storage, and the other may run     *)
(* meanwhile: a client query is three steps (register the watch; read the  *)
(* store; filter and answer), a mesh record two (persist; observe and      *)
(* notify).  The loop that goes through the events found, one by one under *)
(* the registry's lock, lets nothing else run in between.                  *)
(*                                                                         *)
(* Storage is its set of event ids; every mesh event matches every mesh    *)
(* request.  Time is relative: an expiry is the time left, 0 when passed.  *)
(***************************************************************************)
EXTENDS Naturals, Sequences, FiniteSets, Functions

CONSTANTS
    Subs,        \* subscription ids
    Ids,         \* mesh event ids
    Ttl,         \* MESH_EVENT_TTL
    MaxWatches,  \* MAX_MESH_WATCHES
    WatchCap,    \* MAX_DELIVERED_IDS_PER_WATCH
    Requests,    \* the requests clients make
    MaxQueue,    \* bound: entries of expiry_queue
    MaxSent      \* bound: deliveries to one subscription

None == "none"

ASSUME CacheAssumption ==
    /\ Ttl \in Nat \ {0} /\ MaxWatches \in Nat /\ WatchCap \in Nat \ {0} /\ MaxQueue \in Nat /\ MaxSent \in Nat
    /\ Requests \subseteq
         [noCache : BOOLEAN, cacheFirst : BOOLEAN, cacheOnly : BOOLEAN, meshOnly : BOOLEAN, keep : BOOLEAN]
    /\ None \notin Ids

Idle == [step |-> "idle"]

VARIABLES
    store,      \* ids in the mesh storage
    live,       \* MeshTtlIndex.live: id -> time left
    expiry,     \* MeshTtlIndex.expiry_queue
    pinned,     \* MeshTtlIndex.pinned_event_id
    watches,    \* MeshWatchRegistry: sub -> ring of delivered ids
    client,     \* where the client endpoint is
    mesh,       \* where the mesh endpoint is
    session,    \* session[s]: whether s is open, and its query has read the store
    delivered,  \* delivered[s]: mesh ids sent to the parser since s was opened
    upstream    \* requests sent on to the relays

vars == <<store, live, expiry, pinned, watches, client, mesh, session, delivered, upstream>>
ttlVars == <<live, expiry, pinned>>

Clients ==
    {Idle} \union [step : {"query"}, sub : Subs, req : Requests]
           \union [step : {"answer"}, sub : Subs, req : Requests, found : SUBSET Ids, ok : BOOLEAN]
           \union [step : {"retain"}, sub : Subs, rest : SUBSET Ids, ok : BOOLEAN]

TypeOK ==
    /\ store \subseteq Ids
    /\ live \in [DOMAIN live -> 0..Ttl] /\ DOMAIN live \subseteq Ids
    /\ expiry \in Seq([left : 0..Ttl, id : Ids])
    /\ pinned \in Ids \union {None}
    /\ watches \in [DOMAIN watches -> Seq(Ids)] /\ DOMAIN watches \subseteq Subs
    /\ client \in Clients
    /\ mesh \in {Idle} \union [step : {"observe", "pin"}, id : Ids]
    /\ session \in [Subs -> {"closed", "open", "served"}]
    /\ delivered \in [Subs -> Seq(Ids)]
    /\ upstream \subseteq Requests

Init ==
    /\ store = {} /\ live = << >> /\ expiry = <<>> /\ pinned = None
    /\ watches = << >>
    /\ client = Idle /\ mesh = Idle
    /\ session = [s \in Subs |-> "closed"]
    /\ delivered = [s \in Subs |-> <<>>]
    /\ upstream = {}

-----------------------------------------------------------------------------
Without(f, x) == [y \in DOMAIN f \ {x} |-> f[y]]
With(f, x, v) == [y \in DOMAIN f \union {x} |-> IF y = x THEN v ELSE f[y]]

\* Variants of the definitions below, each with one plausible slip.
LiveAfterPop(k) == live
HitsUnpinned(found) == {e \in found : e \in DOMAIN live /\ live[e] > 0}

-----------------------------------------------------------------------------
\* prune: entries are popped from the front while their time has passed, and an
\* id leaves `live` if it was not observed again since.
LiveAfterPrune(k) ==
    LET gone == {i \in 1..k : expiry[i].id \in DOMAIN live /\ live[expiry[i].id] = expiry[i].left}
    IN  [e \in DOMAIN live \ {expiry[i].id : i \in gone} |-> live[e]]
Prune ==
    \E k \in 0..Len(expiry) :
        /\ \A i \in 1..k : expiry[i].left = 0
        /\ k < Len(expiry) => expiry[k + 1].left > 0
        /\ live' = LiveAfterPrune(k)
        /\ expiry' = SubSeq(expiry, k + 1, Len(expiry))

\* is_live, for an index that has been pruned or not.
IsLive(e) == pinned = e \/ (e \in DOMAIN live /\ live[e] > 0)

Observe(e) ==
    /\ live' = With(live, e, Ttl)
    /\ expiry' = Append(expiry, [left |-> Ttl, id |-> e])
    /\ UNCHANGED pinned

Pin(e) ==
    /\ live' = Without(live, e)
    /\ pinned' = e
    /\ UNCHANGED expiry

\* MeshWatch::remember, for an id that is not in the ring.
Remember(ring, e) ==
    LET longer == Append(ring, e) IN IF Len(longer) > WatchCap THEN Tail(longer) ELSE longer

\* The watches of S that do not remember e are told of it.
Tell(S, e) ==
    LET told == {s \in S : s \notin DOMAIN watches \/ e \notin Range(watches[s])}
    IN  /\ watches' = [s \in DOMAIN watches |-> IF s \in told THEN Remember(watches[s], e) ELSE watches[s]]
        /\ delivered' = [s \in Subs |-> IF s \in told THEN Append(delivered[s], e) ELSE delivered[s]]

\* notify_mesh_watches.
Notify(e) == Tell(DOMAIN watches, e)

-----------------------------------------------------------------------------
\* The client endpoint starts on a query: a live mesh request gets a watch,
\* replacing an older one of the same id, unless the registry is full.  The
\* parser sends no second query for a subscription it has not closed.
Registered(s, r) ==
    IF r.meshOnly /\ r.keep /\ (Cardinality(DOMAIN watches) < MaxWatches \/ s \in DOMAIN watches)
    THEN With(watches, s, <<>>) ELSE watches

ClientQuery(s, r) ==
    /\ client.step = "idle" /\ session[s] = "closed"
    /\ session' = [session EXCEPT ![s] = "open"]
    /\ watches' = Registered(s, r)
    /\ client' = IF r.noCache THEN [step |-> "answer", sub |-> s, req |-> r, found |-> {}, ok |-> FALSE]
                 ELSE [step |-> "query", sub |-> s, req |-> r]
    /\ delivered' = [delivered EXCEPT ![s] = <<>>]
    /\ UNCHANGED <<store, ttlVars, mesh, upstream>>

\* The storage answers; a query may fail.  A request that is not mesh-only
\* reads the client storage, whose events are not followed here.
ClientRead ==
    /\ client.step = "query"
    /\ \E ok \in BOOLEAN :
         client' = [step |-> "answer", sub |-> client.sub, req |-> client.req,
                    found |-> IF ok /\ client.req.meshOnly THEN store ELSE {}, ok |-> ok]
    /\ UNCHANGED <<store, ttlVars, watches, mesh, session, delivered, upstream>>

\* Of the events found, those that are live.
Hits(found) == {e \in found : IsLive(e)}

\* Whether a request is left out of the REQ frames.
SkipNetwork(c, hit) ==
    c.req.meshOnly \/ (c.ok /\ (c.req.cacheOnly \/ (c.req.cacheFirst /\ hit)))

ClientAnswer ==
    /\ client.step = "answer"
    /\ IF client.found \ {pinned} # {} THEN Prune ELSE UNCHANGED <<live, expiry>>
    /\ \E hit \in BOOLEAN :
         upstream' = IF SkipNetwork(client, hit) THEN upstream ELSE upstream \union {client.req}
    /\ client' = [step |-> "retain", sub |-> client.sub, rest |-> Hits(client.found), ok |-> client.ok]
    /\ UNCHANGED <<store, pinned, watches, mesh, session, delivered>>

\* The loop over the hits, in the order of the storage: a watch keeps those it
\* does not remember, which may forget others that are still to come.
ClientRetain ==
    /\ client.step = "retain"
    /\ \/ \E e \in client.rest :
            /\ Tell({client.sub}, e)
            /\ client' = [client EXCEPT !.rest = @ \ {e}]
            /\ UNCHANGED session
       \/ /\ client.rest = {}
          /\ client' = Idle
          /\ session' = IF client.ok THEN [session EXCEPT ![client.sub] = "served"] ELSE session
          /\ UNCHANGED <<watches, delivered>>
    /\ UNCHANGED <<store, ttlVars, mesh, upstream>>

\* A close request removes the watch.
ClientClose(s) ==
    /\ client.step = "idle"
    /\ session[s] # "closed"
    /\ session' = [session EXCEPT ![s] = "closed"]
    /\ watches' = Without(watches, s)
    /\ UNCHANGED <<store, ttlVars, client, mesh, delivered, upstream>>

\* A mesh record, pinned or not, is persisted; a failed persist ends the step.
MeshPersist(e) ==
    /\ mesh.step = "idle"
    /\ Len(expiry) < MaxQueue /\ \A s \in Subs : Len(delivered[s]) < MaxSent
    /\ \E next \in {"observe", "pin"} : mesh' = [step |-> next, id |-> e]
    /\ store' = store \union {e}
    /\ UNCHANGED <<ttlVars, watches, client, session, delivered, upstream>>

MeshObserve ==
    /\ mesh.step \in {"observe", "pin"}
    /\ IF mesh.step = "pin" THEN Pin(mesh.id) ELSE Observe(mesh.id)
    /\ Notify(mesh.id)
    /\ mesh' = Idle
    /\ UNCHANGED <<store, client, session, upstream>>

MeshClearPin ==
    /\ mesh.step = "idle"
    /\ pinned' = None
    /\ UNCHANGED <<store, live, expiry, watches, client, mesh, session, delivered, upstream>>

\* A query of a mesh peer; it prunes the index when it finds something that is
\* not pinned, and answers the live events.
MeshQuery ==
    /\ mesh.step = "idle" /\ store \ {pinned} # {}
    /\ Prune
    /\ UNCHANGED <<store, pinned, watches, client, mesh, session, delivered, upstream>>

\* Time passes.
Older(n) == IF n = 0 THEN 0 ELSE n - 1

Tick ==
    /\ live' = [e \in DOMAIN live |-> Older(live[e])]
    /\ expiry' = [i \in DOMAIN expiry |-> [expiry[i] EXCEPT !.left = Older(@)]]
    /\ UNCHANGED <<store, pinned, watches, client, mesh, session, delivered, upstream>>

Next ==
    \/ ClientRetain
    \/ /\ client.step # "retain"
       /\ \/ \E s \in Subs : ClientClose(s) \/ \E r \in Requests : ClientQuery(s, r)
          \/ ClientRead \/ ClientAnswer
          \/ \E e \in Ids : MeshPersist(e)
          \/ MeshObserve \/ MeshClearPin \/ MeshQuery
          \/ Tick

Spec == Init /\ [][Next]_vars

-----------------------------------------------------------------------------
\* A mesh event is delivered to a watch once, by the answer to its query or by
\* a notification, as long as the watch remembers it.
WatchDeliversOnce ==
    \A s \in DOMAIN watches : \A i, j \in DOMAIN delivered[s] :
        i < j /\ j - i < WatchCap => delivered[s][i] # delivered[s][j]

\* No mesh event falls between the query of a watch and its notifications: a
\* live event has been delivered to every watch whose query read the store and
\* has been answered.
WatchMissesNothing ==
    \A s \in DOMAIN watches : \A e \in Ids :
        session[s] = "served" /\ IsLive(e) => e \in Range(delivered[s])

\* What a watch gets is what is live: nothing is missing and nothing comes
\* twice, whatever the two endpoints do while the other awaits its storage.
WatchExact == WatchDeliversOnce /\ WatchMissesNothing

\* The TTL index does not leak: an id in `live` has an entry in the queue that
\* will remove it, also when it was observed several times or pinned between.
LiveIsQueued ==
    \A e \in DOMAIN live : \E i \in DOMAIN expiry : expiry[i] = [left |-> live[e], id |-> e]

\* "Query local data without opening relay requests." (README, cacheOnly)
CacheOnlyStaysLocal == \A r \in upstream : ~r.cacheOnly
=============================================================================
