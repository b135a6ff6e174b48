--------------------------- MODULE Subscriptions ---------------------------
(***************************************************************************)
(* The life of a subscription across the workers: the parser worker's      *)
(* command loop, ingress and shards (worker/parser_worker.rs), the cache   *)
(* worker's client endpoint (worker/cache_worker.rs), the connections      *)
(* worker of ConnectionsWorker, the channels between them and the relays.  *)
(*                                                                         *)
(* A REQ reaches a relay by way of the cache, a CLOSE goes from the parser *)
(* to the connections worker directly.  Each channel is first-in first-out *)
(* and unbounded; the parser handles the messages of one subscription in   *)
(* order, in one shard, and those of two subscriptions in any order.       *)
(***************************************************************************)
EXTENDS ConnectionsWorker

CONSTANTS
    SeenCap,    \* dedup_max_size of a pipeline
    MaxOpens,   \* bound: times the client subscribes
    MaxEvents   \* bound: events that the cache and the relays send

ASSUME SubscriptionsAssumption == 
    SeenCap \in Nat /\ MaxOpens \in Nat /\ MaxEvents \in Nat

VARIABLES
    sub,        \* sub[s]: the entry of s in `subscriptions`
    toCache,    \* parser -> cache channel: CacheRequests
    envelopes,  \* cache -> connections channel: REQ envelopes
    closes,     \* parser -> connections channel: CLOSE messages
    cached,     \* cache -> parser channel: one cached event or EOCE each
    relayOpen,  \* relayOpen[r]: subscriptions open at the relay
    back,       \* back[r]: frames on their way from the relay
    shown,      \* shown[s]: what the client was given since it subscribed
    due,        \* due[s]: ids relays sent since the client subscribed
    eosed,      \* eosed[s][r]: ids r sent before its EOSE, since the client subscribed
    opens, events

rvars == <<relayOpen, back, due, eosed, events>>
cvars == <<toCache, envelopes, closes, cached>>
allVars == <<vars, sub, cvars, rvars, shown, opens>>

Absent == [open |-> FALSE, closeOnEose |-> FALSE, closed |-> {}, seen |-> {}]
Sub == [open : BOOLEAN, closeOnEose : BOOLEAN, closed : SUBSET Relays, seen : SUBSET Ids]
Eoce == [kind |-> "EOCE", id |-> NoId, url |-> NoUrl]
Event(id) == [kind |-> "EVENT", id |-> id, url |-> NoUrl]
Eose(r) == [kind |-> "EOSE", id |-> NoId, url |-> r]

EventsOf(q) == [i \in DOMAIN q |-> Event(q[i])]
ToClient(s, items) == [i \in DOMAIN items |-> [sub |-> s, item |-> items[i]]]

SubTypeOK ==
    /\ TypeOK
    /\ sub \in [Subs -> Sub]
    /\ toCache \in Seq([close : BOOLEAN, sub : Subs])
    /\ envelopes \in Seq(Subs)
    /\ closes \in Seq([sub : Subs, url : Relays \union {NoUrl}])
    /\ cached \in Seq([sub : Subs, item : Events \union {Eoce}])
    /\ relayOpen \in [Relays -> SUBSET Subs]
    /\ back \in [Relays -> Seq([sub : Subs, item : Items])]
    /\ shown \in [Subs -> Seq(Items \union {Eoce})]
    /\ due \in [Subs -> SUBSET Ids]
    /\ eosed \in [Subs -> [Relays -> SUBSET Ids]]
    /\ opens \in 0..MaxOpens /\ events \in 0..MaxEvents

SubInit ==
    /\ Init
    /\ sub = [s \in Subs |-> Absent]
    /\ toCache = <<>> /\ envelopes = <<>> /\ closes = <<>> /\ cached = <<>>
    /\ relayOpen = [r \in Relays |-> {}]
    /\ back = [r \in Relays |-> <<>>]
    /\ shown = [s \in Subs |-> <<>>]
    /\ due = [s \in Subs |-> {}]
    /\ eosed = [s \in Subs |-> [r \in Relays |-> {}]]
    /\ opens = 0 /\ events = 0

-----------------------------------------------------------------------------
\* Variants of the definitions below, each with one plausible slip.
ProcessUnchecked(s, id) ==
    /\ shown' = [shown EXCEPT ![s] = Append(@, Event(id))]
    /\ UNCHANGED sub
HandleEoseOnce(s, r) ==
    /\ shown' = [shown EXCEPT ![s] = Append(@, Eose(r))]
    /\ IF sub[s].open /\ sub[s].closeOnEose /\ sub[s].closed = {}
       THEN /\ sub' = [sub EXCEPT ![s].closed = {r}]
            /\ closes' = Append(closes, [sub |-> s, url |-> r])
       ELSE UNCHANGED <<sub, closes>>

-----------------------------------------------------------------------------
\* open_subscription, sent when the client subscribes: an id that is already
\* open is left alone.
OpenSubscription(s) ==
    /\ opens < MaxOpens /\ ~sub[s].open
    /\ \E c \in BOOLEAN :
         sub' = [sub EXCEPT ![s] = [Absent EXCEPT !.open = TRUE, !.closeOnEose = c]]
    /\ toCache' = Append(toCache, [close |-> FALSE, sub |-> s])
    /\ shown' = [shown EXCEPT ![s] = <<>>]
    /\ due' = [due EXCEPT ![s] = {}]
    /\ eosed' = [eosed EXCEPT ![s] = [r \in Relays |-> {}]]
    /\ opens' = opens + 1
    /\ UNCHANGED <<vars, envelopes, closes, cached, relayOpen, back, events>>

\* close_subscription: CLOSE to the connections worker, close to the cache,
\* entry removed.
CloseSubscription(s) ==
    /\ sub[s].open
    /\ closes' = Append(closes, [sub |-> s, url |-> NoUrl])
    /\ toCache' = Append(toCache, [close |-> TRUE, sub |-> s])
    /\ sub' = [sub EXCEPT ![s] = Absent]
    /\ UNCHANGED <<vars, envelopes, cached, rvars, shown, opens>>

\* Pipeline::process and process_cached_batch, of a pipeline that drops nothing
\* else: an event without an id, or with an id seen before, is dropped.
Process(s, id) ==
    IF id \notin Ids \/ id \in sub[s].seen
    THEN UNCHANGED <<sub, shown>>
    ELSE /\ sub' = IF Cardinality(sub[s].seen) < SeenCap
                   THEN [sub EXCEPT ![s].seen = @ \union {id}] ELSE sub
         /\ shown' = [shown EXCEPT ![s] = Append(@, Event(id))]

\* handle_message_single, EOSE: forwarded whether or not the subscription is
\* known; with closeOnEose the relay is sent one CLOSE.
HandleEose(s, r) ==
    /\ shown' = [shown EXCEPT ![s] = Append(@, Eose(r))]
    /\ IF sub[s].open /\ sub[s].closeOnEose /\ r \notin sub[s].closed
       THEN /\ sub' = [sub EXCEPT ![s].closed = @ \union {r}]
            /\ closes' = Append(closes, [sub |-> s, url |-> r])
       ELSE UNCHANGED <<sub, closes>>

\* Where the oldest message of s is on a channel, and the channel after one is taken.
Without(q, i) == SubSeq(q, 1, i - 1) \o SubSeq(q, i + 1, Len(q))
First(q, s) == {i \in 1..Len(q) : q[i].sub = s /\ \A j \in 1..i - 1 : q[j].sub # s}

\* handle_message_single for the oldest network frame of s.
HandleNetwork(s) ==
    /\ \E i \in First(toParser, s) :
         LET x == Head(toParser[i].items)
             rest == Tail(toParser[i].items)
         IN  /\ toParser' = IF rest = <<>> THEN Without(toParser, i)
                            ELSE [toParser EXCEPT ![i].items = rest]
             /\ IF x.kind = "EOSE" THEN HandleEose(s, x.url)
                ELSE /\ IF sub[s].open THEN Process(s, x.id) ELSE UNCHANGED <<sub, shown>>
                     /\ UNCHANGED closes
    /\ UNCHANGED <<subRelays, dedup, batch, wire, asked, told>>
    /\ UNCHANGED <<toCache, envelopes, cached, rvars, opens>>

\* handle_message_single for the oldest message of s from the cache: dropped
\* when the subscription is not known.
HandleCache(s) ==
    /\ \E i \in First(cached, s) :
         LET x == cached[i].item
         IN  /\ cached' = Without(cached, i)
             /\ IF ~sub[s].open THEN UNCHANGED <<sub, shown>>
                ELSE IF x.kind = "EVENT" THEN Process(s, x.id)
                ELSE shown' = [shown EXCEPT ![s] = Append(@, x)] /\ UNCHANGED sub
    /\ UNCHANGED <<vars, toCache, envelopes, closes, rvars, opens>>

\* The client endpoint of the cache worker: the events found, the REQ unless
\* the cache answered a cacheFirst or cacheOnly request, then EOCE.
CacheWorker ==
    LET req == Head(toCache)
    IN  /\ toCache # <<>>
        /\ toCache' = Tail(toCache)
        /\ IF req.close THEN UNCHANGED <<cached, envelopes, events>>
           ELSE \E found \in SUBSET Ids, network \in BOOLEAN :
                  /\ events' = events + Cardinality(found) /\ events' <= MaxEvents
                  /\ \E q \in Orders(found) :
                       cached' = cached \o ToClient(req.sub, Append(EventsOf(q), Eoce))
                  /\ envelopes' = IF network THEN Append(envelopes, req.sub) ELSE envelopes
        /\ UNCHANGED <<vars, sub, closes, relayOpen, back, due, eosed, shown, opens>>

-----------------------------------------------------------------------------
\* The loops of the connections worker.
ConnectionsFromCache ==
    /\ envelopes # <<>>
    /\ envelopes' = Tail(envelopes)
    /\ SendEnvelope(Head(envelopes), Relays)
    /\ UNCHANGED <<sub, toCache, closes, cached, rvars, shown, opens>>

ConnectionsFromParser ==
    LET m == Head(closes)
    IN  /\ closes # <<>>
        /\ closes' = Tail(closes)
        /\ IF m.url = NoUrl THEN ParserClose(m.sub) ELSE ParserCloseAt(m.sub, m.url)
        /\ UNCHANGED <<sub, toCache, envelopes, cached, rvars, shown, opens>>

ConnectionsFromRelay(r) ==
    LET m == Head(back[r])
    IN  /\ back[r] # <<>>
        /\ back' = [back EXCEPT ![r] = Tail(@)]
        /\ IF m.item.kind = "EOSE" THEN WriteControl(m.sub, r) ELSE WriteEvent(m.sub, m.item.id)
        /\ UNCHANGED <<sub, cvars, relayOpen, due, eosed, events, shown, opens>>

Sweeper ==
    /\ \E S \in SUBSET Subs : Sweep(S)
    /\ UNCHANGED <<sub, cvars, rvars, shown, opens>>

\* A relay answers a REQ with its stored events, EOSE and perhaps a live event;
\* `back` delays each of them at will.  A CLOSE ends the subscription.
Answer(r, s, stored, fresh) ==
    /\ relayOpen' = [relayOpen EXCEPT ![r] = @ \union {s}]
    /\ back' = [back EXCEPT ![r] = @ \o ToClient(s, EventsOf(stored) \o <<Eose(r)>> \o EventsOf(fresh))]
    /\ due' = [due EXCEPT ![s] = @ \union Range(stored \o fresh)]
    /\ eosed' = [eosed EXCEPT ![s][r] = @ \union Range(stored)]
    /\ events' = events + Len(stored) + Len(fresh)
    /\ events' <= MaxEvents

Relay(r) ==
    LET f == Head(wire[r])
    IN  /\ RelayRecv(r)
        /\ IF f.kind = "REQ"
           THEN \E set \in SUBSET Ids : \E stored \in Orders(set), fresh \in {<<>>} \union {<<id>> : id \in Ids} :
                  Answer(r, f.sub, stored, fresh)
           ELSE /\ relayOpen' = [relayOpen EXCEPT ![r] = @ \ {f.sub}]
                /\ UNCHANGED <<back, due, eosed, events>>
        /\ UNCHANGED <<sub, cvars, shown, opens>>

SubNext ==
    \/ \E s \in Subs : OpenSubscription(s) \/ CloseSubscription(s) \/ HandleNetwork(s) \/ HandleCache(s)
    \/ CacheWorker
    \/ ConnectionsFromCache \/ ConnectionsFromParser \/ Sweeper
    \/ \E r \in Relays : ConnectionsFromRelay(r) \/ Relay(r)

SubSpec == SubInit /\ [][SubNext]_allVars

-----------------------------------------------------------------------------
IdsShown(s) == {shown[s][i].id : i \in DOMAIN shown[s]} \intersect Ids

Quiet ==
    /\ toCache = <<>> /\ envelopes = <<>> /\ closes = <<>> /\ cached = <<>> /\ toParser = <<>>
    /\ \A r \in Relays : wire[r] = <<>> /\ back[r] = <<>>
    /\ \A s \in Subs : batch[s] = <<>>

\* A client is given an event once per subscription, although it may come from
\* the cache and from several relays, batched or not, and be sent again after
\* the dedup ring of the connections worker has forgotten it: "an evicted id may
\* be forwarded again, where the parser-side dedup acts as the safety net"
\* (sub_dedup.rs).
ShownOnce ==
    \A s \in Subs : \A i, j \in DOMAIN shown[s] :
        i # j /\ shown[s][i].kind = "EVENT" /\ shown[s][i].id \in Ids => shown[s][i] # shown[s][j]

\* When the client of an open subscription is shown the EOSE of a relay, it has
\* been shown every event that the relay sent before it: neither batching, nor
\* dedup against another relay, nor the shards let the EOSE overtake one.
EoseAfterEvents ==
    \A s \in Subs, r \in Relays :
        sub[s].open /\ Eose(r) \in Range(shown[s]) => eosed[s][r] \subseteq IdsShown(s)

\* "... must be delivered once per subscription" (sub_dedup.rs): once all
\* channels are empty, an open subscription has been shown every event that a
\* relay sent for it since the client subscribed.
DeliveredPerSubscription ==
    \A s \in Subs : Quiet /\ sub[s].open => due[s] \subseteq IdsShown(s)

\* closeOnEose: once all channels are empty, no relay that answered keeps the
\* subscription open.
ClosedOnEose ==
    \A s \in Subs : Quiet /\ sub[s].open /\ sub[s].closeOnEose => \A r \in Relays : s \notin relayOpen[r]

\* "Full teardown is owned by manager cleanup via close_subscription()"
\* (parser_worker.rs): once all channels are empty, no relay keeps open a
\* subscription the client has closed.
FullTeardown ==
    \A s \in Subs : Quiet /\ ~sub[s].open => \A r \in Relays : s \notin relayOpen[r]
=============================================================================
