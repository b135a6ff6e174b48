------------------------- MODULE CacheWorkerProofs -------------------------
(***************************************************************************)
(* Proofs about CacheWorker, for any sets of subscriptions and events, any *)
(* time to live and any size of the registry and of a watch's ring.        *)
(***************************************************************************)
EXTENDS CacheWorker, TLAPS

\* A watch's ring is the end of what was delivered to it, as much as fits.
IsEnd(ring, D) ==
    /\ Len(ring) <= Len(D) /\ Len(ring) <= WatchCap
    /\ Len(ring) = Len(D) \/ Len(ring) = WatchCap
    /\ \A i \in 1..Len(ring) : ring[i] = D[Len(D) - Len(ring) + i]
Rings == \A s \in DOMAIN watches : IsEnd(watches[s], delivered[s])

\* What the query of a watch has still to answer: a live event is in the store
\* until it is read, among the events found until they are gone through, and
\* then delivered.
Stored ==
    /\ \A e \in Ids : IsLive(e) => e \in store
    /\ mesh.step # "idle" => mesh.id \in store
Watched ==
    /\ \A s \in DOMAIN watches : session[s] # "closed"
    /\ client.step # "idle" => session[client.sub] = "open"
    /\ client.step \in {"query", "answer"} /\ client.sub \in DOMAIN watches => client.req.meshOnly
Owed ==
    client.step \in {"answer", "retain"} /\ client.ok /\ client.sub \in DOMAIN watches =>
        \A e \in Ids : IsLive(e) =>
            \/ e \in Range(delivered[client.sub])
            \/ client.step = "answer" /\ e \in client.found
            \/ client.step = "retain" /\ e \in client.rest

Inv == TypeOK /\ Rings /\ Stored /\ Watched /\ Owed /\ WatchDeliversOnce /\ WatchMissesNothing

-----------------------------------------------------------------------------
\* MeshWatch::remember keeps the ring the end of what was delivered.
LEMMA RememberKeepsEnd ==
    ASSUME NEW ring \in Seq(Ids), NEW D \in Seq(Ids), NEW e \in Ids, IsEnd(ring, D)
    PROVE  Remember(ring, e) \in Seq(Ids) /\ IsEnd(Remember(ring, e), Append(D, e))
<1> USE CacheAssumption
<1> DEFINE longer == Append(ring, e)
           E == Append(D, e)
<1>1. longer \in Seq(Ids) /\ E \in Seq(Ids) /\ Len(longer) = Len(ring) + 1 /\ Len(E) = Len(D) + 1
      /\ longer[Len(ring) + 1] = e /\ E[Len(D) + 1] = e
      /\ (\A i \in 1..Len(ring) : longer[i] = ring[i]) /\ (\A i \in 1..Len(D) : E[i] = D[i])
  OBVIOUS
<1> HIDE DEF longer, E
<1>2. \A i \in 1..Len(longer) : longer[i] = E[Len(E) - Len(longer) + i]
  <2> SUFFICES ASSUME NEW i \in 1..Len(longer)
               PROVE  longer[i] = E[Len(E) - Len(longer) + i]
    BY Zenon
  <2>1. CASE i = Len(ring) + 1
    BY <1>1, <2>1 DEF IsEnd
  <2>2. CASE i \in 1..Len(ring)
    BY <1>1, <2>2 DEF IsEnd
  <2>3. i = Len(ring) + 1 \/ i \in 1..Len(ring)
    BY <1>1
  <2> QED BY Zenon, <2>1, <2>2, <2>3
<1>3. CASE Len(longer) > WatchCap
  <2>1. Remember(ring, e) = Tail(longer)
    BY Zenon, <1>3 DEF Remember, longer
  <2>2. Tail(longer) \in Seq(Ids) /\ Len(Tail(longer)) = Len(longer) - 1
        /\ \A i \in 1..Len(Tail(longer)) : Tail(longer)[i] = longer[i + 1]
    BY <1>1, <1>3
  <2>3. \A i \in 1..Len(Tail(longer)) : Tail(longer)[i] = E[Len(E) - Len(Tail(longer)) + i]
    BY <1>1, <1>2, <2>2
  <2>4. Len(ring) = WatchCap
    BY <1>1, <1>3 DEF IsEnd
  <2>5. IsEnd(Tail(longer), E)
    BY <1>1, <2>2, <2>3, <2>4 DEF IsEnd
  <2> QED BY Zenon, <2>1, <2>2, <2>5 DEF E
<1>4. CASE ~(Len(longer) > WatchCap)
  <2>1. Remember(ring, e) = longer
    BY Zenon, <1>4 DEF Remember, longer
  <2>2. Len(longer) <= WatchCap /\ Len(longer) = Len(E)
    BY <1>1, <1>4 DEF IsEnd
  <2>3. IsEnd(longer, E)
    BY <1>1, <1>2, <2>2 DEF IsEnd
  <2> QED BY Zenon, <1>1, <2>1, <2>3 DEF E
<1> QED BY Zenon, <1>3, <1>4

\* An event the ring does not hold is not among the last WatchCap - 1 delivered.
LEMMA NotRepeated ==
    ASSUME NEW ring \in Seq(Ids), NEW D \in Seq(Ids), NEW e \in Ids, IsEnd(ring, D), e \notin Range(ring),
           \A i, j \in DOMAIN D : i < j /\ j - i < WatchCap => D[i] # D[j]
    PROVE  \A i, j \in DOMAIN Append(D, e) : i < j /\ j - i < WatchCap => Append(D, e)[i] # Append(D, e)[j]
<1> USE CacheAssumption
<1> DEFINE E == Append(D, e)
<1>1. DOMAIN E = 1..Len(D) + 1 /\ E[Len(D) + 1] = e /\ \A i \in 1..Len(D) : E[i] = D[i]
  OBVIOUS
<1>2. \A i \in 1..Len(ring) : ring[i] # e
  BY DEF Range
<1> SUFFICES ASSUME NEW i \in 1..Len(D) + 1, NEW j \in 1..Len(D) + 1, i < j, j - i < WatchCap
             PROVE  E[i] # E[j]
  BY Zenon, <1>1
<1>3. CASE j \in 1..Len(D)
  BY <1>1, <1>3
<1>4. CASE j = Len(D) + 1
  <2> DEFINE k == i - (Len(D) - Len(ring))
  <2>1. k \in 1..Len(ring) /\ Len(D) - Len(ring) + k = i
    BY <1>4 DEF IsEnd
  <2>2. ring[k] = D[i]
    BY Zenon, <2>1 DEF IsEnd
  <2> QED BY <1>1, <1>2, <1>4, <2>1, <2>2
<1>5. j \in 1..Len(D) \/ j = Len(D) + 1
  OBVIOUS
<1> QED BY Zenon, <1>3, <1>4, <1>5
-----------------------------------------------------------------------------
(* What the operations on the index and the registry do.                   *)
LEMMA SeqElement == ASSUME NEW S, NEW q \in Seq(S), NEW i \in DOMAIN q PROVE q[i] \in S
  OBVIOUS

LEMMA IsASeq ==
    ASSUME NEW S, NEW q, NEW n \in Nat, q = [i \in 1..n |-> q[i]], \A i \in 1..n : q[i] \in S
    PROVE  q \in Seq(S)
  OBVIOUS

LEMMA DroppedFacts ==
    ASSUME NEW S, NEW q \in Seq(S), NEW k \in 0..Len(q)
    PROVE  /\ SubSeq(q, k + 1, Len(q)) \in Seq(S)
           /\ Len(SubSeq(q, k + 1, Len(q))) = Len(q) - k
           /\ \A i \in 1..Len(q) - k : SubSeq(q, k + 1, Len(q))[i] = q[i + k]
<1>1. Len(q) \in Nat /\ k \in Nat
  OBVIOUS
<1>2. SubSeq(q, k + 1, Len(q)) = [i \in 1..(Len(q) - k) |-> q[k + i]]
  BY <1>1
<1> QED BY <1>1, <1>2

\* prune drops entries of the queue's front, and ids whose entry it dropped.
LEMMA PruneFacts ==
    ASSUME TypeOK, Prune
    PROVE  \E k \in 0..Len(expiry) :
             /\ DOMAIN live' \subseteq DOMAIN live
             /\ \A e \in DOMAIN live' : live'[e] = live[e]
             /\ \A e \in DOMAIN live' : \A i \in 1..k : expiry[i] # [left |-> live[e], id |-> e]
             /\ expiry' \in Seq([left : 0..Ttl, id : Ids]) /\ Len(expiry') = Len(expiry) - k
             /\ \A i \in 1..Len(expiry) - k : expiry'[i] = expiry[i + k]
<1>1. PICK k \in 0..Len(expiry) : live' = LiveAfterPrune(k) /\ expiry' = SubSeq(expiry, k + 1, Len(expiry))
  BY Zenon DEF Prune
<1>2. expiry \in Seq([left : 0..Ttl, id : Ids])
  BY Zenon DEF TypeOK
<1>3. /\ expiry' \in Seq([left : 0..Ttl, id : Ids]) /\ Len(expiry') = Len(expiry) - k
      /\ \A i \in 1..Len(expiry) - k : expiry'[i] = expiry[i + k]
  BY Zenon, <1>1, <1>2, DroppedFacts
<1>4. DOMAIN live' \subseteq DOMAIN live /\ \A e \in DOMAIN live' : live'[e] = live[e]
  BY Zenon, <1>1 DEF LiveAfterPrune
<1>5. ASSUME NEW e \in DOMAIN live', NEW i \in 1..k, expiry[i] = [left |-> live[e], id |-> e]
      PROVE  FALSE
  <2>1. expiry[i].id = e /\ expiry[i].left = live[e] /\ e \in DOMAIN live
    BY <1>4, <1>5
  <2> QED BY Zenon, <1>1, <1>5, <2>1 DEF LiveAfterPrune
<1> QED BY Zenon, <1>3, <1>4, <1>5

LEMMA PrunedTypes ==
    ASSUME TypeOK, Prune
    PROVE  /\ live' \in [DOMAIN live' -> 0..Ttl] /\ DOMAIN live' \subseteq Ids
           /\ expiry' \in Seq([left : 0..Ttl, id : Ids])
<1>1. live' = [e \in DOMAIN live' |-> live'[e]]
  BY Zenon DEF Prune, LiveAfterPrune
<1> QED BY Zenon, <1>1, PruneFacts DEF TypeOK

\* Time passes for every entry of the queue.
LEMMA AgedQueue ==
    ASSUME TypeOK, Tick
    PROVE  /\ expiry' \in Seq([left : 0..Ttl, id : Ids]) /\ DOMAIN expiry' = DOMAIN expiry
           /\ \A i \in DOMAIN expiry : expiry'[i] = [left |-> Older(expiry[i].left), id |-> expiry[i].id]
<1>1. expiry \in Seq([left : 0..Ttl, id : Ids]) /\ expiry' = [i \in DOMAIN expiry |-> [expiry[i] EXCEPT !.left = Older(@)]]
  BY Zenon DEF Tick, TypeOK
<1>2. \A i \in DOMAIN expiry : expiry[i] \in [left : 0..Ttl, id : Ids]
  BY Zenon, <1>1, SeqElement
<1>3. \A x \in [left : 0..Ttl, id : Ids] :
        /\ [x EXCEPT !.left = Older(@)] = [left |-> Older(x.left), id |-> x.id]
        /\ [left |-> Older(x.left), id |-> x.id] \in [left : 0..Ttl, id : Ids]
  BY CacheAssumption DEF Older
<1>4. \A i \in DOMAIN expiry : expiry'[i] = [left |-> Older(expiry[i].left), id |-> expiry[i].id]
                               /\ expiry'[i] \in [left : 0..Ttl, id : Ids]
  BY Zenon, <1>1, <1>2, <1>3
<1>5. DOMAIN expiry' = 1..Len(expiry) /\ DOMAIN expiry = 1..Len(expiry) /\ Len(expiry) \in Nat
  BY <1>1
<1>6. expiry' = [i \in 1..Len(expiry) |-> expiry'[i]]
  BY Zenon, <1>1, <1>5
<1>7. expiry' \in Seq([left : 0..Ttl, id : Ids])
  BY Zenon, <1>4, <1>5, <1>6, IsASeq
<1> QED BY Zenon, <1>4, <1>5, <1>7

LEMMA AppendRange ==
    ASSUME NEW D \in Seq(Ids), NEW e \in Ids PROVE Range(Append(D, e)) = Range(D) \union {e}
<1> DEFINE E == Append(D, e)
<1>1. DOMAIN E = 1..Len(D) + 1 /\ DOMAIN D = 1..Len(D) /\ Len(D) \in Nat
      /\ E[Len(D) + 1] = e /\ \A i \in 1..Len(D) : E[i] = D[i]
  OBVIOUS
<1> HIDE DEF E
<1>2. DOMAIN E = DOMAIN D \union {Len(D) + 1}
  BY <1>1
<1>3. Range(E) = Range(D) \union {e}
  BY <1>1, <1>2 DEF Range
<1> QED BY Zenon, <1>3 DEF E

LEMMA RingIsDelivered ==
    ASSUME NEW ring \in Seq(Ids), NEW D \in Seq(Ids), IsEnd(ring, D) PROVE Range(ring) \subseteq Range(D)
<1> SUFFICES ASSUME NEW i \in 1..Len(ring) PROVE ring[i] \in Range(D)
  BY DEF Range
<1>1. Len(D) - Len(ring) + i \in DOMAIN D /\ ring[i] = D[Len(D) - Len(ring) + i]
  BY DEF IsEnd
<1> QED BY Zenon, <1>1 DEF Range

LEMMA TellTypes ==
    ASSUME TypeOK, NEW S, NEW e \in Ids, Tell(S, e), Rings
    PROVE  /\ watches' \in [DOMAIN watches' -> Seq(Ids)] /\ DOMAIN watches' = DOMAIN watches
           /\ delivered' \in [Subs -> Seq(Ids)]
<1> DEFINE told == {s \in S : s \notin DOMAIN watches \/ e \notin Range(watches[s])}
<1>1. /\ watches' = [s \in DOMAIN watches |-> IF s \in told THEN Remember(watches[s], e) ELSE watches[s]]
      /\ delivered' = [s \in Subs |-> IF s \in told THEN Append(delivered[s], e) ELSE delivered[s]]
  BY Zenon DEF Tell
<1> HIDE DEF told
<1>2. \A s \in DOMAIN watches : watches[s] \in Seq(Ids) /\ s \in Subs
  BY Zenon DEF TypeOK
<1>3. \A s \in Subs : delivered[s] \in Seq(Ids)
  BY Zenon DEF TypeOK
<1>4. \A s \in DOMAIN watches : Remember(watches[s], e) \in Seq(Ids)
  BY Zenon, <1>2, <1>3, RememberKeepsEnd DEF Rings
<1>5. \A s \in Subs : Append(delivered[s], e) \in Seq(Ids)
  BY <1>3
<1> QED BY Zenon, <1>1, <1>2, <1>3, <1>4, <1>5
\* A notification, or one turn of the loop over the hits: the watches it
\* concerns have the event afterwards, and none gets it twice.
LEMMA TellKeeps ==
    ASSUME TypeOK, Rings, WatchDeliversOnce, NEW S, NEW e \in Ids, Tell(S, e)
    PROVE  /\ Rings' /\ WatchDeliversOnce'
           /\ \A s \in DOMAIN watches :
                Range(delivered[s]) \subseteq Range(delivered'[s]) /\ (s \in S => e \in Range(delivered'[s]))
<1> DEFINE told == {s \in S : s \notin DOMAIN watches \/ e \notin Range(watches[s])}
<1>1. /\ watches' = [s \in DOMAIN watches |-> IF s \in told THEN Remember(watches[s], e) ELSE watches[s]]
      /\ delivered' = [s \in Subs |-> IF s \in told THEN Append(delivered[s], e) ELSE delivered[s]]
  BY Zenon DEF Tell
<1>2. ASSUME NEW s \in DOMAIN watches
      PROVE  /\ IsEnd(watches'[s], delivered'[s])
             /\ \A i, j \in DOMAIN delivered'[s] :
                  i < j /\ j - i < WatchCap => delivered'[s][i] # delivered'[s][j]
             /\ Range(delivered[s]) \subseteq Range(delivered'[s]) /\ (s \in S => e \in Range(delivered'[s]))
  <2>1. /\ watches[s] \in Seq(Ids) /\ delivered[s] \in Seq(Ids) /\ s \in Subs /\ IsEnd(watches[s], delivered[s])
        /\ \A i, j \in DOMAIN delivered[s] : i < j /\ j - i < WatchCap => delivered[s][i] # delivered[s][j]
    BY Zenon DEF TypeOK, Rings, WatchDeliversOnce
  <2>2. CASE s \in told
    <3>1. watches'[s] = Remember(watches[s], e) /\ delivered'[s] = Append(delivered[s], e)
      BY Zenon, <1>1, <2>1, <2>2
    <3>2. e \notin Range(watches[s])
      BY Zenon, <2>2
    <3>3. IsEnd(watches'[s], delivered'[s])
      BY Zenon, <2>1, <3>1, RememberKeepsEnd
    <3>4. \A i, j \in DOMAIN delivered'[s] :
            i < j /\ j - i < WatchCap => delivered'[s][i] # delivered'[s][j]
      BY Zenon, <2>1, <3>1, <3>2, NotRepeated
    <3>5. Range(Append(delivered[s], e)) = Range(delivered[s]) \union {e}
      BY Zenon, <2>1, AppendRange
    <3> QED BY Zenon, <3>1, <3>3, <3>4, <3>5
  <2>3. CASE s \notin told
    <3>1. watches'[s] = watches[s] /\ delivered'[s] = delivered[s]
      BY Zenon, <1>1, <2>1, <2>3
    <3>2. ASSUME s \in S PROVE e \in Range(delivered[s])
      <4>1. e \in Range(watches[s])
        BY Zenon, <2>3, <3>2
      <4> QED BY Zenon, <2>1, <4>1, RingIsDelivered
    <3> QED BY Zenon, <2>1, <3>1, <3>2
  <2> QED BY Zenon, <2>2, <2>3
<1>3. DOMAIN watches' = DOMAIN watches
  BY Zenon, <1>1
<1> QED BY Zenon, <1>2, <1>3 DEF Rings, WatchDeliversOnce
-----------------------------------------------------------------------------
(* Every step keeps the types.                                             *)
LEMMA TypesKept == ASSUME TypeOK, Rings, [Next]_vars PROVE TypeOK'
<1> USE CacheAssumption DEF ttlVars
<1>a. /\ watches \in [DOMAIN watches -> Seq(Ids)] /\ DOMAIN watches \subseteq Subs
      /\ live \in [DOMAIN live -> 0..Ttl] /\ DOMAIN live \subseteq Ids
  BY Zenon DEF TypeOK
<1>1. ASSUME NEW s \in Subs, ClientClose(s) PROVE TypeOK'
  <2>1. /\ DOMAIN watches' = DOMAIN watches \ {s}
        /\ watches' \in [DOMAIN watches \ {s} -> Seq(Ids)]
    BY Zenon, <1>1, <1>a DEF ClientClose, Without
  <2>2. watches' \in [DOMAIN watches' -> Seq(Ids)] /\ DOMAIN watches' \subseteq Subs
    BY Zenon, <1>a, <2>1
  <2> QED BY Zenon, <1>1, <2>2 DEF ClientClose, TypeOK
<1>2. ASSUME NEW s \in Subs, NEW r \in Requests, ClientQuery(s, r) PROVE TypeOK'
  <2>1. watches' \in [DOMAIN watches' -> Seq(Ids)] /\ DOMAIN watches' \subseteq Subs
    <3>1. <<>> \in Seq(Ids)
      OBVIOUS
    <3>2. CASE watches' = With(watches, s, <<>>)
      <4>1. /\ DOMAIN watches' = DOMAIN watches \union {s}
            /\ watches' \in [DOMAIN watches \union {s} -> Seq(Ids)]
        BY Zenon, <1>a, <3>1, <3>2 DEF With
      <4> QED BY Zenon, <1>a, <4>1
    <3> QED BY Zenon, <1>2, <1>a, <3>2 DEF ClientQuery, Registered
  <2>2. client' \in Clients
    BY Zenon, <1>2 DEF ClientQuery, Clients
  <2>3. delivered' \in [Subs -> Seq(Ids)]
    BY <1>2 DEF ClientQuery, TypeOK
  <2> QED BY Zenon, <1>2, <2>1, <2>2, <2>3 DEF ClientQuery, TypeOK
<1>3. CASE ClientRead
  <2>1. client' \in Clients
    <3>1. client.sub \in Subs /\ client.req \in Requests
      BY <1>3 DEF ClientRead, TypeOK, Clients, Idle
    <3> QED BY <1>3, <3>1 DEF ClientRead, TypeOK, Clients
  <2> QED BY Zenon, <1>3, <2>1 DEF ClientRead, TypeOK
<1>4. CASE ClientAnswer
  <2>1. client.sub \in Subs /\ client.req \in Requests /\ client.found \subseteq Ids /\ client.ok \in BOOLEAN
    BY <1>4 DEF ClientAnswer, TypeOK, Clients, Idle
  <2>2. client' \in Clients
    BY Zenon, <1>4, <2>1 DEF ClientAnswer, Hits, Clients
  <2>3. live' \in [DOMAIN live' -> 0..Ttl] /\ DOMAIN live' \subseteq Ids
        /\ expiry' \in Seq([left : 0..Ttl, id : Ids])
    BY Zenon, <1>4, PrunedTypes DEF ClientAnswer, TypeOK
  <2>4. upstream' \subseteq Requests
    BY Zenon, <1>4, <2>1 DEF ClientAnswer, TypeOK
  <2> QED BY Zenon, <1>4, <2>2, <2>3, <2>4 DEF ClientAnswer, TypeOK
<1>5. CASE ClientRetain
  <2>1. client.sub \in Subs /\ client.rest \subseteq Ids /\ client.ok \in BOOLEAN
        /\ client = [step |-> "retain", sub |-> client.sub, rest |-> client.rest, ok |-> client.ok]
    BY <1>5 DEF ClientRetain, TypeOK, Clients, Idle
  <2>2. ASSUME NEW e \in client.rest, Tell({client.sub}, e), client' = [client EXCEPT !.rest = @ \ {e}],
               UNCHANGED session
        PROVE  TypeOK'
    <3>1. client' \in Clients
      BY <2>1, <2>2 DEF Clients
    <3> QED BY Zenon, <1>5, <2>1, <2>2, <3>1, TellTypes DEF ClientRetain, TypeOK
  <2>3. CASE client' = Idle /\ UNCHANGED <<watches, delivered>>
             /\ session' = IF client.ok THEN [session EXCEPT ![client.sub] = "served"] ELSE session
    BY Zenon, <1>5, <2>3 DEF ClientRetain, TypeOK, Clients
  <2> QED BY Zenon, <1>5, <2>2, <2>3 DEF ClientRetain
<1>6. ASSUME NEW e \in Ids, MeshPersist(e) PROVE TypeOK'
  <2>1. mesh' \in [step : {"observe", "pin"}, id : Ids]
    BY <1>6 DEF MeshPersist
  <2> QED BY Zenon, <1>6, <2>1 DEF MeshPersist, TypeOK
<1>7. CASE MeshObserve
  <2>1. mesh.id \in Ids
    BY <1>7 DEF MeshObserve, TypeOK, Idle
  <2>2. /\ watches' \in [DOMAIN watches' -> Seq(Ids)] /\ DOMAIN watches' \subseteq Subs
        /\ delivered' \in [Subs -> Seq(Ids)]
    BY Zenon, <1>7, <2>1, TellTypes DEF MeshObserve, Notify, TypeOK
  <2>3. CASE Pin(mesh.id)
    <3>1. live' \in [DOMAIN live' -> 0..Ttl] /\ DOMAIN live' \subseteq Ids
      <4>1. DOMAIN live' = DOMAIN live \ {mesh.id} /\ live' \in [DOMAIN live \ {mesh.id} -> 0..Ttl]
        BY Zenon, <1>a, <2>3 DEF Pin, Without
      <4> QED BY Zenon, <1>a, <4>1
    <3> QED BY Zenon, <1>7, <2>1, <2>2, <2>3, <3>1 DEF MeshObserve, Pin, TypeOK
  <2>4. CASE Observe(mesh.id)
    <3>1. live' \in [DOMAIN live' -> 0..Ttl] /\ DOMAIN live' \subseteq Ids
      <4>1. Ttl \in 0..Ttl
        OBVIOUS
      <4>2. DOMAIN live' = DOMAIN live \union {mesh.id} /\ live' \in [DOMAIN live \union {mesh.id} -> 0..Ttl]
        BY Zenon, <1>a, <2>4, <4>1 DEF Observe, With
      <4> QED BY Zenon, <1>a, <2>1, <4>2
    <3>2. expiry' \in Seq([left : 0..Ttl, id : Ids])
      BY <2>1, <2>4 DEF Observe, TypeOK
    <3> QED BY Zenon, <1>7, <2>2, <2>4, <3>1, <3>2 DEF MeshObserve, Observe, TypeOK
  <2> QED BY Zenon, <1>7, <2>3, <2>4 DEF MeshObserve
<1>8. CASE MeshClearPin
  BY Zenon, <1>8 DEF MeshClearPin, TypeOK
<1>9. CASE MeshQuery
  BY Zenon, <1>9, PrunedTypes DEF MeshQuery, TypeOK
<1>10. CASE Tick
  <2>1. \A n \in 0..Ttl : Older(n) \in 0..Ttl
    BY DEF Older
  <2>2. live' \in [DOMAIN live' -> 0..Ttl] /\ DOMAIN live' \subseteq Ids
    BY Zenon, <1>10, <2>1 DEF Tick, TypeOK
  <2>3. expiry' \in Seq([left : 0..Ttl, id : Ids])
    BY Zenon, <1>10, AgedQueue DEF Tick, TypeOK
  <2> QED BY Zenon, <1>10, <2>2, <2>3 DEF Tick, TypeOK
<1>11. CASE UNCHANGED vars
  BY Zenon, <1>11 DEF vars, TypeOK
<1> QED BY Zenon, <1>1, <1>2, <1>3, <1>4, <1>5, <1>6, <1>7, <1>8, <1>9, <1>10, <1>11 DEF Next
-----------------------------------------------------------------------------
(* What each step keeps of the invariant.                                  *)
LEMMA LiveFacts ==
    ASSUME TypeOK, [Next]_vars
    PROVE  \A e \in Ids : IsLive(e)' => IsLive(e) \/ (MeshObserve /\ e = mesh.id)
<1> SUFFICES ASSUME NEW e \in Ids, IsLive(e)' PROVE IsLive(e) \/ (MeshObserve /\ e = mesh.id)
  BY Zenon
<1>1. CASE UNCHANGED ttlVars
  BY Zenon, <1>1 DEF ttlVars, IsLive
<1>2. CASE Prune /\ UNCHANGED pinned
  BY Zenon, <1>2, PruneFacts DEF IsLive
<1>3. CASE MeshObserve
  <2>1. CASE Pin(mesh.id)
    BY Zenon, <1>3, <2>1 DEF Pin, Without, IsLive
  <2>2. CASE Observe(mesh.id)
    BY Zenon, <1>3, <2>2 DEF Observe, With, IsLive
  <2> QED BY Zenon, <1>3, <2>1, <2>2 DEF MeshObserve
<1>4. CASE pinned' = None /\ UNCHANGED <<live, expiry>>
  BY Zenon, <1>4, CacheAssumption DEF IsLive
<1>5. CASE Tick
  <2>1. e \in DOMAIN live => live[e] \in Nat /\ live'[e] = Older(live[e])
    BY <1>5, CacheAssumption DEF Tick, TypeOK
  <2>2. DOMAIN live' = DOMAIN live /\ pinned' = pinned
    BY Zenon, <1>5 DEF Tick
  <2>3. e \in DOMAIN live /\ live'[e] > 0 => live[e] > 0
    BY <2>1 DEF Older
  <2> QED BY Zenon, <2>2, <2>3 DEF IsLive
<1>6. UNCHANGED ttlVars \/ (Prune /\ UNCHANGED pinned) \/ MeshObserve \/ Tick
      \/ (pinned' = None /\ UNCHANGED <<live, expiry>>)
  BY Zenon DEF Next, ClientRetain, ClientClose, ClientQuery, ClientRead, ClientAnswer, MeshPersist, MeshClearPin,
               MeshQuery, ttlVars, vars
<1> QED BY Zenon, <1>1, <1>2, <1>3, <1>4, <1>5, <1>6

LEMMA RingsKept == ASSUME Inv, [Next]_vars PROVE Rings' /\ WatchDeliversOnce'
<1>a. TypeOK /\ Rings /\ WatchDeliversOnce
  BY Zenon DEF Inv
<1>1. CASE UNCHANGED <<watches, delivered>>
  BY <1>a, <1>1 DEF Rings, WatchDeliversOnce
<1>2. ASSUME NEW S, NEW e \in Ids, Tell(S, e) PROVE Rings' /\ WatchDeliversOnce'
  BY Zenon, <1>a, <1>2, TellKeeps
<1>3. ASSUME NEW s \in Subs, ClientClose(s) PROVE Rings' /\ WatchDeliversOnce'
  <2>1. /\ delivered' = delivered /\ DOMAIN watches' \subseteq DOMAIN watches
        /\ \A t \in DOMAIN watches' : watches'[t] = watches[t]
    BY Zenon, <1>3 DEF ClientClose, Without
  <2> QED BY <1>a, <2>1 DEF Rings, WatchDeliversOnce
<1>4. ASSUME NEW s \in Subs, NEW r \in Requests, ClientQuery(s, r) PROVE Rings' /\ WatchDeliversOnce'
  <2>1. s \notin DOMAIN watches
    BY Zenon, <1>4 DEF ClientQuery, Inv, Watched
  <2>2. delivered'[s] = <<>> /\ \A t \in Subs : t # s => delivered'[t] = delivered[t]
    BY Zenon, <1>4, <1>a DEF ClientQuery, TypeOK
  <2>3. \A t \in DOMAIN watches' : (t = s /\ watches'[t] = <<>>)
                                   \/ (t # s /\ t \in DOMAIN watches /\ watches'[t] = watches[t])
    BY Zenon, <1>4, <2>1 DEF ClientQuery, Registered, With
  <2>4. IsEnd(<<>>, <<>>) /\ DOMAIN <<>> = {}
    BY CacheAssumption DEF IsEnd
  <2>5. \A t \in DOMAIN watches : t \in Subs
    BY Zenon, <1>a DEF TypeOK
  <2>6. ASSUME NEW t \in DOMAIN watches'
        PROVE  /\ IsEnd(watches'[t], delivered'[t])
               /\ \A i, j \in DOMAIN delivered'[t] :
                    i < j /\ j - i < WatchCap => delivered'[t][i] # delivered'[t][j]
    <3>1. CASE t = s
      BY Zenon, <2>2, <2>3, <2>4, <2>6, <3>1
    <3>2. CASE t # s
      <4>1. t \in DOMAIN watches /\ watches'[t] = watches[t] /\ delivered'[t] = delivered[t]
        BY Zenon, <2>2, <2>3, <2>5, <2>6, <3>2
      <4> QED BY Zenon, <1>a, <4>1 DEF Rings, WatchDeliversOnce
    <3> QED BY Zenon, <3>1, <3>2
  <2> QED BY Zenon, <2>6 DEF Rings, WatchDeliversOnce
<1>5. CASE ClientRetain
  <2>1. client.rest \subseteq Ids
    BY <1>5, <1>a DEF ClientRetain, TypeOK, Clients, Idle
  <2> QED BY Zenon, <1>1, <1>2, <1>5, <2>1 DEF ClientRetain
<1>6. CASE MeshObserve
  <2>1. mesh.id \in Ids
    BY <1>6, <1>a DEF MeshObserve, TypeOK, Idle
  <2> QED BY Zenon, <1>2, <1>6, <2>1 DEF MeshObserve, Notify
<1>7. CASE ClientRead \/ ClientAnswer \/ MeshClearPin \/ MeshQuery \/ Tick \/ UNCHANGED vars
  BY Zenon, <1>1, <1>7 DEF ClientRead, ClientAnswer, MeshClearPin, MeshQuery, Tick, vars
<1>8. ASSUME NEW e \in Ids, MeshPersist(e) PROVE Rings' /\ WatchDeliversOnce'
  BY Zenon, <1>1, <1>8 DEF MeshPersist
<1> QED BY Zenon, <1>3, <1>4, <1>5, <1>6, <1>7, <1>8 DEF Next
LEMMA StoredKept == ASSUME Inv, [Next]_vars PROVE Stored'
<1>a. TypeOK /\ Stored
  BY Zenon DEF Inv
<1>1. store \subseteq store'
  BY Zenon DEF Next, ClientRetain, ClientClose, ClientQuery, ClientRead, ClientAnswer, MeshPersist, MeshObserve,
               MeshClearPin, MeshQuery, Tick, vars
<1>2. MeshObserve => mesh.step # "idle"
  BY Zenon DEF MeshObserve
<1>3. \A e \in Ids : IsLive(e)' => e \in store'
  BY Zenon, <1>1, <1>2, <1>a, LiveFacts DEF Stored
<1>4. mesh'.step # "idle" => mesh'.id \in store'
  <2>1. CASE UNCHANGED mesh
    BY Zenon, <1>1, <1>a, <2>1 DEF Stored
  <2>2. ASSUME NEW e \in Ids, MeshPersist(e) PROVE mesh'.id \in store'
    BY <2>2 DEF MeshPersist
  <2>3. CASE MeshObserve
    BY Zenon, <2>3 DEF MeshObserve, Idle
  <2>4. UNCHANGED mesh \/ (\E e \in Ids : MeshPersist(e)) \/ MeshObserve
    BY Zenon DEF Next, ClientRetain, ClientClose, ClientQuery, ClientRead, ClientAnswer, MeshClearPin, MeshQuery,
                 Tick, vars
  <2> QED BY Zenon, <2>1, <2>2, <2>3, <2>4
<1> QED BY Zenon, <1>3, <1>4 DEF Stored

\* The steps of the client endpoint, by what they do to the registry.
LEMMA ClientFacts ==
    ASSUME TypeOK, [Next]_vars
    PROVE  \/ UNCHANGED <<client, session>> /\ DOMAIN watches' = DOMAIN watches
           \/ \E s \in Subs : ClientClose(s) \/ \E r \in Requests : ClientQuery(s, r)
           \/ ClientRead \/ ClientAnswer \/ ClientRetain
<1>1. MeshObserve => DOMAIN watches' = DOMAIN watches
  BY Zenon DEF MeshObserve, Notify, Tell
<1> QED BY Zenon, <1>1 DEF Next, MeshPersist, MeshObserve, MeshClearPin, MeshQuery, Tick, vars

LEMMA WatchedKept == ASSUME Inv, [Next]_vars PROVE Watched'
<1>a. TypeOK /\ Watched
  BY Zenon DEF Inv
<1>b. client.step # "idle" => client.sub \in Subs
  BY <1>a DEF TypeOK, Clients, Idle
<1>1. CASE UNCHANGED <<client, session>> /\ DOMAIN watches' = DOMAIN watches
  BY Zenon, <1>a, <1>1 DEF Watched
<1>2. ASSUME NEW s \in Subs, ClientClose(s) PROVE Watched'
  <2>1. /\ DOMAIN watches' = DOMAIN watches \ {s} /\ client' = client /\ client.step = "idle"
        /\ \A t \in Subs : t # s => session'[t] = session[t]
    BY Zenon, <1>2, <1>a DEF ClientClose, Without, TypeOK
  <2> QED BY Zenon, <1>a, <2>1 DEF Watched, TypeOK
<1>3. ASSUME NEW s \in Subs, NEW r \in Requests, ClientQuery(s, r) PROVE Watched'
  <2>1. s \notin DOMAIN watches
    BY Zenon, <1>3, <1>a DEF ClientQuery, Watched
  <2>2. client'.sub = s /\ client'.req = r /\ client'.step \in {"query", "answer"}
    BY Zenon, <1>3 DEF ClientQuery
  <2>3. session'[s] = "open" /\ \A t \in Subs : t # s => session'[t] = session[t]
    BY Zenon, <1>3, <1>a DEF ClientQuery, TypeOK
  <2>4. DOMAIN watches' \subseteq DOMAIN watches \union {s} /\ (s \in DOMAIN watches' => r.meshOnly)
    BY Zenon, <1>3, <2>1 DEF ClientQuery, Registered, With
  <2>5. \A t \in DOMAIN watches' : session'[t] # "closed"
    <3>1. "open" # "closed"
      BY Zenon
    <3> QED BY Zenon, <1>a, <2>3, <2>4, <3>1 DEF Watched, TypeOK
  <2> QED BY Zenon, <2>2, <2>3, <2>4, <2>5 DEF Watched
<1>4. CASE ClientRead
  <2>1. client'.sub = client.sub /\ client'.req = client.req /\ client.step = "query" /\ UNCHANGED <<watches, session>>
    BY <1>4 DEF ClientRead
  <2> QED BY Zenon, <1>a, <2>1 DEF Watched
<1>5. CASE ClientAnswer
  <2>1. client'.sub = client.sub /\ client'.step = "retain" /\ client.step = "answer" /\ UNCHANGED <<watches, session>>
    BY Zenon, <1>5 DEF ClientAnswer
  <2> QED BY Zenon, <1>a, <2>1 DEF Watched
<1>6. CASE ClientRetain
  <2>1. DOMAIN watches' = DOMAIN watches /\ client.step = "retain"
    BY Zenon, <1>6 DEF ClientRetain, Tell
  <2>2. CASE UNCHANGED session /\ \E e : client' = [client EXCEPT !.rest = @ \ {e}]
    <3>1. client'.sub = client.sub /\ client'.step = "retain"
      BY Zenon, <1>a, <2>1, <2>2 DEF TypeOK, Clients, Idle
    <3> QED BY Zenon, <1>a, <2>1, <2>2, <3>1 DEF Watched
  <2>3. CASE client' = Idle /\ session' = IF client.ok THEN [session EXCEPT ![client.sub] = "served"] ELSE session
    <3>1. client'.step = "idle"
      BY Zenon, <2>3 DEF Idle
    <3>2. \A t \in DOMAIN watches : session'[t] # "closed"
      BY Zenon, <1>a, <2>3 DEF Watched, TypeOK
    <3> QED BY Zenon, <2>1, <3>1, <3>2 DEF Watched
  <2> QED BY Zenon, <1>6, <2>2, <2>3 DEF ClientRetain
<1> QED BY Zenon, <1>a, <1>1, <1>2, <1>3, <1>4, <1>5, <1>6, ClientFacts
\* Outside the steps of the client endpoint a watch loses nothing, and what
\* becomes live is delivered to every watch.
LEMMA Reaches ==
    ASSUME Inv, [Next]_vars, UNCHANGED client
    PROVE  \A s \in DOMAIN watches \intersect DOMAIN watches' :
             /\ Range(delivered[s]) \subseteq Range(delivered'[s])
             /\ MeshObserve => mesh.id \in Range(delivered'[s])
<1>1. CASE MeshObserve
  <2>1. mesh.id \in Ids
    BY <1>1 DEF MeshObserve, Inv, TypeOK, Idle
  <2> QED BY Zenon, <1>1, <2>1, TellKeeps DEF MeshObserve, Notify, Inv
<1>2. CASE ~MeshObserve
  <2>1. ClientRetain => FALSE
    <3> SUFFICES ASSUME ClientRetain PROVE FALSE
      BY Zenon
    <3>1. client \in [step : {"retain"}, sub : Subs, rest : SUBSET Ids, ok : BOOLEAN]
      BY DEF ClientRetain, Inv, TypeOK, Clients, Idle
    <3> QED BY <3>1 DEF ClientRetain, Idle
  <2>2. ASSUME NEW s \in Subs, NEW r \in Requests, ClientQuery(s, r) PROVE FALSE
    BY <2>2 DEF ClientQuery
  <2>3. UNCHANGED delivered
    BY Zenon, <1>2, <2>1, <2>2 DEF Next, ClientClose, ClientRead, ClientAnswer, MeshPersist, MeshClearPin, MeshQuery,
                                   Tick, vars
  <2> QED BY Zenon, <1>2, <2>3
<1> QED BY Zenon, <1>1, <1>2

LEMMA OwedKept == ASSUME Inv, [Next]_vars PROVE Owed'
<1>a. TypeOK /\ Owed /\ Watched /\ Stored
  BY Zenon DEF Inv
<1>b. \A e \in Ids : IsLive(e)' => IsLive(e) \/ (MeshObserve /\ e = mesh.id)
  BY Zenon, <1>a, LiveFacts
<1>c. MeshObserve => UNCHANGED client
  BY Zenon DEF MeshObserve
<1>1. CASE UNCHANGED <<client, session>> /\ DOMAIN watches' = DOMAIN watches
  <2>1. \A s \in DOMAIN watches : /\ Range(delivered[s]) \subseteq Range(delivered'[s])
                                  /\ MeshObserve => mesh.id \in Range(delivered'[s])
    BY Zenon, <1>1, Reaches
  <2>2. client' = client /\ DOMAIN watches' = DOMAIN watches
    BY Zenon, <1>1
  <2> QED BY Zenon, <1>a, <1>b, <2>1, <2>2 DEF Owed
<1>2. ASSUME NEW s \in Subs, ClientClose(s) PROVE Owed'
  BY Zenon, <1>2 DEF ClientClose, Owed
<1>3. ASSUME NEW s \in Subs, NEW r \in Requests, ClientQuery(s, r) PROVE Owed'
  BY Zenon, <1>3 DEF ClientQuery, Owed
<1>4. CASE ClientRead
  <2>1. PICK ok \in BOOLEAN :
          client' = [step |-> "answer", sub |-> client.sub, req |-> client.req,
                     found |-> IF ok /\ client.req.meshOnly THEN store ELSE {}, ok |-> ok]
    BY Zenon, <1>4 DEF ClientRead
  <2>2. /\ client'.step = "answer" /\ client'.sub = client.sub /\ client'.ok = ok
        /\ ok /\ client.req.meshOnly => client'.found = store
    BY Zenon, <2>1
  <2>3. client.step = "query" /\ UNCHANGED <<watches, delivered>> /\ ~(client' = client)
    BY Zenon, <1>4, <2>2 DEF ClientRead
  <2>4. client.sub \in DOMAIN watches => client.req.meshOnly
    BY Zenon, <1>a, <2>3 DEF Watched
  <2>5. \A e \in Ids : IsLive(e)' => e \in store
    BY Zenon, <1>a, <1>b, <1>c, <2>3 DEF Stored
  <2> QED BY Zenon, <2>2, <2>3, <2>4, <2>5 DEF Owed
<1>5. CASE ClientAnswer
  <2>1. /\ client'.step = "retain" /\ client'.sub = client.sub /\ client'.ok = client.ok
        /\ client'.rest = {e \in client.found : IsLive(e)}
        /\ client.step = "answer" /\ UNCHANGED <<watches, delivered>>
    BY Zenon, <1>5 DEF ClientAnswer, Hits
  <2>2. \A e \in Ids : IsLive(e)' => IsLive(e)
    <3>1. ~(client' = client)
      BY Zenon, <2>1
    <3> QED BY Zenon, <1>b, <1>c, <3>1
  <2>3. "answer" # "retain"
    BY Zenon
  <2> QED BY Zenon, <1>a, <2>1, <2>2, <2>3 DEF Owed
<1>6. CASE ClientRetain
  <2>1. client \in [step : {"retain"}, sub : Subs, rest : SUBSET Ids, ok : BOOLEAN]
    BY <1>6, <1>a DEF ClientRetain, TypeOK, Clients, Idle
  <2>2. ASSUME NEW x \in client.rest, Tell({client.sub}, x), client' = [client EXCEPT !.rest = @ \ {x}]
        PROVE  Owed'
    <3>1. client'.step = "retain" /\ client'.sub = client.sub /\ client'.ok = client.ok /\ client.step = "retain"
          /\ client'.rest = client.rest \ {x}
      BY Zenon, <2>1, <2>2
    <3>2. x \in Ids /\ DOMAIN watches' = DOMAIN watches
      BY Zenon, <2>1, <2>2 DEF Tell
    <3>3. \A s \in DOMAIN watches : /\ Range(delivered[s]) \subseteq Range(delivered'[s])
                                    /\ s \in {client.sub} => x \in Range(delivered'[s])
      BY Zenon, <2>2, <3>2, TellKeeps DEF Inv
    <3>4. \A e : IsLive(e)' <=> IsLive(e)
      BY Zenon, <1>6 DEF ClientRetain, ttlVars, IsLive
    <3>5. "answer" # "retain"
      BY Zenon
    <3> QED BY Zenon, <1>a, <3>1, <3>2, <3>3, <3>4, <3>5 DEF Owed
  <2>3. CASE client' = Idle
    BY Zenon, <2>3 DEF Idle, Owed
  <2> QED BY Zenon, <1>6, <2>2, <2>3 DEF ClientRetain
<1> QED BY Zenon, <1>a, <1>1, <1>2, <1>3, <1>4, <1>5, <1>6, ClientFacts
LEMMA NothingMissedKept == ASSUME Inv, [Next]_vars PROVE WatchMissesNothing'
<1>a. TypeOK /\ Owed /\ Watched /\ WatchMissesNothing
  BY Zenon DEF Inv
<1>b. \A e \in Ids : IsLive(e)' => IsLive(e) \/ (MeshObserve /\ e = mesh.id)
  BY Zenon, <1>a, LiveFacts
<1>c. \A s \in DOMAIN watches : s \in Subs
  BY Zenon, <1>a DEF TypeOK
<1>1. CASE UNCHANGED <<client, session>> /\ DOMAIN watches' = DOMAIN watches
  <2>1. \A s \in DOMAIN watches : /\ Range(delivered[s]) \subseteq Range(delivered'[s])
                                  /\ MeshObserve => mesh.id \in Range(delivered'[s])
    BY Zenon, <1>1, Reaches
  <2>2. session' = session /\ DOMAIN watches' = DOMAIN watches
    BY Zenon, <1>1
  <2> QED BY Zenon, <1>a, <1>b, <2>1, <2>2 DEF WatchMissesNothing
<1>2. ASSUME NEW s \in Subs, ClientClose(s) PROVE WatchMissesNothing'
  <2>1. /\ DOMAIN watches' = DOMAIN watches \ {s} /\ delivered' = delivered
        /\ \A t \in Subs : t # s => session'[t] = session[t]
        /\ \A e : IsLive(e)' <=> IsLive(e)
    BY Zenon, <1>2, <1>a DEF ClientClose, Without, TypeOK, ttlVars, IsLive
  <2> QED BY Zenon, <1>a, <1>c, <2>1 DEF WatchMissesNothing
<1>3. ASSUME NEW s \in Subs, NEW r \in Requests, ClientQuery(s, r) PROVE WatchMissesNothing'
  <2>1. session'[s] = "open" /\ \A t \in Subs : t # s => session'[t] = session[t] /\ delivered'[t] = delivered[t]
    BY Zenon, <1>3, <1>a DEF ClientQuery, TypeOK
  <2>2. DOMAIN watches' \subseteq DOMAIN watches \union {s} /\ \A e : IsLive(e)' <=> IsLive(e)
    BY Zenon, <1>3 DEF ClientQuery, Registered, With, ttlVars, IsLive
  <2>3. "open" # "served"
    BY Zenon
  <2> QED BY Zenon, <1>a, <1>c, <2>1, <2>2, <2>3 DEF WatchMissesNothing
<1>4. CASE ClientRead \/ ClientAnswer
  <2>1. UNCHANGED <<watches, session, delivered, mesh>> /\ mesh.step = mesh'.step
    BY Zenon, <1>4 DEF ClientRead, ClientAnswer
  <2>2. ~MeshObserve
    BY <2>1 DEF MeshObserve, Idle
  <2> QED BY Zenon, <1>a, <1>b, <2>1, <2>2 DEF WatchMissesNothing
<1>5. CASE ClientRetain
  <2>1. client \in [step : {"retain"}, sub : Subs, rest : SUBSET Ids, ok : BOOLEAN]
    BY <1>5, <1>a DEF ClientRetain, TypeOK, Clients, Idle
  <2>2. \A e : IsLive(e)' <=> IsLive(e)
    BY Zenon, <1>5 DEF ClientRetain, ttlVars, IsLive
  <2>3. ASSUME NEW x \in client.rest, Tell({client.sub}, x), UNCHANGED session
        PROVE  WatchMissesNothing'
    <3>1. x \in Ids /\ DOMAIN watches' = DOMAIN watches
      BY Zenon, <2>1, <2>3 DEF Tell
    <3>2. \A s \in DOMAIN watches : Range(delivered[s]) \subseteq Range(delivered'[s])
      BY Zenon, <2>3, <3>1, TellKeeps DEF Inv
    <3> QED BY Zenon, <1>a, <2>2, <2>3, <3>1, <3>2 DEF WatchMissesNothing
  <2>4. ASSUME client.rest = {}, UNCHANGED <<watches, delivered>>,
               session' = IF client.ok THEN [session EXCEPT ![client.sub] = "served"] ELSE session
        PROVE  WatchMissesNothing'
    <3>1. client.step = "retain" /\ client.sub \in Subs /\ "answer" # "retain"
      BY Zenon, <2>1
    <3>2. \A s \in Subs : session'[s] = session[s] \/ (s = client.sub /\ client.ok)
      BY Zenon, <1>a, <2>4, <3>1 DEF TypeOK
    <3>3. client.ok /\ client.sub \in DOMAIN watches =>
            \A e \in Ids : IsLive(e) => e \in Range(delivered[client.sub])
      BY Zenon, <1>a, <2>4, <3>1 DEF Owed
    <3> QED BY Zenon, <1>a, <1>c, <2>2, <2>4, <3>2, <3>3 DEF WatchMissesNothing
  <2> QED BY Zenon, <1>5, <2>3, <2>4 DEF ClientRetain
<1> QED BY Zenon, <1>a, <1>1, <1>2, <1>3, <1>4, <1>5, ClientFacts

LEMMA QueuedKept == ASSUME TypeOK, LiveIsQueued, [Next]_vars PROVE LiveIsQueued'
<1>a. expiry \in Seq([left : 0..Ttl, id : Ids]) /\ DOMAIN expiry = 1..Len(expiry) /\ Len(expiry) \in Nat
  BY DEF TypeOK
<1>1. CASE UNCHANGED <<live, expiry>>
  BY Zenon, <1>1 DEF LiveIsQueued
<1>2. CASE Prune
  <2>1. PICK k \in 0..Len(expiry) :
             /\ DOMAIN live' \subseteq DOMAIN live
             /\ \A e \in DOMAIN live' : live'[e] = live[e]
             /\ \A e \in DOMAIN live' : \A i \in 1..k : expiry[i] # [left |-> live[e], id |-> e]
             /\ expiry' \in Seq([left : 0..Ttl, id : Ids]) /\ Len(expiry') = Len(expiry) - k
             /\ \A i \in 1..Len(expiry) - k : expiry'[i] = expiry[i + k]
    BY Zenon, <1>2, PruneFacts
  <2>2. ASSUME NEW e \in DOMAIN live'
        PROVE  \E i \in DOMAIN expiry' : expiry'[i] = [left |-> live'[e], id |-> e]
    <3>1. PICK i \in 1..Len(expiry) : expiry[i] = [left |-> live[e], id |-> e]
      BY Zenon, <1>a, <2>1, <2>2 DEF LiveIsQueued
    <3>2. i \notin 1..k
      BY Zenon, <2>1, <2>2, <3>1
    <3>3. i - k \in 1..Len(expiry) - k /\ (i - k) + k = i
      BY <1>a, <3>2
    <3>4. DOMAIN expiry' = 1..Len(expiry) - k
      BY <2>1
    <3>5. expiry'[i - k] = [left |-> live'[e], id |-> e]
      BY Zenon, <2>1, <2>2, <3>1, <3>3
    <3> QED BY Zenon, <3>3, <3>4, <3>5
  <2> QED BY Zenon, <2>2 DEF LiveIsQueued
<1>3. ASSUME Observe(mesh.id), mesh.id \in Ids PROVE LiveIsQueued'
  <2>1. /\ DOMAIN expiry' = 1..Len(expiry) + 1 /\ expiry'[Len(expiry) + 1] = [left |-> Ttl, id |-> mesh.id]
        /\ \A i \in 1..Len(expiry) : expiry'[i] = expiry[i]
    BY <1>a, <1>3, CacheAssumption DEF Observe
  <2>2. DOMAIN expiry \subseteq DOMAIN expiry' /\ Len(expiry) + 1 \in DOMAIN expiry'
    BY <1>a, <2>1
  <2>3. \A e \in DOMAIN live' : (e = mesh.id /\ live'[e] = Ttl) \/ (e \in DOMAIN live /\ live'[e] = live[e])
    BY Zenon, <1>3 DEF Observe, With
  <2> QED BY ZenonT(30), <1>a, <2>1, <2>2, <2>3 DEF LiveIsQueued
<1>4. CASE Pin(mesh.id)
  BY Zenon, <1>4 DEF Pin, Without, LiveIsQueued
<1>5. CASE Tick
  <2>1. /\ DOMAIN expiry' = DOMAIN expiry
        /\ \A i \in DOMAIN expiry : expiry'[i] = [left |-> Older(expiry[i].left), id |-> expiry[i].id]
    BY Zenon, <1>5, AgedQueue
  <2>2. DOMAIN live' = DOMAIN live /\ \A e \in DOMAIN live : live'[e] = Older(live[e])
    BY Zenon, <1>5 DEF Tick
  <2>3. ASSUME NEW e \in DOMAIN live
        PROVE  \E i \in DOMAIN expiry' : expiry'[i] = [left |-> live'[e], id |-> e]
    <3>1. PICK i \in DOMAIN expiry : expiry[i] = [left |-> live[e], id |-> e]
      BY Zenon DEF LiveIsQueued
    <3>2. expiry[i].left = live[e] /\ expiry[i].id = e
      BY <3>1
    <3> QED BY Zenon, <2>1, <2>2, <3>2
  <2> QED BY Zenon, <2>2, <2>3 DEF LiveIsQueued
<1>6. MeshObserve => mesh.id \in Ids
  BY DEF MeshObserve, TypeOK, Idle
<1> QED BY Zenon, <1>1, <1>2, <1>3, <1>4, <1>5, <1>6 DEF Next, ClientRetain, ClientClose, ClientQuery, ClientRead,
    ClientAnswer, MeshPersist, MeshObserve, MeshClearPin, MeshQuery, ttlVars, vars

-----------------------------------------------------------------------------
LEMMA InitInv == Init => Inv
<1>1. Init => TypeOK
  BY DEF Init, TypeOK, Clients
<1>2. Init => Rings /\ Stored /\ Watched /\ Owed /\ WatchDeliversOnce /\ WatchMissesNothing
  BY CacheAssumption DEF Init, Rings, Stored, Watched, Owed, WatchDeliversOnce, WatchMissesNothing, IsLive, Idle
<1> QED BY Zenon, <1>1, <1>2 DEF Inv

\* Both endpoints together, whatever they do while the other awaits its storage
\* and whatever time passes: the variables keep their types, and a watch is
\* sent what is live, nothing missing and nothing twice.
THEOREM WatchesExact == Spec => [](TypeOK /\ WatchExact)
<1>1. Inv /\ [Next]_vars => Inv'
  BY Zenon, TypesKept, RingsKept, StoredKept, WatchedKept, OwedKept, NothingMissedKept DEF Inv
<1>2. Inv => TypeOK /\ WatchExact
  BY Zenon DEF Inv, WatchExact
<1> QED BY <1>1, <1>2, InitInv, PTL DEF Spec

\* MeshTtlIndex does not leak: every id in `live` keeps an entry in the queue
\* with the same expiry, so that prune removes it, through every mix of repeated
\* observations, pins, prunes and passing time.
THEOREM LiveAlwaysQueued == Spec => []LiveIsQueued
<1> DEFINE I == Inv /\ LiveIsQueued
<1>1. Init => I
  <2>1. Init => LiveIsQueued
    BY DEF Init, LiveIsQueued
  <2> QED BY Zenon, <2>1, InitInv
<1>2. I /\ [Next]_vars => I'
  BY Zenon, TypesKept, RingsKept, StoredKept, WatchedKept, OwedKept, NothingMissedKept, QueuedKept DEF Inv
<1> QED BY <1>1, <1>2, PTL DEF Spec
=============================================================================
