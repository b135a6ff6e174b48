------------------------ MODULE SubscriptionsProofs ------------------------
(***************************************************************************)
(* Proofs about ConnectionsWorker and Subscriptions, for any finite sets   *)
(* of subscriptions and events, any relays and any bounds: that routing is *)
(* exact, that a client is shown an event once, and, for subscription ids  *)
(* that are not reused too early, that the events of a relay are all       *)
(* shown, before its EOSE, and that closeOnEose closes.                    *)
(***************************************************************************)
EXTENDS Subscriptions, TLAPS

-----------------------------------------------------------------------------
\* The routing tables of the connections worker.

\* RelaysExact with the types of the two variables it compares; inductive.
RouteInv ==
    /\ subRelays \in [Subs -> SUBSET Relays]
    /\ told \subseteq Relays \X Subs
    /\ RelaysExact

\* The actions that queue frames for relays keep RouteInv.
LEMMA EnvelopeKeeps ==
    ASSUME RouteInv, NEW s \in Subs, NEW R \in SUBSET Relays, SendEnvelope(s, R)
    PROVE  RouteInv'
<1>1. subRelays' = [subRelays EXCEPT ![s] = @ \union R] /\ told' = told \union (R \X {s})
  BY DEF SendEnvelope, SendRaw, Req
<1>2. subRelays' \in [Subs -> SUBSET Relays] /\ told' \subseteq Relays \X Subs
  BY <1>1 DEF RouteInv
<1>3. RelaysExact'
  BY <1>1, <1>2 DEF RouteInv, RelaysExact
<1> QED BY <1>2, <1>3 DEF RouteInv

LEMMA CloseAtKeeps ==
    ASSUME RouteInv, NEW s \in Subs, NEW r \in Relays, ParserCloseAt(s, r)
    PROVE  RouteInv'
<1>1. subRelays' = [subRelays EXCEPT ![s] = subRelays[s] \ {r}] /\ told' = told \ ({r} \X {s})
  BY DEF ParserCloseAt, SendRaw, Close
<1>2. subRelays' \in [Subs -> SUBSET Relays] /\ told' \subseteq Relays \X Subs
  BY <1>1 DEF RouteInv
<1>3. RelaysExact'
  BY <1>1, <1>2 DEF RouteInv, RelaysExact
<1> QED BY <1>2, <1>3 DEF RouteInv

LEMMA CloseKeeps ==
    ASSUME RouteInv, NEW s \in Subs, ParserClose(s)
    PROVE  RouteInv'
<1>1. subRelays' = [subRelays EXCEPT ![s] = {}] /\ told' = told \ (subRelays[s] \X {s})
  BY DEF ParserClose, SendRaw, Close
<1>2. subRelays' \in [Subs -> SUBSET Relays] /\ told' \subseteq Relays \X Subs
  BY <1>1 DEF RouteInv
<1>3. RelaysExact'
  BY <1>1, <1>2 DEF RouteInv, RelaysExact
<1> QED BY <1>2, <1>3 DEF RouteInv

\* The paths of relay frames to the parser do not touch the routing tables.
LEMMA FramesKeep ==
    ASSUME RouteInv,
           \/ \E r \in Relays : RelayRecv(r) \/ \E s \in Subs : RelayFrame(r, s)
           \/ \E S \in SUBSET Subs : Sweep(S)
           \/ ParserRecv
           \/ UNCHANGED vars
    PROVE  RouteInv'
<1>1. UNCHANGED <<subRelays, told>>
  BY DEF RelayRecv, RelayFrame, WriteControl, WriteEvent, Sweep, ParserRecv, vars
<1> QED BY <1>1 DEF RouteInv, RelaysExact

\* sub_relays names exactly the relays that were last told to open the
\* subscription: what send_envelope and the two CLOSE paths of the parser loop
\* maintain together.
THEOREM RoutingIsExact == Spec => []RelaysExact
<1>1. Init => RouteInv
  BY DEF Init, RouteInv, RelaysExact
<1>2. RouteInv /\ [Next]_vars => RouteInv'
  BY EnvelopeKeeps, CloseAtKeeps, CloseKeeps, FramesKeep DEF Next
<1>3. RouteInv => RelaysExact
  BY DEF RouteInv
<1> QED BY <1>1, <1>2, <1>3, PTL DEF Spec
-----------------------------------------------------------------------------
\* What the proofs say about a channel q: a message of D is on it; every message
\* of E has one of D before it; at most one message of D is on it.
Has(q, D) == \E k \in 1..Len(q) : q[k] \in D
Led(q, E, D) == \A k \in 1..Len(q) : q[k] \in E => \E j \in 1..k - 1 : q[j] \in D
Single(q, D) == \A j, k \in 1..Len(q) : q[j] \in D /\ q[k] \in D => j = k

\* The messages of the channels.  One to the parser carries events, or an EOSE.
CacheRequest(s) == [close |-> FALSE, sub |-> s]
CacheRequests == [close : BOOLEAN, sub : Subs]
Closes == [sub : Subs, url : Relays \union {NoUrl}]
Sent(s, x) == [sub |-> s, item |-> x]
SentBy(r) == [sub : Subs, item : Events \union {Eose(r)}]
Batches == {m \in [sub : Subs, items : Seq(Events)] : m.items # <<>>}
EndOf(s, r) == Message(s, <<Eose(r)>>)
Messages == Batches \union {m \in [sub : Subs, items : Seq(Items)] : \E r \in Relays : m = EndOf(m.sub, r)}
Carriers(s, id) == {m \in Batches : m.sub = s /\ Has(m.items, {Event(id)})}

ChannelTypes ==
    /\ sub \in [Subs -> Sub]
    /\ toCache \in Seq(CacheRequests) /\ envelopes \in Seq(Subs) /\ closes \in Seq(Closes)
    /\ cached \in Seq([sub : Subs, item : Events \union {Eoce}])
    /\ shown \in [Subs -> Seq(Items \union {Eoce})]
    /\ wire \in [Relays -> Seq(Frames)]
    /\ DOMAIN back = Relays /\ back = [r \in Relays |-> back[r]] /\ \A r \in Relays : back[r] \in Seq(SentBy(r))
    /\ batch \in [Subs -> Seq(Events)] /\ toParser \in Seq(Messages)
    /\ dedup \in [Subs -> Seq(Ids)] /\ subRelays \in [Subs -> SUBSET Relays]
    /\ relayOpen \in [Relays -> SUBSET Subs]
    /\ due \in [Subs -> SUBSET Ids] /\ eosed \in [Subs -> [Relays -> SUBSET Ids]]

\* An event is past the dedup of the connections worker, or was shown.
Held(s, id) ==
    Has(batch[s], {Event(id)}) \/ Has(toParser, Carriers(s, id)) \/ Has(shown[s], {Event(id)})

\* Nothing came of a REQ for s at r yet.
Silent(s, r) ==
    /\ eosed[s][r] = {} /\ s \notin relayOpen[r] /\ r \notin sub[s].closed
    /\ ~Has(back[r], {Sent(s, Eose(r))}) /\ ~Has(toParser, {EndOf(s, r)}) /\ ~Has(shown[s], {Eose(r)})

\* What was sent is on its way, held or shown; a remembered id is held or shown.
Kept(s) ==
    /\ \A id \in sub[s].seen : Has(shown[s], {Event(id)})
    /\ \A id \in Ids : Has(dedup[s], {id}) => Held(s, id)
    /\ \A id \in due[s] : Held(s, id) \/ \E r \in Relays : Has(back[r], {Sent(s, Event(id))})

\* An EOSE has the events sent before it before it on each channel, or they are
\* further than the channel.
Ordered(s) ==
    \A r \in Relays : \A id \in eosed[s][r] :
        /\ Held(s, id) \/ Led(back[r], {Sent(s, Eose(r))}, {Sent(s, Event(id))})
        /\ Has(shown[s], {Event(id)}) \/ Led(toParser, {EndOf(s, r)}, Carriers(s, id))
        /\ Has(shown[s], {Eose(r)}) => Has(shown[s], {Event(id)})

\* One REQ per relay: it is nowhere else, and has no answer, while it is on its way.
Pending(s, r) == Has(toCache, {CacheRequest(s)}) \/ Has(envelopes, {s}) \/ Has(wire[r], {Req(s)})
OneReq(s) ==
    /\ Single(toCache, {CacheRequest(s)}) /\ Single(envelopes, {s})
    /\ Has(toCache, {CacheRequest(s)}) => ~Has(envelopes, {s})
    /\ \A r \in Relays :
         /\ Single(wire[r], {Req(s)})
         /\ Has(toCache, {CacheRequest(s)}) \/ Has(envelopes, {s}) => ~Has(wire[r], {Req(s)})
         /\ Pending(s, r) => Silent(s, r)

\* A relay that has a closeOnEose subscription open will be sent CLOSE.
WillClose(s) ==
    sub[s].closeOnEose => \A r \in Relays : s \in relayOpen[r] =>
        \/ Has(closes, {[sub |-> s, url |-> r]}) \/ Has(wire[r], {Close(s)})
        \/ r \notin sub[s].closed /\ (Has(back[r], {Sent(s, Eose(r))}) \/ Has(toParser, {EndOf(s, r)}))

SessionInv ==
    /\ ChannelTypes
    /\ \A s \in Subs : sub[s].open => Kept(s) /\ Ordered(s) /\ OneReq(s) /\ WillClose(s)

\* Nothing is left of an earlier session of s that a new one could take for its own.
Untraced(s) ==
    /\ dedup[s] = <<>> /\ ~Has(toCache, {CacheRequest(s)}) /\ ~Has(envelopes, {s})
    /\ ~\E r \in Relays :
          \/ s \in relayOpen[r] \/ Has(wire[r], {Req(s)})
          \/ Has(back[r], {Sent(s, Eose(r))}) \/ Has(toParser, {EndOf(s, r)})
FreshOpens == \A s \in Subs : ~sub[s].open /\ sub'[s].open => Untraced(s)

SessionSpec == SubInit /\ [][SubNext /\ FreshOpens]_allVars

\* What Has, Led and Single say after each operation on a channel.
LEMMA Empties ==
    ASSUME NEW E, NEW D
    PROVE  ~Has(<<>>, D) /\ Led(<<>>, E, D) /\ Single(<<>>, D)
  BY DEF Has, Led, Single

LEMMA Appends ==
    ASSUME NEW S, NEW q \in Seq(S), NEW x \in S, NEW E, NEW D
    PROVE  /\ Append(q, x) \in Seq(S)
           /\ Has(Append(q, x), D) <=> Has(q, D) \/ x \in D
           /\ Led(q, E, D) /\ (x \in E => Has(q, D)) => Led(Append(q, x), E, D)
           /\ Single(q, D) /\ ~(Has(q, D) /\ x \in D) => Single(Append(q, x), D)
<1> DEFINE p == Append(q, x)
<1>1. p \in Seq(S) /\ Len(p) = Len(q) + 1 /\ p[Len(q) + 1] = x /\ Len(q) \in Nat
  OBVIOUS
<1>2. \A k \in 1..Len(q) : p[k] = q[k] /\ k \in 1..Len(p)
  OBVIOUS
<1>3. \A k \in 1..Len(p) : k \in 1..Len(q) \/ k = Len(q) + 1
  BY <1>1
<1>4. Len(q) + 1 \in 1..Len(p) /\ (Len(q) + 1) - 1 = Len(q)
  BY <1>1
<1>5. \A k \in 1..Len(q) : \A j \in 1..k - 1 : j \in 1..Len(q)
  BY <1>1
<1> HIDE DEF p
<1>6. Has(p, D) <=> Has(q, D) \/ x \in D
  BY Zenon, <1>1, <1>2, <1>3, <1>4 DEF Has
<1>7. ASSUME Led(q, E, D), x \in E => Has(q, D) PROVE Led(p, E, D)
  <2> SUFFICES ASSUME NEW k \in 1..Len(p), p[k] \in E PROVE \E j \in 1..k - 1 : p[j] \in D
    BY Zenon DEF Led
  <2>1. CASE k \in 1..Len(q)
    BY Zenon, <1>2, <1>5, <1>7, <2>1 DEF Led
  <2>2. CASE k = Len(q) + 1
    BY Zenon, <1>1, <1>2, <1>4, <1>7, <2>2 DEF Has
  <2> QED BY Zenon, <1>3, <2>1, <2>2
<1>8. ASSUME Single(q, D), ~(Has(q, D) /\ x \in D) PROVE Single(p, D)
  BY Zenon, <1>1, <1>2, <1>3, <1>8 DEF Single, Has
<1> QED BY Zenon, <1>1, <1>6, <1>7, <1>8 DEF p

LEMMA Tails ==
    ASSUME NEW S, NEW q \in Seq(S), q # <<>>, NEW E, NEW D
    PROVE  /\ Tail(q) \in Seq(S) /\ Head(q) \in S
           /\ Has(q, D) <=> Head(q) \in D \/ Has(Tail(q), D)
           /\ Led(q, E, D) /\ Head(q) \notin D => Led(Tail(q), E, D)
           /\ Led(q, E, D) => Head(q) \notin E
           /\ Single(q, D) => Single(Tail(q), D) /\ (Head(q) \in D => ~Has(Tail(q), D))
<1> DEFINE p == Tail(q)
<1>1. p \in Seq(S) /\ Len(p) = Len(q) - 1 /\ Head(q) = q[1] /\ Len(q) \in Nat \ {0} /\ Head(q) \in S
  OBVIOUS
<1>2. \A k \in 1..Len(p) : p[k] = q[k + 1] /\ k + 1 \in 1..Len(q) /\ k + 1 # 1 /\ (k + 1) - 1 = k
  OBVIOUS
<1>3. \A k \in 1..Len(q) : k = 1 \/ (k - 1 \in 1..Len(p) /\ p[k - 1] = q[k])
  OBVIOUS
<1>4. 1 \in 1..Len(q)
  BY <1>1
<1>5. \A k \in 1..Len(p) : \A j \in 1..(k + 1) - 1 : j = 1 \/ (j - 1 \in 1..k - 1 /\ p[j - 1] = q[j])
  OBVIOUS
<1>6. \A j \in 1..1 - 1 : FALSE
  OBVIOUS
<1>7. \A j, k \in 1..Len(p) : j + 1 = k + 1 => j = k
  BY <1>1
<1> HIDE DEF p
<1>8. Has(q, D) <=> Head(q) \in D \/ Has(p, D)
  BY Zenon, <1>1, <1>2, <1>3, <1>4 DEF Has
<1>9. ASSUME Led(q, E, D), Head(q) \notin D PROVE Led(p, E, D)
  <2> SUFFICES ASSUME NEW k \in 1..Len(p), p[k] \in E PROVE \E j \in 1..k - 1 : p[j] \in D
    BY Zenon DEF Led
  <2>1. PICK j \in 1..(k + 1) - 1 : q[j] \in D
    BY Zenon, <1>2, <1>9 DEF Led
  <2> QED BY Zenon, <1>1, <1>5, <1>9, <2>1
<1>10. Led(q, E, D) => Head(q) \notin E
  BY Zenon, <1>1, <1>4, <1>6 DEF Led
<1>11. ASSUME Single(q, D) PROVE Single(p, D) /\ (Head(q) \in D => ~Has(p, D))
  <2>1. Single(p, D)
    <3> SUFFICES ASSUME NEW j \in 1..Len(p), NEW k \in 1..Len(p), p[j] \in D, p[k] \in D PROVE j = k
      BY Zenon DEF Single
    <3>1. j + 1 = k + 1
      BY Zenon, <1>2, <1>11 DEF Single
    <3> QED BY Zenon, <1>7, <3>1
  <2>2. ASSUME Head(q) \in D, NEW k \in 1..Len(p), p[k] \in D PROVE FALSE
    BY Zenon, <1>1, <1>2, <1>4, <1>11, <2>2 DEF Single
  <2> QED BY Zenon, <2>1, <2>2 DEF Has
<1> QED BY Zenon, <1>1, <1>8, <1>9, <1>10, <1>11 DEF p

LEMMA Concats ==
    ASSUME NEW S, NEW q \in Seq(S), NEW t \in Seq(S), NEW E, NEW D
    PROVE  /\ q \o t \in Seq(S)
           /\ Has(q \o t, D) <=> Has(q, D) \/ Has(t, D)
           /\ Led(q, E, D) /\ (Led(t, E, D) \/ Has(q, D)) => Led(q \o t, E, D)
<1> DEFINE p == q \o t
<1>1. p \in Seq(S) /\ Len(p) = Len(q) + Len(t) /\ Len(q) \in Nat /\ Len(t) \in Nat
  OBVIOUS
<1>2. \A k \in 1..Len(q) : p[k] = q[k] /\ k \in 1..Len(p)
  OBVIOUS
<1>3. \A k \in 1..Len(t) : p[Len(q) + k] = t[k] /\ Len(q) + k \in 1..Len(p)
  OBVIOUS
<1>4. \A k \in 1..Len(p) : k \in 1..Len(q) \/ (k - Len(q) \in 1..Len(t) /\ p[k] = t[k - Len(q)] /\ 1..Len(q) \subseteq 1..k - 1)
  OBVIOUS
<1>5. \A k \in 1..Len(q) : \A j \in 1..k - 1 : j \in 1..Len(q)
  BY <1>1
<1>6. \A k \in 1..Len(p) : \A j \in 1..(k - Len(q)) - 1 : k - Len(q) \in 1..Len(t) => j \in 1..Len(t) /\ Len(q) + j \in 1..k - 1
  BY <1>1
<1> HIDE DEF p
<1>7. Has(p, D) <=> Has(q, D) \/ Has(t, D)
  BY Zenon, <1>1, <1>2, <1>3, <1>4 DEF Has
<1>8. ASSUME Led(q, E, D), Led(t, E, D) \/ Has(q, D) PROVE Led(p, E, D)
  <2> SUFFICES ASSUME NEW k \in 1..Len(p), p[k] \in E PROVE \E j \in 1..k - 1 : p[j] \in D
    BY Zenon DEF Led
  <2>1. CASE k \in 1..Len(q)
    BY Zenon, <1>2, <1>5, <1>8, <2>1 DEF Led
  <2>2. CASE k \notin 1..Len(q) /\ Has(q, D)
    BY Zenon, <1>2, <1>4, <2>2 DEF Has
  <2>3. CASE k \notin 1..Len(q) /\ Led(t, E, D)
    <3>1. k - Len(q) \in 1..Len(t) /\ t[k - Len(q)] \in E
      BY Zenon, <1>4, <2>3
    <3>2. PICK j \in 1..(k - Len(q)) - 1 : t[j] \in D
      BY Zenon, <2>3, <3>1 DEF Led
    <3> QED BY Zenon, <1>3, <1>6, <3>1, <3>2
  <2> QED BY Zenon, <1>8, <2>1, <2>2, <2>3
<1> QED BY Zenon, <1>1, <1>7, <1>8 DEF p

LEMMA Removals ==
    ASSUME NEW S, NEW q \in Seq(S), NEW i \in 1..Len(q), NEW E, NEW D
    PROVE  /\ Without(q, i) \in Seq(S)
           /\ Has(Without(q, i), D) => Has(q, D)
           /\ Has(q, D) /\ q[i] \notin D => Has(Without(q, i), D)
           /\ Led(q, E, D) /\ q[i] \notin D => Led(Without(q, i), E, D)
<1>e. \A u, v \in Seq(S) : u \o v \in Seq(S) /\ Len(u \o v) = Len(u) + Len(v)
  OBVIOUS
<1> DEFINE a == SubSeq(q, 1, i - 1)
           b == SubSeq(q, i + 1, Len(q))
           p == a \o b
<1>a. Without(q, i) = p
  BY Zenon DEF Without
<1>b. a \in Seq(S) /\ Len(a) = i - 1 /\ \A k \in 1..i - 1 : a[k] = q[k]
  OBVIOUS
<1>c. b \in Seq(S) /\ Len(b) = Len(q) - i /\ \A k \in 1..Len(q) - i : b[k] = q[i + k]
  OBVIOUS
<1> HIDE DEF a, b
<1>d. p \in Seq(S) /\ Len(p) = Len(a) + Len(b)
  BY Zenon, <1>b, <1>c, <1>e
<1>1. p \in Seq(S) /\ Len(p) = Len(q) - 1 /\ Len(q) \in Nat \ {0} /\ i \in Nat
  BY <1>b, <1>c, <1>d
<1>2. \A k \in 1..Len(p) :
        \/ k < i /\ p[k] = q[k] /\ k \in 1..Len(q)
        \/ ~(k < i) /\ p[k] = q[k + 1] /\ k + 1 \in 1..Len(q)
  <2> TAKE k \in 1..Len(p)
  <2>1. CASE k < i
    BY <1>1, <1>b, <1>c, <2>1
  <2>2. CASE ~(k < i)
    <3>1. k - (i - 1) \in 1..Len(b) /\ p[k] = b[k - (i - 1)]
      BY <1>1, <1>b, <1>c, <2>2
    <3>2. i + (k - (i - 1)) = k + 1 /\ k + 1 \in 1..Len(q) /\ k - (i - 1) \in 1..Len(q) - i
      BY <1>1, <2>2
    <3> QED BY Zenon, <1>c, <2>2, <3>1, <3>2
  <2> QED BY Zenon, <2>1, <2>2
<1>3. \A k \in 1..Len(q) : k = i \/ (k < i /\ k \in 1..Len(p)) \/ (i < k /\ k - 1 \in 1..Len(p) /\ ~(k - 1 < i) /\ (k - 1) + 1 = k)
  BY <1>1
<1>4. \A k \in 1..Len(p) : k < i => \A j \in 1..k - 1 : j \in 1..Len(p) /\ j < i
  BY <1>1
<1>5. \A k \in 1..Len(p) : ~(k < i) => \A j \in 1..(k + 1) - 1 :
        \/ j = i
        \/ (j < i /\ j \in 1..k - 1 /\ j \in 1..Len(p))
        \/ (i < j /\ j - 1 \in 1..k - 1 /\ j - 1 \in 1..Len(p) /\ ~(j - 1 < i) /\ (j - 1) + 1 = j)
  BY <1>1
<1> HIDE DEF p
<1>6. Has(p, D) => Has(q, D)
  BY Zenon, <1>2 DEF Has
<1>7. Has(q, D) /\ q[i] \notin D => Has(p, D)
  BY Zenon, <1>2, <1>3 DEF Has
<1>8. ASSUME Led(q, E, D), q[i] \notin D PROVE Led(p, E, D)
  <2> SUFFICES ASSUME NEW k \in 1..Len(p), p[k] \in E PROVE \E j \in 1..k - 1 : p[j] \in D
    BY Zenon DEF Led
  <2>1. CASE k < i
    BY Zenon, <1>2, <1>4, <1>8, <2>1 DEF Led
  <2>2. CASE ~(k < i)
    <3>1. PICK j \in 1..(k + 1) - 1 : q[j] \in D
      BY Zenon, <1>2, <1>8, <2>2 DEF Led
    <3> QED BY Zenon, <1>2, <1>5, <1>8, <2>2, <3>1
  <2> QED BY Zenon, <2>1, <2>2
<1> QED BY Zenon, <1>a, <1>1, <1>6, <1>7, <1>8

LEMMA SeqSub ==
    ASSUME NEW S, NEW T, S \subseteq T, NEW q \in Seq(S)
    PROVE  q \in Seq(T)
  OBVIOUS

-----------------------------------------------------------------------------
\* The messages to the parser.
LEMMA Kinds ==
    /\ \A id \in Ids \union {NoId} : Event(id) \in Events
    /\ \A x \in Events : x = Event(x.id) /\ x.id \in Ids \union {NoId} /\ x.kind = "EVENT"
    /\ \A r \in Relays : Eose(r) \in Controls
    /\ \A r : Eose(r) \notin Events /\ Eose(r) # Eoce
    /\ \A id : Event(id) # Eoce /\ \A r : Event(id) # Eose(r)
    /\ \A id1, id2 : Event(id1) = Event(id2) => id1 = id2
    /\ \A r1, r2 : Eose(r1) = Eose(r2) => r1 = r2
  BY DEF Events, Controls, Event, Eose, Eoce

LEMMA EndFacts ==
    ASSUME NEW s, NEW r
    PROVE  /\ s \in Subs /\ r \in Relays => EndOf(s, r) \in Messages
           /\ EndOf(s, r) \notin Batches
<1>1. EndOf(s, r).items = <<Eose(r)>> /\ EndOf(s, r).sub = s
  BY Zenon DEF EndOf, Message
<1>2. Len(<<Eose(r)>>) = 1 /\ <<Eose(r)>>[1] = Eose(r) /\ (Eose(r) \in Items => <<Eose(r)>> \in Seq(Items))
  OBVIOUS
<1>3. ASSUME s \in Subs, r \in Relays PROVE EndOf(s, r) \in Messages
  <2>1. Eose(r) \in Items
    BY Zenon, <1>3, Kinds DEF Items
  <2> QED BY Zenon, <1>1, <1>2, <1>3, <2>1 DEF Messages, EndOf, Message
<1>4. \A q \in Seq(Events) : Len(q) = 1 => q[1] \in Events
  OBVIOUS
<1>5. <<Eose(r)>> \notin Seq(Events)
  BY Zenon, <1>2, <1>4, Kinds
<1> QED BY Zenon, <1>1, <1>3, <1>5 DEF Batches

LEMMA EndInjective ==
    ASSUME NEW s1, NEW s2, NEW r1, NEW r2, EndOf(s1, r1) = EndOf(s2, r2)
    PROVE  s1 = s2 /\ r1 = r2
<1>1. s1 = s2 /\ <<Eose(r1)>> = <<Eose(r2)>>
  BY DEF EndOf, Message
<1> QED BY <1>1 DEF Eose

LEMMA BatchFacts ==
    ASSUME NEW s \in Subs, NEW b \in Seq(Events), b # <<>>
    PROVE  Message(s, b) \in Batches /\ Message(s, b) \in Messages
  BY Zenon DEF Batches, Message, Messages

LEMMA MessageCases ==
    ASSUME NEW m \in Messages
    PROVE  m.sub \in Subs /\ (m \in Batches \/ \E r \in Relays : m = EndOf(m.sub, r))
  BY Zenon DEF Messages, Batches

LEMMA CarrierFacts ==
    ASSUME NEW s, NEW id
    PROVE  /\ \A s1, r1 : EndOf(s1, r1) \notin Carriers(s, id)
           /\ \A m \in Batches : m \in Carriers(s, id) <=> m.sub = s /\ Has(m.items, {Event(id)})
<1>1. \A s1, r1 : EndOf(s1, r1) \notin Carriers(s, id)
  BY Zenon, EndFacts DEF Carriers
<1> QED BY Zenon, <1>1 DEF Carriers

\* Batches sent to the parser come behind what is on the channel.
LEMMA Sends ==
    ASSUME NEW q \in Seq(Messages), NEW t \in Seq(Batches), NEW s, NEW id, NEW r
    PROVE  /\ q \o t \in Seq(Messages)
           /\ Has(q \o t, Carriers(s, id)) <=> Has(q, Carriers(s, id)) \/ Has(t, Carriers(s, id))
           /\ Led(q, {EndOf(s, r)}, Carriers(s, id)) => Led(q \o t, {EndOf(s, r)}, Carriers(s, id))
           /\ Has(q \o t, {EndOf(s, r)}) <=> Has(q, {EndOf(s, r)})
<1>1. t \in Seq(Messages) /\ \A k \in 1..Len(t) : t[k] # EndOf(s, r)
  <2>1. Batches \subseteq Messages
    BY Zenon DEF Messages
  <2>2. \A S1, S2 : S1 \subseteq S2 => \A u \in Seq(S1) : u \in Seq(S2) /\ \A k \in 1..Len(u) : u[k] \in S1
    OBVIOUS
  <2> QED BY Zenon, <2>1, <2>2, EndFacts
<1>2. ~Has(t, {EndOf(s, r)}) /\ Led(t, {EndOf(s, r)}, Carriers(s, id))
  BY Zenon, <1>1 DEF Has, Led
<1> QED BY Zenon, <1>1, <1>2, Concats

\* An EOSE comes behind it too.
LEMMA Ends ==
    ASSUME NEW q \in Seq(Messages), NEW s1 \in Subs, NEW r1 \in Relays, NEW s, NEW id, NEW r
    PROVE  /\ Append(q, EndOf(s1, r1)) \in Seq(Messages)
           /\ Has(Append(q, EndOf(s1, r1)), Carriers(s, id)) <=> Has(q, Carriers(s, id))
           /\ Led(q, {EndOf(s, r)}, Carriers(s, id)) /\ (s = s1 /\ r = r1 => Has(q, Carriers(s, id)))
                => Led(Append(q, EndOf(s1, r1)), {EndOf(s, r)}, Carriers(s, id))
           /\ Has(Append(q, EndOf(s1, r1)), {EndOf(s, r)}) <=> Has(q, {EndOf(s, r)}) \/ (s = s1 /\ r = r1)
<1>1. EndOf(s1, r1) \in Messages /\ EndOf(s1, r1) \notin Carriers(s, id)
  BY Zenon, EndFacts, CarrierFacts
<1>2. EndOf(s1, r1) \in {EndOf(s, r)} <=> s = s1 /\ r = r1
  BY Zenon, EndInjective
<1> DEFINE x == EndOf(s1, r1)
           D == Carriers(s, id)
           E == {EndOf(s, r)}
<1> HIDE DEF x, D, E
<1>3. x \in Messages /\ x \notin D /\ (x \in E <=> s = s1 /\ r = r1)
  BY Zenon, <1>1, <1>2 DEF x, D, E
<1>4. Append(q, x) \in Seq(Messages) /\ (Has(Append(q, x), E) <=> Has(q, E) \/ x \in E)
  BY Zenon, <1>3, Appends
<1>5. /\ Has(Append(q, x), D) <=> Has(q, D) \/ x \in D
      /\ Led(q, E, D) /\ (x \in E => Has(q, D)) => Led(Append(q, x), E, D)
  BY Zenon, <1>3, Appends
<1> QED BY Zenon, <1>3, <1>4, <1>5 DEF x, D, E

\* The parser takes the first event of a batch.
Rest(q, i) == IF Tail(q[i].items) = <<>> THEN Without(q, i) ELSE [q EXCEPT ![i].items = Tail(q[i].items)]

LEMMA TakesEvent ==
    ASSUME NEW q \in Seq(Messages), NEW i \in 1..Len(q), q[i] \in Batches, NEW s, NEW id, NEW r
    PROVE  /\ Rest(q, i) \in Seq(Messages) /\ Head(q[i].items) \in Events
           /\ ~(s = q[i].sub /\ Event(id) = Head(q[i].items)) =>
                /\ Has(q, Carriers(s, id)) => Has(Rest(q, i), Carriers(s, id))
                /\ Led(q, {EndOf(s, r)}, Carriers(s, id)) => Led(Rest(q, i), {EndOf(s, r)}, Carriers(s, id))
           /\ Has(Rest(q, i), {EndOf(s, r)}) <=> Has(q, {EndOf(s, r)})
<1> DEFINE p == Rest(q, i)
           items == q[i].items
           D == Carriers(s, id)
           E == {EndOf(s, r)}
<1>1. items \in Seq(Events) /\ items # <<>> /\ q[i].sub \in Subs /\ q[i] = Message(q[i].sub, items)
  BY DEF Batches, Message
<1>2. Tail(items) \in Seq(Events) /\ Head(items) \in Events
  BY Zenon, <1>1, Tails
<1>3. q[i] \notin E
  BY Zenon, EndFacts
<1>4. ASSUME q[i] \in D, ~(s = q[i].sub /\ Event(id) = Head(items)) PROVE Has(Tail(items), {Event(id)})
  <2>1. Has(items, {Event(id)}) /\ q[i].sub = s /\ Head(items) \notin {Event(id)}
    BY Zenon, <1>4 DEF Carriers
  <2> HIDE DEF items, D
  <2> QED BY Zenon, <1>1, <2>1, Tails
<1>5. CASE Tail(items) = <<>>
  <2>1. p = Without(q, i)
    BY Zenon, <1>5 DEF Rest
  <2>2. q[i] \notin D \/ (s = q[i].sub /\ Event(id) = Head(items))
    BY Zenon, <1>4, <1>5, Empties
  <2> HIDE DEF p, items, D, E
  <2>3. p \in Seq(Messages) /\ (Has(p, E) => Has(q, E)) /\ (Has(q, E) => Has(p, E))
    BY Zenon, <1>3, <2>1, Removals
  <2>4. ASSUME q[i] \notin D PROVE (Has(q, D) => Has(p, D)) /\ (Led(q, E, D) => Led(p, E, D))
    BY Zenon, <2>1, <2>4, Removals
  <2> QED BY Zenon, <1>2, <2>2, <2>3, <2>4 DEF p, items, D, E
<1>6. CASE Tail(items) # <<>>
  <2> DEFINE m == Message(q[i].sub, Tail(items))
  <2>1. p = [q EXCEPT ![i] = m]
    <3>1. p = [q EXCEPT ![i].items = Tail(items)]
      BY Zenon, <1>6 DEF Rest
    <3>2. \A x \in [sub : Subs, items : Seq(Events)] : \A w : [x EXCEPT !.items = w] = [sub |-> x.sub, items |-> w]
      OBVIOUS
    <3>3. [q[i] EXCEPT !.items = Tail(items)] = m
      BY Zenon, <3>2 DEF Message, Batches
    <3> QED BY Zenon, <3>1, <3>3
  <2>2. m \in Batches
    BY Zenon, <1>1, <1>2, <1>6, BatchFacts
  <2>3. q[i] \in D /\ ~(s = q[i].sub /\ Event(id) = Head(items)) => m \in D
    <3>1. m.sub = q[i].sub /\ m.items = Tail(items)
      BY Zenon DEF Message
    <3> HIDE DEF m, items
    <3>2. ASSUME q[i] \in D, Has(m.items, {Event(id)}) PROVE m \in D
      BY Zenon, <2>2, <3>1, <3>2 DEF Carriers
    <3> QED BY Zenon, <1>4, <3>1, <3>2
  <2>4. m \notin E
    BY Zenon, <2>2, EndFacts
  <2>5. m \in Messages
    BY Zenon, <1>1, <1>2, <1>6, BatchFacts
  <2> HIDE DEF p, items, D, E, m
  <2>6. p \in Seq(Messages) /\ Len(p) = Len(q) /\ p[i] = m /\ \A k \in 1..Len(q) : k # i => p[k] = q[k]
    <3>1. [q EXCEPT ![i] = m] \in Seq(Messages) /\ Len([q EXCEPT ![i] = m]) = Len(q)
      BY <2>5
    <3>2. [q EXCEPT ![i] = m][i] = m /\ \A k \in 1..Len(q) : k # i => [q EXCEPT ![i] = m][k] = q[k]
      OBVIOUS
    <3> QED BY Zenon, <2>1, <3>1, <3>2
  <2>7. \A k \in 1..Len(q) : p[k] \in E <=> q[k] \in E
    BY Zenon, <1>3, <2>4, <2>6
  <2>8. ~(s = q[i].sub /\ Event(id) = Head(items)) => \A k \in 1..Len(q) : q[k] \in D => p[k] \in D
    BY Zenon, <2>3, <2>6
  <2>9. Has(p, E) <=> Has(q, E)
    BY Zenon, <2>6, <2>7 DEF Has
  <2>10. ASSUME ~(s = q[i].sub /\ Event(id) = Head(items)) PROVE (Has(q, D) => Has(p, D)) /\ (Led(q, E, D) => Led(p, E, D))
    <3>1. \A k \in 1..Len(q) : (q[k] \in D => p[k] \in D) /\ (p[k] \in E => q[k] \in E)
      BY Zenon, <2>7, <2>8, <2>10
    <3>2. \A k \in 1..Len(q) : \A j \in 1..k - 1 : j \in 1..Len(q)
      OBVIOUS
    <3> QED BY Zenon, <2>6, <3>1, <3>2 DEF Has, Led
  <2> QED BY Zenon, <1>2, <2>6, <2>9, <2>10 DEF p, items, D, E
<1> QED BY Zenon, <1>5, <1>6

\* The parser takes an EOSE.
LEMMA TakesEnd ==
    ASSUME NEW q \in Seq(Messages), NEW i \in 1..Len(q), NEW s1, NEW r1, q[i] = EndOf(s1, r1),
           NEW s, NEW id, NEW r
    PROVE  /\ Without(q, i) \in Seq(Messages)
           /\ Has(q, Carriers(s, id)) => Has(Without(q, i), Carriers(s, id))
           /\ Led(q, {EndOf(s, r)}, Carriers(s, id)) => Led(Without(q, i), {EndOf(s, r)}, Carriers(s, id))
           /\ Has(Without(q, i), {EndOf(s, r)}) => Has(q, {EndOf(s, r)})
           /\ Has(q, {EndOf(s, r)}) /\ ~(s = s1 /\ r = r1) => Has(Without(q, i), {EndOf(s, r)})
<1> DEFINE D == Carriers(s, id)
           E == {EndOf(s, r)}
<1>1. q[i] \notin D
  <2>1. EndOf(s1, r1) \notin D
    BY Zenon, CarrierFacts
  <2> QED BY Zenon, <2>1
<1>2. q[i] \in E <=> s = s1 /\ r = r1
  BY Zenon, EndInjective
<1> HIDE DEF D, E
<1>3. /\ Without(q, i) \in Seq(Messages)
      /\ Has(q, D) => Has(Without(q, i), D)
      /\ Led(q, E, D) => Led(Without(q, i), E, D)
  BY Zenon, <1>1, Removals
<1>4. /\ Has(Without(q, i), E) => Has(q, E)
      /\ Has(q, E) /\ q[i] \notin E => Has(Without(q, i), E)
  BY Zenon, Removals
<1> QED BY Zenon, <1>2, <1>3, <1>4 DEF D, E

-----------------------------------------------------------------------------
\* The types of the channels.
LEMMA ProcessTypes ==
    ASSUME ChannelTypes, NEW s \in Subs, NEW id \in Ids \union {NoId}, Process(s, id)
    PROVE  sub' \in [Subs -> Sub] /\ shown' \in [Subs -> Seq(Items \union {Eoce})]
<1>1. sub \in [Subs -> Sub] /\ shown \in [Subs -> Seq(Items \union {Eoce})] /\ Event(id) \in Items \union {Eoce}
  BY Zenon, Kinds DEF ChannelTypes, Items
<1>2. shown[s] \in Seq(Items \union {Eoce})
  BY Zenon, <1>1
<1>3. Append(shown[s], Event(id)) \in Seq(Items \union {Eoce})
  BY Zenon, <1>1, <1>2, Appends
<1>4. id \in Ids => [sub EXCEPT ![s].seen = @ \union {id}] \in [Subs -> Sub]
  BY <1>1 DEF Sub
<1>5. [shown EXCEPT ![s] = Append(@, Event(id))] \in [Subs -> Seq(Items \union {Eoce})]
  BY Zenon, <1>1, <1>3
<1> QED BY Zenon, <1>1, <1>4, <1>5 DEF Process

LEMMA HandleEoseTypes ==
    ASSUME ChannelTypes, NEW s \in Subs, NEW r \in Relays, HandleEose(s, r)
    PROVE  sub' \in [Subs -> Sub] /\ shown' \in [Subs -> Seq(Items \union {Eoce})] /\ closes' \in Seq(Closes)
<1>1. sub \in [Subs -> Sub] /\ shown \in [Subs -> Seq(Items \union {Eoce})] /\ Eose(r) \in Items \union {Eoce}
      /\ closes \in Seq(Closes) /\ [sub |-> s, url |-> r] \in Closes
  BY Zenon, Kinds DEF ChannelTypes, Items, Closes
<1>2. shown[s] \in Seq(Items \union {Eoce})
  BY Zenon, <1>1
<1>3. Append(shown[s], Eose(r)) \in Seq(Items \union {Eoce})
  BY Zenon, <1>1, <1>2, Appends
<1>6. Append(closes, [sub |-> s, url |-> r]) \in Seq(Closes)
  BY <1>1
<1>4. [sub EXCEPT ![s].closed = @ \union {r}] \in [Subs -> Sub]
  BY <1>1 DEF Sub
<1>5. [shown EXCEPT ![s] = Append(@, Eose(r))] \in [Subs -> Seq(Items \union {Eoce})]
  BY Zenon, <1>1, <1>3
<1> QED BY Zenon, <1>1, <1>4, <1>5, <1>6 DEF HandleEose

\* The two kinds of message that HandleNetwork meets.
LEMMA NetworkCases ==
    ASSUME ChannelTypes, NEW s \in Subs, HandleNetwork(s)
    PROVE  \E i \in 1..Len(toParser) :
             /\ toParser[i].sub = s /\ \A j \in 1..i - 1 : toParser[j].sub # s
             /\ \/ \E r \in Relays :
                     toParser[i] = EndOf(s, r) /\ toParser' = Without(toParser, i) /\ HandleEose(s, r)
                \/ /\ toParser[i] \in Batches /\ toParser' = Rest(toParser, i)
                   /\ closes' = closes
                   /\ IF sub[s].open THEN Process(s, Head(toParser[i].items).id) ELSE UNCHANGED <<sub, shown>>
<1>1. PICK i \in First(toParser, s) :
        LET x == Head(toParser[i].items)
            rest == Tail(toParser[i].items)
        IN  /\ toParser' = IF rest = <<>> THEN Without(toParser, i) ELSE [toParser EXCEPT ![i].items = rest]
            /\ IF x.kind = "EOSE" THEN HandleEose(s, x.url)
               ELSE /\ IF sub[s].open THEN Process(s, x.id) ELSE UNCHANGED <<sub, shown>>
                    /\ UNCHANGED closes
  BY Zenon DEF HandleNetwork
<1>2. i \in 1..Len(toParser) /\ toParser[i].sub = s /\ \A j \in 1..i - 1 : toParser[j].sub # s
  BY Zenon DEF First
<1>3. toParser[i] \in Messages
  <2>1. \A q \in Seq(Messages) : \A k \in 1..Len(q) : q[k] \in Messages
    OBVIOUS
  <2> QED BY Zenon, <1>2, <2>1 DEF ChannelTypes
<1>4. ASSUME NEW r \in Relays, toParser[i] = EndOf(s, r)
      PROVE  toParser' = Without(toParser, i) /\ HandleEose(s, r)
  <2>1. EndOf(s, r).items = <<Eose(r)>>
    BY Zenon DEF EndOf, Message
  <2>2. \A x : Head(<<x>>) = x /\ Tail(<<x>>) = <<>>
    OBVIOUS
  <2>3. Head(toParser[i].items) = Eose(r) /\ Tail(toParser[i].items) = <<>>
    BY Zenon, <1>4, <2>1, <2>2
  <2>4. Eose(r).kind = "EOSE" /\ Eose(r).url = r
    BY Zenon DEF Eose
  <2> QED BY Zenon, <1>1, <2>3, <2>4
<1>5. ASSUME toParser[i] \in Batches
      PROVE  /\ toParser' = Rest(toParser, i) /\ closes' = closes
             /\ IF sub[s].open THEN Process(s, Head(toParser[i].items).id) ELSE UNCHANGED <<sub, shown>>
  <2>1. toParser[i].items \in Seq(Events) /\ toParser[i].items # <<>>
    BY Zenon, <1>5 DEF Batches
  <2>2. Head(toParser[i].items) \in Events
    BY Zenon, <2>1, Tails
  <2>3. Head(toParser[i].items).kind # "EOSE"
    BY Zenon, <2>2, Kinds
  <2> QED BY Zenon, <1>1, <2>3 DEF Rest
<1>6. toParser[i] \in Batches \/ \E r \in Relays : toParser[i] = EndOf(s, r)
  BY Zenon, <1>2, <1>3, MessageCases
<1> QED BY Zenon, <1>2, <1>4, <1>5, <1>6

LEMMA NetworkTypes ==
    ASSUME ChannelTypes, NEW s \in Subs, HandleNetwork(s)
    PROVE  ChannelTypes'
<1>1. PICK i \in 1..Len(toParser) :
         \/ \E r \in Relays :
              toParser[i] = EndOf(s, r) /\ toParser' = Without(toParser, i) /\ HandleEose(s, r)
         \/ /\ toParser[i] \in Batches /\ toParser' = Rest(toParser, i)
            /\ closes' = closes
            /\ IF sub[s].open THEN Process(s, Head(toParser[i].items).id) ELSE UNCHANGED <<sub, shown>>
  BY Zenon, NetworkCases
<1>2. toParser \in Seq(Messages) /\ closes \in Seq(Closes) /\ sub \in [Subs -> Sub]
      /\ shown \in [Subs -> Seq(Items \union {Eoce})]
  BY Zenon DEF ChannelTypes
<1>3. CASE \E r \in Relays : toParser[i] = EndOf(s, r) /\ toParser' = Without(toParser, i) /\ HandleEose(s, r)
  <2>1. /\ sub' \in [Subs -> Sub] /\ shown' \in [Subs -> Seq(Items \union {Eoce})] /\ closes' \in Seq(Closes)
        /\ toParser' \in Seq(Messages)
    BY Zenon, <1>2, <1>3, HandleEoseTypes, TakesEnd
  <2> QED BY ZenonT(30), <2>1 DEF ChannelTypes, HandleNetwork, rvars
<1>4. CASE /\ toParser[i] \in Batches /\ toParser' = Rest(toParser, i)
           /\ closes' = closes
           /\ IF sub[s].open THEN Process(s, Head(toParser[i].items).id) ELSE UNCHANGED <<sub, shown>>
  <2>1. toParser' \in Seq(Messages) /\ Head(toParser[i].items) \in Events
    BY Zenon, <1>2, <1>4, TakesEvent
  <2>2. Head(toParser[i].items).id \in Ids \union {NoId}
    BY Zenon, <2>1, Kinds
  <2>3. sub' \in [Subs -> Sub] /\ shown' \in [Subs -> Seq(Items \union {Eoce})]
    BY Zenon, <1>2, <1>4, <2>2, ProcessTypes
  <2> QED BY ZenonT(30), <1>2, <1>4, <2>1, <2>3 DEF ChannelTypes, HandleNetwork, rvars
<1> QED BY Zenon, <1>1, <1>3, <1>4

LEMMA CacheTypes ==
    ASSUME ChannelTypes, NEW s \in Subs, HandleCache(s)
    PROVE  ChannelTypes'
<1> DEFINE Replies == [sub : Subs, item : Events \union {Eoce}]
<1>1. PICK i \in First(cached, s) :
        LET x == cached[i].item
        IN  /\ cached' = Without(cached, i)
            /\ IF ~sub[s].open THEN UNCHANGED <<sub, shown>>
               ELSE IF x.kind = "EVENT" THEN Process(s, x.id)
               ELSE shown' = [shown EXCEPT ![s] = Append(@, x)] /\ UNCHANGED sub
  BY Zenon DEF HandleCache
<1>2. i \in 1..Len(cached) /\ cached \in Seq(Replies) /\ shown \in [Subs -> Seq(Items \union {Eoce})]
      /\ sub \in [Subs -> Sub]
  BY Zenon DEF First, ChannelTypes
<1>3. \A x \in Replies : x.item \in Events \union {Eoce}
  OBVIOUS
<1> HIDE DEF Replies
<1>9. \A q \in Seq(Replies) : \A k \in 1..Len(q) : q[k] \in Replies
  OBVIOUS
<1>4. cached[i].item \in Events \union {Eoce}
  BY Zenon, <1>2, <1>3, <1>9
<1>5. cached' \in Seq(Replies)
  BY Zenon, <1>1, <1>2, Removals
<1>6. ASSUME cached[i].item.kind = "EVENT" PROVE cached[i].item.id \in Ids \union {NoId}
  <2>1. Eoce.kind # "EVENT"
    BY DEF Eoce
  <2> QED BY Zenon, <1>4, <1>6, <2>1, Kinds
<1>7. ASSUME shown' = [shown EXCEPT ![s] = Append(@, cached[i].item)]
      PROVE  shown' \in [Subs -> Seq(Items \union {Eoce})]
  <2>1. shown[s] \in Seq(Items \union {Eoce}) /\ cached[i].item \in Items \union {Eoce}
    BY Zenon, <1>2, <1>4 DEF Items
  <2>2. Append(shown[s], cached[i].item) \in Seq(Items \union {Eoce})
    BY Zenon, <2>1, Appends
  <2> QED BY Zenon, <1>2, <1>7, <2>2
<1>8. sub' \in [Subs -> Sub] /\ shown' \in [Subs -> Seq(Items \union {Eoce})]
  BY Zenon, <1>1, <1>2, <1>6, <1>7, ProcessTypes
<1> QED BY ZenonT(30), <1>5, <1>8 DEF ChannelTypes, HandleCache, rvars, vars, Replies

LEMMA ClientTypes ==
    ASSUME ChannelTypes, NEW s \in Subs, OpenSubscription(s) \/ CloseSubscription(s)
    PROVE  ChannelTypes'
<1>1. /\ sub \in [Subs -> Sub] /\ toCache \in Seq(CacheRequests) /\ closes \in Seq(Closes)
      /\ shown \in [Subs -> Seq(Items \union {Eoce})]
      /\ due \in [Subs -> SUBSET Ids] /\ eosed \in [Subs -> [Relays -> SUBSET Ids]]
  BY Zenon DEF ChannelTypes
<1>2. \A c \in BOOLEAN : [close |-> c, sub |-> s] \in CacheRequests
  BY Zenon DEF CacheRequests
<1>3. \A c \in BOOLEAN : Append(toCache, [close |-> c, sub |-> s]) \in Seq(CacheRequests)
  BY <1>1, <1>2
<1>4. [sub |-> s, url |-> NoUrl] \in Closes
  BY Zenon DEF Closes
<1>5. Append(closes, [sub |-> s, url |-> NoUrl]) \in Seq(Closes)
  BY <1>1, <1>4
<1>6. Absent \in Sub /\ \A c \in BOOLEAN : [Absent EXCEPT !.open = TRUE, !.closeOnEose = c] \in Sub
  BY DEF Absent, Sub
<1>7. CASE OpenSubscription(s)
  <2>1. sub' \in [Subs -> Sub] /\ toCache' \in Seq(CacheRequests)
    BY Zenon, <1>1, <1>3, <1>6, <1>7 DEF OpenSubscription
  <2>2. shown' \in [Subs -> Seq(Items \union {Eoce})]
    <3>1. <<>> \in Seq(Items \union {Eoce})
      OBVIOUS
    <3> QED BY Zenon, <1>1, <1>7, <3>1 DEF OpenSubscription
  <2>3. due' \in [Subs -> SUBSET Ids] /\ eosed' \in [Subs -> [Relays -> SUBSET Ids]]
    <3>1. [r \in Relays |-> {}] \in [Relays -> SUBSET Ids]
      BY Zenon
    <3>2. due' = [due EXCEPT ![s] = {}] /\ eosed' = [eosed EXCEPT ![s] = [r \in Relays |-> {}]]
      BY Zenon, <1>7 DEF OpenSubscription
    <3>3. due' \in [Subs -> SUBSET Ids]
      BY <1>1, <3>2
    <3> QED BY Zenon, <1>1, <3>1, <3>2, <3>3
  <2>4. UNCHANGED <<vars, envelopes, closes, cached, relayOpen, back>>
    BY Zenon, <1>7 DEF OpenSubscription
  <2>5. /\ envelopes' \in Seq(Subs) /\ closes' \in Seq(Closes)
        /\ cached' \in Seq([sub : Subs, item : Events \union {Eoce}])
        /\ wire' \in [Relays -> Seq(Frames)]
        /\ batch' \in [Subs -> Seq(Events)] /\ toParser' \in Seq(Messages)
        /\ dedup' \in [Subs -> Seq(Ids)] /\ subRelays' \in [Subs -> SUBSET Relays]
        /\ relayOpen' \in [Relays -> SUBSET Subs]
    BY Zenon, <2>4 DEF ChannelTypes, vars
  <2>6. DOMAIN back' = Relays /\ back' = [r \in Relays |-> back'[r]] /\ \A r \in Relays : back'[r] \in Seq(SentBy(r))
    BY Zenon, <2>4 DEF ChannelTypes
  <2> QED BY Zenon, <2>1, <2>2, <2>3, <2>5, <2>6 DEF ChannelTypes
<1>8. CASE CloseSubscription(s)
  <2>1. sub' \in [Subs -> Sub] /\ toCache' \in Seq(CacheRequests) /\ closes' \in Seq(Closes)
    BY Zenon, <1>1, <1>3, <1>5, <1>6, <1>8 DEF CloseSubscription
  <2> QED BY ZenonT(30), <1>8, <2>1 DEF ChannelTypes, CloseSubscription, vars, rvars
<1> QED BY Zenon, <1>7, <1>8

\* The sequences that the cache, the relays and the sweeper send.
LEMMA OrderFacts ==
    ASSUME NEW S, Cardinality(S) \in Nat, NEW q \in Orders(S)
    PROVE  q \in Seq(S) /\ \A x \in S : \E k \in 1..Len(q) : q[k] = x
<1>1. q \in [1..Cardinality(S) -> S] /\ \A x \in S : \E k \in 1..Cardinality(S) : q[k] = x
  BY Zenon DEF Orders, Bijection, Injection, Surjection
<1>2. \A n \in Nat : \A u \in [1..n -> S] : u \in Seq(S) /\ Len(u) = n
  OBVIOUS
<1> QED BY Zenon, <1>1, <1>2

LEMMA EventsOfFacts ==
    ASSUME NEW q \in Seq(Ids)
    PROVE  EventsOf(q) \in Seq(Events) /\ Len(EventsOf(q)) = Len(q) /\ \A k \in 1..Len(q) : EventsOf(q)[k] = Event(q[k])
<1>1. DOMAIN q = 1..Len(q) /\ Len(q) \in Nat /\ \A k \in 1..Len(q) : q[k] \in Ids
  OBVIOUS
<1>2. EventsOf(q) = [k \in 1..Len(q) |-> Event(q[k])] /\ \A k \in 1..Len(q) : Event(q[k]) \in Events
  BY Zenon, <1>1, Kinds DEF EventsOf
<1>3. EventsOf(q) \in [1..Len(q) -> Events] /\ \A k \in 1..Len(q) : EventsOf(q)[k] = Event(q[k])
  BY Zenon, <1>2
<1>4. \A n \in Nat : \A u \in [1..n -> Events] : u \in Seq(Events) /\ Len(u) = n
  OBVIOUS
<1> QED BY Zenon, <1>1, <1>3, <1>4

LEMMA ToClientFacts ==
    ASSUME NEW s \in Subs, NEW M, NEW q \in Seq(M)
    PROVE  /\ ToClient(s, q) \in Seq([sub : Subs, item : M]) /\ Len(ToClient(s, q)) = Len(q)
           /\ \A k \in 1..Len(q) : ToClient(s, q)[k] = Sent(s, q[k])
<1>1. DOMAIN q = 1..Len(q) /\ Len(q) \in Nat /\ \A k \in 1..Len(q) : q[k] \in M
  OBVIOUS
<1> DEFINE R == [sub : Subs, item : M]
<1>2. \A x \in M : Sent(s, x) \in R
  BY Zenon DEF Sent
<1> HIDE DEF R
<1>3. ToClient(s, q) = [k \in 1..Len(q) |-> Sent(s, q[k])]
  BY Zenon, <1>1 DEF ToClient, Sent
<1>4. ToClient(s, q) \in [1..Len(q) -> R] /\ \A k \in 1..Len(q) : ToClient(s, q)[k] = Sent(s, q[k])
  BY Zenon, <1>1, <1>2, <1>3
<1>5. \A n \in Nat : \A u \in [1..n -> R] : u \in Seq(R) /\ Len(u) = n
  OBVIOUS
<1> QED BY Zenon, <1>1, <1>4, <1>5 DEF R

LEMMA CacheWorkerTypes ==
    ASSUME ChannelTypes, CacheWorker
    PROVE  ChannelTypes'
<1> DEFINE Replies == [sub : Subs, item : Events \union {Eoce}]
           req == Head(toCache)
<1>1. /\ toCache \in Seq(CacheRequests) /\ envelopes \in Seq(Subs) /\ cached \in Seq(Replies)
  BY Zenon DEF ChannelTypes
<1>2. toCache # <<>> /\ toCache' = Tail(toCache)
  BY Zenon DEF CacheWorker
<1>3. toCache' \in Seq(CacheRequests) /\ req \in CacheRequests
  BY Zenon, <1>1, <1>2, Tails
<1>4. req.sub \in Subs
  BY Zenon, <1>3 DEF CacheRequests
<1> HIDE DEF req
<1>5. ASSUME NEW found \in SUBSET Ids, NEW q \in Orders(found)
      PROVE  cached \o ToClient(req.sub, Append(EventsOf(q), Eoce)) \in Seq(Replies)
  <2>1. q \in Seq(Ids)
    <3>1. q \in Seq(found)
      BY Zenon, OrderFacts, WorkerAssumption DEF Counted
    <3>2. \A u \in Seq(found) : u \in Seq(Ids)
      OBVIOUS
    <3> QED BY Zenon, <3>1, <3>2
  <2>2. EventsOf(q) \in Seq(Events)
    BY Zenon, <2>1, EventsOfFacts
  <2>3. Append(EventsOf(q), Eoce) \in Seq(Events \union {Eoce})
    BY <2>2
  <2>4. ToClient(req.sub, Append(EventsOf(q), Eoce)) \in Seq(Replies)
    BY Zenon, <1>4, <2>3, ToClientFacts
  <2>5. \A S : \A u, v \in Seq(S) : u \o v \in Seq(S)
    OBVIOUS
  <2> QED BY Zenon, <1>1, <2>4, <2>5
<1>6. Append(envelopes, req.sub) \in Seq(Subs)
  BY Zenon, <1>1, <1>4, Appends
<1>7. cached' \in Seq(Replies) /\ envelopes' \in Seq(Subs)
  BY Zenon, <1>1, <1>5, <1>6 DEF CacheWorker, req
<1>8. UNCHANGED <<vars, sub, closes, relayOpen, back, due, eosed, shown>>
  BY Zenon DEF CacheWorker
<1> QED BY Zenon, <1>3, <1>7, <1>8 DEF ChannelTypes, vars

\* send_raw keeps the queues of the connections.
LEMMA SendRawTypes ==
    ASSUME ChannelTypes, NEW R, NEW f \in Frames, SendRaw(R, f)
    PROVE  wire' \in [Relays -> Seq(Frames)]
<1>1. wire \in [Relays -> Seq(Frames)] /\ wire' = [x \in Relays |-> IF x \in R THEN Append(wire[x], f) ELSE wire[x]]
  BY Zenon DEF ChannelTypes, SendRaw
<1>2. \A x \in Relays : wire[x] \in Seq(Frames)
  BY Zenon, <1>1
<1>3. \A x \in Relays : Append(wire[x], f) \in Seq(Frames)
  BY Zenon, <1>2, Appends
<1> QED BY Zenon, <1>1, <1>2, <1>3

LEMMA SendRawFacts ==
    ASSUME ChannelTypes, NEW R, NEW f \in Frames, SendRaw(R, f), NEW r \in Relays, NEW D
    PROVE  /\ Has(wire'[r], D) <=> Has(wire[r], D) \/ (r \in R /\ f \in D)
           /\ Single(wire[r], D) /\ (Has(wire[r], D) => f \notin D) => Single(wire'[r], D)
<1>1. wire \in [Relays -> Seq(Frames)] /\ wire' = [x \in Relays |-> IF x \in R THEN Append(wire[x], f) ELSE wire[x]]
  BY Zenon DEF ChannelTypes, SendRaw
<1>2. \A x \in Relays : wire[x] \in Seq(Frames)
  BY Zenon, <1>1
<1>5. CASE r \in R
  <2>1. wire'[r] = Append(wire[r], f)
    BY Zenon, <1>1, <1>5
  <2>2. wire[r] \in Seq(Frames)
    BY Zenon, <1>2
  <2>3. Has(Append(wire[r], f), D) <=> Has(wire[r], D) \/ f \in D
    BY Zenon, <2>2, Appends
  <2>4. Single(wire[r], D) /\ ~(Has(wire[r], D) /\ f \in D) => Single(Append(wire[r], f), D)
    BY Zenon, <2>2, Appends
  <2> QED BY Zenon, <1>5, <2>1, <2>3, <2>4
<1>6. CASE r \notin R
  <2>1. wire'[r] = wire[r]
    BY Zenon, <1>1, <1>6
  <2> QED BY Zenon, <1>6, <2>1
<1> QED BY Zenon, <1>5, <1>6

LEMMA ReqFacts ==
    ASSUME NEW s \in Subs
    PROVE  /\ Req(s) \in Frames /\ Close(s) \in Frames
           /\ \A t : (Req(s) = Req(t) <=> s = t) /\ (Close(s) = Close(t) <=> s = t) /\ Req(s) # Close(t)
  BY DEF Req, Close, Frames

LEMMA ConnectionTypes ==
    ASSUME ChannelTypes, ConnectionsFromCache \/ ConnectionsFromParser
    PROVE  ChannelTypes'
<1>1. /\ envelopes \in Seq(Subs) /\ closes \in Seq(Closes) /\ wire \in [Relays -> Seq(Frames)]
      /\ dedup \in [Subs -> Seq(Ids)] /\ subRelays \in [Subs -> SUBSET Relays]
  BY Zenon DEF ChannelTypes
<1>2. CASE ConnectionsFromCache
  <2>1. envelopes # <<>> /\ envelopes' = Tail(envelopes) /\ SendEnvelope(Head(envelopes), Relays)
        /\ UNCHANGED <<sub, toCache, closes, cached, rvars, shown>>
    BY Zenon, <1>2 DEF ConnectionsFromCache
  <2>2. Head(envelopes) \in Subs /\ Tail(envelopes) \in Seq(Subs)
    BY Zenon, <1>1, <2>1, Tails
  <2>3. /\ subRelays' = [subRelays EXCEPT ![Head(envelopes)] = @ \union Relays]
        /\ SendRaw(Relays, Req(Head(envelopes))) /\ UNCHANGED <<dedup, batch, toParser>>
    BY Zenon, <2>1 DEF SendEnvelope
  <2>4. subRelays' \in [Subs -> SUBSET Relays]
    BY <1>1, <2>2, <2>3
  <2>5. wire' \in [Relays -> Seq(Frames)]
    BY Zenon, <2>2, <2>3, ReqFacts, SendRawTypes
  <2>6. /\ sub' \in [Subs -> Sub] /\ toCache' \in Seq(CacheRequests) /\ closes' \in Seq(Closes)
        /\ cached' \in Seq([sub : Subs, item : Events \union {Eoce}])
        /\ shown' \in [Subs -> Seq(Items \union {Eoce})] /\ envelopes' \in Seq(Subs)
        /\ batch' \in [Subs -> Seq(Events)] /\ toParser' \in Seq(Messages) /\ dedup' \in [Subs -> Seq(Ids)]
    BY Zenon, <2>1, <2>2, <2>3 DEF ChannelTypes
  <2>7. UNCHANGED <<relayOpen, back, due, eosed>>
    BY Zenon, <2>1 DEF rvars
  <2>8. /\ DOMAIN back' = Relays /\ back' = [r \in Relays |-> back'[r]] /\ \A r \in Relays : back'[r] \in Seq(SentBy(r))
        /\ relayOpen' \in [Relays -> SUBSET Subs] /\ due' \in [Subs -> SUBSET Ids]
        /\ eosed' \in [Subs -> [Relays -> SUBSET Ids]]
    BY Zenon, <2>7 DEF ChannelTypes
  <2> QED BY Zenon, <2>4, <2>5, <2>6, <2>8 DEF ChannelTypes
<1>3. CASE ConnectionsFromParser
  <2> DEFINE m == Head(closes)
  <2>1. closes # <<>> /\ closes' = Tail(closes) /\ UNCHANGED <<sub, toCache, envelopes, cached, rvars, shown>>
        /\ IF m.url = NoUrl THEN ParserClose(m.sub) ELSE ParserCloseAt(m.sub, m.url)
    BY Zenon, <1>3 DEF ConnectionsFromParser
  <2>2. m \in Closes /\ Tail(closes) \in Seq(Closes)
    BY Zenon, <1>1, <2>1, Tails
  <2>3. m.sub \in Subs /\ m.url \in Relays \union {NoUrl}
    BY Zenon, <2>2 DEF Closes
  <2> HIDE DEF m
  <2>4. PICK R : SendRaw(R, Close(m.sub))
    BY Zenon, <2>1 DEF ParserClose, ParserCloseAt
  <2>5. wire' \in [Relays -> Seq(Frames)]
    BY Zenon, <2>3, <2>4, ReqFacts, SendRawTypes
  <2>6. subRelays' \in [Subs -> SUBSET Relays] /\ dedup' \in [Subs -> Seq(Ids)] /\ UNCHANGED <<batch, toParser>>
    <3>1. <<>> \in Seq(Ids)
      OBVIOUS
    <3>2. subRelays[m.sub] \ {m.url} \in SUBSET Relays /\ {} \in SUBSET Relays
      BY <1>1, <2>3
    <3>3. CASE ParserClose(m.sub)
      BY Zenon, <1>1, <2>3, <3>1, <3>2, <3>3 DEF ParserClose
    <3>4. CASE ParserCloseAt(m.sub, m.url)
      BY Zenon, <1>1, <2>3, <3>1, <3>2, <3>4 DEF ParserCloseAt
    <3>5. ParserClose(m.sub) \/ ParserCloseAt(m.sub, m.url)
      BY Zenon, <2>1
    <3> QED BY Zenon, <3>3, <3>4, <3>5
  <2> QED BY ZenonT(30), <2>1, <2>2, <2>5, <2>6 DEF ChannelTypes, rvars
<1> QED BY Zenon, <1>2, <1>3

\* What the connections worker sends to the parser: events of a subscription in
\* batches, behind all that is on the channel, the buffered ones first.
Buffered(s, id) == Has(batch[s], {Event(id)}) \/ Has(toParser, Carriers(s, id))

LEMMA PayloadFacts ==
    ASSUME ChannelTypes, NEW s \in Subs
    PROVE  /\ Payload(s) \in Seq(Batches)
           /\ \A t, id : Has(Payload(s), Carriers(t, id)) <=> t = s /\ Has(batch[s], {Event(id)})
<1>1. batch[s] \in Seq(Events)
  BY Zenon DEF ChannelTypes
<1>2. CASE batch[s] = <<>>
  <2>1. Payload(s) = <<>> /\ <<>> \in Seq(Batches)
    BY <1>2 DEF Payload
  <2> QED BY Zenon, <1>2, <2>1, Empties
<1>3. CASE batch[s] # <<>>
  <2>1. Payload(s) = <<Message(s, batch[s])>> /\ Message(s, batch[s]) \in Batches
    BY Zenon, <1>1, <1>3, BatchFacts DEF Payload
  <2>2. \A m \in Batches : <<m>> \in Seq(Batches)
    OBVIOUS
  <2>3. \A m, D : Has(<<m>>, D) <=> m \in D
    BY DEF Has
  <2> DEFINE m == Message(s, batch[s])
  <2>4. m.sub = s /\ m.items = batch[s]
    BY Zenon DEF Message
  <2> HIDE DEF m
  <2>5. Payload(s) = <<m>> /\ m \in Batches
    BY Zenon, <2>1 DEF m
  <2>6. ASSUME NEW t, NEW id PROVE Has(<<m>>, Carriers(t, id)) <=> t = s /\ Has(batch[s], {Event(id)})
    <3>1. m \in Carriers(t, id) <=> m.sub = t /\ Has(m.items, {Event(id)})
      BY Zenon, <2>5, CarrierFacts
    <3> QED BY Zenon, <2>3, <2>4, <3>1
  <2> QED BY Zenon, <2>2, <2>5, <2>6
<1> QED BY Zenon, <1>2, <1>3

\* What AddMessage and Sweep do to the parser's channel.
Forwards(s, id, r) ==
    /\ Buffered(s, id) => Buffered(s, id)'
    /\ Led(toParser, {EndOf(s, r)}, Carriers(s, id)) => Led(toParser', {EndOf(s, r)}, Carriers(s, id))
    /\ Has(toParser', {EndOf(s, r)}) <=> Has(toParser, {EndOf(s, r)})

LEMMA AddMessageFacts ==
    ASSUME ChannelTypes, NEW s \in Subs, NEW x \in Events, AddMessage(s, x), NEW t \in Subs, NEW id, NEW r
    PROVE  /\ batch' \in [Subs -> Seq(Events)] /\ toParser' \in Seq(Messages)
           /\ Forwards(t, id, r)
           /\ t = s /\ x = Event(id) => Buffered(t, id)'
<1>1. batch \in [Subs -> Seq(Events)] /\ toParser \in Seq(Messages)
  BY Zenon DEF ChannelTypes
<1>2. batch[s] \in Seq(Events)
  BY Zenon, <1>1
<1>3. Append(batch[s], x) \in Seq(Events) /\ <<x>> \in Seq(Events) /\ <<>> \in Seq(Events) /\ Append(batch[s], x) # <<>>
  BY <1>2
<1>4. \A D : Has(Append(batch[s], x), D) <=> Has(batch[s], D) \/ x \in D
  BY Zenon, <1>2, Appends
<1>5. \A D : (Has(<<x>>, D) <=> x \in D)
  BY DEF Has
<1>6. \A b : batch' = [batch EXCEPT ![s] = b] => batch'[s] = b /\ (t # s => batch'[t] = batch[t])
  BY Zenon, <1>1
<1>7. \A b \in Seq(Events) : batch' = [batch EXCEPT ![s] = b] => batch' \in [Subs -> Seq(Events)]
  BY Zenon, <1>1
<1>8. CASE batch' = [batch EXCEPT ![s] = Append(@, x)] /\ toParser' = toParser
  <2>1. batch' \in [Subs -> Seq(Events)] /\ batch'[s] = Append(batch[s], x) /\ (t # s => batch'[t] = batch[t])
    BY Zenon, <1>3, <1>6, <1>7, <1>8
  <2>2. Buffered(t, id) => Buffered(t, id)'
    BY Zenon, <1>4, <1>8, <2>1 DEF Buffered
  <2>3. t = s /\ x = Event(id) => Buffered(t, id)'
    BY Zenon, <1>4, <2>1 DEF Buffered
  <2> QED BY Zenon, <1>1, <1>8, <2>1, <2>2, <2>3 DEF Forwards
<1>9. CASE batch' = [batch EXCEPT ![s] = <<x>>] /\ toParser' = toParser \o Payload(s)
  <2>1. batch' \in [Subs -> Seq(Events)] /\ batch'[s] = <<x>> /\ (t # s => batch'[t] = batch[t])
    BY Zenon, <1>3, <1>6, <1>7, <1>9
  <2>2. Payload(s) \in Seq(Batches) /\ (Has(Payload(s), Carriers(t, id)) <=> t = s /\ Has(batch[s], {Event(id)}))
    BY Zenon, PayloadFacts
  <2>3. /\ toParser' \in Seq(Messages)
        /\ Has(toParser', Carriers(t, id)) <=> Has(toParser, Carriers(t, id)) \/ Has(Payload(s), Carriers(t, id))
        /\ Led(toParser, {EndOf(t, r)}, Carriers(t, id)) => Led(toParser', {EndOf(t, r)}, Carriers(t, id))
        /\ Has(toParser', {EndOf(t, r)}) <=> Has(toParser, {EndOf(t, r)})
    BY Zenon, <1>1, <1>9, <2>2, Sends
  <2>4. Buffered(t, id) => Buffered(t, id)'
    BY Zenon, <2>1, <2>2, <2>3 DEF Buffered
  <2>5. t = s /\ x = Event(id) => Buffered(t, id)'
    BY Zenon, <1>5, <2>1 DEF Buffered
  <2> QED BY Zenon, <2>1, <2>3, <2>4, <2>5 DEF Forwards
<1>10. CASE batch' = [batch EXCEPT ![s] = <<>>] /\ toParser' = Append(toParser, Message(s, Append(batch[s], x)))
  <2> DEFINE m == Message(s, Append(batch[s], x))
  <2>1. batch' \in [Subs -> Seq(Events)] /\ (t # s => batch'[t] = batch[t])
    BY Zenon, <1>3, <1>6, <1>7, <1>10
  <2>2. m \in Batches /\ m.sub = s /\ m.items = Append(batch[s], x)
    BY Zenon, <1>3, BatchFacts DEF Message
  <2>3. m \in Carriers(t, id) <=> t = s /\ (Has(batch[s], {Event(id)}) \/ x = Event(id))
    <3> HIDE DEF m
    <3>1. m \in Carriers(t, id) <=> m.sub = t /\ Has(m.items, {Event(id)})
      BY Zenon, <2>2, CarrierFacts
    <3>2. Has(m.items, {Event(id)}) <=> Has(batch[s], {Event(id)}) \/ x \in {Event(id)}
      BY Zenon, <1>4, <2>2
    <3> QED BY Zenon, <2>2, <3>1, <3>2
  <2>4. \A q \in Seq(Messages) : Append(q, m) = q \o <<m>>
    OBVIOUS
  <2> HIDE DEF m
  <2>5. toParser' = toParser \o <<m>>
    BY Zenon, <1>1, <1>10, <2>4 DEF m
  <2>6. <<m>> \in Seq(Batches) /\ \A D : (Has(<<m>>, D) <=> m \in D)
    BY <2>2 DEF Has
  <2>7. /\ toParser' \in Seq(Messages)
        /\ Has(toParser', Carriers(t, id)) <=> Has(toParser, Carriers(t, id)) \/ Has(<<m>>, Carriers(t, id))
        /\ Led(toParser, {EndOf(t, r)}, Carriers(t, id)) => Led(toParser', {EndOf(t, r)}, Carriers(t, id))
        /\ Has(toParser', {EndOf(t, r)}) <=> Has(toParser, {EndOf(t, r)})
    BY Zenon, <1>1, <2>5, <2>6, Sends
  <2>8. Buffered(t, id) => Buffered(t, id)'
    BY Zenon, <2>1, <2>3, <2>6, <2>7 DEF Buffered
  <2>9. t = s /\ x = Event(id) => Buffered(t, id)'
    BY Zenon, <2>3, <2>6, <2>7 DEF Buffered
  <2> QED BY Zenon, <2>1, <2>7, <2>8, <2>9 DEF Forwards
<1> QED BY Zenon, <1>8, <1>9, <1>10 DEF AddMessage

LEMMA SweepFacts ==
    ASSUME ChannelTypes, NEW S \in SUBSET Subs, Sweep(S), NEW t \in Subs, NEW id, NEW r
    PROVE  /\ batch' \in [Subs -> Seq(Events)] /\ toParser' \in Seq(Messages)
           /\ Forwards(t, id, r)
<1>1. batch \in [Subs -> Seq(Events)] /\ toParser \in Seq(Messages)
  BY Zenon DEF ChannelTypes
<1>2. PICK q \in Orders(S) : toParser' = toParser \o [i \in DOMAIN q |-> Message(q[i], batch[q[i]])]
  BY Zenon DEF Sweep
<1>a. Cardinality(S) \in Nat
  BY Zenon, WorkerAssumption DEF Counted
<1>3. q \in Seq(S) /\ \A x \in S : \E k \in 1..Len(q) : q[k] = x
  BY Zenon, <1>a, OrderFacts
<1>4. Len(q) \in Nat /\ DOMAIN q = 1..Len(q) /\ \A k \in 1..Len(q) : q[k] \in S
  BY <1>3
<1> DEFINE u == [i \in DOMAIN q |-> Message(q[i], batch[q[i]])]
<1>5. \A x \in S : Message(x, batch[x]) \in Batches
  BY Zenon, <1>1, BatchFacts DEF Sweep
<1>6. u \in [1..Len(q) -> Batches] /\ \A k \in 1..Len(q) : u[k] = Message(q[k], batch[q[k]])
  BY Zenon, <1>4, <1>5
<1>7. \A n \in Nat : \A v \in [1..n -> Batches] : v \in Seq(Batches) /\ Len(v) = n
  OBVIOUS
<1>8. u \in Seq(Batches) /\ Len(u) = Len(q)
  BY Zenon, <1>4, <1>6, <1>7
<1> HIDE DEF u
<1>9. ASSUME t \in S, Has(batch[t], {Event(id)}) PROVE Has(u, Carriers(t, id))
  <2>1. PICK k \in 1..Len(q) : q[k] = t
    BY Zenon, <1>3, <1>9
  <2>2. u[k] = Message(t, batch[t])
    BY Zenon, <1>6, <2>1
  <2>3. Message(t, batch[t]) \in Batches /\ Message(t, batch[t]).sub = t /\ Message(t, batch[t]).items = batch[t]
    BY Zenon, <1>5, <1>9 DEF Message
  <2>4. Message(t, batch[t]) \in Carriers(t, id)
    BY Zenon, <1>9, <2>3, CarrierFacts
  <2> QED BY Zenon, <1>8, <2>2, <2>4 DEF Has
<1>10. batch' = [x \in Subs |-> IF x \in S THEN <<>> ELSE batch[x]]
  BY Zenon DEF Sweep
<1>11. batch' \in [Subs -> Seq(Events)] /\ (t \notin S => batch'[t] = batch[t])
  <2>1. <<>> \in Seq(Events)
    OBVIOUS
  <2> QED BY Zenon, <1>1, <1>10, <2>1
<1>12. toParser' = toParser \o u
  BY Zenon, <1>2 DEF u
<1>13. /\ toParser' \in Seq(Messages)
       /\ Has(toParser', Carriers(t, id)) <=> Has(toParser, Carriers(t, id)) \/ Has(u, Carriers(t, id))
       /\ Led(toParser, {EndOf(t, r)}, Carriers(t, id)) => Led(toParser', {EndOf(t, r)}, Carriers(t, id))
       /\ Has(toParser', {EndOf(t, r)}) <=> Has(toParser, {EndOf(t, r)})
  BY Zenon, <1>1, <1>8, <1>12, Sends
<1>14. Buffered(t, id) => Buffered(t, id)'
  BY Zenon, <1>9, <1>11, <1>13 DEF Buffered
<1> QED BY Zenon, <1>11, <1>13, <1>14 DEF Forwards

LEMMA WriteEventFacts ==
    ASSUME ChannelTypes, NEW s \in Subs, NEW id \in Ids \union {NoId}, WriteEvent(s, id),
           NEW t \in Subs, NEW y, NEW r
    PROVE  /\ batch' \in [Subs -> Seq(Events)] /\ toParser' \in Seq(Messages) /\ dedup' \in [Subs -> Seq(Ids)]
           /\ Forwards(t, y, r)
           /\ Has(dedup'[t], {y}) => Has(dedup[t], {y}) \/ Buffered(t, y)'
           /\ t = s /\ y = id /\ id \in Ids => Has(dedup[t], {y}) \/ Buffered(t, y)'
<1>1. /\ dedup \in [Subs -> Seq(Ids)] /\ batch \in [Subs -> Seq(Events)] /\ toParser \in Seq(Messages)
      /\ dedup[s] \in Seq(Ids)
  BY Zenon DEF ChannelTypes
<1>2. id \in Range(dedup[s]) <=> Has(dedup[s], {id})
  <2>1. DOMAIN dedup[s] = 1..Len(dedup[s])
    BY <1>1
  <2> QED BY Zenon, <2>1 DEF Range, Has
<1>3. CASE id \in Ids \intersect Range(dedup[s])
  <2>1. dedup' = dedup /\ batch' = batch /\ toParser' = toParser
    BY Zenon, <1>3 DEF WriteEvent
  <2> QED BY Zenon, <1>1, <1>2, <1>3, <2>1 DEF Forwards, Buffered
<1>4. CASE id \notin Ids \intersect Range(dedup[s])
  <2>1. AddMessage(s, Event(id))
    BY Zenon, <1>4 DEF WriteEvent, Event
  <2>2. dedup' = IF id \in Ids THEN [dedup EXCEPT ![s] = Mark(@, id)] ELSE dedup
    BY Zenon, <1>4 DEF WriteEvent
  <2>3. Event(id) \in Events
    BY Zenon, Kinds
  <2>4. /\ batch' \in [Subs -> Seq(Events)] /\ toParser' \in Seq(Messages)
        /\ Forwards(t, y, r) /\ (t = s /\ y = id => Buffered(t, y)')
    BY Zenon, <2>1, <2>3, AddMessageFacts
  <2>5. ASSUME id \in Ids
        PROVE  Mark(dedup[s], id) \in Seq(Ids) /\ (Has(Mark(dedup[s], id), {y}) => Has(dedup[s], {y}) \/ y = id)
    <3> DEFINE longer == Append(dedup[s], id)
    <3>1. longer \in Seq(Ids) /\ (Has(longer, {y}) => Has(dedup[s], {y}) \/ id \in {y})
      BY Zenon, <1>1, <2>5, Appends
    <3>2. longer # <<>>
      <4>1. dedup[s] \in Seq(Ids)
        BY Zenon, <1>1
      <4> QED BY <2>5, <4>1
    <3> HIDE DEF longer
    <3>3. Tail(longer) \in Seq(Ids) /\ (Has(Tail(longer), {y}) => Has(longer, {y}))
      BY Zenon, <3>1, <3>2, Tails
    <3> QED BY Zenon, <3>1, <3>3 DEF Mark, longer
  <2>6. CASE id \in Ids
    <3>1. dedup' = [dedup EXCEPT ![s] = Mark(dedup[s], id)]
      BY Zenon, <2>2, <2>6
    <3>2. dedup' \in [Subs -> Seq(Ids)] /\ dedup'[s] = Mark(dedup[s], id) /\ (t # s => dedup'[t] = dedup[t])
      BY Zenon, <1>1, <2>5, <2>6, <3>1
    <3>3. Has(dedup'[t], {y}) => Has(dedup[t], {y}) \/ Buffered(t, y)'
      BY Zenon, <2>4, <2>5, <2>6, <3>2
    <3> QED BY Zenon, <2>4, <3>2, <3>3
  <2>7. CASE id \notin Ids
    BY Zenon, <1>1, <2>2, <2>4, <2>7
  <2> QED BY Zenon, <2>6, <2>7
<1> QED BY Zenon, <1>3, <1>4

LEMMA WriteControlFacts ==
    ASSUME ChannelTypes, NEW s \in Subs, NEW r1 \in Relays, WriteControl(s, r1),
           NEW t \in Subs, NEW y, NEW r
    PROVE  /\ batch' \in [Subs -> Seq(Events)] /\ toParser' \in Seq(Messages)
           /\ Buffered(t, y) => Buffered(t, y)'
           /\ Led(toParser, {EndOf(t, r)}, Carriers(t, y)) /\ (t = s /\ r = r1 => Buffered(t, y))
                => Led(toParser', {EndOf(t, r)}, Carriers(t, y))
           /\ Has(toParser', {EndOf(t, r)}) <=> Has(toParser, {EndOf(t, r)}) \/ (t = s /\ r = r1)
<1>1. batch \in [Subs -> Seq(Events)] /\ toParser \in Seq(Messages)
  BY Zenon DEF ChannelTypes
<1> DEFINE q == toParser \o Payload(s)
           D == Carriers(t, y)
           E == {EndOf(t, r)}
<1>2. toParser' = toParser \o Append(Payload(s), EndOf(s, r1)) /\ batch' = [batch EXCEPT ![s] = <<>>]
  BY Zenon DEF WriteControl, EndOf, Eose
<1>3. Payload(s) \in Seq(Batches) /\ (Has(Payload(s), D) <=> t = s /\ Has(batch[s], {Event(y)}))
  BY Zenon, PayloadFacts
<1>4. EndOf(s, r1) \in Messages /\ Payload(s) \in Seq(Messages)
  <2>1. Batches \subseteq Messages
    BY Zenon DEF Messages
  <2>2. \A S1, S2 : S1 \subseteq S2 => \A u \in Seq(S1) : u \in Seq(S2)
    OBVIOUS
  <2> QED BY Zenon, <1>3, <2>1, <2>2, EndFacts
<1>5. toParser \o Append(Payload(s), EndOf(s, r1)) = Append(q, EndOf(s, r1))
  <2>1. \A u, v \in Seq(Messages), x \in Messages : u \o Append(v, x) = Append(u \o v, x)
    OBVIOUS
  <2> QED BY Zenon, <1>1, <1>4, <2>1
<1>6. toParser' = Append(q, EndOf(s, r1))
  BY Zenon, <1>2, <1>5
<1>7. /\ q \in Seq(Messages)
      /\ Has(q, D) <=> Has(toParser, D) \/ Has(Payload(s), D)
      /\ Led(toParser, E, D) => Led(q, E, D)
      /\ Has(q, E) <=> Has(toParser, E)
  BY Zenon, <1>1, <1>3, Sends
<1> HIDE DEF q
<1>8. /\ toParser' \in Seq(Messages)
      /\ Has(toParser', D) <=> Has(q, D)
      /\ Led(q, E, D) /\ (t = s /\ r = r1 => Has(q, D)) => Led(toParser', E, D)
      /\ Has(toParser', E) <=> Has(q, E) \/ (t = s /\ r = r1)
  BY Zenon, <1>6, <1>7, Ends
<1> HIDE DEF D, E
<1>9. batch' \in [Subs -> Seq(Events)] /\ (t # s => batch'[t] = batch[t])
  <2>1. <<>> \in Seq(Events)
    OBVIOUS
  <2> QED BY Zenon, <1>1, <1>2, <2>1
<1>10. Buffered(t, y) <=> Has(batch[t], {Event(y)}) \/ Has(toParser, D)
  BY Zenon DEF Buffered, D
<1>11. Buffered(t, y)' <=> Has(batch'[t], {Event(y)}) \/ Has(toParser', D)
  BY Zenon DEF Buffered, D
<1>12. Buffered(t, y) => Buffered(t, y)' /\ (t = s => Has(q, D))
  BY Zenon, <1>3, <1>7, <1>8, <1>9, <1>10, <1>11
<1> QED BY Zenon, <1>7, <1>8, <1>9, <1>12 DEF D, E

\* The oldest frame of a relay, and what the connections worker makes of it.
LEMMA RelayFrameCases ==
    ASSUME ChannelTypes, NEW r \in Relays, ConnectionsFromRelay(r)
    PROVE  /\ back[r] # <<>> /\ back[r] \in Seq(SentBy(r)) /\ Head(back[r]).sub \in Subs
           /\ back' = [back EXCEPT ![r] = Tail(back[r])]
           /\ \/ Head(back[r]) = Sent(Head(back[r]).sub, Eose(r)) /\ WriteControl(Head(back[r]).sub, r) /\ dedup' = dedup
              \/ \E id \in Ids \union {NoId} :
                   Head(back[r]) = Sent(Head(back[r]).sub, Event(id)) /\ WriteEvent(Head(back[r]).sub, id)
<1> DEFINE m == Head(back[r])
<1>1. back[r] # <<>> /\ back' = [back EXCEPT ![r] = Tail(back[r])]
      /\ IF m.item.kind = "EOSE" THEN WriteControl(m.sub, r) ELSE WriteEvent(m.sub, m.item.id)
  BY Zenon DEF ConnectionsFromRelay
<1>2. back[r] \in Seq(SentBy(r))
  BY Zenon DEF ChannelTypes
<1>3. m \in SentBy(r)
  BY Zenon, <1>1, <1>2, Tails
<1>4. m.sub \in Subs /\ m = Sent(m.sub, m.item) /\ m.item \in Events \union {Eose(r)}
  BY <1>3 DEF SentBy, Sent
<1> HIDE DEF m
<1>5. CASE m.item = Eose(r)
  <2>1. m.item.kind = "EOSE"
    BY <1>5 DEF Eose
  <2>2. WriteControl(m.sub, r)
    BY Zenon, <1>1, <2>1
  <2>3. dedup' = dedup
    BY Zenon, <2>2 DEF WriteControl
  <2> QED BY Zenon, <1>1, <1>2, <1>4, <1>5, <2>2, <2>3 DEF m
<1>6. CASE m.item \in Events
  <2>1. m.item = Event(m.item.id) /\ m.item.id \in Ids \union {NoId} /\ m.item.kind = "EVENT"
    BY Zenon, <1>6, Kinds
  <2>2. WriteEvent(m.sub, m.item.id)
    BY Zenon, <1>1, <2>1
  <2>3. m = Sent(m.sub, Event(m.item.id))
    BY Zenon, <1>4, <2>1
  <2> QED BY Zenon, <1>1, <1>2, <1>4, <2>1, <2>2, <2>3 DEF m
<1> QED BY Zenon, <1>4, <1>5, <1>6

LEMMA FromRelayTypes ==
    ASSUME ChannelTypes, NEW r \in Relays, ConnectionsFromRelay(r)
    PROVE  ChannelTypes'
<1> DEFINE s == Head(back[r]).sub
<1>1. back[r] # <<>> /\ back[r] \in Seq(SentBy(r)) /\ s \in Subs /\ back' = [back EXCEPT ![r] = Tail(back[r])]
  BY Zenon, RelayFrameCases
<1>2. (WriteControl(s, r) /\ dedup' = dedup) \/ \E id \in Ids \union {NoId} : WriteEvent(s, id)
  BY Zenon, RelayFrameCases
<1> HIDE DEF s
<1>3. batch' \in [Subs -> Seq(Events)] /\ toParser' \in Seq(Messages) /\ dedup' \in [Subs -> Seq(Ids)]
  <2>1. CASE WriteControl(s, r) /\ dedup' = dedup
    <3>1. dedup' \in [Subs -> Seq(Ids)]
      BY Zenon, <2>1 DEF ChannelTypes
    <3> QED BY Zenon, <1>1, <2>1, <3>1, WriteControlFacts
  <2>2. ASSUME NEW id \in Ids \union {NoId}, WriteEvent(s, id)
        PROVE  batch' \in [Subs -> Seq(Events)] /\ toParser' \in Seq(Messages) /\ dedup' \in [Subs -> Seq(Ids)]
    BY Zenon, <1>1, <2>2, WriteEventFacts
  <2> QED BY Zenon, <1>2, <2>1, <2>2
<1>4. Tail(back[r]) \in Seq(SentBy(r))
  BY Zenon, <1>1, Tails
<1>5. DOMAIN back = Relays /\ back = [x \in Relays |-> back[x]] /\ \A x \in Relays : back[x] \in Seq(SentBy(x))
  BY Zenon DEF ChannelTypes
<1>6. DOMAIN back' = Relays /\ back' = [x \in Relays |-> back'[x]] /\ \A x \in Relays : back'[x] \in Seq(SentBy(x))
  BY Zenon, <1>1, <1>4, <1>5
<1>7. UNCHANGED <<sub, toCache, envelopes, closes, cached, relayOpen, due, eosed, shown, subRelays, wire>>
  <2>1. UNCHANGED <<subRelays, wire>>
    BY Zenon, <1>2 DEF WriteControl, WriteEvent
  <2> QED BY Zenon, <2>1 DEF ConnectionsFromRelay, cvars
<1> QED BY Zenon, <1>3, <1>6, <1>7 DEF ChannelTypes

LEMMA SweeperTypes ==
    ASSUME ChannelTypes, Sweeper
    PROVE  ChannelTypes'
<1>1. PICK S \in SUBSET Subs : Sweep(S)
  BY Zenon DEF Sweeper
<1>2. UNCHANGED <<sub, cvars, rvars, shown>> /\ UNCHANGED <<subRelays, dedup, wire>>
  BY Zenon, <1>1 DEF Sweeper, Sweep
<1>3. S # {}
  BY Zenon, <1>1 DEF Sweep
<1>4. PICK t \in Subs : t \in S
  BY Zenon, <1>3
<1>5. batch' \in [Subs -> Seq(Events)] /\ toParser' \in Seq(Messages)
  BY Zenon, <1>1, <1>4, SweepFacts
<1>6. /\ sub' = sub /\ toCache' = toCache /\ envelopes' = envelopes /\ closes' = closes /\ cached' = cached
      /\ shown' = shown /\ wire' = wire /\ back' = back /\ dedup' = dedup /\ subRelays' = subRelays
      /\ relayOpen' = relayOpen /\ due' = due /\ eosed' = eosed
  BY Zenon, <1>2 DEF cvars, rvars
<1>7. DOMAIN back' = Relays /\ back' = [r \in Relays |-> back'[r]]
  <2>1. DOMAIN back = Relays /\ back = [r \in Relays |-> back[r]]
    BY Zenon DEF ChannelTypes
  <2> QED BY <1>6, <2>1
<1>8. \A r \in Relays : back'[r] \in Seq(SentBy(r))
  BY Zenon, <1>6 DEF ChannelTypes
<1> QED BY Zenon, <1>5, <1>6, <1>7, <1>8 DEF ChannelTypes

\* The frames of one subscription in the order of its items.
LEMMA ToClientHas ==
    ASSUME NEW s \in Subs, NEW M, NEW q \in Seq(M), NEW t, NEW x, NEW e, NEW d
    PROVE  /\ Has(ToClient(s, q), {Sent(t, x)}) <=> t = s /\ Has(q, {x})
           /\ Led(q, {e}, {d}) => Led(ToClient(s, q), {Sent(s, e)}, {Sent(s, d)})
<1> DEFINE u == ToClient(s, q)
<1>1. Len(u) = Len(q) /\ \A k \in 1..Len(q) : u[k] = Sent(s, q[k])
  BY Zenon, ToClientFacts
<1>3. \A k \in 1..Len(q) : \A j \in 1..k - 1 : j \in 1..Len(q)
  OBVIOUS
<1> HIDE DEF u
<1>4. \A k \in 1..Len(q) : \A t1, x1 : u[k] \in {Sent(t1, x1)} <=> t1 = s /\ q[k] \in {x1}
  <2> TAKE k \in 1..Len(q)
  <2> TAKE t1, x1
  <2>1. u[k] = Sent(s, q[k])
    BY Zenon, <1>1
  <2>2. Sent(s, q[k]) = Sent(t1, x1) <=> s = t1 /\ q[k] = x1
    BY DEF Sent
  <2> QED BY Zenon, <2>1, <2>2
<1>5. Has(u, {Sent(t, x)}) <=> t = s /\ Has(q, {x})
  BY Zenon, <1>1, <1>4 DEF Has
<1>6. ASSUME Led(q, {e}, {d}) PROVE Led(u, {Sent(s, e)}, {Sent(s, d)})
  <2> SUFFICES ASSUME NEW k \in 1..Len(q), u[k] \in {Sent(s, e)}
               PROVE  \E j \in 1..k - 1 : u[j] \in {Sent(s, d)}
    BY Zenon, <1>1 DEF Led
  <2>1. PICK j \in 1..k - 1 : q[j] \in {d}
    BY Zenon, <1>4, <1>6 DEF Led
  <2> QED BY Zenon, <1>3, <1>4, <2>1
<1> QED BY Zenon, <1>5, <1>6 DEF u

\* What a relay sends for a REQ.
Reply(r, s, stored, fresh) == ToClient(s, EventsOf(stored) \o <<Eose(r)>> \o EventsOf(fresh))

LEMMA ReplyFacts ==
    ASSUME NEW r \in Relays, NEW s \in Subs, NEW stored \in Seq(Ids), NEW fresh \in Seq(Ids)
    PROVE  /\ Reply(r, s, stored, fresh) \in Seq(SentBy(r))
           /\ \A t, x : Has(Reply(r, s, stored, fresh), {Sent(t, x)}) => t = s
           /\ Has(Reply(r, s, stored, fresh), {Sent(s, Eose(r))})
           /\ \A id \in Range(stored \o fresh) : Has(Reply(r, s, stored, fresh), {Sent(s, Event(id))})
           /\ \A id \in Range(stored) : Led(Reply(r, s, stored, fresh), {Sent(s, Eose(r))}, {Sent(s, Event(id))})
           /\ Range(stored) \in SUBSET Ids /\ Range(stored \o fresh) \in SUBSET Ids
<1> DEFINE M == Events \union {Eose(r)}
           a == EventsOf(stored)
           b == <<Eose(r)>>
           c == EventsOf(fresh)
           ab == a \o b
           v == ab \o c
<1>1. a \in Seq(Events) /\ Len(a) = Len(stored) /\ \A k \in 1..Len(stored) : a[k] = Event(stored[k])
  BY Zenon, EventsOfFacts
<1>2. c \in Seq(Events) /\ Len(c) = Len(fresh) /\ \A k \in 1..Len(fresh) : c[k] = Event(fresh[k])
  BY Zenon, EventsOfFacts
<1>3. b \in Seq(M) /\ \A D : Has(b, D) <=> Eose(r) \in D
  BY DEF Has
<1>4. a \in Seq(M) /\ c \in Seq(M)
  BY Zenon, <1>1, <1>2, SeqSub
<1> HIDE DEF M, a, b, c
<1>5. ab \in Seq(M) /\ \A D : Has(ab, D) <=> Has(a, D) \/ Has(b, D)
  BY Zenon, <1>3, <1>4, Concats
<1>6. \A E, D : Led(a, E, D) /\ Has(a, D) => Led(ab, E, D)
  BY Zenon, <1>3, <1>4, Concats
<1> HIDE DEF ab
<1>7. v \in Seq(M) /\ \A D : Has(v, D) <=> Has(ab, D) \/ Has(c, D)
  BY Zenon, <1>4, <1>5, Concats
<1>8. \A E, D : Led(ab, E, D) /\ Has(ab, D) => Led(v, E, D)
  BY Zenon, <1>4, <1>5, Concats
<1> HIDE DEF v
<1>9. Reply(r, s, stored, fresh) = ToClient(s, v)
  BY Zenon DEF Reply, a, b, c, ab, v
<1>10. ToClient(s, v) \in Seq(SentBy(r))
  BY Zenon, <1>7, ToClientFacts DEF SentBy, M
<1>11. /\ \A t, x : Has(ToClient(s, v), {Sent(t, x)}) <=> t = s /\ Has(v, {x})
       /\ \A e, d : Led(v, {e}, {d}) => Led(ToClient(s, v), {Sent(s, e)}, {Sent(s, d)})
  BY Zenon, <1>7, ToClientHas
<1>12. Has(v, {Eose(r)})
  BY Zenon, <1>3, <1>5, <1>7
<1>13. \A id : Has(stored, {id}) => Has(a, {Event(id)})
  BY Zenon, <1>1 DEF Has
<1>14. \A id : Has(fresh, {id}) => Has(c, {Event(id)})
  BY Zenon, <1>2 DEF Has
<1>15. \A id : Has(stored, {id}) => Led(v, {Eose(r)}, {Event(id)})
  <2>1. \A d : Led(a, {Eose(r)}, {d})
    <3>1. \A k \in 1..Len(a) : a[k] \in Events
      BY <1>1
    <3>2. Eose(r) \notin Events
      BY Zenon, Kinds
    <3> QED BY Zenon, <3>1, <3>2 DEF Led
  <2> QED BY Zenon, <1>5, <1>6, <1>8, <1>13, <2>1
<1>16. \A id : Has(stored \o fresh, {id}) => Has(v, {Event(id)})
  <2>1. \A id : Has(stored \o fresh, {id}) <=> Has(stored, {id}) \/ Has(fresh, {id})
    BY Zenon, Concats
  <2> QED BY Zenon, <1>5, <1>7, <1>13, <1>14, <2>1
<1>17. \A q \in Seq(Ids) : Range(q) \in SUBSET Ids /\ \A id \in Range(q) : Has(q, {id})
  <2>1. \A q \in Seq(Ids) : DOMAIN q = 1..Len(q) /\ \A k \in 1..Len(q) : q[k] \in Ids
    OBVIOUS
  <2> QED BY Zenon, <2>1 DEF Range, Has
<1>18. stored \o fresh \in Seq(Ids)
  OBVIOUS
<1> DEFINE w == ToClient(s, v)
<1> HIDE DEF w
<1>19. w \in Seq(SentBy(r)) /\ (\A t, x : Has(w, {Sent(t, x)}) => t = s) /\ Has(w, {Sent(s, Eose(r))})
  BY Zenon, <1>10, <1>11, <1>12 DEF w
<1>20. \A id \in Range(stored \o fresh) : Has(w, {Sent(s, Event(id))})
  BY Zenon, <1>11, <1>16, <1>17, <1>18 DEF w
<1>21. \A id \in Range(stored) : Led(w, {Sent(s, Eose(r))}, {Sent(s, Event(id))})
  BY Zenon, <1>11, <1>15, <1>17 DEF w
<1>22. Range(stored) \in SUBSET Ids /\ Range(stored \o fresh) \in SUBSET Ids
  BY Zenon, <1>17, <1>18
<1>23. Reply(r, s, stored, fresh) = w
  BY Zenon, <1>9 DEF w
<1> QED BY Zenon, <1>19, <1>20, <1>21, <1>22, <1>23

LEMMA RelayCases ==
    ASSUME ChannelTypes, NEW r \in Relays, Relay(r)
    PROVE  /\ wire[r] # <<>> /\ wire[r] \in Seq(Frames) /\ wire' = [wire EXCEPT ![r] = Tail(wire[r])]
           /\ UNCHANGED <<subRelays, dedup, batch, toParser>> /\ UNCHANGED <<sub, cvars, shown>>
           /\ \E s \in Subs :
                \/ /\ Head(wire[r]) = Req(s)
                   /\ \E stored, fresh \in Seq(Ids) : Answer(r, s, stored, fresh)
                \/ /\ Head(wire[r]) = Close(s)
                   /\ relayOpen' = [relayOpen EXCEPT ![r] = @ \ {s}] /\ UNCHANGED <<back, due, eosed>>
<1> DEFINE f == Head(wire[r])
<1>1. /\ wire[r] # <<>> /\ wire' = [wire EXCEPT ![r] = Tail(wire[r])]
      /\ UNCHANGED <<subRelays, dedup, batch, toParser>> /\ UNCHANGED <<sub, cvars, shown>>
  BY Zenon DEF Relay, RelayRecv
<1>2. wire[r] \in Seq(Frames)
  BY Zenon DEF ChannelTypes
<1>3. f \in Frames
  BY Zenon, <1>1, <1>2, Tails
<1>4. f.sub \in Subs /\ (f.kind = "REQ" => f = Req(f.sub)) /\ (f.kind # "REQ" => f = Close(f.sub))
  BY <1>3 DEF Frames, Req, Close
<1>5. CASE f.kind = "REQ"
  <2>1. PICK set \in SUBSET Ids : \E stored \in Orders(set), fresh \in {<<>>} \union {<<id>> : id \in Ids} :
          Answer(r, f.sub, stored, fresh)
    BY Zenon, <1>5 DEF Relay
  <2>2. PICK stored \in Orders(set), fresh \in {<<>>} \union {<<id>> : id \in Ids} : Answer(r, f.sub, stored, fresh)
    BY Zenon, <2>1
  <2>3. fresh \in Seq(Ids)
    <3>1. <<>> \in Seq(Ids) /\ \A id \in Ids : <<id>> \in Seq(Ids)
      OBVIOUS
    <3> QED BY Zenon, <3>1
  <2>4. Cardinality(set) \in Nat
    BY Zenon, WorkerAssumption DEF Counted
  <2>5. stored \in Seq(set)
    BY Zenon, <2>4, OrderFacts
  <2>6. stored \in Seq(Ids)
    BY Zenon, <2>5, SeqSub
  <2> QED BY Zenon, <1>1, <1>2, <1>4, <1>5, <2>2, <2>3, <2>6
<1>6. CASE f.kind # "REQ"
  <2>1. relayOpen' = [relayOpen EXCEPT ![r] = @ \ {f.sub}] /\ UNCHANGED <<back, due, eosed>>
    BY Zenon, <1>6 DEF Relay
  <2> QED BY Zenon, <1>1, <1>2, <1>4, <1>6, <2>1
<1> QED BY Zenon, <1>5, <1>6

LEMMA RelayTypes ==
    ASSUME ChannelTypes, NEW r \in Relays, Relay(r)
    PROVE  ChannelTypes'
<1>1. /\ wire[r] # <<>> /\ wire[r] \in Seq(Frames) /\ wire' = [wire EXCEPT ![r] = Tail(wire[r])]
      /\ UNCHANGED <<subRelays, dedup, batch, toParser>> /\ UNCHANGED <<sub, cvars, shown>>
  BY Zenon, RelayCases
<1>2. PICK s \in Subs :
        \/ \E stored, fresh \in Seq(Ids) : Answer(r, s, stored, fresh)
        \/ relayOpen' = [relayOpen EXCEPT ![r] = @ \ {s}] /\ UNCHANGED <<back, due, eosed>>
  BY Zenon, RelayCases
<1>3. /\ wire \in [Relays -> Seq(Frames)] /\ relayOpen \in [Relays -> SUBSET Subs]
      /\ due \in [Subs -> SUBSET Ids] /\ eosed \in [Subs -> [Relays -> SUBSET Ids]]
      /\ DOMAIN back = Relays /\ back = [x \in Relays |-> back[x]] /\ \A x \in Relays : back[x] \in Seq(SentBy(x))
  BY Zenon DEF ChannelTypes
<1>4. wire' \in [Relays -> Seq(Frames)]
  BY Zenon, <1>1, <1>3, Tails
<1> DEFINE Rest4 ==
        /\ relayOpen' \in [Relays -> SUBSET Subs]
        /\ due' \in [Subs -> SUBSET Ids] /\ eosed' \in [Subs -> [Relays -> SUBSET Ids]]
        /\ DOMAIN back' = Relays /\ back' = [x \in Relays |-> back'[x]] /\ \A x \in Relays : back'[x] \in Seq(SentBy(x))
<1>5. ASSUME NEW stored \in Seq(Ids), NEW fresh \in Seq(Ids), Answer(r, s, stored, fresh)
      PROVE  Rest4
  <2>1. /\ relayOpen' = [relayOpen EXCEPT ![r] = @ \union {s}]
        /\ back' = [back EXCEPT ![r] = @ \o Reply(r, s, stored, fresh)]
        /\ due' = [due EXCEPT ![s] = @ \union Range(stored \o fresh)]
        /\ eosed' = [eosed EXCEPT ![s][r] = @ \union Range(stored)]
    BY Zenon, <1>5 DEF Answer, Reply
  <2>2. Reply(r, s, stored, fresh) \in Seq(SentBy(r)) /\ Range(stored) \in SUBSET Ids /\ Range(stored \o fresh) \in SUBSET Ids
    BY Zenon, ReplyFacts
  <2>3. back[r] \o Reply(r, s, stored, fresh) \in Seq(SentBy(r))
    BY Zenon, <1>3, <2>2, Concats
  <2>4. DOMAIN back' = Relays /\ back' = [x \in Relays |-> back'[x]] /\ \A x \in Relays : back'[x] \in Seq(SentBy(x))
    BY Zenon, <1>3, <2>1, <2>3
  <2>5. relayOpen' \in [Relays -> SUBSET Subs]
    BY <1>3, <2>1
  <2>6. due' \in [Subs -> SUBSET Ids] /\ eosed' \in [Subs -> [Relays -> SUBSET Ids]]
    BY <1>3, <2>1, <2>2
  <2> QED BY Zenon, <2>4, <2>5, <2>6
<1>6. ASSUME relayOpen' = [relayOpen EXCEPT ![r] = @ \ {s}], UNCHANGED <<back, due, eosed>>
      PROVE  Rest4
  <2>1. relayOpen' \in [Relays -> SUBSET Subs]
    BY <1>3, <1>6
  <2>2. back' = back /\ due' = due /\ eosed' = eosed
    BY Zenon, <1>6
  <2>3. due' \in [Subs -> SUBSET Ids] /\ eosed' \in [Subs -> [Relays -> SUBSET Ids]]
    BY Zenon, <1>3, <2>2
  <2>4. DOMAIN back' = Relays /\ back' = [x \in Relays |-> back'[x]] /\ \A x \in Relays : back'[x] \in Seq(SentBy(x))
    BY Zenon, <1>3, <2>2
  <2> QED BY Zenon, <2>1, <2>3, <2>4
<1> HIDE DEF Rest4
<1>7. Rest4
  BY Zenon, <1>2, <1>5, <1>6
<1> USE DEF Rest4
<1> QED BY Zenon, <1>1, <1>4, <1>7 DEF ChannelTypes, cvars

LEMMA InitTypes ==
    ASSUME SubInit
    PROVE  ChannelTypes
<1>1. \A S : <<>> \in Seq(S)
  OBVIOUS
<1>2. Absent \in Sub
  BY DEF Absent, Sub
<1> QED BY Zenon, <1>1, <1>2 DEF SubInit, Init, ChannelTypes

LEMMA StepTypes ==
    ASSUME ChannelTypes, [SubNext]_allVars
    PROVE  ChannelTypes'
<1>1. CASE SubNext
  BY Zenon, <1>1, ClientTypes, NetworkTypes, CacheTypes, CacheWorkerTypes, ConnectionTypes, FromRelayTypes,
     SweeperTypes, RelayTypes DEF SubNext
<1>2. CASE UNCHANGED allVars
  BY Zenon, <1>2 DEF ChannelTypes, allVars, vars, cvars, rvars
<1> QED BY Zenon, <1>1, <1>2

-----------------------------------------------------------------------------
\* What the handlers of the parser do to a subscription and its client.
LEMMA ProcessShows ==
    ASSUME ChannelTypes, NEW s \in Subs, NEW id \in Ids \union {NoId}, Process(s, id)
    PROVE  /\ \A t \in Subs \ {s} : sub'[t] = sub[t] /\ shown'[t] = shown[t]
           /\ sub'[s].open = sub[s].open /\ sub'[s].closeOnEose = sub[s].closeOnEose /\ sub'[s].closed = sub[s].closed
           /\ \/ UNCHANGED <<sub, shown>> /\ (id \in Ids => id \in sub[s].seen)
              \/ /\ id \in Ids /\ id \notin sub[s].seen /\ shown'[s] = Append(shown[s], Event(id))
                 /\ sub'[s].seen = IF Cardinality(sub[s].seen) < SeenCap THEN sub[s].seen \union {id} ELSE sub[s].seen
<1>1. sub \in [Subs -> Sub] /\ shown \in [Subs -> Seq(Items \union {Eoce})] /\ sub[s] \in Sub
  BY Zenon DEF ChannelTypes
<1>2. CASE id \notin Ids \/ id \in sub[s].seen
  BY Zenon, <1>2 DEF Process
<1>3. CASE ~(id \notin Ids \/ id \in sub[s].seen)
  <2> DEFINE room == Cardinality(sub[s].seen) < SeenCap
  <2>1. /\ sub' = IF room THEN [sub EXCEPT ![s].seen = @ \union {id}] ELSE sub
        /\ shown' = [shown EXCEPT ![s] = Append(@, Event(id))]
    BY Zenon, <1>3 DEF Process
  <2> HIDE DEF room
  <2>2. shown'[s] = Append(shown[s], Event(id)) /\ \A t \in Subs \ {s} : shown'[t] = shown[t]
    BY Zenon, <1>1, <2>1
  <2>3. /\ \A t \in Subs \ {s} : sub'[t] = sub[t]
        /\ sub'[s].open = sub[s].open /\ sub'[s].closeOnEose = sub[s].closeOnEose /\ sub'[s].closed = sub[s].closed
        /\ sub'[s].seen = IF room THEN sub[s].seen \union {id} ELSE sub[s].seen
    <3>1. CASE room
      <4>1. sub' = [sub EXCEPT ![s].seen = @ \union {id}]
        BY Zenon, <2>1, <3>1
      <4>2. /\ \A t \in Subs \ {s} : sub'[t] = sub[t]
            /\ sub'[s].open = sub[s].open /\ sub'[s].closeOnEose = sub[s].closeOnEose /\ sub'[s].closed = sub[s].closed
            /\ sub'[s].seen = sub[s].seen \union {id}
        BY <1>1, <4>1 DEF Sub
      <4> QED BY Zenon, <3>1, <4>2
    <3>2. CASE ~room
      BY Zenon, <2>1, <3>2
    <3> QED BY Zenon, <3>1, <3>2
  <2> QED BY Zenon, <1>3, <2>2, <2>3 DEF room
<1> QED BY Zenon, <1>2, <1>3

LEMMA EoseShows ==
    ASSUME ChannelTypes, NEW s \in Subs, NEW r \in Relays, HandleEose(s, r)
    PROVE  /\ \A t \in Subs \ {s} : sub'[t] = sub[t] /\ shown'[t] = shown[t]
           /\ sub'[s].open = sub[s].open /\ sub'[s].closeOnEose = sub[s].closeOnEose /\ sub'[s].seen = sub[s].seen
           /\ shown'[s] = Append(shown[s], Eose(r))
           /\ \/ /\ sub'[s].closed = sub[s].closed \union {r}
                 /\ closes' = Append(closes, [sub |-> s, url |-> r])
              \/ /\ sub[s].open /\ sub[s].closeOnEose => r \in sub[s].closed
                 /\ sub'[s].closed = sub[s].closed /\ closes' = closes
<1>1. sub \in [Subs -> Sub] /\ shown \in [Subs -> Seq(Items \union {Eoce})] /\ sub[s] \in Sub
  BY Zenon DEF ChannelTypes
<1>2. shown'[s] = Append(shown[s], Eose(r)) /\ \A t \in Subs \ {s} : shown'[t] = shown[t]
  BY Zenon, <1>1 DEF HandleEose
<1>3. CASE sub[s].open /\ sub[s].closeOnEose /\ r \notin sub[s].closed
  <2>1. sub' = [sub EXCEPT ![s].closed = @ \union {r}] /\ closes' = Append(closes, [sub |-> s, url |-> r])
    BY Zenon, <1>3 DEF HandleEose
  <2>2. /\ \A t \in Subs \ {s} : sub'[t] = sub[t]
        /\ sub'[s].open = sub[s].open /\ sub'[s].closeOnEose = sub[s].closeOnEose /\ sub'[s].seen = sub[s].seen
        /\ sub'[s].closed = sub[s].closed \union {r}
    <3>1. sub' = [sub EXCEPT ![s].closed = @ \union {r}]
      BY Zenon, <2>1
    <3> QED BY <1>1, <3>1 DEF Sub
  <2> QED BY Zenon, <1>2, <2>1, <2>2
<1>4. CASE ~(sub[s].open /\ sub[s].closeOnEose /\ r \notin sub[s].closed)
  <2>1. sub' = sub /\ closes' = closes
    BY Zenon, <1>4 DEF HandleEose
  <2> QED BY Zenon, <1>2, <1>4, <2>1
<1> QED BY Zenon, <1>3, <1>4

\* The messages that HandleCache meets.
LEMMA CacheCases ==
    ASSUME ChannelTypes, NEW s \in Subs, HandleCache(s)
    PROVE  \/ UNCHANGED <<sub, shown>>
           \/ sub[s].open /\ \E id \in Ids \union {NoId} : Process(s, id)
           \/ sub' = sub /\ shown' = [shown EXCEPT ![s] = Append(shown[s], Eoce)]
<1>1. PICK i \in First(cached, s) :
        LET x == cached[i].item
        IN  IF ~sub[s].open THEN UNCHANGED <<sub, shown>>
            ELSE IF x.kind = "EVENT" THEN Process(s, x.id)
            ELSE shown' = [shown EXCEPT ![s] = Append(@, x)] /\ UNCHANGED sub
  BY Zenon DEF HandleCache
<1>2. i \in 1..Len(cached) /\ cached \in Seq([sub : Subs, item : Events \union {Eoce}])
  BY Zenon DEF First, ChannelTypes
<1> DEFINE x == cached[i].item
<1>3. x \in Events \union {Eoce}
  <2>1. \A S : \A q \in Seq(S) : \A k \in 1..Len(q) : q[k] \in S
    OBVIOUS
  <2>2. cached[i] \in [sub : Subs, item : Events \union {Eoce}]
    BY Zenon, <1>2, <2>1
  <2> QED BY Zenon, <2>2
<1> HIDE DEF x
<1>4. IF ~sub[s].open THEN UNCHANGED <<sub, shown>>
      ELSE IF x.kind = "EVENT" THEN Process(s, x.id)
      ELSE shown' = [shown EXCEPT ![s] = Append(@, x)] /\ UNCHANGED sub
  BY Zenon, <1>1 DEF x
<1>5. CASE x \in Events
  <2>1. x.kind = "EVENT" /\ x.id \in Ids \union {NoId}
    BY Zenon, <1>5, Kinds
  <2> QED BY Zenon, <1>4, <2>1
<1>6. CASE x = Eoce
  <2>1. Eoce.kind # "EVENT"
    BY DEF Eoce
  <2>2. x.kind # "EVENT"
    BY Zenon, <1>6, <2>1
  <2>3. CASE sub[s].open
    <3>1. sub' = sub /\ shown' = [shown EXCEPT ![s] = Append(shown[s], x)]
      BY Zenon, <1>4, <2>2, <2>3
    <3> QED BY Zenon, <1>6, <3>1
  <2> QED BY Zenon, <1>4, <2>3
<1> QED BY Zenon, <1>3, <1>5, <1>6

\* What the two of them have in common.
Shows(s) ==
    /\ \A t \in Subs \ {s} : sub'[t] = sub[t] /\ shown'[t] = shown[t]
    /\ sub'[s].open = sub[s].open /\ sub'[s].closeOnEose = sub[s].closeOnEose
    /\ \/ \E id \in Ids :
            /\ sub[s].open /\ id \notin sub[s].seen /\ shown'[s] = Append(shown[s], Event(id))
            /\ sub'[s].seen = IF Cardinality(sub[s].seen) < SeenCap THEN sub[s].seen \union {id} ELSE sub[s].seen
       \/ sub'[s].seen = sub[s].seen /\ shown'[s] = shown[s]
       \/ sub'[s].seen = sub[s].seen /\ \E x \in Controls \union {Eoce} : shown'[s] = Append(shown[s], x)

LEMMA HandlerShows ==
    ASSUME ChannelTypes, NEW s \in Subs, HandleNetwork(s) \/ HandleCache(s)
    PROVE  Shows(s)
<1>1. ASSUME NEW id \in Ids \union {NoId}, Process(s, id), sub[s].open PROVE Shows(s)
  BY Zenon, <1>1, ProcessShows DEF Shows
<1>2. ASSUME NEW r \in Relays, HandleEose(s, r) PROVE Shows(s)
  <2>1. Eose(r) \in Controls \union {Eoce}
    BY Zenon, Kinds
  <2> QED BY Zenon, <1>2, <2>1, EoseShows DEF Shows
<1>3. ASSUME UNCHANGED <<sub, shown>> PROVE Shows(s)
  <2>1. sub' = sub /\ shown' = shown
    BY Zenon, <1>3
  <2> QED BY Zenon, <2>1 DEF Shows
<1>4. ASSUME sub' = sub, shown' = [shown EXCEPT ![s] = Append(shown[s], Eoce)] PROVE Shows(s)
  <2>1. shown \in [Subs -> Seq(Items \union {Eoce})]
    BY Zenon DEF ChannelTypes
  <2>2. shown'[s] = Append(shown[s], Eoce) /\ \A t \in Subs \ {s} : shown'[t] = shown[t]
    BY Zenon, <1>4, <2>1
  <2> QED BY Zenon, <1>4, <2>2 DEF Shows
<1>5. CASE HandleCache(s)
  BY Zenon, <1>1, <1>3, <1>4, <1>5, CacheCases
<1>6. CASE HandleNetwork(s)
  <2>1. PICK i \in 1..Len(toParser) :
             \/ \E r \in Relays : HandleEose(s, r)
             \/ /\ toParser[i] \in Batches
                /\ IF sub[s].open THEN Process(s, Head(toParser[i].items).id) ELSE UNCHANGED <<sub, shown>>
    BY Zenon, <1>6, NetworkCases
  <2>2. ASSUME toParser[i] \in Batches PROVE Head(toParser[i].items).id \in Ids \union {NoId}
    <3>1. toParser \in Seq(Messages)
      BY Zenon DEF ChannelTypes
    <3>2. Head(toParser[i].items) \in Events
      BY Zenon, <2>2, <3>1, TakesEvent
    <3> QED BY Zenon, <3>2, Kinds
  <2> QED BY Zenon, <1>1, <1>2, <1>3, <2>1, <2>2
<1> QED BY Zenon, <1>5, <1>6

-----------------------------------------------------------------------------
\* Process shows an event once: an id that was shown is in `seen`, which has
\* room for all of them.
ShownInv ==
    \A s \in Subs : \A id \in Ids :
        /\ Single(shown[s], {Event(id)})
        /\ sub[s].open => (Has(shown[s], {Event(id)}) => id \in sub[s].seen)

LEMMA HandlerOnce ==
    ASSUME ChannelTypes, ShownInv, Cardinality(Ids) <= SeenCap, NEW s \in Subs, HandleNetwork(s) \/ HandleCache(s)
    PROVE  ShownInv'
<1> SUFFICES ASSUME NEW t \in Subs, NEW y \in Ids
             PROVE  /\ Single(shown'[t], {Event(y)})
                    /\ sub'[t].open => (Has(shown'[t], {Event(y)}) => y \in sub'[t].seen)
  BY Zenon DEF ShownInv
<1>1. /\ Single(shown[t], {Event(y)})
      /\ sub[t].open => (Has(shown[t], {Event(y)}) => y \in sub[t].seen)
  BY Zenon DEF ShownInv
<1>2. Shows(s)
  BY Zenon, HandlerShows
<1>3. CASE t # s
  <2>1. sub'[t] = sub[t] /\ shown'[t] = shown[t]
    BY Zenon, <1>2, <1>3 DEF Shows
  <2> QED BY Zenon, <1>1, <2>1
<1>4. CASE t = s
  <2>1. shown[s] \in Seq(Items \union {Eoce}) /\ sub[s] \in Sub
    BY Zenon DEF ChannelTypes
  <2> DEFINE D == {Event(y)}
             M == Items \union {Eoce}
  <2> HIDE DEF D, M
  <2>a. \A x \in M : Has(Append(shown[s], x), D) <=> Has(shown[s], D) \/ x \in D
    <3>1. shown[s] \in Seq(M)
      BY Zenon, <2>1 DEF M
    <3> QED BY Zenon, <3>1, Appends
  <2>b. \A x \in M : Single(shown[s], D) /\ ~(Has(shown[s], D) /\ x \in D) => Single(Append(shown[s], x), D)
    <3>1. shown[s] \in Seq(M)
      BY Zenon, <2>1 DEF M
    <3> QED BY Zenon, <3>1, Appends
  <2>2. ASSUME NEW id \in Ids, sub[s].open, id \notin sub[s].seen, shown'[s] = Append(shown[s], Event(id)),
               sub'[s].seen = IF Cardinality(sub[s].seen) < SeenCap THEN sub[s].seen \union {id} ELSE sub[s].seen
        PROVE  /\ Single(shown'[s], {Event(y)})
               /\ Has(shown'[s], {Event(y)}) => y \in sub'[s].seen
    <3>1. sub[s].seen \in SUBSET Ids
      BY Zenon, <2>1 DEF Sub
    <3>2. Cardinality(sub[s].seen) < SeenCap
      <4>1. Cardinality(sub[s].seen) < Cardinality(Ids)
        BY Zenon, <2>2, <3>1, WorkerAssumption DEF Counted
      <4>2. Cardinality(sub[s].seen) \in Nat /\ Cardinality(Ids) \in Nat /\ SeenCap \in Nat
        BY Zenon, <3>1, WorkerAssumption, SubscriptionsAssumption DEF Counted
      <4> QED BY <4>1, <4>2
    <3>3. sub'[s].seen = sub[s].seen \union {id}
      BY Zenon, <2>2, <3>2
    <3>4. Event(id) \in Items \union {Eoce} /\ (Event(id) \in {Event(y)} <=> id = y)
      BY Zenon, Kinds DEF Items
    <3>5. Has(shown'[s], {Event(y)}) <=> Has(shown[s], {Event(y)}) \/ id = y
      BY Zenon, <2>2, <2>a, <3>4 DEF D, M
    <3>6. Single(shown[s], {Event(y)}) /\ ~(Has(shown[s], {Event(y)}) /\ id = y) => Single(shown'[s], {Event(y)})
      BY Zenon, <2>2, <2>b, <3>4 DEF D, M
    <3> QED BY Zenon, <1>1, <1>4, <2>2, <3>3, <3>5, <3>6
  <2>3. ASSUME NEW x \in Controls \union {Eoce}, shown'[s] = Append(shown[s], x)
        PROVE  /\ Single(shown'[s], {Event(y)})
               /\ Has(shown'[s], {Event(y)}) => Has(shown[s], {Event(y)})
    <3>1. x \in Items \union {Eoce} /\ x \notin {Event(y)}
      BY DEF Items, Controls, Eoce, Event
    <3>2. Has(shown'[s], {Event(y)}) => Has(shown[s], {Event(y)})
      BY Zenon, <2>3, <2>a, <3>1 DEF D, M
    <3>3. Single(shown[s], {Event(y)}) => Single(shown'[s], {Event(y)})
      BY Zenon, <2>3, <2>b, <3>1 DEF D, M
    <3> QED BY Zenon, <1>1, <1>4, <3>2, <3>3
  <2> QED BY Zenon, <1>1, <1>2, <1>4, <2>2, <2>3 DEF Shows
<1> QED BY Zenon, <1>3, <1>4

LEMMA ClientOnce ==
    ASSUME ChannelTypes, ShownInv, NEW s \in Subs, OpenSubscription(s) \/ CloseSubscription(s)
    PROVE  ShownInv'
<1>1. sub \in [Subs -> Sub] /\ shown \in [Subs -> Seq(Items \union {Eoce})]
  BY Zenon DEF ChannelTypes
<1>2. \A t \in Subs \ {s} : sub'[t] = sub[t] /\ shown'[t] = shown[t]
  BY Zenon, <1>1 DEF OpenSubscription, CloseSubscription
<1>3. shown'[s] = <<>> \/ (shown'[s] = shown[s] /\ ~sub'[s].open)
  <2>1. CASE OpenSubscription(s)
    BY Zenon, <1>1, <2>1 DEF OpenSubscription
  <2>2. CASE CloseSubscription(s)
    <3>1. sub'[s] = Absent /\ shown' = shown
      BY Zenon, <1>1, <2>2 DEF CloseSubscription
    <3>2. ~Absent.open
      BY DEF Absent
    <3> QED BY Zenon, <3>1, <3>2
  <2> QED BY Zenon, <2>1, <2>2
<1> QED BY Zenon, <1>2, <1>3, Empties DEF ShownInv

\* What the other processes leave alone.
LEMMA OthersShow ==
    ASSUME \/ CacheWorker \/ ConnectionsFromCache \/ ConnectionsFromParser \/ Sweeper
           \/ \E r \in Relays : ConnectionsFromRelay(r) \/ Relay(r)
    PROVE  sub' = sub /\ shown' = shown
<1>1. CASE CacheWorker \/ ConnectionsFromCache \/ ConnectionsFromParser \/ Sweeper
  BY Zenon, <1>1 DEF CacheWorker, ConnectionsFromCache, ConnectionsFromParser, Sweeper
<1>2. ASSUME NEW r \in Relays, ConnectionsFromRelay(r) \/ Relay(r) PROVE sub' = sub /\ shown' = shown
  BY Zenon, <1>2 DEF ConnectionsFromRelay, Relay
<1> QED BY Zenon, <1>1, <1>2

\* ShownOnce, when the ids seen fit: dedup_max_size is the number of events for
\* which process_one (pipeline/mod.rs) drops every repetition, so until then the
\* client is shown each event once, whatever the cache and the relays send, the
\* workers batch or the dedup ring forgets.
THEOREM EventsShownOnce ==
    ASSUME Cardinality(Ids) <= SeenCap
    PROVE  SubSpec => []ShownOnce
<1>1. SubInit => ChannelTypes /\ ShownInv
  <2>1. SubInit => ShownInv
    BY Zenon, Empties DEF SubInit, ShownInv
  <2> QED BY Zenon, <2>1, InitTypes
<1>2. ASSUME ChannelTypes, ShownInv, [SubNext]_allVars PROVE (ChannelTypes /\ ShownInv)'
  <2>1. ChannelTypes'
    BY Zenon, <1>2, StepTypes
  <2>2. ASSUME sub' = sub, shown' = shown PROVE ShownInv'
    BY Zenon, <1>2, <2>2 DEF ShownInv
  <2>3. UNCHANGED allVars => sub' = sub /\ shown' = shown
    BY Zenon DEF allVars
  <2>4. ShownInv'
    BY Zenon, <1>2, <2>2, <2>3, OthersShow, HandlerOnce, ClientOnce DEF SubNext
  <2> QED BY Zenon, <2>1, <2>4
<1>3. ASSUME ChannelTypes, ShownInv PROVE ShownOnce
  <2> SUFFICES ASSUME NEW s \in Subs, NEW i \in DOMAIN shown[s], NEW j \in DOMAIN shown[s], i # j,
                      shown[s][i].kind = "EVENT", shown[s][i].id \in Ids, shown[s][i] = shown[s][j]
               PROVE  FALSE
    BY Zenon DEF ShownOnce
  <2>1. shown[s] \in Seq(Items \union {Eoce})
    BY Zenon, <1>3 DEF ChannelTypes
  <2>2. DOMAIN shown[s] = 1..Len(shown[s]) /\ shown[s][i] \in Items \union {Eoce}
    BY <2>1
  <2>3. shown[s][i] \in Events
    BY <2>2 DEF Items, Controls, Eoce
  <2>4. shown[s][i] = Event(shown[s][i].id)
    BY Zenon, <2>3, Kinds
  <2>5. Single(shown[s], {Event(shown[s][i].id)})
    BY Zenon, <1>3 DEF ShownInv
  <2> QED BY Zenon, <2>2, <2>4, <2>5 DEF Single
<1> QED BY <1>1, <1>2, <1>3, PTL DEF SubSpec

-----------------------------------------------------------------------------
\* What a step must respect to keep the events of a session.
LEMMA KeptStep ==
    ASSUME ChannelTypes, ChannelTypes', NEW t \in Subs, Kept(t),
           \A id \in Ids : Has(shown[t], {Event(id)}) => Has(shown'[t], {Event(id)}),
           \A id \in Ids : Held(t, id) => Held(t, id)',
           \A id \in sub'[t].seen : id \in sub[t].seen \/ Has(shown'[t], {Event(id)}),
           \A id \in Ids : Has(dedup'[t], {id}) => Has(dedup[t], {id}) \/ Held(t, id)',
           \A id \in due'[t] : id \in due[t] \/ \E r \in Relays : Has(back'[r], {Sent(t, Event(id))}),
           \A id \in Ids : \A r \in Relays : Has(back[r], {Sent(t, Event(id))})
               => Has(back'[r], {Sent(t, Event(id))}) \/ Held(t, id)' \/ Has(dedup[t], {id})
    PROVE  Kept(t)'
<1>1. sub[t].seen \in SUBSET Ids /\ due[t] \in SUBSET Ids
  <2>1. sub[t] \in Sub /\ due[t] \in SUBSET Ids
    BY Zenon DEF ChannelTypes
  <2> QED BY Zenon, <2>1 DEF Sub
<1>2. \A id \in sub'[t].seen : Has(shown'[t], {Event(id)})
  BY Zenon, <1>1 DEF Kept
<1>3. \A id \in Ids : Has(dedup'[t], {id}) => Held(t, id)'
  BY Zenon DEF Kept
<1>4. \A id \in due'[t] : Held(t, id)' \/ \E r \in Relays : Has(back'[r], {Sent(t, Event(id))})
  <2> SUFFICES ASSUME NEW id \in due[t] PROVE Held(t, id)' \/ \E r \in Relays : Has(back'[r], {Sent(t, Event(id))})
    BY Zenon
  <2>1. Held(t, id) \/ \E r \in Relays : Has(back[r], {Sent(t, Event(id))})
    BY Zenon DEF Kept
  <2>2. Has(dedup[t], {id}) => Held(t, id)
    BY Zenon, <1>1 DEF Kept
  <2> QED BY Zenon, <1>1, <2>1, <2>2
<1> QED BY Zenon, <1>2, <1>3, <1>4 DEF Kept

LEMMA EosedIds ==
    ASSUME ChannelTypes, NEW t \in Subs, NEW r \in Relays
    PROVE  eosed[t][r] \in SUBSET Ids
<1>1. eosed \in [Subs -> [Relays -> SUBSET Ids]]
  BY Zenon DEF ChannelTypes
<1> QED BY Zenon, <1>1

LEMMA OrderedStep ==
    ASSUME ChannelTypes, NEW t \in Subs, Ordered(t),
           \A id \in Ids : Has(shown[t], {Event(id)}) => Has(shown'[t], {Event(id)}),
           \A id \in Ids : Held(t, id) => Held(t, id)',
           \A r \in Relays : \A id \in eosed'[t][r] :
               /\ id \in eosed[t][r]
               /\ Led(back[r], {Sent(t, Eose(r))}, {Sent(t, Event(id))})
                    => Held(t, id)' \/ Led(back'[r], {Sent(t, Eose(r))}, {Sent(t, Event(id))})
               /\ Led(toParser, {EndOf(t, r)}, Carriers(t, id))
                    => Has(shown'[t], {Event(id)}) \/ Led(toParser', {EndOf(t, r)}, Carriers(t, id))
               /\ Has(shown'[t], {Eose(r)}) => Has(shown[t], {Eose(r)}) \/ Has(shown'[t], {Event(id)})
    PROVE  Ordered(t)'
<1> SUFFICES ASSUME NEW r \in Relays, NEW id \in eosed'[t][r]
             PROVE  /\ Held(t, id)' \/ Led(back'[r], {Sent(t, Eose(r))}, {Sent(t, Event(id))})
                    /\ Has(shown'[t], {Event(id)}) \/ Led(toParser', {EndOf(t, r)}, Carriers(t, id))
                    /\ Has(shown'[t], {Eose(r)}) => Has(shown'[t], {Event(id)})
  BY Zenon DEF Ordered
<1>1. id \in eosed[t][r] /\ id \in Ids
  BY Zenon, EosedIds
<1>2. /\ Held(t, id) \/ Led(back[r], {Sent(t, Eose(r))}, {Sent(t, Event(id))})
      /\ Has(shown[t], {Event(id)}) \/ Led(toParser, {EndOf(t, r)}, Carriers(t, id))
      /\ Has(shown[t], {Eose(r)}) => Has(shown[t], {Event(id)})
  BY Zenon, <1>1 DEF Ordered
<1> QED BY Zenon, <1>1, <1>2

\* Steps that leave the events of t alone.
LEMMA KeptFrame ==
    ASSUME ChannelTypes, ChannelTypes', NEW t \in Subs, Kept(t), Ordered(t),
           sub'[t].seen = sub[t].seen, shown'[t] = shown[t], batch'[t] = batch[t], toParser' = toParser,
           dedup'[t] = dedup[t], due'[t] = due[t], eosed'[t] = eosed[t], back' = back
    PROVE  Kept(t)' /\ Ordered(t)'
<1>1. \A id \in Ids : Held(t, id) => Held(t, id)'
  BY Zenon DEF Held
<1>2. Kept(t)'
  BY Zenon, <1>1, KeptStep
<1>3. Ordered(t)'
  BY Zenon, <1>1, OrderedStep
<1> QED BY Zenon, <1>2, <1>3

LEMMA SweeperKeeps ==
    ASSUME ChannelTypes, ChannelTypes', Sweeper, NEW t \in Subs, Kept(t), Ordered(t)
    PROVE  Kept(t)' /\ Ordered(t)'
<1>1. PICK S \in SUBSET Subs : Sweep(S)
  BY Zenon DEF Sweeper
<1>2. UNCHANGED <<sub, shown, dedup>> /\ UNCHANGED rvars
  BY Zenon, <1>1 DEF Sweeper, Sweep
<1>3. sub' = sub /\ shown' = shown /\ dedup' = dedup /\ due' = due /\ eosed' = eosed /\ back' = back
  BY Zenon, <1>2 DEF rvars
<1>4. \A id \in Ids : \A r \in Relays : Forwards(t, id, r)
  BY Zenon, <1>1, SweepFacts
<1>5. \A id \in Ids : Held(t, id) => Held(t, id)'
  <2> TAKE id \in Ids
  <2>1. PICK r : Forwards(t, id, r)
    BY Zenon, <1>1, SweepFacts
  <2> QED BY Zenon, <1>3, <2>1 DEF Held, Forwards, Buffered
<1>6. Kept(t)'
  BY Zenon, <1>3, <1>5, KeptStep
<1>7. \A r \in Relays : \A id \in eosed[t][r] :
        Led(toParser, {EndOf(t, r)}, Carriers(t, id)) => Led(toParser', {EndOf(t, r)}, Carriers(t, id))
  BY Zenon, <1>4, EosedIds DEF Forwards
<1>8. Ordered(t)'
  BY Zenon, <1>3, <1>5, <1>7, OrderedStep
<1> QED BY Zenon, <1>6, <1>8

LEMMA FromParserKeeps ==
    ASSUME ChannelTypes, ChannelTypes', ConnectionsFromParser, NEW t \in Subs, Kept(t), Ordered(t)
    PROVE  Kept(t)' /\ Ordered(t)'
<1> DEFINE m == Head(closes)
<1>1. /\ UNCHANGED <<sub, toCache, envelopes, cached, rvars, shown>>
      /\ ParserClose(m.sub) \/ ParserCloseAt(m.sub, m.url)
  BY Zenon DEF ConnectionsFromParser
<1> HIDE DEF m
<1>2. batch' = batch /\ toParser' = toParser
      /\ dedup' \in {dedup, [dedup EXCEPT ![m.sub] = <<>>]}
  BY Zenon, <1>1 DEF ParserClose, ParserCloseAt
<1>3. sub' = sub /\ shown' = shown /\ due' = due /\ eosed' = eosed /\ back' = back
  BY Zenon, <1>1 DEF rvars
<1>4. \A id : Has(dedup'[t], {id}) => Has(dedup[t], {id})
  <2>1. dedup \in [Subs -> Seq(Ids)]
    BY Zenon DEF ChannelTypes
  <2>2. dedup'[t] = dedup[t] \/ dedup'[t] = <<>>
    BY Zenon, <1>2, <2>1
  <2> QED BY Zenon, <2>2, Empties
<1>5. \A id \in Ids : Held(t, id) => Held(t, id)'
  BY Zenon, <1>2, <1>3 DEF Held
<1>6. Kept(t)'
  BY Zenon, <1>3, <1>4, <1>5, KeptStep
<1>7. Ordered(t)'
  BY Zenon, <1>2, <1>3, <1>5, OrderedStep
<1> QED BY Zenon, <1>6, <1>7

\* A frame of a relay is passed on, or dropped as a duplicate.  The EOSE is the
\* oldest frame only when the events before it are held.
LEMMA FromRelayKeeps ==
    ASSUME ChannelTypes, ChannelTypes', NEW r \in Relays, ConnectionsFromRelay(r),
           NEW t \in Subs, Kept(t), Ordered(t)
    PROVE  Kept(t)' /\ Ordered(t)'
<1> DEFINE s == Head(back[r]).sub
           h == Head(back[r])
<1>1. back[r] # <<>> /\ back[r] \in Seq(SentBy(r)) /\ s \in Subs /\ back' = [back EXCEPT ![r] = Tail(back[r])]
  BY Zenon, RelayFrameCases
<1>2. \/ h = Sent(s, Eose(r)) /\ WriteControl(s, r) /\ dedup' = dedup
      \/ \E id \in Ids \union {NoId} : h = Sent(s, Event(id)) /\ WriteEvent(s, id)
  BY Zenon, RelayFrameCases
<1>3. sub' = sub /\ shown' = shown /\ due' = due /\ eosed' = eosed
  BY Zenon DEF ConnectionsFromRelay
<1>4. DOMAIN back = Relays /\ back = [x \in Relays |-> back[x]]
  BY Zenon DEF ChannelTypes
<1>5. back'[r] = Tail(back[r]) /\ \A x \in Relays \ {r} : back'[x] = back[x]
  BY Zenon, <1>1, <1>4
<1>6. /\ \A D : Has(back[r], D) <=> h \in D \/ Has(back'[r], D)
      /\ \A E, D : Led(back[r], E, D) => h \notin E /\ (h \notin D => Led(back'[r], E, D))
  <2>1. \A D : Has(back[r], D) <=> h \in D \/ Has(Tail(back[r]), D)
    BY Zenon, <1>1, Tails
  <2>2. \A E, D : Led(back[r], E, D) => h \notin E /\ (h \notin D => Led(Tail(back[r]), E, D))
    BY Zenon, <1>1, Tails
  <2> QED BY Zenon, <1>5, <2>1, <2>2
<1> HIDE DEF s, h
<1>7. \A s1, x1, s2, x2 : Sent(s1, x1) = Sent(s2, x2) => s1 = s2 /\ x1 = x2
  BY DEF Sent
<1>8. CASE h = Sent(s, Eose(r)) /\ WriteControl(s, r) /\ dedup' = dedup
  <2>1. \A id \in Ids : h \notin {Sent(t, Event(id))}
    BY Zenon, <1>7, <1>8, Kinds
  <2>2. ASSUME NEW id \in Ids, NEW x \in Relays
        PROVE  /\ Buffered(t, id) => Buffered(t, id)'
               /\ Led(toParser, {EndOf(t, x)}, Carriers(t, id)) /\ (t = s /\ x = r => Buffered(t, id))
                    => Led(toParser', {EndOf(t, x)}, Carriers(t, id))
    BY Zenon, <1>1, <1>8, WriteControlFacts
  <2>3. \A id \in Ids : Held(t, id) => Held(t, id)'
    BY Zenon, <1>3, <2>2 DEF Held, Buffered
  <2>4. \A id \in Ids : \A x \in Relays : Has(back[x], {Sent(t, Event(id))}) => Has(back'[x], {Sent(t, Event(id))})
    BY Zenon, <1>5, <1>6, <2>1
  <2>5. Kept(t)'
    BY Zenon, <1>3, <1>8, <2>3, <2>4, KeptStep
  <2>6. ASSUME NEW x \in Relays, NEW id \in eosed[t][x], id \in Ids
        PROVE  /\ Led(back[x], {Sent(t, Eose(x))}, {Sent(t, Event(id))})
                    => Led(back'[x], {Sent(t, Eose(x))}, {Sent(t, Event(id))})
               /\ Led(toParser, {EndOf(t, x)}, Carriers(t, id))
                    => Has(shown'[t], {Event(id)}) \/ Led(toParser', {EndOf(t, x)}, Carriers(t, id))
    <3>1. Led(back[x], {Sent(t, Eose(x))}, {Sent(t, Event(id))})
                    => Led(back'[x], {Sent(t, Eose(x))}, {Sent(t, Event(id))})
      BY Zenon, <1>5, <1>6, <2>1, <2>6
    <3>2. ASSUME t = s, x = r PROVE Held(t, id)
      <4>1. ~Led(back[r], {Sent(t, Eose(r))}, {Sent(t, Event(id))})
        BY Zenon, <1>6, <1>8, <3>2
      <4> QED BY Zenon, <2>6, <3>2, <4>1 DEF Ordered
    <3>3. t = s /\ x = r => Buffered(t, id) \/ Has(shown'[t], {Event(id)})
      BY Zenon, <1>3, <3>2 DEF Held, Buffered
    <3> QED BY Zenon, <2>2, <2>6, <3>1, <3>3
  <2>7. Ordered(t)'
    BY Zenon, <1>3, <2>3, <2>6, EosedIds, OrderedStep
  <2> QED BY Zenon, <2>5, <2>7
<1>9. ASSUME NEW id1 \in Ids \union {NoId}, h = Sent(s, Event(id1)), WriteEvent(s, id1)
      PROVE  Kept(t)' /\ Ordered(t)'
  <2>1. ASSUME NEW id \in Ids
        PROVE  /\ \A x \in Relays : Forwards(t, id, x)
               /\ Has(dedup'[t], {id}) => Has(dedup[t], {id}) \/ Buffered(t, id)'
               /\ h \in {Sent(t, Event(id))} => Has(dedup[t], {id}) \/ Buffered(t, id)'
    <3>1. h \in {Sent(t, Event(id))} => t = s /\ id = id1
      BY Zenon, <1>7, <1>9, Kinds
    <3>2. /\ \A x \in Relays : Forwards(t, id, x)
          /\ Has(dedup'[t], {id}) => Has(dedup[t], {id}) \/ Buffered(t, id)'
      BY Zenon, <1>1, <1>9, WriteEventFacts
    <3>3. t = s /\ id = id1 => Has(dedup[t], {id}) \/ Buffered(t, id)'
      BY Zenon, <1>1, <1>9, <2>1, WriteEventFacts
    <3> QED BY Zenon, <3>1, <3>2, <3>3
  <2>2. \A id \in Ids : Buffered(t, id)' => Held(t, id)'
    BY Zenon DEF Held, Buffered
  <2>3. \A id \in Ids : Held(t, id) => Held(t, id)'
    BY Zenon, <1>3, <2>1, <2>2 DEF Held, Buffered, Forwards
  <2>4. \A id \in Ids : \A x \in Relays : Has(back[x], {Sent(t, Event(id))})
           => Has(back'[x], {Sent(t, Event(id))}) \/ Held(t, id)' \/ Has(dedup[t], {id})
    BY Zenon, <1>5, <1>6, <2>1, <2>2
  <2>5. Kept(t)'
    BY Zenon, <1>3, <2>1, <2>2, <2>3, <2>4, KeptStep
  <2>6. ASSUME NEW x \in Relays, NEW id \in Ids
        PROVE  /\ Led(back[x], {Sent(t, Eose(x))}, {Sent(t, Event(id))})
                    => Held(t, id)' \/ Led(back'[x], {Sent(t, Eose(x))}, {Sent(t, Event(id))})
               /\ Led(toParser, {EndOf(t, x)}, Carriers(t, id)) => Led(toParser', {EndOf(t, x)}, Carriers(t, id))
    <3>1. Has(dedup[t], {id}) => Held(t, id)
      BY Zenon DEF Kept
    <3>2. h \in {Sent(t, Event(id))} => Held(t, id)'
      BY Zenon, <2>1, <2>2, <2>3, <3>1
    <3> QED BY Zenon, <1>5, <1>6, <2>1, <3>2 DEF Forwards
  <2>7. Ordered(t)'
    BY Zenon, <1>3, <2>3, <2>6, EosedIds, OrderedStep
  <2> QED BY Zenon, <2>5, <2>7
<1> QED BY Zenon, <1>2, <1>8, <1>9

\* What the parser takes from the channel, for the subscription and the others.
LEMMA NetworkTakes ==
    ASSUME ChannelTypes, NEW s \in Subs, HandleNetwork(s), NEW t \in Subs, NEW id, NEW r,
           sub[t].open, Kept(t), Ordered(t)
    PROVE  /\ id \in Ids /\ Has(toParser, Carriers(t, id)) => Has(toParser', Carriers(t, id)) \/ Has(shown'[t], {Event(id)})
           /\ id \in Ids /\ Led(toParser, {EndOf(t, r)}, Carriers(t, id))
                => Led(toParser', {EndOf(t, r)}, Carriers(t, id)) \/ Has(shown'[t], {Event(id)})
           /\ id \in eosed[t][r] /\ Has(shown'[t], {Eose(r)}) => Has(shown[t], {Eose(r)}) \/ Has(shown'[t], {Event(id)})
           /\ \A D : Has(shown[t], D) => Has(shown'[t], D)
           /\ \A y \in sub'[t].seen : y \in sub[t].seen \/ Has(shown'[t], {Event(y)})
           /\ Has(toParser', {EndOf(t, r)}) => Has(toParser, {EndOf(t, r)})
           /\ Has(toParser, {EndOf(t, r)}) /\ ~Has(toParser', {EndOf(t, r)}) => t = s /\ HandleEose(s, r)
           /\ Has(shown'[t], {Eose(r)}) => Has(shown[t], {Eose(r)}) \/ Has(toParser, {EndOf(t, r)})
<1>1. PICK i \in 1..Len(toParser) :
             /\ toParser[i].sub = s /\ \A j \in 1..i - 1 : toParser[j].sub # s
             /\ \/ \E r1 \in Relays :
                     toParser[i] = EndOf(s, r1) /\ toParser' = Without(toParser, i) /\ HandleEose(s, r1)
                \/ /\ toParser[i] \in Batches /\ toParser' = Rest(toParser, i)
                   /\ IF sub[s].open THEN Process(s, Head(toParser[i].items).id) ELSE UNCHANGED <<sub, shown>>
  BY Zenon, NetworkCases
<1>2. toParser \in Seq(Messages) /\ \A x \in Subs : shown[x] \in Seq(Items \union {Eoce})
  BY Zenon DEF ChannelTypes
<1>3. \A k \in Relays : Eose(k) \in Items \union {Eoce} /\ Eose(k) \notin {Event(id)}
  BY Zenon, Kinds DEF Items
<1>4. \A k \in Ids : Event(k) \in Items \union {Eoce} /\ Event(k) \notin {Eose(r)}
  BY Zenon, Kinds DEF Items
<1>5. ASSUME NEW x \in Items \union {Eoce}
      PROVE  \A D : Has(Append(shown[s], x), D) <=> Has(shown[s], D) \/ x \in D
  BY Zenon, <1>2, <1>5, Appends
<1>6. ASSUME NEW r1 \in Relays, toParser[i] = EndOf(s, r1), toParser' = Without(toParser, i), HandleEose(s, r1)
      PROVE  /\ Has(toParser, Carriers(t, id)) => Has(toParser', Carriers(t, id))
             /\ Led(toParser, {EndOf(t, r)}, Carriers(t, id)) => Led(toParser', {EndOf(t, r)}, Carriers(t, id))
             /\ id \in eosed[t][r] /\ Has(shown'[t], {Eose(r)}) => Has(shown[t], {Eose(r)}) \/ Has(shown'[t], {Event(id)})
             /\ \A D : Has(shown[t], D) => Has(shown'[t], D)
             /\ sub'[t].seen = sub[t].seen
             /\ Has(toParser', {EndOf(t, r)}) => Has(toParser, {EndOf(t, r)})
             /\ Has(toParser, {EndOf(t, r)}) /\ ~Has(toParser', {EndOf(t, r)}) => t = s /\ HandleEose(s, r)
             /\ Has(shown'[t], {Eose(r)}) => Has(shown[t], {Eose(r)}) \/ Has(toParser, {EndOf(t, r)})
  <2>1. /\ Has(toParser, Carriers(t, id)) => Has(toParser', Carriers(t, id))
        /\ Led(toParser, {EndOf(t, r)}, Carriers(t, id)) => Led(toParser', {EndOf(t, r)}, Carriers(t, id))
        /\ Has(toParser', {EndOf(t, r)}) => Has(toParser, {EndOf(t, r)})
        /\ Has(toParser, {EndOf(t, r)}) /\ ~(t = s /\ r = r1) => Has(toParser', {EndOf(t, r)})
    BY Zenon, <1>2, <1>6, TakesEnd
  <2>2. /\ t # s => sub'[t] = sub[t] /\ shown'[t] = shown[t]
        /\ sub'[s].seen = sub[s].seen /\ shown'[s] = Append(shown[s], Eose(r1))
    BY Zenon, <1>6, EoseShows
  <2>3. \A D : Has(shown'[s], D) <=> Has(shown[s], D) \/ Eose(r1) \in D
    BY Zenon, <1>3, <1>5, <2>2
  <2>4. \A D : Has(shown[t], D) => Has(shown'[t], D)
    BY Zenon, <2>2, <2>3
  <2>5. Has(shown'[t], {Eose(r)}) /\ ~Has(shown[t], {Eose(r)}) => t = s /\ r = r1
    BY Zenon, <2>2, <2>3, Kinds
  <2>6. ASSUME t = s, r = r1, id \in eosed[t][r] PROVE Has(shown'[t], {Event(id)})
    <3>1. Has(shown[t], {Event(id)}) \/ Led(toParser, {EndOf(t, r)}, Carriers(t, id))
      BY Zenon, <2>6 DEF Ordered
    <3>2. toParser[i] \in {EndOf(t, r)}
      BY Zenon, <1>6, <2>6
    <3>3. ASSUME Led(toParser, {EndOf(t, r)}, Carriers(t, id)) PROVE FALSE
      <4>1. PICK j \in 1..i - 1 : toParser[j] \in Carriers(t, id)
        BY Zenon, <3>2, <3>3 DEF Led
      <4>2. toParser[j].sub = s
        BY Zenon, <2>6, <4>1 DEF Carriers
      <4> QED BY Zenon, <1>1, <4>2
    <3> QED BY Zenon, <2>4, <3>1, <3>3
  <2>7. t = s /\ r = r1 => Has(toParser, {EndOf(t, r)}) /\ HandleEose(s, r)
    BY Zenon, <1>6 DEF Has
  <2> QED BY Zenon, <2>1, <2>2, <2>4, <2>5, <2>6, <2>7
<1>7. ASSUME toParser[i] \in Batches, toParser' = Rest(toParser, i),
             IF sub[s].open THEN Process(s, Head(toParser[i].items).id) ELSE UNCHANGED <<sub, shown>>
      PROVE  /\ id \in Ids /\ Has(toParser, Carriers(t, id)) => Has(toParser', Carriers(t, id)) \/ Has(shown'[t], {Event(id)})
             /\ id \in Ids /\ Led(toParser, {EndOf(t, r)}, Carriers(t, id))
                  => Led(toParser', {EndOf(t, r)}, Carriers(t, id)) \/ Has(shown'[t], {Event(id)})
             /\ Has(shown'[t], {Eose(r)}) => Has(shown[t], {Eose(r)})
             /\ \A D : Has(shown[t], D) => Has(shown'[t], D)
             /\ \A y \in sub'[t].seen : y \in sub[t].seen \/ Has(shown'[t], {Event(y)})
             /\ Has(toParser', {EndOf(t, r)}) <=> Has(toParser, {EndOf(t, r)})
  <2> DEFINE y1 == Head(toParser[i].items).id
  <2>1. Head(toParser[i].items) \in Events
    BY Zenon, <1>2, <1>7, TakesEvent
  <2>2. y1 \in Ids \union {NoId} /\ Head(toParser[i].items) = Event(y1)
    BY Zenon, <2>1, Kinds
  <2>3. /\ ~(t = s /\ Event(id) = Head(toParser[i].items)) =>
             /\ Has(toParser, Carriers(t, id)) => Has(toParser', Carriers(t, id))
             /\ Led(toParser, {EndOf(t, r)}, Carriers(t, id)) => Led(toParser', {EndOf(t, r)}, Carriers(t, id))
        /\ Has(toParser', {EndOf(t, r)}) <=> Has(toParser, {EndOf(t, r)})
    BY Zenon, <1>1, <1>2, <1>7, TakesEvent
  <2> HIDE DEF y1
  <2>4. ASSUME t # s PROVE sub'[t] = sub[t] /\ shown'[t] = shown[t]
    <3>1. sub[s].open => Process(s, y1)
      BY Zenon, <1>7 DEF y1
    <3> QED BY Zenon, <1>7, <2>2, <2>4, <3>1, ProcessShows
  <2>5. ASSUME t = s
        PROVE  /\ \A D : Has(shown[t], D) => Has(shown'[t], D)
               /\ \A y \in sub'[t].seen : y \in sub[t].seen \/ Has(shown'[t], {Event(y)})
               /\ y1 \in Ids => Has(shown'[t], {Event(y1)})
               /\ Has(shown'[t], {Eose(r)}) => Has(shown[t], {Eose(r)})
    <3>1. Process(s, y1)
      BY Zenon, <1>7, <2>5 DEF y1
    <3>2. CASE UNCHANGED <<sub, shown>> /\ (y1 \in Ids => y1 \in sub[s].seen)
      BY Zenon, <2>5, <3>2 DEF Kept
    <3>3. CASE /\ y1 \in Ids /\ shown'[s] = Append(shown[s], Event(y1))
               /\ sub'[s].seen \subseteq sub[s].seen \union {y1}
      <4>a. Event(y1) \in Items \union {Eoce}
        BY Zenon, <1>4, <3>3
      <4>1. \A D : Has(shown'[s], D) <=> Has(shown[s], D) \/ Event(y1) \in D
        BY Zenon, <1>5, <3>3, <4>a
      <4> QED BY Zenon, <1>4, <2>5, <3>3, <4>1
    <3> QED BY Zenon, <2>2, <3>1, <3>2, <3>3, ProcessShows
  <2>6. Event(id) = Event(y1) => id = y1
    BY Zenon, Kinds
  <2> QED BY Zenon, <2>2, <2>3, <2>4, <2>5, <2>6
<1> QED BY Zenon, <1>1, <1>6, <1>7

LEMMA HandlerGrows ==
    ASSUME ChannelTypes, NEW s \in Subs, HandleNetwork(s) \/ HandleCache(s), NEW t \in Subs
    PROVE  /\ \A D : Has(shown[t], D) => Has(shown'[t], D)
           /\ \A y \in sub'[t].seen : y \in sub[t].seen \/ Has(shown'[t], {Event(y)})
<1>1. Shows(s) /\ shown[s] \in Seq(Items \union {Eoce})
  BY Zenon, HandlerShows DEF ChannelTypes
<1>2. \A x \in Items \union {Eoce} : \A D : Has(Append(shown[s], x), D) <=> Has(shown[s], D) \/ x \in D
  BY Zenon, <1>1, Appends
<1>3. \A y \in Ids : Event(y) \in Items \union {Eoce}
  BY Zenon, Kinds DEF Items
<1>4. \A x \in Controls \union {Eoce} : x \in Items \union {Eoce}
  BY Zenon DEF Items
<1>5. CASE t # s
  BY Zenon, <1>1, <1>5 DEF Shows
<1>6. ASSUME NEW id \in Ids, shown'[s] = Append(shown[s], Event(id)), sub'[s].seen \subseteq sub[s].seen \union {id}
      PROVE  /\ \A D : Has(shown[s], D) => Has(shown'[s], D)
             /\ \A y \in sub'[s].seen : y \in sub[s].seen \/ Has(shown'[s], {Event(y)})
  <2>1. \A D : Has(shown'[s], D) <=> Has(shown[s], D) \/ Event(id) \in D
    BY Zenon, <1>2, <1>3, <1>6
  <2> QED BY Zenon, <1>6, <2>1
<1>7. ASSUME NEW x \in Controls \union {Eoce}, shown'[s] = Append(shown[s], x), sub'[s].seen = sub[s].seen
      PROVE  /\ \A D : Has(shown[s], D) => Has(shown'[s], D)
             /\ \A y \in sub'[s].seen : y \in sub[s].seen \/ Has(shown'[s], {Event(y)})
  BY Zenon, <1>2, <1>4, <1>7
<1>8. CASE t = s
  BY Zenon, <1>1, <1>6, <1>7, <1>8 DEF Shows
<1> QED BY Zenon, <1>5, <1>8

LEMMA NetworkKeeps ==
    ASSUME ChannelTypes, ChannelTypes', NEW s \in Subs, HandleNetwork(s),
           NEW t \in Subs, sub[t].open, Kept(t), Ordered(t)
    PROVE  Kept(t)' /\ Ordered(t)'
<1>1. batch' = batch /\ dedup' = dedup /\ due' = due /\ eosed' = eosed /\ back' = back
  BY Zenon DEF HandleNetwork, rvars
<1>2. /\ \A D : Has(shown[t], D) => Has(shown'[t], D)
      /\ \A y \in sub'[t].seen : y \in sub[t].seen \/ Has(shown'[t], {Event(y)})
  BY Zenon, HandlerGrows
<1>3. ASSUME NEW id \in Ids, Held(t, id) PROVE Held(t, id)'
  <2>1. Has(toParser, Carriers(t, id)) => Has(toParser', Carriers(t, id)) \/ Has(shown'[t], {Event(id)})
    BY Zenon, NetworkTakes
  <2> QED BY Zenon, <1>1, <1>2, <1>3, <2>1 DEF Held
<1>4. Kept(t)'
  BY Zenon, <1>1, <1>2, <1>3, KeptStep
<1>5. ASSUME NEW r \in Relays, NEW id \in eosed[t][r]
      PROVE  /\ Led(toParser, {EndOf(t, r)}, Carriers(t, id))
                  => Has(shown'[t], {Event(id)}) \/ Led(toParser', {EndOf(t, r)}, Carriers(t, id))
             /\ Has(shown'[t], {Eose(r)}) => Has(shown[t], {Eose(r)}) \/ Has(shown'[t], {Event(id)})
  <2>1. id \in Ids
    BY Zenon, EosedIds
  <2> QED BY Zenon, <1>5, <2>1, NetworkTakes
<1>6. Ordered(t)'
  BY Zenon, <1>1, <1>2, <1>3, <1>5, OrderedStep
<1> QED BY Zenon, <1>4, <1>6

\* The cache has no EOSE.
LEMMA CacheSilent ==
    ASSUME ChannelTypes, NEW s \in Subs, HandleCache(s), NEW t \in Subs, NEW r
    PROVE  /\ Has(shown'[t], {Eose(r)}) => Has(shown[t], {Eose(r)})
           /\ sub'[t].open = sub[t].open /\ sub'[t].closeOnEose = sub[t].closeOnEose /\ sub'[t].closed = sub[t].closed
<1>1. shown \in [Subs -> Seq(Items \union {Eoce})] /\ shown[s] \in Seq(Items \union {Eoce})
  BY Zenon DEF ChannelTypes
<1>2. \A x \in Items \union {Eoce} : \A D : Has(Append(shown[s], x), D) <=> Has(shown[s], D) \/ x \in D
  BY Zenon, <1>1, Appends
<1>3. CASE UNCHANGED <<sub, shown>>
  BY Zenon, <1>3
<1>4. ASSUME NEW id \in Ids \union {NoId}, Process(s, id)
      PROVE  /\ Has(shown'[t], {Eose(r)}) => Has(shown[t], {Eose(r)})
             /\ sub'[t].open = sub[t].open /\ sub'[t].closeOnEose = sub[t].closeOnEose /\ sub'[t].closed = sub[t].closed
  <2>1. /\ t # s => sub'[t] = sub[t] /\ shown'[t] = shown[t]
        /\ sub'[s].open = sub[s].open /\ sub'[s].closeOnEose = sub[s].closeOnEose /\ sub'[s].closed = sub[s].closed
    BY Zenon, <1>4, ProcessShows
  <2>2. shown' = shown \/ (id \in Ids /\ shown'[s] = Append(shown[s], Event(id)))
    BY Zenon, <1>4, ProcessShows
  <2>3. Event(id) \in Items \union {Eoce} /\ Event(id) \notin {Eose(r)}
    BY Zenon, Kinds DEF Items
  <2>4. Has(Append(shown[s], Event(id)), {Eose(r)}) => Has(shown[s], {Eose(r)})
    BY Zenon, <1>2, <2>3
  <2> QED BY Zenon, <2>1, <2>2, <2>4
<1>5. CASE sub' = sub /\ shown' = [shown EXCEPT ![s] = Append(shown[s], Eoce)]
  <2>1. (t # s => shown'[t] = shown[t]) /\ shown'[s] = Append(shown[s], Eoce)
    BY Zenon, <1>1, <1>5
  <2>2. Eoce \in Items \union {Eoce} /\ Eoce \notin {Eose(r)}
    BY Zenon, Kinds
  <2>3. Has(Append(shown[s], Eoce), {Eose(r)}) => Has(shown[s], {Eose(r)})
    BY Zenon, <1>2, <2>2
  <2> QED BY Zenon, <1>5, <2>1, <2>3
<1> QED BY Zenon, <1>3, <1>4, <1>5, CacheCases

LEMMA CacheKeeps ==
    ASSUME ChannelTypes, ChannelTypes', NEW s \in Subs, HandleCache(s),
           NEW t \in Subs, Kept(t), Ordered(t)
    PROVE  Kept(t)' /\ Ordered(t)'
<1>1. batch' = batch /\ dedup' = dedup /\ due' = due /\ eosed' = eosed /\ back' = back /\ toParser' = toParser
  BY Zenon DEF HandleCache, rvars, vars
<1>2. /\ \A D : Has(shown[t], D) => Has(shown'[t], D)
      /\ \A y \in sub'[t].seen : y \in sub[t].seen \/ Has(shown'[t], {Event(y)})
  BY Zenon, HandlerGrows
<1>3. ASSUME NEW id \in Ids, Held(t, id) PROVE Held(t, id)'
  BY Zenon, <1>1, <1>2, <1>3 DEF Held
<1>4. Kept(t)'
  BY Zenon, <1>1, <1>2, <1>3, KeptStep
<1>5. \A r \in Relays : Has(shown'[t], {Eose(r)}) => Has(shown[t], {Eose(r)})
  BY Zenon, CacheSilent
<1>6. Ordered(t)'
  BY Zenon, <1>1, <1>2, <1>3, <1>5, OrderedStep
<1> QED BY Zenon, <1>4, <1>6

\* What the answer of a relay adds to its channel and to the records.
Answered(r, s, stored, fresh) ==
    /\ \A x \in Relays \ {r} : back'[x] = back[x] /\ relayOpen'[x] = relayOpen[x]
    /\ relayOpen'[r] = relayOpen[r] \union {s}
    /\ back'[r] = back[r] \o Reply(r, s, stored, fresh)
    /\ \A t \in Subs \ {s} : due'[t] = due[t] /\ eosed'[t] = eosed[t]
    /\ due'[s] = due[s] \union Range(stored \o fresh)
    /\ eosed'[s][r] = eosed[s][r] \union Range(stored)
    /\ \A x \in Relays \ {r} : eosed'[s][x] = eosed[s][x]

LEMMA AnswerFacts ==
    ASSUME ChannelTypes, NEW r \in Relays, NEW s \in Subs, NEW stored \in Seq(Ids), NEW fresh \in Seq(Ids),
           Answer(r, s, stored, fresh)
    PROVE  Answered(r, s, stored, fresh)
<1>1. /\ relayOpen \in [Relays -> SUBSET Subs]
      /\ due \in [Subs -> SUBSET Ids] /\ eosed \in [Subs -> [Relays -> SUBSET Ids]]
      /\ DOMAIN back = Relays /\ back = [x \in Relays |-> back[x]]
  BY Zenon DEF ChannelTypes
<1>2. /\ relayOpen' = [relayOpen EXCEPT ![r] = @ \union {s}]
      /\ back' = [back EXCEPT ![r] = @ \o Reply(r, s, stored, fresh)]
      /\ due' = [due EXCEPT ![s] = @ \union Range(stored \o fresh)]
      /\ eosed' = [eosed EXCEPT ![s][r] = @ \union Range(stored)]
  BY Zenon DEF Answer, Reply
<1>3. /\ back'[r] = back[r] \o Reply(r, s, stored, fresh) /\ \A x \in Relays \ {r} : back'[x] = back[x]
      /\ relayOpen'[r] = relayOpen[r] \union {s} /\ \A x \in Relays \ {r} : relayOpen'[x] = relayOpen[x]
  BY Zenon, <1>1, <1>2
<1>4. due'[s] = due[s] \union Range(stored \o fresh) /\ \A t \in Subs \ {s} : due'[t] = due[t]
  BY Zenon, <1>1, <1>2
<1>5. /\ \A t \in Subs \ {s} : eosed'[t] = eosed[t]
      /\ eosed'[s][r] = eosed[s][r] \union Range(stored)
      /\ \A x \in Relays \ {r} : eosed'[s][x] = eosed[s][x]
  <2>1. eosed' = [eosed EXCEPT ![s] = [eosed[s] EXCEPT ![r] = eosed[s][r] \union Range(stored)]]
    BY Zenon, <1>2
  <2>2. eosed[s] \in [Relays -> SUBSET Ids]
    BY Zenon, <1>1
  <2>3. \A t \in Subs \ {s} : eosed'[t] = eosed[t]
    BY Zenon, <1>1, <2>1
  <2>4. eosed'[s] = [eosed[s] EXCEPT ![r] = eosed[s][r] \union Range(stored)]
    BY Zenon, <1>1, <2>1
  <2> QED BY Zenon, <2>2, <2>3, <2>4
<1> QED BY Zenon, <1>3, <1>4, <1>5 DEF Answered

LEMMA RelayKeeps ==
    ASSUME ChannelTypes, ChannelTypes', NEW r \in Relays, Relay(r),
           NEW t \in Subs, Kept(t), Ordered(t), OneReq(t)
    PROVE  Kept(t)' /\ Ordered(t)'
<1>1. /\ wire[r] # <<>> /\ wire[r] \in Seq(Frames)
      /\ sub' = sub /\ shown' = shown /\ dedup' = dedup /\ batch' = batch /\ toParser' = toParser
  BY Zenon, RelayCases
<1>2. ASSUME NEW s \in Subs, Head(wire[r]) = Req(s),
             NEW stored \in Seq(Ids), NEW fresh \in Seq(Ids), Answer(r, s, stored, fresh)
      PROVE  Kept(t)' /\ Ordered(t)'
  <2> DEFINE u == Reply(r, s, stored, fresh)
  <2>1. /\ u \in Seq(SentBy(r)) /\ \A x : Has(u, {Sent(t, x)}) => t = s
        /\ \A id \in Range(stored \o fresh) : Has(u, {Sent(s, Event(id))})
        /\ \A id \in Range(stored) : Led(u, {Sent(s, Eose(r))}, {Sent(s, Event(id))})
    BY Zenon, ReplyFacts
  <2>2. /\ \A x \in Relays \ {r} : back'[x] = back[x]
        /\ back'[r] = back[r] \o u
        /\ t # s => due'[t] = due[t] /\ eosed'[t] = eosed[t]
        /\ due'[s] = due[s] \union Range(stored \o fresh)
        /\ eosed'[s][r] = eosed[s][r] \union Range(stored)
        /\ \A x \in Relays \ {r} : eosed'[s][x] = eosed[s][x]
    <3>1. Answered(r, s, stored, fresh)
      BY Zenon, <1>2, AnswerFacts
    <3> QED BY Zenon, <3>1 DEF Answered
  <2>3. back[r] \in Seq(SentBy(r))
    BY Zenon DEF ChannelTypes
  <2> HIDE DEF u
  <2>4. \A D : Has(back'[r], D) <=> Has(back[r], D) \/ Has(u, D)
    <3>1. \A D : Has(back[r] \o u, D) <=> Has(back[r], D) \/ Has(u, D)
      BY Zenon, <2>1, <2>3, Concats
    <3> QED BY Zenon, <2>2, <3>1
  <2>5. \A E, D : Led(back[r], E, D) /\ Led(u, E, D) => Led(back'[r], E, D)
    <3>1. \A E, D : Led(back[r], E, D) /\ Led(u, E, D) => Led(back[r] \o u, E, D)
      BY Zenon, <2>1, <2>3, Concats
    <3> QED BY Zenon, <2>2, <3>1
  <2>6. \A q, E, D : ~Has(q, E) => Led(q, E, D)
    BY Zenon DEF Has, Led
  <2>7. \A id \in Ids : Held(t, id) => Held(t, id)'
    BY Zenon, <1>1 DEF Held
  <2>8. \A id \in due'[t] : id \in due[t] \/ \E x \in Relays : Has(back'[x], {Sent(t, Event(id))})
    BY Zenon, <2>1, <2>2, <2>4
  <2>9. \A id : \A x \in Relays : Has(back[x], {Sent(t, Event(id))}) => Has(back'[x], {Sent(t, Event(id))})
    BY Zenon, <2>2, <2>4
  <2>10. Kept(t)'
    BY Zenon, <1>1, <2>7, <2>8, <2>9, KeptStep
  <2>11. CASE t # s
    <3>1. ~Has(u, {Sent(t, Eose(r))})
      BY Zenon, <2>1, <2>11
    <3>2. \A x \in Relays : \A id : Led(back[x], {Sent(t, Eose(x))}, {Sent(t, Event(id))})
             => Led(back'[x], {Sent(t, Eose(x))}, {Sent(t, Event(id))})
      BY Zenon, <2>2, <2>5, <2>6, <3>1
    <3>3. Ordered(t)'
      BY Zenon, <1>1, <2>2, <2>7, <2>11, <3>2, OrderedStep
    <3> QED BY Zenon, <2>10, <3>3
  <2>12. CASE t = s
    <3>1. Has(wire[r], {Req(t)})
      BY Zenon, <1>1, <1>2, <2>12, Tails
    <3>2. Silent(t, r)
      BY Zenon, <3>1 DEF OneReq, Pending
    <3>3. /\ ~Has(back[r], {Sent(t, Eose(r))}) /\ ~Has(toParser', {EndOf(t, r)}) /\ ~Has(shown'[t], {Eose(r)})
          /\ eosed'[t][r] = Range(stored)
      BY Zenon, <1>1, <2>2, <2>12, <3>2 DEF Silent
    <3>4. \A id \in eosed'[t][r] :
            /\ Led(back'[r], {Sent(t, Eose(r))}, {Sent(t, Event(id))})
            /\ Led(toParser', {EndOf(t, r)}, Carriers(t, id))
      BY Zenon, <2>1, <2>5, <2>6, <2>12, <3>3
    <3>5. \A x \in Relays \ {r} : back'[x] = back[x] /\ eosed'[t][x] = eosed[t][x]
      BY Zenon, <2>2, <2>12
    <3>6. ASSUME NEW x \in Relays, NEW id \in eosed'[t][x]
          PROVE  /\ Held(t, id)' \/ Led(back'[x], {Sent(t, Eose(x))}, {Sent(t, Event(id))})
                 /\ Has(shown'[t], {Event(id)}) \/ Led(toParser', {EndOf(t, x)}, Carriers(t, id))
                 /\ Has(shown'[t], {Eose(x)}) => Has(shown'[t], {Event(id)})
      <4>1. CASE x = r
        BY Zenon, <3>3, <3>4, <3>6, <4>1
      <4>2. CASE x # r
        <5>1. id \in eosed[t][x] /\ id \in Ids /\ back'[x] = back[x]
          BY Zenon, <3>5, <3>6, <4>2, EosedIds
        <5>2. /\ Held(t, id) \/ Led(back[x], {Sent(t, Eose(x))}, {Sent(t, Event(id))})
              /\ Has(shown[t], {Event(id)}) \/ Led(toParser, {EndOf(t, x)}, Carriers(t, id))
              /\ Has(shown[t], {Eose(x)}) => Has(shown[t], {Event(id)})
          BY Zenon, <5>1 DEF Ordered
        <5> QED BY Zenon, <1>1, <2>7, <5>1, <5>2
      <4> QED BY Zenon, <4>1, <4>2
    <3>7. Ordered(t)'
      BY Zenon, <3>6 DEF Ordered
    <3> QED BY Zenon, <2>10, <3>7
  <2> QED BY Zenon, <2>11, <2>12
<1>3. ASSUME UNCHANGED <<back, due, eosed>>
      PROVE  Kept(t)' /\ Ordered(t)'
  BY Zenon, <1>1, <1>3, KeptFrame
<1> QED BY Zenon, <1>2, <1>3, RelayCases

\* A session begins with nothing.
LEMMA OpenKeeps ==
    ASSUME ChannelTypes, ChannelTypes', NEW s \in Subs, OpenSubscription(s), FreshOpens
    PROVE  Kept(s)' /\ Ordered(s)' /\ Untraced(s) /\ sub'[s].open /\ sub'[s].closed = {}
<1>1. sub \in [Subs -> Sub] /\ due \in [Subs -> SUBSET Ids] /\ eosed \in [Subs -> [Relays -> SUBSET Ids]]
  BY Zenon DEF ChannelTypes
<1>2. sub'[s].open /\ sub'[s].closed = {} /\ sub'[s].seen = {}
  <2>1. PICK c \in BOOLEAN : sub' = [sub EXCEPT ![s] = [Absent EXCEPT !.open = TRUE, !.closeOnEose = c]]
    BY Zenon DEF OpenSubscription
  <2>2. sub'[s] = [Absent EXCEPT !.open = TRUE, !.closeOnEose = c]
    BY Zenon, <1>1, <2>1
  <2> QED BY <2>2 DEF Absent
<1>3. Untraced(s)
  BY Zenon, <1>2 DEF OpenSubscription, FreshOpens
<1>4. due'[s] = {} /\ dedup'[s] = <<>>
  BY Zenon, <1>1, <1>3 DEF OpenSubscription, vars, Untraced
<1>5. \A r \in Relays : eosed'[s][r] = {}
  BY Zenon, <1>1 DEF OpenSubscription
<1>6. Kept(s)'
  BY Zenon, <1>2, <1>4, Empties DEF Kept
<1>7. Ordered(s)'
  BY Zenon, <1>5 DEF Ordered
<1> QED BY Zenon, <1>2, <1>3, <1>6, <1>7

-----------------------------------------------------------------------------
\* What a step must respect to keep the REQ of a session, and its CLOSE.
LEMMA OneReqStep ==
    ASSUME NEW t \in Subs, OneReq(t),
           Has(toCache', {CacheRequest(t)}) => Has(toCache, {CacheRequest(t)}),
           Single(toCache, {CacheRequest(t)}) => Single(toCache', {CacheRequest(t)}),
           Has(envelopes', {t}) => Has(envelopes, {t}),
           Single(envelopes, {t}) => Single(envelopes', {t}),
           \A r \in Relays :
               /\ Has(wire'[r], {Req(t)}) => Has(wire[r], {Req(t)})
               /\ Single(wire[r], {Req(t)}) => Single(wire'[r], {Req(t)})
               /\ Pending(t, r)' /\ Silent(t, r) => Silent(t, r)'
    PROVE  OneReq(t)'
<1>1. ASSUME NEW r \in Relays
      PROVE  /\ Single(wire'[r], {Req(t)})
             /\ Has(toCache', {CacheRequest(t)}) \/ Has(envelopes', {t}) => ~Has(wire'[r], {Req(t)})
             /\ Pending(t, r)' => Silent(t, r)'
  <2>1. /\ Single(wire[r], {Req(t)})
        /\ Has(toCache, {CacheRequest(t)}) \/ Has(envelopes, {t}) => ~Has(wire[r], {Req(t)})
        /\ Pending(t, r) => Silent(t, r)
    BY Zenon DEF OneReq
  <2>2. Pending(t, r)' => Pending(t, r)
    BY Zenon DEF Pending
  <2> QED BY Zenon, <2>1, <2>2
<1>2. /\ Single(toCache', {CacheRequest(t)}) /\ Single(envelopes', {t})
      /\ Has(toCache', {CacheRequest(t)}) => ~Has(envelopes', {t})
  BY Zenon DEF OneReq
<1> QED BY Zenon, <1>1, <1>2 DEF OneReq

LEMMA SilentStep ==
    ASSUME NEW t \in Subs, NEW r \in Relays, Silent(t, r),
           eosed'[t][r] = eosed[t][r], t \in relayOpen'[r] => t \in relayOpen[r],
           r \in sub'[t].closed => r \in sub[t].closed \/ Has(toParser, {EndOf(t, r)}),
           Has(back'[r], {Sent(t, Eose(r))}) => Has(back[r], {Sent(t, Eose(r))}),
           Has(toParser', {EndOf(t, r)}) => Has(toParser, {EndOf(t, r)}) \/ Has(back[r], {Sent(t, Eose(r))}),
           Has(shown'[t], {Eose(r)}) => Has(shown[t], {Eose(r)}) \/ Has(toParser, {EndOf(t, r)})
    PROVE  Silent(t, r)'
  BY Zenon DEF Silent

\* WillClose for one relay.
Closing(t, r) ==
    \/ Has(closes, {[sub |-> t, url |-> r]}) \/ Has(wire[r], {Close(t)})
    \/ r \notin sub[t].closed /\ (Has(back[r], {Sent(t, Eose(r))}) \/ Has(toParser, {EndOf(t, r)}))

LEMMA WillCloseStep ==
    ASSUME NEW t \in Subs, WillClose(t), sub'[t].closeOnEose = sub[t].closeOnEose,
           \A r \in Relays : sub[t].closeOnEose /\ t \in relayOpen'[r] /\ (t \in relayOpen[r] => Closing(t, r))
                               => Closing(t, r)'
    PROVE  WillClose(t)'
<1> SUFFICES ASSUME sub[t].closeOnEose, NEW r \in Relays, t \in relayOpen'[r] PROVE Closing(t, r)'
  BY Zenon DEF WillClose, Closing
<1>1. t \in relayOpen[r] => Closing(t, r)
  BY Zenon DEF WillClose, Closing
<1> QED BY Zenon, <1>1

\* Steps that leave the REQ, its answer and the CLOSE alone.
LEMMA ReqFrame ==
    ASSUME NEW t \in Subs, OneReq(t), WillClose(t),
           toCache' = toCache, envelopes' = envelopes, closes' = closes, wire' = wire, relayOpen' = relayOpen,
           eosed'[t] = eosed[t], back' = back,
           sub'[t].closed = sub[t].closed, sub'[t].closeOnEose = sub[t].closeOnEose,
           \A r \in Relays : Has(toParser', {EndOf(t, r)}) <=> Has(toParser, {EndOf(t, r)}),
           \A r \in Relays : Has(shown'[t], {Eose(r)}) => Has(shown[t], {Eose(r)})
    PROVE  OneReq(t)' /\ WillClose(t)'
<1>1. \A r \in Relays : Silent(t, r) => Silent(t, r)'
  BY Zenon, SilentStep
<1>2. OneReq(t)'
  BY Zenon, <1>1, OneReqStep
<1>3. \A r \in Relays : Closing(t, r) => Closing(t, r)'
  BY Zenon DEF Closing
<1>4. WillClose(t)'
  BY Zenon, <1>3, WillCloseStep
<1> QED BY Zenon, <1>2, <1>4

LEMMA SweeperReq ==
    ASSUME ChannelTypes, Sweeper, NEW t \in Subs, OneReq(t), WillClose(t)
    PROVE  OneReq(t)' /\ WillClose(t)'
<1>1. PICK S \in SUBSET Subs : Sweep(S)
  BY Zenon DEF Sweeper
<1>2. UNCHANGED <<sub, cvars, rvars, shown>> /\ wire' = wire
  BY Zenon, <1>1 DEF Sweeper, Sweep
<1>3. /\ sub' = sub /\ shown' = shown /\ eosed' = eosed /\ back' = back /\ relayOpen' = relayOpen
      /\ toCache' = toCache /\ envelopes' = envelopes /\ closes' = closes
  BY Zenon, <1>2 DEF rvars, cvars
<1>4. \A r \in Relays : Has(toParser', {EndOf(t, r)}) <=> Has(toParser, {EndOf(t, r)})
  <2> TAKE r \in Relays
  <2>1. PICK id : Forwards(t, id, r)
    BY Zenon, <1>1, SweepFacts
  <2> QED BY Zenon, <2>1 DEF Forwards
<1> QED BY Zenon, <1>2, <1>3, <1>4, ReqFrame

LEMMA CacheReq ==
    ASSUME ChannelTypes, NEW s \in Subs, HandleCache(s), NEW t \in Subs, OneReq(t), WillClose(t)
    PROVE  OneReq(t)' /\ WillClose(t)'
<1>1. /\ eosed' = eosed /\ back' = back /\ relayOpen' = relayOpen /\ wire' = wire /\ toParser' = toParser
      /\ toCache' = toCache /\ envelopes' = envelopes /\ closes' = closes
  BY Zenon DEF HandleCache, rvars, vars
<1>2. sub'[t].closeOnEose = sub[t].closeOnEose /\ sub'[t].closed = sub[t].closed
      /\ \A r \in Relays : Has(shown'[t], {Eose(r)}) => Has(shown[t], {Eose(r)})
  BY Zenon, CacheSilent
<1> QED BY Zenon, <1>1, <1>2, ReqFrame

LEMMA FromRelayReq ==
    ASSUME ChannelTypes, NEW r \in Relays, ConnectionsFromRelay(r), NEW t \in Subs, OneReq(t), WillClose(t)
    PROVE  OneReq(t)' /\ WillClose(t)'
<1> DEFINE s == Head(back[r]).sub
           h == Head(back[r])
<1>1. back[r] # <<>> /\ back[r] \in Seq(SentBy(r)) /\ s \in Subs /\ back' = [back EXCEPT ![r] = Tail(back[r])]
  BY Zenon, RelayFrameCases
<1>2. \/ h = Sent(s, Eose(r)) /\ WriteControl(s, r)
      \/ \E id \in Ids \union {NoId} : h = Sent(s, Event(id)) /\ WriteEvent(s, id)
  BY Zenon, RelayFrameCases
<1>3. /\ sub' = sub /\ shown' = shown /\ eosed' = eosed /\ relayOpen' = relayOpen
      /\ toCache' = toCache /\ envelopes' = envelopes /\ closes' = closes
  BY Zenon DEF ConnectionsFromRelay, cvars
<1>4. wire' = wire
  BY Zenon, <1>2 DEF WriteControl, WriteEvent
<1>5. DOMAIN back = Relays /\ back = [x \in Relays |-> back[x]]
  BY Zenon DEF ChannelTypes
<1>6. back'[r] = Tail(back[r]) /\ \A x \in Relays \ {r} : back'[x] = back[x]
  BY Zenon, <1>1, <1>5
<1>7. \A D : Has(back[r], D) <=> h \in D \/ Has(back'[r], D)
  <2>1. \A D : Has(back[r], D) <=> h \in D \/ Has(Tail(back[r]), D)
    BY Zenon, <1>1, Tails
  <2> QED BY Zenon, <1>6, <2>1
<1> HIDE DEF s, h
<1>8. \A s1, x1, s2, x2 : Sent(s1, x1) = Sent(s2, x2) => s1 = s2 /\ x1 = x2
  BY DEF Sent
<1>9. ASSUME NEW x \in Relays
      PROVE  /\ Has(toParser, {EndOf(t, x)}) => Has(toParser', {EndOf(t, x)})
             /\ Has(toParser', {EndOf(t, x)}) => Has(toParser, {EndOf(t, x)}) \/ Has(back[x], {Sent(t, Eose(x))})
             /\ Has(back[x], {Sent(t, Eose(x))}) => Has(back'[x], {Sent(t, Eose(x))}) \/ Has(toParser', {EndOf(t, x)})
             /\ Has(back'[x], {Sent(t, Eose(x))}) => Has(back[x], {Sent(t, Eose(x))})
  <2>1. CASE h = Sent(s, Eose(r)) /\ WriteControl(s, r)
    <3>1. Has(toParser', {EndOf(t, x)}) <=> Has(toParser, {EndOf(t, x)}) \/ (t = s /\ x = r)
      BY Zenon, <1>1, <2>1, WriteControlFacts
    <3>2. h \in {Sent(t, Eose(x))} => t = s /\ x = r
      BY Zenon, <1>8, <2>1, Kinds
    <3>3. t = s /\ x = r => h \in {Sent(t, Eose(x))}
      BY Zenon, <2>1
    <3> QED BY Zenon, <1>6, <1>7, <3>1, <3>2, <3>3
  <2>2. ASSUME NEW id \in Ids \union {NoId}, h = Sent(s, Event(id)), WriteEvent(s, id)
        PROVE  (Has(toParser', {EndOf(t, x)}) <=> Has(toParser, {EndOf(t, x)})) /\ h \notin {Sent(t, Eose(x))}
    <3>1. Forwards(t, id, x)
      BY Zenon, <1>1, <2>2, WriteEventFacts
    <3>2. h \notin {Sent(t, Eose(x))}
      BY Zenon, <1>8, <2>2, Kinds
    <3> QED BY Zenon, <3>1, <3>2 DEF Forwards
  <2> QED BY Zenon, <1>2, <1>6, <1>7, <2>1, <2>2
<1>10. \A x \in Relays : Silent(t, x) => Silent(t, x)'
  BY Zenon, <1>3, <1>9, SilentStep
<1>11. OneReq(t)'
  BY Zenon, <1>3, <1>4, <1>10, OneReqStep
<1>12. \A x \in Relays : Closing(t, x) => Closing(t, x)'
  BY Zenon, <1>3, <1>4, <1>9 DEF Closing
<1>13. WillClose(t)'
  BY Zenon, <1>3, <1>12, WillCloseStep
<1> QED BY Zenon, <1>11, <1>13

\* An EOSE that the parser takes leaves a CLOSE behind, now or before.
LEMMA NetworkCloses ==
    ASSUME ChannelTypes, NEW s \in Subs, HandleNetwork(s), NEW t \in Subs, sub[t].open, Kept(t), Ordered(t),
           NEW r \in Relays
    PROVE  /\ \A D : Has(closes, D) => Has(closes', D)
           /\ sub'[t].closeOnEose = sub[t].closeOnEose
           /\ r \in sub'[t].closed => \/ r \in sub[t].closed
                                      \/ Has(toParser, {EndOf(t, r)}) /\ Has(closes', {[sub |-> t, url |-> r]})
           /\ Has(toParser, {EndOf(t, r)}) /\ ~Has(toParser', {EndOf(t, r)}) /\ sub[t].closeOnEose
                => r \in sub[t].closed \/ Has(closes', {[sub |-> t, url |-> r]})
<1> DEFINE c(x) == [sub |-> s, url |-> x]
<1>1. PICK i \in 1..Len(toParser) :
             \/ \E r1 \in Relays : toParser[i] = EndOf(s, r1) /\ toParser' = Without(toParser, i) /\ HandleEose(s, r1)
             \/ /\ toParser[i] \in Batches /\ toParser' = Rest(toParser, i) /\ closes' = closes
                /\ IF sub[s].open THEN Process(s, Head(toParser[i].items).id) ELSE UNCHANGED <<sub, shown>>
  BY Zenon, NetworkCases
<1>2. toParser \in Seq(Messages) /\ closes \in Seq(Closes)
  BY Zenon DEF ChannelTypes
<1>3. ASSUME NEW r1 \in Relays
      PROVE  c(r1) \in Closes /\ \A D : Has(Append(closes, c(r1)), D) <=> Has(closes, D) \/ c(r1) \in D
  <2>1. c(r1) \in Closes
    BY Zenon DEF Closes
  <2> HIDE DEF c
  <2>2. \A D : Has(Append(closes, c(r1)), D) <=> Has(closes, D) \/ c(r1) \in D
    BY Zenon, <1>2, <2>1, Appends
  <2> QED BY Zenon, <2>1, <2>2
<1> HIDE DEF c
<1>4. ASSUME NEW r1 \in Relays, toParser[i] = EndOf(s, r1), toParser' = Without(toParser, i), HandleEose(s, r1)
      PROVE  /\ \A D : Has(closes, D) => Has(closes', D)
             /\ sub'[t].closeOnEose = sub[t].closeOnEose
             /\ r \in sub'[t].closed => r \in sub[t].closed \/ (Has(toParser, {EndOf(t, r)}) /\ t = s /\ Has(closes', {c(r)}))
             /\ Has(toParser, {EndOf(t, r)}) /\ ~Has(toParser', {EndOf(t, r)}) /\ sub[t].closeOnEose
                  => r \in sub[t].closed \/ (t = s /\ Has(closes', {c(r)}))
  <2>1. Has(toParser, {EndOf(t, r)}) /\ ~(t = s /\ r = r1) => Has(toParser', {EndOf(t, r)})
    BY Zenon, <1>2, <1>4, TakesEnd
  <2>2. /\ t # s => sub'[t] = sub[t]
        /\ sub'[s].closeOnEose = sub[s].closeOnEose
        /\ \/ sub'[s].closed = sub[s].closed \union {r1} /\ closes' = Append(closes, c(r1))
           \/ /\ sub[s].open /\ sub[s].closeOnEose => r1 \in sub[s].closed
              /\ sub'[s].closed = sub[s].closed /\ closes' = closes
    BY Zenon, <1>4, EoseShows DEF c
  <2>3. Has(toParser, {EndOf(s, r1)})
    BY Zenon, <1>4 DEF Has
  <2>4. CASE sub'[s].closed = sub[s].closed \union {r1} /\ closes' = Append(closes, c(r1))
    <3>1. \A D : Has(closes', D) <=> Has(closes, D) \/ c(r1) \in D
      BY Zenon, <1>3, <2>4
    <3> QED BY Zenon, <2>1, <2>2, <2>3, <2>4, <3>1
  <2>5. CASE /\ sub[s].open /\ sub[s].closeOnEose => r1 \in sub[s].closed
             /\ sub'[s].closed = sub[s].closed /\ closes' = closes
    BY Zenon, <2>1, <2>2, <2>5
  <2> QED BY Zenon, <2>2, <2>4, <2>5
<1>5. ASSUME toParser[i] \in Batches, toParser' = Rest(toParser, i), closes' = closes,
             IF sub[s].open THEN Process(s, Head(toParser[i].items).id) ELSE UNCHANGED <<sub, shown>>
      PROVE  /\ closes' = closes /\ sub'[t].closeOnEose = sub[t].closeOnEose /\ sub'[t].closed = sub[t].closed
             /\ Has(toParser', {EndOf(t, r)}) <=> Has(toParser, {EndOf(t, r)})
  <2> DEFINE y1 == Head(toParser[i].items).id
  <2>1. Head(toParser[i].items) \in Events /\ (Has(toParser', {EndOf(t, r)}) <=> Has(toParser, {EndOf(t, r)}))
    BY Zenon, <1>2, <1>5, TakesEvent
  <2>2. y1 \in Ids \union {NoId}
    BY Zenon, <2>1, Kinds
  <2>3. sub[s].open => Process(s, y1)
    BY Zenon, <1>5
  <2> HIDE DEF y1
  <2>4. ASSUME Process(s, y1) PROVE sub'[t].closeOnEose = sub[t].closeOnEose /\ sub'[t].closed = sub[t].closed
    BY Zenon, <2>2, <2>4, ProcessShows
  <2> QED BY Zenon, <1>5, <2>1, <2>3, <2>4
<1> QED BY Zenon, <1>1, <1>4, <1>5 DEF c

LEMMA NetworkReq ==
    ASSUME ChannelTypes, NEW s \in Subs, HandleNetwork(s), NEW t \in Subs, sub[t].open, Kept(t), Ordered(t),
           OneReq(t), WillClose(t)
    PROVE  OneReq(t)' /\ WillClose(t)'
<1>1. /\ eosed' = eosed /\ back' = back /\ relayOpen' = relayOpen /\ wire' = wire
      /\ toCache' = toCache /\ envelopes' = envelopes
  BY Zenon DEF HandleNetwork, rvars
<1>2. ASSUME NEW r \in Relays
      PROVE  /\ Has(toParser', {EndOf(t, r)}) => Has(toParser, {EndOf(t, r)})
             /\ Has(shown'[t], {Eose(r)}) => Has(shown[t], {Eose(r)}) \/ Has(toParser, {EndOf(t, r)})
  BY Zenon, NetworkTakes
<1>3. ASSUME NEW r \in Relays, Silent(t, r) PROVE Silent(t, r)'
  <2>1. r \in sub'[t].closed => r \in sub[t].closed \/ Has(toParser, {EndOf(t, r)})
    BY Zenon, NetworkCloses
  <2> QED BY Zenon, <1>1, <1>2, <1>3, <2>1, SilentStep
<1>4. OneReq(t)'
  BY Zenon, <1>1, <1>3, OneReqStep
<1>5. ASSUME NEW r \in Relays, sub[t].closeOnEose, Closing(t, r) PROVE Closing(t, r)'
  <2>1. /\ \A D : Has(closes, D) => Has(closes', D)
        /\ r \in sub'[t].closed => r \in sub[t].closed \/ Has(closes', {[sub |-> t, url |-> r]})
        /\ Has(toParser, {EndOf(t, r)}) /\ ~Has(toParser', {EndOf(t, r)})
             => r \in sub[t].closed \/ Has(closes', {[sub |-> t, url |-> r]})
    BY Zenon, <1>5, NetworkCloses
  <2> QED BY Zenon, <1>1, <1>5, <2>1 DEF Closing
<1>6. \/ ~\E r \in Relays : TRUE
      \/ sub'[t].closeOnEose = sub[t].closeOnEose
  BY Zenon, NetworkCloses
<1>7. WillClose(t)'
  <2>1. CASE ~\E r \in Relays : TRUE
    BY Zenon, <2>1 DEF WillClose
  <2>2. CASE sub'[t].closeOnEose = sub[t].closeOnEose
    BY Zenon, <1>1, <1>5, <2>2, WillCloseStep
  <2> QED BY Zenon, <1>6, <2>1, <2>2
<1> QED BY Zenon, <1>4, <1>7

LEMMA FromParserReq ==
    ASSUME ChannelTypes, ConnectionsFromParser, NEW t \in Subs, OneReq(t), WillClose(t)
    PROVE  OneReq(t)' /\ WillClose(t)'
<1> DEFINE m == Head(closes)
<1>1. /\ UNCHANGED <<sub, toCache, envelopes, cached, rvars, shown>>
      /\ closes # <<>> /\ closes' = Tail(closes)
      /\ IF m.url = NoUrl THEN ParserClose(m.sub) ELSE ParserCloseAt(m.sub, m.url)
  BY Zenon DEF ConnectionsFromParser
<1>2. closes \in Seq(Closes)
  BY Zenon DEF ChannelTypes
<1>3. m \in Closes /\ \A D : Has(closes, D) <=> m \in D \/ Has(closes', D)
  <2>1. m \in Closes
    BY Zenon, <1>1, <1>2, Tails
  <2>2. \A D : Has(closes, D) <=> m \in D \/ Has(Tail(closes), D)
    BY Zenon, <1>1, <1>2, Tails
  <2> QED BY Zenon, <1>1, <2>1, <2>2
<1>4. m.sub \in Subs /\ \A r : m = [sub |-> t, url |-> r] => m.sub = t /\ m.url = r
  BY <1>3 DEF Closes
<1> HIDE DEF m
<1>5. /\ sub' = sub /\ shown' = shown /\ eosed' = eosed /\ back' = back /\ relayOpen' = relayOpen
      /\ toCache' = toCache /\ envelopes' = envelopes
  BY Zenon, <1>1 DEF rvars
<1>6. toParser' = toParser /\ \E R : SendRaw(R, Close(m.sub)) /\ (m.url # NoUrl => R = {m.url})
  BY Zenon, <1>1 DEF ParserClose, ParserCloseAt
<1>7. PICK R : SendRaw(R, Close(m.sub)) /\ (m.url # NoUrl => R = {m.url})
  BY Zenon, <1>6
<1>8. Close(m.sub) \in Frames /\ Close(m.sub) \notin {Req(t)} /\ (m.sub = t => Close(m.sub) \in {Close(t)})
  <2>1. \A x : Req(t) # Close(x)
    BY Zenon, ReqFacts
  <2>2. Close(m.sub) \in Frames
    BY Zenon, <1>4, ReqFacts
  <2> QED BY Zenon, <2>1, <2>2
<1>9. ASSUME NEW r \in Relays, NEW D
      PROVE  /\ Has(wire'[r], D) <=> Has(wire[r], D) \/ (r \in R /\ Close(m.sub) \in D)
             /\ Single(wire[r], D) /\ (Has(wire[r], D) => Close(m.sub) \notin D) => Single(wire'[r], D)
  BY Zenon, <1>7, <1>8, SendRawFacts
<1>10. \A r \in Relays : Silent(t, r) => Silent(t, r)'
  BY Zenon, <1>5, <1>6, SilentStep
<1>11. OneReq(t)'
  BY Zenon, <1>5, <1>8, <1>9, <1>10, OneReqStep
<1>12. ASSUME NEW r \in Relays, Closing(t, r) PROVE Closing(t, r)'
  <2>1. CASE m = [sub |-> t, url |-> r]
    <3>1. m.sub = t /\ r \in R
      BY Zenon, <1>4, <1>7, <2>1, WorkerAssumption
    <3>2. Has(wire'[r], {Close(t)})
      BY Zenon, <1>8, <1>9, <3>1
    <3> QED BY Zenon, <3>2 DEF Closing
  <2>2. CASE m # [sub |-> t, url |-> r]
    <3>1. Has(closes, {[sub |-> t, url |-> r]}) => Has(closes', {[sub |-> t, url |-> r]})
      BY Zenon, <1>3, <2>2
    <3>2. Has(wire[r], {Close(t)}) => Has(wire'[r], {Close(t)})
      BY Zenon, <1>9
    <3> QED BY Zenon, <1>5, <1>6, <1>12, <3>1, <3>2 DEF Closing
  <2> QED BY Zenon, <2>1, <2>2
<1>13. WillClose(t)'
  BY Zenon, <1>5, <1>12, WillCloseStep
<1> QED BY Zenon, <1>11, <1>13

LEMMA FromCacheReq ==
    ASSUME ChannelTypes, ConnectionsFromCache, NEW t \in Subs, OneReq(t), WillClose(t)
    PROVE  OneReq(t)' /\ WillClose(t)'
<1> DEFINE s == Head(envelopes)
<1>1. /\ UNCHANGED <<sub, toCache, closes, cached, rvars, shown>>
      /\ envelopes # <<>> /\ envelopes' = Tail(envelopes) /\ SendEnvelope(s, Relays)
  BY Zenon DEF ConnectionsFromCache
<1>2. envelopes \in Seq(Subs)
  BY Zenon DEF ChannelTypes
<1>3. s \in Subs /\ \A D : Has(envelopes, D) <=> s \in D \/ Has(envelopes', D)
  <2>1. s \in Subs
    BY Zenon, <1>1, <1>2, Tails
  <2>2. \A D : Has(envelopes, D) <=> s \in D \/ Has(Tail(envelopes), D)
    BY Zenon, <1>1, <1>2, Tails
  <2> QED BY Zenon, <1>1, <2>1, <2>2
<1>4. \A D : Single(envelopes, D) => Single(envelopes', D) /\ (s \in D => ~Has(envelopes', D))
  <2>1. \A D : Single(envelopes, D) => Single(Tail(envelopes), D) /\ (s \in D => ~Has(Tail(envelopes), D))
    BY Zenon, <1>1, <1>2, Tails
  <2> QED BY Zenon, <1>1, <2>1
<1> HIDE DEF s
<1>5. /\ sub' = sub /\ shown' = shown /\ eosed' = eosed /\ back' = back /\ relayOpen' = relayOpen
      /\ toCache' = toCache /\ closes' = closes
  BY Zenon, <1>1 DEF rvars
<1>6. toParser' = toParser /\ SendRaw(Relays, Req(s))
  BY Zenon, <1>1 DEF SendEnvelope
<1>7. Req(s) \in Frames /\ (Req(s) \in {Req(t)} <=> s = t) /\ Req(s) \notin {Close(t)}
  <2>1. Req(s) = Req(t) <=> s = t
    BY Zenon, <1>3, ReqFacts
  <2>2. Req(s) \in Frames /\ Req(s) # Close(t)
    BY Zenon, <1>3, ReqFacts
  <2> QED BY Zenon, <2>1, <2>2
<1>8. ASSUME NEW r \in Relays, NEW D
      PROVE  /\ Has(wire'[r], D) <=> Has(wire[r], D) \/ Req(s) \in D
             /\ Single(wire[r], D) /\ (Has(wire[r], D) => Req(s) \notin D) => Single(wire'[r], D)
  BY Zenon, <1>6, <1>7, SendRawFacts
<1>9. \A r \in Relays : Silent(t, r) => Silent(t, r)'
  BY Zenon, <1>5, <1>6, SilentStep
<1>10. OneReq(t)'
  <2>1. CASE s # t
    BY Zenon, <1>3, <1>4, <1>5, <1>7, <1>8, <1>9, <2>1, OneReqStep
  <2>2. CASE s = t
    <3>1. Has(envelopes, {t}) /\ Single(envelopes', {t}) /\ ~Has(envelopes', {t})
      BY Zenon, <1>3, <1>4, <2>2 DEF OneReq
    <3>2. ~Has(toCache', {CacheRequest(t)}) /\ Single(toCache', {CacheRequest(t)})
      BY Zenon, <1>5, <3>1 DEF OneReq
    <3>3. \A r \in Relays : Single(wire'[r], {Req(t)}) /\ Silent(t, r)'
      <4> TAKE r \in Relays
      <4>1. Single(wire[r], {Req(t)}) /\ ~Has(wire[r], {Req(t)}) /\ Silent(t, r)
        BY Zenon, <3>1 DEF OneReq, Pending
      <4> QED BY Zenon, <1>8, <1>9, <4>1
    <3> QED BY Zenon, <3>1, <3>2, <3>3 DEF OneReq
  <2> QED BY Zenon, <2>1, <2>2
<1>11. \A r \in Relays : Closing(t, r) => Closing(t, r)'
  BY Zenon, <1>5, <1>6, <1>8 DEF Closing
<1>12. WillClose(t)'
  BY Zenon, <1>5, <1>11, WillCloseStep
<1> QED BY Zenon, <1>10, <1>12

LEMMA CacheWorkerReq ==
    ASSUME ChannelTypes, CacheWorker, NEW t \in Subs, OneReq(t), WillClose(t)
    PROVE  OneReq(t)' /\ WillClose(t)'
<1> DEFINE req == Head(toCache)
<1>1. /\ UNCHANGED <<vars, sub, closes, relayOpen, back, due, eosed, shown>>
      /\ toCache # <<>> /\ toCache' = Tail(toCache)
      /\ envelopes' = envelopes \/ (~req.close /\ envelopes' = Append(envelopes, req.sub))
  BY Zenon DEF CacheWorker
<1>2. toCache \in Seq(CacheRequests) /\ envelopes \in Seq(Subs)
  BY Zenon DEF ChannelTypes
<1>3. req \in CacheRequests /\ \A D : Has(toCache, D) <=> req \in D \/ Has(toCache', D)
  <2>1. req \in CacheRequests
    BY Zenon, <1>1, <1>2, Tails
  <2>2. \A D : Has(toCache, D) <=> req \in D \/ Has(Tail(toCache), D)
    BY Zenon, <1>1, <1>2, Tails
  <2> QED BY Zenon, <1>1, <2>1, <2>2
<1>4. \A D : Single(toCache, D) => Single(toCache', D) /\ (req \in D => ~Has(toCache', D))
  <2>1. \A D : Single(toCache, D) => Single(Tail(toCache), D) /\ (req \in D => ~Has(Tail(toCache), D))
    BY Zenon, <1>1, <1>2, Tails
  <2> QED BY Zenon, <1>1, <2>1
<1>5. req.sub \in Subs /\ (~req.close => req = CacheRequest(req.sub))
  BY <1>3 DEF CacheRequests, CacheRequest
<1> HIDE DEF req
<1>6. /\ sub' = sub /\ shown' = shown /\ eosed' = eosed /\ back' = back /\ relayOpen' = relayOpen
      /\ closes' = closes /\ toParser' = toParser /\ wire' = wire
  BY Zenon, <1>1 DEF vars
<1>7. \A r \in Relays : Silent(t, r) => Silent(t, r)'
  BY Zenon, <1>6, SilentStep
<1>8. OneReq(t)'
  <2>1. CASE envelopes' = envelopes
    BY Zenon, <1>3, <1>4, <1>6, <1>7, <2>1, OneReqStep
  <2>2. CASE ~req.close /\ envelopes' = Append(envelopes, req.sub)
    <3>1. \A D : Has(envelopes', D) <=> Has(envelopes, D) \/ req.sub \in D
      <4>1. \A D : Has(Append(envelopes, req.sub), D) <=> Has(envelopes, D) \/ req.sub \in D
        BY Zenon, <1>2, <1>5, Appends
      <4> QED BY Zenon, <2>2, <4>1
    <3>2. \A D : Single(envelopes, D) /\ ~(Has(envelopes, D) /\ req.sub \in D) => Single(envelopes', D)
      <4>1. \A D : Single(envelopes, D) /\ ~(Has(envelopes, D) /\ req.sub \in D) => Single(Append(envelopes, req.sub), D)
        BY Zenon, <1>2, <1>5, Appends
      <4> QED BY Zenon, <2>2, <4>1
    <3>3. CASE req.sub # t
      <4>1. Has(envelopes', {t}) => Has(envelopes, {t})
        BY Zenon, <3>1, <3>3
      <4>2. Single(envelopes, {t}) => Single(envelopes', {t})
        BY Zenon, <3>2, <3>3
      <4> QED BY Zenon, <1>3, <1>4, <1>6, <1>7, <4>1, <4>2, OneReqStep
    <3>4. CASE req.sub = t
      <4>1. req \in {CacheRequest(t)}
        BY Zenon, <1>5, <2>2, <3>4
      <4>2. Has(toCache, {CacheRequest(t)}) /\ Single(toCache', {CacheRequest(t)}) /\ ~Has(toCache', {CacheRequest(t)})
        BY Zenon, <1>3, <1>4, <4>1 DEF OneReq
      <4>3. Single(envelopes', {t})
        BY Zenon, <3>2, <4>2 DEF OneReq
      <4>4. \A r \in Relays : Single(wire'[r], {Req(t)}) /\ ~Has(wire'[r], {Req(t)}) /\ Silent(t, r)'
        BY Zenon, <1>6, <1>7, <4>2 DEF OneReq, Pending
      <4> QED BY Zenon, <4>2, <4>3, <4>4 DEF OneReq
    <3> QED BY Zenon, <3>3, <3>4
  <2> QED BY Zenon, <1>1, <2>1, <2>2
<1>9. \A r \in Relays : Closing(t, r) => Closing(t, r)'
  BY Zenon, <1>6 DEF Closing
<1>10. WillClose(t)'
  BY Zenon, <1>6, <1>9, WillCloseStep
<1> QED BY Zenon, <1>8, <1>10

LEMMA RelayReq ==
    ASSUME ChannelTypes, NEW r \in Relays, Relay(r), NEW t \in Subs, OneReq(t), WillClose(t)
    PROVE  OneReq(t)' /\ WillClose(t)'
<1> DEFINE f == Head(wire[r])
<1>1. /\ wire[r] # <<>> /\ wire[r] \in Seq(Frames) /\ wire' = [wire EXCEPT ![r] = Tail(wire[r])]
      /\ UNCHANGED <<subRelays, dedup, batch, toParser>> /\ UNCHANGED <<sub, cvars, shown>>
  BY Zenon, RelayCases
<1>2. /\ sub' = sub /\ shown' = shown /\ toParser' = toParser
      /\ toCache' = toCache /\ envelopes' = envelopes /\ closes' = closes
  BY Zenon, <1>1 DEF cvars
<1>3. wire \in [Relays -> Seq(Frames)]
  BY Zenon DEF ChannelTypes
<1>4. wire'[r] = Tail(wire[r]) /\ \A x \in Relays \ {r} : wire'[x] = wire[x]
  BY Zenon, <1>1, <1>3
<1>5. \A D : Has(wire[r], D) <=> f \in D \/ Has(wire'[r], D)
  <2>1. \A D : Has(wire[r], D) <=> f \in D \/ Has(Tail(wire[r]), D)
    BY Zenon, <1>1, Tails
  <2> QED BY Zenon, <1>4, <2>1
<1>6. \A D : Single(wire[r], D) => Single(wire'[r], D) /\ (f \in D => ~Has(wire'[r], D))
  <2>1. \A D : Single(wire[r], D) => Single(Tail(wire[r]), D) /\ (f \in D => ~Has(Tail(wire[r]), D))
    BY Zenon, <1>1, Tails
  <2> QED BY Zenon, <1>4, <2>1
<1>7. \A x \in Relays : /\ Has(wire'[x], {Req(t)}) => Has(wire[x], {Req(t)})
                        /\ Single(wire[x], {Req(t)}) => Single(wire'[x], {Req(t)})
  BY Zenon, <1>4, <1>5, <1>6
<1>8. PICK s \in Subs :
        \/ f = Req(s) /\ \E stored, fresh \in Seq(Ids) : Answer(r, s, stored, fresh)
        \/ f = Close(s) /\ relayOpen' = [relayOpen EXCEPT ![r] = @ \ {s}] /\ UNCHANGED <<back, due, eosed>>
  BY Zenon, RelayCases
<1> HIDE DEF f
<1>9. ASSUME f = Req(s), NEW stored \in Seq(Ids), NEW fresh \in Seq(Ids), Answer(r, s, stored, fresh)
      PROVE  OneReq(t)' /\ WillClose(t)'
  <2> DEFINE u == Reply(r, s, stored, fresh)
  <2>1. Answered(r, s, stored, fresh)
    BY Zenon, <1>9, AnswerFacts
  <2>2. u \in Seq(SentBy(r)) /\ (\A x : Has(u, {Sent(t, x)}) => t = s) /\ Has(u, {Sent(s, Eose(r))})
    BY Zenon, ReplyFacts
  <2>3. back[r] \in Seq(SentBy(r))
    BY Zenon DEF ChannelTypes
  <2> HIDE DEF u
  <2>4. \A D : Has(back'[r], D) <=> Has(back[r], D) \/ Has(u, D)
    <3>1. \A D : Has(back[r] \o u, D) <=> Has(back[r], D) \/ Has(u, D)
      BY Zenon, <2>2, <2>3, Concats
    <3> QED BY Zenon, <2>1, <3>1 DEF Answered, u
  <2>5. \A x \in Relays \ {r} : back'[x] = back[x] /\ relayOpen'[x] = relayOpen[x] /\ eosed'[t][x] = eosed[t][x]
    BY Zenon, <2>1 DEF Answered
  <2>6. f \notin {Close(t)}
    BY Zenon, <1>9, ReqFacts
  <2>7. \A x \in Relays : t \in relayOpen[x] /\ Closing(t, x) => Closing(t, x)'
    BY Zenon, <1>2, <1>4, <1>5, <2>4, <2>5, <2>6 DEF Closing
  <2>8. \A x \in Relays \ {r} : Silent(t, x) => Silent(t, x)'
    BY Zenon, <1>2, <2>5, SilentStep
  <2>9. CASE t # s
    <3>1. relayOpen'[r] = relayOpen[r] \union {s} /\ eosed'[t] = eosed[t] /\ ~Has(u, {Sent(t, Eose(r))})
      BY Zenon, <2>1, <2>2, <2>9 DEF Answered
    <3>2. t \in relayOpen'[r] => t \in relayOpen[r]
      BY Zenon, <2>9, <3>1
    <3>3. Silent(t, r) => Silent(t, r)'
      BY Zenon, <1>2, <2>4, <3>1, <3>2, SilentStep
    <3>4. OneReq(t)'
      BY Zenon, <1>2, <1>7, <2>8, <3>3, OneReqStep
    <3>5. \A x \in Relays : t \in relayOpen'[x] => t \in relayOpen[x]
      BY Zenon, <2>5, <3>2
    <3>6. WillClose(t)'
      BY Zenon, <1>2, <2>7, <3>5, WillCloseStep
    <3> QED BY Zenon, <3>4, <3>6
  <2>10. CASE t = s
    <3>1. f \in {Req(t)}
      BY Zenon, <1>9, <2>10
    <3>2. Has(wire[r], {Req(t)}) /\ ~Has(wire'[r], {Req(t)})
      BY Zenon, <1>5, <1>6, <3>1 DEF OneReq
    <3>3. ~Pending(t, r)' /\ Silent(t, r)
      BY Zenon, <1>2, <3>2 DEF OneReq, Pending
    <3>4. OneReq(t)'
      BY Zenon, <1>2, <1>7, <2>8, <3>3, OneReqStep
    <3>5. Closing(t, r)'
      BY Zenon, <1>2, <2>2, <2>4, <2>10, <3>3 DEF Silent, Closing
    <3>6. \A x \in Relays \ {r} : t \in relayOpen'[x] => t \in relayOpen[x]
      BY Zenon, <2>5
    <3>7. WillClose(t)'
      BY Zenon, <1>2, <2>7, <3>5, <3>6, WillCloseStep
    <3> QED BY Zenon, <3>4, <3>7
  <2> QED BY Zenon, <2>9, <2>10
<1>10. ASSUME f = Close(s), relayOpen' = [relayOpen EXCEPT ![r] = @ \ {s}], UNCHANGED <<back, due, eosed>>
      PROVE  OneReq(t)' /\ WillClose(t)'
  <2>1. back' = back /\ eosed' = eosed
    BY Zenon, <1>10
  <2>2. relayOpen \in [Relays -> SUBSET Subs]
    BY Zenon DEF ChannelTypes
  <2>3. relayOpen'[r] = relayOpen[r] \ {s} /\ \A x \in Relays \ {r} : relayOpen'[x] = relayOpen[x]
    BY Zenon, <1>10, <2>2
  <2>4. \A x \in Relays : t \in relayOpen'[x] => t \in relayOpen[x]
    BY Zenon, <2>3
  <2>5. \A x \in Relays : Silent(t, x) => Silent(t, x)'
    BY Zenon, <1>2, <2>1, <2>4, SilentStep
  <2>6. OneReq(t)'
    BY Zenon, <1>2, <1>7, <2>5, OneReqStep
  <2>7. t # s => f \notin {Close(t)}
    BY Zenon, <1>10, ReqFacts
  <2>8. \A x \in Relays : t \in relayOpen'[x] /\ Closing(t, x) => Closing(t, x)'
    BY Zenon, <1>2, <1>4, <1>5, <2>1, <2>3, <2>7 DEF Closing
  <2>9. WillClose(t)'
    BY Zenon, <1>2, <2>4, <2>8, WillCloseStep
  <2> QED BY Zenon, <2>6, <2>9
<1> QED BY Zenon, <1>8, <1>9, <1>10

LEMMA OpenReq ==
    ASSUME ChannelTypes, NEW s \in Subs, OpenSubscription(s), Untraced(s), sub'[s].closed = {}
    PROVE  OneReq(s)' /\ WillClose(s)'
<1>1. /\ toCache' = Append(toCache, CacheRequest(s)) /\ envelopes' = envelopes
      /\ wire' = wire /\ relayOpen' = relayOpen /\ back' = back /\ toParser' = toParser
  BY Zenon DEF OpenSubscription, CacheRequest, vars
<1>2. toCache \in Seq(CacheRequests) /\ CacheRequest(s) \in CacheRequests
  BY Zenon DEF ChannelTypes, CacheRequest, CacheRequests
<1>3. shown \in [Subs -> Seq(Items \union {Eoce})] /\ eosed \in [Subs -> [Relays -> SUBSET Ids]]
  BY Zenon DEF ChannelTypes
<1>4. shown'[s] = <<>> /\ \A r \in Relays : eosed'[s][r] = {}
  BY Zenon, <1>3 DEF OpenSubscription
<1>5. \A q, D : ~Has(q, D) => Single(q, D)
  BY Zenon DEF Has, Single
<1>6. Single(toCache', {CacheRequest(s)})
  <2>1. \A D : Single(toCache, D) /\ ~(Has(toCache, D) /\ CacheRequest(s) \in D) => Single(Append(toCache, CacheRequest(s)), D)
    BY Zenon, <1>2, Appends
  <2> QED BY Zenon, <1>1, <1>5, <2>1 DEF Untraced
<1>7. ~Has(envelopes', {s}) /\ Single(envelopes', {s})
  BY Zenon, <1>1, <1>5 DEF Untraced
<1>8. \A r \in Relays : ~Has(wire'[r], {Req(s)}) /\ Single(wire'[r], {Req(s)}) /\ Silent(s, r)'
  BY Zenon, <1>1, <1>4, <1>5, Empties DEF Untraced, Silent
<1>9. OneReq(s)'
  BY Zenon, <1>6, <1>7, <1>8 DEF OneReq
<1>10. WillClose(s)'
  BY Zenon, <1>1 DEF WillClose, Untraced
<1> QED BY Zenon, <1>9, <1>10

\* Another client's subscription leaves t alone.
LEMMA ClientOthers ==
    ASSUME ChannelTypes, ChannelTypes', NEW s \in Subs, OpenSubscription(s) \/ CloseSubscription(s),
           NEW t \in Subs \ {s}, Kept(t), Ordered(t), OneReq(t), WillClose(t)
    PROVE  Kept(t)' /\ Ordered(t)' /\ OneReq(t)' /\ WillClose(t)'
<1>1. /\ sub \in [Subs -> Sub] /\ shown \in [Subs -> Seq(Items \union {Eoce})]
      /\ due \in [Subs -> SUBSET Ids] /\ eosed \in [Subs -> [Relays -> SUBSET Ids]]
      /\ toCache \in Seq(CacheRequests) /\ closes \in Seq(Closes)
  BY Zenon DEF ChannelTypes
<1>2. sub'[t] = sub[t] /\ shown'[t] = shown[t] /\ due'[t] = due[t] /\ eosed'[t] = eosed[t]
  <2>1. CASE OpenSubscription(s)
    BY Zenon, <1>1, <2>1 DEF OpenSubscription
  <2>2. CASE CloseSubscription(s)
    BY Zenon, <1>1, <2>2 DEF CloseSubscription, rvars
  <2> QED BY Zenon, <2>1, <2>2
<1>3. /\ batch' = batch /\ toParser' = toParser /\ dedup' = dedup /\ wire' = wire
      /\ back' = back /\ relayOpen' = relayOpen /\ envelopes' = envelopes
  BY Zenon DEF OpenSubscription, CloseSubscription, vars, rvars
<1>4. \E c \in BOOLEAN : toCache' = Append(toCache, [close |-> c, sub |-> s])
  BY Zenon DEF OpenSubscription, CloseSubscription
<1>5. PICK c \in BOOLEAN : toCache' = Append(toCache, [close |-> c, sub |-> s])
  BY Zenon, <1>4
<1> DEFINE m == [close |-> c, sub |-> s]
<1>6. m \in CacheRequests /\ m \notin {CacheRequest(t)}
  BY DEF CacheRequests, CacheRequest
<1> HIDE DEF m
<1>7. /\ Has(toCache', {CacheRequest(t)}) => Has(toCache, {CacheRequest(t)})
      /\ Single(toCache, {CacheRequest(t)}) => Single(toCache', {CacheRequest(t)})
  <2>1. toCache' = Append(toCache, m)
    BY Zenon, <1>5 DEF m
  <2>2. \A D : Has(Append(toCache, m), D) <=> Has(toCache, D) \/ m \in D
    BY Zenon, <1>1, <1>6, Appends
  <2>3. \A D : Single(toCache, D) /\ ~(Has(toCache, D) /\ m \in D) => Single(Append(toCache, m), D)
    BY Zenon, <1>1, <1>6, Appends
  <2> QED BY Zenon, <1>6, <2>1, <2>2, <2>3
<1>8. \A D : Has(closes, D) => Has(closes', D)
  <2> DEFINE w == [sub |-> s, url |-> NoUrl]
  <2>1. closes' = closes \/ closes' = Append(closes, w)
    BY Zenon DEF OpenSubscription, CloseSubscription
  <2>2. w \in Closes
    BY Zenon DEF Closes
  <2> HIDE DEF w
  <2>3. \A D : Has(Append(closes, w), D) <=> Has(closes, D) \/ w \in D
    BY Zenon, <1>1, <2>2, Appends
  <2> QED BY Zenon, <2>1, <2>3
<1>9. Kept(t)' /\ Ordered(t)'
  BY Zenon, <1>2, <1>3, KeptFrame
<1>10. \A r \in Relays : Silent(t, r) => Silent(t, r)'
  BY Zenon, <1>2, <1>3, SilentStep
<1>11. OneReq(t)'
  BY Zenon, <1>3, <1>7, <1>10, OneReqStep
<1>12. \A r \in Relays : Closing(t, r) => Closing(t, r)'
  BY Zenon, <1>2, <1>3, <1>8 DEF Closing
<1>13. WillClose(t)'
  BY Zenon, <1>2, <1>3, <1>12, WillCloseStep
<1> QED BY Zenon, <1>9, <1>11, <1>13

\* The cache's requests and envelopes carry no event.
LEMMA RequestsKeep ==
    ASSUME ChannelTypes, ChannelTypes', CacheWorker \/ ConnectionsFromCache, NEW t \in Subs, Kept(t), Ordered(t)
    PROVE  Kept(t)' /\ Ordered(t)'
<1>1. /\ sub' = sub /\ shown' = shown /\ due' = due /\ eosed' = eosed /\ back' = back
      /\ batch' = batch /\ toParser' = toParser /\ dedup' = dedup
  <2>1. CASE CacheWorker
    BY Zenon, <2>1 DEF CacheWorker, vars
  <2>2. CASE ConnectionsFromCache
    BY Zenon, <2>2 DEF ConnectionsFromCache, SendEnvelope, rvars
  <2> QED BY Zenon, <2>1, <2>2
<1> QED BY Zenon, <1>1, KeptFrame

-----------------------------------------------------------------------------
\* Only OpenSubscription opens.
LEMMA OnlyOpens ==
    ASSUME ChannelTypes, [SubNext]_allVars, NEW t \in Subs, sub'[t].open, ~OpenSubscription(t)
    PROVE  sub[t].open
<1>1. CASE UNCHANGED allVars
  BY Zenon, <1>1 DEF allVars
<1>2. ASSUME sub' = sub PROVE sub[t].open
  BY Zenon, <1>2
<1>3. ASSUME NEW s \in Subs, HandleNetwork(s) \/ HandleCache(s) PROVE sub[t].open
  BY Zenon, <1>3, HandlerShows DEF Shows
<1>4. ASSUME NEW s \in Subs, OpenSubscription(s) \/ CloseSubscription(s) PROVE sub[t].open
  <2>1. sub \in [Subs -> Sub]
    BY Zenon DEF ChannelTypes
  <2>2. t # s => sub'[t] = sub[t]
    BY Zenon, <1>4, <2>1 DEF OpenSubscription, CloseSubscription
  <2>3. CloseSubscription(s) => sub[s].open
    BY Zenon DEF CloseSubscription
  <2> QED BY Zenon, <1>4, <2>2, <2>3
<1> QED BY Zenon, <1>1, <1>2, <1>3, <1>4, OthersShow DEF SubNext

Session(s) == Kept(s) /\ Ordered(s) /\ OneReq(s) /\ WillClose(s)

LEMMA ClientSession ==
    ASSUME ChannelTypes, ChannelTypes', NEW s \in Subs, OpenSubscription(s) \/ CloseSubscription(s), FreshOpens,
           NEW t \in Subs, sub'[t].open, sub[t].open => Session(t)
    PROVE  Session(t)'
<1>1. CASE t # s
  <2>1. sub \in [Subs -> Sub]
    BY Zenon DEF ChannelTypes
  <2>2. sub'[t] = sub[t]
    BY Zenon, <1>1, <2>1 DEF OpenSubscription, CloseSubscription
  <2> QED BY Zenon, <1>1, <2>2, ClientOthers DEF Session
<1>2. CASE t = s /\ OpenSubscription(s)
  <2>1. Kept(s)' /\ Ordered(s)' /\ Untraced(s) /\ sub'[s].closed = {}
    BY Zenon, <1>2, OpenKeeps
  <2>2. OneReq(s)' /\ WillClose(s)'
    BY Zenon, <1>2, <2>1, OpenReq
  <2> QED BY Zenon, <1>2, <2>1, <2>2 DEF Session
<1>3. CASE t = s /\ CloseSubscription(s)
  <2>1. sub \in [Subs -> Sub]
    BY Zenon DEF ChannelTypes
  <2>2. sub'[s] = Absent
    BY Zenon, <1>3, <2>1 DEF CloseSubscription
  <2>3. ~Absent.open
    BY DEF Absent
  <2> QED BY Zenon, <1>3, <2>2, <2>3
<1> QED BY Zenon, <1>1, <1>2, <1>3

LEMMA SessionStep ==
    ASSUME SessionInv, [SubNext /\ FreshOpens]_allVars
    PROVE  SessionInv'
<1>1. ChannelTypes /\ ChannelTypes' /\ [SubNext]_allVars
  BY Zenon, StepTypes DEF SessionInv
<1> SUFFICES ASSUME NEW t \in Subs, sub'[t].open PROVE Session(t)'
  BY Zenon, <1>1 DEF SessionInv, Session
<1>2. sub[t].open => Session(t)
  BY Zenon DEF SessionInv, Session
<1>3. CASE UNCHANGED allVars
  <2>1. sub[t].open
    BY Zenon, <1>3 DEF allVars
  <2>2. /\ sub' = sub /\ shown' = shown /\ due' = due /\ eosed' = eosed /\ back' = back /\ relayOpen' = relayOpen
        /\ batch' = batch /\ toParser' = toParser /\ dedup' = dedup /\ wire' = wire
        /\ toCache' = toCache /\ envelopes' = envelopes /\ closes' = closes
    BY Zenon, <1>3 DEF allVars, vars, cvars, rvars
  <2>3. Kept(t)' /\ Ordered(t)'
    BY Zenon, <1>1, <1>2, <2>1, <2>2, KeptFrame DEF Session
  <2>4. OneReq(t)' /\ WillClose(t)'
    BY Zenon, <1>2, <2>1, <2>2, ReqFrame DEF Session
  <2> QED BY Zenon, <2>3, <2>4 DEF Session
<1>4. ASSUME SubNext, FreshOpens PROVE Session(t)'
  <2>1. ASSUME NEW s \in Subs, OpenSubscription(s) \/ CloseSubscription(s) PROVE Session(t)'
    BY Zenon, <1>1, <1>2, <1>4, <2>1, ClientSession
  <2>2. ASSUME ~OpenSubscription(t) PROVE sub[t].open /\ Kept(t) /\ Ordered(t) /\ OneReq(t) /\ WillClose(t)
    BY Zenon, <1>1, <1>2, <2>2, OnlyOpens DEF Session
  <2>3. CASE OpenSubscription(t)
    BY Zenon, <2>1, <2>3
  <2> SUFFICES ASSUME sub[t].open, Kept(t), Ordered(t), OneReq(t), WillClose(t) PROVE Session(t)'
    BY Zenon, <2>2, <2>3
  <2>4. ASSUME NEW s \in Subs, HandleNetwork(s) PROVE Session(t)'
    BY Zenon, <1>1, <2>4, NetworkKeeps, NetworkReq DEF Session
  <2>5. ASSUME NEW s \in Subs, HandleCache(s) PROVE Session(t)'
    BY Zenon, <1>1, <2>5, CacheKeeps, CacheReq DEF Session
  <2>6. CASE CacheWorker
    BY Zenon, <1>1, <2>6, RequestsKeep, CacheWorkerReq DEF Session
  <2>7. CASE ConnectionsFromCache
    BY Zenon, <1>1, <2>7, RequestsKeep, FromCacheReq DEF Session
  <2>8. CASE ConnectionsFromParser
    BY Zenon, <1>1, <2>8, FromParserKeeps, FromParserReq DEF Session
  <2>9. CASE Sweeper
    BY Zenon, <1>1, <2>9, SweeperKeeps, SweeperReq DEF Session
  <2>10. ASSUME NEW r \in Relays, ConnectionsFromRelay(r) PROVE Session(t)'
    BY Zenon, <1>1, <2>10, FromRelayKeeps, FromRelayReq DEF Session
  <2>11. ASSUME NEW r \in Relays, Relay(r) PROVE Session(t)'
    BY Zenon, <1>1, <2>11, RelayKeeps, RelayReq DEF Session
  <2> QED BY Zenon, <1>4, <2>1, <2>4, <2>5, <2>6, <2>7, <2>8, <2>9, <2>10, <2>11 DEF SubNext
<1> QED BY Zenon, <1>3, <1>4

LEMMA SessionInit ==
    ASSUME SubInit
    PROVE  SessionInv
<1>1. ~Absent.open /\ \A s \in Subs : sub[s] = Absent
  BY DEF SubInit, Absent
<1> QED BY Zenon, <1>1, InitTypes DEF SessionInv

LEMMA ShownIds ==
    ASSUME ChannelTypes, NEW s \in Subs, NEW id \in Ids, Has(shown[s], {Event(id)})
    PROVE  id \in IdsShown(s)
<1>1. PICK k \in 1..Len(shown[s]) : shown[s][k] = Event(id)
  BY Zenon DEF Has
<1>2. shown[s] \in Seq(Items \union {Eoce})
  BY Zenon DEF ChannelTypes
<1>3. k \in DOMAIN shown[s] /\ Event(id).id = id
  BY <1>2 DEF Event
<1> QED BY Zenon, <1>1, <1>3 DEF IdsShown

LEMMA SessionMeans ==
    ASSUME SessionInv
    PROVE  EoseAfterEvents /\ DeliveredPerSubscription /\ ClosedOnEose
<1>1. ChannelTypes /\ \A s \in Subs : sub[s].open => Kept(s) /\ Ordered(s) /\ WillClose(s)
  BY Zenon DEF SessionInv
<1>2. ASSUME NEW s \in Subs, NEW r \in Relays, sub[s].open, Eose(r) \in Range(shown[s]), NEW id \in eosed[s][r]
      PROVE  id \in IdsShown(s)
  <2>1. shown[s] \in Seq(Items \union {Eoce})
    BY Zenon, <1>1 DEF ChannelTypes
  <2>2. DOMAIN shown[s] = 1..Len(shown[s])
    BY <2>1
  <2>3. Has(shown[s], {Eose(r)})
    BY Zenon, <1>2, <2>2 DEF Has, Range
  <2>4. Has(shown[s], {Event(id)}) /\ id \in Ids
    BY Zenon, <1>1, <1>2, <2>3, EosedIds DEF Ordered
  <2> QED BY Zenon, <1>1, <2>4, ShownIds
<1>3. ASSUME NEW s \in Subs, Quiet, sub[s].open, NEW id \in due[s] PROVE id \in IdsShown(s)
  <2>1. ~Has(toParser, Carriers(s, id)) /\ ~Has(batch[s], {Event(id)})
        /\ \A r \in Relays : ~Has(back[r], {Sent(s, Event(id))})
    BY Zenon, <1>3, Empties DEF Quiet
  <2>2. Has(shown[s], {Event(id)}) /\ id \in Ids
    BY Zenon, <1>1, <1>3, <2>1 DEF Kept, Held, ChannelTypes
  <2> QED BY Zenon, <1>1, <2>2, ShownIds
<1>4. ASSUME NEW s \in Subs, Quiet, sub[s].open, sub[s].closeOnEose, NEW r \in Relays PROVE s \notin relayOpen[r]
  <2>1. \A D : ~Has(closes, D) /\ ~Has(wire[r], D) /\ ~Has(back[r], D) /\ ~Has(toParser, D)
    BY Zenon, <1>4, Empties DEF Quiet
  <2> QED BY Zenon, <1>1, <1>4, <2>1 DEF WillClose
<1>5. EoseAfterEvents
  BY Zenon, <1>2 DEF EoseAfterEvents
<1>6. DeliveredPerSubscription
  BY Zenon, <1>3 DEF DeliveredPerSubscription
<1>7. ClosedOnEose
  BY Zenon, <1>4 DEF ClosedOnEose
<1> QED BY Zenon, <1>5, <1>6, <1>7

\* Before the first open nothing is anywhere, so that a first open is fresh.
Dormant ==
    /\ toCache = <<>> /\ envelopes = <<>> /\ closes = <<>> /\ cached = <<>> /\ toParser = <<>>
    /\ \A r \in Relays : wire[r] = <<>> /\ back[r] = <<>> /\ relayOpen[r] = {}
    /\ \A s \in Subs : batch[s] = <<>> /\ dedup[s] = <<>> /\ ~sub[s].open
FirstOpen == opens \in Nat /\ (opens = 0 => Dormant)

LEMMA DormantWaits ==
    ASSUME Dormant, SubNext
    PROVE  \E s \in Subs : OpenSubscription(s)
<1>1. ASSUME NEW s \in Subs PROVE First(toParser, s) = {} /\ First(cached, s) = {}
  BY DEF Dormant, First
<1>2. ASSUME NEW s \in Subs PROVE ~CloseSubscription(s) /\ ~HandleNetwork(s) /\ ~HandleCache(s)
  BY Zenon, <1>1 DEF Dormant, CloseSubscription, HandleNetwork, HandleCache
<1>3. ~CacheWorker /\ ~ConnectionsFromCache /\ ~ConnectionsFromParser
  BY Zenon DEF Dormant, CacheWorker, ConnectionsFromCache, ConnectionsFromParser
<1>4. ~Sweeper
  BY Zenon DEF Dormant, Sweeper, Sweep
<1>5. ASSUME NEW r \in Relays PROVE ~ConnectionsFromRelay(r) /\ ~Relay(r)
  BY Zenon DEF Dormant, ConnectionsFromRelay, Relay, RelayRecv
<1> QED BY Zenon, <1>2, <1>3, <1>4, <1>5 DEF SubNext

LEMMA FirstOpenFresh ==
    ASSUME ChannelTypes, MaxOpens <= 1, FirstOpen, [SubNext]_allVars
    PROVE  FirstOpen' /\ [SubNext /\ FreshOpens]_allVars
<1>1. CASE UNCHANGED allVars
  <2>1. /\ toCache' = toCache /\ envelopes' = envelopes /\ closes' = closes /\ cached' = cached
        /\ toParser' = toParser /\ wire' = wire /\ back' = back /\ relayOpen' = relayOpen
        /\ batch' = batch /\ dedup' = dedup /\ sub' = sub /\ opens' = opens
    BY Zenon, <1>1 DEF allVars, vars, cvars, rvars
  <2> QED BY Zenon, <1>1, <2>1 DEF FirstOpen, Dormant
<1>2. ASSUME SubNext PROVE FirstOpen' /\ FreshOpens
  <2>1. CASE \E s \in Subs : OpenSubscription(s)
    <3>1. opens' = opens + 1 /\ opens < MaxOpens
      BY Zenon, <2>1 DEF OpenSubscription
    <3>2. opens = 0 /\ opens' \in Nat /\ opens' # 0
      BY <3>1, SubscriptionsAssumption DEF FirstOpen
    <3>3. \A s \in Subs : Untraced(s)
      BY Zenon, <3>2, Empties DEF FirstOpen, Dormant, Untraced
    <3> QED BY Zenon, <3>2, <3>3 DEF FirstOpen, FreshOpens
  <2>2. CASE ~\E s \in Subs : OpenSubscription(s)
    <3>1. ~Dormant
      BY Zenon, <1>2, <2>2, DormantWaits
    <3>2. opens' = opens
      BY Zenon, <1>2, <2>2 DEF SubNext, CloseSubscription, HandleNetwork, HandleCache, CacheWorker,
         ConnectionsFromCache, ConnectionsFromParser, Sweeper, ConnectionsFromRelay, Relay
    <3>3. FirstOpen'
      BY Zenon, <3>1, <3>2 DEF FirstOpen
    <3>4. FreshOpens
      BY Zenon, <2>2, OnlyOpens DEF FreshOpens
    <3> QED BY Zenon, <3>3, <3>4
  <2> QED BY Zenon, <2>1, <2>2
<1> QED BY Zenon, <1>1, <1>2

LEMMA OneOpenIsFresh ==
    ASSUME MaxOpens <= 1
    PROVE  SubSpec => SessionSpec
<1>1. SubInit => ChannelTypes /\ FirstOpen
  <2>1. SubInit => FirstOpen
    <3> SUFFICES ASSUME SubInit PROVE FirstOpen
      OBVIOUS
    <3>1. \A s \in Subs : ~sub[s].open
      BY DEF SubInit, Absent
    <3>2. Dormant
      BY Zenon, <3>1 DEF SubInit, Init, Dormant
    <3>3. opens \in Nat
      BY DEF SubInit
    <3> QED BY Zenon, <3>2, <3>3 DEF FirstOpen
  <2> QED BY Zenon, <2>1, InitTypes
<1>2. ASSUME ChannelTypes, FirstOpen, [SubNext]_allVars
      PROVE  (ChannelTypes /\ FirstOpen)' /\ [SubNext /\ FreshOpens]_allVars
  <2>1. ChannelTypes'
    BY Zenon, <1>2, StepTypes
  <2> QED BY Zenon, <1>2, <2>1, FirstOpenFresh
<1> QED BY <1>1, <1>2, PTL DEF SubSpec, SessionSpec

\* EoseAfterEvents, while a subscription id is opened only once its earlier
\* sessions left no trace: an EOSE that the parser forwards (handle_network_eose,
\* parser_worker.rs) comes after every event that its relay sent before it.  The
\* control frame flushes the batch of its subscription first (write_control,
\* connections_worker.rs), and an event that the dedup drops is ahead of it, from
\* this relay or from another.
THEOREM EoseComesLast == SessionSpec => []EoseAfterEvents
<1> QED BY SessionInit, SessionStep, SessionMeans, PTL DEF SessionSpec

\* DeliveredPerSubscription, for the same histories: when all channels are empty,
\* every event that a relay sent for an open subscription was shown.  What the
\* dedup ring, the parser's seen set and a full batch leave out was shown before.
THEOREM EverythingDelivered == SessionSpec => []DeliveredPerSubscription
<1> QED BY SessionInit, SessionStep, SessionMeans, PTL DEF SessionSpec

\* ClosedOnEose, for the same histories: a subscription with closeOnEose that is
\* still open at a relay has its EOSE, or the CLOSE for that EOSE, on the way, so
\* that it is open nowhere once all channels are empty.
THEOREM EoseCloses == SessionSpec => []ClosedOnEose
<1> QED BY SessionInit, SessionStep, SessionMeans, PTL DEF SessionSpec

\* The three for a client that subscribes once, whatever the subscriptions, the
\* relays and the events: a first session is always free of traces.
THEOREM FirstSession ==
    ASSUME MaxOpens <= 1
    PROVE  SubSpec => [](EoseAfterEvents /\ DeliveredPerSubscription /\ ClosedOnEose)
<1>1. SubSpec => SessionSpec
  BY OneOpenIsFresh
<1> QED BY <1>1, SessionInit, SessionStep, SessionMeans, PTL DEF SessionSpec
=============================================================================
