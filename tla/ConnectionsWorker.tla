------------------------- MODULE ConnectionsWorker -------------------------
(***************************************************************************)
(* The connections worker: crates/core/src/worker/connections_worker.rs    *)
(* with the per-subscription dedup of transport/sub_dedup.rs.  It routes   *)
(* REQ and CLOSE frames to relay connections and relay frames to the       *)
(* parser.  Its loops share one thread and have no await inside a handler, *)
(* so a handler is one action.                                             *)
(*                                                                         *)
(* A relay connection is its frame queue (RelayConnection models it in     *)
(* full), and a batch buffer keeps only its frames (BatchBuffer models the *)
(* sizes): where the size threshold falls is left open, for frames shorter *)
(* than it.  Each relay frame is a record [kind, id, url]; only a control  *)
(* frame tells the parser its relay.                                       *)
(***************************************************************************)
EXTENDS Naturals, Sequences, FiniteSets, Functions

CONSTANTS
    Subs,       \* full subscription ids
    Relays,     \* relay urls
    Ids,        \* event ids
    DedupCap,   \* MAX_DEDUP_IDS_PER_SUB
    MaxWire,    \* bound: frames in the queue of a connection
    MaxBatch,   \* bound: frames in a batch buffer
    MaxChan     \* bound: messages on the way to the parser

NoId == "malformed"
NoUrl == "none"

\* A finite set: its parts have a size, and a proper part is smaller.
Counted(S) == \A T \in SUBSET S : Cardinality(T) \in Nat /\ (T # S => Cardinality(T) < Cardinality(S))

ASSUME WorkerAssumption ==
    /\ DedupCap \in Nat \ {0} /\ MaxWire \in Nat /\ MaxBatch \in Nat \ {0} /\ MaxChan \in Nat
    /\ Counted(Subs) /\ Counted(Ids) /\ NoUrl \notin Relays

Events == [kind : {"EVENT"}, id : Ids \union {NoId}, url : {NoUrl}]
Controls == [kind : {"EOSE"}, id : {NoId}, url : Relays]
Items == Events \union Controls

Req(s) == [kind |-> "REQ", sub |-> s]
Close(s) == [kind |-> "CLOSE", sub |-> s]
Frames == [kind : {"REQ", "CLOSE"}, sub : Subs]

VARIABLES
    subRelays,  \* subRelays[s]: sub_relays, {} for no entry
    dedup,      \* dedup[s]: the ring of sub_dedup, <<>> for no entry
    batch,      \* batch[s]: frames in the batch buffer of s
    toParser,   \* messages on the connections -> parser channel
    wire,       \* wire[r]: frames in the queue of r's connection
    asked,      \* <<r, s>>: relay r has received a REQ for s at some time
    told        \* <<r, s>>: the last frame for s queued at r is a REQ

vars == <<subRelays, dedup, batch, toParser, wire, asked, told>>

TypeOK ==
    /\ subRelays \in [Subs -> SUBSET Relays]
    /\ dedup \in [Subs -> Seq(Ids)] /\ \A s \in Subs : Len(dedup[s]) <= DedupCap
    /\ batch \in [Subs -> Seq(Events)]
    /\ toParser \in Seq([sub : Subs, items : Seq(Items)])
    /\ wire \in [Relays -> Seq(Frames)]
    /\ asked \subseteq Relays \X Subs
    /\ told \subseteq Relays \X Subs

Init ==
    /\ subRelays = [s \in Subs |-> {}]
    /\ dedup = [s \in Subs |-> <<>>]
    /\ batch = [s \in Subs |-> <<>>]
    /\ toParser = <<>>
    /\ wire = [r \in Relays |-> <<>>]
    /\ asked = {} /\ told = {}

-----------------------------------------------------------------------------
\* Variants of the definitions below, each with one plausible slip.
SendEnvelopeReplacing(s, R) ==
    /\ subRelays' = [subRelays EXCEPT ![s] = R]
    /\ wire' = [r \in Relays |-> IF r \in R THEN Append(wire[r], Req(s)) ELSE wire[r]]
    /\ told' = told \union (R \X {s})
    /\ UNCHANGED <<dedup, batch, toParser, asked>>
AddMessageLossy(s, x) ==
    \/ Len(batch[s]) < MaxBatch /\ batch' = [batch EXCEPT ![s] = Append(@, x)] /\ UNCHANGED toParser
    \/ batch[s] # <<>> /\ batch' = [batch EXCEPT ![s] = <<x>>] /\ UNCHANGED toParser
WriteControlDirect(s, r) ==
    /\ toParser' = Append(toParser, [sub |-> s, items |-> <<[kind |-> "EOSE", id |-> NoId, url |-> r]>>])
    /\ UNCHANGED <<batch, subRelays, dedup, wire, asked, told>>

-----------------------------------------------------------------------------
\* send_raw of the connections of R.  It queues the frame: every call sends on
\* a clone of the queue's sender, which always finds room.
SendRaw(R, f) ==
    /\ wire' = [r \in Relays |-> IF r \in R THEN Append(wire[r], f) ELSE wire[r]]
    /\ told' = IF f.kind = "REQ" THEN told \union (R \X {f.sub}) ELSE told \ (R \X {f.sub})

\* send_envelope for the envelope of a REQ, the only frame of a subscription
\* that the cache sends.
SendEnvelope(s, R) ==
    /\ subRelays' = [subRelays EXCEPT ![s] = @ \union R]
    /\ SendRaw(R, Req(s))
    /\ UNCHANGED <<dedup, batch, toParser, asked>>

\* Parser loop, CLOSE with a url: the dedup state goes with the last relay of
\* the subscription, not with a CLOSE for a subscription that has none.
ParserCloseAt(s, r) ==
    LET left == subRelays[s] \ {r}
    IN  /\ SendRaw({r}, Close(s))
        /\ subRelays' = [subRelays EXCEPT ![s] = left]
        /\ dedup' = IF subRelays[s] # {} /\ left = {} THEN [dedup EXCEPT ![s] = <<>>] ELSE dedup
        /\ UNCHANGED <<batch, toParser, asked>>

\* Parser loop, CLOSE without a url.
ParserClose(s) ==
    /\ SendRaw(subRelays[s], Close(s))
    /\ subRelays' = [subRelays EXCEPT ![s] = {}]
    /\ dedup' = [dedup EXCEPT ![s] = <<>>]
    /\ UNCHANGED <<batch, toParser, asked>>

\* SubDedup::mark, for an id that is not in the ring.
Mark(ring, id) ==
    LET longer == Append(ring, id)
    IN  IF Len(longer) > DedupCap THEN Tail(longer) ELSE longer

Message(s, items) == [sub |-> s, items |-> items]
Payload(s) == IF batch[s] = <<>> THEN <<>> ELSE <<Message(s, batch[s])>>

\* add_message: the batch is kept, sent before the frame, or sent with it.
AddMessage(s, x) ==
    \/ /\ Len(batch[s]) < MaxBatch
       /\ batch' = [batch EXCEPT ![s] = Append(@, x)]
       /\ UNCHANGED toParser
    \/ /\ batch[s] # <<>>
       /\ batch' = [batch EXCEPT ![s] = <<x>>]
       /\ toParser' = toParser \o Payload(s)
    \/ /\ batch' = [batch EXCEPT ![s] = <<>>]
       /\ toParser' = Append(toParser, Message(s, Append(batch[s], x)))

\* out_writer, EVENT frame: a duplicate is dropped, an event without a
\* readable id is not looked up.
WriteEvent(s, id) ==
    LET x == [kind |-> "EVENT", id |-> id, url |-> NoUrl]
    IN  /\ IF id \in Ids \intersect Range(dedup[s])
           THEN UNCHANGED <<dedup, batch, toParser>>
           ELSE /\ dedup' = IF id \in Ids THEN [dedup EXCEPT ![s] = Mark(@, id)] ELSE dedup
                /\ AddMessage(s, x)
        /\ UNCHANGED <<subRelays, wire, asked, told>>

\* out_writer, control frame: the pending events of the subscription go first.
WriteControl(s, r) ==
    LET x == [kind |-> "EOSE", id |-> NoId, url |-> r]
    IN  /\ toParser' = toParser \o Append(Payload(s), Message(s, <<x>>))
        /\ batch' = [batch EXCEPT ![s] = <<>>]
        /\ UNCHANGED <<subRelays, dedup, wire, asked, told>>

\* The orders in which the members of a finite set may be met.
Orders(S) == Bijection(1..Cardinality(S), S)

\* The sweeper sends the buffers that timed out, in the order of a hash map.
Sweep(S) ==
    /\ S # {} /\ \A s \in S : batch[s] # <<>>
    /\ \E q \in Orders(S) :
         toParser' = toParser \o [i \in DOMAIN q |-> Message(q[i], batch[q[i]])]
    /\ batch' = [s \in Subs |-> IF s \in S THEN <<>> ELSE batch[s]]
    /\ UNCHANGED <<subRelays, dedup, wire, asked, told>>

-----------------------------------------------------------------------------
\* The relay at the other end of a connection, and the parser.
RelayRecv(r) ==
    /\ wire[r] # <<>>
    /\ asked' = IF Head(wire[r]).kind = "REQ" THEN asked \union {<<r, Head(wire[r]).sub>>} ELSE asked
    /\ wire' = [wire EXCEPT ![r] = Tail(@)]
    /\ UNCHANGED <<subRelays, dedup, batch, toParser, told>>

ParserRecv ==
    /\ toParser # <<>>
    /\ toParser' = Tail(toParser)
    /\ UNCHANGED <<subRelays, dedup, batch, wire, asked, told>>

\* A frame for s may still arrive after the relay was sent its CLOSE.
RelayFrame(r, s) ==
    /\ <<r, s>> \in asked
    /\ Len(toParser) < MaxChan
    /\ WriteControl(s, r) \/ \E id \in Ids \union {NoId} : WriteEvent(s, id)

Room == \A r \in Relays : Len(wire[r]) < MaxWire

Next ==
    \/ \E s \in Subs :
         /\ Room
         /\ \/ \E R \in SUBSET Relays \ {{}} : SendEnvelope(s, R)
            \/ \E r \in Relays : ParserCloseAt(s, r)
            \/ ParserClose(s)
    \/ \E r \in Relays : RelayRecv(r) \/ \E s \in Subs : RelayFrame(r, s)
    \/ \E S \in SUBSET Subs : Len(toParser) < MaxChan /\ Sweep(S)
    \/ ParserRecv

Spec == Init /\ [][Next]_vars

-----------------------------------------------------------------------------
\* The worker's part of unsubscribing: sub_relays names exactly the relays whose
\* last word about s is a REQ, so that a CLOSE without a url reaches all of them
\* and no other, however REQs and CLOSEs from the cache and the parser mix.
RelaysExact == \A r \in Relays : \A s \in Subs : r \in subRelays[s] <=> <<r, s>> \in told
=============================================================================
