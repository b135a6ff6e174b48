-------------------------- MODULE RelayConnection --------------------------
(***************************************************************************)
(* One relay connection: crates/core/src/transport/connection.rs over the  *)
(* transport of RelayTransport.                                            *)
(*                                                                         *)
(* The methods of RelayConnection are operators on the record conn, one    *)
(* per method and with its name where that is free; an action is what runs *)
(* between two awaits of one of the tasks that share the connection: the   *)
(* initial connect, the queue drainer, a wake-up, the transport's reader   *)
(* and writer tasks, and the loops of the connections worker that call in. *)
(*                                                                         *)
(* A frame is [kind, sub]; there is one REQ frame per subscription.  Time  *)
(* is abstracted to conn.cooling, now < next_retry_at_ms, which a separate *)
(* action ends.                                                            *)
(***************************************************************************)
EXTENDS RelayTransport, Sequences, FiniteSets

CONSTANTS
    Subs,         \* subscription ids
    Outgoing,     \* frames that callers hand to send_raw
    Healthy,      \* Len(HEALTHY_RETRY_DELAYS_MS)
    ColdStart,    \* Len(COLD_START_RETRY_DELAYS_MS)
    AttemptCap,   \* backoff_attempts is counted up to this (more has no effect)
    MaxQueue,     \* bound: frames in the queue
    MaxSigning    \* bound: AUTH events at the crypto worker

ASSUME ConnectionAssumption ==
    /\ Healthy \in Nat \ {0} /\ ColdStart \in Nat \ {0}
    /\ AttemptCap \in Nat \ {0} /\ MaxQueue \in Nat /\ MaxSigning \in Nat

NoSub == "none"

ASSUME SubsAssumption == IsFiniteSet(Subs) /\ NoSub \notin Subs

Req(s) == [kind |-> "REQ", sub |-> s]
Close(s) == [kind |-> "CLOSE", sub |-> s]
Publish == [kind |-> "EVENT", sub |-> NoSub]
Auth == [kind |-> "AUTH", sub |-> NoSub]

Reqs == {Req(s) : s \in Subs}
Frames == Reqs \union {Close(s) : s \in Subs} \union {Publish, Auth}

ASSUME OutgoingAssumption == Outgoing \subseteq Frames

VARIABLES
    conn,      \* the RelayConnection
    transport, \* the transport of its url
    drainer,   \* [pc, frame, left]: the queue drainer task
    waker,     \* [pc, replay]: the task a wake-up spawns
    initial,   \* the task of the initial connect waits for the transport
    signing    \* AuthEvent requests the crypto worker has not answered

vars == <<conn, transport, drainer, waker, initial, signing>>

Attempts == 0..AttemptCap

\* connection_confirmed, wake_in_flight and pending_frames are confirmed, waking
\* and pending; told is the last status given to status_writer.
Connection ==
    [status : {"Connecting", "Connected", "Failed", "Closed"},
     told : {"connecting", "connected", "failed", "close"},
     subs : SUBSET Subs, reqs : SUBSET Reqs,
     attempts : Attempts, cooling : BOOLEAN, confirmed : BOOLEAN, waking : BOOLEAN,
     queue : Seq(Frames), pending : Nat,
     auth : {"Unknown", "Required", "Pending", "Authenticated", "Failed"},
     preAuth : Seq(Reqs)]

Drainer ==
    [pc : {"off", "idle", "connecting", "sleeping"}, frame : Frames,
     left : 0..(Healthy + ColdStart)]

Waker == [pc : {"idle", "spawned", "connecting"}, replay : SUBSET Reqs]

TypeOK ==
    /\ conn \in Connection
    /\ transport \in Transport
    /\ drainer \in Drainer
    /\ waker \in Waker
    /\ initial \in BOOLEAN
    /\ signing \in Nat

\* new(): the first task to run afterwards is the initial connect, here already
\* waiting for the transport.
Init ==
    /\ conn = [status |-> "Connecting", told |-> "connecting", subs |-> {}, reqs |-> {},
               attempts |-> 0, cooling |-> FALSE, confirmed |-> FALSE, waking |-> FALSE,
               queue |-> <<>>, pending |-> 0, auth |-> "Unknown", preAuth |-> <<>>]
    /\ transport = NoTransport
    /\ drainer = [pc |-> "off", frame |-> Auth, left |-> 0]
    /\ waker = [pc |-> "idle", replay |-> {}]
    /\ initial = TRUE
    /\ signing = 0

-----------------------------------------------------------------------------
\* The synchronous methods.

Contains(q, f) == \E i \in 1..Len(q) : q[i] = f

\* All the orders in which the frames of S can be enqueued.
Orders(S) ==
    {q \in [1..Cardinality(S) -> S] : \A i, j \in 1..Cardinality(S) : q[i] = q[j] => i = j}

ClearBackoff(c) == [c EXCEPT !.attempts = 0, !.cooling = FALSE]

ClearRetryDeadline(c) == [c EXCEPT !.cooling = FALSE]

ScheduleBackoff(c) ==
    [c EXCEPT !.attempts = IF @ < AttemptCap THEN @ + 1 ELSE @, !.cooling = TRUE]

Confirm(c) == [ClearBackoff(c) EXCEPT !.confirmed = TRUE]

\* send_raw, and the other uses of the queue's sender: a clone of the sender
\* always has a free slot, so try_send never reports a full queue.
Enqueue(c, q) == [c EXCEPT !.queue = @ \o q, !.pending = @ + Len(q)]

ClosedKeepingBackoff(c) ==
    [c EXCEPT !.status = "Closed", !.told = "close", !.confirmed = FALSE,
              !.preAuth = <<>>, !.auth = "Unknown"]

\* close(), without the transport's part.  Its Closed report finds the status
\* Closed and is ignored.
Closed(c) ==
    [ClearBackoff(c) EXCEPT !.status = "Closed", !.told = "close", !.confirmed = FALSE,
                            !.preAuth = <<>>, !.auth = "Unknown"]

ForgetSubOnly(c, s) == [c EXCEPT !.subs = @ \ {s}]

Forget(c, s) == [c EXCEPT !.subs = @ \ {s}, !.reqs = @ \ {Req(s)}]

Remember(c, f) == [c EXCEPT !.subs = @ \union {f.sub}, !.reqs = @ \union {f}]

Shadow(c, f) ==
    IF c.auth \in {"Unknown", "Required", "Pending"} /\ ~Contains(c.preAuth, f)
    THEN [c EXCEPT !.preAuth = Append(@, f)]
    ELSE c

\* send_raw_internal after the transport took frame f.
AutoCloses(c, f) == f.kind = "CLOSE" /\ c.subs \ {f.sub} = {}

Sent(c, f) ==
    CASE f.kind = "REQ" -> Remember(Shadow(Confirm(c), f), f)
      [] f.kind = "CLOSE" ->
            Forget(IF AutoCloses(c, f) THEN Closed(Confirm(c)) ELSE Confirm(c), f.sub)
      [] OTHER -> Confirm(c)

SentVia(u, c, f) == IF AutoCloses(c, f) THEN Disconnect(Transmit(u)) ELSE Transmit(u)

\* connect() up to its await, past the cooldown gate.
Connecting(c) == [c EXCEPT !.status = "Connecting", !.told = "connecting", !.confirmed = FALSE]

\* connect() after the await.
Connected(c) == [c EXCEPT !.status = "Connected", !.told = "connected", !.auth = "Unknown"]

ConnectFailed(c) == ScheduleBackoff([c EXCEPT !.status = "Failed", !.told = "failed"])

\* handle_transport_status for Closed and Failed.
TransportEnded(c, auth) ==
    IF c.status # "Connected" THEN c
    ELSE [ScheduleBackoff(c) EXCEPT !.status = "Failed", !.told = "failed", !.confirmed = FALSE,
                                    !.preAuth = <<>>, !.auth = auth]

SetAuthenticated(c) ==
    LET replay == IF c.auth = "Pending" THEN c.preAuth ELSE <<>>
    IN  Enqueue([c EXCEPT !.auth = "Authenticated", !.preAuth = <<>>], replay)

\* handle_incoming_message: msg is the kind of the relay's frame; an OK is
\* "accepted" or "rejected".
HandleFirstResponse(c, msg) ==
    CASE c.auth = "Unknown" /\ msg = "AUTH" -> [c EXCEPT !.auth = "Required"]
      [] c.auth = "Unknown" /\ msg # "AUTH" -> SetAuthenticated(c)
      [] c.auth = "Pending" /\ msg = "accepted" -> SetAuthenticated(c)
      [] OTHER -> c

HasRecoveryWork(c) == c.reqs # {} \/ c.pending > 0

-----------------------------------------------------------------------------
\* The queue drainer.  drainer.left counts the staged retries that remain for
\* drainer.frame; frame and left have no meaning while it waits for the queue.

Idle == [pc |-> "idle", frame |-> Auth, left |-> 0]

\* Frame f is sent from state (c, u), in the same step as whatever led there.
SendDirect(c, u, f) ==
    /\ conn' = Sent(c, f)
    /\ transport' = SentVia(u, c, f)
    /\ drainer' = Idle

NextRetryForever(c, u, f, left) ==
    /\ transport' = u
    /\ conn' = ClearRetryDeadline(c)
    /\ drainer' = [pc |-> "sleeping", frame |-> f, left |-> left]

\* The attempt just made has failed, leaving (c, u): the next staged retry
\* starts its delay, or the frame is dropped and the relay marked unreliable.
NextRetry(c, u, f, left) ==
    /\ transport' = u
    /\ IF left > 0
       THEN /\ conn' = ClearRetryDeadline(c)
            /\ drainer' = [pc |-> "sleeping", frame |-> f, left |-> left - 1]
       ELSE /\ conn' = IF c.cooling THEN c ELSE ScheduleBackoff(c)
            /\ drainer' = Idle

Drain ==
    /\ drainer.pc = "idle"
    /\ conn.queue # <<>>
    /\ LET f == Head(conn.queue)
           c == [conn EXCEPT !.queue = Tail(@), !.pending = IF @ > 0 THEN @ - 1 ELSE 0]
       IN  \/ /\ c.cooling                              \* dropped during the cooldown
              /\ conn' = c
              /\ UNCHANGED <<transport, drainer>>
           \/ /\ ~c.cooling /\ CanSend(transport)
              /\ SendDirect(c, transport, f)
           \/ /\ ~c.cooling /\ ~CanSend(transport)              \* reconnect #1
              /\ conn' = Connecting(c)
              /\ transport' = ConnectStart(transport)
              /\ drainer' = [pc |-> "connecting", frame |-> f,
                             left |-> IF c.confirmed THEN Healthy ELSE ColdStart]
    /\ UNCHANGED <<waker, initial, signing>>

\* The delay of a staged retry is over: connect(), which another task may have
\* put under cooldown in the meantime.
RetryConnect ==
    /\ drainer.pc = "sleeping"
    /\ \/ /\ conn.cooling
          /\ NextRetry(conn, transport, drainer.frame, drainer.left)
       \/ /\ ~conn.cooling
          /\ conn' = Connecting(conn)
          /\ transport' = ConnectStart(transport)
          /\ drainer' = [drainer EXCEPT !.pc = "connecting"]
    /\ UNCHANGED <<waker, initial, signing>>

\* The first connect that succeeds starts the drainer.
StartDrainer == IF drainer.pc = "off" THEN Idle ELSE drainer

DrainerConnected ==
    /\ drainer.pc = "connecting"
    /\ \E s \in NextSocket(transport) :
          LET c == Connected(conn)
              u == SocketOpened(transport, s)
          IN  IF CanSend(u) THEN SendDirect(c, u, drainer.frame)
                            ELSE NextRetry(c, u, drainer.frame, drainer.left)
    /\ UNCHANGED <<waker, initial, signing>>

DrainerConnectFailed ==
    /\ drainer.pc = "connecting"
    /\ NextRetry(ConnectFailed(conn), transport, drainer.frame, drainer.left)
    /\ UNCHANGED <<waker, initial, signing>>

-----------------------------------------------------------------------------
\* The initial connect, spawned by new().

InitialConnected ==
    /\ initial
    /\ \E s \in NextSocket(transport) : transport' = SocketOpened(transport, s)
    /\ conn' = Connected(conn)
    /\ drainer' = StartDrainer
    /\ initial' = FALSE
    /\ UNCHANGED <<waker, signing>>

InitialConnectFailed ==
    /\ initial
    /\ conn' = ConnectFailed(conn)
    /\ initial' = FALSE
    /\ UNCHANGED <<transport, drainer, waker, signing>>

-----------------------------------------------------------------------------
\* wake(): the active REQ frames are collected at the call, the socket is
\* replaced by the task it spawns.

Wake ==
    /\ HasRecoveryWork(conn)
    /\ ~conn.waking
    /\ conn' = [ClearBackoff(conn) EXCEPT !.waking = TRUE]
    /\ waker' = [pc |-> "spawned", replay |-> conn.reqs]
    /\ UNCHANGED <<transport, drainer, initial, signing>>

WakeReconnect ==
    /\ waker.pc = "spawned"
    /\ conn' = Connecting(ClearBackoff(Closed(conn)))
    /\ transport' = ConnectStart(Disconnect(transport))
    /\ waker' = [waker EXCEPT !.pc = "connecting"]
    /\ UNCHANGED <<drainer, initial, signing>>

WakeConnected ==
    /\ waker.pc = "connecting"
    /\ Len(conn.queue) + Cardinality(waker.replay) <= MaxQueue
    /\ \E s \in NextSocket(transport) : transport' = SocketOpened(transport, s)
    /\ \E q \in Orders(waker.replay) :
          conn' = [Enqueue(Connected(conn), q) EXCEPT !.waking = FALSE]
    /\ drainer' = StartDrainer
    /\ waker' = [pc |-> "idle", replay |-> {}]
    /\ UNCHANGED <<initial, signing>>

WakeConnectFailedAgain ==
    /\ waker.pc = "connecting"
    /\ conn' = ConnectFailed(conn)
    /\ waker' = [waker EXCEPT !.pc = "spawned"]
    /\ UNCHANGED <<transport, drainer, initial, signing>>

WakeConnectFailed ==
    /\ waker.pc = "connecting"
    /\ conn' = [ConnectFailed(conn) EXCEPT !.waking = FALSE]
    /\ waker' = [pc |-> "idle", replay |-> {}]
    /\ UNCHANGED <<transport, drainer, initial, signing>>

-----------------------------------------------------------------------------
\* Calls from the loops of the connections worker.

SendRaw ==
    /\ Len(conn.queue) < MaxQueue
    /\ \E f \in Outgoing : conn' = Enqueue(conn, <<f>>)
    /\ UNCHANGED <<transport, drainer, waker, initial, signing>>

\* close() on a ConnectionStatus CLOSE from the parser.
CloseRequested ==
    /\ conn' = Closed(conn)
    /\ transport' = Disconnect(transport)
    /\ UNCHANGED <<drainer, waker, initial, signing>>

CloseSub ==
    /\ Len(conn.queue) < MaxQueue
    /\ \E s \in conn.subs : conn' = Enqueue(Forget(conn, s), <<Close(s)>>)
    /\ UNCHANGED <<transport, drainer, waker, initial, signing>>

\* process_signed_auth: the crypto worker answers with a signed event ...
SignedAuth ==
    /\ signing > 0
    /\ Len(conn.queue) < MaxQueue
    /\ conn' = [Enqueue(conn, <<Auth>>) EXCEPT !.auth = "Pending"]
    /\ signing' = signing - 1
    /\ UNCHANGED <<transport, drainer, waker, initial>>

\* ... or with an error, which the crypto loop ignores.
SigningFailed ==
    /\ signing > 0
    /\ signing' = signing - 1
    /\ UNCHANGED <<conn, transport, drainer, waker, initial>>

-----------------------------------------------------------------------------
\* The transport: frames and the end of sockets.

Receive(s) ==
    /\ s \in transport.readers \intersect transport.open
    /\ \/ \E msg \in {"AUTH", "accepted", "rejected", "EVENT"} :
             /\ msg = "AUTH" /\ conn.auth = "Unknown" => signing < MaxSigning
             /\ conn' = HandleFirstResponse(Confirm(conn), msg)
             /\ signing' = IF msg = "AUTH" /\ conn.auth = "Unknown" THEN signing + 1 ELSE signing
       \/ \E sub \in Subs :
             /\ conn' = HandleFirstResponse(Forget(Confirm(conn), sub), "CLOSED")
             /\ UNCHANGED signing
    /\ Len(conn'.queue) <= MaxQueue
    /\ UNCHANGED <<transport, drainer, waker, initial>>

LoseNetwork(s) ==
    /\ s \in transport.open
    /\ transport' = NetworkLost(transport, s)
    /\ UNCHANGED <<conn, drainer, waker, initial, signing>>

ReaderEnds(s) ==
    /\ ReaderMayEnd(transport, s)
    /\ transport' = ReaderEnded(transport, s)
    /\ conn' = IF ReportsReaderEnd(transport, s) THEN TransportEnded(conn, "Unknown") ELSE conn
    /\ UNCHANGED <<drainer, waker, initial, signing>>

WriterEnds(s) ==
    /\ WriterMayEnd(transport, s)
    /\ transport' = WriterEnded(transport, s)
    /\ conn' = TransportEnded(conn, "Unknown")
    /\ UNCHANGED <<drainer, waker, initial, signing>>

\* A transport that reports TransportStatus::Failed when its socket breaks.
TransportFails ==
    /\ transport.handle # NoSocket
    /\ transport' = Disconnect(transport)
    /\ conn' = TransportEnded(conn, "Failed")
    /\ UNCHANGED <<drainer, waker, initial, signing>>

\* The retry deadline passes.
CooldownEnds ==
    /\ conn.cooling
    /\ conn' = ClearRetryDeadline(conn)
    /\ UNCHANGED <<transport, drainer, waker, initial, signing>>

-----------------------------------------------------------------------------
Tasks ==
    \/ Drain \/ RetryConnect \/ DrainerConnected \/ DrainerConnectFailed
    \/ InitialConnected \/ InitialConnectFailed
    \/ WakeReconnect \/ WakeConnected \/ WakeConnectFailed

Calls == Wake \/ SendRaw \/ CloseRequested \/ CloseSub \/ SignedAuth \/ SigningFailed

Network ==
    \/ \E s \in Sockets : Receive(s) \/ LoseNetwork(s) \/ ReaderEnds(s) \/ WriterEnds(s)
    \/ TransportFails
    \/ CooldownEnds

Next == Tasks \/ Calls \/ Network

Spec == Init /\ [][Next]_vars

\* The tasks are scheduled fairly and every connect of a transport ends, both
\* transports having timeouts; callers, the relay and the network owe nothing.
FairSpec ==
    /\ Spec
    /\ WF_vars(Drain)
    /\ WF_vars(RetryConnect)
    /\ WF_vars(DrainerConnected \/ DrainerConnectFailed)
    /\ WF_vars(WakeReconnect)
    /\ WF_vars(WakeConnected \/ WakeConnectFailed)

-----------------------------------------------------------------------------
\* has_recovery_work is exact: active_subs and active_reqs name the same
\* subscriptions (the automatic close is decided on one, wake-ups replay the
\* other), and pending_frames counts the frames the drainer has not taken.
RecoveryWorkExact ==
    /\ conn.subs = {f.sub : f \in conn.reqs}
    /\ conn.pending = Len(conn.queue)

\* A connection that says it is Connected has a socket to send on, whichever of
\* the concurrent connects, closes and dying sockets came last.
ConnectedHasSocket == conn.status = "Connected" => transport.handle # NoSocket

\* The last status shown upstream is the status the connection is in.
Shown == [Connecting |-> "connecting", Connected |-> "connected", Failed |-> "failed",
          Closed |-> "close"]
StatusTold == conn.told = Shown[conn.status]

\* Shadow copies of REQ frames exist only while the AUTH handshake of the
\* connection is undecided, and at most one per frame ("prevent memory leak").
ShadowOnlyInHandshake ==
    /\ conn.preAuth # <<>> => conn.auth \in {"Unknown", "Required", "Pending"}
    /\ \A i, j \in 1..Len(conn.preAuth) : conn.preAuth[i] = conn.preAuth[j] => i = j

\* "Intentional close should NOT mark relay unreliable or start cooldown": while
\* the connection stays Closed no late failure of a task or socket that was
\* under way counts against the relay.
ClosedIsReliable == conn.status = "Closed" => ~conn.cooling /\ conn.attempts = 0

\* wake_in_flight is set exactly while the task of a wake-up is running, so no
\* path through that task leaves later wake-ups coalesced into nothing.
WakeFlagExact == conn.waking <=> waker.pc # "idle"

\* Every socket with a running task, or still open, is the one in the transport's
\* map or has been told to end: replacing a socket leaves none behind.
NoLeakedSocket ==
    \A s \in transport.open \union transport.readers \union transport.writers :
        s = transport.handle \/ s \in transport.dropped \/ s \notin transport.open

\* The transport's sockets and the connection agree: Connected has its socket,
\* and there is no other that nobody will close.
SocketsAccounted == ConnectedHasSocket /\ NoLeakedSocket

\* "A delayed close from an older socket must not tear down its replacement"
\* (gloo.rs): the end of a socket that is no longer in the map changes neither
\* the map nor the status of the connection.
StaleEndHarmless ==
    [][\A s \in Sockets :
          (ReaderEnds(s) \/ WriterEnds(s)) /\ s # transport.handle =>
              transport'.handle = transport.handle /\ conn'.status = conn.status]_vars

\* wake "replaces the socket and replays the active REQ frames for this relay":
\* when it has reconnected, what it enqueues are the REQ frames active then.
WakeReplaysActive == [][WakeConnected => waker.replay = conn.reqs]_vars

\* A wake-up always ends, and with it the coalescing of later ones.
WakeCompletes == waker.pc # "idle" ~> waker.pc = "idle"

\* The drainer always comes back to the queue: the retries for one frame are
\* bounded however connects fail, succeed and race with closes and wake-ups.
DrainerReturns == drainer.pc \in {"connecting", "sleeping"} ~> drainer.pc = "idle"
=============================================================================
