----------------------- MODULE RelayConnectionProofs -----------------------
(***************************************************************************)
(* Safety of RelayConnection for any number of subscriptions, sockets,     *)
(* queued frames and staged retries.                                       *)
(*                                                                         *)
(* What concerns the connection alone is collected in Good(c).  Every      *)
(* method is shown to preserve it, once; an action preserves it because it *)
(* is a composition of methods.  The conjuncts that relate the connection  *)
(* to its transport and its tasks are proved action by action.             *)
(***************************************************************************)
EXTENDS RelayConnection, FiniteSetTheorems, TLAPS

SubsMatch(c) == c.subs = {f.sub : f \in c.reqs}
NoDuplicate(q) == \A i, j \in 1..Len(q) : q[i] = q[j] => i = j

Good(c) ==
    /\ c \in Connection
    /\ SubsMatch(c)
    /\ c.pending = Len(c.queue)
    /\ c.told = Shown[c.status]
    /\ c.preAuth # <<>> => c.auth \in {"Unknown", "Required", "Pending"}
    /\ NoDuplicate(c.preAuth)
    /\ c.status = "Closed" => ~c.cooling /\ c.attempts = 0

-----------------------------------------------------------------------------
\* Frames.

LEMMA FrameFacts ==
    /\ Reqs \subseteq Frames
    /\ Auth \in Frames
    /\ \A f \in Frames : f.kind = "REQ" => f \in Reqs /\ f.sub \in Subs
    /\ \A f \in Frames : f.kind = "CLOSE" => f.sub \in Subs
    /\ \A s \in Subs : Req(s) \in Reqs /\ Close(s) \in Frames
<1>1. \A f \in Reqs : f.kind = "REQ" /\ f.sub \in Subs
  BY DEF Reqs, Req
<1>2. \A f \in {Close(s) : s \in Subs} : f.kind = "CLOSE" /\ f.sub \in Subs
  BY DEF Close
<1>3. Publish.kind = "EVENT" /\ Auth.kind = "AUTH"
  BY Zenon DEF Publish, Auth
<1> QED
  BY Zenon, <1>1, <1>2, <1>3 DEF Frames, Reqs

LEMMA ReqsFinite == IsFiniteSet(Reqs)
<1> DEFINE g == [s \in Subs |-> Req(s)]
<1>1. g \in [Subs -> Reqs] /\ \A f \in Reqs : \E s \in Subs : g[s] = f
  BY Zenon DEF Reqs
<1>2. g \in Surjection(Subs, Reqs)
  BY Zenon, <1>1 DEF Surjection
<1> QED
  BY Zenon, <1>2, FS_Surjection, SubsAssumption

\* The orders in which wake() may enqueue a set of REQ frames.
LEMMA ReplayIsSequence ==
    ASSUME NEW S \in SUBSET Reqs, NEW q \in Orders(S)
    PROVE  q \in Seq(Frames)
<1>1. IsFiniteSet(S) /\ Cardinality(S) \in Nat
  BY Zenon, ReqsFinite, FS_Subset, FS_CardinalityType
<1>2. q \in [1..Cardinality(S) -> S]
  BY Zenon DEF Orders
<1>3. q \in [1..Cardinality(S) -> Frames]
  BY Zenon, <1>2, FrameFacts
<1> QED
  BY <1>1, <1>3

-----------------------------------------------------------------------------
\* The methods.

\* Most methods touch only the flags that Good does not relate to other fields.
SameCore(c, d) ==
    /\ d.status = c.status /\ d.told = c.told /\ d.subs = c.subs /\ d.reqs = c.reqs
    /\ d.queue = c.queue /\ d.pending = c.pending /\ d.auth = c.auth /\ d.preAuth = c.preAuth

LEMMA GoodSameCore ==
    ASSUME NEW c, Good(c), NEW d \in Connection, SameCore(c, d),
           d.status = "Closed" => ~d.cooling /\ d.attempts = 0
    PROVE  Good(d)
BY Zenon DEF Good, SameCore, SubsMatch

LEMMA GoodClearBackoff == ASSUME NEW c, Good(c) PROVE Good(ClearBackoff(c))
<1>1. ClearBackoff(c) \in Connection
  <2>1. 0 \in Attempts
    BY ConnectionAssumption DEF Attempts
  <2> QED
    BY Zenon, <2>1 DEF Good, Connection, ClearBackoff
<1>2. SameCore(c, ClearBackoff(c))
  BY Zenon DEF Good, Connection, ClearBackoff, SameCore
<1>3. ~ClearBackoff(c).cooling /\ ClearBackoff(c).attempts = 0
  BY Zenon DEF Good, Connection, ClearBackoff
<1> QED
  BY Zenon, <1>1, <1>2, <1>3, GoodSameCore

LEMMA GoodClearRetryDeadline == ASSUME NEW c, Good(c) PROVE Good(ClearRetryDeadline(c))
<1> DEFINE d == ClearRetryDeadline(c)
<1>1. d \in Connection /\ ~d.cooling /\ d.attempts = c.attempts
  BY Zenon DEF Good, Connection, ClearRetryDeadline
<1>2. SameCore(c, d)
  BY Zenon DEF Good, Connection, ClearRetryDeadline, SameCore
<1> QED
  BY Zenon, <1>1, <1>2, GoodSameCore DEF Good, SameCore

LEMMA GoodConfirm == ASSUME NEW c, Good(c) PROVE Good(Confirm(c))
<1> DEFINE b == ClearBackoff(c)  d == Confirm(c)
<1>1. Good(b) /\ ~b.cooling /\ b.attempts = 0
  BY Zenon, GoodClearBackoff DEF Good, Connection, ClearBackoff
<1>2. d = [b EXCEPT !.confirmed = TRUE]
  BY Zenon DEF Confirm
<1> HIDE DEF b, d
<1>3. d \in Connection /\ ~d.cooling /\ d.attempts = 0
  BY Zenon, <1>1, <1>2 DEF Good, Connection
<1>4. SameCore(b, d)
  BY Zenon, <1>1, <1>2 DEF Good, Connection, SameCore
<1>5. Good(d)
  BY Zenon, <1>1, <1>3, <1>4, GoodSameCore
<1> QED
  BY Zenon, <1>5 DEF d

\* A relay is marked unreliable only when it has not been closed.
LEMMA GoodScheduleBackoff ==
    ASSUME NEW c, Good(c), c.status # "Closed" PROVE Good(ScheduleBackoff(c))
<1>1. ScheduleBackoff(c) \in Connection
  <2>1. c.attempts \in Attempts
    BY Zenon DEF Good, Connection
  <2>2. (IF c.attempts < AttemptCap THEN c.attempts + 1 ELSE c.attempts) \in Attempts
    BY <2>1, ConnectionAssumption DEF Attempts
  <2> QED
    BY Zenon, <2>2 DEF Good, Connection, ScheduleBackoff
<1>2. SameCore(c, ScheduleBackoff(c))
  BY Zenon DEF Good, Connection, ScheduleBackoff, SameCore
<1> QED
  BY Zenon, <1>1, <1>2, GoodSameCore DEF SameCore

LEMMA GoodEnqueue ==
    ASSUME NEW c, Good(c), NEW q \in Seq(Frames) PROVE Good(Enqueue(c, q))
<1> DEFINE d == Enqueue(c, q)
<1>1. d \in Connection
  <2>1. c.queue \in Seq(Frames) /\ c.pending \in Nat
    BY Zenon DEF Good, Connection
  <2>2. c.queue \o q \in Seq(Frames) /\ c.pending + Len(q) \in Nat
    BY <2>1
  <2> QED
    BY Zenon, <2>2 DEF Good, Connection, Enqueue
<1>2. /\ d.queue = c.queue \o q /\ d.pending = c.pending + Len(q)
      /\ d.status = c.status /\ d.told = c.told /\ d.subs = c.subs /\ d.reqs = c.reqs
      /\ d.auth = c.auth /\ d.preAuth = c.preAuth /\ d.cooling = c.cooling
      /\ d.attempts = c.attempts
  BY Zenon DEF Good, Connection, Enqueue
<1>3. c.queue \in Seq(Frames)
  BY Zenon DEF Good, Connection
<1>4. d.pending = Len(d.queue)
  BY <1>2, <1>3 DEF Good
<1> QED
  BY Zenon, <1>1, <1>2, <1>4 DEF Good, SubsMatch

LEMMA GoodClosed == ASSUME NEW c, Good(c) PROVE Good(Closed(c))
<1> DEFINE d == Closed(c)
<1>1. d \in Connection
  <2>1. 0 \in Attempts /\ <<>> \in Seq(Reqs)
    BY ConnectionAssumption DEF Attempts
  <2> QED
    BY Zenon, <2>1 DEF Good, Connection, Closed, ClearBackoff
<1>2. /\ d.status = "Closed" /\ d.told = "close" /\ d.preAuth = <<>> /\ ~d.cooling
      /\ d.attempts = 0 /\ d.subs = c.subs /\ d.reqs = c.reqs /\ d.queue = c.queue
      /\ d.pending = c.pending
  BY Zenon DEF Good, Connection, Closed, ClearBackoff
<1> QED
  BY <1>1, <1>2 DEF Good, SubsMatch, Shown, NoDuplicate

LEMMA GoodForget == ASSUME NEW c, Good(c), NEW s \in Subs PROVE Good(Forget(c, s))
<1> DEFINE d == Forget(c, s)
<1>1. \A f \in c.reqs : f.sub = s <=> f = Req(s)
  BY DEF Good, Connection, Reqs, Req
<1>2. {f.sub : f \in c.reqs} \ {s} = {f.sub : f \in c.reqs \ {Req(s)}}
  BY Zenon, <1>1
<1>3. d.subs = {f.sub : f \in c.reqs} \ {s} /\ d.reqs = c.reqs \ {Req(s)}
  BY Zenon DEF Good, Connection, Forget, SubsMatch
<1>4. SubsMatch(d)
  BY Zenon, <1>2, <1>3 DEF SubsMatch
<1>5. d \in Connection
  BY Zenon DEF Good, Connection, Forget
<1>6. /\ d.pending = c.pending /\ d.queue = c.queue /\ d.told = c.told /\ d.status = c.status
      /\ d.preAuth = c.preAuth /\ d.auth = c.auth /\ d.cooling = c.cooling
      /\ d.attempts = c.attempts
  BY Zenon DEF Good, Connection, Forget
<1> QED
  BY Zenon, <1>4, <1>5, <1>6 DEF Good

LEMMA GoodShadow == ASSUME NEW c, Good(c), NEW f \in Reqs PROVE Good(Shadow(c, f))
<1>1. CASE c.auth \in {"Unknown", "Required", "Pending"} /\ ~Contains(c.preAuth, f)
  <2> DEFINE d == Shadow(c, f)
  <2>1. d = [c EXCEPT !.preAuth = Append(@, f)]
    BY Zenon, <1>1 DEF Shadow
  <2>2. c.preAuth \in Seq(Reqs) /\ \A i \in 1..Len(c.preAuth) : c.preAuth[i] # f
    BY Zenon, <1>1 DEF Contains, Good, Connection
  <2>3. NoDuplicate(Append(c.preAuth, f))
    BY <2>2 DEF NoDuplicate, Good
  <2>4. d \in Connection /\ d.preAuth = Append(c.preAuth, f)
    <3>1. Append(c.preAuth, f) \in Seq(Reqs)
      BY <2>2
    <3> QED
      BY Zenon, <2>1, <3>1 DEF Good, Connection
  <2>5. /\ d.pending = c.pending /\ d.queue = c.queue /\ d.told = c.told /\ d.status = c.status
        /\ d.subs = c.subs /\ d.reqs = c.reqs /\ d.auth = c.auth /\ d.cooling = c.cooling
        /\ d.attempts = c.attempts
    BY <2>1 DEF Good, Connection
  <2> QED
    BY Zenon, <1>1, <2>3, <2>4, <2>5 DEF Good, SubsMatch
<1>2. CASE ~(c.auth \in {"Unknown", "Required", "Pending"} /\ ~Contains(c.preAuth, f))
  BY Zenon, <1>2 DEF Shadow
<1> QED
  BY Zenon, <1>1, <1>2

\* Adding a REQ frame to active_reqs and its subscription to active_subs.
LEMMA GoodRemember == ASSUME NEW c, Good(c), NEW f \in Reqs PROVE Good(Remember(c, f))
<1> DEFINE d == Remember(c, f)
<1>1. f.sub \in Subs
  BY DEF Reqs, Req
<1>2. c.subs \union {f.sub} \in SUBSET Subs /\ c.reqs \union {f} \in SUBSET Reqs
  BY Zenon, <1>1 DEF Good, Connection
<1>3. d \in Connection
  BY Zenon, <1>2 DEF Good, Connection, Remember
<1>4. /\ d.subs = c.subs \union {f.sub} /\ d.reqs = c.reqs \union {f}
      /\ d.pending = c.pending /\ d.queue = c.queue /\ d.told = c.told /\ d.status = c.status
      /\ d.preAuth = c.preAuth /\ d.auth = c.auth /\ d.cooling = c.cooling
      /\ d.attempts = c.attempts
  BY Zenon DEF Good, Connection, Remember
<1>5. SubsMatch(d)
  BY <1>4 DEF SubsMatch, Good
<1> QED
  BY Zenon, <1>3, <1>4, <1>5 DEF Good

LEMMA GoodSent == ASSUME NEW c, Good(c), NEW f \in Frames PROVE Good(Sent(c, f))
<1>1. CASE f.kind = "REQ"
  <2>1. f \in Reqs
    BY Zenon, <1>1, FrameFacts
  <2>2. Good(Shadow(Confirm(c), f))
    BY Zenon, <2>1, GoodConfirm, GoodShadow
  <2>3. Sent(c, f) = Remember(Shadow(Confirm(c), f), f)
    BY Zenon, <1>1 DEF Sent
  <2> QED
    BY Zenon, <2>1, <2>2, <2>3, GoodRemember
<1>2. CASE f.kind = "CLOSE"
  <2> DEFINE b == IF AutoCloses(c, f) THEN Closed(Confirm(c)) ELSE Confirm(c)
  <2>1. Good(b)
    BY Zenon, GoodConfirm, GoodClosed
  <2>2. Sent(c, f) = Forget(b, f.sub)
    BY Zenon, <1>2 DEF Sent
  <2> HIDE DEF b
  <2> QED
    BY Zenon, <1>2, <2>1, <2>2, GoodForget, FrameFacts
<1>3. CASE f.kind # "REQ" /\ f.kind # "CLOSE"
  BY Zenon, <1>3, GoodConfirm DEF Sent
<1> QED
  BY Zenon, <1>1, <1>2, <1>3

LEMMA GoodConnecting ==
    ASSUME NEW c, Good(c) PROVE Good(Connecting(c)) /\ Connecting(c).status = "Connecting"
<1> DEFINE d == Connecting(c)
<1>1. d \in Connection
  BY Zenon DEF Good, Connection, Connecting
<1>2. /\ d.status = "Connecting" /\ d.told = "connecting" /\ d.subs = c.subs /\ d.reqs = c.reqs
      /\ d.queue = c.queue /\ d.pending = c.pending /\ d.auth = c.auth /\ d.preAuth = c.preAuth
  BY Zenon DEF Good, Connection, Connecting
<1> QED
  BY <1>1, <1>2 DEF Good, SubsMatch, Shown

LEMMA GoodConnected == ASSUME NEW c, Good(c) PROVE Good(Connected(c))
<1> DEFINE d == Connected(c)
<1>1. d \in Connection
  BY Zenon DEF Good, Connection, Connected
<1>2. /\ d.status = "Connected" /\ d.told = "connected" /\ d.subs = c.subs /\ d.reqs = c.reqs
      /\ d.queue = c.queue /\ d.pending = c.pending /\ d.auth = "Unknown"
      /\ d.preAuth = c.preAuth
  BY Zenon DEF Good, Connection, Connected
<1> QED
  BY <1>1, <1>2 DEF Good, SubsMatch, Shown

LEMMA GoodConnectFailed ==
    ASSUME NEW c, Good(c)
    PROVE  Good(ConnectFailed(c)) /\ ConnectFailed(c).status = "Failed"
<1> DEFINE d == [c EXCEPT !.status = "Failed", !.told = "failed"]
<1>1. d \in Connection
  BY Zenon DEF Good, Connection
<1>2. /\ d.status = "Failed" /\ d.told = "failed" /\ d.subs = c.subs /\ d.reqs = c.reqs
      /\ d.queue = c.queue /\ d.pending = c.pending /\ d.auth = c.auth /\ d.preAuth = c.preAuth
  BY Zenon DEF Good, Connection
<1>3. ConnectFailed(c) = ScheduleBackoff(d)
  BY Zenon DEF ConnectFailed
<1> HIDE DEF d
<1>4. Good(d)
  BY <1>1, <1>2 DEF Good, SubsMatch, Shown
<1>5. ScheduleBackoff(d).status = "Failed"
  BY Zenon, <1>1, <1>2 DEF Connection, ScheduleBackoff
<1> QED
  BY <1>2, <1>3, <1>4, <1>5, GoodScheduleBackoff

\* The end of a transport is taken as a failure only while Connected.
LEMMA GoodTransportEnded ==
    ASSUME NEW c, Good(c), NEW auth \in {"Unknown", "Failed"}
    PROVE  Good(TransportEnded(c, auth)) /\ TransportEnded(c, auth).status # "Connected"
<1>1. CASE c.status # "Connected"
  BY Zenon, <1>1 DEF TransportEnded
<1>2. CASE c.status = "Connected"
  <2> DEFINE b == ScheduleBackoff(c)
             d == [b EXCEPT !.status = "Failed", !.told = "failed", !.confirmed = FALSE,
                            !.preAuth = <<>>, !.auth = auth]
  <2>1. Good(b)
    BY Zenon, <1>2, GoodScheduleBackoff
  <2>2. TransportEnded(c, auth) = d
    BY Zenon, <1>2 DEF TransportEnded
  <2> HIDE DEF b
  <2>3. d \in Connection
    <3>1. <<>> \in Seq(Reqs)
      OBVIOUS
    <3> QED
      BY Zenon, <2>1, <3>1 DEF Good, Connection
  <2>4. /\ d.status = "Failed" /\ d.told = "failed" /\ d.preAuth = <<>> /\ d.subs = b.subs
        /\ d.reqs = b.reqs /\ d.queue = b.queue /\ d.pending = b.pending
    BY Zenon, <2>1 DEF Good, Connection
  <2> HIDE DEF d
  <2>5. Good(d)
    BY <2>1, <2>3, <2>4 DEF Good, SubsMatch, Shown, NoDuplicate
  <2> QED
    BY Zenon, <2>2, <2>4, <2>5
<1> QED
  BY Zenon, <1>1, <1>2

LEMMA GoodSetAuthenticated == ASSUME NEW c, Good(c) PROVE Good(SetAuthenticated(c))
<1> DEFINE d == [c EXCEPT !.auth = "Authenticated", !.preAuth = <<>>]
           replay == IF c.auth = "Pending" THEN c.preAuth ELSE <<>>
<1>1. d \in Connection
  <2>1. <<>> \in Seq(Reqs)
    OBVIOUS
  <2> QED
    BY Zenon, <2>1 DEF Good, Connection
<1>2. /\ d.preAuth = <<>> /\ d.subs = c.subs /\ d.reqs = c.reqs /\ d.queue = c.queue
      /\ d.pending = c.pending /\ d.status = c.status /\ d.told = c.told
      /\ d.cooling = c.cooling /\ d.attempts = c.attempts
  BY Zenon DEF Good, Connection
<1>3. replay \in Seq(Frames)
  <2>1. c.preAuth \in Seq(Reqs) /\ <<>> \in Seq(Frames)
    BY DEF Good, Connection
  <2> QED
    BY <2>1, FrameFacts
<1>4. SetAuthenticated(c) = Enqueue(d, replay)
  BY Zenon DEF SetAuthenticated
<1> HIDE DEF d, replay
<1>5. Good(d)
  BY <1>1, <1>2 DEF Good, SubsMatch, NoDuplicate
<1> QED
  BY Zenon, <1>3, <1>4, <1>5, GoodEnqueue

LEMMA GoodSetAuth ==
    ASSUME NEW c, Good(c), NEW a \in {"Required", "Pending"}
    PROVE  Good([c EXCEPT !.auth = a])
<1> DEFINE d == [c EXCEPT !.auth = a]
<1>1. d \in Connection
  BY Zenon DEF Good, Connection
<1>2. /\ d.auth = a /\ d.preAuth = c.preAuth /\ d.subs = c.subs /\ d.reqs = c.reqs
      /\ d.queue = c.queue /\ d.pending = c.pending /\ d.status = c.status /\ d.told = c.told
      /\ d.cooling = c.cooling /\ d.attempts = c.attempts
  BY Zenon DEF Good, Connection
<1> HIDE DEF d
<1>3. Good(d)
  BY Zenon, <1>1, <1>2 DEF Good, SubsMatch
<1> QED
  BY Zenon, <1>3 DEF d

LEMMA GoodHandleFirstResponse ==
    ASSUME NEW c, Good(c), NEW msg PROVE Good(HandleFirstResponse(c, msg))
<1>1. CASE c.auth = "Unknown" /\ msg = "AUTH"
  BY Zenon, <1>1, GoodSetAuth DEF HandleFirstResponse
<1>2. CASE c.auth = "Unknown" /\ msg # "AUTH"
  BY Zenon, <1>2, GoodSetAuthenticated DEF HandleFirstResponse
<1>3. CASE c.auth = "Pending" /\ msg = "accepted"
  BY Zenon, <1>3, GoodSetAuthenticated DEF HandleFirstResponse
<1>4. CASE c.auth # "Unknown" /\ ~(c.auth = "Pending" /\ msg = "accepted")
  BY Zenon, <1>4 DEF HandleFirstResponse
<1> QED
  BY Zenon, <1>1, <1>2, <1>3, <1>4

-----------------------------------------------------------------------------
\* Which methods leave the status and wake_in_flight alone.

LEMMA StatusKept ==
    ASSUME NEW c, Good(c)
    PROVE  /\ ClearBackoff(c).status = c.status /\ ClearBackoff(c).waking = c.waking
           /\ ClearRetryDeadline(c).status = c.status /\ ClearRetryDeadline(c).waking = c.waking
           /\ ScheduleBackoff(c).status = c.status /\ ScheduleBackoff(c).waking = c.waking
           /\ Confirm(c).status = c.status /\ Confirm(c).waking = c.waking
           /\ \A q : Enqueue(c, q).status = c.status /\ Enqueue(c, q).waking = c.waking
           /\ \A s : Forget(c, s).status = c.status /\ Forget(c, s).waking = c.waking
           /\ \A f : Remember(c, f).status = c.status /\ Remember(c, f).waking = c.waking
           /\ \A f : Shadow(c, f).status = c.status /\ Shadow(c, f).waking = c.waking
BY Zenon DEF Good, Connection, ClearBackoff, ClearRetryDeadline, ScheduleBackoff, Confirm, Enqueue,
       Forget, Remember, Shadow

LEMMA StatusSet ==
    ASSUME NEW c, Good(c)
    PROVE  /\ Closed(c).status = "Closed" /\ Closed(c).waking = c.waking
           /\ Connecting(c).status = "Connecting" /\ Connecting(c).waking = c.waking
           /\ Connected(c).status = "Connected" /\ Connected(c).waking = c.waking
           /\ ConnectFailed(c).status = "Failed" /\ ConnectFailed(c).waking = c.waking
           /\ \A a : TransportEnded(c, a).waking = c.waking
BY Zenon DEF Good, Connection, Closed, ClearBackoff, Connecting, Connected, ConnectFailed,
       ScheduleBackoff, TransportEnded

LEMMA StatusAfterResponse ==
    ASSUME NEW c, Good(c), NEW msg
    PROVE  /\ HandleFirstResponse(c, msg).status = c.status
           /\ HandleFirstResponse(c, msg).waking = c.waking
BY Zenon DEF Good, Connection, HandleFirstResponse, SetAuthenticated, Enqueue

\* A frame that is sent closes the connection only when it is the CLOSE of its
\* last subscription.
LEMMA StatusSent ==
    ASSUME NEW c, Good(c), NEW f \in Frames
    PROVE  /\ Sent(c, f).status = IF AutoCloses(c, f) THEN "Closed" ELSE c.status
           /\ Sent(c, f).waking = c.waking
<1>1. CASE f.kind = "REQ"
  <2>1. Good(Confirm(c)) /\ Good(Shadow(Confirm(c), f)) /\ ~AutoCloses(c, f)
    BY Zenon, <1>1, GoodConfirm, GoodShadow, FrameFacts DEF AutoCloses
  <2>2. Sent(c, f) = Remember(Shadow(Confirm(c), f), f)
    BY Zenon, <1>1 DEF Sent
  <2> QED
    BY <2>1, <2>2, StatusKept
<1>2. CASE f.kind = "CLOSE"
  <2> DEFINE b == IF AutoCloses(c, f) THEN Closed(Confirm(c)) ELSE Confirm(c)
  <2>1. /\ Good(b) /\ b.waking = c.waking
        /\ b.status = IF AutoCloses(c, f) THEN "Closed" ELSE c.status
    BY SMTT(30), GoodConfirm, GoodClosed, StatusKept, StatusSet
  <2>2. Sent(c, f) = Forget(b, f.sub)
    BY Zenon, <1>2 DEF Sent
  <2> HIDE DEF b
  <2> QED
    BY <2>1, <2>2, StatusKept
<1>3. CASE f.kind # "REQ" /\ f.kind # "CLOSE"
  BY Zenon, <1>3, StatusKept DEF Sent, AutoCloses
<1> QED
  BY <1>1, <1>2, <1>3

-----------------------------------------------------------------------------
\* The transport.  Native: every socket that is open, or has a task, is in the
\* map or has been told to end.  Browser: there are no writer tasks.

NoneLeaked(t) ==
    \A s \in t.open \union t.readers \union t.writers :
        s = t.handle \/ s \in t.dropped \/ s \notin t.open

GoodTransport(t) ==
    /\ t \in Transport
    /\ ~Native => t.writers = {}
    /\ Native => NoneLeaked(t)

LEMMA SocketFacts == NoSocket \notin Sockets
BY DEF NoSocket, Sockets

LEMMA GoodDisconnect ==
    ASSUME NEW t, GoodTransport(t)
    PROVE  GoodTransport(Disconnect(t)) /\ GoodTransport(ConnectStart(t))
BY Zenon, SocketFacts DEF GoodTransport, Transport, NoneLeaked, Disconnect, ConnectStart

LEMMA GoodSocketOpened ==
    ASSUME NEW t, GoodTransport(t), NEW s \in NextSocket(t)
    PROVE  /\ GoodTransport(SocketOpened(t, s)) /\ SocketOpened(t, s).handle # NoSocket
           /\ CanSend(SocketOpened(t, s))
BY ZenonT(30), SocketFacts DEF GoodTransport, Transport, NoneLeaked, SocketOpened, NextSocket, Unused, CanSend

LEMMA GoodTransmit ==
    ASSUME NEW t, GoodTransport(t), CanSend(t)
    PROVE  GoodTransport(Transmit(t)) /\ Transmit(t).handle # NoSocket
BY Zenon, SocketFacts DEF GoodTransport, Transport, NoneLeaked, Transmit, CanSend

LEMMA GoodNetworkLost ==
    ASSUME NEW t, GoodTransport(t), NEW s
    PROVE  GoodTransport(NetworkLost(t, s)) /\ NetworkLost(t, s).handle = t.handle
BY Zenon DEF GoodTransport, Transport, NoneLeaked, NetworkLost

LEMMA GoodReaderEnded ==
    ASSUME NEW t, GoodTransport(t), NEW s \in Sockets
    PROVE  /\ GoodTransport(ReaderEnded(t, s))
           /\ ~ReportsReaderEnd(t, s) => ReaderEnded(t, s).handle = t.handle
BY ZenonT(30) DEF GoodTransport, Transport, NoneLeaked, ReaderEnded, Released, ReportsReaderEnd

LEMMA GoodReleased ==
    ASSUME NEW t, GoodTransport(t), NEW s \in Sockets PROVE GoodTransport(Released(t, s))
BY Zenon DEF GoodTransport, Transport, NoneLeaked, Released

LEMMA GoodWriterEnded ==
    ASSUME NEW t, GoodTransport(t), NEW s \in Sockets, WriterMayEnd(t, s)
    PROVE  GoodTransport(WriterEnded(t, s))
<1> DEFINE u == [t EXCEPT !.writers = @ \ {s}, !.handle = NoSocket,
                          !.dropped = @ \union ({t.handle} \ {NoSocket})]
<1>1. u \in Transport
  BY Zenon DEF GoodTransport, Transport
<1>2. /\ u.open = t.open /\ u.readers = t.readers /\ u.writers = t.writers \ {s}
      /\ u.handle = NoSocket /\ u.dropped = t.dropped \union ({t.handle} \ {NoSocket})
  BY Zenon DEF GoodTransport, Transport
<1>3. WriterEnded(t, s) = Released(u, s)
  BY Zenon DEF WriterEnded
<1>4. t.open \subseteq Sockets /\ t.readers \subseteq Sockets /\ t.writers \subseteq Sockets
  BY Zenon DEF GoodTransport, Transport
<1> HIDE DEF u
<1>5. Native => NoneLeaked(u)
  BY Zenon, <1>2, <1>4, SocketFacts DEF GoodTransport, NoneLeaked
<1>6. ~Native => u.writers = {}
  BY Zenon, <1>2 DEF GoodTransport
<1> QED
  BY Zenon, <1>1, <1>3, <1>5, <1>6, GoodReleased DEF GoodTransport

-----------------------------------------------------------------------------
\* The inductive invariant.

Inv ==
    /\ Good(conn)
    /\ GoodTransport(transport)
    /\ drainer \in Drainer
    /\ waker \in Waker
    /\ initial \in BOOLEAN
    /\ signing \in Nat
    /\ ConnectedHasSocket
    /\ WakeFlagExact

\* What one step must establish of the connection and the transport; wk is the
\* value of wake_in_flight it leaves.
Kept(c, t, wk) ==
    /\ Good(c)
    /\ GoodTransport(t)
    /\ c.status = "Connected" => t.handle # NoSocket
    /\ c.waking = wk

LEMMA IdleIsDrainer == Idle \in Drainer
<1>1. 0 \in 0..(Healthy + ColdStart)
  BY ConnectionAssumption
<1> QED
  BY Zenon, <1>1, FrameFacts DEF Idle, Drainer

LEMMA NextRetryKeeps ==
    ASSUME NEW c, NEW t, NEW f \in Frames, NEW left \in 0..(Healthy + ColdStart),
           Kept(c, t, c.waking), ~c.cooling => c.status # "Closed", NextRetry(c, t, f, left)
    PROVE  Kept(conn', transport', c.waking) /\ drainer' \in Drainer
<1>1. transport' = t
  BY Zenon DEF NextRetry
<1>2. CASE left > 0
  <2>1. conn' = ClearRetryDeadline(c)
    BY Zenon, <1>2 DEF NextRetry
  <2>2. drainer' = [pc |-> "sleeping", frame |-> f, left |-> left - 1]
    BY Zenon, <1>2 DEF NextRetry
  <2>3. left - 1 \in 0..(Healthy + ColdStart)
    BY <1>2, ConnectionAssumption
  <2>4. drainer' \in Drainer
    BY Zenon, <2>2, <2>3 DEF Drainer
  <2> QED
    BY Zenon, <1>1, <2>1, <2>4, GoodClearRetryDeadline, StatusKept DEF Kept
<1>3. CASE ~(left > 0)
  <2>1. conn' = (IF c.cooling THEN c ELSE ScheduleBackoff(c)) /\ drainer' = Idle
    BY Zenon, <1>3 DEF NextRetry
  <2> QED
    BY <1>1, <2>1, IdleIsDrainer, GoodScheduleBackoff, StatusKept DEF Kept
<1> QED
  BY Zenon, <1>2, <1>3

LEMMA SendDirectKeeps ==
    ASSUME NEW c, NEW t, NEW f \in Frames, Good(c), GoodTransport(t), CanSend(t),
           SendDirect(c, t, f)
    PROVE  Kept(conn', transport', c.waking) /\ drainer' \in Drainer
<1>1. conn' = Sent(c, f) /\ transport' = SentVia(t, c, f) /\ drainer' = Idle
  BY Zenon DEF SendDirect
<1>2. GoodTransport(SentVia(t, c, f))
  BY Zenon, GoodTransmit, GoodDisconnect DEF SentVia
<1>3. ~AutoCloses(c, f) => SentVia(t, c, f).handle # NoSocket
  BY Zenon, GoodTransmit DEF SentVia
<1> QED
  BY Zenon, <1>1, <1>2, <1>3, GoodSent, StatusSent, IdleIsDrainer DEF Kept

LEMMA InitInv == Init => Inv
<1> SUFFICES ASSUME Init PROVE Inv
  BY Zenon
<1>1. conn \in Connection
  <2>1. 0 \in Attempts /\ <<>> \in Seq(Frames) /\ <<>> \in Seq(Reqs) /\ 0 \in Nat
    BY ConnectionAssumption DEF Attempts
  <2> QED
    BY Zenon, <2>1 DEF Init, Connection
<1>2. Good(conn)
  BY <1>1 DEF Good, Init, SubsMatch, NoDuplicate, Shown
<1>3. GoodTransport(transport)
  BY Zenon DEF GoodTransport, Transport, NoneLeaked, Init, NoTransport
<1>4. drainer \in Drainer
  <2>1. 0 \in 0..(Healthy + ColdStart)
    BY ConnectionAssumption
  <2> QED
    BY Zenon, <2>1, FrameFacts DEF Init, Drainer
<1>5. waker \in Waker /\ initial \in BOOLEAN /\ signing \in Nat
  BY Zenon DEF Init, Waker
<1>6. ConnectedHasSocket /\ WakeFlagExact
  BY Zenon DEF Init, ConnectedHasSocket, WakeFlagExact
<1> QED
  BY Zenon, <1>2, <1>3, <1>4, <1>5, <1>6 DEF Inv

\* Inv after a step, put together again; for the actions that leave the waker,
\* the initial connect and the signing requests alone, and for the others.
LEMMA Rebuilt ==
    ASSUME NEW wk, Kept(conn', transport', wk), wk <=> waker'.pc # "idle",
           drainer' \in Drainer, waker' \in Waker, initial' \in BOOLEAN, signing' \in Nat
    PROVE  Inv'
BY Zenon DEF Inv, Kept, ConnectedHasSocket, WakeFlagExact

LEMMA RebuiltSameTasks ==
    ASSUME Inv, Kept(conn', transport', conn.waking), drainer' \in Drainer,
           UNCHANGED <<waker, initial, signing>>
    PROVE  Inv'
BY Zenon, Rebuilt DEF Inv, WakeFlagExact

\* The frame the drainer takes, and what is left of the connection.
LEMMA TakeFrame ==
    ASSUME Inv, conn.queue # <<>>,
           NEW c, c = [conn EXCEPT !.queue = Tail(@), !.pending = IF @ > 0 THEN @ - 1 ELSE 0]
    PROVE  /\ Head(conn.queue) \in Frames
           /\ Kept(c, transport, conn.waking)
           /\ c.cooling = conn.cooling
<1>1. conn.queue \in Seq(Frames) /\ conn.pending = Len(conn.queue)
  BY Zenon DEF Inv, Good, Connection
<1>2. /\ Head(conn.queue) \in Frames /\ Tail(conn.queue) \in Seq(Frames)
      /\ Len(conn.queue) > 0 /\ Len(Tail(conn.queue)) = Len(conn.queue) - 1
      /\ Len(conn.queue) - 1 \in Nat
  BY <1>1
<1>3. c = [conn EXCEPT !.queue = Tail(conn.queue), !.pending = Len(conn.queue) - 1]
  BY Zenon, <1>1, <1>2
<1>4. c \in Connection
  BY Zenon, <1>2, <1>3 DEF Inv, Good, Connection
<1>5. /\ c.queue = Tail(conn.queue) /\ c.pending = Len(conn.queue) - 1
      /\ c.status = conn.status /\ c.told = conn.told /\ c.subs = conn.subs
      /\ c.reqs = conn.reqs /\ c.auth = conn.auth /\ c.preAuth = conn.preAuth
      /\ c.cooling = conn.cooling /\ c.attempts = conn.attempts /\ c.waking = conn.waking
  BY Zenon, <1>3 DEF Inv, Good, Connection
<1>6. Good(c)
  BY Zenon, <1>2, <1>4, <1>5 DEF Inv, Good, SubsMatch
<1> QED
  BY Zenon, <1>2, <1>5, <1>6 DEF Inv, Kept, ConnectedHasSocket

LEMMA DrainKeeps == ASSUME Inv, Drain PROVE Inv'
<1> DEFINE f == Head(conn.queue)
           c == [conn EXCEPT !.queue = Tail(@), !.pending = IF @ > 0 THEN @ - 1 ELSE 0]
<1>1. f \in Frames /\ Kept(c, transport, conn.waking)
  BY Zenon, TakeFrame DEF Drain
<1>2. UNCHANGED <<waker, initial, signing>>
  BY Zenon DEF Drain
<1>3. CASE c.cooling /\ conn' = c /\ UNCHANGED <<transport, drainer>>
  BY Zenon, <1>1, <1>2, <1>3, RebuiltSameTasks DEF Inv
<1>4. CASE CanSend(transport) /\ SendDirect(c, transport, f)
  <2> HIDE DEF c, f
  <2>1. Kept(conn', transport', c.waking) /\ drainer' \in Drainer
    BY Zenon, <1>1, <1>4, SendDirectKeeps DEF Kept
  <2> QED
    BY Zenon, <1>1, <1>2, <2>1, RebuiltSameTasks DEF Kept
<1>5. CASE /\ conn' = Connecting(c)
           /\ transport' = ConnectStart(transport)
           /\ drainer' = [pc |-> "connecting", frame |-> f,
                          left |-> IF c.confirmed THEN Healthy ELSE ColdStart]
  <2> HIDE DEF c, f
  <2>1. Kept(conn', transport', conn.waking)
    BY Zenon, <1>1, <1>5, GoodConnecting, StatusSet, GoodDisconnect DEF Kept
  <2>2. (IF c.confirmed THEN Healthy ELSE ColdStart) \in 0..(Healthy + ColdStart)
    BY ConnectionAssumption
  <2>3. drainer' \in Drainer
    BY Zenon, <1>1, <1>5, <2>2 DEF Drainer
  <2> QED
    BY Zenon, <1>2, <2>1, <2>3, RebuiltSameTasks
<1> QED
  BY Zenon, <1>3, <1>4, <1>5 DEF Drain

LEMMA RetryConnectKeeps == ASSUME Inv, RetryConnect PROVE Inv'
<1>1. UNCHANGED <<waker, initial, signing>>
  BY Zenon DEF RetryConnect
<1>2. Kept(conn, transport, conn.waking)
  BY Zenon DEF Inv, Kept, ConnectedHasSocket
<1>3. drainer.frame \in Frames /\ drainer.left \in 0..(Healthy + ColdStart)
  BY Zenon DEF Inv, Drainer
<1>4. CASE conn.cooling /\ NextRetry(conn, transport, drainer.frame, drainer.left)
  BY <1>1, <1>2, <1>3, <1>4, NextRetryKeeps, RebuiltSameTasks
<1>5. CASE /\ conn' = Connecting(conn)
           /\ transport' = ConnectStart(transport)
           /\ drainer' = [drainer EXCEPT !.pc = "connecting"]
  <2>1. Kept(conn', transport', conn.waking)
    BY Zenon, <1>2, <1>5, GoodConnecting, StatusSet, GoodDisconnect DEF Kept
  <2>2. drainer' \in Drainer
    BY Zenon, <1>5 DEF Inv, Drainer
  <2> QED
    BY Zenon, <1>1, <2>1, <2>2, RebuiltSameTasks
<1> QED
  BY Zenon, <1>4, <1>5 DEF RetryConnect

LEMMA DrainerConnectedKeeps == ASSUME Inv, DrainerConnected PROVE Inv'
<1>1. UNCHANGED <<waker, initial, signing>>
  BY Zenon DEF DrainerConnected
<1>2. drainer.frame \in Frames
  BY Zenon DEF Inv, Drainer
<1>3. PICK s \in NextSocket(transport) :
          LET c == Connected(conn)
              u == SocketOpened(transport, s)
          IN  IF CanSend(u) THEN SendDirect(c, u, drainer.frame)
                            ELSE NextRetry(c, u, drainer.frame, drainer.left)
  BY Zenon DEF DrainerConnected
<1>4. /\ GoodTransport(SocketOpened(transport, s)) /\ CanSend(SocketOpened(transport, s))
      /\ Good(Connected(conn)) /\ Connected(conn).waking = conn.waking
  BY Zenon, GoodSocketOpened, GoodConnected, StatusSet DEF Inv
<1>5. SendDirect(Connected(conn), SocketOpened(transport, s), drainer.frame)
  BY Zenon, <1>3, <1>4
<1> QED
  BY Zenon, <1>1, <1>2, <1>4, <1>5, SendDirectKeeps, RebuiltSameTasks

LEMMA DrainerConnectFailedKeeps == ASSUME Inv, DrainerConnectFailed PROVE Inv'
<1>1. UNCHANGED <<waker, initial, signing>>
  BY Zenon DEF DrainerConnectFailed
<1>2. drainer.frame \in Frames /\ drainer.left \in 0..(Healthy + ColdStart)
  BY Zenon DEF Inv, Drainer
<1> DEFINE c == ConnectFailed(conn)
<1>3. Kept(c, transport, c.waking) /\ c.status = "Failed" /\ c.waking = conn.waking
  BY Zenon, GoodConnectFailed, StatusSet DEF Inv, Kept
<1>4. NextRetry(c, transport, drainer.frame, drainer.left)
  BY Zenon DEF DrainerConnectFailed
<1> HIDE DEF c
<1> QED
  BY Zenon, <1>1, <1>2, <1>3, <1>4, NextRetryKeeps, RebuiltSameTasks

LEMMA StartDrainerIsDrainer == ASSUME Inv PROVE StartDrainer \in Drainer
BY Zenon, IdleIsDrainer DEF Inv, StartDrainer

LEMMA InitialKeeps == ASSUME Inv, InitialConnected \/ InitialConnectFailed PROVE Inv'
<1>1. UNCHANGED <<waker, signing>> /\ initial' \in BOOLEAN
  BY Zenon DEF InitialConnected, InitialConnectFailed
<1>2. Kept(conn', transport', conn.waking) /\ drainer' \in Drainer
  <2>1. CASE InitialConnected
    BY Zenon, <2>1, GoodSocketOpened, GoodConnected, StatusSet, StartDrainerIsDrainer
    DEF InitialConnected, Inv, Kept
  <2>2. CASE InitialConnectFailed
    BY Zenon, <2>2, GoodConnectFailed, StatusSet DEF InitialConnectFailed, Inv, Kept
  <2> QED
    BY Zenon, <2>1, <2>2
<1> QED
  BY Zenon, <1>1, <1>2, Rebuilt DEF Inv, WakeFlagExact

\* Setting wake_in_flight concerns no other field.
LEMMA SetWaking ==
    ASSUME NEW c, Good(c), NEW wk \in BOOLEAN
    PROVE  /\ Good([c EXCEPT !.waking = wk])
           /\ [c EXCEPT !.waking = wk].status = c.status
           /\ [c EXCEPT !.waking = wk].waking = wk
<1> DEFINE d == [c EXCEPT !.waking = wk]
<1>1. d \in Connection /\ d.waking = wk /\ d.cooling = c.cooling /\ d.attempts = c.attempts
  BY Zenon DEF Good, Connection
<1>2. SameCore(c, d)
  BY Zenon DEF Good, Connection, SameCore
<1> HIDE DEF d
<1>3. Good(d) /\ d.status = c.status
  BY Zenon, <1>1, <1>2, GoodSameCore DEF Good, SameCore
<1> QED
  BY Zenon, <1>1, <1>3 DEF d

LEMMA WakeKeeps == ASSUME Inv, Wake PROVE Inv'
<1> DEFINE c == ClearBackoff(conn)
<1>1. Good(c) /\ c.status = conn.status
  BY Zenon, GoodClearBackoff, StatusKept DEF Inv
<1>2. conn' = [c EXCEPT !.waking = TRUE]
  BY Zenon DEF Wake
<1> HIDE DEF c
<1>3. Kept(conn', transport', TRUE)
  BY Zenon, <1>1, <1>2, SetWaking DEF Wake, Inv, Kept, ConnectedHasSocket
<1>4. waker' = [pc |-> "spawned", replay |-> conn.reqs] /\ conn.reqs \in SUBSET Reqs
  BY Zenon DEF Wake, Inv, Good, Connection
<1>5. waker' \in Waker /\ waker'.pc # "idle"
  BY Zenon, <1>4 DEF Waker
<1> QED
  BY Zenon, <1>3, <1>5, Rebuilt DEF Wake, Inv

LEMMA WakeReconnectKeeps == ASSUME Inv, WakeReconnect PROVE Inv'
<1>1. conn.waking = TRUE
  BY Zenon DEF WakeReconnect, Inv, WakeFlagExact, Good, Connection
<1>2. Good(ClearBackoff(Closed(conn))) /\ ClearBackoff(Closed(conn)).waking = conn.waking
  BY GoodClosed, GoodClearBackoff, StatusSet, StatusKept DEF Inv
<1>3. Kept(conn', transport', TRUE)
  BY <1>1, <1>2, GoodConnecting, StatusSet, GoodDisconnect DEF WakeReconnect, Inv, Kept
<1>4. waker' \in Waker /\ waker'.pc # "idle"
  BY Zenon DEF WakeReconnect, Inv, Waker
<1> QED
  BY Zenon, <1>3, <1>4, Rebuilt DEF WakeReconnect, Inv

LEMMA WakeConnectedKeeps == ASSUME Inv, WakeConnected PROVE Inv'
<1>1. PICK q \in Orders(waker.replay) :
          conn' = [Enqueue(Connected(conn), q) EXCEPT !.waking = FALSE]
  BY Zenon DEF WakeConnected
<1> DEFINE c == Enqueue(Connected(conn), q)
<1>2. q \in Seq(Frames)
  BY Zenon, ReplayIsSequence DEF Inv, Waker
<1>3. Good(c)
  BY Zenon, <1>2, GoodConnected, GoodEnqueue DEF Inv
<1>4. conn' = [c EXCEPT !.waking = FALSE]
  BY Zenon, <1>1
<1> HIDE DEF c
<1>5. Good(conn') /\ conn'.waking = FALSE
  BY Zenon, <1>3, <1>4, SetWaking
<1>6. GoodTransport(transport') /\ transport'.handle # NoSocket
  BY GoodSocketOpened DEF WakeConnected, Inv
<1>7. Kept(conn', transport', FALSE)
  BY Zenon, <1>5, <1>6 DEF Kept
<1>8. waker' \in Waker /\ waker'.pc = "idle"
  BY Zenon DEF WakeConnected, Waker
<1> QED
  BY Zenon, <1>7, <1>8, Rebuilt, StartDrainerIsDrainer DEF WakeConnected, Inv

LEMMA WakeConnectFailedKeeps == ASSUME Inv, WakeConnectFailed PROVE Inv'
<1> DEFINE c == ConnectFailed(conn)
<1>1. Good(c) /\ c.status = "Failed"
  BY Zenon, GoodConnectFailed DEF Inv
<1>2. conn' = [c EXCEPT !.waking = FALSE]
  BY Zenon DEF WakeConnectFailed
<1> HIDE DEF c
<1>3. Kept(conn', transport', FALSE)
  BY Zenon, <1>1, <1>2, SetWaking DEF WakeConnectFailed, Inv, Kept
<1>4. waker' \in Waker /\ waker'.pc = "idle"
  BY Zenon DEF WakeConnectFailed, Waker
<1> QED
  BY Zenon, <1>3, <1>4, Rebuilt DEF WakeConnectFailed, Inv

-----------------------------------------------------------------------------
\* Calls.

LEMMA OneFrame == ASSUME NEW f \in Frames PROVE <<f>> \in Seq(Frames)
OBVIOUS

LEMMA SendRawKeeps == ASSUME Inv, SendRaw PROVE Inv'
<1>1. PICK f \in Outgoing : conn' = Enqueue(conn, <<f>>)
  BY Zenon DEF SendRaw
<1>2. <<f>> \in Seq(Frames)
  BY Zenon, OneFrame, OutgoingAssumption
<1>3. Kept(conn', transport', conn.waking)
  BY Zenon, <1>1, <1>2, GoodEnqueue, StatusKept DEF SendRaw, Inv, Kept, ConnectedHasSocket
<1> QED
  BY <1>3, RebuiltSameTasks DEF SendRaw, Inv

LEMMA CloseRequestedKeeps == ASSUME Inv, CloseRequested PROVE Inv'
<1>1. Kept(conn', transport', conn.waking)
  BY Zenon, GoodClosed, StatusSet, GoodDisconnect DEF CloseRequested, Inv, Kept
<1> QED
  BY Zenon, <1>1, RebuiltSameTasks DEF CloseRequested, Inv

LEMMA CloseSubKeeps == ASSUME Inv, CloseSub PROVE Inv'
<1>1. PICK s \in conn.subs : conn' = Enqueue(Forget(conn, s), <<Close(s)>>)
  BY Zenon DEF CloseSub
<1>2. s \in Subs
  BY Zenon DEF Inv, Good, Connection
<1>3. <<Close(s)>> \in Seq(Frames)
  BY Zenon, <1>2, OneFrame, FrameFacts
<1> DEFINE c == Forget(conn, s)
<1>4. Good(c) /\ c.status = conn.status /\ c.waking = conn.waking
  BY <1>2, GoodForget, StatusKept DEF Inv
<1>5. conn' = Enqueue(c, <<Close(s)>>)
  BY Zenon, <1>1
<1> HIDE DEF c
<1>6. Good(conn') /\ conn'.status = conn.status /\ conn'.waking = conn.waking
  BY ZenonT(30), <1>3, <1>4, <1>5, GoodEnqueue, StatusKept
<1>7. Kept(conn', transport', conn.waking)
  BY Zenon, <1>6 DEF CloseSub, Inv, Kept, ConnectedHasSocket
<1> QED
  BY <1>7, RebuiltSameTasks DEF CloseSub, Inv

LEMMA SigningKeeps == ASSUME Inv, SignedAuth \/ SigningFailed PROVE Inv'
<1>1. signing' \in Nat /\ UNCHANGED <<transport, drainer, waker, initial>>
  BY DEF SignedAuth, SigningFailed, Inv
<1>2. Kept(conn', transport', conn.waking)
  <2>1. CASE SignedAuth
    <3> DEFINE c == Enqueue(conn, <<Auth>>)
    <3>1. Good(c) /\ c.status = conn.status /\ c.waking = conn.waking
      BY Zenon, OneFrame, FrameFacts, GoodEnqueue, StatusKept DEF Inv
    <3>2. conn' = [c EXCEPT !.auth = "Pending"]
      BY Zenon, <2>1 DEF SignedAuth
    <3> HIDE DEF c
    <3>3. conn'.status = c.status /\ conn'.waking = c.waking
      BY Zenon, <3>1, <3>2 DEF Good, Connection
    <3>4. Good(conn')
      BY Zenon, <3>1, <3>2, GoodSetAuth
    <3> QED
      BY <1>1, <3>1, <3>3, <3>4 DEF Inv, Kept, ConnectedHasSocket
  <2>2. CASE SigningFailed
    BY <2>2 DEF SigningFailed, Inv, Kept, ConnectedHasSocket
  <2> QED
    BY Zenon, <2>1, <2>2
<1> QED
  BY <1>1, <1>2, Rebuilt DEF Inv, WakeFlagExact

-----------------------------------------------------------------------------
\* The transport's callbacks and the clock.

LEMMA ReceiveKeeps == ASSUME Inv, NEW s, Receive(s) PROVE Inv'
<1>1. UNCHANGED <<transport, drainer, waker, initial>> /\ signing' \in Nat
  BY DEF Receive, Inv
<1>2. Good(Confirm(conn)) /\ Confirm(conn).status = conn.status
      /\ Confirm(conn).waking = conn.waking
  BY GoodConfirm, StatusKept DEF Inv
<1>3. Good(conn') /\ conn'.status = conn.status /\ conn'.waking = conn.waking
  <2>1. CASE \E msg : conn' = HandleFirstResponse(Confirm(conn), msg)
    BY <1>2, <2>1, GoodHandleFirstResponse, StatusAfterResponse
  <2>2. CASE \E sub \in Subs : conn' = HandleFirstResponse(Forget(Confirm(conn), sub), "CLOSED")
    <3>1. PICK sub \in Subs : conn' = HandleFirstResponse(Forget(Confirm(conn), sub), "CLOSED")
      BY <2>2
    <3> DEFINE c == Forget(Confirm(conn), sub)
    <3>2. Good(c) /\ c.status = conn.status /\ c.waking = conn.waking
      BY <1>2, GoodForget, StatusKept
    <3> HIDE DEF c
    <3>3. conn' = HandleFirstResponse(c, "CLOSED")
      BY <3>1 DEF c
    <3> QED
      BY <3>2, <3>3, GoodHandleFirstResponse, StatusAfterResponse
  <2> QED
    BY Zenon, <2>1, <2>2 DEF Receive
<1>4. Kept(conn', transport', conn.waking)
  BY Zenon, <1>1, <1>3 DEF Inv, Kept, ConnectedHasSocket
<1> QED
  BY Zenon, <1>1, <1>4, Rebuilt DEF Inv, WakeFlagExact

LEMMA LoseNetworkKeeps == ASSUME Inv, NEW s, LoseNetwork(s) PROVE Inv'
<1>1. Kept(conn', transport', conn.waking)
  BY Zenon, GoodNetworkLost DEF LoseNetwork, Inv, Kept, ConnectedHasSocket
<1> QED
  BY Zenon, <1>1, RebuiltSameTasks DEF LoseNetwork, Inv

LEMMA ReaderEndsKeeps == ASSUME Inv, NEW s \in Sockets, ReaderEnds(s) PROVE Inv'
<1>1. GoodTransport(transport')
  BY Zenon, GoodReaderEnded DEF ReaderEnds, Inv
<1>2. Good(conn') /\ conn'.waking = conn.waking
  BY GoodTransportEnded, StatusSet DEF ReaderEnds, Inv
<1>3. conn'.status = "Connected" => transport'.handle # NoSocket
  <2>1. CASE ReportsReaderEnd(transport, s)
    BY <2>1, GoodTransportEnded DEF ReaderEnds, Inv
  <2>2. CASE ~ReportsReaderEnd(transport, s)
    BY Zenon, <2>2, GoodReaderEnded DEF ReaderEnds, Inv, ConnectedHasSocket
  <2> QED
    BY Zenon, <2>1, <2>2
<1> QED
  BY <1>1, <1>2, <1>3, RebuiltSameTasks DEF ReaderEnds, Inv, Kept

LEMMA WriterEndsKeeps == ASSUME Inv, NEW s \in Sockets, WriterEnds(s) PROVE Inv'
<1>1. Kept(conn', transport', conn.waking)
  BY GoodWriterEnded, GoodTransportEnded, StatusSet DEF WriterEnds, Inv, Kept
<1> QED
  BY Zenon, <1>1, RebuiltSameTasks DEF WriterEnds, Inv

LEMMA TransportFailsKeeps == ASSUME Inv, TransportFails PROVE Inv'
<1>1. Kept(conn', transport', conn.waking)
  BY GoodDisconnect, GoodTransportEnded, StatusSet DEF TransportFails, Inv, Kept
<1> QED
  BY Zenon, <1>1, RebuiltSameTasks DEF TransportFails, Inv

LEMMA CooldownEndsKeeps == ASSUME Inv, CooldownEnds PROVE Inv'
<1>1. Kept(conn', transport', conn.waking)
  BY Zenon, GoodClearRetryDeadline, StatusKept DEF CooldownEnds, Inv, Kept, ConnectedHasSocket
<1> QED
  BY Zenon, <1>1, RebuiltSameTasks DEF CooldownEnds, Inv

LEMMA StepInv == Inv /\ [Next]_vars => Inv'
<1> SUFFICES ASSUME Inv, [Next]_vars PROVE Inv'
  BY Zenon
<1>1. CASE Tasks
  BY <1>1, DrainKeeps, RetryConnectKeeps, DrainerConnectedKeeps, DrainerConnectFailedKeeps,
     InitialKeeps, WakeReconnectKeeps, WakeConnectedKeeps, WakeConnectFailedKeeps DEF Tasks
<1>2. CASE Calls
  BY <1>2, WakeKeeps, SendRawKeeps, CloseRequestedKeeps, CloseSubKeeps, SigningKeeps DEF Calls
<1>3. CASE Network
  BY Zenon, <1>3, ReceiveKeeps, LoseNetworkKeeps, ReaderEndsKeeps, WriterEndsKeeps,
     TransportFailsKeeps, CooldownEndsKeeps DEF Network
<1>4. CASE UNCHANGED vars
  BY Zenon, <1>4 DEF vars, Inv, ConnectedHasSocket, WakeFlagExact
<1> QED
  BY Zenon, <1>1, <1>2, <1>3, <1>4 DEF Next

LEMMA Invariance == Spec => []Inv
<1> QED
  BY InitInv, StepInv, PTL DEF Spec

-----------------------------------------------------------------------------
\* Every variable keeps its type; in particular backoff_attempts stays within
\* what schedule_reconnect_backoff needs, whatever the relay and the callers do.
THEOREM TypeCorrect == Spec => []TypeOK
<1>1. Inv => TypeOK
  BY Zenon DEF Inv, Good, GoodTransport, TypeOK
<1> QED
  BY <1>1, Invariance, PTL

\* has_recovery_work never misses or invents work, for any number of
\* subscriptions: active_subs, active_reqs and pending_frames agree.
THEOREM RecoveryWorkIsExact == Spec => []RecoveryWorkExact
<1>1. Inv => RecoveryWorkExact
  BY Zenon DEF Inv, Good, SubsMatch, RecoveryWorkExact
<1> QED
  BY <1>1, Invariance, PTL

\* A connection that says Connected has a socket, for both transports and any
\* number of sockets that open and die concurrently.
THEOREM ConnectedMeansSocket == Spec => []ConnectedHasSocket
<1>1. Inv => ConnectedHasSocket
  BY Zenon DEF Inv
<1> QED
  BY <1>1, Invariance, PTL

\* The status shown upstream is the status the connection is in.
THEOREM StatusIsTold == Spec => []StatusTold
<1>1. Inv => StatusTold
  BY Zenon DEF Inv, Good, StatusTold
<1> QED
  BY <1>1, Invariance, PTL

\* Shadow copies exist only during an undecided AUTH handshake, one per frame.
THEOREM ShadowBounded == Spec => []ShadowOnlyInHandshake
<1>1. Inv => ShadowOnlyInHandshake
  BY Zenon DEF Inv, Good, NoDuplicate, ShadowOnlyInHandshake
<1> QED
  BY <1>1, Invariance, PTL

\* An intentional close leaves the relay reliable while it stays closed.
THEOREM ClosedStaysReliable == Spec => []ClosedIsReliable
<1>1. Inv => ClosedIsReliable
  BY Zenon DEF Inv, Good, ClosedIsReliable
<1> QED
  BY <1>1, Invariance, PTL

\* wake_in_flight is set exactly while a wake-up is under way.
THEOREM WakeFlagIsExact == Spec => []WakeFlagExact
<1>1. Inv => WakeFlagExact
  BY Zenon DEF Inv
<1> QED
  BY <1>1, Invariance, PTL

\* With the native transport the sockets and the connection agree: Connected
\* has its socket, and no open socket is left behind that nobody will close.
THEOREM NativeSocketsAccounted == Native => (Spec => []SocketsAccounted)
<1> SUFFICES ASSUME Native PROVE Spec => []SocketsAccounted
  BY Zenon
<1>1. Inv => SocketsAccounted
  BY Zenon DEF Inv, GoodTransport, NoneLeaked, NoLeakedSocket, SocketsAccounted
<1> QED
  BY <1>1, Invariance, PTL

\* In the browser the end of a replaced socket disturbs neither its replacement
\* nor the status of the connection.
THEOREM GlooStaleEndHarmless == ~Native => (Spec => StaleEndHarmless)
<1> SUFFICES ASSUME ~Native PROVE Spec => StaleEndHarmless
  BY Zenon
<1> DEFINE Harmless ==
      \A s \in Sockets :
          (ReaderEnds(s) \/ WriterEnds(s)) /\ s # transport.handle =>
              transport'.handle = transport.handle /\ conn'.status = conn.status
<1>1. Inv => Harmless
  <2> SUFFICES ASSUME Inv, NEW s \in Sockets, ReaderEnds(s) \/ WriterEnds(s),
                      s # transport.handle
               PROVE  transport'.handle = transport.handle /\ conn'.status = conn.status
    BY Zenon
  <2>1. ~WriterEnds(s)
    BY Zenon DEF WriterEnds, WriterMayEnd, Inv, GoodTransport
  <2>2. ~ReportsReaderEnd(transport, s)
    BY Zenon DEF ReportsReaderEnd
  <2> QED
    BY <2>1, <2>2, GoodReaderEnded DEF ReaderEnds, Inv
<1>2. Inv /\ [Next]_vars => [Harmless]_vars
  BY Zenon, <1>1
<1> HIDE DEF Harmless
<1>3. Spec => [][Harmless]_vars
  BY <1>2, Invariance, PTL DEF Spec
<1> QED
  BY Zenon, <1>3 DEF StaleEndHarmless, Harmless
=============================================================================
