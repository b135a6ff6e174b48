-------------------------- MODULE RelayTransport ---------------------------
(***************************************************************************)
(* The transport of one relay url, as operators on a record t: the         *)
(* implementations of the RelayTransport trait in the browser              *)
(* (crates/core/src/transport/gloo.rs) and on native platforms             *)
(* (crates/native-ffi/src/transport.rs).                                   *)
(*                                                                         *)
(*   t.handle   the socket in `connections[url]`, or NoSocket              *)
(*   t.open     sockets whose network connection is up                     *)
(*   t.readers  sockets whose reader task is running                       *)
(*   t.writers  sockets whose writer task is running (native only)         *)
(*   t.dropped  sockets whose WsHandle was dropped: their reader and       *)
(*              writer end at their next poll (native only)                *)
(*   t.broken   sockets with a write under way that will fail (native)     *)
(*                                                                         *)
(* A status is reported by calling the connection's callback in the same   *)
(* step, so reporting it is part of the action that uses these operators.  *)
(***************************************************************************)
EXTENDS Naturals

CONSTANTS
    Native,      \* TRUE: NativeTransport, FALSE: GlooTransport
    MaxSockets   \* bound: sockets that exist at the same time

ASSUME TransportAssumption == Native \in BOOLEAN /\ MaxSockets \in Nat \ {0}

Sockets == 1..MaxSockets
NoSocket == 0

Transport ==
    [handle : Sockets \union {NoSocket}, open : SUBSET Sockets, readers : SUBSET Sockets,
     writers : SUBSET Sockets, dropped : SUBSET Sockets, broken : SUBSET Sockets]

NoTransport ==
    [handle |-> NoSocket, open |-> {}, readers |-> {}, writers |-> {},
     dropped |-> {}, broken |-> {}]

Unused(t) == Sockets \ (t.open \union t.readers \union t.writers \union {t.handle})

\* The socket that a connect opens next: the first that is not in use (they are
\* interchangeable).  A reader that was told to end does so at once, before the
\* network can answer; a writer may sit in a write that has yet to fail.
NextSocket(t) ==
    {s \in Unused(t) : t.readers \intersect t.dropped = {} /\ \A r \in Unused(t) : s <= r}

-----------------------------------------------------------------------------
\* disconnect: the handle is removed; gloo closes the socket and aborts its
\* reader, native tells both tasks to end.
Disconnect(t) ==
    IF t.handle = NoSocket THEN t
    ELSE IF Native
         THEN [t EXCEPT !.handle = NoSocket, !.dropped = @ \union {t.handle}]
         ELSE [t EXCEPT !.handle = NoSocket, !.open = @ \ {t.handle}, !.readers = @ \ {t.handle}]

\* The part of connect before its first await: gloo tears down the socket that
\* is in place, native leaves it until the new one has opened.
ConnectStart(t) == IF Native THEN t ELSE Disconnect(t)

SocketOpenedKeepingOld(t, s) ==
    [t EXCEPT !.handle = s, !.open = @ \union {s}, !.readers = @ \union {s},
              !.writers = IF Native THEN @ \union {s} ELSE @]

\* The part of connect after socket s has opened: it takes the place of the
\* handle, whatever that is by then.
SocketOpened(t, s) ==
    [t EXCEPT !.handle = s,
              !.open = @ \union {s},
              !.readers = @ \union {s},
              !.writers = IF Native THEN @ \union {s} ELSE @,
              !.dropped = IF Native /\ t.handle # NoSocket THEN @ \union {t.handle} ELSE @]

\* send: gloo asks the socket, native only whether the writer still listens.
CanSend(t) ==
    /\ t.handle # NoSocket
    /\ t.handle \in (IF Native THEN t.writers ELSE t.open)

Transmit(t) == IF t.handle \in t.open THEN t ELSE [t EXCEPT !.broken = @ \union {t.handle}]

\* The network, or the relay, ends the connection of socket s.
NetworkLost(t, s) == [t EXCEPT !.open = @ \ {s}]

\* A native socket is closed once neither of its tasks holds a half of it.
Released(t, s) ==
    IF s \in t.readers \union t.writers THEN t
    ELSE [t EXCEPT !.open = @ \ {s}, !.dropped = @ \ {s}, !.broken = @ \ {s}]

ReaderMayEnd(t, s) == s \in t.readers /\ (s \notin t.open \/ s \in t.dropped)

WriterMayEnd(t, s) == s \in t.writers /\ (s \in t.broken \/ s \in t.dropped)

ReaderEndedUnchecked(t, s) ==
    LET u == [t EXCEPT !.readers = @ \ {s}, !.handle = NoSocket]
    IN  IF Native THEN Released(u, s) ELSE u

\* The reader of s ends.  gloo: the handle goes only if it is still socket s.
\* native: the handle stays.
ReaderEnded(t, s) ==
    LET u == [t EXCEPT !.readers = @ \ {s}]
    IN  IF Native THEN Released(u, s)
        ELSE IF t.handle = s THEN [u EXCEPT !.handle = NoSocket] ELSE u

\* Whether the end of the reader of s is reported as TransportStatus::Closed.
ReportsReaderEnd(t, s) == Native \/ t.handle = s

\* The (native) writer of s ends: `connections.remove(url)` drops whatever
\* handle is there, and Closed is reported.
WriterEnded(t, s) ==
    Released([t EXCEPT !.writers = @ \ {s}, !.handle = NoSocket,
                       !.dropped = @ \union ({t.handle} \ {NoSocket})], s)
=============================================================================
