---------------------------- MODULE BatchBuffer ----------------------------
(***************************************************************************)
(* Per-subscription frame batching: crates/core/src/worker/batch_buffer.rs.*)
(* The frames of a subscription are concatenated into one payload, which   *)
(* is flushed by size (on add), by age (the sweeper of the two workers     *)
(* that own a BatchBufferManager) or by a control frame of the             *)
(* subscription.                                                           *)
(*                                                                         *)
(* A frame is a record [n, size]: its position among the frames its        *)
(* subscription was given, and its encoded length.  The clock is kept      *)
(* relative: age[s] is now - first_at of the buffer of s, which the code   *)
(* only compares with BATCH_TIMEOUT_MS, so it saturates there.             *)
(***************************************************************************)
EXTENDS Naturals, Sequences

CONSTANTS
    Subs,        \* subscription ids
    Sizes,       \* encoded frame lengths
    Threshold,   \* BATCH_SIZE_THRESHOLD
    Timeout,     \* BATCH_TIMEOUT_MS
    MaxFrames    \* bound: frames accepted per subscription

ASSUME BatchAssumption ==
    /\ Sizes \subseteq Nat \ {0}
    /\ Threshold \in Nat \ {0}
    /\ Timeout \in Nat
    /\ MaxFrames \in Nat

VARIABLES
    entries,     \* subscriptions that have a BatchBuffer in `buffers`
    buf,         \* buf[s]: the frames concatenated for s and not yet flushed
    len,         \* len[s]: buf.len(), the encoded length of buf[s]
    age,         \* age[s]: time since first_at, saturated at Timeout
    sent,        \* sent[s]: the frames of s handed to the channel, in order
    accepted     \* accepted[s]: number of frames add_message was given for s

vars == <<entries, buf, len, age, sent, accepted>>

Frame == [n : Nat, size : Sizes]

\* Between two calls every buffer is shorter than the threshold: add_frame
\* flushes a batch as soon as it reaches it.
TypeOK ==
    /\ entries \subseteq Subs
    /\ buf \in [Subs -> Seq(Frame)]
    /\ len \in [Subs -> 0..(Threshold - 1)]
    /\ age \in [Subs -> 0..Timeout]
    /\ sent \in [Subs -> Seq(Frame)]
    /\ accepted \in [Subs -> Nat]

Init ==
    /\ entries = {}
    /\ buf = [s \in Subs |-> <<>>]
    /\ len = [s \in Subs |-> 0]
    /\ age = [s \in Subs |-> 0]
    /\ sent = [s \in Subs |-> <<>>]
    /\ accepted = [s \in Subs |-> 0]

-----------------------------------------------------------------------------
\* Variants of the definitions below, each with one plausible slip.
ExtendedWithoutTake(s, f) == Append(buf[s], f)
TimedOutWhenEmpty(s) == buf[s] = <<>> /\ age[s] >= Timeout

-----------------------------------------------------------------------------
\* add_frame: a batch that the frame would push over the threshold is taken out
\* as `pending`, and the frame then starts a new batch or extends the old one.
Overflows(s, f) == buf[s] # <<>> /\ len[s] + f.size > Threshold

Extended(s, f) == IF Overflows(s, f) THEN <<f>> ELSE Append(buf[s], f)

ExtendedLen(s, f) == IF Overflows(s, f) THEN f.size ELSE len[s] + f.size

\* A batch that has reached the threshold is returned in place of `pending`.
Full(s, f) == ExtendedLen(s, f) >= Threshold

Returned(s, f) ==
    IF Full(s, f) THEN Extended(s, f)
    ELSE IF Overflows(s, f) THEN buf[s]
    ELSE <<>>

AddMessage(s) ==
    \E size \in Sizes :
        LET f == [n |-> accepted[s] + 1, size |-> size]
        IN  /\ accepted[s] < MaxFrames
            /\ accepted' = [accepted EXCEPT ![s] = @ + 1]
            /\ entries' = entries \union {s}
            /\ buf' = [buf EXCEPT ![s] = IF Full(s, f) THEN <<>> ELSE Extended(s, f)]
            /\ len' = [len EXCEPT ![s] = IF Full(s, f) THEN 0 ELSE ExtendedLen(s, f)]
            /\ age' = [age EXCEPT ![s] = IF buf[s] = <<>> \/ Overflows(s, f) THEN 0 ELSE @]
            /\ sent' = [sent EXCEPT ![s] = @ \o Returned(s, f)]

\* flush_sub for every member of S: a buffer that holds a payload is sent and
\* its entry removed; an empty buffer keeps its entry.
Flush(S) ==
    LET live == {s \in S \intersect entries : buf[s] # <<>>}
    IN  /\ entries' = entries \ live
        /\ buf' = [s \in Subs |-> IF s \in live THEN <<>> ELSE buf[s]]
        /\ len' = [s \in Subs |-> IF s \in live THEN 0 ELSE len[s]]
        /\ sent' = [s \in Subs |-> IF s \in live THEN sent[s] \o buf[s] ELSE sent[s]]
        /\ UNCHANGED <<age, accepted>>

FlushSub(s) == Flush({s})

TimedOut(s) == buf[s] # <<>> /\ age[s] >= Timeout

\* drain_timed_out, the sweeper's step.
DrainTimedOut == Flush({s \in entries : TimedOut(s)})

Tick ==
    /\ age' = [s \in Subs |-> IF age[s] < Timeout THEN age[s] + 1 ELSE age[s]]
    /\ UNCHANGED <<entries, buf, len, sent, accepted>>

Next ==
    \/ \E s \in Subs : AddMessage(s) \/ FlushSub(s)
    \/ DrainTimedOut
    \/ Tick

Spec == Init /\ [][Next]_vars

\* Time passes and the sweeper runs every few milliseconds; nothing obliges a
\* relay to send more frames or a control frame.
FairSpec == Spec /\ WF_vars(Tick) /\ WF_vars(DrainTimedOut)

-----------------------------------------------------------------------------
\* The frames of s so far, in the order they left or wait to leave.
Outcome(s) == sent[s] \o buf[s]

\* No frame is lost, duplicated or reordered by batching: what was sent followed
\* by what is buffered is exactly what add_message was given, in its order.
\* It is what both callers of add_message rely on, and the code provides it for
\* frames shorter than the threshold.
Conserved ==
    \A s \in Subs :
        /\ Len(Outcome(s)) = accepted[s]
        /\ \A i \in 1..accepted[s] : Outcome(s)[i].n = i

\* A buffered frame never waits for ever: the sweeper of the connections worker
\* ("so events never sit buffered forever") drains it once it is old enough,
\* even if more frames keep arriving.
Buffered(s, k) == \E i \in 1..Len(buf[s]) : buf[s][i].n = k
EventuallyFlushed == \A s \in Subs : \A k \in 1..MaxFrames : Buffered(s, k) ~> ~Buffered(s, k)
=============================================================================
