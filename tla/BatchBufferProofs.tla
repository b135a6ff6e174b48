------------------------- MODULE BatchBufferProofs -------------------------
(***************************************************************************)
(* Batching loses no frame, for every number of subscriptions and every    *)
(* threshold, as long as each frame is shorter than the threshold.         *)
(***************************************************************************)
EXTENDS BatchBuffer, TLAPS

\* add_frame and flush_sub keep every buffer well formed and below the
\* threshold, whatever the frame sizes.
THEOREM TypeCorrect == Spec => []TypeOK
<1>1. Init => TypeOK
  BY BatchAssumption DEF Init, TypeOK
<1>2. TypeOK /\ [Next]_vars => TypeOK'
  <2> SUFFICES ASSUME TypeOK, [Next]_vars PROVE TypeOK'
    OBVIOUS
  <2> USE BatchAssumption DEF TypeOK
  <2>1. ASSUME NEW s \in Subs, AddMessage(s) PROVE TypeOK'
    <3>1. PICK size \in Sizes :
            LET f == [n |-> accepted[s] + 1, size |-> size]
            IN  /\ accepted' = [accepted EXCEPT ![s] = @ + 1]
                /\ entries' = entries \union {s}
                /\ buf' = [buf EXCEPT ![s] = IF Full(s, f) THEN <<>> ELSE Extended(s, f)]
                /\ len' = [len EXCEPT ![s] = IF Full(s, f) THEN 0 ELSE ExtendedLen(s, f)]
                /\ age' = [age EXCEPT ![s] = IF buf[s] = <<>> \/ Overflows(s, f) THEN 0 ELSE @]
                /\ sent' = [sent EXCEPT ![s] = @ \o Returned(s, f)]
      BY <2>1 DEF AddMessage
    <3> DEFINE f == [n |-> accepted[s] + 1, size |-> size]
    <3>2. f \in Frame /\ f.size = size /\ size \in Nat
      BY DEF Frame
    <3> HIDE DEF f
    <3>3. Extended(s, f) \in Seq(Frame) /\ Returned(s, f) \in Seq(Frame)
      BY <3>2 DEF Extended, Returned
    <3>4. ~Full(s, f) => ExtendedLen(s, f) \in 0..(Threshold - 1)
      BY <3>2 DEF Full, ExtendedLen
    <3>5. /\ buf' \in [Subs -> Seq(Frame)]
          /\ sent' \in [Subs -> Seq(Frame)]
      BY <3>1, <3>3 DEF f
    <3>6. len' \in [Subs -> 0..(Threshold - 1)]
      BY <3>1, <3>4 DEF f
    <3>7. age' \in [Subs -> 0..Timeout] /\ accepted' \in [Subs -> Nat] /\ entries' \subseteq Subs
      BY <3>1
    <3> QED BY <3>5, <3>6, <3>7
  <2>2. ASSUME NEW S \in SUBSET Subs, Flush(S) PROVE TypeOK'
    BY <2>2 DEF Flush
  <2>3. CASE \E s \in Subs : FlushSub(s)
    BY <2>2, <2>3 DEF FlushSub
  <2>4. CASE DrainTimedOut
    BY <2>2, <2>4 DEF DrainTimedOut
  <2>5. CASE Tick
    BY <2>5 DEF Tick
  <2>6. CASE UNCHANGED vars
    BY <2>6 DEF vars
  <2> QED BY <2>1, <2>3, <2>4, <2>5, <2>6 DEF Next
<1> QED BY <1>1, <1>2, PTL DEF Spec

-----------------------------------------------------------------------------
\* In terms of the sequence of frames that left or wait, every step either keeps
\* it or appends the frame that arrived.
LEMMA AppendAfterConcat ==
    ASSUME NEW a \in Seq(Frame), NEW b \in Seq(Frame), NEW x \in Frame
    PROVE  /\ (a \o b) \o <<x>> = Append(a \o b, x)
           /\ a \o Append(b, x) = Append(a \o b, x)
           /\ (a \o Append(b, x)) \o <<>> = a \o Append(b, x)
           /\ a \o <<>> = a
  OBVIOUS

\* The property of the sequence that Conserved states.
Numbered(q, n) == Len(q) = n /\ \A i \in 1..n : q[i].n = i

LEMMA NumberedAppend ==
    ASSUME NEW q \in Seq(Frame), NEW n \in Nat, Numbered(q, n),
           NEW f \in Frame, f.n = n + 1
    PROVE  Numbered(Append(q, f), n + 1)
  BY DEF Numbered

\* Batching neither loses nor duplicates nor reorders a frame when every frame is
\* shorter than BATCH_SIZE_THRESHOLD (add_frame then never has to return both
\* the pending batch and the frame that displaced it).
THEOREM NoFrameLost ==
    ASSUME \A size \in Sizes : size < Threshold
    PROVE  Spec => []Conserved
<1> DEFINE Inv == \A s \in Subs : Numbered(Outcome(s), accepted[s])
<1>1. Init => Inv
  <2> SUFFICES ASSUME Init, NEW s \in Subs PROVE Numbered(Outcome(s), accepted[s])
    OBVIOUS
  <2>1. Outcome(s) = <<>> /\ accepted[s] = 0
    BY DEF Init, Outcome
  <2> QED BY <2>1 DEF Numbered
<1>2. TypeOK /\ Inv /\ [Next]_vars => Inv'
  <2> SUFFICES ASSUME TypeOK, Inv, [Next]_vars PROVE Inv'
    OBVIOUS
  <2> USE BatchAssumption
  <2>1. ASSUME NEW s \in Subs, AddMessage(s) PROVE Inv'
    <3>1. PICK size \in Sizes :
            LET f == [n |-> accepted[s] + 1, size |-> size]
            IN  /\ accepted' = [accepted EXCEPT ![s] = @ + 1]
                /\ buf' = [buf EXCEPT ![s] = IF Full(s, f) THEN <<>> ELSE Extended(s, f)]
                /\ sent' = [sent EXCEPT ![s] = @ \o Returned(s, f)]
      BY <2>1 DEF AddMessage
    <3> DEFINE f == [n |-> accepted[s] + 1, size |-> size]
    <3>2. f \in Frame /\ f.n = accepted[s] + 1 /\ f.size \in Nat /\ f.size < Threshold
      BY DEF Frame, TypeOK
    <3>3. buf'[s] = (IF Full(s, f) THEN <<>> ELSE Extended(s, f)) /\ sent'[s] = sent[s] \o Returned(s, f)
      BY <3>1 DEF TypeOK
    <3> HIDE DEF f
    <3>4. sent'[s] \o buf'[s] = Append(sent[s] \o buf[s], f)
      <4> buf[s] \in Seq(Frame) /\ sent[s] \in Seq(Frame)
        BY DEF TypeOK
      <4> DEFINE a == sent[s]
                 b == buf[s]
      <4>0. /\ (a \o b) \o <<f>> = Append(a \o b, f)
            /\ a \o Append(b, f) = Append(a \o b, f)
            /\ (a \o Append(b, f)) \o <<>> = a \o Append(b, f)
            /\ a \o <<>> = a
        BY Zenon, <3>2, AppendAfterConcat
      <4>1. CASE Overflows(s, f)
        <5>1. ~Full(s, f)
          BY <4>1, <3>2 DEF Full, ExtendedLen
        <5>2. buf'[s] = <<f>> /\ sent'[s] = a \o b
          BY <5>1, <4>1, <3>3 DEF Extended, Returned
        <5> QED BY <5>2, <4>0
      <4>2. CASE ~Overflows(s, f) /\ Full(s, f)
        <5>1. buf'[s] = <<>> /\ sent'[s] = a \o Append(b, f)
          BY <4>2, <3>3 DEF Extended, Returned
        <5> QED BY <5>1, <4>0
      <4>3. CASE ~Overflows(s, f) /\ ~Full(s, f)
        <5>1. buf'[s] = Append(b, f) /\ sent'[s] = a \o <<>>
          BY <4>3, <3>3 DEF Extended, Returned
        <5> QED BY <5>1, <4>0
      <4> QED BY <4>1, <4>2, <4>3
    <3>5. Numbered(Outcome(s), accepted[s])'
      <4>1. Outcome(s) \in Seq(Frame) /\ accepted[s] \in Nat
        BY DEF Outcome, TypeOK
      <4>2. Numbered(Append(Outcome(s), f), accepted[s] + 1)
        BY <3>2, <4>1, NumberedAppend
      <4>3. accepted'[s] = accepted[s] + 1
        BY <3>1 DEF TypeOK
      <4> QED BY <3>4, <4>2, <4>3 DEF Outcome
    <3>6. ASSUME NEW t \in Subs, t # s PROVE Numbered(Outcome(t), accepted[t])'
      BY <3>1, <3>6 DEF Outcome, TypeOK, Numbered
    <3> QED BY <3>5, <3>6
  <2>2. ASSUME NEW S \in SUBSET Subs, Flush(S) PROVE Inv'
    <3> SUFFICES ASSUME NEW s \in Subs PROVE Numbered(Outcome(s), accepted[s])'
      OBVIOUS
    <3>1. accepted' = accepted
      BY <2>2 DEF Flush
    <3>2. Outcome(s)' = Outcome(s)
      <4>1. \/ buf'[s] = buf[s] /\ sent'[s] = sent[s]
            \/ buf'[s] = <<>> /\ sent'[s] = sent[s] \o buf[s]
        BY <2>2 DEF Flush
      <4>2. (sent[s] \o buf[s]) \o <<>> = sent[s] \o buf[s]
        BY DEF TypeOK
      <4> QED BY <4>1, <4>2 DEF Outcome
    <3> QED BY <3>1, <3>2
  <2>3. CASE \E s \in Subs : FlushSub(s)
    BY <2>2, <2>3 DEF FlushSub
  <2>4. CASE DrainTimedOut
    BY <2>2, <2>4 DEF DrainTimedOut, TypeOK
  <2>5. CASE Tick \/ UNCHANGED vars
    BY <2>5 DEF Tick, vars, Outcome, Numbered
  <2> QED BY <2>1, <2>3, <2>4, <2>5 DEF Next
<1>3. TypeOK /\ Inv => Conserved
  BY DEF Conserved, Inv, Numbered
<1> QED BY <1>1, <1>2, <1>3, TypeCorrect, PTL DEF Spec
=============================================================================
