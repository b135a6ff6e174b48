--------------------------- MODULE PipelineProofs ---------------------------
(***************************************************************************)
(* What the pipelines of a subscription guarantee, for every number of     *)
(* pages, every set of pipes and every bound: an event is output once      *)
(* between them, an id that is remembered is accounted for, with a signer  *)
(* no own message is output or cached as ciphertext, a proof is reported   *)
(* once, the counts come to what was told, and the limiters hold no more   *)
(* than they may.                                                          *)
(*                                                                         *)
(* A step of a line is one of a few kinds (it takes an event, passes it    *)
(* on, is done with it, or fails), whatever the pipe; the invariants are   *)
(* proved of the kinds.                                                    *)
(***************************************************************************)
EXTENDS Pipeline, FiniteSetTheorems, TLAPS

Outputs == [type : {"event"}, ev : Events, content : Contents]
             \union [type : {"proofs"}, proofs : SUBSET Secrets]

Types ==
    /\ seen \subseteq Events /\ settled \subseteq Events /\ full \in BOOLEAN
    /\ inbox \in [Lines -> Seq(Messages)]
    /\ work \in [Lines -> Work \union {Idle}]
    /\ saved \subseteq [ev : Events, content : Contents]
    /\ out \in [Lines -> Seq(Outputs)]

Busy(l) == work[l] # Idle
IsEvent(o) == o.type = "event"
Busies == {l \in Lines : Busy(l)}

\* While no id was turned away: the ids are those in hand and those settled.
Accounts ==
    /\ \A e : e \in seen <=> (e \in settled \/ \E l \in Lines : Busy(l) /\ work[l].ev = e)
    /\ \A l \in Lines : Busy(l) => work[l].ev \notin settled
    /\ \A l, m \in Lines : (l # m /\ Busy(l) /\ Busy(m)) => work[l].ev # work[m].ev
\* What was output is settled.
Settles == \A l \in Lines : \A i \in 1..Len(out[l]) : IsEvent(out[l][i]) => out[l][i].ev \in settled
Once ==
    \A l, m \in Lines : \A i \in 1..Len(out[l]) : \A j \in 1..Len(out[m]) :
        (IsEvent(out[l][i]) /\ IsEvent(out[m][j]) /\ out[l][i].ev = out[m][j].ev) => (l = m /\ i = j)
Inv == Types /\ (~full => Accounts /\ Settles /\ Once)

\* The kinds of step a line l takes, by what they do to the ids and outputs.
Quiet == UNCHANGED <<seen, work, settled, full, out, saved>> /\ inbox' \in [Lines -> Seq(Messages)]
Takes(l) ==
    /\ ~Busy(l) /\ inbox' \in [Lines -> Seq(Messages)] /\ UNCHANGED <<out, saved>>
    /\ \E e \in Events \ seen :
         /\ Remember(e)
         /\ \/ settled' = settled \union {e} /\ UNCHANGED work
            \/ /\ UNCHANGED settled
               /\ \E w \in Work : w.ev = e /\ work' = [work EXCEPT ![l] = w]
Passes(l) ==
    /\ Busy(l) /\ UNCHANGED <<seen, settled, full, inbox, out>>
    /\ \E w \in Work : w.ev = work[l].ev /\ work' = [work EXCEPT ![l] = w]
    /\ saved' \subseteq [ev : Events, content : Contents]
Ends(l) ==
    /\ Busy(l) /\ Done(l) /\ UNCHANGED <<seen, full, inbox, saved>>
    /\ \/ UNCHANGED out
       \/ \E o \in Outputs : Emit(l, o) /\ (IsEvent(o) => o.ev = work[l].ev)
Fails(l) == Busy(l) /\ Failed(l) /\ UNCHANGED <<full, inbox, out, saved>>

\* The initial state satisfies the invariant.
LEMMA InitInv == Init => Inv
  <1> SUFFICES ASSUME Init PROVE Inv
    BY Zenon
  <1>1. \A l \in Lines : work[l] = Idle /\ out[l] = <<>> /\ inbox[l] = <<>>
    BY Zenon DEF Init
  <1>2. Types
    <2>1. inbox \in [Lines -> Seq(Messages)] /\ out \in [Lines -> Seq(Outputs)]
      BY <1>1 DEF Init
    <2>2. work \in [Lines -> Work \union {Idle}]
      BY Zenon DEF Init
    <2> QED BY Zenon, <2>1, <2>2 DEF Types, Init
  <1>3. Accounts
    BY Zenon, <1>1 DEF Accounts, Busy, Init
  <1>4. Settles /\ Once
    BY <1>1 DEF Settles, Once
  <1> QED BY Zenon, <1>2, <1>3, <1>4 DEF Inv

\* Passing a message on keeps its event in hand.
LEMMA PassIsPass ==
  ASSUME Types, NEW l \in Lines, NEW c \in Contents, Busy(l), Pass(l, c)
  PROVE  /\ UNCHANGED settled
         /\ \E w \in Work : w.ev = work[l].ev /\ work' = [work EXCEPT ![l] = w]
  <1>1. work[l] \in Work
    BY Zenon DEF Types, Busy
  <1> DEFINE w == [form |-> work[l].form, ev |-> work[l].ev, content |-> c, at |-> work[l].at + 1]
  <1>2. w \in Work /\ w.ev = work[l].ev
    BY <1>1 DEF Work
  <1>3. work' = [work EXCEPT ![l] = w]
    BY Zenon DEF Pass, Types
  <1> QED BY Zenon, <1>2, <1>3 DEF Pass

\* A line in hand of an event holds a well-formed work record.
LEMMA BusyWork == ASSUME Types, NEW l \in Lines, Busy(l)
                  PROVE  work[l] \in Work /\ work[l].ev \in Events /\ work[l].content \in Contents
  BY Zenon DEF Types, Busy, Work

\* Taking a message off a line's inbox leaves messages there.
LEMMA TailInbox ==
  ASSUME Types, NEW l \in Lines, inbox[l] # <<>>, inbox' = [inbox EXCEPT ![l] = Tail(@)]
  PROVE  inbox' \in [Lines -> Seq(Messages)] /\ Head(inbox[l]) \in Messages
  <1> HIDE DEF Messages
  <1>1. inbox[l] \in Seq(Messages)
    BY Zenon DEF Types
  <1>2. Tail(inbox[l]) \in Seq(Messages) /\ Head(inbox[l]) \in Messages
    BY <1>1
  <1> QED BY Zenon, <1>2 DEF Types

\* Adding messages to a line's inbox, too.
LEMMA GrowInbox ==
  ASSUME Types, NEW l \in Lines, NEW s \in Seq(Messages), inbox' = [inbox EXCEPT ![l] = @ \o s]
  PROVE  inbox' \in [Lines -> Seq(Messages)]
  <1> HIDE DEF Messages
  <1>1. inbox[l] \in Seq(Messages)
    BY Zenon DEF Types
  <1>2. inbox[l] \o s \in Seq(Messages)
    BY <1>1
  <1> QED BY Zenon, <1>2 DEF Types

\* A message's parts.
LEMMA MessageParts ==
  ASSUME NEW m \in Messages, m.form \in {"raw", "cached", "broken"}
  PROVE  m.ev \in Events /\ m.content \in Contents
  BY DEF Messages, Message, Mark

\* A message has the parts it is made of.
LEMMA MessageMade ==
  ASSUME NEW f \in {"raw", "broken", "cached"}, NEW e \in Events, NEW c \in Contents
  PROVE  /\ Message(f, e, c) \in Messages
         /\ Message(f, e, c).form = f /\ Message(f, e, c).ev = e /\ Message(f, e, c).content = c
  <1>1. Message(f, e, c) \in Messages
    BY DEF Messages
  <1> QED BY Zenon, <1>1 DEF Message

\* What a relay sends is a message, and none of them from the cache.
Arriving == {Message("raw", e, "raw") : e \in Events}
              \union {Message("broken", e, "raw") : e \in Garbled} \union {Mark("eose")}
LEMMA ArrivingMessages ==
  ASSUME NEW m \in Arriving
  PROVE  m \in Messages /\ m.form # "cached" /\ (m.form = "eose" \/ m.content = "raw")
  <1>1. Garbled \subseteq Events /\ "raw" \in Contents
    BY Zenon, PipelineAssumption DEF Contents
  <1>2. CASE \E e \in Events : m = Message("raw", e, "raw")
    <2>1. PICK e \in Events : m = Message("raw", e, "raw")
      BY Zenon, <1>2
    <2>2. /\ Message("raw", e, "raw") \in Messages
          /\ Message("raw", e, "raw").form = "raw" /\ Message("raw", e, "raw").content = "raw"
      BY <1>1, MessageMade
    <2> QED BY Zenon, <2>1, <2>2
  <1>3. CASE \E e \in Garbled : m = Message("broken", e, "raw")
    <2>1. PICK e \in Garbled : m = Message("broken", e, "raw")
      BY Zenon, <1>3
    <2>2. /\ Message("broken", e, "raw") \in Messages
          /\ Message("broken", e, "raw").form = "broken" /\ Message("broken", e, "raw").content = "raw"
      BY <1>1, MessageMade
    <2> QED BY Zenon, <2>1, <2>2
  <1>4. CASE m = Mark("eose")
    <2>1. Mark("eose") \in Messages
      BY DEF Messages
    <2> QED BY Zenon, <1>4, <2>1 DEF Mark
  <1> QED BY Zenon, <1>2, <1>3, <1>4 DEF Arriving
LEMMA ArriveAdds ==
  ASSUME NEW l \in Lines, Arrive(l)
  PROVE  \E m \in Arriving : inbox' = [inbox EXCEPT ![l] = Append(@, m)]
  BY Zenon DEF Arrive, Arriving

\* What the cache answers with is an event and what was made of it.
LEMMA CachedParts ==
  ASSUME Types, NEW a \in saved \union {[ev |-> e, content |-> "clear"] : e \in Stored}
  PROVE  a.ev \in Events /\ a.content \in Contents
  <1>1. CASE a \in saved
    <2>1. a \in [ev : Events, content : Contents]
      BY Zenon, <1>1 DEF Types
    <2> QED BY Zenon, <2>1
  <1>2. CASE \E e \in Stored : a = [ev |-> e, content |-> "clear"]
    <2>1. Stored \subseteq Events /\ "clear" \in Contents
      BY Zenon, PipelineAssumption DEF Contents
    <2>2. PICK e \in Stored : a = [ev |-> e, content |-> "clear"]
      BY Zenon, <1>2
    <2>3. a.ev = e /\ a.content = "clear"
      BY Zenon, <2>2
    <2> QED BY Zenon, <2>1, <2>3
  <1> QED BY Zenon, <1>1, <1>2

\* What a line takes is an event it has not seen, or nothing happens.
LEMMA TakeKind ==
  ASSUME Types, NEW l \in Lines, Take(l)
  PROVE  Quiet \/ Takes(l)
  <1> DEFINE m == Head(inbox[l])
  <1>1. inbox' \in [Lines -> Seq(Messages)] /\ m \in Messages
    BY Zenon, TailInbox DEF Take
  <1>2. m.form \in {"raw", "cached", "broken"} /\ ~Busy(l) /\ UNCHANGED <<out, saved>>
    BY Zenon DEF Take, Busy
  <1>3. m.ev \in Events /\ m.content \in Contents
    BY Zenon, <1>1, <1>2, MessageParts
  <1>4. CASE m.ev \in seen
    BY Zenon, <1>1, <1>2, <1>4 DEF Take, Quiet
  <1>5. CASE m.ev \notin seen /\ m.form = "broken"
    BY Zenon, <1>1, <1>2, <1>3, <1>5 DEF Take, Takes
  <1>6. CASE m.ev \notin seen /\ m.form # "broken"
    <2> DEFINE w == [form |-> m.form, ev |-> m.ev, content |-> m.content, at |-> 1]
    <2>1. w \in Work /\ w.ev = m.ev
      BY <1>2, <1>3, <1>6 DEF Work
    <2>2. Remember(m.ev) /\ UNCHANGED settled /\ work' = [work EXCEPT ![l] = w]
      BY Zenon, <1>6 DEF Take
    <2> QED BY Zenon, <1>1, <1>2, <1>3, <1>6, <2>1, <2>2 DEF Takes
  <1> QED BY Zenon, <1>4, <1>5, <1>6

\* The marks and the arrivals leave ids, work and outputs alone.
LEMMA QuietKinds ==
  ASSUME Types, NEW l \in Lines,
         TakeEose(l) \/ TakeEoce(l) \/ Arrive(l) \/ CacheAnswers(l) \/ SignerTurns
  PROVE  Quiet
  <1>1. CASE TakeEose(l) \/ TakeEoce(l)
    BY Zenon, <1>1, TailInbox DEF TakeEose, TakeEoce, Quiet
  <1>2. CASE Arrive(l)
    <2>1. PICK m \in Messages : inbox' = [inbox EXCEPT ![l] = Append(@, m)]
      BY Zenon, <1>2, ArriveAdds, ArrivingMessages
    <2>2. inbox[l] \in Seq(Messages)
      BY Zenon DEF Types
    <2>3. Append(inbox[l], m) = inbox[l] \o <<m>> /\ <<m>> \in Seq(Messages)
      BY <2>2
    <2> QED BY Zenon, <1>2, <2>1, <2>3, GrowInbox DEF Arrive, Quiet, history
  <1>3. CASE CacheAnswers(l)
    <2>1. PICK a \in saved \union {[ev |-> e, content |-> "clear"] : e \in Stored} :
            LET form == IF a.content = "raw" THEN "raw" ELSE "cached" IN
              inbox' = [inbox EXCEPT ![l] = @ \o <<Message(form, a.ev, a.content), Mark("eoce")>>]
      BY Zenon, <1>3 DEF CacheAnswers
    <2>2. a.ev \in Events /\ a.content \in Contents
      BY Zenon, CachedParts
    <2> DEFINE s == <<Message(IF a.content = "raw" THEN "raw" ELSE "cached", a.ev, a.content), Mark("eoce")>>
    <2>3. s \in Seq(Messages)
      BY <2>2 DEF Messages
    <2> HIDE DEF s
    <2>4. inbox' = [inbox EXCEPT ![l] = @ \o s]
      BY Zenon, <2>1 DEF s
    <2> QED BY Zenon, <1>3, <2>3, <2>4, GrowInbox DEF CacheAnswers, Quiet, history
  <1>4. CASE SignerTurns
    BY Zenon, <1>4 DEF SignerTurns, Quiet, Types, history
  <1> QED BY Zenon, <1>1, <1>2, <1>3, <1>4

\* A pipe that passes the message on.
LEMMA PassKind ==
  ASSUME Types, NEW l \in Lines, NEW c \in Contents, Busy(l), Pass(l, c),
         UNCHANGED <<seen, full, inbox, out>>, saved' \subseteq [ev : Events, content : Contents]
  PROVE  Passes(l)
  BY Zenon, PassIsPass DEF Passes

\* What each pipe does with the message in hand: pass it on, end it or fail.
LEMMA PipeKinds ==
  ASSUME Types, NEW l \in Lines,
         \/ SkipForCached(l) \/ PastLast(l) \/ KindFilter(l) \/ NpubLimiter(l) \/ ChatLimiter(l)
         \/ MuteFilter(l) \/ Parse(l) \/ SaveToDb(l) \/ SerializeEvents(l) \/ Counter(l) \/ ProofVerification(l)
  PROVE  Passes(l) \/ Ends(l) \/ Fails(l)
  <1>1. CASE SkipForCached(l)
    BY Zenon, <1>1, BusyWork, PassKind DEF SkipForCached, Busy, Types
  <1>2. CASE PastLast(l)
    <2>1. Busy(l) /\ Done(l) /\ UNCHANGED <<seen, full, inbox, saved>>
      BY Zenon, <1>2 DEF PastLast, Busy
    <2>2. UNCHANGED out \/ Emit(l, EventOut(work[l]))
      BY Zenon, <1>2 DEF PastLast
    <2>3. EventOut(work[l]) \in Outputs /\ EventOut(work[l]).ev = work[l].ev
      BY Zenon, <2>1, BusyWork DEF EventOut, Outputs
    <2> QED BY Zenon, <2>1, <2>2, <2>3 DEF Ends
  <1>3. CASE KindFilter(l)
    <2>1. Busy(l) /\ UNCHANGED <<seen, full, inbox, out, saved>> /\ (Pass(l, work[l].content) \/ Done(l))
      BY Zenon, <1>3 DEF KindFilter, At, Busy
    <2> QED BY Zenon, <2>1, BusyWork, PassKind DEF Ends, Types
  <1>4. CASE NpubLimiter(l)
    <2>1. Busy(l) /\ UNCHANGED <<seen, full, inbox, out, saved>> /\ (Pass(l, work[l].content) \/ Done(l))
      BY Zenon, <1>4 DEF NpubLimiter, At, Busy, LetThrough, Hold
    <2> QED BY Zenon, <2>1, BusyWork, PassKind DEF Ends, Types
  <1>5. CASE ChatLimiter(l)
    <2>1. Busy(l) /\ UNCHANGED <<seen, full, inbox, out, saved>> /\ (Pass(l, work[l].content) \/ Done(l))
      BY Zenon, <1>5 DEF ChatLimiter, At, Busy, LetThrough, Hold
    <2> QED BY Zenon, <2>1, BusyWork, PassKind DEF Ends, Types
  <1>6. CASE MuteFilter(l)
    <2>1. Busy(l) /\ UNCHANGED <<seen, full, inbox, out, saved>> /\ (Pass(l, work[l].content) \/ Done(l))
      BY Zenon, <1>6 DEF MuteFilter, At, Busy
    <2> QED BY Zenon, <2>1, BusyWork, PassKind DEF Ends, Types
  <1>7. CASE Parse(l)
    <2>1. Busy(l) /\ UNCHANGED <<full, inbox, out, saved>>
      BY Zenon, <1>7 DEF Parse, At, Busy
    <2>2. \/ Failed(l)
          \/ UNCHANGED seen /\ (Done(l) \/ \E c \in Contents : Pass(l, c))
      BY Zenon, <1>7, <2>1, BusyWork DEF Parse
    <2> QED BY Zenon, <2>1, <2>2, BusyWork, PassKind DEF Ends, Fails, Types
  <1>8. CASE SaveToDb(l)
    <2>1. Busy(l) /\ UNCHANGED <<seen, full, inbox, out>> /\ Pass(l, work[l].content)
      BY Zenon, <1>8 DEF SaveToDb, At, Busy
    <2>2. saved' \subseteq [ev : Events, content : Contents]
      BY <1>8, <2>1, BusyWork DEF SaveToDb, Types
    <2> QED BY Zenon, <2>1, <2>2, BusyWork, PassKind
  <1>9. CASE SerializeEvents(l)
    <2>1. Busy(l) /\ UNCHANGED <<seen, full, inbox, saved>>
      BY Zenon, <1>9 DEF SerializeEvents, At, Busy
    <2>2. \/ Pass(l, work[l].content) /\ UNCHANGED out
          \/ Done(l) /\ (UNCHANGED out \/ Emit(l, EventOut(work[l])))
      BY Zenon, <1>9 DEF SerializeEvents
    <2>3. EventOut(work[l]) \in Outputs /\ EventOut(work[l]).ev = work[l].ev
      BY Zenon, <2>1, BusyWork DEF EventOut, Outputs
    <2> QED BY Zenon, <2>1, <2>2, <2>3, BusyWork, PassKind DEF Ends, Types
  <1>10. CASE Counter(l)
    BY Zenon, <1>10 DEF Counter, At, Busy, Ends
  <1>11. CASE ProofVerification(l)
    <2>1. Busy(l) /\ Done(l) /\ UNCHANGED <<seen, full, inbox, saved>>
      BY Zenon, <1>11 DEF ProofVerification, At, Busy
    <2> DEFINE o == [type |-> "proofs", proofs |-> NewSecrets(l, work[l].ev) \intersect ValidProofs]
    <2>2. UNCHANGED out \/ Emit(l, o)
      BY Zenon, <1>11 DEF ProofVerification
    <2>3. o \in Outputs /\ ~IsEvent(o)
      <3>1. NewSecrets(l, work[l].ev) \subseteq Secrets
        BY Zenon, <2>1, BusyWork, PipelineAssumption DEF NewSecrets
      <3> QED BY Zenon, <3>1 DEF Outputs, IsEvent
    <2> HIDE DEF o
    <2> QED BY Zenon, <2>1, <2>2, <2>3 DEF Ends
  <1> QED BY Zenon, <1>1, <1>2, <1>3, <1>4, <1>5, <1>6, <1>7, <1>8, <1>9, <1>10, <1>11

\* Every step is of one of the kinds.
LEMMA StepKinds ==
  ASSUME Types, [Next]_vars
  PROVE  Quiet \/ \E l \in Lines : Takes(l) \/ Passes(l) \/ Ends(l) \/ Fails(l)
  <1>1. CASE UNCHANGED vars
    BY Zenon, <1>1 DEF vars, history, Quiet, Types
  <1>2. CASE SignerTurns
    BY Zenon, <1>2 DEF SignerTurns, history, Quiet, Types
  <1>3. CASE \E l \in Lines : Arrive(l) \/ CacheAnswers(l) \/ Handle(l)
    BY Zenon, <1>3, QuietKinds, TakeKind, PipeKinds DEF Handle
  <1> QED BY Zenon, <1>1, <1>2, <1>3 DEF Next

-----------------------------------------------------------------------------
\* The kinds of step keep the types.
LEMMA TypesKept ==
  ASSUME Types, [Next]_vars
  PROVE  Types'
  <1>1. CASE Quiet
    BY Zenon, <1>1 DEF Quiet, Types
  <1>2. ASSUME NEW l \in Lines, Takes(l) PROVE Types'
    BY Zenon, <1>2 DEF Takes, Remember, Types
  <1>3. ASSUME NEW l \in Lines, Passes(l) PROVE Types'
    BY Zenon, <1>3 DEF Passes, Types
  <1>4. ASSUME NEW l \in Lines, Ends(l) PROVE Types'
    <2>1. work[l].ev \in Events
      BY Zenon, <1>4, BusyWork DEF Ends
    <2>2. out' \in [Lines -> Seq(Outputs)]
      <3> HIDE DEF Outputs
      <3>1. out[l] \in Seq(Outputs) /\ out \in [Lines -> Seq(Outputs)]
        BY Zenon DEF Types
      <3>2. \A o \in Outputs : Append(out[l], o) \in Seq(Outputs)
        BY <3>1
      <3> QED BY Zenon, <1>4, <3>1, <3>2 DEF Ends, Emit
    <2> QED BY Zenon, <1>4, <2>1, <2>2 DEF Ends, Done, Types
  <1>5. ASSUME NEW l \in Lines, Fails(l) PROVE Types'
    BY Zenon, <1>5 DEF Fails, Failed, Types
  <1> QED BY Zenon, <1>1, <1>2, <1>3, <1>4, <1>5, StepKinds

\* While no id was turned away, ids, work and outputs stay accounted for.
LEMMA AccountsKept ==
  ASSUME Inv, [Next]_vars, ~full'
  PROVE  Accounts' /\ Settles' /\ Once'
  <1> USE DEF Inv
  <1>t. Types /\ Types'
    BY Zenon, TypesKept
  <1>1. CASE Quiet
    BY <1>1 DEF Quiet, Accounts, Settles, Once, Busy
  <1>2. ASSUME NEW l \in Lines, Takes(l) PROVE Accounts' /\ Settles' /\ Once'
    <2>1. PICK e \in Events \ seen :
            /\ Remember(e)
            /\ \/ settled' = settled \union {e} /\ UNCHANGED work
               \/ /\ UNCHANGED settled
                  /\ \E w \in Work : w.ev = e /\ work' = [work EXCEPT ![l] = w]
      BY Zenon, <1>2 DEF Takes
    <2>2. seen' = seen \union {e} /\ ~full
      BY Zenon, <2>1 DEF Remember, Types
    <2>3. Accounts /\ Settles /\ Once /\ ~Busy(l) /\ UNCHANGED out
      BY Zenon, <1>2, <2>2 DEF Takes
    <2>4. CASE settled' = settled \union {e} /\ UNCHANGED work
      BY <2>2, <2>3, <2>4 DEF Accounts, Settles, Once, Busy
    <2>5. CASE UNCHANGED settled /\ \E w \in Work : w.ev = e /\ work' = [work EXCEPT ![l] = w]
      <3>1. PICK w \in Work : w.ev = e /\ work' = [work EXCEPT ![l] = w]
        BY Zenon, <2>5
      <3>2. w # Idle
        BY DEF Work, Idle
      <3>3. work'[l] = w /\ \A m \in Lines : m # l => work'[m] = work[m]
        BY Zenon, <3>1, <1>t DEF Types
      <3>4. \A m \in Lines : Busy(m)' <=> (m = l \/ Busy(m))
        BY Zenon, <3>2, <3>3, <2>3 DEF Busy
      <3>5. \A m \in Lines : Busy(m) => work[m].ev \in seen
        BY Zenon, <2>3 DEF Accounts
      <3>6. Accounts'
        BY <2>2, <2>3, <2>5, <3>1, <3>3, <3>4, <3>5 DEF Accounts
      <3>7. UNCHANGED <<out, settled>> /\ Settles /\ Once
        BY Zenon, <2>3, <2>5
      <3>8. Settles' /\ Once'
        BY <3>7 DEF Settles, Once
      <3> QED BY Zenon, <3>6, <3>8
    <2> QED BY Zenon, <2>1, <2>4, <2>5
  <1>3. ASSUME NEW l \in Lines, Passes(l) PROVE Accounts' /\ Settles' /\ Once'
    <2>1. PICK w \in Work : w.ev = work[l].ev /\ work' = [work EXCEPT ![l] = w]
      BY Zenon, <1>3 DEF Passes
    <2>2. w # Idle
      BY DEF Work, Idle
    <2>3. Busy(l) /\ UNCHANGED <<seen, settled, full, out>> /\ Accounts /\ Settles /\ Once
      BY Zenon, <1>3 DEF Passes
    <2>4. \A m \in Lines : (Busy(m)' <=> Busy(m)) /\ (work'[m].ev = work[m].ev)
      BY Zenon, <1>t, <2>1, <2>2, <2>3 DEF Busy, Types
    <2> QED BY <2>3, <2>4 DEF Accounts, Settles, Once
  <1>4. ASSUME NEW l \in Lines, Ends(l) PROVE Accounts' /\ Settles' /\ Once'
    <2>1. /\ Busy(l) /\ UNCHANGED <<seen, full>> /\ Accounts /\ Settles /\ Once
          /\ settled' = settled \union {work[l].ev} /\ work' = [work EXCEPT ![l] = Idle]
      BY Zenon, <1>4 DEF Ends, Done
    <2>2. \A m \in Lines : (Busy(m)' <=> (Busy(m) /\ m # l)) /\ (m # l => work'[m] = work[m])
      BY Zenon, <1>t, <2>1 DEF Busy, Types
    <2>3. Accounts'
      BY <2>1, <2>2 DEF Accounts
    <2>4. CASE UNCHANGED out
      BY <2>1, <2>3, <2>4 DEF Settles, Once
    <2>5. ASSUME NEW o \in Outputs, Emit(l, o), IsEvent(o) => o.ev = work[l].ev
          PROVE  Settles' /\ Once'
      <3>1. \A m \in Lines : out[m] \in Seq(Outputs)
        BY Zenon, <1>t DEF Types
      <3> HIDE DEF Outputs
      <3>2. /\ out'[l] = Append(out[l], o)
            /\ \A m \in Lines : m # l => out'[m] = out[m]
        BY Zenon, <1>t, <2>5 DEF Emit, Types
      <3>3. /\ Len(out'[l]) = Len(out[l]) + 1 /\ Len(out[l]) \in Nat
            /\ out'[l][Len(out[l]) + 1] = o
            /\ \A i \in 1..Len(out[l]) : out'[l][i] = out[l][i]
        BY <3>1, <3>2
      <3>4. Settles'
        <4>1. SUFFICES ASSUME NEW m \in Lines, NEW i \in 1..Len(out'[m]), IsEvent(out'[m][i])
                       PROVE  out'[m][i].ev \in settled'
          BY Zenon DEF Settles
        <4>2. CASE m # l
          BY Zenon, <2>1, <3>2, <4>1, <4>2 DEF Settles
        <4>3. CASE m = l /\ i \in 1..Len(out[l])
          BY Zenon, <2>1, <3>3, <4>1, <4>3 DEF Settles
        <4>4. CASE m = l /\ i = Len(out[l]) + 1
          BY Zenon, <2>1, <2>5, <3>3, <4>1, <4>4
        <4>5. m = l => i \in 1..Len(out[l]) \/ i = Len(out[l]) + 1
          BY <3>3, <4>1
        <4> QED BY Zenon, <4>2, <4>3, <4>4, <4>5
      <3>5. ASSUME NEW m \in Lines, NEW n \in Lines, NEW i \in 1..Len(out'[m]), NEW j \in 1..Len(out'[n]),
                   IsEvent(out'[m][i]), IsEvent(out'[n][j]), out'[m][i].ev = out'[n][j].ev
            PROVE  m = n /\ i = j
        <4> DEFINE old(x, k) == k \in 1..Len(out[x]) /\ out'[x][k] = out[x][k]
                   last(x, k) == x = l /\ k = Len(out[l]) + 1 /\ out'[x][k] = o
        <4>1. (old(m, i) \/ last(m, i)) /\ (old(n, j) \/ last(n, j))
          <5>1. ASSUME NEW x \in Lines, NEW k \in 1..Len(out'[x]) PROVE old(x, k) \/ last(x, k)
            <6>1. CASE x # l
              BY Zenon, <3>2, <5>1, <6>1
            <6>2. CASE x = l
              <7>1. k \in 1..Len(out[l]) \/ k = Len(out[l]) + 1
                BY <3>3, <5>1, <6>2
              <7> QED BY Zenon, <3>3, <6>2, <7>1
            <6> QED BY Zenon, <6>1, <6>2
          <5> QED BY Zenon, <5>1
        <4>2. ASSUME NEW x \in Lines, NEW k \in 1..Len(out[x]), IsEvent(out[x][k])
              PROVE  out[x][k].ev # work[l].ev
          BY Zenon, <2>1, <4>2 DEF Settles, Accounts
        <4>3. CASE old(m, i) /\ old(n, j)
          BY <2>1, <3>5, <4>3 DEF Once
        <4>4. CASE old(m, i) /\ last(n, j)
          BY Zenon, <2>5, <3>5, <4>2, <4>4
        <4>5. CASE last(m, i) /\ old(n, j)
          BY Zenon, <2>5, <3>5, <4>2, <4>5
        <4>6. CASE last(m, i) /\ last(n, j)
          BY Zenon, <4>6
        <4> QED BY Zenon, <4>1, <4>3, <4>4, <4>5, <4>6
      <3> QED BY <3>4, <3>5 DEF Once
    <2> QED BY Zenon, <1>4, <2>3, <2>4, <2>5 DEF Ends
  <1>5. ASSUME NEW l \in Lines, Fails(l) PROVE Accounts' /\ Settles' /\ Once'
    <2>1. /\ Busy(l) /\ UNCHANGED <<full, settled, out>> /\ Accounts /\ Settles /\ Once
          /\ seen' = seen \ {work[l].ev} /\ work' = [work EXCEPT ![l] = Idle]
      BY Zenon, <1>5 DEF Fails, Failed
    <2>2. \A m \in Lines : (Busy(m)' <=> (Busy(m) /\ m # l)) /\ (m # l => work'[m] = work[m])
      BY Zenon, <1>t, <2>1 DEF Busy, Types
    <2>3. Accounts'
      BY <2>1, <2>2 DEF Accounts
    <2> QED BY <2>1, <2>3 DEF Settles, Once
  <1> QED BY Zenon, <1>1, <1>2, <1>3, <1>4, <1>5, <1>t, StepKinds

\* The invariant is inductive.
LEMMA InvKept == Inv /\ [Next]_vars => Inv'
  BY Zenon, TypesKept, AccountsKept DEF Inv, Types

\* The invariant holds throughout.
THEOREM PipelineInvariant == Spec => []Inv
  BY InitInv, InvKept, PTL DEF Spec

\* The pipelines of one subscription, root and pages, output an event once
\* between them, for any number of them and any pipes (Pipeline::process and
\* process_cached_batch over one seen_ids).
THEOREM OutputsOnce == Spec => []OutputOnce
  <1>1. Inv => OutputOnce
    BY Zenon DEF Inv, Types, OutputOnce, Once, IsEvent
  <1> QED BY <1>1, PipelineInvariant, PTL

\* An id is remembered exactly while its event is in hand or settled, and no
\* two pipelines have the same event in hand (Pipeline::process).
THEOREM SeenIsAccounted == Spec => []SeenAccounted
  <1>1. ASSUME Inv PROVE SeenAccounted
    <2>1. CASE full
      BY Zenon, <2>1 DEF SeenAccounted
    <2>2. CASE ~full
      <3>1. Accounts
        BY Zenon, <1>1, <2>2 DEF Inv
      <3>2. \A e : e \in InFlight <=> \E l \in Lines : Busy(l) /\ work[l].ev = e
        BY Zenon DEF InFlight, Busy
      <3>3. seen = settled \union InFlight
        BY Zenon, <3>1, <3>2 DEF Accounts
      <3>4. settled \intersect InFlight = {}
        BY <3>1, <3>2 DEF Accounts
      <3> QED BY Zenon, <3>1, <3>3, <3>4 DEF SeenAccounted, Accounts, Busy
    <2> QED BY Zenon, <2>1, <2>2
  <1> QED BY <1>1, PipelineInvariant, PTL

-----------------------------------------------------------------------------
\* What the pipelines may hold of an event when they have a signer.
Fit(e, c) == e \in Encrypted \ Foreign => c # "cipher"
FitMessages == {m \in Messages : m.form \in {"raw", "cached", "broken"} => Fit(m.ev, m.content)}
FitWork == {w \in Work : Fit(w.ev, w.content)}
FitSaved == {a \in [ev : Events, content : Contents] : Fit(a.ev, a.content)}
FitOutputs == {o \in Outputs : IsEvent(o) => Fit(o.ev, o.content)}
AllFit ==
    /\ inbox \in [Lines -> Seq(FitMessages)]
    /\ work \in [Lines -> FitWork \union {Idle}]
    /\ saved \subseteq FitSaved
    /\ out \in [Lines -> Seq(FitOutputs)]
FitInv == Types /\ (hasSigner => AllFit)

\* Nothing is held at the start.
LEMMA InitFit == Init => FitInv
  <1> SUFFICES ASSUME Init PROVE FitInv
    BY Zenon
  <1>1. Types
    BY Zenon, InitInv DEF Inv
  <1>2. inbox \in [Lines -> Seq(FitMessages)] /\ out \in [Lines -> Seq(FitOutputs)]
    BY DEF Init
  <1>3. work \in [Lines -> FitWork \union {Idle}] /\ saved \subseteq FitSaved
    BY Zenon DEF Init
  <1> QED BY Zenon, <1>1, <1>2, <1>3 DEF FitInv, AllFit

\* Sequences over a set stay over it.
LEMMA SeqsOver ==
  ASSUME NEW S, NEW f \in [Lines -> Seq(S)], NEW l \in Lines
  PROVE  /\ \A s \in Seq(S) : [f EXCEPT ![l] = @ \o s] \in [Lines -> Seq(S)]
         /\ \A x \in S : [f EXCEPT ![l] = Append(@, x)] \in [Lines -> Seq(S)]
         /\ f[l] # <<>> => [f EXCEPT ![l] = Tail(@)] \in [Lines -> Seq(S)] /\ Head(f[l]) \in S
  <1>1. f[l] \in Seq(S)
    BY Zenon
  <1>2. \A s \in Seq(S) : f[l] \o s \in Seq(S)
    BY <1>1
  <1>3. \A x \in S : Append(f[l], x) \in Seq(S)
    BY <1>1
  <1>4. f[l] # <<>> => Tail(f[l]) \in Seq(S) /\ Head(f[l]) \in S
    BY <1>1
  <1> QED BY Zenon, <1>2, <1>3, <1>4

\* A line in hand of a fit message.
LEMMA BusyFit == ASSUME AllFit, NEW l \in Lines, Busy(l)
                 PROVE  work[l] \in FitWork /\ Fit(work[l].ev, work[l].content)
  BY Zenon DEF AllFit, Busy, FitWork

\* Passing a fit message on with a fit content.
LEMMA PassFit ==
  ASSUME Types, AllFit, NEW l \in Lines, Busy(l), NEW c \in Contents, Fit(work[l].ev, c), Pass(l, c)
  PROVE  work' \in [Lines -> FitWork \union {Idle}]
  <1> DEFINE w == [form |-> work[l].form, ev |-> work[l].ev, content |-> c, at |-> work[l].at + 1]
  <1>1. work[l] \in Work
    BY Zenon, BusyWork
  <1>2. w \in Work /\ w.ev = work[l].ev /\ w.content = c
    BY <1>1 DEF Work
  <1>3. w \in FitWork
    BY Zenon, <1>2 DEF FitWork
  <1>4. work' = [work EXCEPT ![l] = w]
    BY Zenon DEF Pass
  <1> HIDE DEF w
  <1> QED BY Zenon, <1>3, <1>4 DEF AllFit

\* What a line is done with leaves only fit work behind.
LEMMA EndFit ==
  ASSUME AllFit, NEW l \in Lines, work' = [work EXCEPT ![l] = Idle]
  PROVE  work' \in [Lines -> FitWork \union {Idle}]
  BY Zenon DEF AllFit

\* Nothing a line outputs of a fit message is unfit.
LEMMA EmitFit ==
  ASSUME Types, AllFit, NEW l \in Lines, Busy(l), UNCHANGED out \/ Emit(l, EventOut(work[l]))
  PROVE  out' \in [Lines -> Seq(FitOutputs)]
  <1>1. EventOut(work[l]) \in FitOutputs
    BY Zenon, BusyWork, BusyFit DEF EventOut, FitOutputs, Outputs
  <1>2. out \in [Lines -> Seq(FitOutputs)]
    BY Zenon DEF AllFit
  <1>3. [out EXCEPT ![l] = Append(@, EventOut(work[l]))] \in [Lines -> Seq(FitOutputs)]
    BY Zenon, <1>1, <1>2, SeqsOver
  <1> QED BY Zenon, <1>2, <1>3 DEF Emit

\* With a signer, every step leaves only fit messages about.
LEMMA FitKept ==
  ASSUME Types, hasSigner, AllFit, [Next]_vars
  PROVE  AllFit'
  <1>1. CASE UNCHANGED vars
    BY Zenon, <1>1 DEF vars, AllFit
  <1>2. CASE SignerTurns
    BY Zenon, <1>2 DEF SignerTurns, AllFit
  <1>3. ASSUME NEW l \in Lines, Arrive(l) PROVE AllFit'
    <2>1. Arriving \subseteq FitMessages
      BY Zenon, ArrivingMessages DEF FitMessages, Fit
    <2>2. \E m \in Arriving : inbox' = [inbox EXCEPT ![l] = Append(@, m)]
      BY Zenon, <1>3, ArriveAdds
    <2>3. inbox' \in [Lines -> Seq(FitMessages)]
      BY <2>1, <2>2, SeqsOver DEF AllFit
    <2> QED BY Zenon, <1>3, <2>3 DEF Arrive, AllFit
  <1>4. ASSUME NEW l \in Lines, CacheAnswers(l) PROVE AllFit'
    <2>1. PICK a \in saved \union {[ev |-> e, content |-> "clear"] : e \in Stored} :
            LET form == IF a.content = "raw" THEN "raw" ELSE "cached" IN
              inbox' = [inbox EXCEPT ![l] = @ \o <<Message(form, a.ev, a.content), Mark("eoce")>>]
      BY Zenon, <1>4 DEF CacheAnswers
    <2>2. a.ev \in Events /\ a.content \in Contents /\ Fit(a.ev, a.content)
      BY PipelineAssumption DEF AllFit, FitSaved, Contents, Fit
    <2> DEFINE m == Message(IF a.content = "raw" THEN "raw" ELSE "cached", a.ev, a.content)
    <2>3. m \in Messages /\ m.ev = a.ev /\ m.content = a.content
      BY <2>2 DEF Messages, Message
    <2>4. m \in FitMessages
      BY Zenon, <2>2, <2>3 DEF FitMessages
    <2>5. Mark("eoce") \in FitMessages
      BY DEF FitMessages, Messages, Mark
    <2>6. inbox' = [inbox EXCEPT ![l] = @ \o <<m, Mark("eoce")>>]
      BY Zenon, <2>1
    <2> HIDE DEF m
    <2>7. <<m, Mark("eoce")>> \in Seq(FitMessages)
      BY <2>4, <2>5
    <2>8. inbox' \in [Lines -> Seq(FitMessages)]
      BY Zenon, <2>6, <2>7, SeqsOver DEF AllFit
    <2> QED BY Zenon, <1>4, <2>8 DEF CacheAnswers, AllFit
  <1>5. ASSUME NEW l \in Lines, TakeEose(l) \/ TakeEoce(l) PROVE AllFit'
    <2>1. inbox' \in [Lines -> Seq(FitMessages)]
      <3>1. inbox \in [Lines -> Seq(FitMessages)]
        BY Zenon DEF AllFit
      <3>2. inbox[l] # <<>> /\ inbox' = [inbox EXCEPT ![l] = Tail(@)]
        BY Zenon, <1>5 DEF TakeEose, TakeEoce
      <3> QED BY Zenon, <3>1, <3>2, SeqsOver
    <2> QED BY Zenon, <1>5, <2>1 DEF TakeEose, TakeEoce, AllFit
  <1>6. ASSUME NEW l \in Lines, Take(l) PROVE AllFit'
    <2> DEFINE m == Head(inbox[l])
    <2>1. inbox' \in [Lines -> Seq(FitMessages)] /\ m \in FitMessages
      BY Zenon, <1>6, SeqsOver DEF Take, AllFit
    <2>2. m \in Messages /\ m.form \in {"raw", "cached", "broken"} /\ Fit(m.ev, m.content)
      BY Zenon, <1>6, <2>1 DEF Take, FitMessages
    <2>3. m.ev \in Events /\ m.content \in Contents
      BY Zenon, <2>2, MessageParts
    <2> DEFINE w == [form |-> m.form, ev |-> m.ev, content |-> m.content, at |-> 1]
    <2>4. UNCHANGED work \/ (m.form # "broken" /\ work' = [work EXCEPT ![l] = w])
      BY Zenon, <1>6 DEF Take
    <2>5. m.form # "broken" => w \in FitWork
      BY <2>2, <2>3 DEF FitWork, Work
    <2> HIDE DEF w
    <2>6. work' \in [Lines -> FitWork \union {Idle}]
      BY Zenon, <2>4, <2>5 DEF AllFit
    <2> QED BY Zenon, <1>6, <2>1, <2>6 DEF Take, AllFit
  <1>7. ASSUME NEW l \in Lines,
               SkipForCached(l) \/ KindFilter(l) \/ NpubLimiter(l) \/ ChatLimiter(l) \/ MuteFilter(l) \/ Counter(l)
        PROVE  AllFit'
    <2>1. Busy(l) /\ UNCHANGED <<inbox, out, saved>> /\ (Pass(l, work[l].content) \/ Done(l))
      <3>1. CASE SkipForCached(l) BY Zenon, <3>1 DEF SkipForCached, Busy
      <3>2. CASE KindFilter(l) BY Zenon, <3>2 DEF KindFilter, At, Busy
      <3>3. CASE NpubLimiter(l) BY Zenon, <3>3 DEF NpubLimiter, At, Busy, LetThrough, Hold
      <3>4. CASE ChatLimiter(l) BY Zenon, <3>4 DEF ChatLimiter, At, Busy, LetThrough, Hold
      <3>5. CASE MuteFilter(l) BY Zenon, <3>5 DEF MuteFilter, At, Busy
      <3>6. CASE Counter(l) BY Zenon, <3>6 DEF Counter, At, Busy
      <3> QED BY Zenon, <1>7, <3>1, <3>2, <3>3, <3>4, <3>5, <3>6
    <2>2. work' \in [Lines -> FitWork \union {Idle}]
      BY Zenon, <2>1, BusyWork, BusyFit, PassFit, EndFit DEF Done
    <2> QED BY Zenon, <2>1, <2>2 DEF AllFit
  <1>8. ASSUME NEW l \in Lines, PastLast(l) \/ SerializeEvents(l) PROVE AllFit'
    <2>1. /\ Busy(l) /\ UNCHANGED <<inbox, saved>> /\ (Pass(l, work[l].content) \/ Done(l))
          /\ UNCHANGED out \/ Emit(l, EventOut(work[l]))
      BY Zenon, <1>8 DEF PastLast, SerializeEvents, At, Busy
    <2>2. work' \in [Lines -> FitWork \union {Idle}]
      BY Zenon, <2>1, BusyWork, BusyFit, PassFit, EndFit DEF Done
    <2>3. out' \in [Lines -> Seq(FitOutputs)]
      BY Zenon, <2>1, EmitFit
    <2> QED BY Zenon, <2>1, <2>2, <2>3 DEF AllFit
  <1>9. ASSUME NEW l \in Lines, Parse(l) PROVE AllFit'
    <2>1. Busy(l) /\ UNCHANGED <<inbox, saved, out>>
      BY Zenon, <1>9 DEF Parse, At, Busy
    <2>2. \/ work' = [work EXCEPT ![l] = Idle]
          \/ Pass(l, work[l].content)
          \/ Parsed(work[l].ev) \in Contents /\ Pass(l, Parsed(work[l].ev))
      BY Zenon, <1>9 DEF Parse, Done, Failed
    <2>3. Fit(work[l].ev, Parsed(work[l].ev))
      BY Zenon DEF Fit, Parsed
    <2>4. work' \in [Lines -> FitWork \union {Idle}]
      BY Zenon, <2>1, <2>2, <2>3, BusyWork, BusyFit, PassFit, EndFit
    <2> QED BY Zenon, <2>1, <2>4 DEF AllFit
  <1>10. ASSUME NEW l \in Lines, SaveToDb(l) PROVE AllFit'
    <2>1. Busy(l) /\ UNCHANGED <<inbox, out>> /\ Pass(l, work[l].content)
      BY Zenon, <1>10 DEF SaveToDb, At, Busy
    <2>2. saved' \subseteq FitSaved
      BY <1>10, <2>1, BusyWork, BusyFit DEF SaveToDb, AllFit, FitSaved
    <2>3. work' \in [Lines -> FitWork \union {Idle}]
      BY Zenon, <2>1, BusyWork, BusyFit, PassFit
    <2> QED BY Zenon, <2>1, <2>2, <2>3 DEF AllFit
  <1>11. ASSUME NEW l \in Lines, ProofVerification(l) PROVE AllFit'
    <2>1. Busy(l) /\ Done(l) /\ UNCHANGED <<inbox, saved>>
      BY Zenon, <1>11 DEF ProofVerification, At, Busy
    <2> DEFINE o == [type |-> "proofs", proofs |-> NewSecrets(l, work[l].ev) \intersect ValidProofs]
    <2>2. UNCHANGED out \/ Emit(l, o)
      BY Zenon, <1>11 DEF ProofVerification
    <2>3. NewSecrets(l, work[l].ev) \subseteq Secrets
      BY Zenon, <2>1, BusyWork, PipelineAssumption DEF NewSecrets
    <2>4. o \in FitOutputs
      BY Zenon, <2>3 DEF FitOutputs, Outputs, IsEvent
    <2> HIDE DEF o
    <2>5. out' \in [Lines -> Seq(FitOutputs)]
      <3>1. out \in [Lines -> Seq(FitOutputs)]
        BY Zenon DEF AllFit
      <3>2. [out EXCEPT ![l] = Append(@, o)] \in [Lines -> Seq(FitOutputs)]
        BY Zenon, <2>4, <3>1, SeqsOver
      <3> QED BY Zenon, <2>2, <3>1, <3>2 DEF Emit
    <2> QED BY Zenon, <2>1, <2>5, EndFit DEF AllFit, Done
  <1> QED BY Zenon, <1>1, <1>2, <1>3, <1>4, <1>5, <1>6, <1>7, <1>8, <1>9, <1>10, <1>11 DEF Next, Handle

\* The parser is given its signer once.
LEMMA SignerKept == [Next]_vars => UNCHANGED hasSigner
  <1>1. CASE UNCHANGED vars
    BY Zenon, <1>1 DEF vars
  <1>2. CASE SignerTurns
    BY Zenon, <1>2 DEF SignerTurns
  <1>3. ASSUME NEW l \in Lines, Arrive(l) \/ CacheAnswers(l) PROVE UNCHANGED hasSigner
    BY Zenon, <1>3 DEF Arrive, CacheAnswers
  <1>4. ASSUME NEW l \in Lines, Take(l) \/ TakeEose(l) \/ TakeEoce(l) \/ SkipForCached(l) \/ PastLast(l)
        PROVE  UNCHANGED hasSigner
    BY Zenon, <1>4 DEF Take, TakeEose, TakeEoce, SkipForCached, PastLast
  <1>5. ASSUME NEW l \in Lines, KindFilter(l) \/ NpubLimiter(l) \/ ChatLimiter(l) \/ MuteFilter(l) \/ Parse(l)
        PROVE  UNCHANGED hasSigner
    BY Zenon, <1>5 DEF KindFilter, NpubLimiter, ChatLimiter, MuteFilter, Parse, At
  <1>6. ASSUME NEW l \in Lines, SaveToDb(l) \/ SerializeEvents(l) \/ Counter(l) \/ ProofVerification(l)
        PROVE  UNCHANGED hasSigner
    BY Zenon, <1>6 DEF SaveToDb, SerializeEvents, Counter, ProofVerification, At
  <1> QED BY Zenon, <1>1, <1>2, <1>3, <1>4, <1>5, <1>6 DEF Next, Handle

\* With a signer, an own message is never output or cached undecrypted, for
\* any pipes: what the signer cannot decrypt now is given up for a later copy
\* (kind4.rs, ParsePipe::process, Pipeline::process).
THEOREM DecryptsOrRetries == Spec => []DecryptedOrRetried
  <1>1. FitInv /\ [Next]_vars => FitInv'
    BY Zenon, TypesKept, FitKept, SignerKept DEF FitInv
  <1>2. ASSUME FitInv PROVE DecryptedOrRetried
    <2> SUFFICES ASSUME hasSigner, NEW e \in Encrypted \ Foreign
                 PROVE  /\ [ev |-> e, content |-> "cipher"] \notin saved
                        /\ \A l \in Lines : \A i \in 1..Len(out[l]) :
                             (out[l][i].type = "event" /\ out[l][i].ev = e) => out[l][i].content # "cipher"
      BY Zenon DEF DecryptedOrRetried
    <2>1. saved \subseteq FitSaved /\ out \in [Lines -> Seq(FitOutputs)]
      BY Zenon, <1>2 DEF FitInv, AllFit
    <2>2. [ev |-> e, content |-> "cipher"] \notin saved
      BY Zenon, <2>1 DEF FitSaved, Fit
    <2>3. ASSUME NEW l \in Lines, NEW i \in 1..Len(out[l]) PROVE out[l][i] \in FitOutputs
      BY <2>1, <2>3
    <2> QED BY Zenon, <2>2, <2>3 DEF FitOutputs, IsEvent, Fit
  <1> QED BY <1>1, <1>2, InitFit, PTL DEF Spec

-----------------------------------------------------------------------------
\* What a line reported is in its seen_proofs, or was given up.
Reported ==
    \A l \in Lines : \A i \in 1..Len(out[l]) :
        out[l][i].type = "proofs" => out[l][i].proofs \subseteq secrets[l] \union evicted
ProofInv == Types /\ secrets \in [Lines -> SUBSET Secrets] /\ Reported /\ ProofsOnce

\* A line's outputs after one more.
LEMMA EmitFacts ==
  ASSUME Types, NEW l \in Lines, NEW o, Emit(l, o)
  PROVE  /\ \A m \in Lines : m # l => out'[m] = out[m]
         /\ Len(out[l]) \in Nat /\ Len(out'[l]) = Len(out[l]) + 1
         /\ out'[l][Len(out[l]) + 1] = o
         /\ \A i \in 1..Len(out[l]) : out'[l][i] = out[l][i]
  <1> HIDE DEF Outputs
  <1>1. out[l] \in Seq(Outputs) /\ out'[l] = Append(out[l], o) /\ \A m \in Lines : m # l => out'[m] = out[m]
    BY Zenon DEF Types, Emit
  <1> QED BY <1>1

\* What a step does to the outputs and to seen_proofs.
Unreported == UNCHANGED <<secrets, evicted, out>>
Shows(l) == UNCHANGED <<secrets, evicted>> /\ \E o : Emit(l, o) /\ o.type = "event"
Reports(l) ==
    \E new \in SUBSET Secrets, S \in SUBSET secrets[l] :
        /\ new \intersect secrets[l] = {}
        /\ secrets' = [secrets EXCEPT ![l] = (@ \ S) \union new]
        /\ evicted' = evicted \union S
        /\ \/ UNCHANGED out
           \/ \E o : Emit(l, o) /\ o.type = "proofs" /\ o.proofs \subseteq new

LEMMA ReportKinds ==
  ASSUME Types, [Next]_vars
  PROVE  Unreported \/ \E l \in Lines : Shows(l) \/ Reports(l)
  <1>1. CASE UNCHANGED vars
    BY Zenon, <1>1 DEF vars, state, history, Unreported
  <1>2. CASE SignerTurns
    BY Zenon, <1>2 DEF SignerTurns, state, history, Unreported
  <1>3. ASSUME NEW l \in Lines, Arrive(l) \/ CacheAnswers(l) PROVE Unreported
    BY Zenon, <1>3 DEF Arrive, CacheAnswers, state, history, Unreported
  <1>4. ASSUME NEW l \in Lines, Take(l) \/ TakeEose(l) \/ TakeEoce(l) \/ SkipForCached(l) PROVE Unreported
    BY Zenon, <1>4 DEF Take, TakeEose, TakeEoce, SkipForCached, state, Unreported
  <1>5. ASSUME NEW l \in Lines, KindFilter(l) \/ NpubLimiter(l) \/ ChatLimiter(l) PROVE Unreported
    BY Zenon, <1>5 DEF KindFilter, NpubLimiter, ChatLimiter, state, Unreported
  <1>6. ASSUME NEW l \in Lines, MuteFilter(l) \/ Parse(l) \/ SaveToDb(l) \/ Counter(l) PROVE Unreported
    BY Zenon, <1>6 DEF MuteFilter, Parse, SaveToDb, Counter, state, Unreported
  <1>7. ASSUME NEW l \in Lines, PastLast(l) \/ SerializeEvents(l) PROVE Unreported \/ Shows(l)
    <2>1. UNCHANGED <<secrets, evicted>> /\ (UNCHANGED out \/ Emit(l, EventOut(work[l])))
      BY Zenon, <1>7 DEF PastLast, SerializeEvents, state
    <2>2. EventOut(work[l]).type = "event"
      BY Zenon DEF EventOut
    <2> QED BY Zenon, <2>1, <2>2 DEF Unreported, Shows
  <1>8. ASSUME NEW l \in Lines, ProofVerification(l) PROVE Unreported \/ Reports(l)
    <2> DEFINE new == NewSecrets(l, work[l].ev)
               o == [type |-> "proofs", proofs |-> new \intersect ValidProofs]
    <2>1. \/ UNCHANGED <<secrets, evicted, out>>
          \/ /\ \E S \in Evictions(l, Cardinality(new)) :
                  secrets' = [secrets EXCEPT ![l] = (@ \ S) \union new] /\ evicted' = evicted \union S
             /\ UNCHANGED out \/ Emit(l, o)
      BY Zenon, <1>8 DEF ProofVerification
    <2>2. \A n : Evictions(l, n) \subseteq SUBSET secrets[l]
      BY Zenon DEF Evictions
    <2>3. work[l].ev \in Events
      BY Zenon, <1>8, BusyWork DEF ProofVerification, At, Busy
    <2>4. new \subseteq Secrets /\ new \intersect secrets[l] = {}
      BY <2>3, PipelineAssumption DEF NewSecrets
    <2>5. o.type = "proofs" /\ o.proofs \subseteq new
      BY Zenon
    <2> HIDE DEF new, o
    <2> QED BY Zenon, <2>1, <2>2, <2>4, <2>5 DEF Unreported, Reports
  <1> QED BY Zenon, <1>1, <1>2, <1>3, <1>4, <1>5, <1>6, <1>7, <1>8 DEF Next, Handle

\* Every step keeps what was reported in seen_proofs, and reports only what is new.
LEMMA ReportsKept == ProofInv /\ [Next]_vars => ProofInv'
  <1> SUFFICES ASSUME ProofInv, [Next]_vars PROVE ProofInv'
    BY Zenon
  <1>t. Types /\ Types' /\ secrets \in [Lines -> SUBSET Secrets]
    BY Zenon, TypesKept DEF ProofInv
  <1>1. CASE Unreported
    BY ZenonT(30), <1>1, <1>t DEF Unreported, ProofInv, Reported, ProofsOnce
  <1>2. ASSUME NEW l \in Lines, Shows(l) PROVE ProofInv'
    <2>1. PICK o : Emit(l, o) /\ o.type = "event"
      BY Zenon, <1>2 DEF Shows
    <2>2. UNCHANGED <<secrets, evicted>>
      BY Zenon, <1>2 DEF Shows
    <2>3. ASSUME NEW m \in Lines, NEW i \in 1..Len(out'[m]), out'[m][i].type = "proofs"
          PROVE  i \in 1..Len(out[m]) /\ out'[m][i] = out[m][i]
      <3>1. "event" # "proofs"
        BY Zenon
      <3> QED BY SMTT(30), <1>t, <2>1, <2>3, <3>1, EmitFacts
    <2>4. Reported'
      BY ZenonT(30), <2>2, <2>3 DEF Reported, ProofInv
    <2>5. ProofsOnce'
      BY ZenonT(30), <2>2, <2>3 DEF ProofsOnce, ProofInv
    <2> QED BY Zenon, <1>t, <2>2, <2>4, <2>5 DEF ProofInv
  <1>3. ASSUME NEW l \in Lines, Reports(l) PROVE ProofInv'
    <2>1. PICK new \in SUBSET Secrets, S \in SUBSET secrets[l] :
            /\ new \intersect secrets[l] = {}
            /\ secrets' = [secrets EXCEPT ![l] = (@ \ S) \union new]
            /\ evicted' = evicted \union S
            /\ \/ UNCHANGED out
               \/ \E o : Emit(l, o) /\ o.type = "proofs" /\ o.proofs \subseteq new
      BY Zenon, <1>3 DEF Reports
    <2>2. secrets'[l] = (secrets[l] \ S) \union new /\ \A m \in Lines : m # l => secrets'[m] = secrets[m]
      BY Zenon, <1>t, <2>1
    <2>3. secrets' \in [Lines -> SUBSET Secrets]
      BY <1>t, <2>1
    <2>4. \A m \in Lines : secrets[m] \union evicted \subseteq secrets'[m] \union evicted'
      BY Zenon, <2>1, <2>2
    <2>5. CASE UNCHANGED out
      <3>1. Reported'
        BY Zenon, <2>4, <2>5 DEF Reported, ProofInv
      <3>2. ProofsOnce'
        BY ZenonT(30), <2>1, <2>5 DEF ProofsOnce, ProofInv
      <3> QED BY Zenon, <1>t, <2>3, <3>1, <3>2 DEF ProofInv
    <2>6. CASE \E o : Emit(l, o) /\ o.type = "proofs" /\ o.proofs \subseteq new
      <3>1. PICK o : Emit(l, o) /\ o.type = "proofs" /\ o.proofs \subseteq new
        BY Zenon, <2>6
      <3> DEFINE n == Len(out[l]) + 1
      <3>2. ASSUME NEW m \in Lines, NEW i \in 1..Len(out'[m])
            PROVE  \/ i \in 1..Len(out[m]) /\ out'[m][i] = out[m][i]
                   \/ m = l /\ i = n /\ out'[m][i] = o
        BY <1>t, <3>1, EmitFacts
      <3> HIDE DEF n
      <3>3. ASSUME NEW m \in Lines, NEW i \in 1..Len(out[m]), out[m][i].type = "proofs"
            PROVE  out[m][i].proofs \subseteq secrets[m] \union evicted
        BY Zenon, <3>3 DEF Reported, ProofInv
      <3>4. o.proofs \subseteq secrets'[l] \union evicted'
        BY Zenon, <2>2, <3>1
      <3>5. Reported'
        BY Zenon, <2>4, <3>2, <3>3, <3>4 DEF Reported
      <3>6. ASSUME NEW i \in 1..Len(out[l]), out[l][i].type = "proofs"
            PROVE  out[l][i].proofs \intersect o.proofs \subseteq evicted'
        BY <2>1, <3>1, <3>3, <3>6
      <3>7. ASSUME NEW m \in Lines, NEW i \in 1..Len(out'[m]), NEW j \in 1..Len(out'[m]),
                   out'[m][i].type = "proofs", out'[m][j].type = "proofs", i # j
            PROVE  (out'[m][i].proofs \intersect out'[m][j].proofs) \subseteq evicted'
        <4>1. CASE /\ i \in 1..Len(out[m]) /\ out'[m][i] = out[m][i]
                   /\ j \in 1..Len(out[m]) /\ out'[m][j] = out[m][j]
          BY Zenon, <2>1, <3>7, <4>1 DEF ProofInv, ProofsOnce
        <4>2. CASE m = l /\ i \in 1..Len(out[m]) /\ out'[m][i] = out[m][i] /\ out'[m][j] = o
          BY Zenon, <3>6, <3>7, <4>2
        <4>3. CASE m = l /\ j \in 1..Len(out[m]) /\ out'[m][j] = out[m][j] /\ out'[m][i] = o
          BY Zenon, <3>6, <3>7, <4>3
        <4> QED BY Zenon, <3>2, <3>7, <4>1, <4>2, <4>3
      <3>8. ProofsOnce'
        BY Zenon, <3>7 DEF ProofsOnce
      <3> QED BY Zenon, <1>t, <2>3, <3>5, <3>8 DEF ProofInv
    <2> QED BY Zenon, <2>1, <2>5, <2>6
  <1> QED BY Zenon, <1>1, <1>2, <1>3, <1>t, ReportKinds

\* A line reports a secret once for every bound of seen_proofs, however many
\* events carry it, until seen_proofs gives it up (add_proofs,
\* ProofVerificationPipe::process).
THEOREM ReportsOnce == Spec => []ProofsOnce
  <1>1. Init => ProofInv
    <2> SUFFICES ASSUME Init PROVE ProofInv
      BY Zenon
    <2>1. Types
      BY Zenon, InitInv DEF Inv
    <2>2. secrets \in [Lines -> SUBSET Secrets] /\ \A l \in Lines : out[l] = <<>>
      BY Zenon DEF Init
    <2> QED BY <2>1, <2>2 DEF ProofInv, Reported, ProofsOnce
  <1>2. ProofInv => ProofsOnce
    BY Zenon DEF ProofInv
  <1> QED BY <1>1, <1>2, ReportsKept, PTL DEF Spec

-----------------------------------------------------------------------------
\* A line's counts lag behind only while an end-of-cache mark is on its way,
\* and a cached message always has one behind it.
Counts == [CountKinds -> [count : Nat, you : BOOLEAN]]
Ahead(q) == \E j \in 1..Len(q) : q[j] = Mark("eoce")
Followed(q) == \A i \in 1..Len(q) : q[i].form = "cached" => \E j \in 1..Len(q) : i < j /\ q[j] = Mark("eoce")
CountInv ==
    /\ Types /\ tally \in [Lines -> Counts] /\ told \in [Lines -> Counts] /\ eosed \in [Lines -> BOOLEAN]
    /\ pipes \in [Lines -> Seq(Pipes)]
    /\ \A l \in Lines : Accepted(pipes[l])
    /\ \A l \in Lines : pipes[l][Len(pipes[l])] # "counter" => told[l] = tally[l]
    /\ \A l \in Lines : eosed[l] /\ told[l] # tally[l] => Ahead(inbox[l])
    /\ \A l \in Lines : Busy(l) /\ work[l].form = "cached" => Ahead(inbox[l])
    /\ \A l \in Lines : Followed(inbox[l])

\* What joins a queue leaves the marks in it behind their messages.
LEMMA FollowedGrows ==
  ASSUME NEW S, NEW q \in Seq(S), NEW s \in Seq(S), Followed(q), Followed(s)
  PROVE  Followed(q \o s) /\ (Ahead(q) => Ahead(q \o s))
  <1> DEFINE n == Len(q)
             k == Len(s)
             r == q \o s
  <1>1. /\ n \in Nat /\ k \in Nat /\ Len(r) = n + k
        /\ \A i \in 1..n : r[i] = q[i]
        /\ \A i \in 1..k : r[n + i] = s[i]
        /\ \A i \in 1..(n + k) : i \in 1..n \/ (i - n \in 1..k /\ r[i] = s[i - n])
    OBVIOUS
  <1> HIDE DEF r
  <1>2. ASSUME NEW i \in 1..Len(r), r[i].form = "cached"
        PROVE  \E j \in 1..Len(r) : i < j /\ r[j] = Mark("eoce")
    <2>1. CASE i \in 1..n
      <3>1. PICK j \in 1..n : i < j /\ q[j] = Mark("eoce")
        BY Zenon, <1>1, <1>2, <2>1 DEF Followed
      <3>2. j \in 1..Len(r) /\ i < j /\ r[j] = Mark("eoce")
        BY <1>1, <3>1
      <3> QED BY Zenon, <3>2
    <2>2. CASE i - n \in 1..k /\ r[i] = s[i - n]
      <3>1. PICK j \in 1..k : i - n < j /\ s[j] = Mark("eoce")
        BY Zenon, <1>2, <2>2 DEF Followed
      <3>2. n + j \in 1..Len(r) /\ i < n + j /\ r[n + j] = Mark("eoce")
        BY <1>1, <1>2, <3>1
      <3> QED BY Zenon, <3>2
    <2> QED BY <1>1, <1>2, <2>1, <2>2
  <1>3. Ahead(q) => Ahead(r)
    BY <1>1 DEF Ahead
  <1> QED BY Zenon, <1>2, <1>3 DEF r, Followed

\* What leaves a queue leaves the marks of the rest there.
LEMMA FollowedShrinks ==
  ASSUME NEW S, NEW q \in Seq(S), q # <<>>, Followed(q)
  PROVE  /\ Followed(Tail(q))
         /\ Ahead(q) /\ Head(q) # Mark("eoce") => Ahead(Tail(q))
         /\ Head(q).form = "cached" => Ahead(Tail(q))
  <1> DEFINE n == Len(q)
             r == Tail(q)
  <1>1. /\ n \in Nat \ {0} /\ Len(r) = n - 1 /\ Head(q) = q[1]
        /\ \A i \in 1..(n - 1) : r[i] = q[i + 1]
    OBVIOUS
  <1> HIDE DEF r
  <1>2. ASSUME NEW j \in 1..n, 1 < j PROVE j - 1 \in 1..Len(r) /\ r[j - 1] = q[j]
    <2>1. j - 1 \in 1..(n - 1) /\ (j - 1) + 1 = j
      BY <1>1, <1>2
    <2> QED BY <1>1, <2>1
  <1>3. ASSUME NEW i \in 1..Len(r), r[i].form = "cached"
        PROVE  \E j \in 1..Len(r) : i < j /\ r[j] = Mark("eoce")
    <2>1. i + 1 \in 1..n /\ q[i + 1].form = "cached"
      BY <1>1, <1>3
    <2>2. PICK j \in 1..n : i + 1 < j /\ q[j] = Mark("eoce")
      BY Zenon, <2>1 DEF Followed
    <2>3. 1 < j /\ i < j - 1
      BY <1>1, <1>3, <2>2
    <2> QED BY Zenon, <1>2, <2>2, <2>3
  <1>4. ASSUME Ahead(q), Head(q) # Mark("eoce") PROVE Ahead(r)
    <2>1. PICK j \in 1..n : q[j] = Mark("eoce")
      BY Zenon, <1>4 DEF Ahead
    <2>2. 1 < j
      BY <1>1, <1>4, <2>1
    <2> QED BY Zenon, <1>2, <2>1, <2>2 DEF Ahead
  <1>5. ASSUME Head(q).form = "cached" PROVE Ahead(r)
    <2>1. 1 \in 1..n /\ q[1].form = "cached"
      BY <1>1, <1>5
    <2>2. PICK j \in 1..n : 1 < j /\ q[j] = Mark("eoce")
      BY Zenon, <2>1 DEF Followed
    <2> QED BY Zenon, <1>2, <2>2 DEF Ahead
  <1> QED BY Zenon, <1>3, <1>4, <1>5 DEF r, Followed

\* A step that counts nothing: the counts and the marks stay, and a line has in
\* hand what it had.
Uncounted ==
    /\ UNCHANGED <<pipes, tally, told, eosed, inbox>>
    /\ \A l \in Lines : work'[l] # Idle => Busy(l) /\ work'[l].form = work[l].form

\* Passing on and being done change only the line's own work.
LEMMA HandKept ==
  ASSUME Types, NEW l \in Lines, Busy(l),
         work' = [work EXCEPT ![l] = Idle] \/ \E c : Pass(l, c)
  PROVE  \A m \in Lines : work'[m] # Idle => Busy(m) /\ work'[m].form = work[m].form
  <1>1. CASE work' = [work EXCEPT ![l] = Idle]
    BY Zenon, <1>1 DEF Types, Busy
  <1>2. ASSUME NEW c, Pass(l, c) PROVE \A m \in Lines : work'[m] # Idle => Busy(m) /\ work'[m].form = work[m].form
    <2>1. work'[l].form = work[l].form /\ \A m \in Lines : m # l => work'[m] = work[m]
      BY <1>2 DEF Pass, Types
    <2> QED BY Zenon, <2>1 DEF Busy
  <1> QED BY Zenon, <1>1, <1>2

\* The pipes other than the counter count nothing.
LEMMA UncountedKinds ==
  ASSUME Types, NEW l \in Lines,
         \/ SkipForCached(l) \/ PastLast(l) \/ KindFilter(l) \/ NpubLimiter(l) \/ ChatLimiter(l)
         \/ MuteFilter(l) \/ Parse(l) \/ SaveToDb(l) \/ SerializeEvents(l) \/ ProofVerification(l)
  PROVE  Uncounted
  <1>1. /\ Busy(l) /\ UNCHANGED <<pipes, tally, told, eosed, inbox>>
        /\ work' = [work EXCEPT ![l] = Idle] \/ \E c : Pass(l, c)
    <2>1. CASE SkipForCached(l) BY Zenon, <2>1 DEF SkipForCached, Busy, state
    <2>2. CASE PastLast(l) BY Zenon, <2>2 DEF PastLast, Busy, Done, state
    <2>3. CASE KindFilter(l) BY Zenon, <2>3 DEF KindFilter, At, Busy, Done, state
    <2>4. CASE NpubLimiter(l) BY Zenon, <2>4 DEF NpubLimiter, At, Busy, LetThrough, Hold, Done
    <2>5. CASE ChatLimiter(l) BY Zenon, <2>5 DEF ChatLimiter, At, Busy, LetThrough, Hold, Done
    <2>6. CASE MuteFilter(l) BY Zenon, <2>6 DEF MuteFilter, At, Busy, Done, state
    <2>7. CASE Parse(l) BY Zenon, <2>7 DEF Parse, At, Busy, Done, Failed, state
    <2>8. CASE SaveToDb(l) BY Zenon, <2>8 DEF SaveToDb, At, Busy, state
    <2>9. CASE SerializeEvents(l) BY Zenon, <2>9 DEF SerializeEvents, At, Busy, Done, state
    <2>10. CASE ProofVerification(l) BY Zenon, <2>10 DEF ProofVerification, At, Busy, Done
    <2> QED BY Zenon, <2>1, <2>2, <2>3, <2>4, <2>5, <2>6, <2>7, <2>8, <2>9, <2>10
  <1> QED BY Zenon, <1>1, HandKept DEF Uncounted

\* Only the last pipe of a line can be its counter.
LEMMA CounterIsLast ==
  ASSUME CountInv, NEW l \in Lines, Counter(l)
  PROVE  pipes[l][Len(pipes[l])] = "counter"
  <1>1. /\ work[l] \in Work /\ work[l].at <= Len(pipes[l]) /\ pipes[l][work[l].at] = "counter"
        /\ Accepted(pipes[l]) /\ pipes[l] \in Seq(Pipes)
    BY Zenon, BusyWork DEF Counter, At, Busy, CountInv
  <1>2. work[l].at \in Nat \ {0} /\ Len(pipes[l]) \in Nat
    BY <1>1 DEF Work
  <1>3. \A i \in 1..(Len(pipes[l]) - 1) : pipes[l][i] # "counter"
    BY Zenon, <1>1 DEF Accepted, CanDirectOutput
  <1> QED BY <1>1, <1>2, <1>3

\* Every step keeps the counts in step with the marks.
LEMMA CountKept == CountInv /\ [Next]_vars => CountInv'
  <1> SUFFICES ASSUME CountInv, [Next]_vars PROVE CountInv'
    BY Zenon
  <1>t. Types /\ Types'
    BY Zenon, TypesKept DEF CountInv
  <1>q. \A l \in Lines : inbox[l] \in Seq(Messages)
    BY Zenon, <1>t DEF Types
  <1>1. CASE Uncounted
    BY Zenon, <1>1, <1>t DEF Uncounted, CountInv, Busy
  <1>2. CASE UNCHANGED vars \/ SignerTurns
    <2>1. Uncounted
      BY Zenon, <1>2 DEF vars, state, history, SignerTurns, Uncounted, Busy
    <2> QED BY Zenon, <1>1, <2>1
  <1>3. ASSUME NEW l \in Lines, NEW s \in Seq(Messages), Followed(s), inbox' = [inbox EXCEPT ![l] = @ \o s],
               UNCHANGED <<pipes, tally, told, eosed, work>>
        PROVE  CountInv'
    <2>1. inbox'[l] = inbox[l] \o s /\ \A m \in Lines : m # l => inbox'[m] = inbox[m]
      BY Zenon, <1>3, <1>t DEF Types
    <2>2. \A m \in Lines : Followed(inbox'[m]) /\ (Ahead(inbox[m]) => Ahead(inbox'[m]))
      <3> HIDE DEF Messages
      <3>1. Followed(inbox[l] \o s) /\ (Ahead(inbox[l]) => Ahead(inbox[l] \o s))
        BY <1>3, <1>q, FollowedGrows DEF CountInv
      <3> QED BY Zenon, <2>1, <3>1 DEF CountInv
    <2> QED BY Zenon, <1>3, <1>t, <2>2 DEF CountInv, Busy
  <1>4. ASSUME NEW l \in Lines, Arrive(l) PROVE CountInv'
    <2>2. PICK m \in Arriving : inbox' = [inbox EXCEPT ![l] = Append(@, m)]
      BY Zenon, <1>4, ArriveAdds
    <2>1. m \in Messages /\ m.form # "cached"
      BY Zenon, ArrivingMessages
    <2> HIDE DEF Messages
    <2>3. <<m>> \in Seq(Messages) /\ Followed(<<m>>)
      BY <2>1 DEF Followed
    <2>4. Append(inbox[l], m) = inbox[l] \o <<m>>
      BY <1>q, <2>1
    <2>5. inbox' = [inbox EXCEPT ![l] = @ \o <<m>>]
      BY Zenon, <2>2, <2>4
    <2> QED BY Zenon, <1>3, <1>4, <2>3, <2>5 DEF Arrive, state, history
  <1>5. ASSUME NEW l \in Lines, CacheAnswers(l) PROVE CountInv'
    <2>1. PICK a \in saved \union {[ev |-> e, content |-> "clear"] : e \in Stored} :
            LET form == IF a.content = "raw" THEN "raw" ELSE "cached" IN
              inbox' = [inbox EXCEPT ![l] = @ \o <<Message(form, a.ev, a.content), Mark("eoce")>>]
      BY Zenon, <1>5 DEF CacheAnswers
    <2>2. a.ev \in Events /\ a.content \in Contents
      BY Zenon, <1>t, CachedParts
    <2> DEFINE m == Message(IF a.content = "raw" THEN "raw" ELSE "cached", a.ev, a.content)
               s == <<m, Mark("eoce")>>
    <2>3. m \in Messages /\ Mark("eoce") \in Messages
      BY <2>2 DEF Messages
    <2>4. Mark("eoce").form # "cached"
      BY Zenon DEF Mark
    <2> HIDE DEF m, Messages
    <2>5. s \in Seq(Messages) /\ Followed(s)
      BY <2>3, <2>4 DEF Followed
    <2>6. inbox' = [inbox EXCEPT ![l] = @ \o s]
      BY Zenon, <2>1 DEF m
    <2> HIDE DEF s
    <2> QED BY Zenon, <1>3, <1>5, <2>5, <2>6 DEF CacheAnswers, state, history
  <1>6. ASSUME NEW l \in Lines, TakeEose(l) \/ TakeEoce(l) PROVE CountInv'
    <2>1. /\ ~Busy(l) /\ inbox[l] # <<>> /\ inbox' = [inbox EXCEPT ![l] = Tail(@)]
          /\ Flush(l) /\ UNCHANGED <<pipes, tally, work>>
          /\ UNCHANGED eosed \/ eosed' = [eosed EXCEPT ![l] = TRUE]
      BY Zenon, <1>6 DEF TakeEose, TakeEoce, Busy, state
    <2>2. told'[l] = tally'[l] /\ told' \in [Lines -> Counts] /\ \A m \in Lines : m # l => told'[m] = told[m]
      BY Zenon, <2>1 DEF Flush, CountInv
    <2>3. \A m \in Lines : m # l => eosed'[m] = eosed[m] /\ inbox'[m] = inbox[m]
      BY Zenon, <1>t, <2>1 DEF CountInv, Types
    <2>4. eosed' \in [Lines -> BOOLEAN]
      BY Zenon, <2>1 DEF CountInv
    <2>5. Followed(inbox'[l])
      <3> HIDE DEF Messages
      <3>1. inbox'[l] = Tail(inbox[l])
        BY Zenon, <1>t, <2>1 DEF Types
      <3>2. Followed(Tail(inbox[l]))
        BY <1>q, <2>1, FollowedShrinks DEF CountInv
      <3> QED BY Zenon, <3>1, <3>2
    <2> QED BY Zenon, <1>t, <2>1, <2>2, <2>3, <2>4, <2>5 DEF CountInv, Busy
  <1>7. ASSUME NEW l \in Lines, Take(l) PROVE CountInv'
    <2> DEFINE h == Head(inbox[l])
    <2>1. /\ ~Busy(l) /\ inbox[l] # <<>> /\ inbox' = [inbox EXCEPT ![l] = Tail(@)]
          /\ h.form \in {"raw", "cached", "broken"} /\ UNCHANGED <<pipes, tally, told, eosed>>
      BY Zenon, <1>7 DEF Take, Busy, state
    <2>2. UNCHANGED work
            \/ work' = [work EXCEPT ![l] = [form |-> h.form, ev |-> h.ev, content |-> h.content, at |-> 1]]
      BY Zenon, <1>7 DEF Take
    <2>3. \A m \in Lines : m # l => work'[m] = work[m] /\ inbox'[m] = inbox[m]
      BY Zenon, <1>t, <2>1, <2>2 DEF Types
    <2>4. work'[l] # Idle => work'[l].form = h.form
      BY SMTT(30), <1>t, <2>1, <2>2 DEF Types, Busy
    <2>5. h # Mark("eoce")
      BY <2>1 DEF Mark
    <2>6. inbox'[l] = Tail(inbox[l])
      BY Zenon, <1>t, <2>1 DEF Types
    <2>7. /\ Followed(inbox'[l]) /\ (Ahead(inbox[l]) => Ahead(inbox'[l]))
          /\ h.form = "cached" => Ahead(inbox'[l])
      <3> HIDE DEF Messages
      <3>1. Followed(inbox[l])
        BY Zenon DEF CountInv
      <3> QED BY Zenon, <1>q, <2>1, <2>5, <2>6, <3>1, FollowedShrinks
    <2> HIDE DEF h
    <2> QED BY Zenon, <1>t, <2>1, <2>3, <2>4, <2>7 DEF CountInv, Busy
  <1>8. ASSUME NEW l \in Lines, Counter(l) PROVE CountInv'
    <2>1. Busy(l) /\ work' = [work EXCEPT ![l] = Idle] /\ UNCHANGED <<pipes, eosed, inbox>>
      BY Zenon, <1>8 DEF Counter, At, Busy, Done
    <2>2. \A m \in Lines : work'[m] # Idle => Busy(m) /\ work'[m].form = work[m].form
      BY Zenon, <1>t, <2>1, HandKept
    <2>3. CASE UNCHANGED <<tally, told>>
      <3>1. Uncounted
        BY Zenon, <2>1, <2>2, <2>3 DEF Uncounted
      <3> QED BY Zenon, <1>1, <3>1
    <2>4. CASE ~UNCHANGED <<tally, told>>
      <3> DEFINE k == Kind[work[l].ev]
                 c == [count |-> tally[l][k].count + 1, you |-> tally[l][k].you \/ work[l].ev \in Own]
      <3>1. k \in CountKinds /\ tally' = [tally EXCEPT ![l][k] = c]
        BY Zenon, <1>8, <2>4 DEF Counter
      <3>2. told' = IF eosed[l] /\ work[l].form # "cached" THEN [told EXCEPT ![l][k] = c] ELSE told
        BY Zenon, <1>8, <2>4 DEF Counter
      <3>3. c \in [count : Nat, you : BOOLEAN]
        <4>1. tally[l][k] \in [count : Nat, you : BOOLEAN]
          BY Zenon, <3>1 DEF CountInv, Counts
        <4>2. tally[l][k].count + 1 \in Nat /\ (tally[l][k].you \/ work[l].ev \in Own) \in BOOLEAN
          BY SMTT(30), <4>1
        <4> QED BY Zenon, <4>2
      <3> HIDE DEF c, k
      <3>4. tally' \in [Lines -> Counts] /\ told' \in [Lines -> Counts]
        BY Zenon, <3>1, <3>2, <3>3 DEF CountInv, Counts
      <3>5. \A m \in Lines : m # l => tally'[m] = tally[m] /\ told'[m] = told[m]
        BY Zenon, <3>1, <3>2 DEF CountInv
      <3>6. eosed[l] /\ told'[l] # tally'[l] => Ahead(inbox[l])
        <4>1. CASE work[l].form = "cached"
          BY Zenon, <2>1, <4>1 DEF CountInv
        <4>2. CASE eosed[l] /\ work[l].form # "cached" /\ told[l] = tally[l]
          <5>1. told'[l] = [told[l] EXCEPT ![k] = c] /\ tally'[l] = [tally[l] EXCEPT ![k] = c]
            BY Zenon, <3>1, <3>2, <4>2 DEF CountInv
          <5> QED BY Zenon, <4>2, <5>1
        <4>3. CASE eosed[l] /\ told[l] # tally[l]
          BY Zenon, <4>3 DEF CountInv
        <4> QED BY Zenon, <4>1, <4>2, <4>3
      <3>7. pipes[l][Len(pipes[l])] = "counter"
        BY Zenon, <1>8, CounterIsLast
      <3> QED BY Zenon, <1>t, <2>1, <2>2, <3>4, <3>5, <3>6, <3>7 DEF CountInv, Busy
    <2> QED BY Zenon, <2>3, <2>4
  <1> QED BY Zenon, <1>1, <1>2, <1>4, <1>5, <1>6, <1>7, <1>8, <1>t, UncountedKinds DEF Next, Handle

\* Once a line has passed EOSE, the count its client holds is its own, unless
\* an end-of-cache mark is still to come (CounterPipe::process, process_cached
\* and flush, as the parser worker calls them on EOSE and EOCE).
THEOREM CountsAreTold == Spec => []CountsTold
  <1>1. Init => CountInv
    <2> SUFFICES ASSUME Init PROVE CountInv
      BY Zenon
    <2>1. Types
      BY Zenon, InitInv DEF Inv
    <2>2. PICK c \in [Lines -> Configs] :
            (\A l \in Lines : Accepted(BuildPipeline(c[l]))) /\ pipes = [l \in Lines |-> BuildPipeline(c[l])]
      BY Zenon DEF Init
    <2>3. \A d \in Configs : BuildPipeline(d) \in Seq(Pipes)
      <3>1. DefaultPipes \in Seq(Pipes)
        BY DEF DefaultPipes, Pipes
      <3> QED BY Zenon, <3>1, PipelineAssumption DEF BuildPipeline
    <2>4. pipes \in [Lines -> Seq(Pipes)] /\ \A l \in Lines : Accepted(pipes[l])
      BY Zenon, <2>2, <2>3
    <2>5. NoCounts \in Counts
      BY Zenon DEF NoCounts, Counts
    <2>6. tally \in [Lines -> Counts] /\ told \in [Lines -> Counts] /\ eosed \in [Lines -> BOOLEAN]
      BY Zenon, <2>5 DEF Init
    <2>7. \A l \in Lines : told[l] = tally[l] /\ ~Busy(l) /\ inbox[l] = <<>>
      BY Zenon DEF Init, Busy
    <2>8. Followed(<<>>)
      BY DEF Followed
    <2> QED BY Zenon, <2>1, <2>4, <2>6, <2>7, <2>8 DEF CountInv
  <1>2. CountInv => CountsTold
    BY Zenon DEF CountInv, CountsTold, Ahead
  <1> QED BY <1>1, <1>2, CountKept, PTL DEF Spec

-----------------------------------------------------------------------------
\* What a limiter knows of a key, T, against what it let through, P: its oldest
\* is no newer than any of them, and it counted no more than there are, unless
\* one came twice (R holds the ids given up, b tells whether the ids were full).
Track == [n : Nat, oldest : Nat]
Maps == UNION {[K -> Track] : K \in SUBSET Keys}
Under(P, p, k) == {x \in P : Filed(p, x) = k}
Limited(T, P, p, R, b) ==
    /\ \A x \in P : Filed(p, x) \in DOMAIN T
    /\ \A k \in DOMAIN T :
         /\ Under(P, p, k) # {}
         /\ \A x \in Under(P, p, k) : T[k].oldest <= CreatedAt[x]
         /\ (~b /\ Under(P, p, k) \intersect R = {}) => T[k].n <= Cardinality(Under(P, p, k))
After(T, D, k, u) == [d \in D \union {k} |-> IF d = k THEN u ELSE T[d]]
Rest(P, p, D, k) == {x \in P : Filed(p, x) \in D \union {k}}
Tracked(l, p) == IF p = "chat_limiter" THEN chats[l] ELSE npubs[l]
\* What a limiter let through is still in hand, beyond it, or was ended or given up.
Located ==
    \A l \in Lines : \A p \in Limiters : \A x \in passed[l][p] :
        \/ x \in retried \/ x \in settled
        \/ Busy(l) /\ work[l].ev = x /\ \E i \in 1..(work[l].at - 1) : pipes[l][i] = p
NoRepeat(c) == \A i, j \in 1..Len(c) : c[i] = c[j] => i = j
HeldInv ==
    /\ Inv
    /\ pipes \in [Lines -> Seq(Pipes)] /\ \A l \in Lines : NoRepeat(pipes[l])
    /\ npubs \in [Lines -> Maps] /\ chats \in [Lines -> Maps]
    /\ passed \in [Lines -> [Limiters -> SUBSET Events]]
    /\ held \in [Lines -> [Limiters -> SUBSET Events]]
    /\ \A l \in Lines : \A p \in Limiters :
         IsFiniteSet(passed[l][p]) /\ Limited(Tracked(l, p), passed[l][p], p, retried, full)
    /\ Located

\* Ids given up, and a set of ids found full, only weaken what is known.
LEMMA LimitedWeakens ==
  ASSUME NEW T, NEW P, NEW p, NEW R, NEW Q, NEW b, NEW c, Limited(T, P, p, R, b), R \subseteq Q, b => c
  PROVE  Limited(T, P, p, Q, c)
  <1>1. \A k : Under(P, p, k) \intersect Q = {} => Under(P, p, k) \intersect R = {}
    BY Zenon
  <1> QED BY Zenon, <1>1 DEF Limited

\* Letting an event through under its key: the keys in D stay, the event's key
\* is among them unless it is new, and its record is u from then on.
LEMMA LimitedGrows ==
  ASSUME NEW T \in Maps, NEW P \in SUBSET Events, IsFiniteSet(P), NEW p \in Limiters, NEW R, NEW b \in BOOLEAN,
         Limited(T, P, p, R, b), NEW e \in Events, NEW D \in SUBSET DOMAIN T, NEW u \in Track,
         Filed(p, e) \in DOMAIN T =>
           Filed(p, e) \in D /\ u.oldest <= T[Filed(p, e)].oldest /\ u.n <= T[Filed(p, e)].n + 1,
         Filed(p, e) \notin DOMAIN T => u.n <= 1,
         u.oldest <= CreatedAt[e],
         ~b /\ e \notin R => e \notin P
  PROVE  /\ Limited(After(T, D, Filed(p, e), u), Rest(P, p, D, Filed(p, e)) \union {e}, p, R, b)
         /\ IsFiniteSet(Rest(P, p, D, Filed(p, e)) \union {e})
  <1> DEFINE k == Filed(p, e)
             T2 == [d \in D \union {k} |-> IF d = k THEN u ELSE T[d]]
             P1 == {x \in P : Filed(p, x) \in D \union {k}}
             P2 == P1 \union {e}
  <1>1. DOMAIN T2 = D \union {k} /\ T2[k] = u /\ \A d \in D : d # k => T2[d] = T[d]
    BY Zenon
  <1>2. IsFiniteSet(P1) /\ IsFiniteSet(P2)
    BY FS_Subset, FS_AddElement
  <1>3. \A d \in D : d # k => Under(P2, p, d) = Under(P, p, d)
    BY Zenon DEF Under
  <1>4. Under(P2, p, k) = Under(P, p, k) \union {e}
    BY Zenon DEF Under
  <1>5. \A x \in P2 : Filed(p, x) \in DOMAIN T2
    BY Zenon, <1>1
  <1> DEFINE old == Under(P, p, k)
  <1>6. \A x \in old \union {e} : u.oldest <= CreatedAt[x]
    <2>1. CreatedAt \in [Events -> Nat] /\ u.oldest \in Nat /\ old \subseteq Events
      BY PipelineAssumption DEF Track, Under
    <2>2. CASE k \notin DOMAIN T
      <3>1. old = {}
        BY <2>2 DEF Limited, Under
      <3> QED BY Zenon, <3>1
    <2>3. CASE k \in DOMAIN T
      <3>1. T[k] \in Track /\ u.oldest <= T[k].oldest /\ \A x \in old : T[k].oldest <= CreatedAt[x]
        BY Zenon, <2>3 DEF Maps, Limited
      <3> QED BY SMTT(30), <2>1, <3>1 DEF Track
    <2> QED BY Zenon, <2>2, <2>3
  <1>7. ASSUME ~b, (old \union {e}) \intersect R = {} PROVE u.n <= Cardinality(old \union {e})
    <2>1. e \notin old
      BY Zenon, <1>7 DEF Under
    <2>2. IsFiniteSet(old)
      BY FS_Subset DEF Under
    <2>3. Cardinality(old) \in Nat /\ Cardinality(old \union {e}) = Cardinality(old) + 1
      <3> HIDE DEF old
      <3> QED BY <2>1, <2>2, FS_AddElement, FS_CardinalityType
    <2>4. u.n \in Nat
      BY Zenon DEF Track
    <2>5. CASE k \notin DOMAIN T
      <3>1. u.n <= 1
        BY Zenon, <2>5
      <3> HIDE DEF old
      <3> QED BY SMTT(30), <2>3, <2>4, <3>1
    <2>6. CASE k \in DOMAIN T
      <3>1. T[k] \in Track /\ u.n <= T[k].n + 1
        BY Zenon, <2>6 DEF Maps
      <3>2. old \intersect R = {}
        BY Zenon, <1>7
      <3>3. T[k].n <= Cardinality(old)
        BY Zenon, <1>7, <2>6, <3>2 DEF Limited
      <3> HIDE DEF old, k
      <3> QED BY SMTT(30), <2>3, <2>4, <3>1, <3>3 DEF Track
    <2> QED BY Zenon, <2>5, <2>6
  <1>8. ASSUME NEW d \in D \union {k}
        PROVE  /\ Under(P2, p, d) # {}
               /\ \A x \in Under(P2, p, d) : T2[d].oldest <= CreatedAt[x]
               /\ (~b /\ Under(P2, p, d) \intersect R = {}) => T2[d].n <= Cardinality(Under(P2, p, d))
    <2> HIDE DEF T2, P2, k
    <2>1. CASE d = k
      BY Zenon, <1>1, <1>4, <1>6, <1>7, <2>1
    <2>2. CASE d # k
      BY Zenon, <1>1, <1>3, <1>8, <2>2 DEF Limited
    <2> QED BY Zenon, <2>1, <2>2
  <1>9. Limited(T2, P2, p, R, b)
    BY Zenon, <1>1, <1>5, <1>8 DEF Limited
  <1> QED BY Zenon, <1>2, <1>9 DEF After, Rest

\* An event is held back rightly: what was let through under its key is no
\* older, and as many as the limit.
Rightly(P, p, e, R, b) ==
    LET shown == {x \in P : Filed(p, x) = Filed(p, e)} IN
      /\ \A x \in shown : CreatedAt[e] <= CreatedAt[x]
      /\ shown # {}
      /\ (~b /\ shown \intersect R = {}) => Cardinality(shown) >= Limit(p)

\* What a limiter that holds an event back has let through under its key.
LEMMA LimitedHolds ==
  ASSUME NEW T \in Maps, NEW P \in SUBSET Events, IsFiniteSet(P), NEW p \in Limiters, NEW R, NEW b \in BOOLEAN,
         Limited(T, P, p, R, b), NEW e \in Events, Filed(p, e) \in DOMAIN T,
         T[Filed(p, e)].n >= Limit(p), CreatedAt[e] <= T[Filed(p, e)].oldest
  PROVE  Rightly(P, p, e, R, b)
  <1> DEFINE k == Filed(p, e)
             shown == {x \in P : Filed(p, x) = k}
  <1>1. shown = Under(P, p, k)
    BY Zenon DEF Under
  <1>2. shown # {} /\ \A x \in shown : T[k].oldest <= CreatedAt[x]
    BY Zenon, <1>1 DEF Limited
  <1>3. (~b /\ shown \intersect R = {}) => T[k].n <= Cardinality(shown)
    BY Zenon, <1>1 DEF Limited
  <1>4. T[k] \in Track /\ CreatedAt \in [Events -> Nat] /\ Limit(p) \in Nat
    <2>1. T[k] \in Track
      BY Zenon DEF Maps
    <2> QED BY <2>1, PipelineAssumption DEF Limit
  <1>5. Cardinality(shown) \in Nat
    BY FS_Subset, FS_CardinalityType
  <1>6. shown \subseteq Events
    BY Zenon
  <1> HIDE DEF shown, k
  <1>7. \A x \in shown : CreatedAt[e] <= CreatedAt[x]
    BY <1>2, <1>4, <1>6 DEF k, Track
  <1>8. (~b /\ shown \intersect R = {}) => Cardinality(shown) >= Limit(p)
    BY SMTT(30), <1>3, <1>4, <1>5 DEF k, Track
  <1> QED BY Zenon, <1>2, <1>7, <1>8 DEF shown, k, Rightly

\* A step leaves what a line has in hand there, no earlier than it was, or
\* ends it or gives it up.
InHand ==
    /\ settled \subseteq settled' /\ retried \subseteq retried'
    /\ \A l \in Lines : Busy(l) =>
         \/ work[l].ev \in settled' \/ work[l].ev \in retried'
         \/ work'[l] # Idle /\ work'[l].ev = work[l].ev /\ work'[l].at >= work[l].at
\* The kinds of step, by what they do to the limiters.
Elsewhere == InHand /\ UNCHANGED <<pipes, npubs, chats, passed, held>> /\ (full => full')
Lets(l, p) ==
    LET T == Tracked(l, p)
        e == work[l].ev
        k == Filed(p, e)
    IN /\ Busy(l) /\ Pass(l, work[l].content) /\ work[l].at <= Len(pipes[l]) /\ pipes[l][work[l].at] = p
       /\ UNCHANGED <<pipes, held, full, retried>>
       /\ k \in Keys
       /\ \E D \in SUBSET DOMAIN T, u \in Track :
            /\ k \in DOMAIN T => k \in D /\ u.oldest <= T[k].oldest /\ u.n <= T[k].n + 1
            /\ k \notin DOMAIN T => u.n <= 1
            /\ u.oldest <= CreatedAt[e]
            /\ Tracked(l, p)' = After(T, D, k, u)
            /\ passed' = [passed EXCEPT ![l][p] = Rest(@, p, D, k) \union {e}]
       /\ IF p = "chat_limiter" THEN chats' = [chats EXCEPT ![l] = chats'[l]] /\ UNCHANGED npubs
                                ELSE npubs' = [npubs EXCEPT ![l] = npubs'[l]] /\ UNCHANGED chats
Holds(l, p) ==
    LET T == Tracked(l, p)
        k == Filed(p, work[l].ev)
    IN /\ Busy(l) /\ Done(l) /\ UNCHANGED <<pipes, npubs, chats, passed, full, retried>>
       /\ held' = [held EXCEPT ![l][p] = @ \union {work[l].ev}]
       /\ k \in DOMAIN T /\ T[k].n >= Limit(p) /\ CreatedAt[work[l].ev] <= T[k].oldest

\* Passing on, ending and giving up leave nothing unaccounted for.
LEMMA HandIsKept ==
  ASSUME Types, NEW l \in Lines, Busy(l),
         \/ Done(l) /\ UNCHANGED retried
         \/ Failed(l)
         \/ UNCHANGED retried /\ \E c : Pass(l, c)
  PROVE  InHand
  <1>1. CASE Done(l) /\ UNCHANGED retried
    <2>1. \A m \in Lines : m # l => work'[m] = work[m]
      BY Zenon, <1>1 DEF Done, Types
    <2>2. \A m \in Lines : Busy(m) => work[m].at >= work[m].at
      BY BusyWork DEF Work
    <2> QED BY Zenon, <1>1, <2>1, <2>2 DEF Done, InHand, Busy
  <1>2. CASE Failed(l)
    <2>1. \A m \in Lines : m # l => work'[m] = work[m]
      BY Zenon, <1>2 DEF Failed, Types
    <2>2. \A m \in Lines : Busy(m) => work[m].at >= work[m].at
      BY BusyWork DEF Work
    <2> QED BY Zenon, <1>2, <2>1, <2>2 DEF Failed, InHand, Busy
  <1>3. ASSUME UNCHANGED retried, NEW c, Pass(l, c) PROVE InHand
    <2>1. \A m \in Lines : m # l => work'[m] = work[m]
      BY Zenon, <1>3 DEF Pass, Types
    <2>2. \A m \in Lines : Busy(m) => work[m].at >= work[m].at
      BY BusyWork DEF Work
    <2> DEFINE w == [form |-> work[l].form, ev |-> work[l].ev, content |-> c, at |-> work[l].at + 1]
    <2>3. work'[l] = w
      BY Zenon, <1>3 DEF Pass, Types
    <2>4. w # Idle /\ w.ev = work[l].ev /\ w.at >= work[l].at
      BY SMTT(30), BusyWork DEF Idle, Work
    <2> HIDE DEF w
    <2> QED BY Zenon, <1>3, <2>1, <2>2, <2>3, <2>4 DEF Pass, InHand, Busy
  <1> QED BY Zenon, <1>1, <1>2, <1>3

\* So do the steps that take nothing in hand.
LEMMA HandsKept ==
  ASSUME Types, settled \subseteq settled', UNCHANGED retried,
         \A l \in Lines : Busy(l) => work'[l] = work[l]
  PROVE  InHand
  <1>1. \A m \in Lines : Busy(m) => work[m].at >= work[m].at
    BY BusyWork DEF Work
  <1> QED BY Zenon, <1>1 DEF InHand, Busy

\* The steps without a limiter.
LEMMA ElsewhereKinds ==
  ASSUME Types, [Next]_vars, \A l \in Lines : ~NpubLimiter(l) /\ ~ChatLimiter(l)
  PROVE  Elsewhere
  <1>1. CASE UNCHANGED vars
    <2>1. UNCHANGED <<settled, retried, work, pipes, npubs, chats, passed, held, full>>
      BY Zenon, <1>1 DEF vars, state, history, limits
    <2> QED BY Zenon, <2>1, HandsKept DEF Elsewhere
  <1>2. CASE SignerTurns
    <2>1. UNCHANGED <<settled, retried, work, pipes, npubs, chats, passed, held, full>>
      BY Zenon, <1>2 DEF SignerTurns, state, history, limits
    <2> QED BY Zenon, <2>1, HandsKept DEF Elsewhere
  <1>3. ASSUME NEW l \in Lines, Arrive(l) \/ CacheAnswers(l) \/ TakeEose(l) \/ TakeEoce(l) PROVE Elsewhere
    <2>1. UNCHANGED <<settled, retried, work, pipes, npubs, chats, passed, held, full>>
      BY Zenon, <1>3 DEF Arrive, CacheAnswers, TakeEose, TakeEoce, state, history, limits
    <2> QED BY Zenon, <2>1, HandsKept DEF Elsewhere
  <1>4. ASSUME NEW l \in Lines, Take(l) PROVE Elsewhere
    <2>1. UNCHANGED <<retried, pipes, npubs, chats, passed, held>> /\ ~Busy(l)
      BY Zenon, <1>4 DEF Take, Busy, state, limits
    <2>2. settled \subseteq settled' /\ (full => full')
      BY Zenon, <1>4 DEF Take, Remember
    <2>3. \A m \in Lines : Busy(m) => work'[m] = work[m]
      BY Zenon, <1>4, <2>1 DEF Take, Types
    <2> QED BY Zenon, <2>1, <2>2, <2>3, HandsKept DEF Elsewhere
  <1>5. ASSUME NEW l \in Lines, SkipForCached(l) \/ PastLast(l) \/ KindFilter(l) \/ MuteFilter(l) \/ SaveToDb(l)
        PROVE  Elsewhere
    <2>1. /\ UNCHANGED <<retried, pipes, npubs, chats, passed, held, full>> /\ Busy(l)
          /\ Done(l) \/ \E c : Pass(l, c)
      <3>1. CASE SkipForCached(l) BY Zenon, <3>1 DEF SkipForCached, Busy, state, limits
      <3>2. CASE PastLast(l) BY Zenon, <3>2 DEF PastLast, Busy, state, limits
      <3>3. CASE KindFilter(l) BY Zenon, <3>3 DEF KindFilter, At, Busy, state, limits
      <3>4. CASE MuteFilter(l) BY Zenon, <3>4 DEF MuteFilter, At, Busy, state, limits
      <3>5. CASE SaveToDb(l) BY Zenon, <3>5 DEF SaveToDb, At, Busy, state, limits
      <3> QED BY Zenon, <1>5, <3>1, <3>2, <3>3, <3>4, <3>5
    <2> QED BY Zenon, <2>1, HandIsKept DEF Elsewhere
  <1>6. ASSUME NEW l \in Lines, SerializeEvents(l) \/ Counter(l) \/ ProofVerification(l) PROVE Elsewhere
    <2>1. /\ UNCHANGED <<retried, pipes, npubs, chats, passed, held, full>> /\ Busy(l)
          /\ Done(l) \/ \E c : Pass(l, c)
      BY Zenon, <1>6 DEF SerializeEvents, Counter, ProofVerification, At, Busy, state, limits
    <2> QED BY Zenon, <2>1, HandIsKept DEF Elsewhere
  <1>7. ASSUME NEW l \in Lines, Parse(l) PROVE Elsewhere
    <2>1. UNCHANGED <<pipes, npubs, chats, passed, held, full>> /\ Busy(l)
      BY Zenon, <1>7 DEF Parse, At, Busy, state, limits
    <2>2. Failed(l) \/ (UNCHANGED retried /\ (Done(l) \/ \E c : Pass(l, c)))
      BY Zenon, <1>7 DEF Parse
    <2> QED BY Zenon, <2>1, <2>2, HandIsKept DEF Elsewhere
  <1> QED BY Zenon, <1>1, <1>2, <1>3, <1>4, <1>5, <1>6, <1>7 DEF Next, Handle

\* What a limiter counts an event as.
LEMMA AdmitFacts ==
  ASSUME NEW t \in Track, NEW e \in Events
  PROVE  /\ Admit(t, e) \in Track /\ Admit(t, e).n = t.n + 1
         /\ Admit(t, e).oldest <= t.oldest /\ Admit(t, e).oldest <= CreatedAt[e]
  <1>1. CreatedAt[e] \in Nat
    BY PipelineAssumption
  <1> QED BY <1>1 DEF Admit, Track

\* The record of an event's key before it is let through.
LEMMA FreshFacts ==
  ASSUME NEW T \in Maps, NEW e \in Events, NEW k, NEW t, t = IF k \in DOMAIN T THEN T[k] ELSE Fresh(e)
  PROVE  /\ t \in Track
         /\ k \notin DOMAIN T => t.n = 0
  <1>1. CreatedAt[e] \in Nat
    BY PipelineAssumption
  <1>2. Fresh(e) \in Track /\ Fresh(e).n = 0
    BY <1>1 DEF Fresh, Track
  <1>3. k \in DOMAIN T => T[k] \in Track
    BY Zenon DEF Maps
  <1> QED BY Zenon, <1>2, <1>3

\* A limiter lets an event through with a record of its key that counts one more.
LEMMA LetsThrough ==
  ASSUME HeldInv, NEW l \in Lines, NEW p \in Limiters, At(l, p), UNCHANGED retried,
         NEW T, Tracked(l, p) = T, NEW k \in Keys, Filed(p, work[l].ev) = k,
         NEW D \in SUBSET DOMAIN T, NEW u \in Track, NEW F, LetThrough(l, p, F),
         k \in DOMAIN T => k \in D /\ u.oldest <= T[k].oldest /\ u.n <= T[k].n + 1,
         k \notin DOMAIN T => u.n <= 1,
         u.oldest <= CreatedAt[work[l].ev],
         Tracked(l, p)' = After(T, D, k, u),
         passed[l][p] \ F = Rest(passed[l][p], p, D, k),
         IF p = "chat_limiter" THEN chats' = [chats EXCEPT ![l] = chats'[l]] /\ UNCHANGED npubs
                               ELSE npubs' = [npubs EXCEPT ![l] = npubs'[l]] /\ UNCHANGED chats
  PROVE  Lets(l, p)
  <1>1. /\ Busy(l) /\ Pass(l, work[l].content) /\ work[l].at <= Len(pipes[l]) /\ pipes[l][work[l].at] = p
        /\ UNCHANGED <<pipes, held, full, retried>>
    BY Zenon DEF At, LetThrough, Busy
  <1>2. passed' = [passed EXCEPT ![l][p] = Rest(@, p, D, k) \union {work[l].ev}]
    BY Zenon DEF LetThrough
  <1> QED BY Zenon, <1>1, <1>2 DEF Lets

\* What a limiter let through is filed under the keys it tracks.
LEMMA PassedFiled ==
  ASSUME HeldInv, NEW l \in Lines, NEW p \in Limiters, NEW k
  PROVE  \A T : Tracked(l, p) = T => passed[l][p] \ {} = Rest(passed[l][p], p, DOMAIN T, k)
  BY Zenon DEF HeldInv, Limited, Rest

\* The limiter of pubkeys.
LEMMA NpubKinds ==
  ASSUME HeldInv, NEW l \in Lines, NpubLimiter(l)
  PROVE  Elsewhere \/ Lets(l, "npub_limiter") \/ Holds(l, "npub_limiter")
  <1> DEFINE p == "npub_limiter"
             e == work[l].ev
             k == Npub[e]
             T == npubs[l]
             known == k \in DOMAIN T
             t == IF known THEN T[k] ELSE Fresh(e)
  <1>0. p \in Limiters /\ p # "chat_limiter"
    BY Zenon DEF Limiters
  <1>1. Types /\ Busy(l) /\ At(l, p) /\ e \in Events /\ T \in Maps
    BY Zenon, BusyWork DEF NpubLimiter, At, Busy, HeldInv, Inv
  <1>2. UNCHANGED <<chats, retried, pipes, full>>
    BY Zenon DEF NpubLimiter, At
  <1>3. Tracked(l, p) = T /\ Tracked(l, p)' = npubs'[l] /\ Filed(p, e) = k
    BY Zenon, <1>0 DEF Tracked, Filed
  <1>4. t \in Track /\ (~known => t.n = 0)
    BY Zenon, <1>1, FreshFacts
  <1>5. CASE (Pass(l, work[l].content) \/ Done(l)) /\ UNCHANGED <<npubs, limits>>
    BY Zenon, <1>1, <1>2, <1>5, HandIsKept DEF Elsewhere, limits
  <1>6. ASSUME NEW u \in Track, npubs' = [npubs EXCEPT ![l] = With(@, k, u)], LetThrough(l, p, {}), k # NoKey,
               known => u.oldest <= t.oldest /\ u.n <= t.n + 1,
               ~known => u.n <= 1, u.oldest <= CreatedAt[e]
        PROVE  Lets(l, p)
    <2>1. k \in Keys
      BY <1>1, <1>6, PipelineAssumption
    <2>2. npubs'[l] = After(T, DOMAIN T, k, u)
      BY Zenon, <1>6 DEF With, After, HeldInv
    <2>3. npubs' = [npubs EXCEPT ![l] = npubs'[l]]
      BY Zenon, <1>6 DEF HeldInv
    <2>4. passed[l][p] \ {} = Rest(passed[l][p], p, DOMAIN T, k)
      <3> HIDE DEF p, e, k, T, t
      <3> QED BY Zenon, <1>0, <1>3, PassedFiled
    <2>5. /\ k \in DOMAIN T => k \in DOMAIN T /\ u.oldest <= T[k].oldest /\ u.n <= T[k].n + 1
          /\ k \notin DOMAIN T => u.n <= 1
          /\ u.oldest <= CreatedAt[work[l].ev]
      BY Zenon, <1>6
    <2>6. Tracked(l, p)' = After(T, DOMAIN T, k, u)
      BY Zenon, <1>3, <2>2
    <2>7. Tracked(l, p) = T /\ Filed(p, work[l].ev) = k /\ At(l, p) /\ UNCHANGED <<retried, chats>> /\ LetThrough(l, p, {})
      BY Zenon, <1>1, <1>2, <1>3, <1>6
    <2> HIDE DEF p, e, k, T, t
    <2> QED BY Zenon, <1>0, <2>1, <2>3, <2>4, <2>5, <2>6, <2>7, LetsThrough
  <1>7. CASE k # NoKey /\ (~known \/ t.n < LimitPerNpub) /\ LetThrough(l, p, {})
             /\ npubs' = [npubs EXCEPT ![l] = With(@, k, Admit(t, e))]
    <2>1. /\ Admit(t, e) \in Track /\ Admit(t, e).n = t.n + 1
          /\ Admit(t, e).oldest <= t.oldest /\ Admit(t, e).oldest <= CreatedAt[e]
      BY Zenon, <1>1, <1>4, AdmitFacts
    <2> HIDE DEF t, e, k, T
    <2>2. Admit(t, e).n <= t.n + 1 /\ (~known => Admit(t, e).n <= 1)
      BY <1>4, <2>1 DEF Track
    <2> QED BY Zenon, <1>6, <1>7, <2>1, <2>2
  <1>8. CASE k # NoKey /\ known /\ t.n >= LimitPerNpub /\ CreatedAt[e] > t.oldest /\ LetThrough(l, p, {})
             /\ npubs' = [npubs EXCEPT ![l] = With(@, k, [t EXCEPT !.n = LimitPerNpub])]
    <2> DEFINE u == [t EXCEPT !.n = LimitPerNpub]
    <2>1. CreatedAt[e] \in Nat /\ LimitPerNpub \in Nat
      BY Zenon, <1>1, PipelineAssumption
    <2>2. u \in Track /\ u.oldest <= t.oldest /\ u.n <= t.n + 1 /\ u.oldest <= CreatedAt[e]
      <3> HIDE DEF t, e, k, T
      <3> QED BY <1>4, <1>8, <2>1 DEF Track
    <2> HIDE DEF u
    <2>3. npubs' = [npubs EXCEPT ![l] = With(@, k, u)]
      BY Zenon, <1>8 DEF u
    <2> QED BY Zenon, <1>6, <1>8, <2>2, <2>3
  <1>9. CASE known /\ t.n >= LimitPerNpub /\ CreatedAt[e] <= t.oldest /\ Hold(l, p) /\ UNCHANGED npubs
    <2>1. T[k].n >= Limit(p) /\ CreatedAt[e] <= T[k].oldest /\ k \in DOMAIN T
      BY Zenon, <1>0, <1>9 DEF Limit
    <2> QED BY Zenon, <1>1, <1>2, <1>3, <1>9, <2>1 DEF Holds, Hold
  <1>10. \/ (Pass(l, work[l].content) \/ Done(l)) /\ UNCHANGED <<npubs, limits>>
         \/ k # NoKey /\ (~known \/ t.n < LimitPerNpub) /\ LetThrough(l, p, {})
              /\ npubs' = [npubs EXCEPT ![l] = With(@, k, Admit(t, e))]
         \/ k # NoKey /\ known /\ t.n >= LimitPerNpub /\ CreatedAt[e] > t.oldest /\ LetThrough(l, p, {})
              /\ npubs' = [npubs EXCEPT ![l] = With(@, k, [t EXCEPT !.n = LimitPerNpub])]
         \/ known /\ t.n >= LimitPerNpub /\ CreatedAt[e] <= t.oldest /\ Hold(l, p) /\ UNCHANGED npubs
    BY Zenon DEF NpubLimiter
  <1> QED BY Zenon, <1>5, <1>7, <1>8, <1>9, <1>10

\* The limiter of chats.
LEMMA ChatKindsOf ==
  ASSUME HeldInv, NEW l \in Lines, ChatLimiter(l)
  PROVE  Elsewhere \/ Lets(l, "chat_limiter") \/ Holds(l, "chat_limiter")
  <1> DEFINE p == "chat_limiter"
             e == work[l].ev
             k == Chat[e]
             T == chats[l]
             victims == Victims(l, k)
             t == IF k \in DOMAIN T THEN T[k] ELSE Fresh(e)
             u == Admit(t, e)
             forgotten == {x \in passed[l][p] : Chat[x] # k /\ Chat[x] \notin DOMAIN chats'[l]}
  <1>0. p \in Limiters
    BY Zenon DEF Limiters
  <1>1. Types /\ Busy(l) /\ At(l, p) /\ e \in Events /\ T \in Maps
    BY Zenon, BusyWork DEF ChatLimiter, At, Busy, HeldInv, Inv
  <1>2. UNCHANGED <<npubs, retried, pipes, full>>
    BY Zenon DEF ChatLimiter, At
  <1>3. Tracked(l, p) = T /\ Tracked(l, p)' = chats'[l] /\ Filed(p, e) = k /\ \A x : Filed(p, x) = Chat[x]
    BY Zenon DEF Tracked, Filed
  <1>4. t \in Track /\ (k \notin DOMAIN T => t.n = 0)
    BY Zenon, <1>1, FreshFacts
  <1>5. CASE (Pass(l, work[l].content) \/ Done(l)) /\ UNCHANGED <<chats, limits>>
    BY Zenon, <1>1, <1>2, <1>5, HandIsKept DEF Elsewhere, limits
  <1>6. k # NoKey => k \in Keys
    BY Zenon, <1>1, PipelineAssumption
  <1>7. CASE /\ k # NoKey /\ t.n < LimitPerChat /\ LetThrough(l, p, forgotten)
             /\ \/ victims = {} /\ chats' = [chats EXCEPT ![l] = With(@, k, u)]
                \/ \E v \in victims : chats' = [chats EXCEPT ![l] = With(Without(@, v), k, u)]
    <2>1. u \in Track /\ u.n = t.n + 1 /\ u.oldest <= t.oldest /\ u.oldest <= CreatedAt[e]
      BY Zenon, <1>1, <1>4, AdmitFacts
    <2>2. ASSUME NEW D \in SUBSET DOMAIN T, k \in DOMAIN T => k \in D,
                 chats' = [chats EXCEPT ![l] = chats'[l]],
                 chats'[l] = After(T, D, k, u)
          PROVE  Lets(l, p)
      <3>1. DOMAIN chats'[l] = D \union {k}
        BY Zenon, <2>2 DEF After
      <3>2. passed[l][p] \ forgotten = Rest(passed[l][p], p, D, k)
        BY <1>3, <3>1 DEF Rest
      <3>3. t.n = t.n + 0 /\ u.n <= t.n + 1 /\ (k \notin DOMAIN T => u.n <= 1)
        <4> HIDE DEF u, t, T, k
        <4> QED BY <1>4, <2>1 DEF Track
      <3>4. k \in DOMAIN T => t = T[k]
        BY Zenon
      <3> HIDE DEF p, e, k, T, t, u, forgotten
      <3>5. k \in DOMAIN T => k \in D /\ u.oldest <= T[k].oldest /\ u.n <= T[k].n + 1
        BY Zenon, <2>1, <2>2, <3>3, <3>4
      <3>6. Tracked(l, p)' = After(T, D, k, u)
        BY Zenon, <1>3, <2>2
      <3>7. /\ Tracked(l, p) = T /\ Filed(p, work[l].ev) = k /\ At(l, p) /\ UNCHANGED <<retried, npubs>>
            /\ LetThrough(l, p, forgotten) /\ k \in Keys /\ u.oldest <= CreatedAt[work[l].ev] /\ u \in Track
        BY Zenon, <1>1, <1>2, <1>3, <1>6, <1>7, <2>1 DEF e
      <3>8. IF p = "chat_limiter" THEN chats' = [chats EXCEPT ![l] = chats'[l]] /\ UNCHANGED npubs
                                  ELSE npubs' = [npubs EXCEPT ![l] = npubs'[l]] /\ UNCHANGED chats
        BY Zenon, <2>2, <3>7 DEF p
      <3> QED BY ZenonT(30), <1>0, <2>2, <3>2, <3>3, <3>5, <3>6, <3>7, <3>8, LetsThrough
    <2>3. CASE chats' = [chats EXCEPT ![l] = With(@, k, u)]
      <3>1. chats'[l] = After(T, DOMAIN T, k, u)
        BY Zenon, <2>3 DEF With, After, HeldInv
      <3>2. chats' = [chats EXCEPT ![l] = chats'[l]]
        BY Zenon, <2>3 DEF HeldInv
      <3> HIDE DEF k, T, u
      <3> QED BY Zenon, <2>2, <3>1, <3>2
    <2>4. ASSUME NEW v \in victims, chats' = [chats EXCEPT ![l] = With(Without(@, v), k, u)] PROVE Lets(l, p)
      <3>1. k \notin DOMAIN T
        BY Zenon, <2>4 DEF Victims
      <3> DEFINE D == DOMAIN T \ {v}
      <3>2. chats'[l] = With(Without(T, v), k, u) /\ chats' = [chats EXCEPT ![l] = chats'[l]]
        BY Zenon, <2>4 DEF HeldInv
      <3> HIDE DEF k, T, u
      <3>3. DOMAIN Without(T, v) = D /\ \A d \in D : Without(T, v)[d] = T[d]
        BY Zenon DEF Without
      <3>4. chats'[l] = After(T, D, k, u)
        BY <3>2, <3>3 DEF With, After
      <3> QED BY Zenon, <2>2, <3>1, <3>2, <3>4
    <2> QED BY Zenon, <1>7, <2>3, <2>4
  <1>8. CASE k # NoKey /\ t.n >= LimitPerChat /\ CreatedAt[e] > t.oldest /\ LetThrough(l, p, {}) /\ UNCHANGED chats
    <2>1. CreatedAt[e] \in Nat /\ LimitPerChat \in Nat \ {0}
      BY <1>1, PipelineAssumption
    <2>2. k \in DOMAIN T
      <3> HIDE DEF t, T, k
      <3> QED BY SMTT(30), <1>4, <1>8, <2>1 DEF Track
    <2>3. t = T[k]
      BY Zenon, <2>2
    <2> HIDE DEF t, T, k, e
    <2>4. t.oldest <= T[k].oldest /\ t.n <= T[k].n + 1 /\ t.oldest <= CreatedAt[e]
      BY <1>4, <1>8, <2>1, <2>3 DEF Track
    <2>5. T = After(T, DOMAIN T, k, t)
      <3>1. T = [d \in DOMAIN T |-> T[d]]
        BY Zenon, <1>1 DEF Maps
      <3> QED BY <2>2, <2>3, <3>1 DEF After
    <2>6. chats' = [chats EXCEPT ![l] = chats'[l]] /\ chats'[l] = T
      BY Zenon, <1>8 DEF T, HeldInv
    <2>7. passed[l][p] \ {} = Rest(passed[l][p], p, DOMAIN T, k)
      <3>1. Tracked(l, p) = T
        BY Zenon, <1>3
      <3> HIDE DEF p
      <3> QED BY Zenon, <1>0, <3>1, PassedFiled
    <2>8. Tracked(l, p)' = After(T, DOMAIN T, k, t)
      BY Zenon, <1>3, <2>5, <2>6
    <2>9. /\ Tracked(l, p) = T /\ Filed(p, work[l].ev) = k /\ At(l, p) /\ UNCHANGED <<retried, npubs>>
          /\ LetThrough(l, p, {}) /\ k \in Keys /\ t.oldest <= CreatedAt[work[l].ev] /\ t \in Track
      BY Zenon, <1>1, <1>2, <1>3, <1>4, <1>6, <1>8, <2>4 DEF e
    <2> QED BY Zenon, <1>0, <2>2, <2>4, <2>6, <2>7, <2>8, <2>9, LetsThrough
  <1>9. CASE t.n >= LimitPerChat /\ CreatedAt[e] <= t.oldest /\ Hold(l, p) /\ UNCHANGED chats
    <2>1. k \in DOMAIN T
      <3>1. LimitPerChat \in Nat \ {0}
        BY Zenon, PipelineAssumption
      <3> HIDE DEF t, T, k
      <3> QED BY <1>4, <1>9, <3>1 DEF Track
    <2>2. T[k].n >= Limit(p) /\ CreatedAt[e] <= T[k].oldest
      BY Zenon, <1>9, <2>1 DEF Limit
    <2> QED BY Zenon, <1>1, <1>2, <1>3, <1>9, <2>1, <2>2 DEF Holds, Hold
  <1>10. \/ (Pass(l, work[l].content) \/ Done(l)) /\ UNCHANGED <<chats, limits>>
         \/ /\ k # NoKey /\ t.n < LimitPerChat /\ LetThrough(l, p, forgotten)
            /\ \/ victims = {} /\ chats' = [chats EXCEPT ![l] = With(@, k, u)]
               \/ \E v \in victims : chats' = [chats EXCEPT ![l] = With(Without(@, v), k, u)]
         \/ k # NoKey /\ t.n >= LimitPerChat /\ CreatedAt[e] > t.oldest /\ LetThrough(l, p, {}) /\ UNCHANGED chats
         \/ t.n >= LimitPerChat /\ CreatedAt[e] <= t.oldest /\ Hold(l, p) /\ UNCHANGED chats
    BY Zenon DEF ChatLimiter
  <1> QED BY Zenon, <1>5, <1>7, <1>8, <1>9, <1>10

\* A step that lets nothing new through keeps what the limiters know.
LEMMA HeldKeptElsewhere ==
  ASSUME HeldInv, Inv', InHand, UNCHANGED <<pipes, npubs, chats, passed>>, full => full',
         held' \in [Lines -> [Limiters -> SUBSET Events]]
  PROVE  HeldInv'
  <1>1. ASSUME NEW l \in Lines, NEW p \in Limiters
        PROVE  IsFiniteSet(passed'[l][p]) /\ Limited(Tracked(l, p)', passed'[l][p], p, retried', full')
    <2>1. IsFiniteSet(passed[l][p]) /\ Limited(Tracked(l, p), passed[l][p], p, retried, full)
      BY Zenon DEF HeldInv
    <2>2. Tracked(l, p)' = Tracked(l, p) /\ passed'[l][p] = passed[l][p]
      BY Zenon DEF Tracked
    <2>3. retried \subseteq retried'
      BY Zenon DEF InHand
    <2>4. Limited(Tracked(l, p), passed[l][p], p, retried', full')
      BY <2>1, <2>3, LimitedWeakens
    <2> QED BY Zenon, <2>1, <2>2, <2>4
  <1>2. Located'
    <2> SUFFICES ASSUME NEW l \in Lines, NEW p \in Limiters, NEW x \in passed[l][p],
                        x \notin retried', x \notin settled'
                 PROVE  Busy(l)' /\ work'[l].ev = x /\ \E i \in 1..(work'[l].at - 1) : pipes'[l][i] = p
      BY Zenon DEF Located
    <2>0. Located /\ x \notin retried /\ x \notin settled
      BY Zenon DEF HeldInv, InHand
    <2>a. x \in retried \/ x \in settled
            \/ (Busy(l) /\ work[l].ev = x /\ \E i \in 1..(work[l].at - 1) : pipes[l][i] = p)
      BY Zenon, <2>0 DEF Located
    <2>1. Busy(l) /\ work[l].ev = x
      BY Zenon, <2>0, <2>a
    <2>2. PICK i \in 1..(work[l].at - 1) : pipes[l][i] = p
      BY Zenon, <2>0, <2>a
    <2>3. work'[l] # Idle /\ work'[l].ev = x /\ work'[l].at >= work[l].at
      BY Zenon, <2>1 DEF InHand
    <2>4. work[l] \in Work /\ work'[l] \in Work
      BY Zenon, <2>1, <2>3 DEF HeldInv, Inv, Types, Busy
    <2>5. i \in 1..(work'[l].at - 1)
      BY <2>2, <2>3, <2>4 DEF Work
    <2> QED BY Zenon, <2>2, <2>3, <2>5 DEF Busy
  <1> QED BY Zenon, <1>1, <1>2 DEF HeldInv

\* What a limiter lets through it had not let through before, or it was given up.
LEMMA NotYetPassed ==
  ASSUME HeldInv, NEW l \in Lines, NEW p \in Limiters, Busy(l), work[l].at <= Len(pipes[l]),
         pipes[l][work[l].at] = p, ~full, work[l].ev \notin retried
  PROVE  work[l].ev \notin passed[l][p]
  <1> SUFFICES ASSUME work[l].ev \in passed[l][p] PROVE FALSE
    BY Zenon
  <1>1. work[l].ev \notin settled
    BY Zenon DEF HeldInv, Inv, Accounts
  <1>l. Located
    BY Zenon DEF HeldInv
  <1>a. work[l].ev \in retried \/ work[l].ev \in settled \/ \E i \in 1..(work[l].at - 1) : pipes[l][i] = p
    BY SMTT(30), <1>l DEF Located
  <1>2. PICK i \in 1..(work[l].at - 1) : pipes[l][i] = p
    BY Zenon, <1>1, <1>a
  <1>3. work[l] \in Work /\ pipes[l] \in Seq(Pipes) /\ NoRepeat(pipes[l])
    BY Zenon, BusyWork DEF HeldInv, Inv
  <1>4. i \in 1..Len(pipes[l]) /\ work[l].at \in 1..Len(pipes[l]) /\ i # work[l].at
    BY <1>2, <1>3 DEF Work
  <1> QED BY Zenon, <1>2, <1>3, <1>4 DEF NoRepeat

\* Letting an event through keeps what the limiters know.
LEMMA HeldKeptLets ==
  ASSUME HeldInv, Inv', NEW l \in Lines, NEW p \in Limiters, Lets(l, p)
  PROVE  HeldInv'
  <1> DEFINE T == Tracked(l, p)
             e == work[l].ev
             k == Filed(p, e)
             P == passed[l][p]
  <1>1. /\ Busy(l) /\ Pass(l, work[l].content) /\ work[l].at <= Len(pipes[l]) /\ pipes[l][work[l].at] = p
        /\ UNCHANGED <<pipes, held, full, retried>> /\ k \in Keys
        /\ IF p = "chat_limiter" THEN chats' = [chats EXCEPT ![l] = chats'[l]] /\ UNCHANGED npubs
                                 ELSE npubs' = [npubs EXCEPT ![l] = npubs'[l]] /\ UNCHANGED chats
    BY Zenon DEF Lets
  <1>2. PICK D \in SUBSET DOMAIN T, u \in Track :
            /\ k \in DOMAIN T => k \in D /\ u.oldest <= T[k].oldest /\ u.n <= T[k].n + 1
            /\ k \notin DOMAIN T => u.n <= 1
            /\ u.oldest <= CreatedAt[e]
            /\ Tracked(l, p)' = After(T, D, k, u)
            /\ passed' = [passed EXCEPT ![l][p] = Rest(@, p, D, k) \union {e}]
    BY Zenon DEF Lets
  <1>3. T \in Maps /\ e \in Events /\ P \in SUBSET Events /\ full \in BOOLEAN
    <2>1. Types /\ npubs[l] \in Maps /\ chats[l] \in Maps /\ P \in SUBSET Events
      BY Zenon DEF HeldInv, Inv
    <2> QED BY Zenon, <1>1, <2>1, BusyWork DEF Types, Tracked
  <1>4. IsFiniteSet(P) /\ Limited(T, P, p, retried, full)
    BY Zenon DEF HeldInv
  <1>5. ~full /\ e \notin retried => e \notin P
    BY Zenon, <1>1, NotYetPassed
  <1>6. /\ Limited(After(T, D, k, u), Rest(P, p, D, k) \union {e}, p, retried, full)
        /\ IsFiniteSet(Rest(P, p, D, k) \union {e})
    <2> HIDE DEF T, e, P
    <2> QED BY <1>2, <1>3, <1>4, <1>5, LimitedGrows
  <1>7. passed'[l][p] = Rest(P, p, D, k) \union {e}
    BY Zenon, <1>2 DEF HeldInv
  <1>8. \A m \in Lines : \A q \in Limiters : (m # l \/ q # p) => passed'[m][q] = passed[m][q]
    BY Zenon, <1>2 DEF HeldInv
  <1>9. passed' \in [Lines -> [Limiters -> SUBSET Events]]
    <2>1. Rest(P, p, D, k) \union {e} \in SUBSET Events
      BY Zenon, <1>3 DEF Rest
    <2> HIDE DEF e, k, P
    <2> QED BY Zenon, <1>2, <2>1 DEF HeldInv, P
  <1>10. \A m \in Lines : \A q \in Limiters : (m # l \/ q # p) => Tracked(m, q)' = Tracked(m, q)
    <2>1. p \in {"npub_limiter", "chat_limiter"} /\ "npub_limiter" # "chat_limiter"
      BY Zenon DEF Limiters
    <2>2. \A m \in Lines : m # l => chats'[m] = chats[m] /\ npubs'[m] = npubs[m]
      BY Zenon, <1>1 DEF HeldInv
    <2>3. p = "chat_limiter" => UNCHANGED npubs
      BY Zenon, <1>1
    <2>4. p = "npub_limiter" => UNCHANGED chats
      BY Zenon, <1>1, <2>1
    <2> QED BY Zenon, <2>1, <2>2, <2>3, <2>4 DEF Tracked, Limiters
  <1>11. npubs' \in [Lines -> Maps] /\ chats' \in [Lines -> Maps]
    <2>1. After(T, D, k, u) \in Maps
      <3>1. DOMAIN T \subseteq Keys /\ \A d \in DOMAIN T : T[d] \in Track
        BY Zenon, <1>3 DEF Maps
      <3> HIDE DEF T, k
      <3>2. D \union {k} \in SUBSET Keys
        BY Zenon, <1>1, <3>1
      <3>3. After(T, D, k, u) \in [D \union {k} -> Track]
        BY Zenon, <3>1 DEF After
      <3> QED BY Zenon, <3>2, <3>3 DEF Maps
    <2>2. p = "chat_limiter" => chats'[l] \in Maps
      BY Zenon, <1>2, <2>1 DEF Tracked
    <2>3. p # "chat_limiter" => npubs'[l] \in Maps
      BY Zenon, <1>2, <2>1 DEF Tracked
    <2> QED BY Zenon, <1>1, <2>2, <2>3 DEF HeldInv
  <1>12. ASSUME NEW m \in Lines, NEW q \in Limiters
         PROVE  IsFiniteSet(passed'[m][q]) /\ Limited(Tracked(m, q)', passed'[m][q], q, retried', full')
    <2> HIDE DEF T, e, P, k
    <2>1. CASE m = l /\ q = p
      BY Zenon, <1>1, <1>2, <1>6, <1>7, <2>1
    <2>2. CASE m # l \/ q # p
      <3>1. IsFiniteSet(passed[m][q]) /\ Limited(Tracked(m, q), passed[m][q], q, retried, full)
        BY Zenon DEF HeldInv
      <3>2. passed'[m][q] = passed[m][q] /\ Tracked(m, q)' = Tracked(m, q) /\ UNCHANGED <<retried, full>>
        BY Zenon, <1>1, <1>8, <1>10, <2>2
      <3> QED BY Zenon, <3>1, <3>2
    <2> QED BY Zenon, <2>1, <2>2
  <1>13. Located'
    <2> DEFINE w == [form |-> work[l].form, ev |-> work[l].ev, content |-> work[l].content, at |-> work[l].at + 1]
    <2>1. work'[l] = w /\ UNCHANGED settled /\ \A m \in Lines : m # l => work'[m] = work[m]
      BY Zenon, <1>1 DEF Pass, HeldInv, Inv, Types
    <2>2. w # Idle /\ w.ev = e /\ w.at = work[l].at + 1 /\ work[l].at \in Nat \ {0}
      BY <1>1, BusyWork DEF Idle, Work, HeldInv, Inv
    <2> HIDE DEF w
    <2> SUFFICES ASSUME NEW m \in Lines, NEW q \in Limiters, NEW x \in passed'[m][q],
                        x \notin retried, x \notin settled
                 PROVE  Busy(m)' /\ work'[m].ev = x /\ \E i \in 1..(work'[m].at - 1) : pipes'[m][i] = q
      BY Zenon, <1>1, <2>1 DEF Located
    <2>3. CASE m = l /\ q = p /\ x = e
      <3>1. work[l].at \in 1..(w.at - 1)
        BY <2>2
      <3> QED BY Zenon, <1>1, <2>1, <2>2, <2>3, <3>1 DEF Busy
    <2>4. CASE x \in passed[m][q]
      <3>1. Busy(m) /\ work[m].ev = x /\ \E i \in 1..(work[m].at - 1) : pipes[m][i] = q
        BY Zenon, <2>4 DEF HeldInv, Located
      <3>2. CASE m # l
        BY Zenon, <1>1, <2>1, <3>1, <3>2 DEF Busy
      <3>3. CASE m = l
        <4>1. \A i \in 1..(work[l].at - 1) : i \in 1..(w.at - 1)
          BY <2>2
        <4> QED BY Zenon, <1>1, <2>1, <2>2, <3>1, <3>3, <4>1 DEF Busy
      <3> QED BY Zenon, <3>2, <3>3
    <2>5. x \in passed[m][q] \/ (m = l /\ q = p /\ x = e)
      <3>1. \A y \in passed'[l][p] : y \in passed[l][p] \/ y = e
        BY Zenon, <1>7 DEF Rest
      <3> HIDE DEF e, k
      <3> QED BY Zenon, <1>8, <3>1
    <2> QED BY Zenon, <2>3, <2>4, <2>5
  <1> QED BY Zenon, <1>1, <1>9, <1>11, <1>12, <1>13 DEF HeldInv

\* Every step keeps what the limiters know, and holds back only what it may.
LEMMA HeldKept ==
  ASSUME HeldInv, [Next]_vars
  PROVE  HeldInv' /\ HeldStep
  <1>t. Types /\ Inv'
    BY Zenon, InvKept DEF HeldInv, Inv
  <1>1. CASE Elsewhere
    <2>1. HeldInv'
      BY Zenon, <1>1, <1>t, HeldKeptElsewhere DEF Elsewhere, HeldInv
    <2>2. HeldStep
      BY Zenon, <1>1 DEF Elsewhere, HeldStep
    <2> QED BY Zenon, <2>1, <2>2
  <1>2. ASSUME NEW l \in Lines, NEW p \in Limiters, Lets(l, p) PROVE HeldInv' /\ HeldStep
    <2>1. HeldStep
      BY Zenon, <1>2 DEF Lets, HeldStep
    <2> QED BY Zenon, <1>2, <1>t, <2>1, HeldKeptLets
  <1>3. ASSUME NEW l \in Lines, NEW p \in Limiters, Holds(l, p) PROVE HeldInv' /\ HeldStep
    <2> DEFINE e == work[l].ev
               T == Tracked(l, p)
    <2>1. /\ Busy(l) /\ Done(l) /\ UNCHANGED <<pipes, npubs, chats, passed, full, retried>>
          /\ held' = [held EXCEPT ![l][p] = @ \union {e}]
          /\ Filed(p, e) \in DOMAIN T /\ T[Filed(p, e)].n >= Limit(p) /\ CreatedAt[e] <= T[Filed(p, e)].oldest
      BY Zenon, <1>3 DEF Holds
    <2>2. e \in Events /\ T \in Maps /\ passed[l][p] \in SUBSET Events /\ full \in BOOLEAN
      <3>1. npubs[l] \in Maps /\ chats[l] \in Maps /\ passed[l][p] \in SUBSET Events
        BY Zenon DEF HeldInv
      <3> QED BY Zenon, <1>t, <2>1, <3>1, BusyWork DEF Types, Tracked
    <2>3. held' \in [Lines -> [Limiters -> SUBSET Events]]
      BY Zenon, <2>1, <2>2 DEF HeldInv
    <2>4. HeldInv'
      BY Zenon, <1>t, <2>1, <2>3, HandIsKept, HeldKeptElsewhere
    <2>5. \A m \in Lines : \A q \in Limiters : \A x \in held'[m][q] \ held[m][q] : m = l /\ q = p /\ x = e
      BY Zenon, <2>1 DEF HeldInv
    <2>6. IsFiniteSet(passed[l][p]) /\ Limited(T, passed[l][p], p, retried, full)
      BY Zenon DEF HeldInv
    <2> HIDE DEF e, T
    <2>7. Rightly(passed[l][p], p, e, retried, full)
      BY Zenon, <2>1, <2>2, <2>6, LimitedHolds
    <2>8. \A m \in Lines : \A q \in Limiters : \A x \in held'[m][q] \ held[m][q] :
            Rightly(passed[m][q], q, x, retried, full)
      BY Zenon, <2>5, <2>7
    <2>9. HeldStep
      BY Zenon, <2>8 DEF HeldStep, Rightly
    <2> QED BY Zenon, <2>4, <2>9
  <1>4. "npub_limiter" \in Limiters /\ "chat_limiter" \in Limiters
    BY Zenon DEF Limiters
  <1> QED BY Zenon, <1>1, <1>2, <1>3, <1>4, <1>t, ElsewhereKinds, NpubKinds, ChatKindsOf

\* A limiter that holds an event back has let newer ones through under the same
\* key, as many as its limit, for every limit and however many keys it forgot
\* (NpubLimiterPipe::process, ChatLimiterPipe::allow).
THEOREM HoldsOldest == Spec => HeldIsOldest
  <1>1. Init => HeldInv
    <2> SUFFICES ASSUME Init PROVE HeldInv
      BY Zenon
    <2>1. PICK c \in [Lines -> Configs] : pipes = [l \in Lines |-> BuildPipeline(c[l])]
      BY Zenon DEF Init
    <2>2. \A d \in Configs : BuildPipeline(d) \in Seq(Pipes) /\ NoRepeat(BuildPipeline(d))
      <3>1. DefaultPipes \in Seq(Pipes) /\ NoRepeat(DefaultPipes)
        BY DEF DefaultPipes, Pipes, NoRepeat
      <3> QED BY Zenon, <3>1, PipelineAssumption DEF BuildPipeline, NoRepeat
    <2>3. pipes \in [Lines -> Seq(Pipes)] /\ \A l \in Lines : NoRepeat(pipes[l])
      BY Zenon, <2>1, <2>2
    <2>4. EmptyMap \in Maps /\ DOMAIN EmptyMap = {}
      BY DEF EmptyMap, Maps
    <2>5. npubs \in [Lines -> Maps] /\ chats \in [Lines -> Maps]
      BY Zenon, <2>4 DEF Init
    <2>6. /\ passed \in [Lines -> [Limiters -> SUBSET Events]] /\ held \in [Lines -> [Limiters -> SUBSET Events]]
          /\ \A l \in Lines : \A p \in Limiters : passed[l][p] = {}
      BY Zenon DEF Init
    <2>7. \A p : Limited(EmptyMap, {}, p, retried, full)
      BY Zenon, <2>4 DEF Limited
    <2>8. \A l \in Lines : \A p \in Limiters : Tracked(l, p) = EmptyMap
      BY Zenon DEF Tracked, Init
    <2> QED BY Zenon, <2>3, <2>5, <2>6, <2>7, <2>8, InitInv, FS_EmptySet DEF HeldInv, Located
  <1>2. HeldInv /\ [Next]_vars => HeldInv'
    BY Zenon, HeldKept
  <1>3. HeldInv /\ [Next]_vars => [HeldStep]_vars
    BY Zenon, HeldKept
  <1> QED BY <1>1, <1>2, <1>3, PTL DEF Spec, HeldIsOldest

=============================================================================
