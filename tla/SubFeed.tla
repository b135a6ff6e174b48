------------------------------ MODULE SubFeed ------------------------------
(***************************************************************************)
(* What the connections worker promises the parser, subscription by        *)
(* subscription: the relay frames of a subscription form one first-in      *)
(* first-out feed, whatever relay they come from, in which an event        *)
(* remembered as already forwarded does not appear again.  An id is        *)
(* forgotten when the subscription is closed or, once Cap ids are          *)
(* remembered, to make room for another one.                               *)
(***************************************************************************)
EXTENDS Naturals, Sequences, FiniteSets

CONSTANTS Subs, Items, Ids, Cap

VARIABLES
    seen,   \* seen[s]: ids remembered as forwarded
    feed    \* feed[s]: frames on their way to the parser

vars == <<seen, feed>>

Init ==
    /\ seen = [s \in Subs |-> {}]
    /\ feed = [s \in Subs |-> <<>>]

\* A frame that carries no id of Ids is always let through.
Arrive(s, x) ==
    /\ x.id \notin seen[s]
    /\ feed' = [feed EXCEPT ![s] = Append(@, x)]
    /\ \E old \in SUBSET seen[s] :
         /\ Cardinality(old) <= 1
         /\ old # {} => x.id \in Ids /\ Cardinality(seen[s]) >= Cap
         /\ seen' = [seen EXCEPT ![s] = (@ \ old) \union ({x.id} \intersect Ids)]

Forget(s) ==
    /\ seen' = [seen EXCEPT ![s] = {}]
    /\ UNCHANGED feed

\* The parser takes the frames of one channel message.
Deliver(s) ==
    /\ \E n \in 1..Len(feed[s]) : feed' = [feed EXCEPT ![s] = SubSeq(@, n + 1, Len(@))]
    /\ UNCHANGED seen

Next ==
    \E s \in Subs : (\E x \in Items : Arrive(s, x)) \/ Forget(s) \/ Deliver(s)

Spec == Init /\ [][Next]_vars
=============================================================================
