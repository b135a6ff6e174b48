------------------------ MODULE MCConnectionsWorker ------------------------
EXTENDS ConnectionsWorker, TLC

Symmetry == Permutations(Subs) \union Permutations(Relays) \union Permutations(Ids)

\* The frames of s on their way to the parser.
Feed(s) ==
    LET of[i \in 0..Len(toParser)] ==
            IF i = 0 THEN <<>>
            ELSE of[i - 1] \o (IF toParser[i].sub = s THEN toParser[i].items ELSE <<>>)
    IN  of[Len(toParser)] \o batch[s]

\* Batching, sweeping and control frames together keep the promise of SubFeed:
\* what arrived first for a subscription reaches the parser first, nothing is
\* lost and no remembered event is forwarded again.
Abstract == INSTANCE SubFeed WITH
    Cap <- DedupCap,
    seen <- [s \in Subs |-> Range(dedup[s])],
    feed <- [s \in Subs |-> Feed(s)]

OneFeedPerSub == Abstract!Spec
=============================================================================
