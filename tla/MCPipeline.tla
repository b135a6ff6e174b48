----------------------------- MODULE MCPipeline -----------------------------
(* Two encrypted messages of one chat, one that names no recipient, and two  *)
(* token events that share a secret, through a root subscription and a page. *)
EXTENDS Pipeline

CONSTANTS root, page, dm1, dm2, lost, nut1, nut2, alice, bob

MCLines == {root, page}
MCEvents == {dm1, dm2, lost, nut1, nut2}
MCKinds == {4, 9321}
MCKeys == {alice, bob}
MCKind == [e \in MCEvents |-> IF e \in {dm1, dm2, lost} THEN 4 ELSE 9321]
MCCreatedAt == [e \in MCEvents |-> IF e = dm2 THEN 3 ELSE IF e = nut2 THEN 2 ELSE 1]
MCProofs == [e \in MCEvents |-> IF e = nut1 THEN {"s1", "s2"} ELSE IF e = nut2 THEN {"s1", "s3"} ELSE {}]
MCChat == [e \in MCEvents |-> IF e = nut1 THEN bob ELSE IF e = lost THEN NoKey ELSE alice]
MCNpub == MCChat
MCConfigs == {
    <<>>,
    <<"mute", "chat_limiter", "parse", "save", "serialize">>,
    <<"npub_limiter", "save", "parse">>,
    <<"kind_filter", "parse", "counter">>,
    <<"parse", "proofs">>}
\* The lines of a subscription ask for the same pipes.
MCInit == Init /\ \A l, m \in Lines : pipes[l] = pipes[m]
MCSpec == MCInit /\ [][Next]_vars /\ \A l \in Lines : WF_vars(Handle(l))
=============================================================================
