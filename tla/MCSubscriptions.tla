-------------------------- MODULE MCSubscriptions --------------------------
EXTENDS Subscriptions, TLC

Symmetry == Permutations(Relays) \union Permutations(Ids)
=============================================================================
