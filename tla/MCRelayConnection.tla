------------------------- MODULE MCRelayConnection -------------------------
(***************************************************************************)
(* Instances of RelayConnection for TLC.                                   *)
(***************************************************************************)
EXTENDS RelayConnection

\* The frames of subscriptions, and those of a client that only publishes.
SubFrames == Reqs \union {Close(s) : s \in Subs}
Publishes == {Publish}
=============================================================================
