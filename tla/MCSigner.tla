------------------------------ MODULE MCSigner ------------------------------
(***************************************************************************)
(* Model checking of Signer: the crypto worker with a few signers, logouts *)
(* and requests.                                                           *)
(***************************************************************************)
EXTENDS Signer
=============================================================================
