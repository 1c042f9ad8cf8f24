----------------------------- MODULE MCBpSockets -----------------------------
(***************************************************************************)
(* A small instance of BpSockets for TLC.                                  *)
(***************************************************************************)
EXTENDS BpSockets, TLC

\* Endpoints are compared for equality only.
Endpoints == Permutations(Endpoint)
=============================================================================
