----------------------------- MODULE MCGateway -----------------------------
(***************************************************************************)
(* Small instances of Gateway.                                             *)
(***************************************************************************)
EXTENDS Gateway, TLC

Symmetry == Permutations(Msgs \ Refused) \cup Permutations(Handlers)
=============================================================================
