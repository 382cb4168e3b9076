----------------------------- MODULE MCClients ------------------------------
(***************************************************************************)
(* Clients for a few connections on two descriptors.                       *)
(***************************************************************************)
EXTENDS Clients, TLC

Symmetry == Permutations(Conns)

=============================================================================
