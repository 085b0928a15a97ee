---------------------------- MODULE MCProxiedClients ----------------------------
(* ProxiedClients with one client of each kind.  Values are interchangeable. *)
EXTENDS ProxiedClients, TLC

Symmetry == Permutations(Values)
=============================================================================
