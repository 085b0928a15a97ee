-------------------------------- MODULE MCProxy --------------------------------
(* Proxy with the clients as interchangeable model values.                  *)
EXTENDS Proxy, TLC

ClientSymmetry == Permutations(Clients)
=============================================================================
