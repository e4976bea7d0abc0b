-------------------------------- MODULE MCCalls --------------------------------
(***************************************************************************)
(* Calls on small instances.  Users and requests are interchangeable.      *)
(***************************************************************************)
EXTENDS Calls, TLC

Symmetry == Permutations(Users) \union Permutations(Handlers)
================================================================================
