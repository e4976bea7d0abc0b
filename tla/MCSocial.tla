-------------------------------- MODULE MCSocial --------------------------------
(***************************************************************************)
(* Social on small instances.  Users and requests are interchangeable.     *)
(***************************************************************************)
EXTENDS Social, TLC

Symmetry == Permutations(Users) \union Permutations(Requests)
================================================================================
