------------------------------ MODULE MCAdBilling ------------------------------
(***************************************************************************)
(* AdBilling on small instances.  Events are interchangeable.              *)
(***************************************************************************)
EXTENDS AdBilling, TLC

Symmetry == Permutations(Events)
================================================================================
