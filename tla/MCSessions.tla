------------------------------- MODULE MCSessions ------------------------------
(***************************************************************************)
(* Sessions on a small instance.  Tabs are interchangeable.                *)
(***************************************************************************)
EXTENDS Sessions, TLC

Symmetry == Permutations(Tabs)
================================================================================
