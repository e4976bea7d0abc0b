------------------------------ MODULE MCPostIndex ------------------------------
(***************************************************************************)
(* PostIndex on a small instance.  Every bound is a constant of PostIndex. *)
(***************************************************************************)
EXTENDS PostIndex
================================================================================
