---------------------------- MODULE MCMediaObjects ----------------------------
(***************************************************************************)
(* MediaObjects on small instances.                                        *)
(***************************************************************************)
EXTENDS MediaObjects
================================================================================
