------------------------------- MODULE MCOtpLogin ------------------------------
(***************************************************************************)
(* OtpLogin on a small instance.  Every bound is a constant of OtpLogin.   *)
(***************************************************************************)
EXTENDS OtpCodes
================================================================================
