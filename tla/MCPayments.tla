------------------------------ MODULE MCPayments ------------------------------
(***************************************************************************)
(* Payments and its refinement on a small instance.  Callback calls are    *)
(* interchangeable, and so are payouts.                                    *)
(***************************************************************************)
EXTENDS PaymentsLedger, TLC

Symmetry == Permutations(Verifiers) \union Permutations(Payouts)
===============================================================================
