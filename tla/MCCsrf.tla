------------------------------- MODULE MCCsrf -------------------------------
(***************************************************************************)
(* A small instance of Csrf for TLC; tabs are interchangeable.             *)
(***************************************************************************)
EXTENDS Csrf, TLC

Symmetry == Permutations(Tabs)

=============================================================================
