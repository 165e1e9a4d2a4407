----------------------------- MODULE MCAdmission -----------------------------
(***************************************************************************)
(* A small instance of Admission for TLC: every form with numbers at the   *)
(* edges of the limits, and every name of up to four symbols on one form.  *)
(***************************************************************************)
EXTENDS Admission

SomeNames == UNION {[1..n -> Char] : n \in 1..4}

SomeForms ==
  [name : {<<Letter>>}, type : Types, declared : Types \cup {Undeclared}, size : 1..3,
   downloads : {Garbled, -1, 0, 100, 101}, hours : {-1, 0, 24, 25, 33}]
  \cup
  [name : SomeNames, type : {Octet}, declared : {Undeclared}, size : {1},
   downloads : {Garbled}, hours : {Garbled}]

=============================================================================
