------------------------------ MODULE Characters ------------------------------
(***************************************************************************)
(* The characters that mean the same to the executor and to the expression *)
(* validator.                                                              *)
(***************************************************************************)
EXTENDS Naturals

Backslash == 92
OpenBrace == 123
CloseBrace == 125

==============================================================================
