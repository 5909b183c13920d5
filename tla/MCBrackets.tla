----------------------------- MODULE MCBrackets ------------------------------
(* Every word of up to MaxLen characters over the eight classes.            *)
EXTENDS Brackets
==============================================================================
