----------------------------- MODULE MCTerminal -----------------------------
(* Instances of Terminal for TLC. *)
EXTENDS Terminal

FgOnly     == {FG}
BothGrounds == {FG, BG}
=============================================================================
