------------------------------ MODULE MCPennOS ------------------------------
(* Instances of PennOS for TLC. *)
EXTENDS PennOS

FgOnly     == {FG}
BothGrounds == {FG, BG}
=============================================================================
