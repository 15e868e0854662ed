---------------------------- MODULE MCFileSystem ----------------------------
(* Instances of FileSystem for TLC. *)
EXTENDS FileSystem

\* A freed node keeps its start_block.
Kept == {Intact}

\* No definition tells one file name, or one program, from another.
Renamings == Permutations(Names) \cup Permutations(Programs)
=============================================================================
