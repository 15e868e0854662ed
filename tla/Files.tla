------------------------------- MODULE Files -------------------------------
(***************************************************************************)
(* What the file system promises of its files, with no blocks, no list, no *)
(* descriptor table and no programs: which files there are and how long    *)
(* they are, that a file is there for as long as somebody holds it open,   *)
(* and what of it the disk has when the system ends.                       *)
(*                                                                         *)
(* Every call saves what it did before it returns; only when the disk is   *)
(* full may a file be missing from it, and even then nothing that is on    *)
(* disk is lost.  A step relates all files before and after it: a prompt   *)
(* closes several at once.                                                 *)
(***************************************************************************)
EXTENDS Integers

CONSTANTS Name,     \* the names that files may have
          Absent    \* the size of a file there is none of

VARIABLES size,     \* size[x]: how long the file x is
          held,     \* held[x]: how many descriptors name it
          doomed,   \* doomed[x]: it goes when it is closed
          saved,    \* saved[x]: its size on disk, which a restart finds
          full      \* no block is free
vars == <<size, held, doomed, saved, full>>

Exists(x) == size[x] # Absent

\* No holder at all is left when the table of descriptors has no room.
Created(x) ==
  /\ ~Exists(x) /\ size'[x] = 0
  /\ held'[x] \in {0, 1} /\ ~doomed'[x]

\* Opened once more, to be written from its start or else as it is.
Opened(x) ==
  /\ Exists(x) /\ size'[x] \in {0, size[x]}
  /\ held'[x] = held[x] + 1 /\ doomed'[x] = doomed[x]

\* Only a holder writes, and writing never makes a file shorter.
Written(x) ==
  /\ Exists(x) /\ held[x] > 0 /\ size'[x] >= size[x]
  /\ held'[x] = held[x] /\ doomed'[x] = doomed[x]

Closed(x) ==
  /\ Exists(x) /\ size'[x] = size[x]
  /\ held'[x] \in 0..(held[x] - 1) /\ doomed'[x] = doomed[x]

Doomed(x) ==
  /\ Exists(x) /\ size'[x] = size[x]
  /\ held'[x] = held[x] /\ doomed'[x]

\* A file that is held goes only when it is doomed and nobody holds it any more.
Removed(x) ==
  /\ Exists(x) /\ size'[x] = Absent
  /\ held[x] = 0 \/ doomed[x]
  /\ held'[x] = 0 /\ ~doomed'[x]

Rests(x) ==
  size'[x] = size[x] /\ held'[x] = held[x] /\ doomed'[x] = doomed[x]

\* The disk is up to date, or it is full and never had the file.
Saved(x) ==
  \/ saved'[x] = size'[x]
  \/ full' /\ saved[x] = Absent /\ saved'[x] = Absent

\* The end of the system and its next start.
Restart ==
  /\ size' = saved /\ UNCHANGED <<saved, full>>
  /\ held' = [x \in Name |-> 0]
  /\ doomed' = [x \in Name |-> FALSE]

Init ==
  /\ size = [x \in Name |-> Absent]
  /\ held = [x \in Name |-> 0]
  /\ doomed = [x \in Name |-> FALSE]
  /\ saved = size
  /\ full = FALSE

Next ==
  \/ \A x \in Name :
       /\ \/ Rests(x) \/ Created(x) \/ Opened(x) \/ Written(x)
          \/ Closed(x) \/ Doomed(x) \/ Removed(x)
       /\ Saved(x)
  \/ Restart

Spec == Init /\ [][Next]_vars
=============================================================================
