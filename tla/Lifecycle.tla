----------------------------- MODULE Lifecycle -----------------------------
(***************************************************************************)
(* What PennOS promises about the life of one process, without queues,      *)
(* scheduler or signals' mechanics: the statuses of pcb.h (lines 12-23),    *)
(* "ZOMBIE and KILLED both mean that a process has terminated", "kill all   *)
(* children/grandchildren if current PCB dies/zombifies" (pcb.c, line 8),   *)
(* and memory that is given back only when the process has ended.           *)
(*                                                                         *)
(* Many processes may change in one step: the exit of one wakes its parent *)
(* and removes its children.  A step therefore relates the lives of all    *)
(* processes before and after it.                                          *)
(***************************************************************************)
CONSTANTS Process,     \* the processes there can ever be
          Root,        \* the shell
          NoParent     \* the parent of the shell

VARIABLES life,        \* life[p]: the status of p, or "none", or "gone"
          parent       \* parent[p]: the process that spawned p

Alive == {"READY", "BLOCKED", "STOPPED"}
Dead  == {"ZOMBIE", "KILLED"}

Init ==
  /\ life = [p \in Process |-> IF p = Root THEN "READY" ELSE "none"]
  /\ parent = [p \in Process |-> NoParent]

\* p is spawned by a process that is alive.
Spawned(p) ==
  /\ life[p] = "none" /\ life'[p] = "READY"
  /\ parent'[p] \in Process /\ life[parent'[p]] \in Alive

\* p is blocked, woken, stopped or continued.
Changes(p) == life[p] \in Alive /\ life'[p] \in Alive

\* p terminates: this is final until somebody takes note of it ...
Ends(p) == life[p] \in Alive /\ life'[p] \in Dead

\* ... and then its memory is returned.
Reaped(p) == life[p] \in Dead /\ life'[p] = "gone"

\* The parent of p terminates, or is reaped, and takes p with it.
Orphaned(p) ==
  /\ life[p] \in Alive \cup Dead /\ life'[p] = "gone"
  /\ parent[p] \in Process /\ life'[parent[p]] \in Dead \cup {"gone"}

Rests(p) == life'[p] = life[p]

Next ==
  /\ \A p \in Process :
       \/ Spawned(p) \/ Changes(p) \/ Ends(p) \/ Reaped(p) \/ Orphaned(p)
       \/ Rests(p)
  /\ \A p \in Process : life[p] # "none" => parent'[p] = parent[p]
  /\ \A p, c \in Process :
       parent'[c] = p /\ Ends(p) => life'[c] \in {"none", "gone"}

Spec == Init /\ [][Next]_<<life, parent>>
=============================================================================
