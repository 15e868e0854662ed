-------------------------------- MODULE Pcb --------------------------------
(***************************************************************************)
(* Process control blocks and the lists they are linked into (src/pcb.c).  *)
(*                                                                         *)
(* A process control block is named by its pid, and NULL is 0.  The memory *)
(* of the kernel is one record k: a field of struct pcb is a function of   *)
(* the pid (k.next[p], k.status[p], ...), a global variable of             *)
(* kernel_functions.c is a plain field (k.cur, k.prevfg, ...).  The four   *)
(* list heads are k.head[q], where q is the priority of a run queue        *)
(* (-1, 0, 1) or ZombieQueue.  All four lists are threaded through the     *)
(* same field k.next, as they are in the C code: a block that sits in two  *)
(* of them, or keeps a stale next, splices one list into the other.        *)
(***************************************************************************)
EXTENDS Integers, Sequences, SequencesExt

CONSTANT MaxPid        \* bound on pid_count: the last pid ever handed out

ASSUME MaxPidAssumption == MaxPid \in Nat \ {0}

NULL == 0
Pid  == 1..MaxPid
Ptr  == 0..MaxPid
Shell == 1             \* run_os() spawns the shell first, with pid_count = 1

RunQueue    == {-1, 0, 1}
ZombieQueue == 2
Queue       == -1..2

Status == {"READY", "BLOCKED", "STOPPED", "ZOMBIE", "KILLED"}
FG == TRUE
BG == FALSE
-----------------------------------------------------------------------------
\* The blocks that the walk `current = current->next` from h visits, when it
\* does not go on from a block in stop: the least set that holds h and, with
\* any other block, the next one.
Visited(next, h, stop) ==
  {p \in Pid :
     \A S \in SUBSET Pid :
       /\ h # NULL => h \in S
       /\ \A x \in S \ stop : next[x] # NULL => next[x] \in S
       => p \in S}

\* The blocks reachable from the head of queue q.
Members(k, q) == Visited(k.next, k.head[q], {})

\* find_next_valid: the first READY block of the walk from h, or NULL.
FindNextValid(k, h) ==
  LET ready == {p \in Pid : k.status[p] = "READY"}
      found == ready \cap Visited(k.next, h, ready)
  IN  IF found = {} THEN NULL ELSE CHOOSE p \in found : TRUE

\* find_PCB_pid, tried on the three run queues.
InRunQueue(k, p) == \E q \in RunQueue : p \in Members(k, q)
-----------------------------------------------------------------------------
\* remove_child_PCB: the loop that shifts the rest of child_list down; the same
\* loop is part of remove_PCB.
RemoveChild(k, p) ==
  IF k.parent[p] = NULL THEN k
  ELSE [k EXCEPT !.kids[k.parent[p]] = RemoveFirst(@, p)]

\* Mutant: the scan for a duplicate is missing.
AddChild_Twice(k, b, c) ==
  [k EXCEPT !.parent[c] = b, !.kids[b] = Append(@, c)]

\* add_child_PCB: c becomes the last child of b unless it is listed already.
AddChild(k, b, c) ==
  IF \E i \in 1..Len(k.kids[b]) : k.kids[b][i] = c THEN k
  ELSE [k EXCEPT !.parent[c] = b, !.kids[b] = Append(@, c)]

\* What has to follow each removal: p goes back into the list of its parent.
RejoinParent(k, p) ==
  IF k.parent[p] = NULL THEN k ELSE AddChild(k, k.parent[p], p)
-----------------------------------------------------------------------------
\* Mutant: the new last block keeps its next.
AddPCB_KeepsNext(k, q, p) ==
  LET h == k.head[q]
  IN  IF h = NULL THEN [k EXCEPT !.head[q] = p]
      ELSE IF p \in Members(k, q) THEN k
      ELSE [k EXCEPT !.next =
              [c \in Pid |-> IF c \in Members(k, q) /\ k.next[c] = NULL THEN p
                             ELSE k.next[c]]]

\* add_PCB(head[q], p).  An empty queue takes p as its head and leaves
\* p->next as it was; otherwise p goes behind the last block, unless the
\* duplicate scan, which stops short of the last block, meets it.
AddPCB(k, q, p) ==
  LET h       == k.head[q]
      members == Members(k, q)
  IN  IF h = NULL THEN [k EXCEPT !.head[q] = p]
      ELSE IF h = p \/ (p \in members /\ k.next[p] # NULL) THEN k
      ELSE [k EXCEPT !.next =
              [c \in Pid |-> IF c = p THEN NULL
                             ELSE IF c \in members /\ k.next[c] = NULL THEN p
                             ELSE k.next[c]]]

\* Mutant: the removed head keeps its next.
Unlink_KeepsNext(k, q, p) ==
  IF k.head[q] = p THEN [k EXCEPT !.head[q] = k.next[p]]
  ELSE [k EXCEPT !.next =
          [c \in Pid |-> IF c \in Members(k, q) /\ k.next[c] = p
                         THEN k.next[p] ELSE k.next[c]]]

\* remove_PCB: p leaves queue q.  Only the removal of the head clears p->next.
Unlink(k, q, p) ==
  IF k.head[q] = p THEN [k EXCEPT !.head[q] = k.next[p], !.next[p] = NULL]
  ELSE [k EXCEPT !.next =
          [c \in Pid |-> IF c \in Members(k, q) /\ k.next[c] = p
                         THEN k.next[p] ELSE k.next[c]]]

\* remove_PCB(head[q], p): also drops p from its parent's child_list.
RemovePCB(k, q, p) ==
  IF p \notin Members(k, q) THEN k ELSE Unlink(RemoveChild(k, p), q, p)

\* add_to_head(head[q], p): p becomes the head, and again a child of its
\* parent; on an empty queue p->next is left as it was.
AddToHead(k, q, p) ==
  IF k.head[q] = NULL THEN [RejoinParent(k, p) EXCEPT !.head[q] = p]
  ELSE [RejoinParent(k, p) EXCEPT !.next[p] = k.head[q], !.head[q] = p]
-----------------------------------------------------------------------------
\* create_PCB for pid p.  malloc does not clear the block and create_PCB does
\* not set next: stale is whatever the memory held there.
CreatePCB(k, p, stale) ==
  [k EXCEPT !.live      = @ \cup {p},
            !.next[p]   = stale,
            !.parent[p] = NULL,
            !.kids[p]   = <<>>,
            !.status[p] = "READY",
            !.prio[p]   = 0,
            !.changed[p] = FALSE,
            !.natty[p]  = FALSE,
            !.sigflag[p] = FALSE,
            !.ground[p] = FG,
            !.sleep[p]  = -1]

\* free_PCB
FreePCB(k, p) == [k EXCEPT !.live = @ \ {p}]

\* set_sleep, for a positive number of scheduler passes.
SetSleep(k, p, passes) ==
  [k EXCEPT !.status[p] = "BLOCKED", !.sleep[p] = passes]
=============================================================================
