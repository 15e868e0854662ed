------------------------------- MODULE Kernel -------------------------------
(***************************************************************************)
(* The kernel calls of src/kernel_functions.c as functions from kernel     *)
(* memory to kernel memory (see Pcb for the record k).  Each operator is   *)
(* one C function, every list operation it performs included; the state    *)
(* machine that calls them is PennOS.                                      *)
(*                                                                         *)
(* Two C loops over child lists are unrolled.  They are exact as long as   *)
(* a process other than the shell has at most two children and no          *)
(* grandchildren: PennOS!TreeShape.  The shell may have any number, but    *)
(* when ^C ends it (see Terminal) they are exact up to three.              *)
(***************************************************************************)
EXTENDS Pcb

CONSTANTS OneLast,     \* last timer_mod that selects priority_queue_one  (4)
          ZeroLast,    \* last timer_mod that selects priority_queue_zero (10)
          Cycle,       \* modulus of timer_mod, and last of queue neg     (19)
          MaxSleep,    \* bound on sleep_time, in scheduler passes
          Recycled     \* malloc hands out freed blocks with what they held

ASSUME SliceAssumption ==
  /\ OneLast \in Nat /\ ZeroLast \in Nat /\ Cycle \in Nat
  /\ 0 < OneLast /\ OneLast < ZeroLast /\ ZeroLast < Cycle

ASSUME SleepAssumption == MaxSleep \in Nat \ {0}

ASSUME MallocAssumption == Recycled \in BOOLEAN

\* Where a thread may be: the points of its code between which it can be
\* preempted.
Context == [who : Pid, pc : {"start", "ground", "run", "asleep", "woken",
                             "top", "groundFG", "groundBG", "scan", "block",
                             "fgcont", "fgscan", "fgblock", "bgcont", "after"}]

\* The types of the C globals and of the fields of struct pcb.
Memory ==
  [ head    : [Queue -> Ptr],           \* priority_queue_*, zombie_queue
    next    : [Pid -> Ptr],
    parent  : [Pid -> Ptr],             \* parent_pcb
    kids    : [Pid -> Seq(Pid)],        \* child_list, num_children
    status  : [Pid -> Status],
    prio    : [Pid -> RunQueue],
    changed : [Pid -> BOOLEAN],
    natty   : [Pid -> BOOLEAN],         \* terminated_natty
    sigflag : [Pid -> BOOLEAN],         \* signal_flag
    ground  : [Pid -> BOOLEAN],
    sleep   : [Pid -> -1..MaxSleep],    \* sleep_time
    ctx     : [Pid -> Context],         \* context: where the thread resumes
    live    : SUBSET Pid,               \* allocated and not yet freed
    count   : 1..(MaxPid + 1),          \* pid_count
    fault   : BOOLEAN,                  \* a null pointer was dereferenced
    cur     : Ptr,                      \* cur_pcb
    prevfg  : Ptr,                      \* prev_fg
    prevcur : Ptr,                      \* prev_cur
    how     : {"TIMEOUT", "NORMAL"},    \* how_finished
    tmod    : 0..Cycle,                 \* timer_mod
    queue   : RunQueue ]                \* current_queue

-----------------------------------------------------------------------------
(***************************************************************************)
(* k_process_create: the block of pid k.count, in queue zero at once.      *)
(* `stale` is what the memory holds in next: NULL, or, when it is recycled, *)
(* the pointer a freed block was left with.                                *)
(***************************************************************************)
Freed(k) == 1..(k.count - 1) \ k.live
StaleNext(k) == {NULL} \cup {k.next[p] : p \in IF Recycled THEN Freed(k) ELSE {}}

KProcessCreate(k, parent, stale, pc) ==
  LET p  == k.count
      k1 == [CreatePCB(k, p, stale) EXCEPT
               !.ctx[p] = [who |-> p, pc |-> pc]]
      k2 == IF parent = NULL THEN k1 ELSE AddChild(k1, parent, p)
  IN  [AddPCB(k2, 0, p) EXCEPT !.prevcur = p, !.count = p + 1]

(***************************************************************************)
(* k_process_terminate.  remove_PCB is tried on all four lists.  While i   *)
(* counts up child_list shrinks, so of one or two children the loop takes  *)
(* exactly the first.                                                      *)
(***************************************************************************)
\* Mutant: the zombie queue is forgotten.
TerminateLeaf_KeepsZombie(k, p) ==
  FreePCB(RemovePCB(RemovePCB(RemovePCB(RemoveChild(k, p), -1, p), 0, p), 1, p), p)

TerminateLeaf(k, p) ==
  LET k1 == RemovePCB(RemoveChild(k, p), ZombieQueue, p)
  IN  FreePCB(RemovePCB(RemovePCB(RemovePCB(k1, -1, p), 0, p), 1, p), p)

KProcessTerminate(k, p) ==
  TerminateLeaf(IF k.kids[p] = <<>> THEN k
                ELSE TerminateLeaf(k, Head(k.kids[p])), p)

(***************************************************************************)
(* k_process_kill.  The list the blocked parent is requeued in is found by *)
(* comparing the head read on entry with the three heads, in the order     *)
(* neg, one, zero: it may be none of them by then, or another one.         *)
(***************************************************************************)
S_SIGSTOP == "STOP"
S_SIGCONT == "CONT"
S_SIGTERM == "TERM"

\* Which list is meant by a head?
QueueWithHead(k, h) ==
  IF h = k.head[-1] THEN -1 ELSE IF h = k.head[1] THEN 1 ELSE 0

\* Mutant: the parent is taken out of its queue and not put back.
Requeue_Drops(k, q, daddy) == RemovePCB(k, q, daddy)

Requeue(k, q, daddy) == AddToHead(RemovePCB(k, q, daddy), q, daddy)

Unblock(k, daddy, entryHead) ==
  IF \E q \in RunQueue : entryHead = k.head[q]
  THEN Requeue([k EXCEPT !.status[daddy] = "READY"],
               QueueWithHead(k, entryHead), daddy)
  ELSE [k EXCEPT !.status[daddy] = "READY"]

\* Mutant: a blocked parent is not told.
WakeParent_Never(k, blocked, daddy, entryHead) == k

WakeParent(k, blocked, daddy, entryHead) ==
  IF blocked THEN Unblock(k, daddy, entryHead) ELSE k

\* Mutants: the children are left alone, or freed where they are.
TerminateFirst_Spares(k, p) == k
TerminateFirst_Frees(k, p) ==
  IF k.kids[p] = <<>> THEN k ELSE FreePCB(RemoveChild(k, Head(k.kids[p])), Head(k.kids[p]))

\* One round of the loop over child_list[0] when a process dies.
TerminateFirst(k, p) ==
  IF k.kids[p] = <<>> THEN k ELSE KProcessTerminate(k, Head(k.kids[p]))

\* status := ZOMBIE or KILLED, the children are terminated.
Die(k, p) ==
  LET k1 == IF k.natty[p]
            THEN AddPCB([k EXCEPT !.status[p] = "ZOMBIE"], ZombieQueue, p)
            ELSE [k EXCEPT !.status[p] = "KILLED"]
      k2 == TerminateFirst(TerminateFirst(TerminateFirst(k1, p), p), p)
  IN  [k2 EXCEPT !.kids[p] = <<>>]

\* Does the signal change the state of p?
Takes(k, p, signal) ==
  \/ signal = S_SIGSTOP /\ k.status[p] = "READY"
  \/ signal = S_SIGCONT /\ k.status[p] = "STOPPED"
  \/ signal = S_SIGTERM /\ k.status[p] # "ZOMBIE"

KProcessKill(k, p, signal) ==
  LET daddy     == k.parent[p]
      entryHead == IF daddy = NULL THEN NULL ELSE k.head[k.prio[daddy]]
      blocked   == daddy # NULL /\ k.status[daddy] = "BLOCKED"
      k1 == CASE signal = S_SIGSTOP -> [k EXCEPT !.status[p] = "STOPPED"]
              [] signal = S_SIGCONT -> [k EXCEPT !.status[p] = "READY"]
              [] signal = S_SIGTERM -> Die(k, p)
      k2 == [k1 EXCEPT !.changed[p] = TRUE]
      k3 == IF Takes(k, p, signal) THEN WakeParent(k2, blocked, daddy, entryHead)
            ELSE k
  IN  RejoinParent(k3, p)

-----------------------------------------------------------------------------
Fault(k) == [k EXCEPT !.fault = TRUE]

\* k_get_process_pid finds p: in a run queue, or on the CPU.  When the queues
\* do not hold p it reads cur_pcb->pid, whether there is a cur_pcb or not.
Findable(k, p) == InRunQueue(k, p) \/ k.cur = p

\* k_process_nice
KProcessNice(k, p, prior) ==
  IF ~Findable(k, p) THEN IF k.cur = NULL THEN Fault(k) ELSE k
  ELSE IF k.cur = p THEN [k EXCEPT !.prio[p] = prior]
  ELSE IF k.prio[p] = prior THEN k
  ELSE LET k1 == [RemovePCB(k, k.prio[p], p) EXCEPT !.prio[p] = prior]
       IN  RejoinParent(AddPCB(k1, prior, p), p)

-----------------------------------------------------------------------------
(***************************************************************************)
(* scheduler(), entered with k.how = "TIMEOUT" from the timer, "NORMAL"    *)
(* otherwise.  It runs with SIGALRM blocked.                               *)
(***************************************************************************)
\* Mutant: timer_mod does not wrap.
SwitchQueue_NoWrap(k) ==
  [k EXCEPT !.queue = IF k.tmod <= OneLast THEN 1
                      ELSE IF k.tmod <= ZeroLast THEN 0
                      ELSE IF k.tmod <= Cycle THEN -1 ELSE @]

SwitchQueue(k) ==
  [k EXCEPT !.queue = IF k.tmod <= OneLast THEN 1
                      ELSE IF k.tmod <= ZeroLast THEN 0
                      ELSE IF k.tmod <= Cycle THEN -1 ELSE @,
            !.tmod = @ % Cycle]

\* Mutant: a process without a parent is not spared.
FinishCurrent_Root(k) ==
  LET p == k.cur IN
  IF p # NULL /\ k.status[p] \notin {"ZOMBIE", "KILLED"} /\ ~k.sigflag[p]
  THEN KProcessKill([k EXCEPT !.natty[p] = TRUE], p, S_SIGTERM)
  ELSE k

\* The current process is taken to have returned from its function.
FinishCurrent(k) ==
  LET p == k.cur IN
  IF /\ p # NULL
     /\ k.parent[p] # NULL
     /\ k.status[p] \notin {"ZOMBIE", "KILLED"}
     /\ ~k.sigflag[p]
  THEN KProcessKill([k EXCEPT !.natty[p] = TRUE], p, S_SIGTERM)
  ELSE k

\* One pass over queue q; only in queue zero is the parent made READY too.
SleepPass(k, q) ==
  LET visited == Members(k, q)
      woken   == {p \in visited : k.sleep[p] = 0}
      parents == IF q = 0 THEN {k.parent[p] : p \in woken} ELSE {}
  IN  [k EXCEPT
         !.status = [p \in Pid |-> IF p \in woken \cup parents
                                   THEN "READY" ELSE k.status[p]],
         !.sleep  = [p \in Pid |-> IF p \in visited /\ k.sleep[p] >= 0
                                   THEN k.sleep[p] - 1 ELSE k.sleep[p]],
         !.fault = @ \/ NULL \in parents]

\* Mutants: remove_PCB's child_list entry is not restored, the block stays in
\* its queue, prev_fg follows every process, prev_cur follows none.
RunNext_Orphans(k, c) ==
  [RemovePCB(k, k.queue, c) EXCEPT
     !.prevfg = IF k.ground[c] = FG THEN c ELSE @, !.prevcur = c, !.cur = c]
RunNext_Queued(k, c) ==
  [k EXCEPT !.prevfg = IF k.ground[c] = FG THEN c ELSE @, !.prevcur = c, !.cur = c]
RunNext_AnyFg(k, c) ==
  [RejoinParent(RemovePCB(k, k.queue, c), c) EXCEPT
     !.prevfg = c, !.prevcur = c, !.cur = c]
RunNext_NoPrev(k, c) ==
  [RejoinParent(RemovePCB(k, k.queue, c), c) EXCEPT
     !.prevfg = IF k.ground[c] = FG THEN c ELSE @, !.cur = c]

RunNext(k, c) ==
  [RejoinParent(RemovePCB(k, k.queue, c), c) EXCEPT
     !.prevfg = IF k.ground[c] = FG THEN c ELSE @,
     !.prevcur = c,
     !.cur = c]

\* Dequeue c, the first READY block of the current queue, or go idle.
RunOrIdle(k, c) == IF c = NULL THEN k ELSE RunNext(k, c)
PickNext(k) == RunOrIdle(k, FindNextValid(k, k.head[k.queue]))

\* Mutant: how_finished is not reset.
Scheduler_KeepsHow(k) ==
  LET k1 == IF k.how = "TIMEOUT" THEN SwitchQueue(k) ELSE FinishCurrent(k)
      k2 == [k1 EXCEPT !.cur = NULL]
  IN  PickNext(SleepPass(SleepPass(SleepPass(k2, -1), 0), 1))

Scheduler(k) ==
  LET k1 == IF k.how = "TIMEOUT" THEN SwitchQueue(k) ELSE FinishCurrent(k)
      k2 == [k1 EXCEPT !.cur = NULL, !.how = "NORMAL"]
  IN  PickNext(SleepPass(SleepPass(SleepPass(k2, -1), 0), 1))

-----------------------------------------------------------------------------
\* Mutant: the preempted process goes to the head of its queue.
TimerInterrupt_AtHead(k) ==
  LET k1 == [k EXCEPT !.how = "TIMEOUT", !.tmod = @ + 1]
  IN  IF k.cur = NULL THEN k1 ELSE AddToHead(k1, k.prio[k.cur], k.cur)

\* timer_interrupt: requeue the current process behind its queue.
TimerInterrupt(k) ==
  LET k1 == [k EXCEPT !.how = "TIMEOUT", !.tmod = @ + 1]
  IN  IF k.cur = NULL THEN k1 ELSE AddPCB(k1, k.prio[k.cur], k.cur)

\* k_process_swap_to_scheduler: block the current process in its
\* queue; it will resume at c.
KProcessSwapToScheduler(k, c) ==
  IF k.cur = NULL THEN Fault(k)
  ELSE AddPCB([k EXCEPT !.status[k.cur] = "BLOCKED", !.ctx[k.cur] = c],
              k.prio[k.cur], k.cur)
=============================================================================
