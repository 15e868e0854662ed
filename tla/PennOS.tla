------------------------------- MODULE PennOS -------------------------------
(***************************************************************************)
(* The running system: the shell and the programs it spawns, as threads    *)
(* that make the calls of src/user_functions.c, the 100 ms timer that      *)
(* preempts them between any two steps.  Terminal adds the signals ^C and   *)
(* ^Z and the commands on stopped jobs.                                    *)
(*                                                                         *)
(* run is what the CPU executes: the thread `who` at `pc`.  It is kept     *)
(* apart from k.cur, the block the kernel believes to be running, because  *)
(* the code sets the two in different places.  swapcontext stores run in   *)
(* the context field of a block; setcontext drops it.                      *)
(***************************************************************************)
EXTENDS Kernel

CONSTANTS Programs,     \* kinds of program the user may start
          Grounds,      \* FG (a plain command), BG (one that ends in &)
          Priorities,   \* priorities the user gives to nice_pid
          Ticks         \* sleep_time that p_sleep sets (ticks * 10)

ASSUME ProgramAssumption ==
  /\ Programs \subseteq {"busy", "short", "sleep", "zombify", "orphanify"}
  /\ Grounds \subseteq BOOLEAN
  /\ Priorities \subseteq RunQueue
  /\ Ticks \in 1..MaxSleep

VARIABLES
  k,         \* kernel memory
  run,       \* the thread on the CPU, or Idle, or Exited
  kind,      \* kind[p]: the function thread p executes
  local,     \* local[p]: the pcb pointer in the frame of p's current call:
             \*   new_process of p_spawn, s_pcb of p_sleep, pcb_calling of p_wait
  pid,       \* the global `int pid` of shell.c: 1 at the prompt
  handlers   \* the shell has installed its signal handlers

vars == <<k, run, kind, local, pid, handlers>>

Kind == {"none", "shell", "busy", "short", "sleep", "zombify", "orphanify",
         "zombie_child", "orphan_child"}
Idle   == [who |-> NULL, pc |-> "idle"]
Exited == [who |-> NULL, pc |-> "exited"]

At(p, pc) == [who |-> p, pc |-> pc]

TypeOK ==
  /\ k \in Memory
  /\ run \in Context \cup {Idle, Exited}
  /\ kind \in [Pid -> Kind]
  /\ local \in [Pid -> Pid]
  /\ pid \in Pid
  /\ handlers \in BOOLEAN
-----------------------------------------------------------------------------
\* The globals as the C runtime leaves them.
Zeroed ==
  [ head |-> [q \in Queue |-> NULL], next |-> [p \in Pid |-> NULL],
    parent |-> [p \in Pid |-> NULL], kids |-> [p \in Pid |-> <<>>],
    status |-> [p \in Pid |-> "READY"], prio |-> [p \in Pid |-> 0],
    changed |-> [p \in Pid |-> FALSE], natty |-> [p \in Pid |-> FALSE],
    sigflag |-> [p \in Pid |-> FALSE], ground |-> [p \in Pid |-> FG],
    sleep |-> [p \in Pid |-> -1], ctx |-> [p \in Pid |-> At(p, "start")],
    live |-> {}, count |-> 1, fault |-> FALSE, cur |-> NULL,
    prevfg |-> NULL, prevcur |-> NULL, how |-> "TIMEOUT", tmod |-> 0, queue |-> 0 ]

\* run_os: spawn the shell, move it to queue neg, enter the scheduler.
Booted ==
  LET k1 == KProcessNice(KProcessCreate(Zeroed, NULL, NULL, "start"), Shell, -1)
  IN  Scheduler([k1 EXCEPT !.prevfg = k1.head[-1]])

\* What the CPU executes once the scheduler has returned m.
Resumed(m) ==
  IF m.fault THEN Exited ELSE IF m.cur = NULL THEN Idle ELSE m.ctx[m.cur]

Init ==
  /\ k = Booted
  /\ run = Resumed(k)
  /\ kind = [p \in Pid |-> IF p = Shell THEN "shell" ELSE "none"]
  /\ local = [p \in Pid |-> Shell]    \* nothing reads it before a call sets it
  /\ pid = Shell
  /\ handlers = FALSE

\* Control passes to the scheduler with kernel memory m.
Dispatch(m) ==
  /\ k' = IF m.fault THEN m ELSE Scheduler(m)
  /\ run' = Resumed(k')

\* swapcontext(block->context, ...): store c in the context of block b.
Save(m, b, c) == [m EXCEPT !.ctx[b] = c]

Running(p, pc) == run = At(p, pc)
Goto(p, pc) == run' = At(p, pc)
-----------------------------------------------------------------------------
(***************************************************************************)
(* The timer.                                                              *)
(***************************************************************************)
Tick ==
  /\ run # Exited
  /\ Dispatch(TimerInterrupt(IF k.cur = NULL THEN k ELSE Save(k, k.cur, run)))
  /\ UNCHANGED <<kind, local, pid, handlers>>

(***************************************************************************)
(* The programs (user_functions.c).                                        *)
(***************************************************************************)
\* p_spawn up to k_process_create: the new block is in queue zero before its
\* ground and command are set.
Create(p, prog, pc) ==
  /\ k.count <= MaxPid
  /\ \E stale \in StaleNext(k) :
       k' = KProcessCreate(k, k.cur, stale, "start")
  /\ kind' = [kind EXCEPT ![k.count] = prog]
  /\ local' = [local EXCEPT ![p] = k.count]
  /\ Goto(p, pc)

SetGround(p, g) == k' = [k EXCEPT !.ground[local[p]] = g]

\* zombify spawns a child that returns at once, orphanify one that loops.
ProgramSpawns(p) ==
  /\ Running(p, "start")
  /\ \/ kind[p] = "zombify"   /\ Create(p, "zombie_child", "ground")
     \/ kind[p] = "orphanify" /\ Create(p, "orphan_child", "ground")
  /\ UNCHANGED <<pid, handlers>>

ProgramSetsGround(p) ==
  /\ Running(p, "ground")
  /\ SetGround(p, FG)
  /\ Goto(p, "run")
  /\ UNCHANGED <<kind, local, pid, handlers>>

\* p_sleep: set_sleep, then enqueue and switch to the scheduler.
SleepSets(p) ==
  /\ Running(p, "start")
  /\ kind[p] = "sleep"
  /\ k' = SetSleep(k, k.prevcur, Ticks)
  /\ local' = [local EXCEPT ![p] = k.prevcur]
  /\ Goto(p, "asleep")
  /\ UNCHANGED <<kind, pid, handlers>>

SleepSwitches(p) ==
  /\ Running(p, "asleep")
  /\ LET s == local[p]
     IN  Dispatch(Save(AddPCB(k, k.prio[s], s), s, At(p, "woken")))
  /\ UNCHANGED <<kind, local, pid, handlers>>

\* The thread returns from its function into the scheduler.
Returns(p) ==
  /\ \/ kind[p] \in {"short", "zombie_child"} /\ Running(p, "start")
     \/ kind[p] = "sleep"     /\ Running(p, "woken")
     \/ kind[p] = "orphanify" /\ Running(p, "run")
  /\ Dispatch(k)
  /\ UNCHANGED <<kind, local, pid, handlers>>

Program(p) == \/ ProgramSpawns(p) \/ ProgramSetsGround(p)
              \/ SleepSets(p) \/ SleepSwitches(p) \/ Returns(p)
-----------------------------------------------------------------------------
(***************************************************************************)
(* p_wait, for a given pid.  caller is pcb_calling.                        *)
(***************************************************************************)
WaitFinds(caller, q) ==
  k.changed[q] /\ \E i \in 1..Len(k.kids[caller]) : k.kids[caller][i] = q

\* Mutant: a terminated child is reported and kept.
Reported_Keeps(q) == [k EXCEPT !.changed[q] = FALSE]

\* The matched child is reported: freed if it has terminated.
Reported(q) ==
  IF k.status[q] \in {"ZOMBIE", "KILLED"} THEN KProcessTerminate(k, q)
  ELSE [k EXCEPT !.changed[q] = FALSE]

\* Mutant: the caller is prev_cur, as it is for NOHANG.
EnterWait_PrevCur(m, pc) ==
  /\ local' = [local EXCEPT ![Shell] = m.prevcur]
  /\ k' = m
  /\ Goto(Shell, pc)

\* Entering p_wait(HANG, q): a caller without children gets NULL back.  A new
\* job's NULL is dereferenced; the fg command leaves the shell's loop, and
\* with it the function.
EnterWait(m, pc) ==
  /\ local' = [local EXCEPT ![Shell] = m.prevfg]
  /\ IF m.kids[m.prevfg] # <<>>
     THEN k' = m /\ Goto(Shell, pc)
     ELSE IF pc = "scan" THEN k' = m /\ run' = Exited ELSE Dispatch(m)

(***************************************************************************)
(* The shell (shell.c).  At "top" it has printed the prompt; a line of     *)
(* input is one of the commands below.  Any process the shell has spawned  *)
(* may be named by its job list, so the commands on jobs take any of them. *)
(***************************************************************************)
Spawned == {q \in 2..(k.count - 1) : kind[q] \in Programs}

ShellStarts ==
  /\ Running(Shell, "start")
  /\ handlers' = TRUE
  /\ pid' = Shell
  /\ Goto(Shell, "top")
  /\ UNCHANGED <<k, kind, local>>

\* A command line: p_spawn, up to the point where ground is set ...
ShellSpawns ==
  /\ Running(Shell, "top")
  /\ \E prog \in Programs, g \in Grounds :
       Create(Shell, prog, IF g = FG THEN "groundFG" ELSE "groundBG")
  /\ UNCHANGED <<pid, handlers>>

\* ... and from there to p_wait, or past it for a background job.
ShellSetsGround ==
  /\ pid' = local[Shell]
  /\ \/ /\ Running(Shell, "groundFG")
        /\ EnterWait([k EXCEPT !.ground[local[Shell]] = FG], "scan")
     \/ /\ Running(Shell, "groundBG")
        /\ SetGround(Shell, BG)
        /\ Goto(Shell, "after")
        /\ UNCHANGED local
  /\ UNCHANGED <<kind, handlers>>

\* The end of the loop body and the top of the next round.
ShellLoops ==
  /\ Running(Shell, "after")
  /\ k' = [k EXCEPT !.prevfg = Shell]
  /\ pid' = Shell
  /\ Goto(Shell, "top")
  /\ UNCHANGED <<kind, local, handlers>>

\* p_wait(HANG, pid) finds the child changed: report it, and let a stopped
\* one be a background job.
ShellHears(m, to) ==
  /\ IF k.status[pid] = "STOPPED" /\ InRunQueue(m, pid)
     THEN k' = [m EXCEPT !.ground[pid] = BG] /\ Goto(Shell, to)
     ELSE k' = m /\ Goto(Shell, IF k.status[pid] = "STOPPED" THEN "top" ELSE to)
  /\ pid' = IF run'.pc = "top" THEN Shell ELSE pid

ShellReports ==
  /\ Running(Shell, "scan") \/ Running(Shell, "fgscan")
  /\ WaitFinds(local[Shell], pid)
  /\ ShellHears(Reported(pid), IF run.pc = "scan" THEN "after" ELSE "top")
  /\ UNCHANGED <<kind, local, handlers>>

\* The scan is over and found nothing ...
ShellFindsNone ==
  /\ Running(Shell, "scan") \/ Running(Shell, "fgscan")
  /\ ~WaitFinds(local[Shell], pid)
  /\ Goto(Shell, IF run.pc = "scan" THEN "block" ELSE "fgblock")
  /\ UNCHANGED <<k, kind, local, pid, handlers>>

\* ... so the shell blocks, to scan again when it is resumed.
ShellBlocks ==
  /\ Running(Shell, "block") \/ Running(Shell, "fgblock")
  /\ Dispatch(KProcessSwapToScheduler(k,
                At(Shell, IF run.pc = "block" THEN "scan" ELSE "fgscan")))
  /\ UNCHANGED <<kind, local, pid, handlers>>

ShellWaits == ShellReports \/ ShellFindsNone \/ ShellBlocks

\* p_wait(NOHANG, q), made for the background jobs at the top of the loop.
\* (Left out: the message on a job that has stopped or continued, which is
\* printed through current_job even when that is NULL.)
ShellPolls ==
  /\ Running(Shell, "top")
  /\ \E q \in Spawned :
       /\ WaitFinds(k.prevcur, q)
       /\ k' = Reported(q)
  /\ UNCHANGED <<run, kind, local, pid, handlers>>

\* The nice_pid command.  When the priority is 0 the check of the argument
\* passes the number itself to strcmp.
ShellNices ==
  /\ Running(Shell, "top")
  /\ \E q \in Pid, prior \in Priorities :
       k' = IF prior = 0 THEN Fault(k) ELSE KProcessNice(k, q, prior)
  /\ run' = IF k'.fault THEN Exited ELSE run
  /\ UNCHANGED <<kind, local, pid, handlers>>

\* The fg command on a job that runs, and, with the job's number as argument,
\* on one that is stopped: then no SIGCONT is sent.
ShellFg ==
  /\ Running(Shell, "top")
  /\ \E q \in Spawned :
       /\ InRunQueue(k, q)
       /\ pid' = q
       /\ EnterWait([k EXCEPT !.ground[q] = FG], "fgscan")
  /\ UNCHANGED <<kind, handlers>>

\* logout or ctrl-D: end_everything, and the scheduler returns for good.
ShellLogout ==
  /\ Running(Shell, "top")
  /\ run' = Exited
  /\ UNCHANGED <<k, kind, local, pid, handlers>>

ShellCommand == \/ ShellSpawns \/ ShellNices \/ ShellFg \/ ShellLogout

ShellProceeds == \/ ShellStarts \/ ShellSetsGround \/ ShellWaits \/ ShellLoops
-----------------------------------------------------------------------------
\* Nothing runs after the process of the operating system itself is gone.
Stopped == run = Exited /\ UNCHANGED vars

Next ==
  \/ Tick
  \/ \E p \in Pid : Program(p)
  \/ ShellProceeds \/ ShellPolls \/ ShellCommand
  \/ Stopped

Spec == Init /\ [][Next]_vars
-----------------------------------------------------------------------------
(***************************************************************************)
(* Safety.                                                                 *)
(***************************************************************************)
Dead == {"ZOMBIE", "KILLED"}

\* Every `while (current != NULL)` of pcb.c ends: no set of blocks is closed
\* under next.  All four lists share that one field, add_PCB keeps a stale
\* next on an empty queue and remove_PCB leaves one behind.
WalksEnd == \A S \in SUBSET Pid : S # {} => \E p \in S : k.next[p] \notin S

\* No list leads into memory that has been freed.
ListsAreLive == \A q \in Queue : Members(k, q) \subseteq k.live

\* No process is lost: one that could run, and is not running, is in the
\* queue of its priority, where the scheduler will find it.
ReadyAreQueued ==
  \A p \in k.live \ {k.cur} :
    k.status[p] = "READY" => p \in Members(k, k.prio[p])

\* A process is in no queue but that of its own priority: moving it
\* (nice_pid, timer, wake-up) never leaves a copy behind.
QueuedByPriority ==
  \A q \in RunQueue : \A p \in Members(k, q) : k.prio[p] = q

\* The zombie queue holds the zombies, all of them, and shares no block with
\* a run queue: what has ended is never handed to the scheduler again.
ZombiesAreApart ==
  /\ Members(k, ZombieQueue) = {p \in k.live : k.status[p] = "ZOMBIE"}
  /\ \A q \in RunQueue : Members(k, q) \cap Members(k, ZombieQueue) = {}

\* parent_pcb and child_list are two views of one tree, although every
\* removal from a queue takes the process off its parent's list and the
\* caller has to put it back.
FamilyIsTree ==
  \A p \in k.live :
    /\ k.parent[p] # NULL =>
         /\ k.parent[p] \in k.live
         /\ \E i \in 1..Len(k.kids[k.parent[p]]) : k.kids[k.parent[p]][i] = p
    /\ \A i, j \in 1..Len(k.kids[p]) :
         /\ k.kids[p][i] \in k.live /\ k.parent[k.kids[p][i]] = p
         /\ k.kids[p][i] = k.kids[p][j] => i = j

\* The tree has three levels: a program that is ended takes one child with it,
\* and that child none.  This is what makes the unrolled loops of Kernel exact.
TreeShape ==
  \A p \in k.live \ {Shell} :
    /\ Len(k.kids[p]) <= 1
    /\ k.parent[p] # Shell => k.kids[p] = <<>>

\* The kernel's idea of who runs is who runs, and that process is allocated,
\* not terminated and in no list.
CpuIsCur ==
  run # Exited =>
    /\ run.who = k.cur
    /\ k.cur # NULL =>
         /\ k.cur \in k.live
         /\ k.status[k.cur] \notin Dead
         /\ \A q \in Queue : k.cur \notin Members(k, q)

\* The process of the operating system itself, the shell, is never killed.
ShellSurvives == Shell \in k.live /\ k.status[Shell] \notin Dead

\* The machine stops only by logout: no null pointer is dereferenced and the
\* shell does not fall out of its loop.
NoCrash == ~k.fault /\ (run = Exited => pid = Shell)

\* prev_fg and prev_cur, through which the signal handlers, p_wait and
\* p_sleep find "their" process, point to memory that is allocated.
PrevAreLive == k.prevfg \in k.live /\ k.prevcur \in k.live

\* In p_wait the shell waits, as itself, for a child it has not reaped yet.
Waiting == run.who = Shell /\ run.pc \in {"scan", "fgscan", "block", "fgblock"}
WaitTargetIsChild ==
  Waiting => local[Shell] = Shell /\ pid \in k.live /\ k.parent[pid] = Shell

\* A process that has terminated says so to p_wait.
DeadAreChanged == \A p \in k.live : k.status[p] \in Dead => k.changed[p]

\* k_process_kill wakes a blocked parent.  So the shell is not blocked on a
\* child that has changed already.
NoLostWakeup == k.status[Shell] = "BLOCKED" => ~k.changed[pid]

\* ZOMBIE "means the process terminated naturally" (pcb.h, line 13): it has run
\* to its end, which is not in the middle of p_sleep, and busy has none.
ZombiesHaveReturned ==
  \A p \in k.live :
    k.status[p] = "ZOMBIE" => k.ctx[p].pc # "woken" /\ kind[p] # "busy"

\* "prev_fg: tracks the current fb pcb or previous pcb": when a process has the
\* CPU, prev_fg, which p_wait and the signal handlers act on, is that process
\* if and only if it is in the foreground.
PrevFgIsCur  == k.cur # NULL => (k.ground[k.cur] = FG <=> k.prevfg = k.cur)

\* PennOS implements the life cycle of pcb.h.
life == [p \in Pid |-> IF p >= k.count THEN "none"
                       ELSE IF p \in k.live THEN k.status[p] ELSE "gone"]
parents == [p \in Pid |-> k.parent[p]]
L == INSTANCE Lifecycle WITH Process <- Pid, Root <- Shell, NoParent <- NULL,
                             life <- life, parent <- parents
LifecycleHolds == L!Spec
-----------------------------------------------------------------------------
(***************************************************************************)
(* Liveness.  The timer goes off again and again; a thread that is given   *)
(* the CPU again and again executes its next instructions.  Nothing is     *)
(* assumed of the user.  These are WF_vars(Tick), SF_vars(Program(p)) and  *)
(* SF_vars(ShellProceeds) with the ENABLED of each action written out.     *)
(***************************************************************************)
TimerFair == <>[](run # Exited) => []<><<Tick>>_vars

HasNext(p) ==
  /\ run.who = p
  /\ \/ kind[p] \in {"short", "sleep", "zombie_child"}
     \/ kind[p] = "orphanify" /\ run.pc # "start"
     \/ kind[p] = "zombify" /\ run.pc = "ground"
     \/ kind[p] \in {"zombify", "orphanify"} /\ run.pc = "start"
                                           /\ k.count <= MaxPid
     \/ p = Shell /\ run.pc # "top"

ThreadFair ==
  \A p \in Pid :
    []<>HasNext(p) =>
      []<><<IF p = Shell THEN ShellProceeds ELSE Program(p)>>_vars

FairSpec == Spec /\ TimerFair /\ ThreadFair

\* Every process that is ready to run gets the CPU.
Runnable(p) == p \in k.live /\ k.status[p] = "READY" /\ run # Exited
EveryoneRuns == \A p \in Pid : Runnable(p) ~> (k.cur = p \/ ~Runnable(p))

\* A program that returns is over some day.
ProgramsEnd ==
  \A p \in Pid : (p \in k.live /\ kind[p] = "short" /\ run # Exited)
                   ~> (p \notin k.live \/ k.status[p] \in Dead \/ run = Exited)

\* The child has changed since p_wait scanned the list, and the shell is about
\* to block all the same (user_functions.c, line 207; see NoLostWakeup).
ChangedTooLate ==
  run \in {At(Shell, "block"), At(Shell, "fgblock")} /\ k.changed[pid]

\* The shell that waits for a program that returns, one it has just started or
\* one it has brought to the foreground, some day hears of its end and reaps
\* it, unless the program ends between p_wait's scan and its block.
WaitsAreAnswered ==
  \A p \in Pid : (Waiting /\ pid = p /\ kind[p] = "short")
                   ~> (p \notin k.live \/ ChangedTooLate \/ run = Exited)
=============================================================================
