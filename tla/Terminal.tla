------------------------------ MODULE Terminal ------------------------------
(***************************************************************************)
(* The terminal on top of PennOS: ^C and ^Z, which arrive between any two  *)
(* steps, and the fg and bg commands that restart a stopped job (shell.c). *)
(***************************************************************************)
EXTENDS PennOS

CONSTANTS Keys,      \* the signals the user may send: INT (^C), TSTP (^Z)
          MaxKeys    \* bound on how many are sent

ASSUME KeyAssumption == Keys \subseteq {"INT", "TSTP"} /\ MaxKeys \in Nat

VARIABLES
  keys,      \* the number of signals sent so far
  astray     \* history: a key at the prompt has continued the shell while
             \*   another process, or none, had the CPU (see SignalAtPrompt)

tvars == <<vars, keys, astray>>

TTypeOK == TypeOK /\ keys \in 0..MaxKeys /\ astray \in BOOLEAN

TInit == Init /\ keys = 0 /\ astray = FALSE
-----------------------------------------------------------------------------
(***************************************************************************)
(* signal_handler (shell.c).  It runs on whatever thread has the CPU and   *)
(* leaves by setcontext, so the interrupted point is not saved.            *)
(***************************************************************************)
HandlerRuns(key) ==
  /\ handlers /\ run # Exited
  /\ key \in Keys
  /\ keys < MaxKeys
  /\ keys' = keys + 1

\* p_kill: a pid that k_get_process_pid does not find is a null dereference.
PKill(m, f, signal) ==
  IF Findable(m, f) THEN KProcessKill(m, f, signal) ELSE Fault(m)

Flagged == [k EXCEPT !.sigflag[k.prevfg] = TRUE]

\* Mutant: the handler does not ask who has the terminal.
InterruptJob_AnyTime ==
  /\ HandlerRuns("INT")
  /\ Dispatch(PKill(Flagged, k.prevfg, S_SIGTERM))
  /\ UNCHANGED <<kind, local, pid, handlers, astray>>

InterruptJob ==       \* ^C while pid is a job
  /\ HandlerRuns("INT")
  /\ pid # Shell
  /\ Dispatch(PKill(Flagged, k.prevfg, S_SIGTERM))
  /\ UNCHANGED <<kind, local, pid, handlers, astray>>

\* Mutant: the stopped process always goes to queue zero.
StayQueued_QueueZero(m, f) == IF m.cur = f THEN AddPCB(m, 0, f) ELSE m

\* Mutant: the process that was on the CPU is not put back.
StayQueued_Drops(m, f) == m

\* A stopped process stays in its queue, and goes back there from the CPU.
StayQueued(m, f) == IF m.cur = f THEN AddPCB(m, m.prio[f], f) ELSE m

StopJob ==            \* ^Z while pid is a job
  /\ HandlerRuns("TSTP")
  /\ pid # Shell
  /\ Dispatch(StayQueued(PKill(Flagged, k.prevfg, S_SIGSTOP), k.prevfg))
  /\ UNCHANGED <<kind, local, pid, handlers, astray>>

\* The point where f was last preempted is one where it may go on: it is in the
\* function f executes, which has not returned, or in a call that f is still in,
\* since f has not run again or has not left the point.
Resumable(f) ==
  \/ k.ctx[f].pc \in {"start", "top", "after"}
  \/ ~astray /\ (run.who # f \/ run = k.ctx[f])

\* ^C or ^Z at the prompt.  A shell that waits in p_wait is made READY by ^C;
\* otherwise setcontext returns to the point where prev_fg was last preempted.
\* (Left out: that point lies in a call that has returned since, or in any call
\* once the shell has gone astray, which runs on without its block.)
SignalAtPrompt ==
  LET f == k.prevfg IN
  /\ pid = Shell
  /\ \/ /\ k.status[f] = "BLOCKED"
        /\ \E key \in Keys :
             /\ HandlerRuns(key)
             /\ Dispatch(IF key = "INT" THEN [k EXCEPT !.status[f] = "READY"]
                         ELSE k)
        /\ UNCHANGED astray
     \/ /\ \E key \in Keys : HandlerRuns(key)
        /\ k.status[f] # "BLOCKED"
        /\ Resumable(f)
        /\ run' = k.ctx[f]
        /\ astray' = (astray \/ k.cur # f)
        /\ UNCHANGED k
  /\ UNCHANGED <<kind, local, pid, handlers>>
-----------------------------------------------------------------------------
(***************************************************************************)
(* Commands on stopped jobs.  Each sends SIGCONT and then, a preemptible    *)
(* step later, clears changed: "do not want immediate trigger".             *)
(***************************************************************************)
StoppedJob(q) == InRunQueue(k, q) /\ k.status[q] = "STOPPED"

\* fg without an argument takes the job stopped last and restarts it.
ShellFgRestarts ==
  /\ Running(Shell, "top")
  /\ \E q \in Spawned :
       /\ StoppedJob(q)
       /\ pid' = q
       /\ k' = KProcessKill([k EXCEPT !.ground[q] = FG], q, S_SIGCONT)
  /\ Goto(Shell, "fgcont")
  /\ UNCHANGED <<kind, local, handlers, keys, astray>>

ShellFgClears ==
  /\ Running(Shell, "fgcont")
  /\ EnterWait([k EXCEPT !.changed[pid] = FALSE], "fgscan")
  /\ UNCHANGED <<kind, pid, handlers, keys, astray>>

\* bg: local[Shell] stands for current_job->pid.
ShellBg ==
  /\ Running(Shell, "top")
  /\ \E q \in Spawned :
       /\ StoppedJob(q)
       /\ local' = [local EXCEPT ![Shell] = q]
       /\ k' = KProcessKill(k, q, S_SIGCONT)
  /\ Goto(Shell, "bgcont")
  /\ UNCHANGED <<kind, pid, handlers, keys, astray>>

ShellBgClears ==
  /\ Running(Shell, "bgcont")
  /\ k' = IF InRunQueue(k, local[Shell])
          THEN [k EXCEPT !.changed[local[Shell]] = FALSE] ELSE k
  /\ Goto(Shell, "top")
  /\ UNCHANGED <<kind, local, pid, handlers, keys, astray>>

TNext ==
  \/ Next /\ UNCHANGED <<keys, astray>>
  \/ InterruptJob \/ StopJob \/ SignalAtPrompt
  \/ ShellFgRestarts \/ ShellFgClears \/ ShellBg \/ ShellBgClears

TSpec == TInit /\ [][TNext]_tvars
-----------------------------------------------------------------------------
\* ^C and ^Z at the prompt are for the shell: at most they unblock the process
\* that was in the foreground last, and no job is stopped or ended by them.
\* (Once the shell has gone astray, its wait ends the job it runs as.)
PromptSparesJobs ==
  [][keys' # keys /\ pid = Shell /\ ~astray =>
       \A p \in Pid \ {Shell} :
          \/ k'.status[p] = k.status[p]
          \/ p = k.prevfg /\ k.status[p] = "BLOCKED" /\ k'.status[p] = "READY"
  ]_tvars

\* A stopped job waits in its queue, so that SIGCONT is enough to resume it, and
\* no other job is READY in no queue unless ^Z has flagged it: signal_flag is
\* never cleared, and the scheduler neither ends nor requeues a flagged job that
\* returns (shell.c, line 91; kernel_functions.c, line 717).  A shell that has
\* gone astray blocks in the place of a job.
JobsAreQueued ==
  ~astray => \A p \in k.live \ {k.cur} :
    /\ k.parent[p] # NULL
    /\ k.status[p] = "STOPPED" \/ (k.status[p] = "READY" /\ ~k.sigflag[p])
    => p \in Members(k, k.prio[p])

\* The shell does not wait for a job whose end nobody will report: p_wait is to
\* "wait for correct process to finish" (user_functions.c, line 188).
NoWaitForDead ==
  run = At(Shell, "fgblock") =>
    ~(k.status[pid] \in Dead /\ ~k.changed[pid])
=============================================================================
