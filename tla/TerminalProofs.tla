--------------------------- MODULE TerminalProofs ---------------------------
(***************************************************************************)
(* Theorems about Terminal, for every value of its constants.  ^C may kill *)
(* the shell, so only the part of Inv that speaks of types is kept.        *)
(***************************************************************************)
EXTENDS Terminal, PennOSProofs

TInv == Inv(FALSE) /\ keys \in 0..MaxKeys

\* The keys and the shell's calls take a machine with a prev_fg apart and put
\* it together again: k_process_kill and the flag of the job.
LEMMA PKillType ==
  ASSUME NEW m, NEW f \in Pid, NEW signal \in {S_SIGSTOP, S_SIGCONT, S_SIGTERM},
         Resting(m, FALSE)
  PROVE  Resting(PKill(m, f, signal), FALSE)
<1>1. Keeps(m, KProcessKill(m, f, signal), FALSE)
  BY KProcessKillKeeps DEF Resting
<1>2. Keeps(m, Fault(m), FALSE)
  BY FlagKeeps DEF Fault, Resting
<1> QED BY <1>1, <1>2, KeepsResting DEF PKill

\* The signal_flag of prev_fg is set.
LEMMA FlaggedType ==
  ASSUME Resting(k, FALSE)
  PROVE  Resting(Flagged, FALSE)
BY FlagKeeps, KeepsResting DEF Flagged, Resting

\* What a handler finds: the machine at rest.
LEMMA HandlerFinds ==
  ASSUME TInv, NEW key, HandlerRuns(key)
  PROVE  /\ Resting(k, FALSE) /\ Others /\ k.prevfg \in Pid
         /\ keys' \in 0..MaxKeys
<1>1. Resting(k, FALSE) /\ Others /\ k.prevfg \in Pid
  BY DEF TInv, Inv, TypeOK, OnCpu, HandlerRuns, Others
<1>2. keys \in 0..MaxKeys /\ keys < MaxKeys /\ keys' = keys + 1 /\ MaxKeys \in Nat
  BY KeyAssumption DEF TInv, HandlerRuns
<1>3. keys' \in 0..MaxKeys
  BY <1>2
<1> QED BY <1>1, <1>3

\* ^C and ^Z while a job runs.
LEMMA KeyStep ==
  ASSUME TInv, InterruptJob \/ StopJob
  PROVE  TInv'
<1>1. Resting(k, FALSE) /\ Others /\ k.prevfg \in Pid /\ keys' \in 0..MaxKeys
  BY HandlerFinds DEF InterruptJob, StopJob
<1>2. Others'
  BY <1>1 DEF InterruptJob, StopJob, Others
<1>3. Inv(FALSE)
  BY DEF TInv
<1>4. CASE InterruptJob
  <2>1. Resting(PKill(Flagged, k.prevfg, S_SIGTERM), FALSE)
    BY <1>1, FlaggedType, PKillType
  <2> QED BY <1>1, <1>2, <1>3, <1>4, <2>1, DispatchStep DEF InterruptJob, TInv
<1>5. CASE StopJob
  <2> DEFINE f == k.prevfg
             m == PKill(Flagged, f, S_SIGSTOP)
             n == StayQueued(m, f)
  <2>1. f \in Pid /\ Resting(m, FALSE)
    BY <1>1, FlaggedType, PKillType
  <2>2. Dispatch(n)
    BY <1>5 DEF StopJob
  <2> HIDE DEF m, f
  <2>3. Resting(n, FALSE)
    BY <2>1, AddPCBRests DEF StayQueued
  <2> HIDE DEF n
  <2> QED BY <1>1, <1>2, <1>3, <2>2, <2>3, DispatchStep DEF TInv
<1> QED BY <1>4, <1>5

\* ^C and ^Z at the prompt.
LEMMA PromptStep ==
  ASSUME TInv, SignalAtPrompt
  PROVE  TInv'
<1> DEFINE f == k.prevfg
<1>1. Resting(k, FALSE) /\ Others /\ f \in Pid /\ keys' \in 0..MaxKeys
  BY HandlerFinds DEF SignalAtPrompt
<1>2. Others' /\ Inv(FALSE)
  BY <1>1 DEF SignalAtPrompt, Others, TInv
<1>3. Resting([k EXCEPT !.status[f] = "READY"], FALSE)
  BY <1>1 DEF Resting, Good, Memory, Status
<1>4. CASE Dispatch([k EXCEPT !.status[f] = "READY"])
  BY <1>1, <1>2, <1>3, <1>4, DispatchStep DEF TInv
<1>5. CASE Dispatch(k)
  BY <1>1, <1>2, <1>5, DispatchStep DEF TInv
<1>6. CASE run' = k.ctx[f] /\ UNCHANGED k
  <2>1. k.ctx[f] \in Context
    BY <1>1 DEF Resting, Good, Memory
  <2>2. OnCpu(k, run, FALSE)'
    BY <1>1, <1>6, <2>1, ThreadRuns
  <2> QED BY <1>1, <1>2, <2>2, InvOf DEF TInv
<1> QED BY <1>4, <1>5, <1>6 DEF SignalAtPrompt

\* fg and bg on a stopped job.
LEMMA RestartStep ==
  ASSUME TInv, ShellFgRestarts \/ ShellFgClears \/ ShellBg \/ ShellBgClears
  PROVE  TInv'
<1>0. Inv(FALSE) /\ keys \in 0..MaxKeys /\ keys' = keys
  BY DEF TInv, ShellFgRestarts, ShellFgClears, ShellBg, ShellBgClears
<1>1. Resting(k, FALSE) /\ Others
  BY <1>0, ShellPoints, InvAt DEF ShellFgRestarts, ShellFgClears, ShellBg, ShellBgClears
<1>2. \A q \in Spawned : q \in Pid
  BY <1>1, MaxPidAssumption DEF Spawned, Resting, Good, Memory, Pid
<1>3. CASE ShellFgRestarts
  <2>1. PICK q \in Spawned :
          /\ pid' = q
          /\ k' = KProcessKill([k EXCEPT !.ground[q] = FG], q, S_SIGCONT)
    BY <1>3 DEF ShellFgRestarts
  <2> DEFINE m == [k EXCEPT !.ground[q] = FG]
  <2>2. q \in Pid /\ Resting(m, FALSE)
    BY <1>1, <1>2, GroundType DEF FG
  <2> HIDE DEF m
  <2>3. Resting(KProcessKill(m, q, S_SIGCONT), FALSE)
    BY <2>2, KProcessKillKeeps, KeepsResting DEF Resting
  <2>4. Resting(k', FALSE)
    BY <2>1, <2>3 DEF m
  <2>5. Others' /\ Goto(Shell, "fgcont")
    BY <1>1, <1>3, <2>1, <2>2 DEF ShellFgRestarts, Others
  <2> QED BY <1>0, <2>4, <2>5, ShellPoints, GotoStep DEF TInv
<1>4. CASE ShellFgClears
  <2>1. /\ EnterWait([k EXCEPT !.changed[pid] = FALSE], "fgscan")
        /\ kind' = kind /\ pid' \in Pid /\ handlers' = handlers
    BY <1>1, <1>4 DEF ShellFgClears, Others
  <2>2. Resting([k EXCEPT !.changed[pid] = FALSE], FALSE)
    BY <1>1, ChangedType DEF Others
  <2> QED BY <1>0, <1>1, <2>1, <2>2, ShellPoints, EnterWaitStep DEF TInv
<1>5. CASE ShellBg
  <2>1. PICK q \in Spawned :
          /\ local' = [local EXCEPT ![Shell] = q]
          /\ k' = KProcessKill(k, q, S_SIGCONT)
    BY <1>5 DEF ShellBg
  <2>2. Resting(k', FALSE)
    BY <1>1, <1>2, <2>1, KProcessKillKeeps, KeepsResting DEF Resting
  <2>3. Others' /\ Goto(Shell, "bgcont")
    BY <1>1, <1>2, <1>5, <2>1 DEF ShellBg, Others
  <2> QED BY <1>0, <2>2, <2>3, ShellPoints, GotoStep DEF TInv
<1>6. CASE ShellBgClears
  <2>1. Resting([k EXCEPT !.changed[local[Shell]] = FALSE], FALSE)
    BY <1>1, ShellPoints, ChangedType DEF Others
  <2>2. Resting(k', FALSE) /\ Others' /\ Goto(Shell, "top")
    BY <1>1, <1>6, <2>1 DEF ShellBgClears, Others
  <2> QED BY <1>0, <2>2, ShellPoints, GotoStep DEF TInv
<1> QED BY <1>3, <1>4, <1>5, <1>6

\* The history variable is a truth value in every step.
LEMMA AstrayStep ==
  ASSUME astray \in BOOLEAN, TNext
  PROVE  (astray \in BOOLEAN)'
BY DEF TNext, InterruptJob, StopJob, SignalAtPrompt, ShellFgRestarts, ShellFgClears,
       ShellBg, ShellBgClears

\* The types hold in every reachable state with signals at any moment, too.
THEOREM TerminalTypeCorrect == TSpec => []TTypeOK
<1> DEFINE I == TInv /\ astray \in BOOLEAN
<1>1. TInit => I
  <2> SUFFICES ASSUME TInit PROVE I
    OBVIOUS
  <2>1. Inv(TRUE)
    BY InitInv DEF TInit
  <2>2. Inv(FALSE)
    BY <2>1 DEF Inv, OnCpu, Good, Resting
  <2>3. keys \in 0..MaxKeys
    <3>1. MaxKeys \in Nat /\ keys = 0
      BY KeyAssumption DEF TInit
    <3> QED BY <3>1
  <2> QED BY <2>2, <2>3 DEF TInit, TInv
<1>2. I /\ [TNext]_tvars => I'
  <2> SUFFICES ASSUME I, [TNext]_tvars PROVE I'
    OBVIOUS
  <2>1. CASE UNCHANGED tvars
    BY <2>1, NextInv DEF tvars, TInv
  <2>2. CASE Next /\ UNCHANGED <<keys, astray>>
    BY <2>2, NextInv DEF TInv
  <2> QED BY <2>1, <2>2, KeyStep, PromptStep, RestartStep, AstrayStep DEF TNext
<1>3. I => TTypeOK
  BY DEF TInv, Inv, TTypeOK
<1> QED BY <1>1, <1>2, <1>3, PTL DEF TSpec
=============================================================================
