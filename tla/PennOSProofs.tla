---------------------------- MODULE PennOSProofs ----------------------------
(***************************************************************************)
(* Theorems about PennOS, for every value of its constants.                *)
(***************************************************************************)
EXTENDS PennOS, ListProofs

\* r is what the CPU executes when kernel memory is m.
OnCpu(m, r, safe) ==
  /\ Good(m, safe)
  /\ m.prevfg \in Pid /\ m.prevcur \in Pid
  /\ r \in Context \cup {Idle, Exited}
  /\ r # Exited => Resting(m, safe)
  /\ r = Idle => m.cur = NULL

Inv(safe) == TypeOK /\ OnCpu(k, run, safe)

\* A thread's place is neither Idle nor Exited.
LEMMA Contexts ==
  /\ \A c \in Context : c # Idle /\ c # Exited
  /\ Idle # Exited
BY Pids DEF Context, Idle, Exited
-----------------------------------------------------------------------------
(***************************************************************************)
(* The initial state.                                                      *)
(***************************************************************************)
LEMMA ZeroedType == Zeroed \in Memory
<1>1. /\ -1 \in -1..MaxSleep /\ <<>> \in Seq(Pid) /\ "READY" \in Status
      /\ 0 \in RunQueue /\ NULL \in Ptr /\ FG \in BOOLEAN
      /\ 1 \in 1..(MaxPid + 1) /\ 0 \in 0..Cycle
      /\ \A p \in Pid : At(p, "start") \in Context
  BY SleepAssumption, SliceAssumption, MaxPidAssumption, Pids
     DEF Status, RunQueue, FG, At, Context
<1> QED BY <1>1 DEF Zeroed, Memory

\* What booting leaves as the C runtime and create_PCB initialise it.
Clean(m) ==
  /\ m \in Memory
  /\ m.next = [p \in Pid |-> NULL] /\ m.parent = [p \in Pid |-> NULL]
  /\ m.kids = [p \in Pid |-> <<>>] /\ m.status = [p \in Pid |-> "READY"]
  /\ m.changed = [p \in Pid |-> FALSE] /\ m.natty = [p \in Pid |-> FALSE]
  /\ m.sigflag = [p \in Pid |-> FALSE] /\ m.ground = [p \in Pid |-> FG]
  /\ m.sleep = [p \in Pid |-> -1] /\ m.ctx = [p \in Pid |-> At(p, "start")]
  /\ m.fault = FALSE /\ m.cur = NULL /\ m.how = "TIMEOUT" /\ m.tmod = 0
  /\ m.queue = 0

NoHeads == [q \in Queue |-> NULL]

\* The shell's block is created, in queue zero.
LEMMA ShellCreated ==
  LET m == KProcessCreate(Zeroed, NULL, NULL, "start")
  IN  /\ Clean(m) /\ m.head = [NoHeads EXCEPT ![0] = Shell]
      /\ m.prio = [p \in Pid |-> 0] /\ m.live = {Shell} /\ m.count = Shell + 1
      /\ m.prevfg = NULL /\ m.prevcur = Shell
<1> DEFINE z  == CreatePCB(Zeroed, Shell, NULL)
           z1 == [z EXCEPT !.ctx[Shell] = [who |-> Shell, pc |-> "start"]]
           z2 == [z1 EXCEPT !.head[0] = Shell]
           z3 == [z2 EXCEPT !.prevcur = Shell, !.count = Shell + 1]
<1>0. Shell \in Pid /\ 0 \in Queue /\ Shell \in Ptr /\ Shell + 1 \in 1..(MaxPid + 1)
  BY MaxPidAssumption, Pids DEF Queue, Shell
<1>1. Clean(Zeroed) /\ Zeroed.head = NoHeads /\ Zeroed.prio = [p \in Pid |-> 0]
      /\ Zeroed.live = {} /\ Zeroed.prevfg = NULL /\ Zeroed.count = Shell
  BY ZeroedType DEF Zeroed, Clean, NoHeads, Shell
<1>2. z \in Memory
  BY <1>0, ZeroedType, Pids, CreatePCBType DEF Good, Keeps
<1>3. Clean(z) /\ z.head = NoHeads /\ z.prio = [p \in Pid |-> 0]
      /\ z.live = {Shell} /\ z.prevfg = NULL
  <2>0. Zeroed \in Memory
    BY ZeroedType
  <2>a. BlockCreated(Zeroed, Shell, NULL, z)
    BY <2>0, BlockIsCreated
  <2>1. /\ z.head = Zeroed.head /\ z.live = Zeroed.live \cup {Shell}
        /\ z.kids = [Zeroed.kids EXCEPT ![Shell] = <<>>]
        /\ z.parent = [Zeroed.parent EXCEPT ![Shell] = NULL]
        /\ z.status = [Zeroed.status EXCEPT ![Shell] = "READY"]
        /\ z.prio = [Zeroed.prio EXCEPT ![Shell] = 0]
        /\ z.next = [Zeroed.next EXCEPT ![Shell] = NULL]
    <3> HIDE DEF z
    <3> QED BY ONLY <2>a DEF BlockCreated
  <2>2. /\ z.changed = [Zeroed.changed EXCEPT ![Shell] = FALSE]
        /\ z.natty = [Zeroed.natty EXCEPT ![Shell] = FALSE]
        /\ z.sigflag = [Zeroed.sigflag EXCEPT ![Shell] = FALSE]
        /\ z.ground = [Zeroed.ground EXCEPT ![Shell] = FG]
        /\ z.sleep = [Zeroed.sleep EXCEPT ![Shell] = -1]
    <3> HIDE DEF z
    <3> QED BY ONLY <2>a DEF BlockCreated
  <2>3. /\ z.ctx = Zeroed.ctx /\ z.fault = Zeroed.fault /\ z.cur = Zeroed.cur
        /\ z.how = Zeroed.how /\ z.tmod = Zeroed.tmod /\ z.queue = Zeroed.queue
        /\ z.prevfg = Zeroed.prevfg
    <3> HIDE DEF z
    <3> QED BY ONLY <2>a DEF BlockCreated
  <2> HIDE DEF z
  <2>4. /\ z.head = NoHeads /\ z.live = {Shell} /\ z.prio = [p \in Pid |-> 0]
        /\ z.prevfg = NULL
    BY <1>1, <2>1, <2>3
  <2>5. /\ z.next = [p \in Pid |-> NULL] /\ z.parent = [p \in Pid |-> NULL]
        /\ z.kids = [p \in Pid |-> <<>>] /\ z.status = [p \in Pid |-> "READY"]
    <3>1. /\ Zeroed.next = [p \in Pid |-> NULL] /\ Zeroed.parent = [p \in Pid |-> NULL]
          /\ Zeroed.kids = [p \in Pid |-> <<>>]
          /\ Zeroed.status = [p \in Pid |-> "READY"]
      BY <1>1 DEF Clean
    <3> QED BY <1>0, <2>1, <3>1
  <2>6. /\ z.changed = [p \in Pid |-> FALSE] /\ z.natty = [p \in Pid |-> FALSE]
        /\ z.sigflag = [p \in Pid |-> FALSE] /\ z.ground = [p \in Pid |-> FG]
        /\ z.sleep = [p \in Pid |-> -1]
    <3>1. /\ Zeroed.changed = [p \in Pid |-> FALSE] /\ Zeroed.natty = [p \in Pid |-> FALSE]
          /\ Zeroed.sigflag = [p \in Pid |-> FALSE] /\ Zeroed.ground = [p \in Pid |-> FG]
          /\ Zeroed.sleep = [p \in Pid |-> -1]
      BY <1>1 DEF Clean
    <3> QED BY <1>0, <2>2, <3>1
  <2> QED BY <1>1, <1>2, <2>3, <2>4, <2>5, <2>6 DEF Clean
<1>4. KProcessCreate(Zeroed, NULL, NULL, "start") = z3
  <2> HIDE DEF z
  <2>1. z1.head = NoHeads
    BY <1>2, <1>3 DEF Memory
  <2> DEFINE k1 == [CreatePCB(Zeroed, Shell, NULL) EXCEPT
                      !.ctx[Shell] = [who |-> Shell, pc |-> "start"]]
  <2>2. k1 = z1
    BY DEF z
  <2>3. KProcessCreate(Zeroed, NULL, NULL, "start") =
          [AddPCB(k1, 0, Shell) EXCEPT !.prevcur = Shell, !.count = Shell + 1]
    BY <1>1 DEF KProcessCreate
  <2> HIDE DEF k1, z1
  <2>4. AddPCB(z1, 0, Shell) = z2
    BY <1>0, <2>1 DEF AddPCB, NoHeads
  <2> HIDE DEF z2
  <2> QED BY <2>2, <2>3, <2>4
<1> HIDE DEF z
<1>5. Clean(z1) /\ z1.head = NoHeads /\ z1.prio = [p \in Pid |-> 0]
      /\ z1.live = {Shell} /\ z1.prevfg = NULL
  <2>1. z1.ctx = [p \in Pid |-> At(p, "start")]
    <3>1. z1.ctx = [z.ctx EXCEPT ![Shell] = At(Shell, "start")]
      BY <1>2 DEF Memory, At
    <3> HIDE DEF z1
    <3> QED BY <1>0, <1>3, <3>1 DEF Clean
  <2>2. z1 \in Memory
    BY <1>0, <1>2 DEF Memory, Context
  <2> QED BY <1>3, <2>1, <2>2 DEF Clean, Memory
<1> HIDE DEF z1
<1>6. z3 \in Memory
  BY <1>0, <1>5 DEF Clean, Memory
<1>7. Clean(z3) /\ z3.head = [NoHeads EXCEPT ![0] = Shell] /\ z3.prio = z1.prio
      /\ z3.live = {Shell} /\ z3.count = Shell + 1 /\ z3.prevfg = NULL
      /\ z3.prevcur = Shell
  BY <1>5, <1>6 DEF Clean, Memory
<1> HIDE DEF z3
<1> QED BY <1>4, <1>5, <1>7

\* Memory as run_os leaves it to the scheduler: the shell's block has gone
\* through queue zero into queue neg.
Boot == LET m == KProcessNice(KProcessCreate(Zeroed, NULL, NULL, "start"), Shell, -1)
        IN  [m EXCEPT !.prevfg = m.head[-1]]

LEMMA BootFields ==
  /\ Booted = Scheduler(Boot)
  /\ Clean(Boot) /\ Boot.head = [NoHeads EXCEPT ![-1] = Shell]
  /\ Boot.prio = [p \in Pid |-> IF p = Shell THEN -1 ELSE 0]
  /\ Boot.live = {Shell} /\ Boot.count = Shell + 1
  /\ Boot.prevfg = Shell /\ Boot.prevcur = Shell
<1> DEFINE z  == KProcessCreate(Zeroed, NULL, NULL, "start")
           n  == KProcessNice(z, Shell, -1)
           k0 == RemovePCB(z, 0, Shell)
           k1 == [k0 EXCEPT !.prio[Shell] = -1]
           k2 == AddPCB(k1, -1, Shell)
           b  == [n EXCEPT !.prevfg = n.head[-1]]
<1>0. Shell \in Pid /\ 0 \in Queue /\ -1 \in Queue /\ Shell # NULL /\ Shell \in Ptr
      /\ -1 \in RunQueue
  BY Pids DEF Queue, RunQueue
<1>1. /\ Clean(z) /\ z.head = [NoHeads EXCEPT ![0] = Shell]
      /\ z.prio = [p \in Pid |-> 0] /\ z.live = {Shell} /\ z.count = Shell + 1
      /\ z.prevfg = NULL /\ z.prevcur = Shell
  BY ShellCreated
<1>2. Boot = b
  BY DEF Boot
<1> HIDE DEF z
<1>3. Shell \in Members(z, 0) /\ z.head[0] = Shell
  BY <1>0, <1>1, Pids DEF Members, Visited, NoHeads
<1>4. Findable(z, Shell) /\ z.cur # Shell /\ z.prio[Shell] = 0
      /\ z.parent[Shell] = NULL
  BY <1>0, <1>1, <1>3, Pids DEF Findable, InRunQueue, RunQueue, Clean
<1>5. Clean(k0) /\ k0.head = NoHeads /\ k0.prio = [p \in Pid |-> 0] /\ k0.live = {Shell}
      /\ k0.count = Shell + 1 /\ k0.prevfg = NULL /\ k0.prevcur = Shell
  <2>1. RemoveChild(z, Shell) = z
    BY <1>4 DEF RemoveChild
  <2>2. z.next[Shell] = NULL
    BY <1>0, <1>1 DEF Clean
  <2>3. k0 = [z EXCEPT !.head[0] = NULL, !.next[Shell] = NULL]
    BY <1>3, <2>1, <2>2 DEF RemovePCB, Unlink
  <2> HIDE DEF k0
  <2>4. /\ k0.head = [z.head EXCEPT ![0] = NULL]
        /\ k0.next = [z.next EXCEPT ![Shell] = NULL]
        /\ k0.prio = z.prio /\ k0.live = z.live /\ k0.count = z.count
        /\ k0.prevfg = z.prevfg /\ k0.prevcur = z.prevcur
    BY <1>1, <2>3 DEF Clean, Memory
  <2>5. /\ k0.parent = z.parent /\ k0.kids = z.kids /\ k0.status = z.status
        /\ k0.changed = z.changed /\ k0.natty = z.natty /\ k0.sigflag = z.sigflag
        /\ k0.ground = z.ground /\ k0.sleep = z.sleep /\ k0.ctx = z.ctx
        /\ k0.fault = z.fault /\ k0.cur = z.cur /\ k0.how = z.how
        /\ k0.tmod = z.tmod /\ k0.queue = z.queue
    BY <1>1, <2>3 DEF Clean, Memory
  <2>6. k0 \in Memory
    BY <1>0, <1>1, <2>3, Pids DEF Clean, Memory
  <2>7. k0.head = NoHeads /\ k0.next = [p \in Pid |-> NULL]
    BY <1>0, <1>1, <2>4 DEF Clean, NoHeads
  <2> QED BY <1>1, <2>4, <2>5, <2>6, <2>7 DEF Clean
<1>6. n = RejoinParent(k2, Shell)
  <2>1. 0 # -1
    OBVIOUS
  <2> QED BY <1>4, <2>1 DEF KProcessNice
<1> HIDE DEF k0
<1>7. Clean(k1) /\ k1.head = NoHeads
      /\ k1.prio = [p \in Pid |-> IF p = Shell THEN -1 ELSE 0] /\ k1.live = {Shell}
      /\ k1.count = Shell + 1 /\ k1.prevfg = NULL /\ k1.prevcur = Shell
  <2>1. k1 \in Memory
    BY <1>0, <1>5 DEF Clean, Memory
  <2>2. k1.prio = [k0.prio EXCEPT ![Shell] = -1]
    BY <1>5 DEF Clean, Memory
  <2>3. k1.prio = [p \in Pid |-> IF p = Shell THEN -1 ELSE 0]
    <3> HIDE DEF k1
    <3> QED BY <1>0, <1>5, <2>2
  <2> QED BY <1>5, <2>1, <2>3 DEF Clean, Memory
<1> HIDE DEF k1
<1>8. k2 = [k1 EXCEPT !.head[-1] = Shell]
  BY <1>0, <1>7 DEF AddPCB, NoHeads
<1> HIDE DEF k2
<1>9. Clean(k2) /\ k2.head = [NoHeads EXCEPT ![-1] = Shell]
      /\ k2.prio = [p \in Pid |-> IF p = Shell THEN -1 ELSE 0] /\ k2.live = {Shell}
      /\ k2.count = Shell + 1 /\ k2.prevfg = NULL /\ k2.prevcur = Shell
  <2>1. k2 \in Memory
    BY <1>0, <1>7, <1>8 DEF Clean, Memory
  <2> QED BY <1>7, <1>8, <2>1 DEF Clean, Memory
<1>10. n = k2
  BY <1>0, <1>6, <1>9 DEF RejoinParent, Clean
<1> HIDE DEF n
<1>11. n.head[-1] = Shell
  BY <1>0, <1>9, <1>10 DEF NoHeads
<1>12. b \in Memory /\ b.prevfg = Shell
  BY <1>0, <1>9, <1>10, <1>11 DEF Clean, Memory
<1>13. Clean(b) /\ b.head = k2.head /\ b.prio = k2.prio /\ b.live = k2.live
       /\ b.count = k2.count /\ b.prevcur = k2.prevcur
  <2>1. k2 \in Memory /\ b = [k2 EXCEPT !.prevfg = Shell]
    BY <1>9, <1>10, <1>11 DEF Clean
  <2> HIDE DEF b
  <2>2. /\ b.next = k2.next /\ b.parent = k2.parent /\ b.kids = k2.kids
        /\ b.status = k2.status /\ b.changed = k2.changed /\ b.natty = k2.natty
    BY ONLY <2>1 DEF Memory
  <2>3. /\ b.sigflag = k2.sigflag /\ b.ground = k2.ground /\ b.sleep = k2.sleep
        /\ b.ctx = k2.ctx /\ b.fault = k2.fault /\ b.cur = k2.cur
    BY ONLY <2>1 DEF Memory
  <2>4. /\ b.how = k2.how /\ b.tmod = k2.tmod /\ b.queue = k2.queue
        /\ b.head = k2.head /\ b.prio = k2.prio /\ b.live = k2.live
        /\ b.count = k2.count /\ b.prevcur = k2.prevcur
    BY ONLY <2>1 DEF Memory
  <2> QED BY ONLY <1>9, <1>12, <2>2, <2>3, <2>4 DEF Clean
<1> HIDE DEF b
<1>14. Booted = Scheduler(Boot)
  BY DEF Booted, Boot
<1> QED BY <1>2, <1>9, <1>12, <1>13, <1>14

LEMMA BootEnters == Entering(Boot, TRUE)
<1>1. Shell + 1 # Shell /\ Shell \in Pid
  BY Pids DEF Shell
<1>2. /\ \A p \in Pid : Boot.kids[p] = <<>>
      /\ Boot.status[Shell] = "READY" /\ Boot.parent[Shell] = NULL
  BY <1>1, BootFields DEF Clean
<1> QED BY <1>1, <1>2, BootFields DEF Entering, Good, Rooted, Clean

LEMMA BootedType == Resting(Booted, TRUE)
BY BootFields, BootEnters, SchedulerType

-----------------------------------------------------------------------------
(***************************************************************************)
(* What the steps do to the machine.                                       *)
(***************************************************************************)
\* A thread has the CPU.
LEMMA ThreadRuns ==
  ASSUME NEW m, NEW r \in Context, NEW safe \in BOOLEAN, Resting(m, safe)
  PROVE  OnCpu(m, r, safe)
BY Contexts DEF OnCpu, Resting

\* The scheduler has made its choice.
LEMMA DispatchType ==
  ASSUME NEW m, NEW safe \in BOOLEAN, Entering(m, safe), Dispatch(m)
  PROVE  OnCpu(k', run', safe)
<1>1. CASE m.fault
  <2>1. OnCpu(m, Exited, safe)
    BY Contexts DEF OnCpu, Entering
  <2> QED BY <1>1, <2>1 DEF Dispatch, Resumed
<1>2. CASE ~m.fault
  <2>1. Resting(k', safe) /\ run' = Resumed(k')
    BY <1>2, SchedulerType DEF Dispatch
  <2>2. Good(k', safe) /\ k'.prevfg \in Pid /\ k'.prevcur \in Pid
    BY <2>1 DEF Resting
  <2>3. Resumed(k') = Exited \/ (Resumed(k') = Idle /\ k'.cur = NULL)
          \/ Resumed(k') \in Context
    BY <2>1, Pids DEF Resumed, Resting, Good, Memory
  <2> QED BY <2>1, <2>2, <2>3, Contexts DEF OnCpu
<1> QED BY <1>1, <1>2

\* The scheduler may be entered from any call.
LEMMA RestingEnters ==
  ASSUME NEW m, NEW safe \in BOOLEAN, Resting(m, safe)
  PROVE  Entering(m, safe)
BY DEF Resting, Entering

\* swapcontext.
LEMMA SaveType ==
  ASSUME NEW m, NEW b \in Pid, NEW c \in Context, NEW safe \in BOOLEAN, Resting(m, safe)
  PROVE  Resting(Save(m, b, c), safe)
BY DEF Save, Resting, Good, Memory, Rooted

\* p_spawn and the commands fg and bg set the ground of a process, the end of
\* the shell's loop prev_fg.
LEMMA GroundType ==
  ASSUME NEW m, NEW b \in Pid, NEW g \in BOOLEAN, NEW safe \in BOOLEAN, Resting(m, safe)
  PROVE  Resting([m EXCEPT !.ground[b] = g], safe)
BY DEF Resting, Good, Memory, Rooted

\* set_prev_fg_pcb.
LEMMA PrevFgType ==
  ASSUME NEW m, NEW b \in Pid, NEW safe \in BOOLEAN, Resting(m, safe)
  PROVE  Resting([m EXCEPT !.prevfg = b], safe)
BY Pids DEF Resting, Good, Memory, Rooted

\* k_process_update_changed.
LEMMA ChangedType ==
  ASSUME NEW m, NEW b \in Pid, NEW safe \in BOOLEAN, Resting(m, safe)
  PROVE  Resting([m EXCEPT !.changed[b] = FALSE], safe)
BY DEF Resting, Good, Memory, Rooted

\* set_sleep, with the time p_sleep gives it.
LEMMA SetSleepType ==
  ASSUME NEW m, NEW b \in Pid, NEW safe \in BOOLEAN, Resting(m, safe)
  PROVE  Resting(SetSleep(m, b, Ticks), safe)
<1>1. Ticks \in -1..MaxSleep /\ "BLOCKED" \in Status
  BY ProgramAssumption, SleepAssumption DEF Status
<1> QED BY <1>1 DEF SetSleep, Resting, Good, Memory, Rooted

\* add_PCB to the queue of the block's own priority.
LEMMA AddPCBRests ==
  ASSUME NEW m, NEW b \in Pid, NEW safe \in BOOLEAN, Resting(m, safe)
  PROVE  Resting(AddPCB(m, m.prio[b], b), safe)
<1>1. m.prio[b] \in Queue /\ Good(m, safe)
  BY Pids DEF Resting, Good, Memory
<1> QED BY <1>1, AddPCBKeeps, KeepsResting
-----------------------------------------------------------------------------
(***************************************************************************)
(* Every step preserves Inv: the steps one by one.                         *)
(***************************************************************************)
\* The variables that only TypeOK speaks of.
Others == kind \in [Pid -> Kind] /\ local \in [Pid -> Pid] /\ pid \in Pid
            /\ handlers \in BOOLEAN

\* Inv, from its two parts.
LEMMA InvOf ==
  ASSUME NEW safe \in BOOLEAN, OnCpu(k, run, safe)', Others'
  PROVE  Inv(safe)'
BY DEF Inv, TypeOK, OnCpu, Others, Good

\* What Inv says when a thread runs.
LEMMA InvAt ==
  ASSUME NEW safe \in BOOLEAN, Inv(safe), NEW p \in Pid, NEW pc, Running(p, pc)
  PROVE  /\ Resting(k, safe) /\ At(p, pc) \in Context /\ Others
         /\ k.prevfg \in Pid /\ k.prevcur \in Pid /\ k.cur \in Ptr
<1>1. At(p, pc) # Exited /\ At(p, pc) # Idle
  BY Pids DEF At, Exited, Idle
<1> QED BY <1>1 DEF Inv, TypeOK, OnCpu, Running, Others, Good, Memory

\* The timer.
LEMMA TickStep ==
  ASSUME NEW safe \in BOOLEAN, Inv(safe), Tick
  PROVE  Inv(safe)'
<1> DEFINE m == IF k.cur = NULL THEN k ELSE Save(k, k.cur, run)
<1>1. Resting(k, safe) /\ k.cur \in Ptr
  BY DEF Inv, Tick, OnCpu, Good, Memory
<1>2. k.cur # NULL => run \in Context
  BY DEF Inv, Tick, OnCpu
<1>3. Resting(m, safe)
  BY <1>1, <1>2, SaveType, Pids
<1> DEFINE n == TimerInterrupt(m)
<1>4. Dispatch(n) /\ UNCHANGED <<kind, local, pid, handlers>>
  BY DEF Tick
<1> HIDE DEF m
<1>5. Entering(n, safe)
  BY <1>3, TimerInterruptType
<1> HIDE DEF n
<1>6. OnCpu(k', run', safe)
  BY <1>4, <1>5, DispatchType
<1> QED BY <1>4, <1>6, InvOf DEF Inv, TypeOK, Others

\* p_spawn up to the creation of the block.
LEMMA CreateStep ==
  ASSUME NEW safe \in BOOLEAN, Inv(safe), NEW p \in Pid, NEW prog \in Kind, NEW pc0,
         NEW pc, Running(p, pc0), At(p, pc) \in Context, Create(p, prog, pc),
         UNCHANGED <<pid, handlers>>
  PROVE  Inv(safe)'
<1>1. Resting(k, safe) /\ k.cur \in Ptr /\ Others
  BY InvAt
<1>2. k \in Memory /\ k.count \in Pid
  <2>1. k \in Memory /\ k.count \in 1..(MaxPid + 1)
    BY <1>1 DEF Resting, Good, Memory
  <2> QED BY <2>1, MaxPidAssumption DEF Create, Pid
<1>3. PICK stale \in StaleNext(k) : k' = KProcessCreate(k, k.cur, stale, "start")
  BY DEF Create
<1>4. stale \in Ptr
  BY <1>2, StaleNextType
<1>5. [who |-> k.count, pc |-> "start"] \in Context
  BY <1>2 DEF Context
<1>6. Resting(k', safe)
  BY <1>1, <1>2, <1>3, <1>4, <1>5, KProcessCreateType
<1>7. OnCpu(k', run', safe)
  BY <1>6, ThreadRuns DEF Create, Goto
<1>8. Others'
  BY <1>1, <1>2 DEF Create, Others
<1> QED BY <1>7, <1>8, InvOf

\* Control passes to the scheduler, and no variable but k and run changes.
LEMMA DispatchStep ==
  ASSUME NEW safe \in BOOLEAN, Inv(safe), NEW m, Resting(m, safe), Dispatch(m),
         Others'
  PROVE  Inv(safe)'
<1>1. OnCpu(k', run', safe)
  BY RestingEnters, DispatchType
<1> QED BY <1>1, InvOf

\* The thread goes on.
LEMMA GotoStep ==
  ASSUME NEW safe \in BOOLEAN, NEW p, NEW pc, At(p, pc) \in Context, Goto(p, pc),
         Resting(k, safe)', Others'
  PROVE  Inv(safe)'
BY ThreadRuns, InvOf DEF Goto

\* The programs: zombify, orphanify, sleep and those that return.
LEMMA ProgramStep ==
  ASSUME NEW safe \in BOOLEAN, Inv(safe), NEW p \in Pid, Program(p)
  PROVE  Inv(safe)'
<1>0. /\ At(p, "ground") \in Context /\ At(p, "run") \in Context
      /\ At(p, "asleep") \in Context /\ At(p, "woken") \in Context
      /\ "zombie_child" \in Kind /\ "orphan_child" \in Kind /\ FG \in BOOLEAN
  BY DEF At, Context, Kind, FG
<1>1. CASE ProgramSpawns(p)
  BY <1>0, <1>1, CreateStep DEF ProgramSpawns
<1>2. CASE ProgramSetsGround(p)
  <2>1. Resting(k, safe) /\ Others
    BY <1>2, InvAt DEF ProgramSetsGround
  <2>2. Resting(k', safe) /\ Others'
    BY <1>0, <1>2, <2>1, GroundType DEF ProgramSetsGround, SetGround, Others
  <2> QED BY <1>0, <1>2, <2>2, GotoStep DEF ProgramSetsGround
<1>3. CASE SleepSets(p)
  <2>1. Resting(k, safe) /\ Others /\ k.prevcur \in Pid
    BY <1>3, InvAt DEF SleepSets
  <2>2. Resting(k', safe) /\ Others'
    BY <1>3, <2>1, SetSleepType DEF SleepSets, Others
  <2> QED BY <1>0, <1>3, <2>2, GotoStep DEF SleepSets
<1>4. CASE SleepSwitches(p)
  <2> DEFINE s == local[p]
             m == AddPCB(k, k.prio[s], s)
  <2>1. Resting(k, safe) /\ Others
    BY <1>4, InvAt DEF SleepSwitches
  <2>2. s \in Pid /\ Resting(m, safe)
    BY <2>1, AddPCBRests DEF Others
  <2>3. Dispatch(Save(m, s, At(p, "woken"))) /\ Others'
    BY <1>4, <2>1 DEF SleepSwitches, Others
  <2> HIDE DEF m, s
  <2>4. Resting(Save(m, s, At(p, "woken")), safe)
    BY <1>0, <2>2, SaveType
  <2> QED BY <2>3, <2>4, DispatchStep
<1>5. CASE Returns(p)
  <2>1. Resting(k, safe) /\ Others
    BY <1>5, InvAt DEF Returns
  <2>2. Dispatch(k) /\ Others'
    BY <1>5, <2>1 DEF Returns, Others
  <2> QED BY <2>1, <2>2, DispatchStep
<1> QED BY <1>1, <1>2, <1>3, <1>4, <1>5 DEF Program
-----------------------------------------------------------------------------
\* The points the shell's thread goes through.
LEMMA ShellPoints ==
  /\ Shell \in Pid
  /\ \A pc \in {"top", "groundFG", "groundBG", "scan", "block", "fgcont", "fgscan",
                "fgblock", "bgcont", "after"} : At(Shell, pc) \in Context
BY Pids DEF At, Context

\* p_wait is entered: the shell goes on to the scan, stops, or leaves its loop.
LEMMA EnterWaitStep ==
  ASSUME NEW safe \in BOOLEAN, Inv(safe), NEW m, Resting(m, safe),
         NEW pc, At(Shell, pc) \in Context, EnterWait(m, pc), Others,
         kind' = kind, pid' \in Pid, handlers' = handlers
  PROVE  Inv(safe)'
<1>1. Others'
  BY DEF EnterWait, Others, Resting
<1>2. CASE k' = m /\ Goto(Shell, pc)
  BY <1>1, <1>2, GotoStep
<1>3. CASE k' = m /\ run' = Exited
  <2>1. OnCpu(m, Exited, safe)
    BY Contexts DEF OnCpu, Resting
  <2> QED BY <1>1, <1>3, <2>1, InvOf
<1>4. CASE Dispatch(m)
  BY <1>1, <1>4, DispatchStep
<1> QED BY <1>2, <1>3, <1>4 DEF EnterWait

\* p_wait frees only a child: not the shell.
LEMMA ReportedType ==
  ASSUME NEW safe \in BOOLEAN, Resting(k, safe), NEW c \in Pid, NEW q \in Pid,
         WaitFinds(c, q)
  PROVE  Resting(Reported(q), safe)
<1>1. safe => q # Shell
  BY DEF WaitFinds, Resting, Good, Rooted
<1>2. CASE k.status[q] \in {"ZOMBIE", "KILLED"}
  BY <1>1, <1>2, KProcessTerminateKeeps, KeepsResting DEF Reported, Resting
<1>3. CASE k.status[q] \notin {"ZOMBIE", "KILLED"}
  BY <1>3, ChangedType DEF Reported
<1> QED BY <1>2, <1>3

\* p_wait reports a child, which is freed when it has terminated.
LEMMA ReportsStep ==
  ASSUME NEW safe \in BOOLEAN, Inv(safe), ShellReports
  PROVE  Inv(safe)'
<1> DEFINE m  == Reported(pid)
           m2 == [m EXCEPT !.ground[pid] = BG]
<1>1. Resting(k, safe) /\ Others
  BY ShellPoints, InvAt DEF ShellReports
<1>2. Resting(m, safe)
  <2>1. local[Shell] \in Pid /\ pid \in Pid /\ WaitFinds(local[Shell], pid)
    BY <1>1, ShellPoints DEF ShellReports, Others
  <2> QED BY <1>1, <2>1, ReportedType
<1>3. PICK to \in {"after", "top"} : ShellHears(m, to)
  BY DEF ShellReports
<1>4. UNCHANGED <<kind, local, handlers>>
  BY DEF ShellReports
<1> HIDE DEF m
<1>5. Resting(m2, safe)
  BY <1>1, <1>2, GroundType DEF BG, Others
<1>6. k' \in {m, m2} /\ pid' \in {Shell, pid}
  BY <1>3 DEF ShellHears
<1>7. Goto(Shell, "top") \/ Goto(Shell, "after")
  BY <1>3 DEF ShellHears
<1>8. Others'
  BY <1>1, <1>4, <1>6, ShellPoints DEF Others
<1> HIDE DEF m2
<1> QED BY <1>2, <1>5, <1>6, <1>7, <1>8, ShellPoints, GotoStep

\* p_wait: the scan with its two outcomes, and the block.
LEMMA WaitsStep ==
  ASSUME NEW safe \in BOOLEAN, Inv(safe), ShellWaits
  PROVE  Inv(safe)'
<1>1. CASE ShellFindsNone
  <2>1. Resting(k, safe) /\ Others
    BY <1>1, ShellPoints, InvAt DEF ShellFindsNone
  <2>2. Resting(k', safe) /\ Others'
    BY <1>1, <2>1 DEF ShellFindsNone, Others
  <2>3. Goto(Shell, "block") \/ Goto(Shell, "fgblock")
    BY <1>1 DEF ShellFindsNone
  <2> QED BY <2>2, <2>3, ShellPoints, GotoStep
<1>2. CASE ShellBlocks
  <2> DEFINE c == At(Shell, IF run.pc = "block" THEN "scan" ELSE "fgscan")
             m == KProcessSwapToScheduler(k, c)
  <2>1. Resting(k, safe) /\ Others
    BY <1>2, ShellPoints, InvAt DEF ShellBlocks
  <2>2. c \in Context
    BY ShellPoints
  <2>3. Dispatch(m) /\ Others'
    BY <1>2, <2>1 DEF ShellBlocks, Others
  <2> HIDE DEF c
  <2>4. Resting(m, safe)
    BY <2>1, <2>2, KProcessSwapToSchedulerType
  <2> HIDE DEF m
  <2> QED BY <2>3, <2>4, DispatchStep
<1> QED BY <1>1, <1>2, ReportsStep DEF ShellWaits

\* The shell between two commands.
LEMMA ProceedsStep ==
  ASSUME NEW safe \in BOOLEAN, Inv(safe), ShellProceeds
  PROVE  Inv(safe)'
<1>1. CASE ShellStarts
  <2>1. Resting(k, safe) /\ Others
    BY <1>1, ShellPoints, InvAt DEF ShellStarts
  <2>2. Resting(k', safe) /\ Others'
    BY <1>1, <2>1, ShellPoints DEF ShellStarts, Others
  <2> QED BY <1>1, <2>2, ShellPoints, GotoStep DEF ShellStarts
<1>2. CASE ShellSetsGround
  <2>1. Resting(k, safe) /\ Others
    BY <1>2, ShellPoints, InvAt DEF ShellSetsGround
  <2>2. /\ kind' = kind /\ pid' \in Pid /\ handlers' = handlers
        /\ local[Shell] \in Pid /\ FG \in BOOLEAN /\ BG \in BOOLEAN
    BY <1>2, <2>1, ShellPoints DEF ShellSetsGround, Others, FG, BG
  <2>3. CASE EnterWait([k EXCEPT !.ground[local[Shell]] = FG], "scan")
    BY <2>1, <2>2, <2>3, ShellPoints, GroundType, EnterWaitStep
  <2>4. CASE SetGround(Shell, BG) /\ Goto(Shell, "after") /\ UNCHANGED local
    <3>1. Resting(k', safe) /\ Others'
      BY <2>1, <2>2, <2>4, GroundType DEF SetGround, Others
    <3> QED BY <2>4, <3>1, ShellPoints, GotoStep
  <2> QED BY <1>2, <2>3, <2>4 DEF ShellSetsGround
<1>3. CASE ShellLoops
  <2>1. Resting(k, safe) /\ Others
    BY <1>3, ShellPoints, InvAt DEF ShellLoops
  <2>2. Resting(k', safe) /\ Others'
    BY <1>3, <2>1, ShellPoints, PrevFgType DEF ShellLoops, Others
  <2> QED BY <1>3, <2>2, ShellPoints, GotoStep DEF ShellLoops
<1> QED BY <1>1, <1>2, <1>3, WaitsStep DEF ShellProceeds

\* The polls of background jobs.
LEMMA PollsStep ==
  ASSUME NEW safe \in BOOLEAN, Inv(safe), ShellPolls
  PROVE  Inv(safe)'
<1>1. Resting(k, safe) /\ Others /\ k.prevcur \in Pid
  BY ShellPoints, InvAt DEF ShellPolls
<1>2. PICK q \in Spawned : WaitFinds(k.prevcur, q) /\ k' = Reported(q)
  BY DEF ShellPolls
<1>3. q \in Pid
  BY <1>1, MaxPidAssumption DEF Spawned, Resting, Good, Memory, Pid
<1>4. Resting(k', safe)
  BY <1>1, <1>2, <1>3, ReportedType
<1>5. Others' /\ Goto(Shell, "top")
  BY <1>1 DEF ShellPolls, Others, Running, Goto
<1> QED BY <1>4, <1>5, ShellPoints, GotoStep

\* The commands: a program, nice_pid, fg, logout.
LEMMA CommandStep ==
  ASSUME NEW safe \in BOOLEAN, Inv(safe), ShellCommand
  PROVE  Inv(safe)'
<1>1. CASE ShellSpawns
  <2>1. PICK prog \in Programs, g \in Grounds :
          Create(Shell, prog, IF g = FG THEN "groundFG" ELSE "groundBG")
    BY <1>1 DEF ShellSpawns
  <2>2. prog \in Kind
    BY ProgramAssumption DEF Kind
  <2> QED BY <1>1, <2>1, <2>2, ShellPoints, CreateStep DEF ShellSpawns
<1>2. CASE ShellNices
  <2>1. Resting(k, safe) /\ Others
    BY <1>2, ShellPoints, InvAt DEF ShellNices
  <2>2. PICK q \in Pid, prior \in Priorities :
          k' = IF prior = 0 THEN Fault(k) ELSE KProcessNice(k, q, prior)
    BY <1>2 DEF ShellNices
  <2>3. /\ Keeps(k, Fault(k), safe)
        /\ Keeps(k, KProcessNice(k, q, prior), safe)
    BY <2>1, KProcessNiceKeeps, FlagKeeps, ProgramAssumption DEF Fault, Resting
  <2>4. Resting(k', safe)
    BY <2>1, <2>2, <2>3, KeepsResting
  <2>5. Others'
    BY <1>2, <2>1 DEF ShellNices, Others
  <2>6. run = At(Shell, "top") /\ (run' = Exited \/ run' = run)
    BY <1>2 DEF ShellNices, Running
  <2>7. OnCpu(k', run', safe)
    BY <2>4, <2>6, ShellPoints, ThreadRuns, Contexts DEF OnCpu, Resting
  <2> QED BY <2>5, <2>7, InvOf
<1>3. CASE ShellFg
  <2>1. Resting(k, safe) /\ Others
    BY <1>3, ShellPoints, InvAt DEF ShellFg
  <2>2. PICK q \in Spawned : pid' = q /\ EnterWait([k EXCEPT !.ground[q] = FG], "fgscan")
    BY <1>3 DEF ShellFg
  <2>3. q \in Pid /\ FG \in BOOLEAN
    BY <2>1, MaxPidAssumption DEF Spawned, Resting, Good, Memory, Pid, FG
  <2>4. Resting([k EXCEPT !.ground[q] = FG], safe)
    BY <2>1, <2>3, GroundType
  <2> QED BY <1>3, <2>1, <2>2, <2>3, <2>4, ShellPoints, EnterWaitStep DEF ShellFg
<1>4. CASE ShellLogout
  <2>1. Resting(k, safe) /\ Others
    BY <1>4, ShellPoints, InvAt DEF ShellLogout
  <2>2. OnCpu(k', run', safe) /\ Others'
    BY <1>4, <2>1, Contexts DEF ShellLogout, OnCpu, Resting, Others
  <2> QED BY <2>2, InvOf
<1> QED BY <1>1, <1>2, <1>3, <1>4 DEF ShellCommand
-----------------------------------------------------------------------------
(***************************************************************************)
(* The theorems.                                                           *)
(***************************************************************************)
\* PennOS starts with the shell allocated, alive and at the root.
LEMMA InitInv == Init => Inv(TRUE)
<1> SUFFICES ASSUME Init PROVE Inv(TRUE)
  OBVIOUS
<1>1. Resting(k, TRUE) /\ run = Resumed(k)
  BY BootedType DEF Init
<1>2. run \in Context \/ run = Exited \/ (run = Idle /\ k.cur = NULL)
  BY <1>1, Pids DEF Resumed, Resting, Good, Memory
<1>3. OnCpu(k, run, TRUE)
  BY <1>1, <1>2, Contexts DEF OnCpu, Resting
<1> QED BY <1>3, Pids DEF Init, Inv, TypeOK, OnCpu, Good, Kind

\* Each step of the running system preserves the invariant, whether or not it
\* speaks of the root of the process tree.
LEMMA NextInv ==
  ASSUME NEW safe \in BOOLEAN, Inv(safe), [Next]_vars
  PROVE  Inv(safe)'
<1>1. CASE UNCHANGED vars
  BY <1>1 DEF vars, Inv, TypeOK, OnCpu
<1>2. CASE Stopped
  BY <1>2 DEF Stopped, vars, Inv, TypeOK, OnCpu
<1> QED BY <1>1, <1>2, TickStep, ProgramStep, ProceedsStep, PollsStep, CommandStep DEF Next

\* The globals and the fields of every pcb keep their types in every reachable
\* state, whatever the number of processes, the time slices and the programs.
THEOREM TypeCorrect == Spec => []TypeOK
<1>1. Inv(TRUE) /\ [Next]_vars => Inv(TRUE)'
  BY NextInv
<1>2. Inv(TRUE) => TypeOK
  BY DEF Inv
<1> QED BY InitInv, <1>1, <1>2, PTL DEF Spec

\* Without signals the shell is never terminated and its block never freed,
\* however many processes, time slices and priorities there are: no process
\* comes to have the shell as a child, and k_process_kill, k_process_terminate
\* and p_wait work down the tree.
THEOREM ShellIsSafe == Spec => []ShellSurvives
<1>1. Inv(TRUE) /\ [Next]_vars => Inv(TRUE)'
  BY NextInv
<1>2. Inv(TRUE) => ShellSurvives
  BY DEF Inv, OnCpu, Good, Rooted, ShellSurvives, Dead
<1> QED BY InitInv, <1>1, <1>2, PTL DEF Spec
-----------------------------------------------------------------------------
(***************************************************************************)
(* Walks end, and whoever is dead says so: the invariant is that memory is *)
(* Sound and that the pointers in the frames of the threads are to blocks  *)
(* that have been created.                                                 *)
(***************************************************************************)
Aware == Sound(k) /\ \A p \in Pid : local[p] < k.count

\* A step that creates no block.
LEMMA AwareOf ==
  ASSUME Aware, Others, Sound(k)', k'.count = k.count,
         \/ local' = local
         \/ \E p \in Pid : \E x : x < k.count /\ local' = [local EXCEPT ![p] = x]
  PROVE  Aware'
<1>1. CASE local' = local
  BY <1>1 DEF Aware
<1>2. CASE \E p \in Pid : \E x : x < k.count /\ local' = [local EXCEPT ![p] = x]
  <2>1. PICK p \in Pid : \E x : x < k.count /\ local' = [local EXCEPT ![p] = x]
    BY <1>2
  <2>2. PICK x : x < k.count /\ local' = [local EXCEPT ![p] = x]
    BY <2>1
  <2>3. local \in [Pid -> Pid]
    BY DEF Others
  <2> QED BY <2>2, <2>3 DEF Aware
<1> QED BY <1>1, <1>2

USE DEF Alike

\* The scheduler.
LEMMA DispatchSound ==
  ASSUME NEW m, Entering(m, FALSE), Sound(m), Dispatch(m)
  PROVE  Sound(k)' /\ k'.count = m.count
BY SchedulerSound DEF Dispatch, Chose

LEMMA TickAware ==
  ASSUME Inv(FALSE), Aware, Tick
  PROVE  Aware'
<1> DEFINE m == IF k.cur = NULL THEN k ELSE Save(k, k.cur, run)
           n == TimerInterrupt(m)
<1>1. Resting(k, FALSE) /\ k.cur \in Ptr /\ Sound(k) /\ Others
  BY DEF Inv, Tick, OnCpu, Good, Memory, Aware, TypeOK, Others
<1>2. k.cur # NULL => run \in Context
  BY DEF Inv, Tick, OnCpu
<1>3. Resting(m, FALSE)
  BY <1>1, <1>2, SaveType, Pids
<1>4. Sound(m) /\ m.count = k.count
  BY <1>1, <1>2, ContextSound, Pids DEF Save
<1>5. Dispatch(n) /\ UNCHANGED <<kind, local, pid, handlers>>
  BY DEF Tick
<1> HIDE DEF m
<1>6. Entering(n, FALSE) /\ Sound(n) /\ n.count = k.count
  BY <1>3, <1>4, TimerInterruptType, TimerInterruptSound
<1> HIDE DEF n
<1> QED BY <1>1, <1>5, <1>6, DispatchSound, AwareOf

LEMMA CreateAware ==
  ASSUME Inv(FALSE), Aware, NEW p \in Pid, NEW prog, NEW pc0, NEW pc,
         Running(p, pc0), Create(p, prog, pc)
  PROVE  Aware'
<1>1. Resting(k, FALSE) /\ k.cur \in Ptr /\ Others /\ Sound(k)
  BY InvAt DEF Aware
<1>2. k \in Memory /\ k.count \in Pid
  <2>1. k \in Memory /\ k.count \in 1..(MaxPid + 1)
    BY <1>1 DEF Resting, Good, Memory
  <2> QED BY <2>1, MaxPidAssumption DEF Create, Pid
<1>3. PICK stale \in StaleNext(k) : k' = KProcessCreate(k, k.cur, stale, "start")
  BY DEF Create
<1>4. stale \in Ptr /\ stale < k.count
  BY <1>1, <1>2, StaleNextKnown DEF Sound
<1>5. k.cur < k.count
  BY <1>1, KnownPointers DEF Sound
<1>6. [who |-> k.count, pc |-> "start"] \in Context
  BY <1>2 DEF Context
<1>7. Sound(k)' /\ k'.count = k.count + 1
  <2> DEFINE m == KProcessCreate(k, k.cur, stale, "start")
  <2>1. Sound(m) /\ Creates(k, m, "start")
    BY <1>1, <1>2, <1>4, <1>5, <1>6, KProcessCreateSound
  <2> HIDE DEF m
  <2>2. k' = m
    BY <1>3 DEF m
  <2> QED BY <2>1, <2>2 DEF Creates
<1>8. \A x \in Pid : local'[x] \in {k.count, local[x]}
  BY <1>1 DEF Create, Others
<1>9. k.count \in Nat /\ \A x \in Pid : local[x] \in Nat /\ local[x] < k.count
  <2>1. k.count \in Nat
    BY <1>2, MaxPidAssumption DEF Pid
  <2>2. \A x \in Pid : x \in Nat
    BY MaxPidAssumption DEF Pid
  <2>3. \A x \in Pid : local[x] \in Pid /\ local[x] < k.count
    BY <1>1 DEF Others, Aware
  <2> QED BY <2>1, <2>2, <2>3
<1>10. \A x \in Pid : local'[x] < k'.count
  <2> TAKE x \in Pid
  <2>1. local'[x] = k.count \/ local'[x] = local[x]
    BY <1>8
  <2>2. local[x] < k.count + 1
    BY <1>9
  <2>3. k.count < k.count + 1
    BY <1>9
  <2> QED BY <1>7, <2>1, <2>2, <2>3
<1> QED BY <1>7, <1>10 DEF Aware

\* Control passes to the scheduler with memory that has been changed.
LEMMA DispatchAware ==
  ASSUME Aware, Others, NEW m, Resting(m, FALSE), Sound(m), m.count = k.count,
         Dispatch(m), local' = local
  PROVE  Aware'
BY RestingEnters, DispatchSound, AwareOf

LEMMA ProgramAware ==
  ASSUME Inv(FALSE), Aware, NEW p \in Pid, Program(p)
  PROVE  Aware'
<1>0. At(p, "woken") \in Context /\ FG \in BOOLEAN
  BY DEF At, Context, FG
<1>1. CASE ProgramSpawns(p)
  BY <1>1, CreateAware DEF ProgramSpawns
<1>2. CASE ProgramSetsGround(p)
  <2>1. Others /\ Sound(k) /\ local[p] \in Pid
    BY <1>2, InvAt DEF ProgramSetsGround, Aware, Others
  <2>2. Sound(k)' /\ k'.count = k.count
    BY <1>0, <1>2, <2>1, FlagsSound DEF ProgramSetsGround, SetGround
  <2> QED BY <1>2, <2>1, <2>2, AwareOf DEF ProgramSetsGround
<1>3. CASE SleepSets(p)
  <2>1. Others /\ Sound(k) /\ k.prevcur \in Pid /\ k.prevcur < k.count
    BY <1>3, InvAt, KnownPointers DEF SleepSets, Aware, Sound
  <2>2. Ticks \in -1..MaxSleep
    BY ProgramAssumption, SleepAssumption
  <2>3. Sound(k)' /\ k'.count = k.count
    BY <1>3, <2>1, <2>2, SetSleepSound DEF SleepSets
  <2> QED BY <1>3, <2>1, <2>3, AwareOf DEF SleepSets
<1>4. CASE SleepSwitches(p)
  <2> DEFINE s == local[p]
             m == AddPCB(k, k.prio[s], s)
             n == Save(m, s, At(p, "woken"))
  <2>1. Resting(k, FALSE) /\ Others /\ Sound(k)
    BY <1>4, InvAt DEF SleepSwitches, Aware
  <2>2. s \in Pid /\ s < k.count
    BY <2>1 DEF Others, Aware
  <2>3. k.prio[s] \in Queue
    BY <2>1, <2>2, Pids DEF Sound, Links, Memory
  <2>4. Dispatch(n) /\ local' = local
    BY <1>4 DEF SleepSwitches
  <2>5. Resting(m, FALSE)
    BY <2>1, <2>2, AddPCBRests
  <2> HIDE DEF s
  <2>6. Sound(m) /\ m.count = k.count
    BY <2>1, <2>2, <2>3, AddPCBRelinks, RelinksSound DEF Sound
  <2> HIDE DEF m
  <2>7. Resting(n, FALSE) /\ Sound(n) /\ n.count = k.count
    BY <1>0, <2>2, <2>5, <2>6, SaveType, ContextSound DEF Save
  <2> HIDE DEF n
  <2> QED BY <2>1, <2>4, <2>7, DispatchAware
<1>5. CASE Returns(p)
  <2>1. Resting(k, FALSE) /\ Others /\ Sound(k)
    BY <1>5, InvAt DEF Returns, Aware
  <2> QED BY <1>5, <2>1, DispatchAware DEF Returns
<1> QED BY <1>1, <1>2, <1>3, <1>4, <1>5 DEF Program

\* p_wait is entered.
LEMMA EnterWaitAware ==
  ASSUME Aware, Others, NEW m, Resting(m, FALSE), Sound(m), m.count = k.count,
         NEW pc, EnterWait(m, pc)
  PROVE  Aware'
<1>1. Sound(k)' /\ k'.count = k.count
  BY RestingEnters, DispatchSound DEF EnterWait
<1>2. m.prevfg < k.count /\ local' = [local EXCEPT ![Shell] = m.prevfg]
  BY KnownPointers DEF EnterWait, Sound
<1> QED BY <1>1, <1>2, ShellPoints, AwareOf

\* p_wait reports only what is not dead, or frees it.
LEMMA ReportedSound ==
  ASSUME Sound(k), NEW q \in Pid
  PROVE  Sound(Reported(q)) /\ Reported(q).count = k.count
<1>1. CASE k.status[q] \in {"ZOMBIE", "KILLED"}
  BY <1>1, KProcessTerminateRelinks, RelinksSound DEF Reported, Sound
<1>2. CASE k.status[q] \notin {"ZOMBIE", "KILLED"}
  <2> DEFINE m == [k EXCEPT !.changed[q] = FALSE]
  <2>1. /\ m \in Memory
        /\ m.next = k.next /\ m.head = k.head /\ m.parent = k.parent
        /\ m.count = k.count /\ m.status = k.status
        /\ m.cur = k.cur /\ m.prevfg = k.prevfg /\ m.prevcur = k.prevcur
        /\ \A x \in Pid \ {q} : m.changed[x] = k.changed[x]
    BY DEF Sound, Links, Memory
  <2>2. Reported(q) = m
    BY <1>2 DEF Reported
  <2> HIDE DEF m
  <2>3. Told(m)
    BY <1>2, <2>1 DEF Told, Sound
  <2>4. k.cur < k.count /\ k.prevfg < k.count /\ k.prevcur < k.count
    BY KnownPointers DEF Sound
  <2>5. Links(m)
    BY <2>1, <2>4, SoundOf DEF Sound
  <2> QED BY <2>1, <2>2, <2>3, <2>5 DEF Sound
<1> QED BY <1>1, <1>2

LEMMA WaitsAware ==
  ASSUME Inv(FALSE), Aware, ShellWaits
  PROVE  Aware'
<1>1. CASE ShellReports
  <2> DEFINE m  == Reported(pid)
             m2 == [m EXCEPT !.ground[pid] = BG]
  <2>1. Others /\ Sound(k) /\ pid \in Pid /\ local' = local
    BY <1>1, ShellPoints, InvAt DEF ShellReports, Aware, Others
  <2>2. k' \in {m, m2}
    BY <1>1 DEF ShellReports, ShellHears
  <2>3. Sound(m) /\ m.count = k.count
    BY <2>1, ReportedSound
  <2> HIDE DEF m
  <2>4. Sound(m2) /\ m2.count = k.count
    BY <2>1, <2>3, FlagsSound DEF BG
  <2> HIDE DEF m2
  <2> QED BY <2>1, <2>2, <2>3, <2>4, AwareOf
<1>2. CASE ShellFindsNone
  BY <1>2 DEF ShellFindsNone, Aware
<1>3. CASE ShellBlocks
  <2> DEFINE c == At(Shell, IF run.pc = "block" THEN "scan" ELSE "fgscan")
             m == KProcessSwapToScheduler(k, c)
  <2>1. Resting(k, FALSE) /\ Others /\ Sound(k)
    BY <1>3, ShellPoints, InvAt DEF ShellBlocks, Aware
  <2>2. c \in Context
    BY ShellPoints
  <2>3. Dispatch(m) /\ local' = local
    BY <1>3 DEF ShellBlocks
  <2> HIDE DEF c
  <2>4. Resting(m, FALSE) /\ Sound(m) /\ m.count = k.count
    <3>1. k.cur # NULL => [k EXCEPT !.ctx[k.cur] = c].count = k.count
      BY <2>1 DEF Resting, Good, Memory
    <3> QED
      BY <2>1, <2>2, <3>1, KProcessSwapToSchedulerType, KProcessSwapToSchedulerSound
  <2> HIDE DEF m
  <2> QED BY <2>1, <2>3, <2>4, DispatchAware
<1> QED BY <1>1, <1>2, <1>3 DEF ShellWaits

LEMMA ProceedsAware ==
  ASSUME Inv(FALSE), Aware, ShellProceeds
  PROVE  Aware'
<1>1. CASE ShellStarts
  BY <1>1 DEF ShellStarts, Aware
<1>2. CASE ShellSetsGround
  <2>1. Resting(k, FALSE) /\ Others /\ Sound(k)
    BY <1>2, ShellPoints, InvAt DEF ShellSetsGround, Aware
  <2>2. local[Shell] \in Pid /\ FG \in BOOLEAN /\ BG \in BOOLEAN
    BY <2>1, ShellPoints DEF Others, FG, BG
  <2>3. CASE EnterWait([k EXCEPT !.ground[local[Shell]] = FG], "scan")
    <3> DEFINE m == [k EXCEPT !.ground[local[Shell]] = FG]
    <3>1. Resting(m, FALSE) /\ Sound(m) /\ m.count = k.count
      BY <2>1, <2>2, GroundType, FlagsSound
    <3>2. EnterWait(m, "scan")
      BY <2>3
    <3> HIDE DEF m
    <3> QED BY <2>1, <3>1, <3>2, EnterWaitAware
  <2>4. CASE SetGround(Shell, BG) /\ UNCHANGED local
    <3>1. Sound(k)' /\ k'.count = k.count
      BY <2>1, <2>2, <2>4, FlagsSound DEF SetGround
    <3> QED BY <2>1, <2>4, <3>1, AwareOf
  <2> QED BY <1>2, <2>3, <2>4 DEF ShellSetsGround
<1>3. CASE ShellLoops
  <2>1. Resting(k, FALSE) /\ Others /\ Sound(k)
    BY <1>3, ShellPoints, InvAt DEF ShellLoops, Aware
  <2> DEFINE m == [k EXCEPT !.prevfg = Shell]
  <2>2. /\ m \in Memory
        /\ m.next = k.next /\ m.head = k.head /\ m.parent = k.parent
        /\ m.count = k.count /\ m.status = k.status /\ m.changed = k.changed
        /\ m.cur = k.cur /\ m.prevfg = Shell /\ m.prevcur = k.prevcur
    BY <2>1, ShellPoints, Pids DEF Sound, Links, Memory
  <2>3. k' = m /\ local' = local
    BY <1>3 DEF ShellLoops
  <2> HIDE DEF m
  <2>4. local[Shell] \in Pid /\ local[Shell] < k.count /\ k.count \in Nat
    BY <2>1, ShellPoints, MaxPidAssumption DEF Aware, Others, Sound, Links, Memory
  <2>5. Shell < k.count
    BY <2>4, MaxPidAssumption DEF Pid, Shell
  <2>6. k.cur < k.count /\ k.prevcur < k.count
    BY <2>1, KnownPointers DEF Sound
  <2>7. Sound(m)
    BY <2>1, <2>2, <2>5, <2>6, PlainSound
  <2> QED BY <2>1, <2>2, <2>3, <2>7, AwareOf
<1> QED BY <1>1, <1>2, <1>3, WaitsAware DEF ShellProceeds

\* Processes the shell has spawned.
LEMMA SpawnedPids ==
  ASSUME Sound(k), NEW q \in Spawned
  PROVE  q \in Pid
BY MaxPidAssumption DEF Spawned, Sound, Links, Memory, Pid

LEMMA CommandAware ==
  ASSUME Inv(FALSE), Aware, ShellPolls \/ ShellCommand
  PROVE  Aware'
<1>1. CASE ShellPolls
  <2>1. Others /\ Sound(k) /\ local' = local
    BY <1>1, ShellPoints, InvAt DEF ShellPolls, Aware
  <2>2. PICK q \in Spawned : k' = Reported(q)
    BY <1>1 DEF ShellPolls
  <2> QED BY <2>1, <2>2, SpawnedPids, ReportedSound, AwareOf
<1>2. CASE ShellSpawns
  BY <1>2, ShellPoints, CreateAware DEF ShellSpawns
<1>3. CASE ShellNices
  <2>1. Others /\ Sound(k) /\ local' = local
    BY <1>3, ShellPoints, InvAt DEF ShellNices, Aware
  <2>2. PICK q \in Pid, prior \in Priorities :
          k' = IF prior = 0 THEN Fault(k) ELSE KProcessNice(k, q, prior)
    BY <1>3 DEF ShellNices
  <2>3. Sound(k)' /\ k'.count = k.count
    BY <2>1, <2>2, KProcessNiceSound, FaultSound, ProgramAssumption
  <2> QED BY <2>1, <2>3, AwareOf
<1>4. CASE ShellFg
  <2>1. Resting(k, FALSE) /\ Others /\ Sound(k)
    BY <1>4, ShellPoints, InvAt DEF ShellFg, Aware
  <2>2. PICK q \in Spawned : EnterWait([k EXCEPT !.ground[q] = FG], "fgscan")
    BY <1>4 DEF ShellFg
  <2> DEFINE m == [k EXCEPT !.ground[q] = FG]
  <2>3. Resting(m, FALSE) /\ Sound(m) /\ m.count = k.count
    BY <2>1, SpawnedPids, GroundType, FlagsSound DEF FG
  <2>4. EnterWait(m, "fgscan")
    BY <2>2
  <2> HIDE DEF m
  <2> QED BY <2>1, <2>3, <2>4, EnterWaitAware
<1>5. CASE ShellLogout
  BY <1>5 DEF ShellLogout, Aware
<1> QED BY <1>1, <1>2, <1>3, <1>4, <1>5 DEF ShellCommand

LEMMA BootSound == Sound(Boot) /\ Entering(Boot, FALSE)
<1>1. Shell \in Pid /\ NULL < Shell + 1 /\ Shell < Shell + 1
  BY Pids DEF Shell, NULL
<1>2. Boot \in Memory /\ Ends(Boot.next)
  <2>1. \A p \in Pid : Boot.next[p] = NULL
    BY BootFields DEF Clean
  <2> QED BY <2>1, BootFields, Pids DEF Clean, Ends
<1>3. Known(Boot)
  <2>1. \A q \in Queue : Boot.head[q] \in {NULL, Shell}
    BY BootFields DEF NoHeads
  <2> QED BY <1>1, <2>1, BootFields DEF Clean, Known
<1>4. Sound(Boot)
  BY <1>2, <1>3, BootFields DEF Sound, Links, Told, Clean
<1>5. Entering(Boot, FALSE)
  BY BootEnters DEF Entering, Good
<1> QED BY <1>4, <1>5

LEMMA InitAware == Init => Aware
<1> SUFFICES ASSUME Init PROVE Aware
  OBVIOUS
<1>1. Shell \in Pid /\ Shell < Shell + 1
  BY Pids DEF Shell
<1>2. Sound(k) /\ k.count = Shell + 1
  BY BootSound, BootFields, SchedulerSound DEF Init, Chose
<1>3. \A p \in Pid : local[p] < k.count
  BY <1>1, <1>2 DEF Init
<1> QED BY <1>2, <1>3 DEF Aware

LEMMA NextAware ==
  ASSUME Inv(FALSE), Aware, [Next]_vars
  PROVE  Aware'
<1>1. CASE UNCHANGED vars
  BY <1>1 DEF vars, Aware
<1>2. CASE Stopped
  BY <1>2 DEF Stopped, vars, Aware
<1> QED BY <1>1, <1>2, TickAware, ProgramAware, ProceedsAware, CommandAware DEF Next

LEMMA InitAnyInv == Init => Inv(FALSE)
BY InitInv DEF Inv, OnCpu, Good, Resting

LEMMA AlwaysAware == Spec => [](Inv(FALSE) /\ Aware)
<1>1. Inv(FALSE) /\ Aware /\ [Next]_vars => (Inv(FALSE) /\ Aware)'
  BY NextInv, NextAware
<1> QED BY InitAnyInv, InitAware, <1>1, PTL DEF Spec

\* Every `while (current != NULL)` of pcb.c ends, whatever the programs do: no
\* chain of next pointers closes, although add_PCB trusts what malloc left in a
\* block, remove_PCB leaves pointers behind, nice_pid, p_sleep and the timer
\* move blocks between lists that share the field, and freed blocks keep it.
THEOREM ListWalksEnd == Spec => []WalksEnd
<1>1. Aware => WalksEnd
  BY DEF Aware, Sound, Links, Ends, WalksEnd
<1> QED BY <1>1, AlwaysAware, PTL

\* Whoever has terminated has its flag for p_wait set, so the wait for it can
\* end: nothing on the way from k_process_kill to the reaping clears it.
THEOREM DeadIsReported == Spec => []DeadAreChanged
<1>1. Aware => DeadAreChanged
  <2> SUFFICES ASSUME Aware PROVE DeadAreChanged
    OBVIOUS
  <2>1. k.live \subseteq Pid
    BY DEF Aware, Sound, Links, Memory
  <2> QED BY <2>1 DEF Aware, Sound, Told, DeadAreChanged, Dead
<1> QED BY <1>1, AlwaysAware, PTL
=============================================================================
