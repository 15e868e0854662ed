----------------------------- MODULE CalmProofs -----------------------------
(***************************************************************************)
(* PennOS while nobody calls nice_pid or p_sleep and malloc hands out      *)
(* clean memory: every process is where it belongs, in every state, for    *)
(* any number of processes.  With nice_pid, with p_sleep, or with recycled *)
(* memory, what is proved here is false.                                   *)
(***************************************************************************)
EXTENDS PennOSProofs, QueueProofs

Calm == Priorities = {} /\ "sleep" \notin Programs /\ Recycled = FALSE

\* The kinds of the children that programs spawn.
ChildKind == {"zombie_child", "orphan_child"}

\* Where thread p is, or will go on.
Pc(p) == IF run.who = p THEN run.pc ELSE k.ctx[p].pc

\* prev_fg is a foreground process, and the running one if that is one.
Fore ==
  /\ k.ground[Shell] = FG
  /\ k.prevfg \in Pid /\ k.ground[k.prevfg] = FG
  /\ k.cur # NULL /\ k.ground[k.cur] = FG => k.prevfg = k.cur

\* The parent of a process is the shell if and only if the user named it.
Kin ==
  /\ kind[Shell] = "shell"
  /\ \A p \in Pid \ {Shell} : kind[p] \notin {"shell", "sleep"}
  /\ \A p \in k.live \ {Shell} : k.parent[p] = Shell <=> kind[p] \notin ChildKind

\* The block the kernel believes to be running is that of the thread that
\* runs, and the context of a block is that of its own thread.
Seated == run.who = k.cur /\ \A p \in Pid : k.ctx[p].who = p

\* A program that has a child has got beyond its first line.
Started == \A p \in k.live \ {Shell} : k.kids[p] # <<>> => Pc(p) # "start"

\* A thread is not in p_sleep; between the creation of a child and the setting
\* of its ground the frame holds the child.
Sane(p, c) == c.pc # "asleep" /\ (c.pc = "ground" => p # Shell /\ local[p] # p)
Framed == /\ \A p \in Pid : Sane(p, k.ctx[p])
          /\ k.cur # NULL => Sane(k.cur, run)

\* What the frame of the shell's calls holds.
ShellFramed ==
  /\ Pc(Shell) \in {"start", "top"} => pid = Shell
  /\ Pc(Shell) \in {"groundFG", "groundBG"} =>
       local[Shell] \in k.live \ {Shell} /\ k.parent[local[Shell]] = Shell
  /\ Pc(Shell) \in {"scan", "fgscan", "block", "fgblock"} =>
       local[Shell] = Shell /\ pid \in k.live \ {Shell} /\ k.parent[pid] = Shell

Threads == Kin /\ Seated /\ Started /\ Framed /\ ShellFramed

CalmInv ==
  /\ Fit(k, k.cur) /\ Barren(k) /\ Fore
  /\ IF run = Exited THEN pid = Shell ELSE Threads
-----------------------------------------------------------------------------
(***************************************************************************)
(* What a step does to lives: nothing, a birth, an end, a burial.          *)
(***************************************************************************)
\* Only the shell blocks and is woken.
Same(m, n) ==
  /\ n.live = m.live /\ n.count = m.count /\ n.parent = m.parent
  /\ n.status[Shell] \in {"READY", "BLOCKED"}
  /\ \A x \in Pid \ {Shell} : n.status[x] = m.status[x]

Bears(m, n) ==
  /\ m.count \in Pid /\ n.count = m.count + 1
  /\ \E d \in m.live : /\ d = Shell \/ m.status[d] = "READY"
                       /\ Born(m, n, d)

Goes(m, n, p) ==
  /\ m.status[p] = "READY"
  /\ \E l : /\ Perished(m, l, p)
            /\ n.live = l.live /\ n.status = l.status /\ n.parent = l.parent

Loses(m, n) == n.count = m.count /\ \E p \in m.live \ {Shell} : Goes(m, n, p)

Buries(m, n) ==
  /\ n.count = m.count /\ n.status = m.status
  /\ \E c \in m.live \ {Shell} : /\ m.status[c] = "ZOMBIE" /\ m.kids[c] = <<>>
                                 /\ Pruned(m, n, c)

Lives(m, n) == Same(m, n) \/ Bears(m, n) \/ Loses(m, n) \/ Buries(m, n)

\* p creates a thread.
Brings(p, prog) ==
  /\ Bears(k, k') /\ Born(k, k', p) /\ p \in k.live /\ k.count \in Pid \ k.live
  /\ kind' = [kind EXCEPT ![k.count] = prog]
  /\ k'.prevcur = k.count /\ k'.prevfg = k.prevfg

\* A step in which no thread is created or returns, and the CPU is not handed on.
Tends ==
  /\ Same(k, k') \/ Buries(k, k')
  /\ kind' = kind /\ k'.cur = k.cur /\ k'.prevcur = k.prevcur
  /\ k'.prevfg \in {k.prevfg, Shell}

\* The scheduler hands the CPU on, or finds nobody who is READY.
Hands ==
  /\ kind' = kind
  /\ \/ k'.cur = NULL /\ k'.prevcur = k.prevcur /\ k'.prevfg = k.prevfg
     \/ k'.cur \in Pid /\ k'.prevcur = k'.cur /\ k'.prevfg \in {k'.cur, k.prevfg}

\* What is common to them but births: nobody is adopted, and a child of the
\* shell is gone only when the shell has taken note of it.
Stays(m, n) ==
  /\ n.live \subseteq m.live /\ n.parent = m.parent
  /\ \A p \in n.live : n.kids[p] # <<>> => m.kids[p] # <<>>

Spares(m, n) == \A x \in m.live : m.parent[x] = Shell => x \in n.live

LEMMA HeirsStay ==
  ASSUME NEW m, m.live \subseteq Pid, NEW n, Heirs(m, n)
  PROVE  Stays(m, n) /\ Spares(m, n)
<1>1. \A p \in n.live : n.kids[p] # <<>> => m.kids[p] # <<>>
  BY DEF Heirs, SameKids
<1> QED BY <1>1 DEF Heirs, Stays, Spares
-----------------------------------------------------------------------------
(***************************************************************************)
(* Control passes to the scheduler.                                        *)
(***************************************************************************)
LEMMA Dispatched ==
  ASSUME NEW m, Dispatch(m), m.fault = FALSE, NEW s, s = Scheduler(m),
         Fit(s, s.cur), Chose(m, s), \A p \in Pid : m.ctx[p].who = p
  PROVE  /\ k' = s /\ k'.ctx = m.ctx /\ run' # Exited /\ run'.who = k'.cur
         /\ k'.cur # NULL => k'.cur \in Pid /\ run' = m.ctx[k'.cur]
         /\ \A p \in Pid : Pc(p)' = m.ctx[p].pc
<1>1. k' = s /\ run' = Resumed(s)
  BY DEF Dispatch
<1>2. s.fault = FALSE /\ s.ctx = m.ctx /\ (s.cur # NULL => s.cur \in Pid)
  BY DEF Fit, Settled, Chose
<1>3. run' = IF s.cur = NULL THEN Idle ELSE m.ctx[s.cur]
  BY <1>1, <1>2 DEF Resumed
<1>4. run' # Exited
  <2>1. \A p \in Pid : m.ctx[p] # Exited
    BY Pids DEF Exited
  <2> QED BY <1>2, <1>3, <2>1, Contexts
<1>5. run'.who = k'.cur
  BY <1>1, <1>2, <1>3 DEF Idle
<1>6. ASSUME NEW p \in Pid PROVE Pc(p)' = m.ctx[p].pc
  <2>1. Pc(p)' = IF run'.who = p THEN run'.pc ELSE k'.ctx[p].pc
    BY DEF Pc
  <2> QED BY <1>1, <1>2, <1>3, <1>5, <2>1, Pids
<1> QED BY <1>1, <1>2, <1>3, <1>4, <1>5, <1>6

\* prev_fg follows the foreground.
LEMMA ChoseFore ==
  ASSUME NEW m, NEW s, Chose(m, s), k' = s, m.ground[Shell] = FG,
         m.prevfg \in Pid, m.ground[m.prevfg] = FG
  PROVE  Fore'
BY DEF Chose, Runs, Fore

LEMMA DispatchCalm ==
  ASSUME Threads, Fore, UNCHANGED <<kind, local, pid>>, NEW m, Dispatch(m),
         m.fault = FALSE, m.ground = k.ground, m.prevfg = k.prevfg,
         NEW s, s = Scheduler(m), Fit(s, s.cur), Barren(s), Chose(m, s),
         Stays(k, s), Spares(k, s),
         \A p \in Pid : m.ctx[p].who = p /\ Sane(p, m.ctx[p]),
         \A p \in s.live \ {Shell} : s.kids[p] # <<>> => m.ctx[p].pc # "start",
         \/ m.ctx[Shell].pc = Pc(Shell)
         \/ /\ m.ctx[Shell].pc \in {"scan", "fgscan"}
            /\ Pc(Shell) \in {"block", "fgblock"}
  PROVE  CalmInv' /\ (m.prevcur = k.prevcur => Hands)
<1>1. /\ k' = s /\ k'.ctx = m.ctx /\ run' # Exited /\ run'.who = k'.cur
      /\ k'.cur # NULL => k'.cur \in Pid /\ run' = m.ctx[k'.cur]
      /\ \A p \in Pid : Pc(p)' = m.ctx[p].pc
  <2>1. /\ Dispatch(m) /\ m.fault = FALSE /\ s = Scheduler(m) /\ Fit(s, s.cur) /\ Chose(m, s)
        /\ \A p \in Pid : m.ctx[p].who = p
    OBVIOUS
  <2> QED BY ONLY <2>1, Dispatched
<1>2. Fore'
  BY <1>1, ChoseFore DEF Fore
<1>3. Kin'
  BY <1>1 DEF Threads, Kin, Stays
<1>4. Seated'
  BY <1>1 DEF Seated
<1>5. s.live \subseteq Pid
  BY FitTypes DEF Fit
<1>6. Started'
  BY <1>1, <1>5 DEF Started
<1>7. Framed'
  BY <1>1 DEF Framed, Sane
<1>8. ShellFramed'
  <2>1. Pc(Shell)' = m.ctx[Shell].pc /\ local' = local /\ pid' = pid
    BY <1>1, Pids
  <2>2. \A x \in k.live : k.parent[x] = Shell => x \in k'.live /\ k'.parent[x] = Shell
    BY <1>1 DEF Stays, Spares
  <2>3. Pc(Shell)' = Pc(Shell)
        \/ (Pc(Shell)' \in {"scan", "fgscan"} /\ Pc(Shell) \in {"block", "fgblock"})
    BY <2>1
  <2>4. CASE Pc(Shell)' = Pc(Shell)
    BY <2>1, <2>2, <2>4 DEF Threads, ShellFramed
  <2>5. CASE Pc(Shell)' \in {"scan", "fgscan"} /\ Pc(Shell) \in {"block", "fgblock"}
    BY <2>1, <2>2, <2>5 DEF Threads, ShellFramed
  <2> QED BY <2>3, <2>4, <2>5
<1>9. Threads'
  BY <1>3, <1>4, <1>6, <1>7, <1>8 DEF Threads
<1>10. CalmInv'
  BY <1>1, <1>2, <1>9 DEF CalmInv
<1>11. m.prevcur = k.prevcur => Hands
  BY <1>1 DEF Chose, Runs, Hands
<1> QED BY <1>10, <1>11

\* What is known when a thread runs.
LEMMA CalmAt ==
  ASSUME Inv(FALSE), Aware, CalmInv, NEW p \in Pid, NEW pc, Running(p, pc)
  PROVE  /\ Resting(k, FALSE) /\ Sound(k) /\ Others /\ At(p, pc) \in Context
         /\ Threads /\ Fore /\ Barren(k) /\ Fit(k, p)
         /\ run = At(p, pc) /\ run # Exited /\ run.who = p /\ run.pc = pc
         /\ k.cur = p /\ Pc(p) = pc
         /\ p \in k.live /\ k.live \subseteq Pid /\ k \in Memory /\ Links(k)
         /\ Shell \in k.live
         /\ k.status[Shell] \in {"READY", "BLOCKED"} /\ k.fault = FALSE
<1>1. Resting(k, FALSE) /\ Others /\ At(p, pc) \in Context
  BY InvAt
<1>2. run = At(p, pc) /\ run # Exited /\ run.who = p /\ run.pc = pc
  BY <1>1, Contexts DEF Running, At
<1>3. Threads /\ Fore /\ Barren(k) /\ Fit(k, k.cur) /\ Sound(k)
  BY <1>2 DEF CalmInv, Aware
<1>4. k.cur = p /\ Pc(p) = pc
  BY <1>2, <1>3 DEF Threads, Seated, Pc
<1>5. p \in k.live /\ k.live \subseteq Pid /\ k \in Memory /\ Links(k)
  BY <1>3, <1>4, FitTypes, PidsAreNats DEF Fit, Settled
<1>6. Shell \in k.live /\ k.status[Shell] \in {"READY", "BLOCKED"} /\ k.fault = FALSE
  BY <1>3 DEF Fit, Settled
<1> QED BY <1>1, <1>2, <1>3, <1>4, <1>5, <1>6

LEMMA FitLives ==
  ASSUME NEW m, NEW out, Fit(m, out), NEW n, Heirs(m, n), n.count = m.count
  PROVE  Same(m, n)
BY DEF Fit, Settled, Heirs, Same

LEMMA TickCalm ==
  ASSUME Inv(FALSE), Aware, CalmInv, Tick
  PROVE  CalmInv' /\ Same(k, k') /\ Hands
<1> DEFINE m == IF k.cur = NULL THEN k ELSE Save(k, k.cur, run)
           n == TimerInterrupt(m)
           s == Scheduler(n)
<1>1. /\ Resting(k, FALSE) /\ k.cur \in Ptr /\ Sound(k) /\ run # Exited
      /\ Threads /\ Fore /\ Barren(k) /\ Fit(k, k.cur) /\ k \in Memory
  BY DEF Inv, Tick, OnCpu, Good, Memory, Aware, CalmInv, Fit, Links
<1>2. k.cur # NULL => run \in Context
  BY DEF Inv, Tick, OnCpu
<1>3. Resting(m, FALSE)
  BY <1>1, <1>2, SaveType, Pids
<1>4. Sound(m)
  BY <1>1, <1>2, ContextSound, Pids DEF Save
<1>5. Dispatch(n) /\ UNCHANGED <<kind, local, pid>>
  BY DEF Tick
<1>6. /\ Likewise(k, m) /\ m.cur = k.cur /\ m.ground = k.ground /\ m.prevfg = k.prevfg
      /\ m.prevcur = k.prevcur
      /\ \A p \in Pid : m.ctx[p] = IF p = k.cur THEN run ELSE k.ctx[p]
  <2>1. CASE k.cur = NULL
    BY <1>1, <2>1, Pids DEF Likewise
  <2>2. CASE k.cur # NULL
    <3>1. Likewise(k, Save(k, k.cur, run)) /\ Save(k, k.cur, run).cur = k.cur
          /\ Save(k, k.cur, run).ground = k.ground
          /\ Save(k, k.cur, run).prevfg = k.prevfg
          /\ Save(k, k.cur, run).prevcur = k.prevcur
          /\ Save(k, k.cur, run).ctx = [k.ctx EXCEPT ![k.cur] = run]
      BY <1>1 DEF Save, Likewise, Memory
    <3>2. k.ctx \in [Pid -> Context]
      BY <1>1 DEF Memory
    <3> QED BY <2>2, <3>1, <3>2
  <2> QED BY <2>1, <2>2
<1> HIDE DEF m
<1>7. Fit(m, m.cur) /\ Heirs(k, m)
  BY <1>1, <1>4, <1>6, LikewiseFit DEF Sound
<1>8. Fit(n, NULL) /\ Heirs(m, n) /\ n.how = "TIMEOUT"
  BY <1>3, <1>4, <1>7, TimerFit
<1>9. Entering(n, FALSE) /\ Sound(n) /\ Alike(m, n)
  BY <1>3, <1>4, TimerInterruptType, TimerInterruptSound
<1> HIDE DEF n
<1>10. Fit(s, s.cur) /\ Heirs(n, s) /\ Chose(n, s)
  BY <1>8, <1>9, TimeoutFit, SchedulerSound
<1> HIDE DEF s
<1>11. n.ctx = m.ctx /\ n.ground = k.ground /\ n.prevfg = k.prevfg /\ n.count = k.count
       /\ n.fault = FALSE /\ n.prevcur = k.prevcur
  BY <1>6, <1>8, <1>9 DEF Alike, Fit, Settled, Likewise
<1>12. \A p \in Pid : n.ctx[p].pc = Pc(p) /\ n.ctx[p].who = p /\ Sane(p, n.ctx[p])
  <2>1. /\ run.who = k.cur /\ \A p \in Pid : k.ctx[p].who = p /\ Sane(p, k.ctx[p])
        /\ k.cur # NULL => Sane(k.cur, run)
    BY <1>1 DEF Threads, Seated, Framed
  <2>2. ASSUME NEW p \in Pid PROVE n.ctx[p] = IF p = k.cur THEN run ELSE k.ctx[p]
    BY <1>6, <1>11
  <2>3. ASSUME NEW p \in Pid
        PROVE  n.ctx[p].pc = Pc(p) /\ n.ctx[p].who = p /\ Sane(p, n.ctx[p])
    <3>1. CASE p = k.cur
      BY <2>1, <2>2, <3>1, PidsAreNats DEF Pc
    <3>2. CASE p # k.cur
      BY <2>1, <2>2, <3>2 DEF Pc
    <3> QED BY <3>1, <3>2
  <2> QED BY <2>3
<1>13. Heirs(k, s)
  BY <1>7, <1>8, <1>10 DEF Heirs, SameKids
<1>14. k.live \subseteq Pid /\ Tree(k) /\ Shell \in k.live
  BY <1>1, FitTypes DEF Fit, Settled
<1>15. Stays(k, s) /\ Spares(k, s) /\ Barren(s)
  BY <1>1, <1>13, <1>14, HeirsStay, HeirsTree
<1>16. \A p \in s.live \ {Shell} : s.kids[p] # <<>> => n.ctx[p].pc # "start"
  BY <1>1, <1>12, <1>14, <1>15 DEF Stays, Threads, Started
<1>17. s = Scheduler(n) /\ Shell \in Pid
  BY Pids DEF s
<1>18. CalmInv' /\ Hands
  BY <1>1, <1>5, <1>10, <1>11, <1>12, <1>15, <1>16, <1>17, DispatchCalm
<1>19. k' = s /\ s.count = k.count
  BY <1>5, <1>10, <1>11, <1>17 DEF Dispatch, Chose
<1> QED BY <1>1, <1>13, <1>18, <1>19, FitLives

\* A program returns.
LEMMA ReturnsCalm ==
  ASSUME Inv(FALSE), Aware, CalmInv, NEW p \in Pid, Returns(p)
  PROVE  /\ CalmInv' /\ Hands /\ p \in k.live \ {Shell}
         /\ k'.count = k.count /\ Goes(k, k', p)
<1> DEFINE s == Scheduler(k)
<1>1. PICK pc : Running(p, pc)
  BY DEF Returns
<1>2. /\ Resting(k, FALSE) /\ Sound(k) /\ Threads /\ Fore /\ Barren(k) /\ Fit(k, p)
      /\ run # Exited /\ run.who = p /\ k.cur = p /\ p \in k.live /\ k.live \subseteq Pid
      /\ k.status[Shell] \in {"READY", "BLOCKED"} /\ k.fault = FALSE
      /\ Tree(k) /\ Shell \in k.live
  BY <1>1, CalmAt DEF Fit
<1>3. p # Shell
  BY <1>2 DEF Returns, Threads, Kin
<1>4. Dispatch(k) /\ UNCHANGED <<kind, local, pid>> /\ k.how # "TIMEOUT"
  BY <1>2 DEF Returns, Resting
<1>5. /\ Fit(s, s.cur) /\ Chose(k, s) /\ \E l : Perished(k, l, p) /\ Heirs(l, s)
  BY <1>2, <1>3, <1>4, ReturnFit, SchedulerSound, RestingEnters
<1>6. s = Scheduler(k)
  OBVIOUS
<1> HIDE DEF s
<1>7. PICK l : Perished(k, l, p) /\ Heirs(l, s)
  BY <1>5
<1>8. l.live \subseteq Pid
  BY <1>2, <1>7 DEF Perished
<1>9. Barren(l)
  BY <1>2, <1>3, <1>7, PerishedBarren
<1>10. Barren(s)
  BY <1>7, <1>9 DEF Barren, Heirs, SameKids
<1>11. Stays(k, s) /\ Spares(k, s) /\ s.kids[p] = <<>>
  <2>1. Stays(k, l) /\ Spares(k, l) /\ l.kids[p] = <<>>
    <3>1. ASSUME NEW x \in k.live, k.parent[x] = Shell PROVE x \in l.live
      BY <1>3, <1>7, <3>1 DEF Perished
    <3> QED BY <1>2, <1>7, <3>1 DEF Perished, Stays, Spares
  <2> QED BY <1>7, <1>8, <2>1, HeirsStay DEF Stays, Spares, Heirs, SameKids
<1>12. ASSUME NEW x \in s.live \ {Shell}, s.kids[x] # <<>>
       PROVE  k.ctx[x].pc # "start"
  <2>1. x # p /\ x \in k.live \ {Shell} /\ k.kids[x] # <<>>
    BY <1>11, <1>12 DEF Stays
  <2>2. Pc(x) = k.ctx[x].pc
    BY <1>2, <2>1 DEF Pc
  <2> QED BY <1>2, <2>1, <2>2 DEF Threads, Started
<1>13. \A x \in Pid : k.ctx[x].who = x /\ Sane(x, k.ctx[x])
  BY <1>2 DEF Threads, Seated, Framed
<1>14. k.ctx[Shell].pc = Pc(Shell)
  BY <1>2, <1>3 DEF Pc
<1>15. CalmInv' /\ Hands
  BY <1>2, <1>4, <1>5, <1>6, <1>10, <1>11, <1>12, <1>13, <1>14, DispatchCalm
<1>16. k' = s /\ s.count = k.count
  BY <1>2, <1>4, <1>5, <1>6 DEF Dispatch, Chose
<1>17. k.status[p] = "READY"
  BY <1>2, <1>3, PidsAreNats DEF Fit, Settled
<1>18. Goes(k, k', p)
  BY <1>7, <1>16, <1>17 DEF Goes, Heirs
<1> QED BY <1>2, <1>3, <1>15, <1>16, <1>18

\* The shell blocks.
LEMMA BlocksCalm ==
  ASSUME Inv(FALSE), Aware, CalmInv, ShellBlocks
  PROVE  CalmInv' /\ Same(k, k') /\ Hands
<1> DEFINE to == IF run.pc = "block" THEN "scan" ELSE "fgscan"
           m  == KProcessSwapToScheduler(k, At(Shell, to))
           b  == WithStatus(k, Shell, "BLOCKED")
           s  == Scheduler(m)
<1>0. Shell \in Pid
  BY Pids
<1>1. PICK pc \in {"block", "fgblock"} : Running(Shell, pc)
  BY DEF ShellBlocks
<1>2. /\ Resting(k, FALSE) /\ Sound(k) /\ Threads /\ Fore /\ Barren(k) /\ Fit(k, Shell)
      /\ run # Exited /\ run.who = Shell /\ run.pc = pc /\ k.cur = Shell
      /\ Pc(Shell) = pc /\ Shell \in k.live /\ k.live \subseteq Pid
      /\ k.status[Shell] \in {"READY", "BLOCKED"} /\ k \in Memory
      /\ Tree(k) /\ Links(k)
  BY <1>0, <1>1, CalmAt DEF Fit
<1>3. Dispatch(m) /\ UNCHANGED <<kind, local, pid>> /\ k.how # "TIMEOUT"
  BY <1>2 DEF ShellBlocks, Resting
<1>4. At(Shell, to) \in Context /\ to \in {"scan", "fgscan"}
      /\ At(Shell, to).who = Shell /\ At(Shell, to).pc = to
  BY <1>0, ShellPoints DEF At
<1> HIDE DEF to
<1>5. Fit(m, NULL) /\ Heirs(b, m) /\ m.how = k.how
  BY <1>2, <1>4, SwapFit
<1>6. /\ b.live = k.live /\ b.parent = k.parent /\ b.kids = k.kids /\ b.count = k.count
      /\ b.status = [k.status EXCEPT ![Shell] = "BLOCKED"]
  BY <1>2 DEF WithStatus, Memory
<1>7. Entering(m, FALSE) /\ Sound(m)
  <2>1. Resting(m, FALSE)
    BY <1>2, <1>4, KProcessSwapToSchedulerType
  <2> QED BY <1>2, <1>4, <2>1, RestingEnters, KProcessSwapToSchedulerSound
<1>8. /\ m.count = k.count /\ m.cur = Shell /\ m.prevfg = k.prevfg /\ m.ground = k.ground
      /\ m.prevcur = k.prevcur
      /\ m.ctx = [k.ctx EXCEPT ![Shell] = At(Shell, to)]
  <2> DEFINE a == [k EXCEPT !.ctx[k.cur] = At(Shell, to)]
  <2>1. Alike(a, m)
    BY <1>2, <1>4, KProcessSwapToSchedulerSound, PidsAreNats
  <2>2. /\ a.count = k.count /\ a.cur = k.cur /\ a.prevfg = k.prevfg /\ a.ground = k.ground
        /\ a.prevcur = k.prevcur
        /\ a.ctx = [k.ctx EXCEPT ![k.cur] = At(Shell, to)]
    BY <1>2 DEF Memory
  <2> HIDE DEF a, m
  <2> QED BY <1>2, <2>1, <2>2 DEF Alike
<1> HIDE DEF m, b
<1>9. Fit(s, s.cur) /\ Heirs(m, s) /\ Chose(m, s)
  BY <1>2, <1>3, <1>5, <1>7, <1>8, BlockedFit, SchedulerSound
<1>10. s = Scheduler(m) /\ m.fault = FALSE
  BY <1>5 DEF Fit, Settled
<1> HIDE DEF s
<1>11. Heirs(b, s)
  BY <1>5, <1>9 DEF Heirs, SameKids
<1>12. Stays(k, s) /\ Spares(k, s)
  BY <1>2, <1>6, <1>11, HeirsStay DEF Stays, Spares
<1>13. Barren(s)
  <2>1. k.status \in [Pid -> Status]
    BY <1>2 DEF Memory
  <2>2. \A x \in Pid : b.status[x] = "ZOMBIE" => k.status[x] = "ZOMBIE"
    BY <1>0, <1>6, <2>1
  <2> QED BY <1>2, <1>6, <1>11, <2>2 DEF Barren, Heirs, SameKids
<1>14. k.ctx \in [Pid -> Context]
  BY <1>2 DEF Memory
<1>15. \A x \in Pid : m.ctx[x] = IF x = Shell THEN At(Shell, to) ELSE k.ctx[x]
  BY <1>0, <1>8, <1>14
<1>16. \A x \in Pid : m.ctx[x].who = x /\ Sane(x, m.ctx[x])
  BY <1>2, <1>4, <1>15 DEF Threads, Seated, Framed, Sane
<1>17. ASSUME NEW x \in s.live \ {Shell}, s.kids[x] # <<>>
       PROVE  m.ctx[x].pc # "start"
  <2>1. x \in k.live \ {Shell} /\ k.kids[x] # <<>> /\ x \in Pid
    BY <1>2, <1>12, <1>17 DEF Stays
  <2>2. Pc(x) = k.ctx[x].pc
    BY <1>2, <2>1 DEF Pc
  <2> QED BY <1>2, <1>15, <2>1, <2>2 DEF Threads, Started
<1>18. m.ctx[Shell].pc \in {"scan", "fgscan"} /\ Pc(Shell) \in {"block", "fgblock"}
  BY <1>0, <1>2, <1>4, <1>15
<1>19. CalmInv' /\ Hands
  BY <1>2, <1>3, <1>8, <1>9, <1>10, <1>12, <1>13, <1>16, <1>17, <1>18, DispatchCalm
<1>20. k' = s /\ s.count = k.count
  BY <1>3, <1>8, <1>9, <1>10 DEF Dispatch, Chose
<1>21. Same(k, k')
  <2>1. k.status \in [Pid -> Status]
    BY <1>2 DEF Memory
  <2> QED BY <1>0, <1>6, <1>11, <1>20, <2>1 DEF Heirs, Same
<1> QED BY <1>19, <1>21
-----------------------------------------------------------------------------
(***************************************************************************)
(* A thread goes on.                                                       *)
(***************************************************************************)
LEMMA ThreadCalm ==
  ASSUME Threads, NEW p \in Pid, k.cur = p, run.who = p,
         NEW pc, At(p, pc) \in Context, run' = At(p, pc), k'.cur = p,
         Fit(k', p), Barren(k'), Fore', Kin', ShellFramed',
         \A x \in Pid : \/ k'.ctx[x] = k.ctx[x]
                        \/ x \notin k.live /\ k'.ctx[x] = At(x, "start"),
         \A x \in Pid \ {p} : local'[x] = local[x],
         p # Shell => local'[p] = local[p] \/ local'[p] # p,
         pc # "asleep", pc = "ground" => p # Shell /\ local'[p] # p,
         pc = "start" => p = Shell,
         \A x \in k'.live \ {Shell, p} : k'.kids[x] # <<>> => x \in k.live /\ k.kids[x] # <<>>
  PROVE  CalmInv'
<1>1. run'.who = p /\ run'.pc = pc /\ run' # Exited
  BY Contexts DEF At
<1>2. \A x \in Pid : k.ctx[x].who = x /\ Sane(x, k.ctx[x])
  BY DEF Threads, Seated, Framed
<1>3. Seated'
  <2>1. \A x \in Pid : At(x, "start").who = x
    BY DEF At
  <2>2. \A x \in Pid : k'.ctx[x].who = x
    BY <1>2, <2>1
  <2> QED BY <1>1, <2>2 DEF Seated
<1>4. Framed'
  <2>1. ASSUME NEW x \in Pid PROVE (Sane(x, k.ctx[x]))'
    <3>1. CASE k'.ctx[x] = At(x, "start")
      BY <3>1 DEF Sane, At
    <3>2. CASE k'.ctx[x] = k.ctx[x]
      BY <1>2, <3>2 DEF Sane
    <3> QED BY <3>1, <3>2
  <2>2. Sane(p, run)'
    BY <1>1 DEF Sane
  <2> QED BY <2>1, <2>2 DEF Framed
<1>5. Started'
  <2> SUFFICES ASSUME NEW x \in k'.live \ {Shell}, k'.kids[x] # <<>>
               PROVE  Pc(x)' # "start"
    BY DEF Started
  <2>1. CASE x = p
    BY <1>1, <2>1 DEF Pc
  <2>2. CASE x # p
    <3>1. x \in k.live \ {Shell} /\ k.kids[x] # <<>>
      BY <2>2
    <3>2. x \in Pid
      BY FitTypes DEF Fit
    <3>3. Pc(x) = k.ctx[x].pc /\ Pc(x)' = k'.ctx[x].pc /\ k'.ctx[x] = k.ctx[x]
      BY <1>1, <2>2, <3>1, <3>2 DEF Pc
    <3> QED BY <3>1, <3>3 DEF Threads, Started
  <2> QED BY <2>1, <2>2
<1>6. Threads'
  BY <1>3, <1>4, <1>5 DEF Threads
<1> QED BY <1>1, <1>6 DEF CalmInv

\* A step of a program does not touch the frame of the shell's calls.
LEMMA ShellKept ==
  ASSUME Threads, Shell \in k.live, NEW p \in Pid \ {Shell}, run.who = p, run'.who = p,
         k'.ctx[Shell] = k.ctx[Shell], local'[Shell] = local[Shell], pid' = pid,
         \A x \in k.live : k.parent[x] = Shell => x \in k'.live /\ k'.parent[x] = Shell
  PROVE  ShellFramed'
<1>1. Pc(Shell)' = Pc(Shell)
  BY DEF Pc
<1> QED BY <1>1 DEF Threads, ShellFramed

\* Without recycling, malloc's memory is clean.
LEMMA CleanMemory ==
  ASSUME Recycled = FALSE, NEW m
  PROVE  StaleNext(m) = {NULL}
BY DEF StaleNext

LEMMA CreateCalm ==
  ASSUME Calm, Inv(FALSE), Aware, CalmInv, NEW p \in Pid, NEW prog \in Kind,
         prog \notin {"shell", "sleep"}, prog \in ChildKind <=> p # Shell,
         NEW pc0, NEW pc, Running(p, pc0), Create(p, prog, pc), UNCHANGED pid,
         At(p, pc) \in Context,
         IF p = Shell THEN pc \in {"groundFG", "groundBG"}
         ELSE pc = "ground" /\ k.parent[p] = Shell /\ k.kids[p] = <<>>
  PROVE  CalmInv' /\ Brings(p, prog)
<1>1. /\ Resting(k, FALSE) /\ Sound(k) /\ Others /\ Threads /\ Fore /\ Barren(k)
      /\ Fit(k, p) /\ run.who = p /\ k.cur = p
      /\ p \in k.live /\ k.live \subseteq Pid /\ k \in Memory /\ Links(k)
      /\ Shell \in k.live
  BY CalmAt
<1>2. k.count \in Pid
  <2>1. k.count \in 1..(MaxPid + 1)
    BY <1>1 DEF Memory
  <2> QED BY <2>1, MaxPidAssumption DEF Create, Pid
<1>3. /\ k' = KProcessCreate(k, p, NULL, "start")
      /\ kind' = [kind EXCEPT ![k.count] = prog]
      /\ local' = [local EXCEPT ![p] = k.count] /\ run' = At(p, pc)
  BY <1>1, CleanMemory DEF Create, Calm, Goto
<1>4. [who |-> k.count, pc |-> "start"] \in Context
  BY <1>2 DEF Context
<1>5. Fit(k', p) /\ Barren(k') /\ Born(k, k', p)
  BY <1>1, <1>2, <1>3, <1>4, CreateFit
<1>6. Creates(k, k', "start")
  <2>1. NULL \in Ptr /\ NULL < k.count /\ p \in Ptr /\ p < k.count
    BY <1>1, KnownPointers, Pids, PidsAreNats DEF Ptr, NULL, Pid
  <2> QED BY <1>1, <1>2, <1>3, <1>4, <2>1, KProcessCreateSound
<1>7. k.count \notin k.live /\ k.count # p /\ k.count # Shell /\ k.count \in Nat
  BY <1>1, <1>2, PidsAreNats DEF Fit, Settled
<1>8. /\ k.ground \in [Pid -> BOOLEAN] /\ k.ctx \in [Pid -> Context]
      /\ k.parent \in [Pid -> Ptr] /\ k.status \in [Pid -> Status]
      /\ kind \in [Pid -> Kind] /\ local \in [Pid -> Pid]
  BY <1>1 DEF Memory, Others
<1>9. /\ k'.cur = p /\ k'.prevfg = k.prevfg /\ k'.count = k.count + 1
      /\ \A x \in Pid : k'.ground[x] = IF x = k.count THEN FG ELSE k.ground[x]
      /\ \A x \in Pid : k'.ctx[x] = IF x = k.count THEN At(x, "start") ELSE k.ctx[x]
  BY <1>1, <1>2, <1>6, <1>8 DEF Creates, At
<1>10. /\ k'.live = k.live \cup {k.count}
       /\ \A x \in Pid : k'.parent[x] = IF x = k.count THEN p ELSE k.parent[x]
       /\ \A x \in Pid : k'.kids[x] = IF x = k.count THEN <<>>
                                      ELSE IF x = p THEN Append(k.kids[x], k.count)
                                      ELSE k.kids[x]
  BY <1>2, <1>5, <1>8 DEF Born
<1>11. Fore'
  BY <1>1, <1>7, <1>9, PidsAreNats DEF Fore
<1>12. Kin'
  <2>1. \A x \in Pid : kind'[x] = IF x = k.count THEN prog ELSE kind[x]
    BY <1>3, <1>8
  <2>2. kind'[Shell] = "shell" /\ \A x \in Pid \ {Shell} : kind'[x] \notin {"shell", "sleep"}
    BY <1>1, <1>7, <2>1, PidsAreNats DEF Threads, Kin
  <2>3. ASSUME NEW x \in k'.live \ {Shell}
        PROVE  k'.parent[x] = Shell <=> kind'[x] \notin ChildKind
    <3>1. CASE x = k.count
      BY <1>2, <1>10, <2>1, <3>1
    <3>2. CASE x # k.count
      <4>1. x \in k.live \ {Shell} /\ x \in Pid
        BY <1>1, <1>10, <3>2
      <4> QED BY <1>1, <1>10, <2>1, <3>2, <4>1 DEF Threads, Kin
    <3> QED BY <3>1, <3>2
  <2> QED BY <2>2, <2>3 DEF Kin
<1>13. \A x \in Pid : local'[x] = IF x = p THEN k.count ELSE local[x]
  BY <1>3, <1>8
<1>14. run'.who = p /\ run'.pc = pc
  BY <1>3 DEF At
<1>15. \A x \in k.live : k.parent[x] = Shell => x \in k'.live /\ k'.parent[x] = Shell
  BY <1>1, <1>7, <1>10
<1>16. ShellFramed'
  <2>1. CASE p = Shell
    <3>1. Pc(Shell)' = pc
      BY <1>14, <2>1 DEF Pc
    <3>2. local'[Shell] \in k'.live \ {Shell} /\ k'.parent[local'[Shell]] = Shell
      BY <1>2, <1>7, <1>10, <1>13, <2>1
    <3> QED BY <2>1, <3>1, <3>2 DEF ShellFramed
  <2>2. CASE p # Shell
    <3>1. k'.ctx[Shell] = k.ctx[Shell] /\ local'[Shell] = local[Shell]
      BY <1>7, <1>9, <1>13, <2>2, PidsAreNats
    <3> QED BY <1>1, <1>14, <1>15, <2>2, <3>1, ShellKept
  <2> QED BY <2>1, <2>2
<1>17. \A x \in k'.live \ {Shell, p} : k'.kids[x] # <<>> => x \in k.live /\ k.kids[x] # <<>>
  BY <1>1, <1>2, <1>10
<1>18. \A x \in Pid : \/ k'.ctx[x] = k.ctx[x]
                      \/ x \notin k.live /\ k'.ctx[x] = At(x, "start")
  BY <1>7, <1>9
<1>19. /\ \A x \in Pid \ {p} : local'[x] = local[x]
       /\ p # Shell => local'[p] = local[p] \/ local'[p] # p
       /\ pc # "asleep" /\ (pc = "ground" => p # Shell /\ local'[p] # p)
       /\ (pc = "start" => p = Shell)
  BY <1>7, <1>13
<1>20. CalmInv'
  BY <1>1, <1>3, <1>5, <1>9, <1>11, <1>12, <1>16, <1>17, <1>18, <1>19, ThreadCalm
<1>21. p = Shell \/ k.status[p] = "READY"
  BY <1>1, PidsAreNats DEF Fit, Settled
<1>22. Bears(k, k')
  BY <1>1, <1>2, <1>5, <1>9, <1>21 DEF Bears
<1>23. Brings(p, prog)
  BY <1>1, <1>2, <1>3, <1>5, <1>6, <1>7, <1>22 DEF Creates, Brings
<1> QED BY <1>20, <1>23
-----------------------------------------------------------------------------
(***************************************************************************)
(* The steps in which a thread goes on and no list changes.                *)
(***************************************************************************)
LEMMA KinStays ==
  ASSUME Kin, k'.live \subseteq k.live, k'.parent = k.parent, kind' = kind
  PROVE  Kin'
BY DEF Kin

LEMMA LikewiseCalm ==
  ASSUME Inv(FALSE), Aware, CalmInv, Sound(k)', NEW p \in Pid, NEW pc0, NEW pc,
         Running(p, pc0), Goto(p, pc), At(p, pc) \in Context,
         pc \notin {"start", "ground", "asleep"}, Likewise(k, k'),
         k'.cur = k.cur, k'.prevcur = k.prevcur, k'.prevfg \in {k.prevfg, Shell},
         k'.ctx = k.ctx, kind' = kind,
         local' = local \/ local' = [local EXCEPT ![Shell] = Shell],
         Fore', ShellFramed', local' = local \/ p = Shell
  PROVE  CalmInv' /\ Tends /\ Same(k, k')
<1>1. /\ Sound(k) /\ Others /\ Threads /\ Fore /\ Barren(k)
      /\ Fit(k, p) /\ run.who = p /\ k.cur = p /\ k.live \subseteq Pid
  BY CalmAt
<1>2. Fit(k', p) /\ Barren(k') /\ Heirs(k, k')
  BY <1>1, LikewiseFit DEF Sound
<1>3. Kin'
  BY <1>1, KinStays DEF Likewise, Threads
<1>4. \A x \in Pid \ {p} : local'[x] = local[x]
  BY <1>1 DEF Others
<1>5. p # Shell => local'[p] = local[p]
  OBVIOUS
<1>6. \A x \in Pid : k'.ctx[x] = k.ctx[x]
  OBVIOUS
<1>7. \A x \in k'.live \ {Shell, p} : k'.kids[x] # <<>> => x \in k.live /\ k.kids[x] # <<>>
  BY DEF Likewise
<1>8. run' = At(p, pc) /\ k'.cur = p
  BY <1>1 DEF Goto
<1>9. CalmInv'
  BY <1>1, <1>2, <1>3, <1>4, <1>5, <1>6, <1>7, <1>8, ThreadCalm
<1>10. Same(k, k')
  BY <1>1, <1>2, FitLives DEF Likewise
<1> QED BY <1>9, <1>10 DEF Tends

\* The ground of a block is no link.
Grounded(m, b, g) == [m EXCEPT !.ground[b] = g]

LEMMA GroundLikewise ==
  ASSUME NEW m \in Memory, NEW b \in Pid, NEW g
  PROVE  /\ Likewise(m, Grounded(m, b, g)) /\ Grounded(m, b, g).cur = m.cur
         /\ Grounded(m, b, g).ctx = m.ctx /\ Grounded(m, b, g).prevfg = m.prevfg
         /\ Grounded(m, b, g).prevcur = m.prevcur
         /\ \A x \in Pid : Grounded(m, b, g).ground[x] = IF x = b THEN g ELSE m.ground[x]
BY DEF Memory, Likewise, Grounded

\* Programs set the ground of their child.
LEMMA GroundCalm ==
  ASSUME Inv(FALSE), Aware, CalmInv, Sound(k)', NEW p \in Pid, ProgramSetsGround(p)
  PROVE  CalmInv' /\ Tends /\ Same(k, k')
<1>1. /\ Threads /\ Fore /\ Fit(k, p) /\ run.who = p /\ run.pc = "ground" /\ k.cur = p
      /\ k \in Memory /\ Others /\ Shell \in k.live /\ run.pc = "ground"
  BY CalmAt DEF ProgramSetsGround
<1>2. p # Shell /\ local[p] # p /\ local[p] \in Pid
  <2>1. Sane(p, run)
    BY <1>1, PidsAreNats DEF Threads, Framed
  <2> QED BY <1>1, <2>1 DEF Sane, Others
<1>3. Running(p, "ground") /\ Goto(p, "run") /\ At(p, "run") \in Context
      /\ kind' = kind /\ local' = local /\ pid' = pid
      /\ k' = Grounded(k, local[p], FG)
  BY DEF ProgramSetsGround, SetGround, At, Context, Grounded
<1>4. /\ Likewise(k, k') /\ k'.cur = k.cur /\ k'.ctx = k.ctx /\ k'.prevfg = k.prevfg
      /\ k'.prevcur = k.prevcur
      /\ \A x \in Pid : k'.ground[x] = IF x = local[p] THEN FG ELSE k.ground[x]
  BY <1>1, <1>2, <1>3, GroundLikewise
<1>5. Fore'
  BY <1>1, <1>2, <1>4, PidsAreNats DEF Fore
<1>6. ShellFramed'
  BY <1>1, <1>2, <1>3, <1>4, ShellKept DEF Likewise, Goto, At
<1> QED BY <1>3, <1>4, <1>5, <1>6, LikewiseCalm

LEMMA ProgramSpawnsCalm ==
  ASSUME Calm, Inv(FALSE), Aware, CalmInv, NEW p \in Pid, ProgramSpawns(p)
  PROVE  CalmInv' /\ \E prog \in ChildKind : Brings(p, prog)
<1>1. /\ Threads /\ Fit(k, p) /\ run.who = p /\ p \in k.live /\ Pc(p) = "start"
      /\ Running(p, "start")
  BY CalmAt DEF ProgramSpawns
<1>2. PICK prog \in ChildKind : Create(p, prog, "ground")
  BY DEF ProgramSpawns, ChildKind
<1>3. p # Shell /\ kind[p] \notin ChildKind
  BY <1>1 DEF ProgramSpawns, Threads, Kin, ChildKind
<1>4. k.parent[p] = Shell /\ k.kids[p] = <<>>
  BY <1>1, <1>3 DEF Threads, Kin, Started
<1>5. prog \in Kind /\ prog \notin {"shell", "sleep"} /\ UNCHANGED pid
      /\ At(p, "ground") \in Context
  BY DEF ProgramSpawns, Kind, ChildKind, At, Context
<1> QED BY <1>1, <1>2, <1>3, <1>4, <1>5, CreateCalm

\* Nobody is in p_sleep.
LEMMA SleepsNot ==
  ASSUME Inv(FALSE), Aware, CalmInv, NEW p \in Pid, SleepSets(p) \/ SleepSwitches(p)
  PROVE  FALSE
<1>1. CASE SleepSets(p)
  <2>1. Threads
    BY <1>1, CalmAt DEF SleepSets
  <2> QED BY <1>1, <2>1 DEF SleepSets, Threads, Kin
<1>2. CASE SleepSwitches(p)
  <2>1. Threads /\ k.cur = p /\ run.pc = "asleep"
    BY <1>2, CalmAt DEF SleepSwitches
  <2>2. Sane(p, run)
    BY <2>1, PidsAreNats DEF Threads, Framed
  <2> QED BY <2>1, <2>2 DEF Sane
<1> QED BY <1>1, <1>2

\* A program's step.
LEMMA ProgramCalm ==
  ASSUME Calm, Inv(FALSE), Aware, CalmInv, Sound(k)', NEW p \in Pid, Program(p)
  PROVE  CalmInv' /\ Lives(k, k')
<1>1. CASE ProgramSpawns(p)
  BY <1>1, ProgramSpawnsCalm DEF Lives, Brings
<1>2. CASE ProgramSetsGround(p)
  BY <1>2, GroundCalm DEF Lives, Tends
<1>3. CASE SleepSets(p)
  BY <1>3, SleepsNot
<1>4. CASE SleepSwitches(p)
  BY <1>4, SleepsNot
<1>5. CASE Returns(p)
  BY <1>5, ReturnsCalm DEF Lives, Loses
<1> QED BY <1>1, <1>2, <1>3, <1>4, <1>5 DEF Program
-----------------------------------------------------------------------------
(***************************************************************************)
(* The steps of the shell.                                                 *)
(***************************************************************************)
\* While the shell runs it is prev_fg.
LEMMA ShellAt ==
  ASSUME Inv(FALSE), Aware, CalmInv, NEW pc, Running(Shell, pc)
  PROVE  /\ Sound(k) /\ Others /\ Threads /\ Fore /\ Barren(k) /\ Fit(k, Shell)
         /\ Tree(k) /\ run.who = Shell /\ run.pc = pc /\ k.cur = Shell
         /\ Pc(Shell) = pc /\ Shell \in k.live /\ k.live \subseteq Pid
         /\ k \in Memory /\ k.prevfg = Shell /\ Shell \in Pid /\ k.fault = FALSE
         /\ \A x \in k.live : k.parent[x] = Shell /\ x # Shell => k.kids[Shell] # <<>>
<1>1. /\ Sound(k) /\ Others /\ Threads /\ Fore /\ Barren(k) /\ Fit(k, Shell)
      /\ Tree(k) /\ run.who = Shell /\ run.pc = pc /\ k.cur = Shell
      /\ Pc(Shell) = pc /\ Shell \in k.live /\ k.live \subseteq Pid
      /\ k \in Memory /\ Shell \in Pid /\ k.fault = FALSE
  <2>1. Shell \in Pid
    BY PidsAreNats
  <2>2. Fit(k, Shell) => Tree(k)
    BY DEF Fit
  <2>3. /\ Sound(k) /\ Others /\ Threads /\ Fore /\ Barren(k) /\ Fit(k, Shell)
        /\ run.who = Shell /\ run.pc = pc /\ k.cur = Shell
    BY <2>1, CalmAt
  <2>4. /\ Pc(Shell) = pc /\ Shell \in k.live /\ k.live \subseteq Pid
        /\ k \in Memory /\ k.fault = FALSE
    BY <2>1, CalmAt
  <2> QED BY <2>1, <2>2, <2>3, <2>4
<1>2. k.prevfg = Shell
  BY <1>1, PidsAreNats DEF Fore
<1>3. ASSUME NEW x \in k.live, k.parent[x] = Shell, x # Shell
      PROVE  k.kids[Shell] # <<>>
  <2>1. Listed(k.kids[Shell], x)
    BY <1>1, <1>3 DEF Tree
  <2>2. k.kids[Shell] \in Seq(Pid)
    BY <1>1, FitTypes DEF Fit
  <2> QED BY <2>1, <2>2, EmptyList
<1> QED BY <1>1, <1>2, <1>3

LEMMA StartsCalm ==
  ASSUME Inv(FALSE), Aware, CalmInv, Sound(k)', ShellStarts
  PROVE  CalmInv' /\ Tends
<1>1. Fore /\ Running(Shell, "start") /\ Goto(Shell, "top") /\ Shell \in Pid
      /\ At(Shell, "top") \in Context /\ UNCHANGED <<k, kind, local>> /\ pid' = Shell
  BY ShellAt, ShellPoints DEF ShellStarts
<1>2. Fore' /\ Likewise(k, k')
  BY <1>1 DEF Fore, Likewise
<1>3. ShellFramed'
  BY <1>1 DEF ShellFramed, Pc, Goto, At
<1> QED BY <1>1, <1>2, <1>3, LikewiseCalm

LEMMA LoopsCalm ==
  ASSUME Inv(FALSE), Aware, CalmInv, Sound(k)', ShellLoops
  PROVE  CalmInv' /\ Tends
<1>1. Fore /\ Running(Shell, "after") /\ Goto(Shell, "top") /\ Shell \in Pid
      /\ At(Shell, "top") \in Context /\ UNCHANGED <<kind, local>> /\ pid' = Shell
      /\ k' = [k EXCEPT !.prevfg = Shell] /\ k \in Memory /\ k.prevfg = Shell
  BY ShellAt, ShellPoints DEF ShellLoops
<1>2. k' = k
  BY <1>1 DEF Memory
<1>3. Fore' /\ Likewise(k, k')
  <2>1. Likewise(k, k)
    BY DEF Likewise
  <2>2. Fore'
    BY ONLY <1>1, <1>2 DEF Fore
  <2> QED BY <1>2, <2>1, <2>2
<1>4. ShellFramed'
  <2>1. Pc(Shell)' = "top"
    BY <1>1 DEF Pc, Goto, At
  <2> QED BY <1>1, <2>1 DEF ShellFramed
<1> QED BY <1>1, <1>2, <1>3, <1>4, LikewiseCalm

LEMMA FindsNoneCalm ==
  ASSUME Inv(FALSE), Aware, CalmInv, Sound(k)', ShellFindsNone
  PROVE  CalmInv' /\ Tends
<1>1. PICK pc \in {"scan", "fgscan"} : Running(Shell, pc)
  BY DEF ShellFindsNone
<1>2. PICK to \in {"block", "fgblock"} : Goto(Shell, to)
  BY DEF ShellFindsNone
<1>3. Fore /\ Threads /\ Pc(Shell) = pc /\ Shell \in Pid
      /\ At(Shell, to) \in Context /\ UNCHANGED <<k, kind, local, pid>>
  BY <1>1, ShellAt, ShellPoints DEF ShellFindsNone
<1>4. Fore' /\ Likewise(k, k')
  BY <1>3 DEF Fore, Likewise
<1>5. Pc(Shell)' = to
  BY <1>2 DEF Pc, Goto, At
<1>6. ShellFramed'
  BY <1>3, <1>5 DEF Threads, ShellFramed
<1> QED BY <1>1, <1>2, <1>3, <1>4, <1>6, LikewiseCalm

\* p_wait is entered for a child: the shell has one, so it waits.
LEMMA EnterWaitCalm ==
  ASSUME Inv(FALSE), Aware, CalmInv, Sound(k)', NEW pc0, Running(Shell, pc0),
         NEW q \in k.live \ {Shell}, k.parent[q] = Shell, pid' = q, kind' = kind,
         NEW pc \in {"scan", "fgscan"}, EnterWait(Grounded(k, q, FG), pc)
  PROVE  CalmInv' /\ Tends
<1> DEFINE m == Grounded(k, q, FG)
<1>1. /\ Fore /\ Others /\ k \in Memory /\ k.prevfg = Shell /\ k.kids[Shell] # <<>>
      /\ k.live \subseteq Pid /\ Shell \in Pid /\ At(Shell, pc) \in Context
      /\ k.cur = Shell
  BY ShellAt, ShellPoints
<1>2. /\ Likewise(k, m) /\ m.cur = k.cur /\ m.ctx = k.ctx /\ m.prevfg = k.prevfg
      /\ m.prevcur = k.prevcur
      /\ \A x \in Pid : m.ground[x] = IF x = q THEN FG ELSE k.ground[x]
  BY <1>1, GroundLikewise
<1> HIDE DEF m
<1>3. EnterWait(m, pc)
  BY DEF m
<1>4. k' = m /\ Goto(Shell, pc) /\ local' = [local EXCEPT ![Shell] = Shell]
  BY <1>1, <1>2, <1>3 DEF EnterWait, Likewise
<1>5. Fore'
  BY <1>1, <1>2, <1>4 DEF Fore
<1>6. ShellFramed'
  <2>1. Pc(Shell)' = pc /\ local'[Shell] = Shell
    BY <1>1, <1>4 DEF Pc, Goto, At, Others
  <2>2. pid' \in k'.live \ {Shell} /\ k'.parent[pid'] = Shell
    BY <1>2, <1>4 DEF Likewise
  <2> QED BY <2>1, <2>2 DEF ShellFramed
<1> QED BY <1>1, <1>2, <1>4, <1>5, <1>6, LikewiseCalm

LEMMA SetsGroundCalm ==
  ASSUME Inv(FALSE), Aware, CalmInv, Sound(k)', ShellSetsGround
  PROVE  CalmInv' /\ Tends
<1> DEFINE q == local[Shell]
<1>1. PICK pc0 \in {"groundFG", "groundBG"} : Running(Shell, pc0)
  BY DEF ShellSetsGround
<1>2. /\ Fore /\ Others /\ Threads /\ k \in Memory /\ k.prevfg = Shell
      /\ k.live \subseteq Pid /\ Shell \in Pid /\ Pc(Shell) = pc0 /\ k.cur = Shell
  BY <1>1, ShellAt
<1>3. q \in k.live \ {Shell} /\ k.parent[q] = Shell
  BY <1>2 DEF Threads, ShellFramed
<1>4. pid' = q /\ kind' = kind
  BY DEF ShellSetsGround
<1>5. CASE EnterWait(Grounded(k, q, FG), "scan")
  BY <1>1, <1>3, <1>4, <1>5, EnterWaitCalm
<1>6. CASE SetGround(Shell, BG) /\ Goto(Shell, "after") /\ UNCHANGED local
  <2> DEFINE m == Grounded(k, q, BG)
  <2>1. /\ Likewise(k, m) /\ m.cur = k.cur /\ m.ctx = k.ctx /\ m.prevfg = k.prevfg
        /\ m.prevcur = k.prevcur
        /\ \A x \in Pid : m.ground[x] = IF x = q THEN BG ELSE k.ground[x]
    BY <1>2, <1>3, GroundLikewise
  <2>2. k' = m /\ Goto(Shell, "after") /\ local' = local
    BY <1>6 DEF SetGround, Grounded
  <2> HIDE DEF m
  <2>3. Fore'
    BY <1>2, <1>3, <2>1, <2>2 DEF Fore
  <2>4. Pc(Shell)' = "after"
    BY <2>2 DEF Pc, Goto, At
  <2>5. ShellFramed'
    BY <2>4 DEF ShellFramed
  <2>6. At(Shell, "after") \in Context
    BY ShellPoints
  <2> QED BY <1>1, <1>2, <1>4, <2>1, <2>2, <2>3, <2>5, <2>6, LikewiseCalm
<1> QED BY <1>5, <1>6 DEF ShellSetsGround, Grounded

\* The fg command.
LEMMA FgCalm ==
  ASSUME Inv(FALSE), Aware, CalmInv, Sound(k)', ShellFg
  PROVE  CalmInv' /\ Tends
<1>1. PICK q \in Spawned : /\ InRunQueue(k, q) /\ pid' = q
                           /\ EnterWait(Grounded(k, q, FG), "fgscan")
  BY DEF ShellFg, Grounded
<1>2. Running(Shell, "top") /\ kind' = kind
  BY DEF ShellFg
<1>3. Threads /\ Fit(k, Shell) /\ Sound(k)
  BY <1>2, ShellAt
<1>4. q \in k.live
  BY <1>1, <1>3, FitApart, Queues DEF InRunQueue
<1>5. q # Shell /\ kind[q] \notin ChildKind
  BY <1>1, <1>3, ProgramAssumption DEF Spawned, Threads, Kin, ChildKind
<1>6. k.parent[q] = Shell
  BY <1>3, <1>4, <1>5 DEF Threads, Kin
<1> QED BY <1>1, <1>2, <1>4, <1>5, <1>6, EnterWaitCalm

\* p_wait reports a child: one that has terminated is buried.
LEMMA ReportedCalm ==
  ASSUME Inv(FALSE), Aware, CalmInv, Sound(k)', NEW pc0, Running(Shell, pc0),
         NEW q \in k.live \ {Shell}, k' = Reported(q), NEW to \in {"top", "after"},
         Goto(Shell, to), to = "top" => pid' = Shell, kind' = kind, local' = local
  PROVE  CalmInv' /\ Tends
<1>1. /\ Sound(k) /\ Others /\ Threads /\ Fore /\ Barren(k) /\ Fit(k, Shell)
      /\ Tree(k) /\ run.who = Shell /\ k.cur = Shell /\ Links(k)
      /\ Shell \in k.live /\ k.live \subseteq Pid /\ k \in Memory /\ Shell \in Pid
      /\ At(Shell, to) \in Context
  BY ShellAt, ShellPoints DEF Sound
<1>2. Pc(Shell)' = to
  BY DEF Pc, Goto, At
<1>3. ShellFramed'
  BY <1>2 DEF ShellFramed
<1>4. CASE k.status[q] \in {"ZOMBIE", "KILLED"}
  <2> DEFINE m == TerminateLeaf(k, q)
  <2>1. k.status[q] = "ZOMBIE"
    BY <1>1, <1>4 DEF Fit, Settled
  <2>2. k.kids[q] = <<>>
    BY <1>1, <2>1 DEF Barren
  <2>3. k' = m
    BY <1>4, <2>2 DEF Reported, KProcessTerminate
  <2>4. Fit(m, Shell) /\ Pruned(k, m, q) /\ SameFields(k, m)
    BY <1>1, <2>2, TerminateLeafFit DEF Relinks
  <2> HIDE DEF m
  <2>5. \A x \in Pid : k.kids[x] \in Seq(Pid)
    BY <1>1, FitTypes
  <2>6. m.status = k.status /\ m.count = k.count /\ m.cur = k.cur /\ m.ctx = k.ctx
        /\ m.prevfg = k.prevfg /\ m.ground = k.ground /\ m.prevcur = k.prevcur
    BY <2>4 DEF SameFields
  <2>7. Barren(m)
    BY <1>1, <2>2, <2>4, <2>5, <2>6, PrunedBarren
  <2>8. m.live \subseteq k.live /\ m.parent = k.parent
        /\ \A x \in Pid : k.kids[x] = <<>> => m.kids[x] = <<>>
    BY <1>1, <2>2, <2>4, <2>5, PrunedTree DEF Pruned
  <2>9. Kin'
    BY <1>1, <2>3, <2>8, KinStays DEF Threads
  <2>10. Fore'
    BY <1>1, <2>3, <2>6 DEF Fore
  <2>11. \A x \in k'.live \ {Shell} : k'.kids[x] # <<>> => x \in k.live /\ k.kids[x] # <<>>
    BY <1>1, <2>3, <2>8
  <2>12. run' = At(Shell, to) /\ k'.cur = Shell /\ Fit(k', Shell) /\ Barren(k')
         /\ k'.ctx = k.ctx
    BY <1>1, <2>3, <2>4, <2>6, <2>7 DEF Goto
  <2>13. CalmInv'
    BY <1>1, <1>3, <2>9, <2>10, <2>11, <2>12, ThreadCalm
  <2>14. Buries(k, k')
    BY <2>1, <2>2, <2>3, <2>4, <2>6 DEF Buries
  <2> QED BY <2>3, <2>6, <2>13, <2>14 DEF Tends
<1>5. CASE k.status[q] \notin {"ZOMBIE", "KILLED"}
  <2>1. k' = [k EXCEPT !.changed[q] = FALSE]
    BY <1>5 DEF Reported
  <2>2. Likewise(k, k') /\ k'.cur = k.cur /\ k'.ctx = k.ctx /\ k'.ground = k.ground
        /\ k'.prevfg = k.prevfg /\ k'.prevcur = k.prevcur
    BY <1>1, <2>1 DEF Likewise, Memory
  <2>3. Fore'
    BY <1>1, <2>2 DEF Fore
  <2> QED BY <1>1, <1>3, <2>2, <2>3, LikewiseCalm
<1> QED BY <1>4, <1>5

LEMMA ReportsCalm ==
  ASSUME Inv(FALSE), Aware, CalmInv, Sound(k)', ShellReports
  PROVE  CalmInv' /\ Tends
<1>1. PICK pc \in {"scan", "fgscan"} : Running(Shell, pc)
  BY DEF ShellReports
<1>2. Threads /\ Fit(k, Shell) /\ Pc(Shell) = pc
  BY <1>1, ShellAt
<1>3. pid \in k.live \ {Shell}
  BY <1>2 DEF Threads, ShellFramed
<1>4. k.status[pid] # "STOPPED"
  BY <1>2, <1>3 DEF Fit, Settled
<1>5. PICK to \in {"top", "after"} : ShellHears(Reported(pid), to)
  BY DEF ShellReports
<1>6. k' = Reported(pid) /\ Goto(Shell, to)
  BY <1>4, <1>5 DEF ShellHears
<1>7. to = "top" => pid' = Shell
  <2>1. run'.pc = to
    BY <1>6 DEF Goto, At
  <2> QED BY <1>5, <2>1 DEF ShellHears
<1>8. kind' = kind /\ local' = local
  BY DEF ShellReports
<1> QED BY <1>1, <1>3, <1>6, <1>7, <1>8, ReportedCalm

\* The polls of background jobs.
LEMMA PollsCalm ==
  ASSUME Inv(FALSE), Aware, CalmInv, Sound(k)', ShellPolls
  PROVE  CalmInv' /\ Tends
<1>1. PICK q \in Spawned : WaitFinds(k.prevcur, q) /\ k' = Reported(q)
  BY DEF ShellPolls
<1>2. Running(Shell, "top") /\ Goto(Shell, "top") /\ kind' = kind /\ local' = local
      /\ pid' = pid
  BY DEF ShellPolls, Running, Goto
<1>3. Threads /\ Tree(k) /\ Barren(k) /\ Pc(Shell) = "top"
  BY <1>2, ShellAt
<1>4. Listed(k.kids[k.prevcur], q) /\ k.prevcur \in Pid
  BY <1>1, <1>2, InvAt, PidsAreNats DEF WaitFinds, Listed
<1>5. k.kids[k.prevcur] # <<>>
  BY <1>4 DEF Listed
<1>6. q \in k.live /\ q # Shell
  BY <1>1, <1>3, <1>4, <1>5 DEF Barren, Tree, Spawned, Shell
<1>7. pid' = Shell
  BY <1>2, <1>3 DEF Threads, ShellFramed
<1> QED BY <1>1, <1>2, <1>6, <1>7, ReportedCalm

LEMMA StandsStill ==
  ASSUME CalmInv
  PROVE  Same(k, k)
BY DEF CalmInv, Fit, Settled, Same

LEMMA ShellSpawnsCalm ==
  ASSUME Calm, Inv(FALSE), Aware, CalmInv, ShellSpawns
  PROVE  CalmInv' /\ \E prog \in Programs : Brings(Shell, prog)
<1>1. PICK prog \in Programs, pc \in {"groundFG", "groundBG"} : Create(Shell, prog, pc)
  BY DEF ShellSpawns
<1>2. Running(Shell, "top") /\ UNCHANGED pid /\ Shell \in Pid /\ At(Shell, pc) \in Context
  BY ShellPoints DEF ShellSpawns
<1>3. prog \in Kind /\ prog \notin {"shell", "sleep"} /\ prog \notin ChildKind
  BY ProgramAssumption DEF Kind, ChildKind, Calm
<1> QED BY <1>1, <1>2, <1>3, CreateCalm

\* logout ends the system.
LEMMA LogoutCalm ==
  ASSUME Inv(FALSE), Aware, CalmInv, ShellLogout
  PROVE  CalmInv' /\ Tends
<1>1. Running(Shell, "top") /\ run' = Exited /\ k' = k /\ pid' = pid /\ kind' = kind
  BY DEF ShellLogout
<1>2. Threads /\ Pc(Shell) = "top" /\ Fore /\ Barren(k) /\ Fit(k, k.cur)
  BY <1>1, ShellAt
<1>3. pid = Shell
  BY <1>2 DEF Threads, ShellFramed
<1>4. Fore'
  BY <1>1, <1>2 DEF Fore
<1>5. CalmInv'
  BY <1>1, <1>2, <1>3, <1>4 DEF CalmInv
<1> QED BY <1>1, <1>5, StandsStill DEF Tends

\* The commands.
LEMMA CommandCalm ==
  ASSUME Calm, Inv(FALSE), Aware, CalmInv, Sound(k)', ShellCommand
  PROVE  CalmInv' /\ Lives(k, k')
<1>1. CASE ShellSpawns
  BY <1>1, ShellSpawnsCalm DEF Lives, Brings
<1>2. CASE ShellNices
  BY <1>2 DEF ShellNices, Calm
<1>3. CASE ShellFg
  BY <1>3, FgCalm DEF Lives, Tends
<1>4. CASE ShellLogout
  BY <1>4, LogoutCalm DEF Lives, Tends
<1> QED BY <1>1, <1>2, <1>3, <1>4 DEF ShellCommand

LEMMA StutterCalm ==
  ASSUME CalmInv, UNCHANGED vars
  PROVE  CalmInv' /\ Tends
BY StandsStill DEF vars, CalmInv, Fore, Threads, Kin, Seated, Started, Framed, Sane,
                   ShellFramed, Pc, Tends

LEMMA NextCalm ==
  ASSUME Calm, Inv(FALSE), Aware, CalmInv, [Next]_vars
  PROVE  CalmInv' /\ Lives(k, k')
<1>1. Sound(k)'
  BY NextAware DEF Aware
<1>2. CASE Tick
  BY <1>2, TickCalm DEF Lives
<1>3. CASE \E p \in Pid : Program(p)
  BY <1>1, <1>3, ProgramCalm
<1>4. CASE ShellProceeds
  BY <1>1, <1>4, StartsCalm, SetsGroundCalm, ReportsCalm, FindsNoneCalm, BlocksCalm,
     LoopsCalm DEF ShellProceeds, ShellWaits, Lives, Tends
<1>5. CASE ShellPolls
  BY <1>1, <1>5, PollsCalm DEF Lives, Tends
<1>6. CASE ShellCommand
  BY <1>1, <1>6, CommandCalm
<1>7. CASE Stopped \/ UNCHANGED vars
  BY <1>7, StutterCalm DEF Stopped, Lives, Tends
<1> QED BY <1>2, <1>3, <1>4, <1>5, <1>6, <1>7 DEF Next
-----------------------------------------------------------------------------
(***************************************************************************)
(* The machine after booting.                                              *)
(***************************************************************************)
LEMMA BootFit == Fit(Boot, NULL) /\ Barren(Boot)
<1>1. Links(Boot) /\ Shell \in Pid /\ Shell # NULL /\ Shell < Shell + 1
  BY BootSound, PidsAreNats DEF Sound
<1>2. /\ Boot.live = {Shell} /\ Boot.count = Shell + 1 /\ Boot.fault = FALSE
      /\ \A p \in Pid : /\ Boot.next[p] = NULL /\ Boot.parent[p] = NULL
                        /\ Boot.kids[p] = <<>> /\ Boot.status[p] = "READY"
                        /\ Boot.sigflag[p] = FALSE /\ Boot.sleep[p] = -1
      /\ \A q \in Queue : Boot.head[q] = IF q = -1 THEN Shell ELSE NULL
      /\ Boot.prio[Shell] = -1
  BY <1>1, BootFields, Queues DEF Clean, NoHeads
<1>3. /\ Members(Boot, -1) = {Shell}
      /\ \A q \in {0, 1, ZombieQueue} : Members(Boot, q) = {}
  <2>1. Members(Boot, -1) = {Shell}
    <3>1. Boot.head[-1] = Shell
      BY <1>2, Queues
    <3>2. Members(Boot, -1) \subseteq {Shell}
      BY <1>1, <1>2, <3>1, VisitedOne DEF Members
    <3>3. Shell \in Members(Boot, -1)
      BY <1>1, <3>1, HeadIn, Queues
    <3> QED BY <3>2, <3>3
  <2>2. ASSUME NEW q \in {0, 1, ZombieQueue} PROVE Members(Boot, q) = {}
    <3>1. q \in Queue /\ Boot.head[q] = NULL
      BY <1>2, Queues
    <3> QED BY <1>1, <3>1, HeadIn
  <2> QED BY <2>1, <2>2
<1>4. Ready(Boot, NULL) = {} /\ Zombies(Boot) = {}
  BY <1>2 DEF Ready, Zombies
<1>5. Placed(Boot, NULL)
  BY <1>1, <1>2, <1>3, <1>4 DEF Placed
<1>6. Settled(Boot, NULL)
  BY <1>1, <1>2 DEF Settled
<1>7. Tree(Boot)
  <2>1. \A c : ~Listed(<<>>, c)
    BY DEF Listed
  <2>2. Distinct(<<>>)
    BY DEF Distinct
  <2> QED BY <1>1, <1>2, <2>1, <2>2 DEF Tree
<1> QED BY <1>1, <1>2, <1>5, <1>6, <1>7 DEF Fit, Barren

LEMMA InitCalm == Init => CalmInv
<1> SUFFICES ASSUME Init PROVE CalmInv
  OBVIOUS
<1>1. k = Scheduler(Boot) /\ Boot.how = "TIMEOUT" /\ Boot.live = {Shell}
      /\ Boot.ground = [p \in Pid |-> FG] /\ Boot.prevfg = Shell
      /\ Boot.ctx = [p \in Pid |-> At(p, "start")]
  BY BootFields DEF Init, Clean
<1>2. Fit(k, k.cur) /\ Heirs(Boot, k) /\ Chose(Boot, k)
  BY <1>1, BootFit, BootSound, TimeoutFit, SchedulerSound
<1>3. Shell \in Pid /\ Tree(Boot)
  BY BootFit, PidsAreNats DEF Fit
<1>4. Barren(k)
  BY <1>1, <1>2, <1>3, BootFit, HeirsTree
<1>5. Fore
  BY <1>1, <1>2, <1>3 DEF Chose, Runs, Fore
<1>6. /\ k.fault = FALSE /\ k.live = {Shell} /\ (k.cur = NULL \/ k.cur \in Pid)
      /\ \A p \in Pid : k.ctx[p] = At(p, "start")
  BY <1>1, <1>2 DEF Fit, Settled, Heirs, Chose
<1>7. run = IF k.cur = NULL THEN Idle ELSE At(k.cur, "start")
  BY <1>6 DEF Init, Resumed
<1>8. run # Exited /\ run.who = k.cur
  BY <1>6, <1>7, Pids, Contexts DEF Idle, Exited, At
<1>9. ASSUME NEW p \in Pid PROVE Pc(p) = "start"
  <2>1. At(p, "start").pc = "start"
    BY DEF At
  <2>2. CASE k.cur = p
    BY <1>7, <1>8, <2>1, <2>2, PidsAreNats DEF Pc
  <2>3. CASE k.cur # p
    BY <1>6, <1>8, <2>1, <2>3 DEF Pc
  <2> QED BY <2>2, <2>3
<1>10. Kin
  <2>1. \A p \in Pid : kind[p] = IF p = Shell THEN "shell" ELSE "none"
    BY DEF Init
  <2> QED BY <1>3, <1>6, <2>1 DEF Kin
<1>11. Seated
  <2>1. \A p \in Pid : At(p, "start").who = p
    BY DEF At
  <2> QED BY <1>6, <1>8, <2>1 DEF Seated
<1>12. Framed
  <2>1. \A p \in Pid : Sane(p, At(p, "start"))
    BY DEF Sane, At
  <2> QED BY <1>6, <1>7, <2>1 DEF Framed
<1>13. ShellFramed
  BY <1>3, <1>9 DEF ShellFramed, Init
<1>14. Started
  BY <1>6 DEF Started
<1> QED BY <1>2, <1>4, <1>5, <1>8, <1>10, <1>11, <1>12, <1>13, <1>14 DEF CalmInv, Threads

LEMMA AlwaysCalm ==
  ASSUME Calm
  PROVE  Spec => [](Inv(FALSE) /\ Aware /\ CalmInv)
<1>1. Inv(FALSE) /\ Aware /\ CalmInv /\ [Next]_vars => (Inv(FALSE) /\ Aware /\ CalmInv)'
  BY NextInv, NextAware, NextCalm
<1> QED BY InitAnyInv, InitAware, InitCalm, <1>1, PTL DEF Spec
-----------------------------------------------------------------------------
(***************************************************************************)
(* What follows from the invariant.                                        *)
(***************************************************************************)
\* The four queues, and what is in them.
LEMMA CalmQueues ==
  ASSUME CalmInv
  PROVE  /\ Members(k, -1) = {Shell} \ {k.cur} /\ Members(k, 0) = Ready(k, k.cur)
         /\ Members(k, 1) = {} /\ Members(k, ZombieQueue) = Zombies(k)
         /\ Apart(k) /\ \A q \in Queue : Members(k, q) \subseteq k.live
         /\ \A q \in Queue : k.cur \notin Members(k, q)
         /\ Shell \in k.live /\ k.status[Shell] \in {"READY", "BLOCKED"}
         /\ k.prio[Shell] = -1 /\ k.live \subseteq Pid
         /\ \A p \in k.live \ {Shell} :
              k.status[p] \in {"READY", "ZOMBIE"} /\ k.prio[p] = 0
BY FitApart, FitTypes DEF CalmInv, Fit, Placed, Settled

\* The zombie queue holds the zombies, all of them, and shares no block with a
\* run queue: what has terminated is never handed to the scheduler again, for any
\* number of processes.
THEOREM ZombiesStayApart ==
  ASSUME Calm
  PROVE  Spec => []ZombiesAreApart
<1>1. CalmInv => ZombiesAreApart
  <2> SUFFICES ASSUME CalmInv PROVE ZombiesAreApart
    OBVIOUS
  <2>1. Members(k, ZombieQueue) = {p \in k.live : k.status[p] = "ZOMBIE"}
    BY CalmQueues DEF Zombies
  <2>2. \A q \in RunQueue : Members(k, q) \cap Members(k, ZombieQueue) = {}
    BY CalmQueues, Queues DEF Apart
  <2> QED BY <2>1, <2>2 DEF ZombiesAreApart
<1> QED BY <1>1, AlwaysCalm, PTL

\* No list leads into memory that k_process_terminate has freed.
THEOREM ListsStayLive ==
  ASSUME Calm
  PROVE  Spec => []ListsAreLive
<1>1. CalmInv => ListsAreLive
  BY CalmQueues DEF ListsAreLive
<1> QED BY <1>1, AlwaysCalm, PTL

\* A process that could run, and is not running, is in the queue of its priority:
\* whoever waits is found by the scheduler.
THEOREM NobodyIsLost ==
  ASSUME Calm
  PROVE  Spec => []ReadyAreQueued
<1>1. CalmInv => ReadyAreQueued
  <2> SUFFICES ASSUME CalmInv, NEW p \in k.live \ {k.cur}, k.status[p] = "READY"
               PROVE  p \in Members(k, k.prio[p])
    BY DEF ReadyAreQueued
  <2>1. CASE p = Shell
    BY <2>1, CalmQueues
  <2>2. CASE p # Shell
    BY <2>2, CalmQueues DEF Ready
  <2> QED BY <2>1, <2>2
<1> QED BY <1>1, AlwaysCalm, PTL

\* A process is in no run queue but that of its own priority.
THEOREM QueueIsPriority ==
  ASSUME Calm
  PROVE  Spec => []QueuedByPriority
<1>1. CalmInv => QueuedByPriority
  <2> SUFFICES ASSUME CalmInv, NEW q \in RunQueue, NEW p \in Members(k, q)
               PROVE  k.prio[p] = q
    BY DEF QueuedByPriority
  <2>1. CASE q = -1
    BY <2>1, CalmQueues
  <2>2. CASE q = 0
    BY <2>2, CalmQueues DEF Ready
  <2>3. CASE q = 1
    BY <2>3, CalmQueues
  <2> QED BY <2>1, <2>2, <2>3, Queues
<1> QED BY <1>1, AlwaysCalm, PTL

\* parent_pcb and child_list are two views of one tree, although the scheduler
\* takes the process it dequeues off its parent's list and puts it back, and the
\* exit of one process frees another.
THEOREM FamilyStaysTree ==
  ASSUME Calm
  PROVE  Spec => []FamilyIsTree
<1>1. CalmInv => FamilyIsTree
  <2> SUFFICES ASSUME CalmInv, NEW p \in k.live
               PROVE  /\ k.parent[p] # NULL =>
                           /\ k.parent[p] \in k.live
                           /\ Listed(k.kids[k.parent[p]], p)
                      /\ Distinct(k.kids[p])
                      /\ \A c : Listed(k.kids[p], c) => c \in k.live /\ k.parent[c] = p
    BY DEF FamilyIsTree, Listed, Distinct
  <2>1. Tree(k)
    BY DEF CalmInv, Fit
  <2> QED BY <2>1 DEF Tree
<1> QED BY <1>1, AlwaysCalm, PTL

\* The tree has three levels, which is what the loops over child lists in the
\* model of k_process_kill and k_process_terminate rely on.
THEOREM ThreeLevels ==
  ASSUME Calm
  PROVE  Spec => []TreeShape
<1>1. CalmInv => TreeShape
  BY DEF CalmInv, Fit, Tree, TreeShape
<1> QED BY <1>1, AlwaysCalm, PTL

\* The process the kernel takes to be running is the one that runs; it is
\* allocated, has not terminated, and is in no list.
THEOREM CurRuns ==
  ASSUME Calm
  PROVE  Spec => []CpuIsCur
<1>1. CalmInv => CpuIsCur
  <2> SUFFICES ASSUME CalmInv, run # Exited PROVE CpuIsCur
    BY DEF CpuIsCur
  <2>1. run.who = k.cur
    BY DEF CalmInv, Threads, Seated
  <2>2. k.cur # NULL => k.cur \in k.live /\ k.status[k.cur] \in {"READY", "BLOCKED"}
    BY CalmQueues DEF CalmInv, Fit, Settled
  <2> QED BY <2>1, <2>2, CalmQueues DEF CpuIsCur, Dead
<1> QED BY <1>1, AlwaysCalm, PTL

\* The machine stops only by logout: the kernel dereferences no null pointer and
\* p_wait never finds the shell without the child it is to wait for.
THEOREM NeverCrashes ==
  ASSUME Calm
  PROVE  Spec => []NoCrash
<1>1. CalmInv => NoCrash
  BY DEF CalmInv, Fit, Settled, NoCrash
<1> QED BY <1>1, AlwaysCalm, PTL

\* In p_wait the shell waits, as itself, for a child that nobody has freed.
THEOREM WaitsForChild ==
  ASSUME Calm
  PROVE  Spec => []WaitTargetIsChild
<1>1. CalmInv => WaitTargetIsChild
  <2> SUFFICES ASSUME CalmInv, Waiting
               PROVE  local[Shell] = Shell /\ pid \in k.live /\ k.parent[pid] = Shell
    BY DEF WaitTargetIsChild
  <2>1. run # Exited
    BY PidsAreNats DEF Waiting, Exited
  <2>2. Pc(Shell) \in {"scan", "fgscan", "block", "fgblock"}
    BY DEF Waiting, Pc
  <2> QED BY <2>1, <2>2 DEF CalmInv, Threads, ShellFramed
<1> QED BY <1>1, AlwaysCalm, PTL

\* prev_fg is the process that runs if and only if that is in the foreground.
THEOREM PrevFgFollows ==
  ASSUME Calm
  PROVE  Spec => []PrevFgIsCur
<1>1. CalmInv => PrevFgIsCur
  BY DEF CalmInv, Fore, PrevFgIsCur
<1> QED BY <1>1, AlwaysCalm, PTL
-----------------------------------------------------------------------------
(***************************************************************************)
(* PennOS implements Lifecycle: a step of the machine is a step of lives.  *)
(***************************************************************************)
\* The lives of the processes of memory m.
LifeIn(m, p) == IF p >= m.count THEN "none" ELSE IF p \in m.live THEN m.status[p] ELSE "gone"

LEMMA LifeAt ==
  ASSUME NEW p \in Pid
  PROVE  /\ life[p] = LifeIn(k, p) /\ life'[p] = LifeIn(k', p)
         /\ parents[p] = k.parent[p] /\ parents'[p] = k'.parent[p]
BY DEF life, parents, LifeIn

\* What Lifecycle asks of a step, for one process: it begins, goes on or ends, ...
Turns(p) ==
  L!Spawned(p) \/ L!Changes(p) \/ L!Ends(p) \/ L!Reaped(p) \/ L!Orphaned(p) \/ L!Rests(p)

\* Two steps that do not concern p.
LEMMA RestsOf ==
  ASSUME NEW p \in Pid, k'.count = k.count, p \in k'.live <=> p \in k.live,
         k'.status[p] = k.status[p]
  PROVE  life'[p] = life[p] /\ L!Rests(p)
BY LifeAt DEF LifeIn, L!Rests

\* The lives of those who are allocated.
LEMMA LifeOf ==
  ASSUME NEW m, NEW out, Fit(m, out), NEW p \in m.live
  PROVE  /\ p \in Pid /\ p < m.count /\ LifeIn(m, p) = m.status[p]
         /\ IF p = Shell THEN m.status[p] \in {"READY", "BLOCKED"}
            ELSE m.status[p] \in {"READY", "ZOMBIE"}
<1>1. p \in Pid /\ p < m.count /\ m.count \in Nat
  BY FitTypes DEF Fit, Settled
<1>2. LifeIn(m, p) = m.status[p]
  BY <1>1, PidsAreNats DEF LifeIn
<1> QED BY <1>1, <1>2 DEF Fit, Settled

LEMMA LiveLives ==
  ASSUME CalmInv, NEW p \in k.live
  PROVE  /\ p \in Pid /\ p < k.count /\ life[p] = k.status[p] /\ life[p] # "none"
         /\ p = Shell \/ k.status[p] \in {"READY", "ZOMBIE"}
BY LifeOf, LifeAt DEF CalmInv

\* The shell is alive, before the step and after it.
LEMMA ShellLives ==
  ASSUME CalmInv, CalmInv'
  PROVE  life[Shell] \in {"READY", "BLOCKED"} /\ life'[Shell] \in {"READY", "BLOCKED"}
<1>1. Shell \in k.live /\ Shell \in k'.live /\ Fit(k, k.cur) /\ Fit(k', k'.cur)
  BY DEF CalmInv, Fit, Settled
<1>2. LifeIn(k, Shell) \in {"READY", "BLOCKED"} /\ LifeIn(k', Shell) \in {"READY", "BLOCKED"}
  BY <1>1, LifeOf
<1> QED BY <1>2, LifeAt, PidsAreNats

LEMMA SameLives ==
  ASSUME CalmInv, CalmInv', Same(k, k')
  PROVE  L!Next
<1>1. Shell \in Pid
  BY PidsAreNats
<1>2. ASSUME NEW p \in Pid PROVE L!Changes(p) \/ L!Rests(p)
  <2>1. CASE p = Shell
    <3>1. life[p] \in {"READY", "BLOCKED"} /\ life'[p] \in {"READY", "BLOCKED"}
      BY <2>1, ShellLives
    <3> QED BY <3>1 DEF L!Changes, L!Alive
  <2>2. CASE p # Shell
    BY <2>2, RestsOf DEF Same
  <2> QED BY <2>1, <2>2
<1>3. \A p \in Pid : ~L!Ends(p)
  BY <1>2 DEF L!Changes, L!Rests, L!Ends, L!Alive, L!Dead
<1>4. \A p \in Pid : parents'[p] = parents[p]
  BY LifeAt DEF Same
<1> QED BY <1>2, <1>3, <1>4 DEF L!Next

LEMMA BearsLives ==
  ASSUME CalmInv, CalmInv', Bears(k, k')
  PROVE  L!Next
<1> DEFINE b == k.count
<1>1. PICK d \in k.live : (d = Shell \/ k.status[d] = "READY") /\ Born(k, k', d)
  BY DEF Bears
<1>2. b \in Pid /\ b \in Nat /\ k'.count = b + 1
  BY PidsAreNats DEF Bears
<1>3. /\ k'.live = k.live \cup {b}
      /\ \A x \in Pid : k'.parent[x] = IF x = b THEN d ELSE k.parent[x]
      /\ \A x \in Pid : k'.status[x] = IF x = b THEN "READY" ELSE k.status[x]
  <2>1. k.parent \in [Pid -> Ptr] /\ k.status \in [Pid -> Status]
    BY FitTypes DEF CalmInv, Fit
  <2> QED BY <1>1, <1>2, <2>1 DEF Born
<1> HIDE DEF b
<1>4. ASSUME NEW p \in Pid, p # b PROVE L!Rests(p) /\ life'[p] = life[p]
  <2>1. p \in Nat /\ (p >= b + 1 <=> p >= b)
    BY <1>2, <1>4, PidsAreNats
  <2>2. p \in k'.live <=> p \in k.live
    BY <1>3, <1>4
  <2>3. life'[p] = life[p]
    BY <1>2, <1>3, <1>4, <2>1, <2>2, LifeAt DEF LifeIn, b
  <2> QED BY <2>3 DEF L!Rests
<1>5. L!Spawned(b) /\ life[b] = "none"
  <2>1. life[b] = "none"
    BY <1>2, LifeAt DEF LifeIn, b
  <2>2. life'[b] = "READY"
    BY <1>2, <1>3, LifeAt DEF LifeIn
  <2>3. parents'[b] = d /\ d \in Pid
    BY <1>1, <1>2, <1>3, LifeAt, LiveLives
  <2>4. life[d] \in {"READY", "BLOCKED"}
    BY <1>1, LiveLives, ShellLives
  <2> QED BY <2>1, <2>2, <2>3, <2>4 DEF L!Spawned, L!Alive
<1>6. \A p \in Pid : life[p] # "none" => parents'[p] = parents[p]
  BY <1>3, <1>5, LifeAt
<1>7. \A p \in Pid : ~L!Ends(p)
  BY <1>4, <1>5 DEF L!Ends, L!Alive, L!Dead
<1> QED BY <1>4, <1>5, <1>6, <1>7 DEF L!Next

LEMMA LosesLives ==
  ASSUME CalmInv, CalmInv', Loses(k, k')
  PROVE  L!Next
<1>1. PICK p \in k.live \ {Shell} : k.status[p] = "READY" /\ \E l :
        /\ Perished(k, l, p)
        /\ k'.live = l.live /\ k'.status = l.status /\ k'.parent = l.parent
  BY DEF Loses, Goes
<1>2. /\ k'.live = {x \in k.live : k.parent[x] # p} /\ k'.parent = k.parent
      /\ k'.status[p] = "ZOMBIE" /\ \A x \in Pid \ {p, Shell} : k'.status[x] = k.status[x]
  BY <1>1 DEF Perished
<1>3. k'.count = k.count
  BY DEF Loses
<1>4. k.parent[p] # p /\ k.parent[Shell] = NULL
  <2>1. Tree(k) /\ k.kids[p] \in Seq(Pid)
    BY LiveLives, FitTypes DEF CalmInv, Fit
  <2> QED BY <1>1, <2>1, EmptyList DEF Tree
<1>5. p \in Pid /\ life[p] = "READY" /\ life'[p] = "ZOMBIE"
  <2>1. p \in Pid /\ life[p] = "READY"
    BY <1>1, LiveLives
  <2>2. p \in k'.live
    BY <1>1, <1>2, <1>4
  <2>3. Fit(k', k'.cur)
    BY DEF CalmInv
  <2>4. LifeIn(k', p) = "ZOMBIE"
    BY <1>2, <2>2, <2>3, LifeOf
  <2> QED BY <2>1, <2>4, LifeAt
<1>6. ASSUME NEW x \in k.live, k.parent[x] = p PROVE life'[x] = "gone" /\ L!Orphaned(x)
  <2>1. x \in Pid /\ x < k.count /\ x # Shell /\ life[x] \in {"READY", "ZOMBIE"}
    BY <1>4, <1>5, <1>6, LiveLives, PidsAreNats
  <2>2. ~(x >= k'.count) /\ x \notin k'.live
    <3>1. x \in Nat /\ k.count \in Nat
      BY <2>1, PidsAreNats, FitTypes DEF CalmInv, Fit
    <3> QED BY <1>2, <1>3, <1>6, <2>1, <3>1
  <2>3. life'[x] = "gone" /\ parents[x] = p
    BY <1>6, <2>1, <2>2, LifeAt DEF LifeIn
  <2> QED BY <1>5, <2>1, <2>3 DEF L!Orphaned, L!Alive, L!Dead
<1>7. ASSUME NEW x \in Pid \ {p, Shell}, ~(x \in k.live /\ k.parent[x] = p)
      PROVE  life'[x] = life[x] /\ L!Rests(x)
  <2>1. k'.status[x] = k.status[x] /\ (x \in k'.live <=> x \in k.live)
    BY <1>2, <1>7
  <2> QED BY <1>3, <2>1, RestsOf
<1>8. L!Changes(Shell)
  BY ShellLives DEF L!Changes, L!Alive
<1>9. L!Ends(p)
  BY <1>5 DEF L!Ends, L!Alive, L!Dead
<1>10. \A x \in Pid : L!Changes(x) \/ L!Ends(x) \/ L!Orphaned(x) \/ L!Rests(x)
  BY <1>6, <1>7, <1>8, <1>9
<1>11. \A x \in Pid : parents'[x] = parents[x]
  BY <1>2, LifeAt
<1>12. ASSUME NEW x \in Pid, NEW c \in Pid, parents'[c] = x, L!Ends(x)
       PROVE  life'[c] \in {"none", "gone"}
  <2>1. x = p
    BY <1>6, <1>7, <1>8, <1>12 DEF L!Changes, L!Rests, L!Ends, L!Alive, L!Dead
  <2>2. k.parent[c] = p
    BY <1>2, <1>12, <2>1, LifeAt
  <2>3. CASE c \in k.live
    BY <1>6, <2>2, <2>3
  <2>4. CASE c \notin k.live
    BY <1>2, <2>4, LifeAt DEF LifeIn
  <2> QED BY <2>3, <2>4
<1> QED BY <1>10, <1>11, <1>12 DEF L!Next

LEMMA BuriesLives ==
  ASSUME CalmInv, CalmInv', Buries(k, k')
  PROVE  L!Next
<1>1. PICK c \in k.live \ {Shell} : k.status[c] = "ZOMBIE" /\ Pruned(k, k', c)
  BY DEF Buries
<1>2. k'.live = k.live \ {c} /\ k'.parent = k.parent
      /\ k'.count = k.count /\ k'.status = k.status
  BY <1>1 DEF Pruned, Buries
<1>3. c \in Pid /\ life[c] = "ZOMBIE" /\ c < k.count /\ c \in Nat /\ k.count \in Nat
  BY <1>1, LiveLives, PidsAreNats, FitTypes DEF CalmInv, Fit
<1>4. life'[c] = "gone"
  BY <1>2, <1>3, LifeAt DEF LifeIn
<1>5. L!Reaped(c)
  BY <1>3, <1>4 DEF L!Reaped, L!Dead
<1>6. ASSUME NEW x \in Pid, x # c PROVE L!Rests(x)
  BY <1>2, <1>6, RestsOf
<1>7. \A x \in Pid : parents'[x] = parents[x]
  BY <1>2, LifeAt
<1>8. \A x \in Pid : ~L!Ends(x)
  BY <1>3, <1>6 DEF L!Rests, L!Ends, L!Alive, L!Dead
<1> QED BY <1>5, <1>6, <1>7, <1>8 DEF L!Next

LEMMA InitLives == Init => L!Init
<1> SUFFICES ASSUME Init PROVE L!Init
  OBVIOUS
<1>1. k = Scheduler(Boot) /\ Boot.live = {Shell} /\ Boot.count = Shell + 1
      /\ Boot.how = "TIMEOUT" /\ Boot.parent = [p \in Pid |-> NULL]
      /\ Boot.status = [p \in Pid |-> "READY"]
  BY BootFields DEF Init, Clean
<1>2. Heirs(Boot, k) /\ Chose(Boot, k)
  BY <1>1, BootFit, BootSound, TimeoutFit, SchedulerSound
<1>3. k.live = {Shell} /\ k.count = 2 /\ \A p \in Pid : k.parent[p] = NULL /\ k.status[p] = "READY"
  BY <1>1, <1>2 DEF Heirs, Chose, Shell
<1>4. \A p \in Pid : p = Shell \/ p >= 2
  BY MaxPidAssumption DEF Pid, Shell
<1>5. ~(Shell >= 2)
  BY DEF Shell
<1>6. \A p \in Pid : life[p] = IF p = Shell THEN "READY" ELSE "none"
  BY <1>3, <1>4, <1>5, LifeAt DEF LifeIn
<1>7. life = [p \in Pid |-> IF p = Shell THEN "READY" ELSE "none"]
  BY <1>6 DEF life
<1>8. parents = [p \in Pid |-> NULL]
  BY <1>3 DEF parents
<1> QED BY <1>7, <1>8 DEF L!Init

\* PennOS implements the life cycle of pcb.h: a process is spawned by one that is
\* alive, terminates once, is reaped or goes with its parent, and never returns;
\* who terminates leaves no child behind.
THEOREM LivesAsPromised ==
  ASSUME Calm
  PROVE  Spec => LifecycleHolds
<1>1. CalmInv /\ CalmInv' /\ Lives(k, k') => L!Next
  BY SameLives, BearsLives, LosesLives, BuriesLives DEF Lives
<1>2. Inv(FALSE) /\ Aware /\ CalmInv /\ [Next]_vars => [L!Next]_<<life, parents>>
  BY <1>1, NextCalm
<1> QED BY <1>2, InitLives, AlwaysCalm, PTL DEF Spec, LifecycleHolds, L!Spec
-----------------------------------------------------------------------------
(***************************************************************************)
(* prev_fg and prev_cur, when there is no orphanify: then nobody who ends  *)
(* takes a child along, and only the shell gives memory back.  While the   *)
(* shell runs, prev_fg is the shell, and prev_cur no zombie.               *)
(***************************************************************************)
PrevInv ==
  /\ \A p \in Pid : kind[p] # "orphanify"
  /\ \A p \in k.live \ {Shell} : k.parent[p] = Shell \/ kind[k.parent[p]] = "zombify"
  /\ k.prevfg \in k.live /\ k.prevcur \in k.live
  /\ k.cur = Shell => k.status[k.prevcur] # "ZOMBIE"

\* What CalmInv says about the pointers.
LEMMA PrevFacts ==
  ASSUME CalmInv
  PROVE  /\ k.live \subseteq Pid /\ Shell \in k.live
         /\ k.status[Shell] # "ZOMBIE" /\ (k.cur = NULL \/ k.cur \in k.live)
         /\ k.cur = Shell => k.prevfg = Shell
         /\ k.parent[Shell] = NULL
         /\ \A p \in k.live \ {Shell} : k.parent[p] \in k.live
<1>1. k.live \subseteq Pid /\ Shell \in k.live /\ k.status[Shell] # "ZOMBIE"
      /\ (k.cur = NULL \/ k.cur \in k.live)
  BY FitTypes DEF CalmInv, Fit, Settled
<1>2. k.cur = Shell => k.prevfg = Shell
  BY PidsAreNats DEF CalmInv, Fore
<1>3. k.parent[Shell] = NULL /\ \A p \in k.live \ {Shell} : k.parent[p] \in k.live
  BY DEF CalmInv, Fit, Tree
<1> QED BY <1>1, <1>2, <1>3

\* The CPU is handed on and nobody is freed.
LEMMA HandsPrev ==
  ASSUME CalmInv, CalmInv', PrevInv, Hands, k'.live = k.live, k'.parent = k.parent
  PROVE  PrevInv'
<1>1. CASE k'.cur = NULL /\ k'.prevcur = k.prevcur /\ k'.prevfg = k.prevfg
  BY <1>1, PidsAreNats DEF PrevInv, Hands, NULL, Shell
<1>2. CASE k'.cur \in Pid /\ k'.prevcur = k'.cur /\ k'.prevfg \in {k'.cur, k.prevfg}
  <2>1. k'.cur \in k'.live /\ k'.status[Shell] # "ZOMBIE"
    BY <1>2, PidsAreNats DEF CalmInv, Fit, Settled
  <2> QED BY <1>2, <2>1 DEF PrevInv, Hands
<1> QED BY <1>1, <1>2 DEF Hands

\* A thread goes on.
LEMMA TendsPrev ==
  ASSUME CalmInv, PrevInv, Tends, Same(k, k') \/ k.cur = Shell
  PROVE  PrevInv'
<1>1. CASE Same(k, k')
  BY <1>1, PrevFacts DEF Same, Tends, PrevInv
<1>2. CASE k.cur = Shell /\ Buries(k, k')
  <2>1. PICK c \in k.live \ {Shell} : k.status[c] = "ZOMBIE" /\ Pruned(k, k', c)
    BY <1>2 DEF Buries
  <2>2. k'.live = k.live \ {c} /\ k'.parent = k.parent /\ k'.status = k.status
    BY <1>2, <2>1 DEF Pruned, Buries
  <2>3. k.prevfg = Shell /\ k.prevcur # c
    BY <1>2, <2>1, PrevFacts DEF PrevInv
  <2> QED BY <1>2, <2>1, <2>2, <2>3, PrevFacts DEF PrevInv, Tends
<1> QED BY <1>1, <1>2 DEF Tends

\* A thread is created.
LEMMA CreatePrev ==
  ASSUME CalmInv, PrevInv, NEW prog, NEW p \in Pid, p = Shell \/ kind[p] = "zombify",
         prog # "orphanify", kind \in [Pid -> Kind], Brings(p, prog)
  PROVE  PrevInv'
<1> DEFINE b == k.count
<1>1. /\ k'.live = k.live \cup {b}
      /\ \A x \in Pid : k'.parent[x] = IF x = b THEN p ELSE k.parent[x]
      /\ \A x \in Pid : k'.status[x] = IF x = b THEN "READY" ELSE k.status[x]
  <2>1. k.parent \in [Pid -> Ptr] /\ k.status \in [Pid -> Status]
    BY FitTypes DEF CalmInv, Fit
  <2> QED BY <2>1 DEF Brings, Born
<1>2. \A x \in Pid : kind'[x] = IF x = b THEN prog ELSE kind[x]
  BY DEF Brings
<1>3. b \in Pid \ k.live /\ k'.prevcur = b /\ k'.prevfg = k.prevfg /\ p \in k.live
  BY DEF Brings
<1> HIDE DEF b
<1>4. ASSUME NEW x \in k'.live \ {Shell}
      PROVE  k'.parent[x] = Shell \/ kind'[k'.parent[x]] = "zombify"
  <2>1. CASE x = b
    BY <1>1, <1>2, <1>3, <2>1
  <2>2. CASE x # b
    <3>1. x \in k.live \ {Shell} /\ x \in Pid /\ k.parent[x] \in k.live
      BY <1>1, <2>2, PrevFacts
    <3>2. k.parent[x] \in Pid /\ k.parent[x] # b
      BY <1>3, <3>1, PrevFacts
    <3> QED BY <1>1, <1>2, <2>2, <3>1, <3>2 DEF PrevInv
  <2> QED BY <2>1, <2>2
<1>5. \A x \in Pid : kind'[x] # "orphanify"
  BY <1>2 DEF PrevInv
<1>6. k'.prevfg \in k'.live /\ k'.prevcur \in k'.live /\ k'.status[k'.prevcur] # "ZOMBIE"
  BY <1>1, <1>3 DEF PrevInv
<1> QED BY <1>4, <1>5, <1>6 DEF PrevInv

LEMMA ProgramPrev ==
  ASSUME Calm, Inv(FALSE), Aware, CalmInv, CalmInv', PrevInv, Sound(k)', NEW p \in Pid,
         Program(p)
  PROVE  PrevInv'
<1>1. CASE ProgramSpawns(p)
  <2>1. kind[p] = "zombify" /\ kind \in [Pid -> Kind]
    BY <1>1 DEF ProgramSpawns, PrevInv, Inv, TypeOK
  <2>2. PICK prog \in ChildKind : Brings(p, prog)
    BY <1>1, ProgramSpawnsCalm
  <2> QED BY <2>1, <2>2, CreatePrev DEF ChildKind
<1>2. CASE ProgramSetsGround(p)
  BY <1>2, GroundCalm, TendsPrev
<1>3. CASE SleepSets(p)
  BY <1>3, SleepsNot
<1>4. CASE SleepSwitches(p)
  BY <1>4, SleepsNot
<1>5. CASE Returns(p)
  <2>1. Hands /\ p \in k.live \ {Shell} /\ Goes(k, k', p)
    BY <1>5, ReturnsCalm
  <2>2. kind[p] # "zombify"
    BY <1>5 DEF Returns, PrevInv
  <2>3. \A x \in k.live : k.parent[x] # p
    BY <2>1, <2>2, PrevFacts, PidsAreNats DEF PrevInv
  <2>4. k'.live = k.live /\ k'.parent = k.parent
    BY <2>1, <2>3 DEF Goes, Perished
  <2> QED BY <2>1, <2>4, HandsPrev
<1> QED BY <1>1, <1>2, <1>3, <1>4, <1>5 DEF Program

LEMMA PrevNext ==
  ASSUME Calm, "orphanify" \notin Programs, Inv(FALSE), Aware, CalmInv, PrevInv, [Next]_vars
  PROVE  PrevInv'
<1>1. Sound(k)' /\ kind \in [Pid -> Kind] /\ CalmInv'
  BY NextAware, NextCalm DEF Aware, Inv, TypeOK
<1>2. CASE Tick
  BY <1>1, <1>2, TickCalm, HandsPrev DEF Same
<1>3. CASE \E p \in Pid : Program(p)
  BY <1>1, <1>3, ProgramPrev
<1>4. CASE ShellBlocks
  BY <1>1, <1>4, BlocksCalm, HandsPrev DEF Same
<1>5. CASE ShellStarts \/ ShellSetsGround \/ ShellReports \/ ShellFindsNone \/ ShellLoops
           \/ ShellPolls \/ ShellFg \/ ShellLogout
  <2>1. \E pc : Running(Shell, pc)
    BY <1>5 DEF ShellStarts, ShellSetsGround, ShellReports, ShellFindsNone, ShellLoops,
                ShellPolls, ShellFg, ShellLogout
  <2>2. k.cur = Shell
    BY <2>1, ShellAt
  <2>3. Tends
    BY <1>1, <1>5, StartsCalm, SetsGroundCalm, ReportsCalm, FindsNoneCalm, LoopsCalm,
       PollsCalm, FgCalm, LogoutCalm
  <2> QED BY <2>2, <2>3, TendsPrev
<1>6. CASE ShellSpawns
  <2>1. PICK prog \in Programs : Brings(Shell, prog)
    BY <1>6, ShellSpawnsCalm
  <2> QED BY <1>1, <2>1, PidsAreNats, CreatePrev
<1>7. CASE ShellNices
  BY <1>7 DEF ShellNices, Calm
<1>8. CASE UNCHANGED vars \/ Stopped
  <2>1. UNCHANGED vars
    BY <1>8 DEF Stopped
  <2> QED BY <2>1 DEF vars, PrevInv
<1> QED BY <1>2, <1>3, <1>4, <1>5, <1>6, <1>7, <1>8
        DEF Next, ShellProceeds, ShellWaits, ShellCommand

LEMMA InitPrev == Init => PrevInv
<1> SUFFICES ASSUME Init PROVE PrevInv
  OBVIOUS
<1>1. CalmInv /\ k = Scheduler(Boot) /\ Boot.live = {Shell} /\ Boot.prevcur = Shell
      /\ Boot.prevfg = Shell /\ Boot.how = "TIMEOUT"
  BY InitCalm, BootFields DEF Init, Clean
<1>2. Heirs(Boot, k) /\ Chose(Boot, k)
  BY <1>1, BootFit, BootSound, TimeoutFit, SchedulerSound
<1>3. k.live = {Shell} /\ k.prevfg \in {Shell, k.cur} /\ k.prevcur \in {Shell, k.cur}
      /\ (k.cur = NULL => k.prevfg = Shell /\ k.prevcur = Shell)
  <2>1. k.live = {Shell}
    BY <1>1, <1>2 DEF Heirs
  <2> QED BY <1>1, <1>2, <2>1, PidsAreNats DEF Chose, Runs
<1>4. k.cur \in {NULL, Shell} /\ k.status[Shell] # "ZOMBIE"
  BY <1>1, <1>3, PrevFacts
<1>5. \A p \in Pid : kind[p] # "orphanify"
  BY DEF Init
<1> QED BY <1>3, <1>4, <1>5 DEF PrevInv

\* prev_fg and prev_cur, through which p_wait, p_sleep and the signal handlers find
\* "their" process, point to memory that is allocated, unless a program ends before
\* its child does.
THEOREM PrevStayLive ==
  ASSUME Calm, "orphanify" \notin Programs
  PROVE  Spec => []PrevAreLive
<1>1. PrevInv => PrevAreLive
  BY DEF PrevInv, PrevAreLive
<1>2. PrevInv /\ (Inv(FALSE) /\ Aware /\ CalmInv) /\ [Next]_vars => PrevInv'
  BY PrevNext
<1> QED BY <1>1, <1>2, InitPrev, AlwaysCalm, PTL DEF Spec
=============================================================================
