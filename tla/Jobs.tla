-------------------------------- MODULE Jobs --------------------------------
(* The shell's list of jobs: jobs.c, and the loop of shell.c that keeps     *)
(* head and current_job.  Processes are what the shell sees of them through *)
(* p_wait and p_kill; which line of input means which command is the matter *)
(* of CommandLine.                                                          *)
(*                                                                          *)
(* A struct Job is named by the program it was created for.  list is what   *)
(* the next fields link from head on, nodes what is allocated.  The two may *)
(* differ: the shell frees the head and keeps it as the head, a ghost.      *)
(* free() writes over the first fields, up to last_modified_counter; the    *)
(* rest is there until the memory is given out again, and from then on what *)
(* the shell does is undefined (pc).                                        *)
EXTENDS Integers, FiniteSets, SequencesExt

CONSTANTS MaxJobs,    \* bound: programs started
          Commands,   \* what the user may type
          Garbage     \* numbers that freed, or fresh, memory may hold

NoJob  == 0
NoArg  == 0           \* fg or bg without an argument
BadArg == -1          \* ... with one that atoi turns into 0
FG == TRUE
BG == FALSE

ASSUME JobsAssumption ==
    /\ MaxJobs \in Nat
    /\ Garbage \subseteq Nat
    /\ Commands \subseteq [do : {"none", "crash", "leave", "run", "fg", "bg"},
                           arg : Int, ground : BOOLEAN, sleeps : BOOLEAN]

Program == 1..MaxJobs

VARIABLES
    list,      \* the jobs from head on
    nodes,     \* the struct Jobs that are allocated
    job,       \* job[p]: current_job_number, bool_type and status of p's node
    older,     \* <<p, q>>: p's last_modified_counter is below q's
    current,   \* current_job
    job_count, \* the job that the clean-up loop is at
    proc,      \* proc[p]: the process of p, as p_wait and p_kill know it
    started,   \* programs started so far
    pc         \* where the shell is in its loop

vars == <<list, nodes, job, older, current, job_count, proc, started, pc>>

\* logout, a dereference of NULL, a use of memory that has been given out again
Over == {"left", "crashed", "undefined"}

JTypeOK ==
    /\ list \in Seq(Program)
    /\ nodes \subseteq Program
    /\ job \in [Program -> [num : Nat, ground : BOOLEAN,
                            status : {"running", "stopped", "done"}]]
    /\ older \subseteq Program \X Program
    /\ current \in Program \cup {NoJob}
    /\ job_count \in Program \cup {NoJob}
    /\ proc \in [Program ->
                   [st : {"none", "run", "stopped", "lost", "ended", "reaped"},
                    changed : BOOLEAN, flag : BOOLEAN, sleeps : BOOLEAN]]
    /\ started \in 0..MaxJobs
    /\ pc \in {"top", "clean", "prompt", "wait", "fgcont", "bgcont"} \cup Over

Unused == [num |-> 0, ground |-> BG, status |-> "running"]

Init ==
    /\ list = <<>> /\ nodes = {} /\ older = {}
    /\ job = [p \in Program |-> Unused]
    /\ proc = [p \in Program |-> [st |-> "none", changed |-> FALSE,
                                  flag |-> FALSE, sleeps |-> FALSE]]
    /\ current = NoJob /\ job_count = NoJob /\ started = 0 /\ pc = "top"

Listed == {list[i] : i \in 1..Len(list)}

\* older without what it says of p, and when p has the latest counter.
Apart(p) == {e \in older : p \notin {e[1], e[2]}}
Touched(p) == Apart(p) \cup ((Listed \ {p}) \X {p})
-----------------------------------------------------------------------------
(* The processes.  A program that returns has ended, unless a ^Z has left   *)
(* its signal_flag set: then it stays READY and is in no queue.  ^C ends,    *)
(* and ^Z stops, the job the shell waits for.  A sleeper is taken to have    *)
(* ended when it goes to sleep, and is READY once more later.                *)
ShellKeeps == <<list, nodes, job, older, current, job_count, started, pc>>

Awaited(p) == pc \in {"wait", "fgcont"} /\ current = p

Ends(p) ==
    /\ proc[p].st = "run" /\ pc \notin Over
    /\ ~proc[p].flag \/ Awaited(p)
    /\ proc' = [proc EXCEPT ![p].st = "ended", ![p].changed = TRUE]
    /\ UNCHANGED ShellKeeps

GetsLost(p) ==
    /\ proc[p].st = "run" /\ proc[p].flag /\ pc \notin Over
    /\ proc' = [proc EXCEPT ![p].st = "lost"]
    /\ UNCHANGED ShellKeeps

Wakes(p) ==
    /\ proc[p].st = "ended" /\ proc[p].sleeps /\ pc \notin Over
    /\ proc' = [proc EXCEPT ![p].st = "run", ![p].sleeps = FALSE]
    /\ UNCHANGED ShellKeeps

Stops(p) ==
    /\ proc[p].st = "run" /\ Awaited(p)
    /\ proc' = [proc EXCEPT ![p].st = "stopped", ![p].changed = TRUE,
                            ![p].flag = TRUE]
    /\ UNCHANGED ShellKeeps

\* find_PCB_pid, or k_get_process_pid, finds p in a run queue, where p_sleep
\* has put a sleeper before it is taken to have ended.
Findable(p) ==
    \/ proc[p].st \in {"run", "stopped"}
    \/ proc[p].st = "ended" /\ proc[p].sleeps

\* p_kill(pid, S_SIGCONT)
Continued(p) ==
    IF proc[p].st = "stopped"
    THEN [proc EXCEPT ![p].st = "run", ![p].changed = TRUE] ELSE proc

Gone == [st |-> "reaped", changed |-> FALSE, flag |-> FALSE, sleeps |-> FALSE]

\* p_wait has a report on p; an ended child is given up with it.
Reported(p) ==
    IF proc[p].st = "ended" THEN Gone ELSE [proc[p] EXCEPT !.changed = FALSE]
-----------------------------------------------------------------------------
(* jobs.c                                                                    *)
Num(l, i) == job[l[i]].num

\* Where add_job's walk stops, which starts at the second job: at the end, or
\* before a hole in the numbers.
WalkStops(l, i) ==
    /\ i \in 2..Len(l)
    /\ i = Len(l) \/ Num(l, i) - Num(l, i + 1) # -1
    /\ \A j \in 2..(i - 1) : Num(l, j) - Num(l, j + 1) = -1

\* The places behind which add_job links the new node: at most one.  It looks
\* for a hole by a difference that is negative where there is one.
PlaceBehind(l) ==
    IF l = <<>> \/ Num(l, 1) > 1 THEN {0}
    ELSE IF Len(l) = 1 THEN {1}
    ELSE {i \in 2..Len(l) : /\ WalkStops(l, i)
                            /\ i = Len(l) \/ Num(l, i) - Num(l, i + 1) > 1}

\* Mutant of NewNumber: the number of the place.
NewNumber_Counts(l, i) == i + 1

NewNumber(l, i) ==
    IF i = 0 THEN 1 ELSE IF Len(l) = 1 THEN 2 ELSE Num(l, i) + 1

\* p's new node is linked and numbered, or neither.
AddJob(p, ground) ==
    LET Node(n) == [num |-> n, ground |-> ground, status |-> "running"] IN
    /\ nodes' = nodes \cup {p}
    /\ \/ \E i \in PlaceBehind(list) :
            /\ list' = InsertAt(list, i + 1, p)
            /\ job' = [job EXCEPT ![p] = Node(NewNumber(list, i))]
       \/ /\ PlaceBehind(list) = {} /\ UNCHANGED list
          /\ \E g \in Garbage : job' = [job EXCEPT ![p] = Node(g)]

\* Mutant of RemovedAt: the node behind the one that was found.
RemovedAt_Next(l, num) ==
    IF num = 1 THEN {1}
    ELSE {i \in 3..Len(l) : /\ Num(l, i - 1) = num
                            /\ \A j \in 2..(i - 2) : Num(l, j) # num}

\* The place remove_job_index removes from, if any: number 1 is the head; any
\* other number is looked for behind the head.
RemovedAt(l, num) ==
    IF num = 1 THEN {1}
    ELSE {i \in 2..Len(l) : /\ Num(l, i) = num
                            /\ \A j \in 2..(i - 1) : Num(l, j) # num}

\* Mutant of Unlinks: the place is cleared, and stays.
Unlinks_Clears(i) ==
    /\ list' = [list EXCEPT ![i] = NoJob]
    /\ job' = [job EXCEPT ![list[i]] = Unused]
    /\ older' = Apart(list[i])

\* The node at place i is unlinked.
Unlinks(i) ==
    /\ list' = RemoveAt(list, i)
    /\ job' = [job EXCEPT ![list[i]] = Unused]
    /\ older' = Apart(list[i])

\* The node at place i is freed, and the shell goes on; a ghost is freed twice.
Frees(i, to) ==
    /\ nodes' = nodes \ {list[i]}
    /\ pc' = IF list[i] \in nodes THEN to ELSE "undefined"

\* head = remove_job_index(head, num), and the clean-up goes on with next.
RemoveJobIndex(num, next) ==
    \/ \E i \in RemovedAt(list, num) :
         Unlinks(i) /\ Frees(i, IF list[i] = next THEN "undefined" ELSE pc)
    \/ RemovedAt(list, num) = {} /\ UNCHANGED <<list, nodes, job, older, pc>>

\* remove_job_index(head, num), the result dropped: head still points to the
\* node when that was the first.
DropJobIndex(num) ==
    \/ \E i \in RemovedAt(list, num) :
         /\ Frees(i, "top")
         /\ IF i > 1 THEN Unlinks(i)
            ELSE /\ \E g \in Garbage : job' = [job EXCEPT ![list[1]].num = g]
                 /\ older' \in {older, Touched(list[1])}
                 /\ UNCHANGED list
    \/ /\ RemovedAt(list, num) = {}
       /\ pc' = "top" /\ UNCHANGED <<list, nodes, job, older>>
-----------------------------------------------------------------------------
(* The top of the loop: p_wait(NOHANG) for each job, then the clean-up.      *)

Precedes(p, q) ==
    \E i, j \in 1..Len(list) : i < j /\ list[i] = p /\ list[j] = q

\* Mutant of Polled: the first job without a report ends the round.
Polled_UpToFirst ==
    {p \in Listed : /\ proc[p].changed
                    /\ \A q \in Listed : Precedes(q, p) => proc[q].changed}

Polled == {p \in Listed : proc[p].changed}

PolledStatus(p) ==
    CASE proc[p].st = "ended" -> "done"
      [] proc[p].st = "stopped" -> "stopped"
      [] OTHER -> "running"

\* The message on a job that has stopped or continued is printed through
\* current_job.  A ghost's memory may have been given out again.
PollLeadsTo(hits) ==
    LET prints == \E p \in hits : proc[p].st # "ended"
    IN  IF prints /\ current = NoJob THEN {"crashed"}
        ELSE IF prints /\ current \notin nodes THEN {"undefined"}
        ELSE IF Listed \subseteq nodes THEN {"clean"}
        ELSE {"clean", "undefined"}

\* The jobs with a report are modified one after the other.
PolledLast ==
    {e \in older : {e[1], e[2]} \cap Polled = {}}
      \cup {e \in Listed \X Polled :
              e[1] \notin Polled \/ Precedes(e[1], e[2])}

FirstJob(l) == IF l = <<>> THEN NoJob ELSE l[1]

Poll ==
    /\ pc = "top"
    /\ job' = [p \in Program |->
                 IF p \in Polled
                 THEN [job[p] EXCEPT !.status = PolledStatus(p)] ELSE job[p]]
    /\ proc' = [p \in Program |->
                  IF p \in Polled THEN Reported(p) ELSE proc[p]]
    /\ older' = PolledLast
    /\ pc' \in PollLeadsTo(Polled)
    /\ job_count' = FirstJob(list)
    /\ UNCHANGED <<list, nodes, current, started>>

\* Mutant of NextJob: the job behind one that is removed is skipped.
NextJob_Skips(p) ==
    LET i == CHOOSE n \in 1..Len(list) : list[n] = p
        j == IF job[p].status = "done" THEN i + 2 ELSE i + 1
    IN  IF j > Len(list) THEN NoJob ELSE list[j]

\* job_count->next, read before job_count's job is removed.
NextJob(p) ==
    LET i == CHOOSE n \in 1..Len(list) : list[n] = p
    IN  IF i = Len(list) THEN NoJob ELSE list[i + 1]

Finished(p) == job[p].status = "done" /\ job[p].ground = BG

CleanUp ==
    /\ pc = "clean" /\ job_count # NoJob
    /\ job_count' = NextJob(job_count)
    /\ IF Finished(job_count)
       THEN RemoveJobIndex(job[job_count].num, NextJob(job_count))
       ELSE UNCHANGED <<list, nodes, job, older, pc>>
    /\ UNCHANGED <<current, proc, started>>

Prompts ==
    /\ pc = "clean" /\ job_count = NoJob
    /\ pc' = "prompt"
    /\ UNCHANGED <<list, nodes, job, older, current, job_count, proc, started>>

Top == Poll \/ CleanUp \/ Prompts
-----------------------------------------------------------------------------
(* A line of input.                                                          *)
At(place) == pc = place /\ UNCHANGED <<job_count, started>>

SetStatus(p, status, ground) ==
    job' = [job EXCEPT ![p].status = status, ![p].ground = ground]

\* A program is spawned: the shell waits for it, or, after an &, goes on.
Run(ground, sleeps) ==
    LET p == started + 1 IN
    /\ pc = "prompt" /\ started < MaxJobs
    /\ started' = p
    /\ proc' = [proc EXCEPT ![p].st = "run", ![p].sleeps = sleeps]
    /\ AddJob(p, ground)
    /\ older' = Touched(p)
    /\ current' = p
    /\ pc' = IF ground = FG THEN "wait" ELSE "top"
    /\ UNCHANGED job_count

\* The job a command names by its number.
Numbered(n) ==
    {list[i] : i \in {m \in 1..Len(list) :
                        /\ Num(list, m) = n
                        /\ \A j \in 1..(m - 1) : Num(list, j) # n}}

\* The jobs of S with the highest last_modified_counter: one, unless S is empty.
Latest(S) == {p \in S : \A q \in S : <<p, q>> \notin older}

StoppedJobs == {p \in Listed : job[p].status = "stopped"}

\* fg: the job given by its number, or the one stopped last, or else the one
\* modified last.
FgCandidates(arg) ==
    IF arg # NoArg THEN Numbered(arg)
    ELSE IF StoppedJobs # {} THEN Latest(StoppedJobs) ELSE Latest(Listed)

\* Only without an argument is a stopped job sent SIGCONT.
Restarts(arg) == arg = NoArg /\ StoppedJobs # {}

Fg(arg) ==
    \E p \in FgCandidates(arg) :
       /\ At("prompt")
       /\ SetStatus(p, "running", FG)
       /\ current' = p
       /\ older' = Touched(p)
       /\ IF ~Findable(p) THEN pc' = "top" /\ UNCHANGED proc
          ELSE IF Restarts(arg) THEN pc' = "fgcont" /\ proc' = Continued(p)
          ELSE pc' = "wait" /\ UNCHANGED proc
       /\ UNCHANGED <<list, nodes>>

BgCandidates(arg) ==
    IF arg # NoArg THEN Numbered(arg)
    ELSE Latest({p \in StoppedJobs : job[p].ground = BG})

\* Mutant of Resumes: the process is, the job is not.
Resumes_Quietly(p) == proc' = Continued(p) /\ UNCHANGED job
Resumes(p) ==
    proc' = Continued(p) /\ SetStatus(p, "running", job[p].ground)

\* bg: a stopped job is restarted, the message on any other names it.
Bg(arg) ==
    \E p \in BgCandidates(arg) :
       /\ At("prompt")
       /\ current' = p
       /\ IF job[p].status = "stopped"
          THEN /\ Resumes(p)
               /\ older' = Touched(p)
               /\ pc' = IF Findable(p) THEN "bgcont" ELSE "crashed"
          ELSE pc' = "top" /\ UNCHANGED <<job, older, proc>>
       /\ UNCHANGED <<list, nodes>>

NoCandidate(do, arg) ==
    /\ At("prompt")
    /\ \/ do = "fg" /\ FgCandidates(arg) = {} /\ UNCHANGED current
       \/ do = "bg" /\ BgCandidates(arg) = {} /\ current' = NoJob
    /\ pc' = "top"
    /\ UNCHANGED <<list, nodes, job, older, proc>>

\* What has no effect on jobs; logout; a line the shell does not survive.
Other(do) ==
    /\ At("prompt")
    /\ \/ do = "none" /\ pc' = "top"
       \/ do = "leave" /\ pc' = "left"
       \/ do = "crash" /\ pc' = "crashed"
    /\ UNCHANGED <<list, nodes, job, older, current, proc>>

Command(c) ==
    \/ c.do = "run" /\ Run(c.ground, c.sleeps)
    \/ c.do = "fg" /\ Fg(c.arg)
    \/ c.do = "bg" /\ Bg(c.arg)
    \/ NoCandidate(c.do, c.arg)
    \/ Other(c.do)

\* "do not want immediate trigger": a step after SIGCONT.
ClearsChanged ==
    /\ pc \in {"fgcont", "bgcont"}
    /\ proc' = [proc EXCEPT ![current].changed = FALSE]
    /\ pc' = IF pc = "fgcont" THEN "wait" ELSE "top"
    /\ UNCHANGED <<list, nodes, job, older, current, job_count, started>>

\* p_wait(HANG) on the job in the foreground.
WaitReturns ==
    /\ At("wait")
    /\ proc[current].changed
    /\ proc' = [proc EXCEPT ![current] = Reported(current)]
    /\ \/ /\ proc[current].st = "ended"
          /\ DropJobIndex(job[current].num)
          /\ current' = NoJob
       \/ /\ proc[current].st = "stopped"
          /\ SetStatus(current, "stopped", BG)
          /\ older' = Touched(current)
          /\ pc' = "top"
          /\ UNCHANGED <<list, nodes, current>>
       \/ /\ proc[current].st \notin {"ended", "stopped"}
          /\ pc' = "top"
          /\ UNCHANGED <<list, nodes, job, older, current>>

\* The shell is gone, or waits for what may never come.
Halted == pc \in Over \cup {"wait"} /\ UNCHANGED vars

Next ==
    \/ \E p \in Program : Ends(p) \/ GetsLost(p) \/ Wakes(p) \/ Stops(p)
    \/ Top \/ WaitReturns \/ ClearsChanged
    \/ \E c \in Commands : Command(c)
    \/ Halted

Spec == Init /\ [][Next]_vars
FairSpec == Spec /\ WF_vars(Top)
-----------------------------------------------------------------------------
(* No ghost is in the list. *)
Intact == Listed \subseteq nodes

\* The list is in the order of the numbers, and no number is given twice: what
\* add_job's search for a hole, and fg %n, rely on (jobs.c).
NumbersAscend ==
    Intact /\ pc # "undefined" =>
       \A i, j \in 1..Len(list) : i < j => Num(list, i) < Num(list, j)

\* At the prompt a job is stopped where its process is, and in the background:
\* the shell's record and the kernel's agree after any ^Z, fg and bg.
StatusAgrees ==
    pc = "prompt" =>
       \A p \in Listed \cap nodes :
          /\ job[p].status = "stopped" <=> proc[p].st = "stopped"
          /\ job[p].status = "stopped" => job[p].ground = BG

\* The clean-up leaves no finished background job in the list but one at the
\* head whose number is not 1, which remove_job_index does not find.
FinishedAtHead ==
    pc = "prompt" =>
       \A i \in 1..Len(list) :
          job[list[i]].status = "done" /\ job[list[i]].ground = BG
             => i = 1 /\ Num(list, i) # 1

Unfinished(p) == proc[p].st \in {"run", "stopped", "lost"}

\* No program drops out of the list before it has ended, ghosts or not, and a
\* new one is listed unless add_job finds no place for it: the shell can then
\* neither restart nor reap it.  It finds none only where the numbers have a
\* hole behind the second job, or behind a ghost (jobs.c, line 85).
LiveStayListed ==
    [][\A p \in Program :
         /\ Unfinished(p) /\ p \in Listed => p \in Listed'
         /\ started < p /\ started' = p
              => \/ p \in Listed'
                 \/ \E i \in 2..(Len(list) - 1) :
                       Num(list, i + 1) # Num(list, i) + 1]_vars

\* As long as the shell comes back to its prompt, a listed program that has
\* ended is reaped, or wakes: no zombie stays (shell.c, line 434).
EndedAreReaped ==
    \A p \in Program :
       []<>(pc = "top") =>
          ((p \in Listed /\ proc[p].st = "ended") ~> proc[p].st # "ended")

\* "job terminates so we just remove it form job queue" (shell.c, line 1370):
\* at the prompt the list holds jobs, and not what has been freed.
HeadIsAllocated == pc = "prompt" => Intact
=============================================================================
