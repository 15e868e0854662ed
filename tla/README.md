# PennOS in TLA+

PennOS is a user-level operating system in C: processes are `ucontext`
coroutines, a 100 ms timer signal preempts them, a scheduler picks from three
priority queues, a shell spawns programs, waits for them and keeps a list of
jobs, and a flat file system lives in one host file. This directory models the
kernel, the user-level calls, the terminal signals, the shell's job list and
the reading of its lines, and the file system; it checks the models with TLC and
proves most of what is checked of the kernel, of the job list and of the file
system with TLAPS.

## 1. Inventory

| Component | State it keeps | Operations | What makes it correct |
|---|---|---|---|
| **PCBs and queues** `pcb.c` | lists through one shared field `next`; `parent_pcb`, `child_list` | `create_PCB`, `add_PCB`, `add_to_head`, `remove_PCB`, `add_child_PCB`, `remove_child_PCB`, `find_*` | a block is in one list, lists end, no list leads into freed memory, parent and child list agree |
| **Kernel** `kernel_functions.c` | heads of the queues -1, 0, 1 and of the zombies, `cur_pcb`, `prev_fg`, `prev_cur`, `how_finished`, `timer_mod`, `pid_count` | `k_process_create/kill/terminate/nice/swap_to_scheduler`, `scheduler`, `timer_interrupt` | ready processes are queued, get the CPU, wake their parent when they end, are not run after it |
| **User calls** `user_functions.c` | frames of the calls | `p_spawn`, `p_wait`, `p_kill`, `p_nice`, `p_sleep`, `zombify`, `orphanify` | a wait ends when the child has changed; a sleeping process comes back |
| **Shell** `shell.c` | `pid`, `current_job`, `job_count`, the names of redirections | its loop: polling, clean-up, a line of input, spawn, foreground wait, `fg`, `bg`, `nice_pid`, `logout` | every job is waited for, a stopped job is restarted before it is waited for |
| **Job list** `jobs.c` | `head`, the nodes, their numbers and counters | `create_job`, `add_job`, `remove_job_index`, `free_job` | the list is ordered by number, holds every live job, and says of each what the kernel says |
| **Tokenizer, syntax check** `tokenizer.c`, `shell.c` | a cursor | `get_next_token`, `has_ampersand`, `check_input`, the six cases of redirections | a command is read as it is written |
| **Terminal signals** `shell.c` | `signal_flag`, `prev_fg` | `signal_handler` for `^C`, `^Z` | they reach the foreground job and never the shell |
| **FAT** `fs/fat.c` | 256 links on disk | `find_free_block`, `free_blocks`, `get/set_next_block` | chains are disjoint, end, hold no free block |
| **Directory** `fs/directory.c` | list of files in memory, its encoding in block 0's chain | load, export, add, remove, truncate, read, write | disk and memory agree; what is on disk is what was written |
| **Descriptors** `fs/descriptors.c` | one table of 64 slots, nodes with cursors | `get_new_fd`, `remove_fd_node` | an open file stays |
| **File calls** `fs/filesystem.c` | none of its own | `f_open`, `f_read`, `f_write`, `f_close`, `f_unlink`, `f_dup2`, `f_dup_reset`, `f_touch`, `f_rm`, `f_cat`, `f_ls` | as above, on a full disk, with several programs, after a restart |
| **FAT tools** `execs/`, **errors** `errors.c` | none | print or make an image | - |

How they interact: the shell and the programs call the user calls, which call
the kernel; `p_wait` and `p_sleep` enter the scheduler through `swapcontext`, a
program that returns enters it through `uc_link`, the timer handler and the
signal handlers enter it through `setcontext` or `swapcontext`. All of them
work on the same globals without any lock. The job list is the shell's alone; it
learns of processes through `p_wait` only. The shell opens and dups
descriptors for a process that is queued already; since `TEST_MODE` is `TRUE`
there is one descriptor table for the whole system.

What is hard here: the timer may preempt the shell between a scan and the block
that relies on it; all lists share one `next`; every kernel call edits several
lists and pointers kept elsewhere (`prev_fg`, `prev_cur`, `child_list`);
signals find the "current" process through globals that may be a step behind;
the shell frees the head of its job list and keeps the pointer; its record of a
job and the kernel's change at different times; the disk may fill in the middle
of a write; files are removed while they are open; the system may end at any
moment. `PROJECT.json` lists the hazards line by line, with the properties for
each.

## 2. Modules

| Module | Models | EXTENDS |
|---|---|---|
| `Pcb` | `pcb.c`: the list and tree operations on a record `k`, the kernel's memory | `Integers`, `Sequences`, `FiniteSets` |
| `Kernel` | `kernel_functions.c`: each call is an operator from memory to memory | `Pcb` |
| `PennOS` | user calls, the shell as a process, timer: the running system | `Kernel` |
| `Lifecycle` | abstract: what the life of a process may look like | - |
| `Terminal` | `^C`, `^Z`, `fg` and `bg` on stopped jobs, composed with `PennOS` | `PennOS` |
| `Jobs` | `jobs.c` and the shell's loop around it | - |
| `CommandLine` | `tokenizer.c`, `has_ampersand`, `check_input`, redirections | - |
| `Shell` | which line is which command: the two composed | `Jobs`, `CommandLine` |
| `FileSystem` | `fs/` and the redirections of the shell | - |
| `Files` | abstract: what becomes of a file, in memory and on disk | - |
| `MCPennOS`, `MCTerminal`, `MCShell`, `MCFileSystem` | instances for TLC | the module they are named for |
| `KernelProofs` | types, and the shell's safety, through each kernel call | `Kernel` |
| `ListProofs` | walks end, through each list operation and kernel call | `KernelProofs` |
| `QueueProofs` | every process where it belongs, through each kernel call | `ListProofs` |
| `PennOSProofs` | theorems about `PennOS` for all programs | `PennOS`, `ListProofs` |
| `CalmProofs` | theorems about `PennOS` without `nice_pid`, `sleep`, recycled memory | `PennOSProofs`, `QueueProofs` |
| `TerminalProofs` | the types of `Terminal` | `Terminal`, `PennOSProofs` |
| `JobsProofs` | theorems about `Jobs` | `Jobs` |
| `FileSystemProofs` | theorems about `FileSystem` | `FileSystem` |

Definitions keep the code's names in TLA+'s spelling: `KProcessKill` is
`k_process_kill`, `FDup2` is `f_dup2`. `PROJECT.json` maps each to its lines.
Definitions called `X_Something`, directly before an `X`, are mutants of `X`:
bugs the code could plausibly have, which a property must notice.

**`Pcb`, `Kernel`.** One record `k` holds every field of every block
(`k.next[p]`, `k.status[p]`, ...) and the kernel's globals. A block is the number
it is given as pid; 0 is `NULL`. `k.live` is what is allocated. Freed memory
keeps its contents until `create_PCB` uses it again; a fresh block's `next`,
which `create_PCB` does not set, is `NULL` or, when `malloc` recycles memory
(`Recycled`), what a freed block left in it. A
dereference of `NULL` sets `k.fault`, and the system stops. `Members(k, q)`
is what a walk from the head of queue `q` visits; it is defined as a least
closed set and not by recursion, so that it can be proved about.

**`PennOS`.** `run` is the thread on the CPU and where in its code it is; it is
kept apart from `k.cur`, the kernel's belief, and `swapcontext` stores it in
`k.ctx`. A kernel call is one step. The points at which the model lets the timer
preempt inside a user call are those where something depends on it: in
`p_spawn` between creating and setting `ground`, in `p_wait` between the scan
and the block, in `p_sleep` between setting the time and switching, in `fg` and
`bg` between SIGCONT and `changed = FALSE`. A program is what it does to the
kernel: `busy` never ends, `short` (ls, cat, touch, rm, ps, history) returns,
`sleep`, `zombify` and `orphanify` are modelled call by call. Here the job list
is over-approximated: any process the shell has spawned may be its subject.

**`Terminal`** adds the handler as actions that may run between any two steps
of `PennOS`, and the steps of `fg` and `bg` on a stopped job. `astray` is a
history variable: a key at the prompt has once continued the shell while another
process, or none, had the CPU (the finding of `prompt_key`). `JobsAreQueued` and
`PromptSparesJobs` speak of the system as long as that has not happened.

**`Lifecycle`** knows neither queues nor scheduler: processes are spawned,
change, end, are reaped, and one that ends takes its descendants with it.
`PennOS` implements it (`LifecycleHolds`) under the mapping that forgets
everything but `status`, allocation and `parent_pcb`.

**`Jobs`** is the other half of the shell: exact about the list, coarse about
processes, of which it keeps what `p_wait` and `p_kill` show (`proc`). A
`struct Job` is named by the program it was made for.

- `list` is what the `next` fields link from `head` on, `nodes` what is
  allocated. They differ after `remove_job_index(head, 1)` with its result
  dropped: the freed node stays the head, a *ghost*, and `free` may have written
  over its number (`Garbage`) and its counter. Once memory has been given out
  again the shell's next use of the ghost is `pc = "undefined"`, and nothing is
  claimed of what follows. `"crashed"` is a dereference of `NULL`, `"left"` is
  logout.
- `older` orders the jobs by `last_modified_counter`, which is all that the
  counter is compared for.
- `AddJob`, `RemoveJobIndex` and `DropJobIndex` follow the walks of `jobs.c`,
  the difference of the wrong sign in the search for a hole included: with a
  hole behind the second job the new node gets neither a place nor a number.
- The clean-up is a step per job, because it goes on with a pointer read before
  the removal. Processes end, stop and wake between any two steps of the shell.
- A process that has been stopped by `^Z` keeps its `signal_flag`; when it
  returns later it is `"lost"`, as `Terminal` shows. One that sleeps is taken to
  have ended and runs once more; until it is reaped, `fg` finds it, because it is
  still in its run queue.

**`CommandLine`** reads a line symbol by symbol: a symbol is a word, a blank, a
delimiter or the newline, and a word stands for its letters. `Tokens` is the
repeated call of `get_next_token`, `Seen` the fold that is `check_input`'s loop,
`Redirected` the six cases of the shell. `ReadsAsWritten` is the reference: all
ways to write a command with its redirections, and what each must be read as.
**`Shell`** says which command a line amounts to (`Meaning`) and instantiates
`Commands` of `Jobs` by it, so that a run of `MCShell` types lines and not
commands.

**`FileSystem`.** `sys` is all that `f_` calls change: `fat`, `dir` and
`dirSize` on disk; `files`, `slot` and `node` in memory. The directory is kept
unit by unit (a header of one unit, two per entry), because the interesting case
is an entry cut in two by a full disk; what files contain is left out. `Chain`
is, as `Members` of `Pcb`, a least closed set: the blocks that `get_next_block`
leads to, which are those that no set closed under it can be without. The shell's
`input_file` and `output_file`, which nothing initializes in a round of its loop,
keep their names from line to line, so a plain line may be redirected to what an
earlier one named. An `f_` call is one step, of the shell or of a program, and
they interleave. `Kill` ends a program between two calls,
`Restart` the system: memory is lost and `LoadFileList` reads the disk. Waiting
for a foreground program only makes the shell slower, so it is not modelled
here.

**`Files`** knows neither blocks nor list, descriptors or programs, only how long
each file is in memory (`size`) and on disk (`saved`), how many descriptors name it
(`held`), and whether it goes when it is closed (`doomed`). A file that is held
goes only when it is doomed and is shortened only by being opened; only a holder
writes; and after each step the disk has what memory has, or no block is free
and the disk never had the file. A restart finds what was saved. `FileSystem`
implements it (`FilesAsPromised`).

## 3. Runs

| Run | Bounds, distinct states | Question, and answer |
|---|---|---|
| `core` | 3 pids, the real slices 4/10/19; 14 249 | Shell, foreground and background programs under the timer. The zombie queue stays apart (`ZombiesAreApart`), the kernel knows who runs (`CpuIsCur`), the shell waits only for its own unreaped children (`WaitTargetIsChild`), nothing dereferences `NULL` (`NoCrash`), no pointer outlives its block (`PrevAreLive`). Under fairness everyone who is ready runs (`EveryoneRuns`) programs that return are over some day (`ProgramsEnd`), and the shell that waits for one hears of it (`WaitsAreAnswered`), unless it ends just before the shell blocks. |
| `families` | 4 pids; 129 632 | Processes with children end. No list leads into freed memory, nobody who is ready is lost, `parent_pcb` and `child_list` stay one tree of three levels; `Lifecycle` is implemented. |
| `moves` | 3 pids, 2 ticks, one priority; 191 228 | `nice_pid` moves anyone at any moment, sleepers are woken where they are, and a new block's `next` is what a freed one left. Lists run into one another, but every walk ends (`WalksEnd`); what has ended stays reported, the shell survives, `prev_fg` follows the foreground. |
| `terminal` | 3 pids, 3 keys; 390 228 | `^C`, `^Z` at any moment, `fg`, `bg`. Stopped jobs, and ready ones that no `^Z` has flagged, are where SIGCONT and the scheduler find them (`JobsAreQueued`), and in no other queue (`QueuedByPriority`); keys at the prompt leave jobs alone. |
| `jobs` | 3 programs, all lines of up to 4 symbols; 778 256 | The shell's record of a job agrees with the kernel's at the prompt (`StatusAgrees`); the clean-up leaves a finished background job only as a head with another number than 1 (`FinishedAtHead`); lines are read as written. |
| `shell` | 5 programs, lines of up to 2 symbols; 576 926 | Every case of `add_job`. Numbers ascend, no live program drops out of the list (`LiveStayListed`), and every ended one is reaped as long as the shell comes back to its prompt (`EndedAreReaped`). |
| `files` | 2 names, 2 programs, 4 blocks of 2 units, 2 free descriptors; 369 391 | Commands with redirections until disk and descriptors are full, `rm` against open files, restarts anywhere. Chains stay apart and long enough, output never overwrites, no block is forgotten, disk and memory agree unless the disk is full, no file goes from under a descriptor; `Files` is implemented (`FilesAsPromised`). |
| `lost_wakeup` | 3 pids | *Violated*: the child ends between `p_wait`'s scan and its block; the shell blocks on a child that has changed. |
| `prompt_key` | 3 pids, 1 key | *Violated*: `^C` at the prompt while a background job has the CPU continues the shell in that job's place; the shell's next wait makes the job, which never returns, a zombie. |
| `stale_next` | 5 pids, recycled memory | *Violated*: a block freed from the middle of the zombie queue keeps its `next`; the process that gets the memory leads the scheduler into a freed block. |
| `fg_forgets` | 2 pids, 2 keys | *Violated*: `^C` ends a job between the SIGCONT of `fg` and the line that clears `changed`; the shell waits for it for ever. |
| `job_head` | 1 program | *Violated*: a foreground program that ends as the first job leaves freed memory as the head of the list. |

The five violations are the findings of `PROJECT.json`, each with the comment it
contradicts.

Where a property is checked matters. `ZombiesAreApart`, `CpuIsCur`,
`ListsAreLive`, `ReadyAreQueued` and `QueuedByPriority` do not hold once
`nice_pid` moves a process, a program sleeps, or `malloc` recycles blocks: a stale
`next` splices a run queue into the zombie queue, and a sleeper is a zombie that
comes back. It takes a fourth or a fifth process to see some of these failures,
so a small run with `nice_pid` that passed would show nothing; the properties
are checked in `core`, `families` and `terminal`, which have none of the three,
and there they are proved for any number of processes (section 4). This is a
limit of the code and not of the runs. `PrevAreLive` also needs
programs without `orphanify`: the end of a parent frees the child that may be
`prev_cur`. `moves` has all three, for what survives them.
`PromptSparesJobs` allows one change: a key at the prompt makes
`prev_fg`, which is usually the shell, `READY` when it is `BLOCKED`, whoever it
is. `WaitsAreAnswered` excepts the one moment in which `p_wait` loses the wake-up
(`ChangedTooLate`, which `lost_wakeup` shows); a child that ends at any other
moment of the wait, before the scan, while the shell is blocked or while it is
ready again, is reaped. `LiveStayListed` excepts a new program for which `add_job` finds no place,
which the code does with a hole in the numbers.

**Bounds and why they are enough.** `MaxPid` bounds the processes ever spawned:
3 give a shell with a foreground and a background job, 4 a shell with a
process that has children next to another job. `OneLast`, `ZeroLast`, `Cycle` are
the time slices; only `core` and `lost_wakeup` have the real 4, 10 and 19, since
what the queues do does not depend on how long a turn lasts; the others use 1, 2
and 3, in which every queue has its turn. `Ticks` and `MaxSleep` stand for
`ticks * 10`. `MaxKeys` bounds the signals: three suffice for a stop, a second
stop and a kill, or for a key while the handling of the first is in progress.

In `Jobs`, `MaxJobs` bounds the programs ever started: a hole behind the second
job that `add_job` meets takes a list of three, one of them gone, and a ghost in
front of it, which is why `shell` has five; `jobs` has three and all commands
instead. `Garbage` is {0, 9} in the runs: what `free` leaves is 0 or a
number that no job has. (Were it the number of another job, `remove_job_index`
would take that job off the list in the ghost's place; `FinishedAtHead` and
`LiveStayListed` are not claimed for such memory, the other theorems hold for any.) Lines of four symbols hold
a command, an argument, a redirection's operator and `&`. The writings that
`ReadsAsWritten` goes through are not bounded by that: `cat` and `rm f`, each
with any redirections among two files, `&`, and every spacing.

In `FileSystem`, `LastBlock`, `BlockSize` and `LastFd` replace 255, 1024 and 63:
one file takes the directory to its second block and two to its third, a write
of 3 units crosses blocks of 2, and two free descriptors are what one command
with both redirections takes. `MaxOpen` bounds `open_fds`, which only grows: no
further command once the counts add up to more. In `files` it is 0, so between
two restarts no command starts once a file has been opened: what interleaves is
the program of a command that has opened nothing and one with any redirections,
and longer histories come about through the restarts, which set the counts to 0
and keep the disk. The theorems have no such bound. `StaleStarts` is `Kept` in the
run: `remove_file` reads `start_block` from a node it has freed, and the run
assumes that the allocator has not written there. With any other value the wrong
chain is freed, and with `StaleStarts <- Blocks` TLC finds `ChainsApart` violated; so `NoBlockForgotten` and `ChainsApart` are claims
about such allocators only, and most present installations have another: since
2.29, glibc's `free` puts the key of the tcache into bytes 8 to 15 of what is freed, and
`start_block` is byte 12 of a `FILE_NODE`. Symmetry is used over file names and programs of
`FileSystem`, which no definition tells apart; its properties are safety
properties.

**Fairness.** `TimerFair`: the interval timer goes off again and again while the
system runs. `ThreadFair`: a thread that is given the CPU again and again, at an
instruction it can execute, executes it; 100 ms are many instructions. This is
strong fairness of each thread's steps, because the timer takes the CPU away in
between. Nothing is assumed of the user: the shell at its prompt need not read a
command. The two are written as the `WF` and `SF` they are with `ENABLED`
spelled out, which TLC evaluates much faster. `Jobs` assumes `WF_vars(Top)`: the
polling and the clean-up at the top of the shell's loop need no input and wait for
nobody, and `core` shows that the shell, being ready, runs. Neither the user's
next line nor the end of a foreground program is assumed; `EndedAreReaped` has
`[]<>(pc = "top")`, that the shell comes back, as its premise.

## 4. Proofs

| Theorem | States | For every |
|---|---|---|
| `TypeCorrect` | `Spec => []TypeOK` | number of processes, slices, programs, with `nice_pid`, `sleep`, recycled memory |
| `ShellIsSafe` | `Spec => []ShellSurvives` | the same |
| `ListWalksEnd` | `Spec => []WalksEnd` | the same |
| `DeadIsReported` | `Spec => []DeadAreChanged` | the same |
| `TerminalTypeCorrect` | `TSpec => []TTypeOK` | the same, and any keys |
| `ZombiesStayApart`, `ListsStayLive`, `NobodyIsLost`, `QueueIsPriority` | `Calm`: `[]ZombiesAreApart`, `[]ListsAreLive`, `[]ReadyAreQueued`, `[]QueuedByPriority` | number of processes, slices, programs but `sleep` |
| `FamilyStaysTree`, `ThreeLevels` | `Calm`: `[]FamilyIsTree`, `[]TreeShape` | the same |
| `CurRuns`, `NeverCrashes`, `WaitsForChild`, `PrevFgFollows` | `Calm`: `[]CpuIsCur`, `[]NoCrash`, `[]WaitTargetIsChild`, `[]PrevFgIsCur` | the same |
| `LivesAsPromised` | `Calm`: `Spec => LifecycleHolds`, the refinement | the same |
| `PrevStayLive` | `Calm`: `[]PrevAreLive` | the same, but `orphanify` |
| `JobsTypeCorrect`, `JobsAscend`, `JobsStatusAgrees` | `Spec => []JTypeOK`, `[]NumbersAscend`, `[]StatusAgrees` of `Jobs` | number of programs, commands, contents of freed memory |
| `FinishedStayAtHead`, `LiveProgramsListed` | `Plain`: `Spec => []FinishedAtHead`, `Spec => LiveStayListed` of `Jobs`, the second an action property | number of programs, commands |
| `FTypeCorrect`, `ChainsStayApart`, `ChainsStayLong`, `DirectoryIsList`, `NamedFilesStay`, `OutputAppends` | `FreedIntact`: `Spec => []FTypeOK`, `[]ChainsApart`, `[]ChainsHoldSize`, `[]RecordedUnlessFull`, `[]OpenFilesStay`, `[]WritesAtEnd` of `FileSystem` | number of blocks, their size, the descriptors, buffers, finite set of names, set of programs |
| `BlocksAreKept` | `FreedIntact`: `Spec => NoBlockForgotten`, an action property | the same |
| `FilesKeepPromise` | `FreedIntact`: `Spec => FilesAsPromised`, the refinement of `Files` | the same |

They rest on the named assumptions on the constants (`ASSUME` in `Pcb`, `Kernel`,
`PennOS`, `Terminal`, `Jobs`, `FileSystem`), which TLC evaluates in every run, and, where the
table says so, on `Calm`:

    Calm == Priorities = {} /\ "sleep" \notin Programs /\ Recycled = FALSE

that is, nobody calls `nice_pid` or `p_sleep` and `malloc` hands out memory that
is clear. `Calm` is a hypothesis about the use of the system and not about its
states; `core` and `families` satisfy it. None of the three can be dropped: with
any one of them TLC finds the queues run into one another (`stale_next` is the
run for the third), because all of them let a block that stands in the middle of
one queue keep its `next` when it enters another. The shell, its programs, their
children, every interleaving with the timer, and any number of processes ending
in any order remain.

The theorems about the file system have `FreedIntact == StaleStarts \subseteq
{Intact}` as their hypothesis: `remove_file` reads `start_block` of the node it
has just freed, and finds there what it was. It is a hypothesis about the
allocator; `files` satisfies it. glibc does up to 2.28 and does not since (section
3): there the theorems say what the code would do if `remove_file` read
`start_block` before it frees the node. With other values that may be read TLC
finds `ChainsApart` violated, since the chain that is freed is then another file's
or the directory's.

`Plain(g) == g \in Nat /\ MaxJobs < g /\ Garbage \subseteq {0, g}` is the hypothesis
of the last two theorems about `Jobs`: the number in a freed node is 0 or one
`g` above every job's. `free` puts a link into the first eight bytes of a node,
and `current_job_number` is the upper half of them: 0 when the link is `NULL`, and
otherwise the upper half of an address on the heap, which is the same for all
nodes. `jobs` and `shell` satisfy it with `g = 9`. An allocator that encodes its
links (glibc since 2.32) may leave small numbers; a job may then have the number
of a ghost in front of it, and `remove_job_index` takes the ghost.

**Types and the shell.** `TypeOK` is not inductive: the scheduler keeps the types
only if it is entered with `prev_fg` and `prev_cur` pointing to blocks and with
`timer_mod` inside its cycle, and the shell is safe only as long as nobody has
it as a child. `Inv(safe)` is `TypeOK` with `OnCpu`: memory is `Good` (of its type
and, when `safe`, `Rooted`: the shell is allocated, has not terminated, has no
parent and is in no child list), `prev_fg` and `prev_cur` are blocks, `run` is a
place in a thread or idle (then `cur_pcb` is `NULL`) or the end, and before the
end memory is `Resting`: `how_finished` is back to `NORMAL` and `timer_mod`
below `Cycle`.
`safe` is a parameter because signals void the second half: `^C` can reach the
shell, so `TerminalProofs` reuses the same lemmas with `safe` false.
`KernelProofs` has a lemma per kernel operator, from good memory to good memory;
`PennOSProofs` and `TerminalProofs` a step per action.

**Walks end.** Lists may share tails, so nothing simpler than this is an
invariant: every set of blocks that is not empty has a member whose `next` is
outside the set (`Ends`). It says that `next` has no cycle without walking, so
no induction over lists is needed. `ListProofs` carries it through `add_PCB`,
`remove_PCB` and each kernel call, together with `Known`: no pointer leads to a
block that has not been created, which is why a new block can be put anywhere.
`Told`, that whoever is dead has `changed` set, goes through the same lemmas;
`Sound` memory is the conjunction of all, and `Aware` adds the pointers in the
threads' frames. Every operation that terminates sets the flag, and the one
place that clears flags (`Reported`) clears those of who is freed or alive.

**Everybody in place.** `Fit(k, c)` describes a memory in which `c` has been taken
off its queue to run. `Placed`: the zombie queue has exactly the zombies, queue
-1 the shell and queue 0 the other ready processes, but for `c`; `next` of `c`, and
of blocks that are still to be created, is `NULL`, which is what keeps the lists apart when
such a block is put behind another. `Settled`: outside the terminating calls a process
is ready or a zombie, and only the shell may be blocked. `Tree`:
`parent_pcb` and `child_list` are one tree of three levels. `Barren`: whoever has
terminated has no children. `Fore` relates `prev_fg` to the foreground; `Threads`
says of each thread what its frame and its place in the code must be for the
next kernel call to be made on the right block, in particular that a shell which
waits does so for its own child, not reaped yet. `CalmInv` is their conjunction.
`QueueProofs` has a lemma per operator: which members each queue has after it,
and that memory is fit again when the call returns. In between
`k_process_kill` and `remove_PCB` leave it unfit in known ways, which have
names of their own. `CalmProofs` has a lemma per action, and the theorems. TLC
checked `CalmInv` on the constants of `families` before it was proved, and
`PrevInv`, which adds what `PrevAreLive` needs, with `busy`, `short` and
`zombify`.

**The refinement.** Each action is shown to be one of four things to lives:
nothing (`Same`), a birth (`Bears`), an end with all descendants (`Loses`), a
burial (`Buries`). `SameLives`, `BearsLives`, `LosesLives` and `BuriesLives` map
them to a stutter or a step of `Lifecycle`. The third is the deep one: the set that
`Lifecycle` takes away with a process is its descendants by the transitive closure
of `parent`, and `k_process_kill` and `k_process_terminate` take them one by one.

**The job list.** `JTypeOK` needs to know where the clean-up and the waiting
shell are: `IInv` adds `Loop` (the clean-up is at a job of the list or at its
end; a shell that waits has a current job and a list that is not empty),
`Past` (nodes belong to programs that have been started, so a new one is in no
list yet) and `NumbersAscend` itself. The heart is `AddJobKeeps`: wherever
`add_job` links a node, its number lies between the neighbours', because the walk
stops at the first hole from the second job on, and where the wrong sign makes
it refuse the node the list does not change. `RemoveAtPlaces`,
`InsertAtLength` and `InsertAtPlace` say what the two sequence operators do,
place by place. `StatusAgrees` speaks of the prompt only; `Agree` strengthens it to the rest of
the loop: every listed job is in step with its process (stopped together, and
then in the background), except the one the shell is waiting for, which it has
marked as running. There is a lemma per action for each of the two invariants.

**The list with ghosts.** `FinishedAtHead` and `LiveStayListed` are about every list
the shell can have, and not only about one without ghosts; what they need is that
`remove_job_index`, which knows a job by its number only, takes the job it is
meant to take. With ghosts the numbers do not ascend. `Shaped` says how
they run, as a predicate on a length, a set of places and a function, so that
its lemmas are about numbers alone: the ghosts are at the head, behind each other,
but for a job 1 that has come to stand in front of them (`Fronted`); a ghost's number
is `g`, or 0 at the very head (`Haunted`), because a ghost with 0 in front would
have the next job numbered 1 in front of it; a job's number is at most the number
of programs started or, counted on from a ghost in front of it, above `g`
(`Counted`); the large ones come before the small ones, and both ascend
(`Sorted`). `ShapedApart` draws the conclusion: no other place has a job's number.
`RemoveShaped`, `FreeShaped` and `InsertShaped` carry the shape through the three
things the code does to the list, `GivenFits` shows that whatever place and number
`add_job` chooses fits into it. `Kept` is the invariant: the shape; `Unlinked` (a
job that `add_job` had no place for has the number 0 or `g`, so its removal finds
nothing, or frees a ghost again, after which nothing is promised); `Fates` (what is
freed or done has been reaped and has nothing more to report, so `p_wait` never
speaks of a ghost); and `Swept`, which turns `FinishedAtHead` into a statement
about the middle of the clean-up: whatever is finished is still to come, or is a
head that cannot be found. TLC checked `Kept` for 6 programs, and for 8 by
simulation, before it was proved.

**The file system.** None of the first seven properties is inductive, and no one of
them can be proved without the others: that a write keeps chains apart needs the
FAT to be sound for the directory too, since the write of a file is followed by
that of the directory; that a removed file is nobody's needs the counts; that
output goes to the end needs to know whose a descriptor is. `FInv` is all of it:

- `Body`: names and first blocks in the list are distinct, the chains of the
  directory and of the files are disjoint, each ends in a block that names itself
  (so a chain holds no free block: it would hold block 0 as well), sizes fit into
  chains, and the directory has room for all files but one. The last is what makes
  `export_file_list` succeed after a removal or a write: only a new file can
  leave the directory short.
- `Agrees`: the directory is the list or, on a full disk, its beginning, up to an
  entry cut in two.
- `Held`: a file's count is at least the number of the nodes that name it.
  `f_close` lowers it only for a file that is marked, which is why there is
  no equality. `Nodes`: those that name a file are live. `Free`: a slot past the
  terminal's is empty or leads to its own node, and the node of an empty slot is
  not live, so a call that opens a file adds exactly one holder.
- `Slots`: slot 3 and up hold their own node or nothing; stdin and stdout hold
  the terminal's or such a node, and not the same. `ShellOwns` and `ProgsOwn`: a
  descriptor that the shell has opened and not yet passed to `f_dup2`, or a
  program and not yet closed, is nobody else's. Without them a `touch` could close
  the file another program's output goes to.
- `Ends`: whenever the shell can redirect, stdout is the terminal; the
  descriptor it is about to dup there, and the one that is there, are at the end of
  their files. It is kept by a write of another program because all programs
  write through slot 1, and by a truncation because no redirection is opened
  while slot 1 holds a file.

The lemmas go from the bottom up: what following, growing (`GrowKeeps`), starting
(`BeginKeeps`), cutting and freeing (`CutKeeps`, `FreeKeeps`) chains does to a FAT
whose chains are apart; `WriteKeeps` for `write_to_file`, with what it says it
has written; `Exported` for the directory; then a lemma per `f_` function
(`FileIsOpened`, `FileClosed`, `FileUnlinked`, `Advanced`, `FileAppended`, `FdDuped`,
`FdsReset`, `RemountedCore`), each from a sound system to a sound system with
the same blocks in use or free (`Used`), and a lemma per action. `Used` is what
`BlocksAreKept` follows from. `Chain` being a least closed set, two chains are
compared by showing that each is closed under the links of the other, without
induction. TLC checked the invariant on the constants of `files` before it was
proved.

**The refinement of `Files`** needs no further invariant, but each lemma about a
call has to say what the call does to every file, seen by name: it is listed or
not (`Listed`), so long (`Length`), marked, has so many holders (`Holds`), and has
an entry on disk (`OnRecord`). `Rests`, `Makes`, `Opens`, `Writes`, `Dooms`, `Drops`
and `Sheds` are the things that may happen to one file, and `Fares` says that one
of them happens to each, and that no file that stays loses its entry (`Saves`).
`Closes` is the part of it that calls in a row keep (`ClosesTwice`): the prompt's
`f_dup_reset` closes three descriptors in one step, of one file or of two. Each action is shown to be such a step, or the restart;
`FaresAsPromised` and `SavedAsPromised` then read the steps of `Files` off, the
second from `Agrees`: what has no entry has none because no block is free.
`RestartAsPromised` is the restart.

**Only model-checked.** The liveness properties (`EveryoneRuns`, `ProgramsEnd`,
`WaitsAreAnswered`, `EndedAreReaped`) and whatever uses `ENABLED` are beyond the prover; so is
anything about the RECURSIVE operators of `CommandLine` (`ParsedAsWritten`), which
is why `Jobs` is a module apart from it.
`PrevFgIsCur` holds in `moves` too, but is proved under `Calm` only: without it
the scheduler may meet a foreground child in a queue that has run into another
one. `JobsAreQueued` and `PromptSparesJobs` of `Terminal` have not been proved:
once ^Z has stopped a program, the scheduler takes it out of the middle of a queue
and its block keeps its `next`, so with four or more programs the queues need
not stay apart, which is what the inductive invariant of the other components
rests on. Both are checked on the instance `terminal` only.

## 5. What is not modelled

- Preemption inside a kernel or `f_` call. The code has it, nothing blocks the
  signals; the model has only the preemption points named above.
- The capacity of `child_list`, which is always reallocated with 16 entries: the
  seventeenth child is written behind it.
- The write of a line's tokens past their array when there is an input
  redirection only (`shell.c`, line 1038); lines of 1024 characters and more.
- Messages, and what `man`, `ps`, `history`, `jobs`, `lsFlatFAT` and
  `catFlatFAT` print; the history list.
- `p_wait(-1)`, `p_exit`, `f_lseek`, `f_reset`, `f_randchars`,
  `free_filesystem`, `update_status`, `update_ground_type`: no command calls them.
- `f_ls`'s pointer into the list of files between two writes: `ls` writes an
  arbitrary number of lines.
- Logging, stacks, the freeing at shutdown, errors of the host's system calls.
- What files contain.
- `^C` and `^Z` at the prompt when the saved point of `prev_fg` lies in a call
  that has returned since, or, once the shell has gone astray, in any call
  (`Resumable`): a return into a frame that is no more.
- The mode of a descriptor. `f_write` fails on one opened for reading, but
  programs write through descriptor 1 only, which is never a copy of such a one.

Known and not shown by a run: `fg %n` on a stopped job sends no SIGCONT and waits
for it (`ShellFg`, `shell.c`, line 698); `f_close` lowers `open_fds` only for a
marked file, so after one `touch` a file cannot be removed before a restart,
although `filesystem.h`, line 166, says the removal only waits for open
descriptors; `^C` at a moment when `prev_fg` is the shell while
`pid` is a job, right after the spawn or when the shell scans in `p_wait`, ends
the shell itself (no text says what must happen); descriptors
opened for redirections are never closed, so 61 redirections use the table up; a
background program loses its redirection at the next prompt, because
`f_dup_reset` works on the one table of all; `p_sleep` is taken for a return, so
a sleeper is a zombie and its end is reported when it goes to sleep.

## 6. Plan

Done, in this order: `Pcb`, `Kernel`, `PennOS`, `Lifecycle`, `Terminal`, the
proofs of types and of the shell's safety, `FileSystem`; `CommandLine`, `Jobs`,
`Shell`, the proofs about the job list, its ghosts included; the proofs about queues, the tree of
processes and the refinement of `Lifecycle`; the proofs about the file system, and
`Files`, which it implements.

1. **Split calls.** `f_open`, `f_ls` and the exports in steps (two programs
   choosing one free block, a restart between two writes), and preempted list
   operations in `Kernel`.
2. **`Jobs` on `PennOS`**: the job list in place of the over-approximated one,
   with `proc` as the refinement mapping between the two.
3. **`ChildList`**: the array under `child_list` with its capacity.
4. **Proofs**: `JobsAreQueued` of `Terminal`, for which `Fit` has to allow for
   stopped processes.
