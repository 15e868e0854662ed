----------------------------- MODULE FileSystem -----------------------------
(* The flat file system under the shell: fs/fat.c, fs/directory.c,          *)
(* fs/descriptors.c and fs/filesystem.c, driven as shell.c drives them.     *)
(*                                                                          *)
(* sys is everything the f_ functions change: the FAT and the directory     *)
(* file on disk, the list of files and the one descriptor table (TEST_MODE  *)
(* is TRUE) in memory.  Sizes are in units: the directory's header is one   *)
(* unit, the encoding of a file two (its name; its size and first block).   *)
(* What a file's bytes say is left out.  A call of an f_ function is one    *)
(* step; calls of the shell and of its programs interleave.                 *)
EXTENDS Integers, FiniteSets, FiniteSetsExt, SequencesExt

CONSTANTS Names,      \* the file names commands use
          NoName,     \* the NULL fname of a terminal descriptor
          Programs,   \* the slots for programs alive at once
          LastBlock,  \* FAT_SIZE - 1
          BlockSize,  \* BLOCK_SIZE
          LastFd,     \* FD_LIST_SIZE - 1
          BufferSize, \* CAT_BUFFER_SIZE
          Lengths,    \* how much a line typed, or one f_write of ls, may be
          StaleStarts, \* what a start_block read from a freed node may be
          MaxOpen     \* bound: no command once open_fds add up to more

ASSUME NamesAssumption == IsFiniteSet(Names) /\ NoName \notin Names
ASSUME SizeAssumption ==
    /\ LastBlock \in Nat \ {0}
    /\ BlockSize \in Nat \ {0}
    /\ BufferSize \in Nat \ {0}
    /\ Lengths \subseteq 1..BufferSize
    /\ LastFd \in Nat /\ LastFd > 2

Blocks    == 0..LastBlock
Fds       == 0..LastFd
DirBlock  == 0
MinFreeFd == 3
Std       == 0..2
Failed    == -1
NoFd      == -1
Intact    == -1
Header    == 1
EntrySize == 2
MaxDirSize == EntrySize * Cardinality(Names)

\* start_block is an unsigned char, and FAT_SIZE is 256.
ASSUME StaleAssumption == StaleStarts \subseteq Blocks \cup {Intact}

VARIABLES sys, shell, prog
vars == <<sys, shell, prog>>
-----------------------------------------------------------------------------
(* fat.c: a chain of blocks ends in the block that names itself; FREE and   *)
(* the directory's first block share the number 0.                          *)

FreeBlocks(fat) == {b \in Blocks \ {DirBlock} : fat[b] = 0}

FindFreeBlock(fat) ==
    IF FreeBlocks(fat) = {} THEN DirBlock ELSE Min(FreeBlocks(fat))

\* The blocks that get_next_block leads to from start: those that a set which
\* holds start and, with any block, the next one cannot be without.
Chain(fat, start) ==
    {b \in Blocks : \A S \in SUBSET (Blocks \ {b}) :
                      start \in S => \E c \in S : fat[c] \notin S}

ChainEnd(fat, start) == CHOOSE b \in Chain(fat, start) : fat[b] = b

FreeChain(fat, start) ==
    LET chain == Chain(fat, start)
    IN  [b \in Blocks |-> IF b \in chain THEN 0 ELSE fat[b]]

\* find_free_block n times, each block found linked behind the one before.
Grow(fat, tail, n) ==
    LET taken == {b \in FreeBlocks(fat) :
                    Cardinality({c \in FreeBlocks(fat) : c <= b}) <= n}
        After(b) == {c \in taken : c > b \/ b = tail}
    IN  [b \in Blocks |-> IF b \notin taken \cup {tail} THEN fat[b]
                          ELSE IF After(b) = {} THEN b ELSE Min(After(b))]
-----------------------------------------------------------------------------
(* directory.c                                                              *)

\* How many blocks n units at offset `at' take, and how many of them there are.
Wanted(fat, start, at, n) ==
    Max({0, (at + n - 1) \div BlockSize + 1 - Cardinality(Chain(fat, start))})
Taken(fat, start, at, n) ==
    Min({Wanted(fat, start, at, n), Cardinality(FreeBlocks(fat))})

\* Mutant of WriteToFile: it claims all of n even when the disk is full.
WriteToFile_ClaimsAll(fat, start, at, n) ==
    [fat |-> Grow(fat, ChainEnd(fat, start), Taken(fat, start, at, n)), done |-> n]

\* write_to_file: n units at offset `at' of the chain of `start'.  Blocks are
\* taken while there are any; what does not fit is not written, and when not
\* even the first unit has a block the call fails.
WriteToFile(fat, start, at, n) ==
    LET taken == Taken(fat, start, at, n)
        room  == (Cardinality(Chain(fat, start)) + taken) * BlockSize
    IN  [fat  |-> Grow(fat, ChainEnd(fat, start), taken),
         done |-> IF at >= room THEN Failed ELSE Min({n, room - at})]

OnDisk(f) == [name |-> f.name, size |-> f.size, start |-> f.start]
NoUnit    == [name |-> NoName, size |-> 0, start |-> 0]

\* export_file for each file of `list', from offset `at' of the directory on
\* (consecutive writes, so one), then update_dir_size.  The old entries past
\* the new end are left out of dir: nothing reads them again.
Export(s, at, list) ==
    LET w   == WriteToFile(s.fat, DirBlock, Header + at, EntrySize * Len(list))
        end == IF list = <<>> THEN at ELSE at + Max({0, w.done})
    IN  [s EXCEPT
           !.fat = IF list = <<>> THEN @ ELSE w.fat,
           !.dir = [o \in DOMAIN @ |->
                      IF o < at THEN @[o]
                      ELSE IF o < end
                      THEN OnDisk(list[(o - at) \div EntrySize + 1])
                      ELSE NoUnit],
           !.dirSize = end]

ExportFileList(s) == Export(s, 0, s.files)

NewFile(name, size, start) ==
    [name |-> name, size |-> size, start |-> start,
     open |-> 0, marked |-> FALSE]

\* An entry's name is its first unit, its size and first block its second.
LoadFileList(s) ==
    [i \in 1..(s.dirSize \div EntrySize) |->
        LET o == (i - 1) * EntrySize
        IN  NewFile(s.dir[o].name, s.dir[o + 1].size, s.dir[o + 1].start)]

FindFile(s, name) == SelectInSeq(s.files, LAMBDA f : f.name = name)

AddFile(s, file) ==
    Export([s EXCEPT !.files = Append(@, file)], s.dirSize, <<file>>)

\* Mutant of RemoveFile: the FAT is not updated.
RemoveFile_KeepsBlocks(s, i, stale) ==
    ExportFileList([s EXCEPT !.files = RemoveAt(@, i)])

\* remove_file reads start_block from the node it has just freed: an
\* allocator that keeps its own data there makes it any byte.
RemoveFile(s, i, stale) ==
    LET t == ExportFileList([s EXCEPT !.files = RemoveAt(@, i)])
    IN  [t EXCEPT !.fat =
            FreeChain(@, IF stale = Intact THEN s.files[i].start ELSE stale)]

\* Mutant of TruncateFile: the first block is freed with the others.
TruncateFile_FreesStart(s, i) ==
    ExportFileList([s EXCEPT !.files[i].size = 0,
                             !.fat = FreeChain(@, s.files[i].start)])

TruncateFile(s, i) ==
    LET start == s.files[i].start
    IN  ExportFileList([s EXCEPT
            !.files[i].size = 0,
            !.fat = [FreeChain(@, start) EXCEPT ![start] = start]])
-----------------------------------------------------------------------------
(* descriptors.c: slot is the table, node the FD_NODE allocated for the     *)
(* descriptor of the same number; f_dup2 lets two slots share a node.       *)

Blank == [live |-> FALSE, name |-> NoName, cursor |-> 0]
Dummy == [Blank EXCEPT !.live = TRUE]

FindFreeFd(s) ==
    LET free == {fd \in Fds : fd >= MinFreeFd /\ s.slot[fd] = NoFd}
    IN  IF free = {} THEN Failed ELSE Min(free)

InitFdList(s) ==
    [s EXCEPT !.slot = [fd \in Fds |-> IF fd \in Std THEN fd ELSE NoFd],
              !.node = [fd \in Fds |-> IF fd \in Std THEN Dummy ELSE Blank]]

\* create_fd_node and set_fd_node for the file at place i.
SetFdNode(s, fd, i, cursor) ==
    [s EXCEPT !.slot[fd] = fd,
              !.node[fd] = [live |-> TRUE, name |-> s.files[i].name,
                            cursor |-> cursor],
              !.files[i].open = @ + 1]

\* The node goes at the first close: its own open_fds is never raised.
RemoveFdNode(s, fd) ==
    [s EXCEPT !.slot[fd] = NoFd, !.node[s.slot[fd]] = Blank]
-----------------------------------------------------------------------------
(* filesystem.c                                                             *)

\* The file of a descriptor's node, 0 when it is the terminal.
FileOf(s, fd) == FindFile(s, s.node[s.slot[fd]].name)

\* A file is created before a descriptor for it is looked for.
Create(s, name) ==
    LET b == FindFreeBlock(s.fat)
    IN  AddFile([s EXCEPT !.fat[b] = b], NewFile(name, 0, b))

\* Mutant of CanCreate: the result of find_free_block is not looked at.
CanCreate_Always(s) == TRUE

CanCreate(s) == FindFreeBlock(s.fat) # DirBlock

\* Mutant of Opened: F_APPEND leaves the cursor at the start.
Opened_AppendsAtStart(s, name, mode) ==
    LET fd == FindFreeFd(s)
        i  == FindFile(s, name)
    IN  IF fd = Failed THEN s
        ELSE CASE mode # "write" -> SetFdNode(s, fd, i, 0)
               [] mode = "write" -> TruncateFile(SetFdNode(s, fd, i, 0), i)

Opened(s, name, mode) ==
    LET fd == FindFreeFd(s)
        i  == FindFile(s, name)
    IN  IF fd = Failed THEN s
        ELSE CASE mode = "append" -> SetFdNode(s, fd, i, s.files[i].size)
               [] mode = "read"   -> SetFdNode(s, fd, i, 0)
               [] mode = "write"  -> TruncateFile(SetFdNode(s, fd, i, 0), i)

\* f_open: the state after, and the descriptor it returns.
FOpen(s, name, mode) ==
    IF FindFile(s, name) # 0
    THEN [sys |-> Opened(s, name, mode), fd |-> FindFreeFd(s)]
    ELSE IF mode = "read" \/ ~CanCreate(s)
    THEN [sys |-> s, fd |-> Failed]
    ELSE [sys |-> Opened(Create(s, name), name, mode), fd |-> FindFreeFd(s)]

\* The count of a file falls only when it is marked for deletion.
FClose(s, fd, stale) ==
    IF s.slot[fd] = NoFd THEN s
    ELSE LET i == FileOf(s, fd)
             t == RemoveFdNode(s, fd)
         IN  IF i = 0 \/ ~s.files[i].marked THEN t
             ELSE IF s.files[i].open = 1 THEN RemoveFile(t, i, stale)
             ELSE [t EXCEPT !.files[i].open = @ - 1]

\* Mutant of FUnlink: open descriptors do not delay the removal.
FUnlink_AtOnce(s, name, stale) ==
    LET i == FindFile(s, name)
    IN  IF i = 0 THEN s ELSE ExportFileList(RemoveFile(s, i, stale))

FUnlink(s, name, stale) ==
    LET i == FindFile(s, name)
    IN  IF i = 0 THEN s
        ELSE IF s.files[i].open = 0
        THEN ExportFileList(RemoveFile(s, i, stale))
        ELSE [s EXCEPT !.files[i].marked = TRUE]

\* How much f_read gets from a file; the terminal gives what it likes.
Readable(s, fd) ==
    LET f == s.files[FileOf(s, fd)]
    IN  Min({BufferSize, Max({0, f.size - s.node[s.slot[fd]].cursor})})

Advance(s, fd, n) == [s EXCEPT !.node[s.slot[fd]].cursor = @ + n]

\* Mutant of FWrite: the new size stays in memory.
FWrite_NoExport(s, fd, n) ==
    LET i  == FileOf(s, fd)
        at == s.node[s.slot[fd]].cursor
        w  == WriteToFile(s.fat, s.files[i].start, at, n)
        end == at + Max({0, w.done})
    IN  IF i = 0 THEN [sys |-> s, done |-> n]
        ELSE [sys |-> [s EXCEPT !.fat = w.fat,
                                !.node[s.slot[fd]].cursor = end,
                                !.files[i].size = Max({@, end})],
              done |-> w.done]

\* f_write to a file; a hole before the cursor is written with it.  (Left out:
\* F_READ, which fails.  Programs write through descriptor 1, and what f_dup2
\* puts there was opened for writing or appending.)
FWrite(s, fd, n) ==
    LET i == FileOf(s, fd)
        f == s.files[i]
        cursor == s.node[s.slot[fd]].cursor
        at == Min({f.size, cursor})
        w  == WriteToFile(s.fat, f.start, at, n + cursor - at)
        end == IF w.done = Failed THEN cursor ELSE at + w.done
    IN  IF i = 0 THEN [sys |-> s, done |-> n]
        ELSE [sys |-> ExportFileList([s EXCEPT
                        !.fat = w.fat,
                        !.node[s.slot[fd]].cursor = end,
                        !.files[i].size = Max({@, end})]),
              done |-> w.done]

FDup2(s, old, new, stale) ==
    IF old = Failed \/ s.slot[old] \in {NoFd, s.slot[new]} THEN s
    ELSE [FClose(s, new, stale) EXCEPT !.slot[new] = s.slot[old]]

FDupReset(s, stale) ==
    LET t == FClose(FClose(FClose(s, 0, stale), 1, stale), 2, stale)
    IN  [t EXCEPT !.slot = [fd \in Fds |-> IF fd \in Std THEN fd ELSE @[fd]],
                  !.node = [n \in Fds |-> IF n \in Std THEN Dummy ELSE @[n]]]
-----------------------------------------------------------------------------
(* The shell reads a command, spawns its program, then redirects; at the    *)
(* next prompt it resets the descriptors.  Waiting for a foreground program *)
(* only makes the shell slower, so a command here may be either.  Nothing   *)
(* initializes input_file and output_file in a round of its loop: they are  *)
(* what the last line that had such a redirect left (NULL at first).        *)

Idle     == [cmd |-> "none", name |-> NoName, pc |-> "start", fd |-> NoFd,
             buf |-> 0]
AtPrompt == [pc |-> "prompt", input |-> NoName, output |-> NoName,
             mode |-> "write", fd |-> NoFd]

Mounted(s) == InitFdList([s EXCEPT !.files = LoadFileList(s)])

\* mkFlatFAT writes zeros: every block free, an empty directory.
EmptyDisk == [fat |-> [b \in Blocks |-> 0], dirSize |-> 0,
              dir |-> [o \in 0..(MaxDirSize - 1) |-> NoUnit],
              files |-> <<>>, slot |-> <<>>, node |-> <<>>]

Init == /\ sys = Mounted(EmptyDisk)
        /\ shell = AtPrompt
        /\ prog = [p \in Programs |-> Idle]

\* touch and rm take a name; any command may have redirects, the kind of the
\* output one being APPEND_SEEN.  A free slot stands for p_spawn's new process.
Spawn(p) ==
    /\ shell.pc = "prompt" /\ prog[p] = Idle
    /\ MapThenSumSet(LAMBDA i : sys.files[i].open, DOMAIN sys.files) <= MaxOpen
    /\ \E cmd \in {"touch", "rm", "cat", "ls"}, name \in Names \cup {NoName} :
         /\ (name = NoName) <=> (cmd \in {"cat", "ls"})
         /\ prog' = [prog EXCEPT ![p] = [Idle EXCEPT !.cmd = cmd,
                                                     !.name = name]]
    /\ \E inSeen, outSeen \in BOOLEAN, mode \in {"write", "append"} :
         /\ outSeen \/ mode = AtPrompt.mode
         /\ \E input  \in IF inSeen THEN Names ELSE {shell.input},
               output \in IF outSeen THEN Names ELSE {shell.output} :
              shell' = [shell EXCEPT !.pc = "open in", !.input = input,
                                     !.output = output, !.mode = mode]
    /\ UNCHANGED sys

\* The f_open of a redirect, then its f_dup2 onto descriptor std; without a
\* redirect, straight to what is next.
OpenRedirect(name, mode, dup, next) ==
    /\ IF name = NoName
       THEN shell' = next /\ UNCHANGED sys
       ELSE \E o \in {FOpen(sys, name, mode)} :
              /\ sys' = o.sys
              /\ shell' = [next EXCEPT !.pc = dup, !.fd = o.fd]
    /\ UNCHANGED prog

DupRedirect(std, next) ==
    /\ \E stale \in StaleStarts : sys' = FDup2(sys, shell.fd, std, stale)
    /\ shell' = next
    /\ UNCHANGED prog

RedirectIn ==
    LET next == [shell EXCEPT !.pc = "open out", !.fd = NoFd]
    IN  \/ /\ shell.pc = "open in"
           /\ OpenRedirect(shell.input, "read", "dup in", next)
        \/ /\ shell.pc = "dup in"
           /\ DupRedirect(0, next)

RedirectOut ==
    LET next == [shell EXCEPT !.pc = "reset", !.mode = AtPrompt.mode,
                              !.fd = NoFd]
    IN  \/ /\ shell.pc = "open out"
           /\ OpenRedirect(shell.output, shell.mode, "dup out", next)
        \/ /\ shell.pc = "dup out"
           /\ DupRedirect(1, next)

\* The top of the shell's loop, before it shows the prompt and reads.
Prompt ==
    /\ shell.pc = "reset"
    /\ \E stale \in StaleStarts : sys' = FDupReset(sys, stale)
    /\ shell' = [shell EXCEPT !.pc = "prompt"]
    /\ UNCHANGED prog

\* f_touch opens and closes; a failed open leaves nothing to close.
TouchOpen(p) ==
    /\ prog[p].cmd = "touch" /\ prog[p].pc = "start"
    /\ \E o \in {FOpen(sys, prog[p].name, "append")} :
         /\ sys' = o.sys
         /\ prog' = [prog EXCEPT ![p] =
              IF o.fd = Failed THEN Idle
              ELSE [prog[p] EXCEPT !.pc = "close", !.fd = o.fd]]
    /\ UNCHANGED shell

TouchClose(p) ==
    /\ prog[p].cmd = "touch" /\ prog[p].pc = "close"
    /\ \E stale \in StaleStarts : sys' = FClose(sys, prog[p].fd, stale)
    /\ prog' = [prog EXCEPT ![p] = Idle]
    /\ UNCHANGED shell

Rm(p) ==
    /\ prog[p].cmd = "rm"
    /\ \E stale \in StaleStarts : sys' = FUnlink(sys, prog[p].name, stale)
    /\ prog' = [prog EXCEPT ![p] = Idle]
    /\ UNCHANGED shell

\* f_cat: nothing read or a failed write ends it.
CatRead(p) ==
    /\ prog[p].cmd = "cat" /\ prog[p].pc = "start"
    /\ \E n \in IF FileOf(sys, 0) = 0 THEN {0} \cup Lengths
                                      ELSE {Readable(sys, 0)} :
         /\ sys' = IF FileOf(sys, 0) = 0 THEN sys ELSE Advance(sys, 0, n)
         /\ prog' = [prog EXCEPT ![p] =
              IF n = 0 THEN Idle
              ELSE [prog[p] EXCEPT !.pc = "write", !.buf = n]]
    /\ UNCHANGED shell

CatWrite(p) ==
    /\ prog[p].cmd = "cat" /\ prog[p].pc = "write"
    /\ \E w \in {FWrite(sys, 1, prog[p].buf)} :
         /\ sys' = w.sys
         /\ prog' = [prog EXCEPT ![p] =
              IF w.done = Failed THEN Idle
              ELSE [prog[p] EXCEPT !.pc = "start", !.buf = 0]]
    /\ UNCHANGED shell

\* f_ls, like ps and history, writes line by line and ignores failures.
LsWrite(p) ==
    /\ prog[p].cmd = "ls"
    /\ \E n \in Lengths : sys' = FWrite(sys, 1, n).sys
    /\ prog' \in {prog, [prog EXCEPT ![p] = Idle]}
    /\ UNCHANGED shell

\* A signal or the end of the system stops a program between two calls.
Kill(p) ==
    /\ prog[p] # Idle
    /\ prog' = [prog EXCEPT ![p] = Idle]
    /\ UNCHANGED <<sys, shell>>

\* The system ends at any moment and is started again on the same disk.
Restart ==
    /\ sys' = Mounted(sys)
    /\ shell' = AtPrompt
    /\ prog' = [p \in Programs |-> Idle]

ProgramStep(p) ==
    \/ TouchOpen(p) \/ TouchClose(p) \/ Rm(p)
    \/ CatRead(p) \/ CatWrite(p) \/ LsWrite(p) \/ Kill(p)

Next ==
    \/ \E p \in Programs : Spawn(p) \/ ProgramStep(p)
    \/ RedirectIn \/ RedirectOut \/ Prompt \/ Restart

Spec == Init /\ [][Next]_vars
-----------------------------------------------------------------------------
(* Properties.                                                              *)

Places(s)      == DOMAIN s.files
BlocksOf(s, i) == Chain(s.fat, s.files[i].start)
Owned(s)   == Chain(s.fat, DirBlock) \cup
              UNION {BlocksOf(s, i) : i \in Places(s)}
Recorded(s)  == s.dirSize = EntrySize * Len(s.files)
Unowned(s) == (Blocks \ FreeBlocks(s.fat)) \ Owned(s)
Holders(s, name) == {n \in Fds : s.node[n].live /\ s.node[n].name = name}

\* Every field holds a value of its kind: links, directory, list of files,
\* descriptor table, the shell's redirects and the programs' buffers.
FTypeOK ==
    /\ sys.fat \in [Blocks -> Blocks]
    /\ sys.dirSize \in 0..MaxDirSize
    /\ \A i \in Places(sys) :
         sys.files[i] \in [name : Names, size : Nat, open : Nat,
                           start : Blocks \ {DirBlock}, marked : BOOLEAN]
    /\ sys.slot \in [Fds -> Fds \cup {NoFd}]
    /\ sys.node \in [Fds -> [live : BOOLEAN, name : Names \cup {NoName},
                             cursor : Nat]]
    /\ shell.fd \in Fds \cup {NoFd}
    /\ \A p \in Programs : prog[p].buf \in 0..BufferSize

\* The directory and the files share no block, and no block of theirs is
\* free to be given to another: find_free_block, free_blocks, write_to_file
\* and truncate_file between them keep the chains of the FAT apart.
ChainsApart ==
    /\ \A i \in Places(sys) :
         /\ BlocksOf(sys, i) \cap FreeBlocks(sys.fat) = {}
         /\ BlocksOf(sys, i) \cap Chain(sys.fat, DirBlock) = {}
         /\ \A j \in Places(sys) \ {i} :
              BlocksOf(sys, i) \cap BlocksOf(sys, j) = {}
    /\ Chain(sys.fat, DirBlock) \cap FreeBlocks(sys.fat) = {}

\* A file's size is never more than its blocks hold, however a write ended
\* on a full disk: read_from_file walks no further than the chain goes.
ChainsHoldSize ==
    \A i \in Places(sys) :
        sys.files[i].size <= BlockSize * Cardinality(BlocksOf(sys, i))

\* What a restart would load is what the list in memory says, in its order;
\* only on a full disk may the directory be cut short.
RecordedUnlessFull ==
    /\ \A i \in 1..(sys.dirSize \div EntrySize) :
         /\ i \in Places(sys)
         /\ OnDisk(LoadFileList(sys)[i]) = OnDisk(sys.files[i])
    /\ Recorded(sys) \/ FreeBlocks(sys.fat) = {}

\* The file a live descriptor names is still in the list and counts at least
\* its descriptors: no remove_file, by f_unlink or by the last f_close, takes
\* a file from under a program that reads or writes it.
OpenFilesStay ==
    \A n \in Fds : sys.node[n].live /\ sys.node[n].name # NoName =>
        \E i \in Places(sys) :
            /\ sys.files[i].name = sys.node[n].name
            /\ Cardinality(Holders(sys, sys.node[n].name)) <= sys.files[i].open

\* A redirected command never overwrites what a file already holds: the
\* cursor behind stdout is at the end of its file.
WritesAtEnd ==
    FileOf(sys, 1) # 0 =>
        sys.node[sys.slot[1]].cursor = sys.files[FileOf(sys, 1)].size

\* No step, not even a restart, loses a block that disk and memory agreed
\* about: it stays with a file, or with the directory, or is free.
NoBlockForgotten ==
    [][Recorded(sys) => Unowned(sys') \subseteq Unowned(sys)]_vars
-----------------------------------------------------------------------------
(* What Files promises, in terms of sys.                                    *)

Absent == -1

SizesIn(list) ==
    [x \in Names |->
        IF \E i \in DOMAIN list : list[i].name = x
        THEN list[CHOOSE i \in DOMAIN list : list[i].name = x].size
        ELSE Absent]

sizes  == SizesIn(sys.files)
held   == [x \in Names |-> Cardinality(Holders(sys, x))]
doomed == [x \in Names |->
             \E i \in Places(sys) : sys.files[i].name = x /\ sys.files[i].marked]
saved  == SizesIn(LoadFileList(sys))
full   == FreeBlocks(sys.fat) = {}

Promise == INSTANCE Files WITH Name <- Names, size <- sizes

\* Whatever programs and shell do at the same time, a file is there as long as
\* it is held, shrinks only when it is opened for writing, goes only when it is
\* asked for, and is on disk as it is in memory unless the disk is full: the
\* file system implements Files.
FilesAsPromised == Promise!Spec
=============================================================================
