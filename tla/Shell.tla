------------------------------- MODULE Shell -------------------------------
(* The shell's loop from the line it reads to the jobs it keeps: what a      *)
(* line, read as CommandLine says, does with the jobs of Jobs (shell.c).     *)
EXTENDS Jobs, CommandLine

\* The numerals that lines hold here; atoi gives 0 for what is none.
Atoi(t) == CASE t = <<"1">> -> 1 [] t = <<"2">> -> 2 [] OTHER -> 0

Does(do, arg, ground, sleeps) ==
    [do |-> do, arg |-> arg, ground |-> ground, sleeps |-> sleeps]
Just(do) == Does(do, NoArg, FALSE, FALSE)

\* jobs and man, when something follows, are dropped, and what follows is
\* looked at.
AfterName(T, name) ==
    IF Len(T) > 1 /\ T[1] = <<name>> THEN Tail(T) ELSE T
Subject(T) == AfterName(AfterName(T, "jobs"), "man")

\* The argument of fg and bg.
Argument(T) ==
    IF Len(T) = 1 THEN NoArg
    ELSE IF Atoi(T[2]) = 0 THEN BadArg ELSE Atoi(T[2])

\* nice_pid: without an argument the NULL goes on to be compared with "fg";
\* a priority or a pid of 0 is passed to strcmp.
Nices(T) ==
    IF \/ Len(T) = 1
       \/ \E i \in 2..3 : i <= Len(T) /\ Atoi(T[i]) = 0
    THEN Just("crash") ELSE Just("none")

\* A program, with the right number of arguments.
Alone == {"ls", "cat", "busy", "history", "ps", "zombify", "orphanify"}
Runnable(args) ==
    \/ Len(args) = 1 /\ args[1] \in {<<name>> : name \in Alone}
    \/ Len(args) = 2 /\ args[1] \in {<<"touch">>, <<"rm">>}
    \/ Len(args) = 2 /\ args[1] = <<"sleep">> /\ Atoi(args[2]) # 0

Spawns(u) ==
    LET parsed == Parse(u)
    IN  IF parsed.crash THEN Just("crash")
        ELSE IF ~Runnable(parsed.args) THEN Just("none")
        ELSE Does("run", NoArg, ~HasAmpersand(u), parsed.args[1] = <<"sleep">>)

Accepted(u) == CheckInput(u) /\ Tokens(u) # <<>>

Obeys(u, T) ==
    CASE T \in {<<<<"jobs">>>>, <<<<"man">>>>} -> Just("none")
      [] T[1] = <<"nice_pid">> -> Nices(T)
      [] T[1] = <<"fg">> -> Does("fg", Argument(T), FALSE, FALSE)
      [] T[1] = <<"bg">> -> Does("bg", Argument(T), FALSE, FALSE)
      [] OTHER -> Spawns(u)

\* The line u, newline and all.
Meaning(u) ==
    IF u = <<"logout", "\n">> THEN Just("leave")
    ELSE IF Accepted(u) THEN Obeys(u, Subject(Tokens(u)))
    ELSE Just("none")

\* The commands that the lines of a set amount to.
Typed(Lines) == {Meaning(u) : u \in Lines}
-----------------------------------------------------------------------------
\* A command with redirections before or behind one another, with >> or &, with
\* blanks or without, is read as it is meant (tokenizer.c, line 17; shell.c,
\* lines 173 and 980).  What a line means does not depend on the jobs: the
\* invariant looks at it before the first one.
ParsedAsWritten == started = 0 => ReadsAsWritten
=============================================================================
