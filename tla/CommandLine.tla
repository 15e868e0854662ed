---------------------------- MODULE CommandLine ----------------------------
(* How the shell reads a line: get_next_token (tokenizer.c), has_ampersand   *)
(* and check_input, the redirections, and which command is meant (shell.c).  *)
(*                                                                           *)
(* A line is a sequence of words, blanks and delimiters that ends with a     *)
(* newline; a word stands for its letters, and two are never next to each    *)
(* other.  A token is the sequence of what it is made of.                    *)
EXTENDS Integers, SequencesExt

Delimiters == {"|", "&", "<", ">"}
Blanks == {" ", "\n"}
-----------------------------------------------------------------------------
(* tokenizer.c                                                               *)

\* s without the blanks it begins with
RECURSIVE SkipBlanks(_)
SkipBlanks(s) ==
    IF s # <<>> /\ s[1] \in Blanks THEN SkipBlanks(Tail(s)) ELSE s

\* The length of the token that s begins with: its first symbol is taken
\* whatever it is.
TokenLength(s) ==
    Min({n \in 1..Len(s) :
           n = Len(s) \/ s[n + 1] \in Delimiters \cup Blanks})

\* What follows one call of get_next_token, and the token.
NextToken(s) ==
    IF s # <<>> /\ s[1] \in Delimiters
    THEN [token |-> <<s[1]>>, rest |-> Tail(s)]
    ELSE LET t == SkipBlanks(s)
             n == TokenLength(t)
         IN  IF t = <<>> THEN [token |-> <<>>, rest |-> <<>>]
             ELSE [token |-> SubSeq(t, 1, n),
                   rest  |-> SkipBlanks(SubSeq(t, n + 1, Len(t)))]

\* All tokens of s; get_next_token returns NULL after the last.
RECURSIVE Tokens(_)
Tokens(s) ==
    LET next == NextToken(s)
    IN  IF next.token = <<>> THEN <<>>
        ELSE <<next.token>> \o Tokens(next.rest)
-----------------------------------------------------------------------------
(* The syntax check.                                                         *)

HasAmpersand(u) ==
    \E i \in 1..(Len(u) - 1) :
       u[i] = "&" /\ \A j \in (i + 1)..(Len(u) - 1) : u[j] = " "

\* One round of check_input's loop.  outs is num_output: one > sets
\* OUTPUT_SEEN, a second right behind it APPEND_SEEN instead.
Rejects(s, ch) ==
    \/ ch = "|"
    \/ ch = "&" /\ (s.last \in {"<", ">", "&"} \/ s.ampers > 0)
    \/ ch = "<" /\ (s.last \in {"<", ">", "&"} \/ s.ins > 0)
    \/ ch = ">" /\ \/ s.outs = 2
                   \/ s.last \in {"<", "&"}
                   \/ s.outs = 1 /\ s.last # ">"

Plus(n, condition) == IF condition THEN n + 1 ELSE n

Check(s, ch) ==
    IF s.bad \/ Rejects(s, ch) THEN [s EXCEPT !.bad = TRUE]
    ELSE [bad |-> FALSE, last |-> ch,
          ampers |-> Plus(s.ampers, ch = "&"),
          ins    |-> Plus(s.ins, ch = "<"),
          outs   |-> Plus(s.outs, ch = ">")]

Seen(u) ==
    FoldLeft(Check,
             [bad |-> FALSE, last |-> "", ampers |-> 0, ins |-> 0, outs |-> 0],
             u)

CheckInput(u) ==
    /\ u[1] \notin {"<", ">", "&"}
    /\ Len(u) > 1 => u[Len(u) - 1] \notin {"<", ">"}
    /\ ~Seen(u).bad
    /\ Seen(u).ampers > 0 => HasAmpersand(u)
-----------------------------------------------------------------------------
(* The arguments and the redirections of a command.                          *)

\* The first place from i on where a token is one of ops, or Len(T) + 1.
Find(T, ops, i) ==
    Min({Len(T) + 1} \cup {j \in i..Len(T) : T[j] \in {<<op>> : op \in ops}})

NoFile == <<>>
NameAt(T, i) == IF i \in 1..Len(T) THEN T[i] ELSE NoFile

\* Mutant of FileAt: the second > of >> is taken for the file.
FileAt_Next(T, i, append) == i + 1

\* Where the name behind the operator at place i is: >> is two tokens.
FileAt(T, i, append) == IF T[i] = <<">">> /\ append THEN i + 2 ELSE i + 1

Broken == [crash |-> TRUE, args |-> <<>>, input |-> NoFile, output |-> NoFile]

\* The six cases of the shell.  A token that must be there is compared, by
\* strcmp, without asking whether there is one.
Redirected(T, ins, outs) ==
    LET append == outs = 2
        ops    == {op \in {"<", ">"} : IF op = "<" THEN ins > 0 ELSE outs > 0}
        first  == Find(T, ops, 1)
        name1  == NameAt(T, FileAt(T, first, append))
        second == Find(T, ops \ {T[first][1]}, FileAt(T, first, append) + 1)
        name2  == NameAt(T, FileAt(T, second, append))
        swap   == T[first] = <<">">>
        Read(i, o) == [crash |-> FALSE, args |-> SubSeq(T, 1, first - 1),
                       input |-> i, output |-> o]
    IN  IF ops = {}
        THEN [crash |-> FALSE, args |-> SubSeq(T, 1, Find(T, {"&"}, 1) - 1),
              input |-> NoFile, output |-> NoFile]
        ELSE IF first > Len(T) THEN Broken
        ELSE IF Cardinality(ops) = 1
             THEN IF swap THEN Read(NoFile, name1) ELSE Read(name1, NoFile)
        ELSE IF second > Len(T) THEN Broken
        ELSE IF swap THEN Read(name2, name1) ELSE Read(name1, name2)

Parse(u) == Redirected(Tokens(u), Seen(u).ins, Seen(u).outs)
-----------------------------------------------------------------------------
(* What a user means by a line: the arguments, the files behind < and > or   *)
(* >>, in either order, and an & at the end, with or without blanks between. *)

CONSTANTS Texts,      \* argument lists
          Files       \* names of files

Absent == ""
Writings ==
    [args : Texts, input : Files \cup {Absent}, output : Files \cup {Absent},
     append : BOOLEAN, inputFirst : BOOLEAN, ampersand : BOOLEAN]

\* A writing, symbol by symbol.
Symbols(w) ==
    LET in  == IF w.input = Absent THEN <<>> ELSE <<"<", w.input>>
        out == IF w.output = Absent THEN <<>>
               ELSE IF w.append THEN <<">", ">", w.output>>
               ELSE <<">", w.output>>
    IN  w.args \o (IF w.inputFirst THEN in \o out ELSE out \o in)
               \o (IF w.ampersand THEN <<"&">> ELSE <<>>)

\* Where a blank must, and where it must not, follow.
MustPart(s, i) == i < Len(s) /\ {s[i], s[i + 1]} \cap Delimiters = {}
MustJoin(s, i) == i < Len(s) /\ s[i] = ">" /\ s[i + 1] = ">"

\* The symbols s as a line, with a blank behind each place in gaps.
Line(s, gaps) ==
    FlattenSeq([i \in 1..Len(s) |->
                   IF i \in gaps THEN <<s[i], " ">> ELSE <<s[i]>>])
        \o <<"\n">>

LinesFor(w) ==
    LET s == Symbols(w)
    IN  {Line(s, gaps) : gaps \in
           {g \in SUBSET (1..Len(s)) : \A i \in 1..Len(s) :
               /\ MustPart(s, i) => i \in g
               /\ MustJoin(s, i) => i \notin g}}

NameOf(file) == IF file = Absent THEN NoFile ELSE <<file>>

\* Every such line, however it is spaced, is read as it is meant.
ReadsAsWritten ==
    \A w \in Writings : \A u \in LinesFor(w) :
        /\ CheckInput(u)
        /\ HasAmpersand(u) = w.ampersand
        /\ Seen(u).outs = 2 <=> w.output # Absent /\ w.append
        /\ Parse(u) = [crash  |-> FALSE,
                       args   |-> [i \in 1..Len(w.args) |-> <<w.args[i]>>],
                       input  |-> NameOf(w.input),
                       output |-> NameOf(w.output)]
=============================================================================
