---------------------------- MODULE JobsProofs ----------------------------
(***************************************************************************)
(* Theorems about the shell's list of jobs, for any number of programs,    *)
(* any commands, and whatever freed memory holds; the last two are for     *)
(* freed memory that is plain (Plain).                                     *)
(***************************************************************************)
EXTENDS Jobs, SequenceTheorems, TLAPS

\* Where the clean-up and the waiting shell are: in a list that is not empty.
Loop ==
    /\ pc = "clean" => job_count \in Listed \cup {NoJob}
    /\ pc \in {"wait", "fgcont", "bgcont"} =>
          current \in Program /\ list # <<>>

\* Nodes are those of programs that have been started.
Past == /\ \A i \in 1..Len(list) : list[i] <= started
        /\ \A p \in nodes : p <= started

Numbers == /\ Loop
           /\ Past
           /\ NumbersAscend

IInv == JTypeOK /\ Numbers

-----------------------------------------------------------------------------
(* Sequences with a place taken out, or put in.                              *)
LEMMA RemoveAtPlaces ==
  ASSUME NEW S, NEW s \in Seq(S), NEW i \in 1..Len(s)
  PROVE  /\ RemoveAt(s, i) \in Seq(S)
         /\ Len(RemoveAt(s, i)) = Len(s) - 1
         /\ \A j \in 1..(Len(s) - 1) :
               RemoveAt(s, i)[j] = IF j < i THEN s[j] ELSE s[j + 1]
<1> DEFINE a == SubSeq(s, 1, i - 1)
           b == SubSeq(s, i + 1, Len(s))
<1>1. /\ a \in Seq(S) /\ Len(a) = i - 1
      /\ \A j \in 1..(i - 1) : a[j] = s[j]
  OBVIOUS
<1>2. /\ b \in Seq(S) /\ Len(b) = Len(s) - i
      /\ \A j \in 1..(Len(s) - i) : b[j] = s[i + j]
  OBVIOUS
<1>3. RemoveAt(s, i) = a \o b
  BY DEF RemoveAt
<1> HIDE DEF a, b
<1>4. a \o b \in Seq(S) /\ Len(a \o b) = Len(a) + Len(b)
  BY <1>1, <1>2, ConcatProperties
<1>5. \A j \in 1..(Len(s) - 1) :
         (a \o b)[j] = IF j < i THEN s[j] ELSE s[j + 1]
  BY <1>1, <1>2, ConcatProperties
<1>6. Len(a \o b) = Len(s) - 1
  BY <1>1, <1>2, <1>4
<1> QED BY <1>3, <1>4, <1>5, <1>6

LEMMA InsertAtLength ==
  ASSUME NEW S, NEW s \in Seq(S), NEW i \in 1..(Len(s) + 1), NEW e \in S
  PROVE  /\ InsertAt(s, i, e) \in Seq(S)
         /\ Len(InsertAt(s, i, e)) = Len(s) + 1
<1> DEFINE a == SubSeq(s, 1, i - 1)
           b == SubSeq(s, i, Len(s))
           c == a \o <<e>>
<1>1. a \in Seq(S) /\ Len(a) = i - 1
  OBVIOUS
<1>2. b \in Seq(S) /\ Len(b) = Len(s) - i + 1
  OBVIOUS
<1>3. <<e>> \in Seq(S) /\ Len(<<e>>) = 1
  OBVIOUS
<1>4. InsertAt(s, i, e) = c \o b
  BY DEF InsertAt
<1> HIDE DEF a, b
<1>5. c \in Seq(S) /\ Len(c) = i
  BY <1>1, <1>3, ConcatProperties
<1> HIDE DEF c
<1>6. c \o b \in Seq(S) /\ Len(c \o b) = Len(c) + Len(b)
  BY <1>2, <1>5, ConcatProperties
<1> QED BY <1>2, <1>4, <1>5, <1>6

LEMMA InsertAtPlace ==
  ASSUME NEW S, NEW s \in Seq(S), NEW i \in 1..(Len(s) + 1), NEW e \in S,
         NEW j \in 1..(Len(s) + 1)
  PROVE  InsertAt(s, i, e)[j] =
           IF j < i THEN s[j] ELSE IF j = i THEN e ELSE s[j - 1]
<1> DEFINE a == SubSeq(s, 1, i - 1)
           b == SubSeq(s, i, Len(s))
           c == a \o <<e>>
<1>1. /\ a \in Seq(S) /\ Len(a) = i - 1
      /\ \A k \in 1..(i - 1) : a[k] = s[k]
  OBVIOUS
<1>2. /\ b \in Seq(S) /\ Len(b) = Len(s) - i + 1
      /\ \A k \in 1..(Len(s) - i + 1) : b[k] = s[i + k - 1]
  OBVIOUS
<1>3. /\ <<e>> \in Seq(S) /\ Len(<<e>>) = 1 /\ <<e>>[1] = e
  OBVIOUS
<1>4. InsertAt(s, i, e) = c \o b
  BY DEF InsertAt
<1> HIDE DEF a, b
<1>5. /\ c \in Seq(S) /\ Len(c) = i
      /\ \A k \in 1..i : c[k] = IF k < i THEN s[k] ELSE e
  BY <1>1, <1>3, ConcatProperties
<1> HIDE DEF c
<1>6. CASE j <= i
  BY <1>2, <1>4, <1>5, <1>6, ConcatProperties
<1>7. CASE j > i
  <2>1. (c \o b)[j] = b[j - i]
    BY <1>2, <1>5, <1>7, ConcatProperties
  <2>2. b[j - i] = s[j - 1]
    BY <1>2, <1>7
  <2> QED BY <1>4, <1>7, <2>1, <2>2
<1>8. j <= i \/ j > i
  OBVIOUS
<1> QED BY <1>6, <1>7, <1>8

-----------------------------------------------------------------------------
JobRecords == [Program -> [num : Nat, ground : BOOLEAN,
                           status : {"running", "stopped", "done"}]]
Processes ==
    [Program -> [st : {"none", "run", "stopped", "lost", "ended", "reaped"},
                 changed : BOOLEAN, flag : BOOLEAN, sleeps : BOOLEAN]]

LEMMA OfTheList ==
  ASSUME JTypeOK
  PROVE  /\ Listed \subseteq Program
         /\ Program \subseteq Nat
         /\ list \in Seq(Program) /\ Len(list) \in Nat
         /\ \A i \in 1..Len(list) : list[i] \in Program /\ Num(list, i) \in Nat
<1>1. /\ list \in Seq(Program) /\ Len(list) \in Nat
      /\ \A i \in 1..Len(list) : list[i] \in Program
  BY DEF JTypeOK
<1>2. \A p \in Program : job[p].num \in Nat
  BY DEF JTypeOK
<1>3. Program \subseteq Nat
  BY JobsAssumption DEF Program
<1> QED BY <1>1, <1>2, <1>3 DEF Listed, Num

LEMMA OlderType ==
  ASSUME JTypeOK, NEW p \in Program
  PROVE  /\ Apart(p) \subseteq Program \X Program
         /\ Touched(p) \subseteq Program \X Program
<1>1. older \subseteq Program \X Program
  BY DEF JTypeOK
<1> QED BY <1>1, OfTheList DEF Apart, Touched

\* A record of the job list with one field, or all of them, changed.
LEMMA JobChanges ==
  ASSUME JTypeOK, NEW p \in Program
  PROVE  /\ \A n \in Nat, g \in BOOLEAN :
               [job EXCEPT ![p] = [num |-> n, ground |-> g,
                                   status |-> "running"]] \in JobRecords
         /\ \A n \in Nat : [job EXCEPT ![p].num = n] \in JobRecords
         /\ [job EXCEPT ![p] = Unused] \in JobRecords
         /\ \A st \in {"running", "stopped", "done"}, g \in BOOLEAN :
               [job EXCEPT ![p].status = st, ![p].ground = g] \in JobRecords
<1>1. job \in JobRecords
  BY DEF JTypeOK, JobRecords
<1>2. Unused \in [num : Nat, ground : BOOLEAN,
                  status : {"running", "stopped", "done"}]
  BY DEF Unused, BG
<1> QED BY <1>1, <1>2 DEF JobRecords

LEMMA ProcChanges ==
  ASSUME JTypeOK, NEW p \in Program,
         NEW st \in {"run", "stopped", "ended", "lost"}, NEW b \in BOOLEAN
  PROVE  /\ [proc EXCEPT ![p].st = st] \in Processes
         /\ [proc EXCEPT ![p].st = st, ![p].changed = b] \in Processes
         /\ [proc EXCEPT ![p].st = st, ![p].changed = TRUE,
                         ![p].flag = TRUE] \in Processes
         /\ [proc EXCEPT ![p].st = st, ![p].sleeps = b] \in Processes
<1>1. proc \in Processes
  BY DEF JTypeOK, Processes
<1>2. [proc EXCEPT ![p].st = st] \in Processes
  BY <1>1 DEF Processes
<1>3. [proc EXCEPT ![p].st = st, ![p].changed = b] \in Processes
  BY <1>1 DEF Processes
<1>4. [proc EXCEPT ![p].st = st, ![p].changed = TRUE, ![p].flag = TRUE]
         \in Processes
  BY <1>1 DEF Processes
<1>5. [proc EXCEPT ![p].st = st, ![p].sleeps = b] \in Processes
  BY <1>1 DEF Processes
<1> QED BY ONLY <1>2, <1>3, <1>4, <1>5

LEMMA ClearedType ==
  ASSUME JTypeOK, NEW p \in Program
  PROVE  [proc EXCEPT ![p].changed = FALSE] \in Processes
<1>1. proc \in Processes
  BY DEF JTypeOK, Processes
<1> QED BY <1>1 DEF Processes

LEMMA ReportedType ==
  ASSUME JTypeOK, NEW p \in Program
  PROVE  /\ Reported(p) \in
              [st : {"none", "run", "stopped", "lost", "ended", "reaped"},
               changed : BOOLEAN, flag : BOOLEAN, sleeps : BOOLEAN]
         /\ [proc EXCEPT ![p] = Reported(p)] \in Processes
<1>1. proc \in Processes
  BY DEF JTypeOK, Processes
<1>2. Reported(p) \in
        [st : {"none", "run", "stopped", "lost", "ended", "reaped"},
         changed : BOOLEAN, flag : BOOLEAN, sleeps : BOOLEAN]
  BY <1>1 DEF Reported, Gone, Processes
<1> QED BY <1>1, <1>2 DEF Processes

LEMMA ContinuedType ==
  ASSUME JTypeOK, NEW p \in Program
  PROVE  Continued(p) \in Processes
<1>1. CASE proc[p].st = "stopped"
  BY <1>1, ProcChanges, Zenon DEF Continued
<1>2. CASE proc[p].st # "stopped"
  BY <1>2 DEF JTypeOK, Processes, Continued
<1> QED BY <1>1, <1>2

-----------------------------------------------------------------------------
(* jobs.c                                                                    *)

LEMMA PlaceType ==
  ASSUME JTypeOK, NEW i \in PlaceBehind(list)
  PROVE  i \in 0..Len(list) /\ NewNumber(list, i) \in Nat
<1>1. i \in 0..Len(list) /\ (i = 0 \/ i \in 1..Len(list))
  BY OfTheList DEF PlaceBehind
<1> QED BY <1>1, OfTheList DEF NewNumber

\* In a list without ghosts the new number is above all numbers before the
\* place and below all behind it.
LEMMA NumberFits ==
  ASSUME JTypeOK, NEW i \in PlaceBehind(list),
         \A j, k \in 1..Len(list) : j < k => Num(list, j) < Num(list, k)
  PROVE  /\ \A j \in 1..Len(list) : j <= i => Num(list, j) < NewNumber(list, i)
         /\ \A j \in 1..Len(list) : j > i => NewNumber(list, i) < Num(list, j)
<1> USE OfTheList
<1>1. CASE list = <<>>
  BY <1>1
<1>2. CASE list # <<>> /\ Num(list, 1) > 1
  <2>1. i = 0 /\ NewNumber(list, i) = 1
    BY <1>2 DEF PlaceBehind, NewNumber
  <2>2. \A j \in 1..Len(list) : Num(list, j) > 1
    <3> SUFFICES ASSUME NEW j \in 1..Len(list) PROVE Num(list, j) > 1
      OBVIOUS
    <3>1. 1 \in 1..Len(list)
      OBVIOUS
    <3>2. j = 1 \/ Num(list, 1) < Num(list, j)
      BY <3>1
    <3> QED BY <1>2, <3>1, <3>2
  <2> QED BY <2>1, <2>2
<1>3. CASE list # <<>> /\ ~(Num(list, 1) > 1) /\ Len(list) = 1
  BY <1>3 DEF PlaceBehind, NewNumber
<1>4. CASE list # <<>> /\ ~(Num(list, 1) > 1) /\ Len(list) # 1
  <2>1. /\ i \in 2..Len(list)
        /\ i = Len(list) \/ Num(list, i) - Num(list, i + 1) > 1
    BY <1>4 DEF PlaceBehind
  <2>2. i = Len(list)
    <3>1. SUFFICES ASSUME i # Len(list) PROVE FALSE
      OBVIOUS
    <3>2. i \in 1..Len(list) /\ i + 1 \in 1..Len(list)
      BY <2>1, <3>1
    <3>3. Num(list, i) < Num(list, i + 1)
      BY <3>2
    <3> QED BY <2>1, <3>1, <3>2, <3>3
  <2>3. NewNumber(list, i) = Num(list, i) + 1 /\ i \in 1..Len(list)
    BY <1>4, <2>1 DEF NewNumber
  <2>4. \A j \in 1..Len(list) : j = i \/ Num(list, j) < Num(list, i)
    BY <2>2, <2>3
  <2> QED BY <2>2, <2>3, <2>4
<1> QED BY <1>1, <1>2, <1>3, <1>4

\* add_job keeps the numbers in order, and the list's type.
LEMMA AddJobKeeps ==
  ASSUME IInv, NEW p \in Program, p = started + 1, NEW g \in BOOLEAN,
         AddJob(p, g), started' = p, pc # "undefined"
  PROVE  /\ list' \in Seq(Program) /\ nodes' \subseteq Program
         /\ job' \in JobRecords
         /\ list' # <<>> /\ Listed' \subseteq Listed \cup {p}
         /\ Past'
         /\ NumbersAscend'
<1> DEFINE N(i) == NewNumber(list, i)
<1>0. /\ JTypeOK /\ Past /\ NumbersAscend
      /\ list \in Seq(Program) /\ Len(list) \in Nat /\ started \in Nat
      /\ Program \subseteq Nat /\ nodes \subseteq Program
      /\ \A j \in 1..Len(list) : list[j] \in Program /\ Num(list, j) \in Nat
  BY JobsAssumption, OfTheList, SMTT(20) DEF IInv, Numbers, JTypeOK
<1>1. nodes' \subseteq Program /\ \A q \in nodes' : q <= started'
  BY <1>0 DEF AddJob, Past
<1>2. \A j \in 1..Len(list) : list[j] <= started' /\ list[j] # p
  <2>1. \A j \in 1..Len(list) : list[j] <= started /\ list[j] \in Nat
    BY <1>0 DEF Past
  <2>2. started \in Nat /\ p = started + 1 /\ started' = p
    BY <1>0
  <2> QED BY <2>1, <2>2
<1>3. Intact => \A j, k \in 1..Len(list) : j < k => Num(list, j) < Num(list, k)
  BY <1>0 DEF NumbersAscend
<1>4. \A q \in Program : q # p /\ q \in nodes' => q \in nodes
  BY DEF AddJob
<1>5. CASE \E i \in PlaceBehind(list) :
             /\ list' = InsertAt(list, i + 1, p)
             /\ job' = [job EXCEPT ![p] = [num |-> N(i), ground |-> g,
                                           status |-> "running"]]
  <2>1. PICK i \in PlaceBehind(list) :
             /\ list' = InsertAt(list, i + 1, p)
             /\ job' = [job EXCEPT ![p] = [num |-> N(i), ground |-> g,
                                           status |-> "running"]]
    BY <1>5
  <2>2. i \in 0..Len(list) /\ N(i) \in Nat
    BY <1>0, PlaceType
  <2>3. job' \in JobRecords
    BY <1>0, <2>1, <2>2, JobChanges
  <2>4. /\ list' \in Seq(Program) /\ Len(list') = Len(list) + 1
        /\ \A j \in 1..(Len(list) + 1) :
              list'[j] = IF j < i + 1 THEN list[j]
                         ELSE IF j = i + 1 THEN p ELSE list[j - 1]
    <3> DEFINE m == i + 1
    <3>1. m \in 1..(Len(list) + 1) /\ list \in Seq(Program)
      BY <1>0, <2>2
    <3>2. list' = InsertAt(list, m, p)
      BY <2>1
    <3> HIDE DEF m
    <3>3. list' \in Seq(Program) /\ Len(list') = Len(list) + 1
      BY ONLY <3>1, <3>2, p \in Program, InsertAtLength
    <3>4. ASSUME NEW j \in 1..(Len(list) + 1)
          PROVE  list'[j] = IF j < m THEN list[j]
                            ELSE IF j = m THEN p ELSE list[j - 1]
      BY ONLY <3>1, <3>2, p \in Program, j \in 1..(Len(list) + 1),
              InsertAtPlace
    <3> QED BY <3>3, <3>4 DEF m
  <2>5. \A j \in 1..Len(list') : list'[j] <= started'
    <3>1. p <= started'
      BY <1>0
    <3> SUFFICES ASSUME NEW j \in 1..Len(list') PROVE list'[j] <= started'
      OBVIOUS
    <3>2. CASE j < i + 1
      <4>1. list'[j] = list[j] /\ j \in 1..Len(list)
        BY <1>0, <2>2, <2>4, <3>2
      <4> QED BY <1>2, <4>1
    <3>3. CASE j = i + 1
      <4>1. list'[j] = p
        BY <2>2, <2>4, <3>3
      <4> QED BY <3>1, <4>1
    <3>4. CASE j > i + 1
      <4>1. list'[j] = list[j - 1] /\ j - 1 \in 1..Len(list)
        BY <1>0, <2>2, <2>4, <3>4
      <4> QED BY <1>2, <4>1
    <3> QED BY <2>2, <2>4, <3>2, <3>3, <3>4
  <2>6. ASSUME Intact'
        PROVE  Intact
    <3> SUFFICES ASSUME NEW j \in 1..Len(list) PROVE list[j] \in nodes
      BY DEF Intact, Listed
    <3>1. PICK k \in 1..Len(list') : list'[k] = list[j]
      <4>1. CASE j < i + 1
        <5>1. j \in 1..Len(list') /\ list'[j] = list[j]
          BY <1>0, <2>2, <2>4, <4>1
        <5> QED BY <5>1
      <4>2. CASE j >= i + 1
        <5>1. j + 1 \in 1..Len(list') /\ list'[j + 1] = list[j]
          BY <1>0, <2>2, <2>4, <4>2
        <5> QED BY <5>1
      <4> QED BY <1>0, <2>2, <2>4, <4>1, <4>2
    <3>2. list[j] \in nodes'
      BY <2>6, <3>1 DEF Intact, Listed
    <3> QED BY <1>0, <1>2, <1>4, <3>2
  <2>7. ASSUME Intact', NEW j \in 1..Len(list'), NEW k \in 1..Len(list'), j < k
        PROVE  Num(list, j)' < Num(list, k)'
    <3>1. /\ \A m \in 1..Len(list) : m <= i => Num(list, m) < N(i)
          /\ \A m \in 1..Len(list) : m > i => N(i) < Num(list, m)
      BY <1>0, <1>3, <2>6, <2>7, NumberFits
    <3> DEFINE W(m) == IF m < i + 1 THEN Num(list, m)
                       ELSE IF m = i + 1 THEN N(i) ELSE Num(list, m - 1)
    <3>2. ASSUME NEW m \in 1..Len(list')
          PROVE  Num(list, m)' = W(m)
      <4>1. Num(list, m)' = job'[list'[m]].num
        BY DEF Num
      <4>2. CASE m < i + 1
        <5>1. m \in 1..Len(list) /\ list'[m] = list[m]
          BY <1>0, <2>2, <2>4, <4>2
        <5>2. job'[list[m]] = job[list[m]]
          BY <1>0, <1>2, <2>1, <5>1 DEF JTypeOK
        <5> QED BY <4>1, <4>2, <5>1, <5>2 DEF Num
      <4>3. CASE m = i + 1
        <5>1. job'[p].num = N(i)
          BY <1>0, <2>1 DEF JTypeOK
        <5>2. list'[m] = p /\ ~(m < i + 1)
          BY <2>2, <2>4, <4>3
        <5> QED BY <4>1, <4>3, <5>1, <5>2
      <4>4. CASE m > i + 1
        <5>1. m - 1 \in 1..Len(list) /\ list'[m] = list[m - 1]
          BY <1>0, <2>2, <2>4, <4>4
        <5>2. job'[list[m - 1]] = job[list[m - 1]]
          BY <1>0, <1>2, <2>1, <5>1 DEF JTypeOK
        <5> QED BY <2>2, <4>1, <4>4, <5>1, <5>2 DEF Num
      <4> QED BY <1>0, <2>2, <2>4, <4>2, <4>3, <4>4
    <3>3. \A m, n \in 1..Len(list) : m < n => Num(list, m) < Num(list, n)
      BY <1>3, <2>6, <2>7
    <3>4. Num(list, j)' = W(j) /\ Num(list, k)' = W(k)
      BY <3>2
    <3> HIDE DEF N
    <3>5. W(j) < W(k)
      BY <1>0, <2>2, <2>4, <2>7, <3>1, <3>3, SMTT(20)
    <3> QED BY <3>4, <3>5
  <2>8. list' # <<>>
    BY <2>4
  <2>9. Listed' \subseteq Listed \cup {p}
    <3> SUFFICES ASSUME NEW j \in 1..Len(list'), list'[j] # p
                 PROVE  \E k \in 1..Len(list) : list'[j] = list[k]
      BY DEF Listed
    <3>1. CASE j < i + 1
      BY <1>0, <2>2, <2>4, <3>1
    <3>2. CASE j > i + 1
      <4>1. j - 1 \in 1..Len(list) /\ list'[j] = list[j - 1]
        BY <1>0, <2>2, <2>4, <3>2
      <4> QED BY <4>1
    <3>3. j # i + 1
      BY <2>2, <2>4
    <3> QED BY <2>2, <3>1, <3>2, <3>3
  <2> QED BY <1>1, <2>3, <2>4, <2>5, <2>7, <2>8, <2>9 DEF Past, NumbersAscend
<1>6. CASE /\ PlaceBehind(list) = {} /\ UNCHANGED list
           /\ \E n \in Garbage : job' = [job EXCEPT ![p] =
                 [num |-> n, ground |-> g, status |-> "running"]]
  <2>1. PICK n \in Garbage : job' = [job EXCEPT ![p] =
                 [num |-> n, ground |-> g, status |-> "running"]]
    BY <1>6
  <2>2. job' \in JobRecords
    BY <1>0, <2>1, JobChanges, JobsAssumption
  <2>3. list' = list /\ list # <<>>
    BY <1>6 DEF PlaceBehind
  <2>4. \A j \in 1..Len(list') : list'[j] <= started'
    BY <1>2, <2>3
  <2>5. Intact' => Intact
    <3>1. \A q \in Listed : q \in nodes' => q \in nodes
      BY <1>0, <1>2, <1>4 DEF Listed
    <3> QED BY <2>3, <3>1 DEF Intact, Listed
  <2>6. \A j \in 1..Len(list) : Num(list, j)' = Num(list, j)
    BY <1>0, <1>2, <2>1, <2>3 DEF Num, JTypeOK
  <2>7. NumbersAscend'
    <3> SUFFICES ASSUME Intact', NEW j \in 1..Len(list'),
                        NEW k \in 1..Len(list'), j < k
                 PROVE  Num(list, j)' < Num(list, k)'
      BY DEF NumbersAscend
    <3>1. Num(list, j) < Num(list, k)
      BY <1>3, <2>3, <2>5
    <3> QED BY <2>3, <2>6, <3>1
  <2>8. Past'
    BY <1>1, <2>4 DEF Past
  <2>9. Listed' = Listed
    BY <2>3 DEF Listed
  <2> QED BY <1>0, <1>1, <2>2, <2>3, <2>7, <2>8, <2>9
<1> QED BY <1>5, <1>6 DEF AddJob

\* What is behind and before a place stays when the place is unlinked, and so
\* does the order of the numbers.
LEMMA UnlinksKeeps ==
  ASSUME IInv, NEW i \in 1..Len(list), NEW to, Unlinks(i), Frees(i, to),
         started' = started, pc # "undefined"
  PROVE  /\ list' \in Seq(Program) /\ nodes' \subseteq Program
         /\ job' \in JobRecords /\ older' \subseteq Program \X Program
         /\ pc' \in {to, "undefined"}
         /\ \A q \in Listed : q # list[i] => q \in Listed'
         /\ Listed' \subseteq Listed
         /\ Past'
         /\ NumbersAscend'
<1>0. /\ JTypeOK /\ Past /\ NumbersAscend
      /\ list \in Seq(Program) /\ Len(list) \in Nat /\ nodes \subseteq Program
      /\ \A j \in 1..Len(list) : list[j] \in Program /\ Num(list, j) \in Nat
  BY OfTheList DEF IInv, Numbers, JTypeOK
<1>1. /\ job' \in JobRecords /\ older' \subseteq Program \X Program
  BY <1>0, JobChanges, OlderType DEF Unlinks
<1>2. nodes' = nodes \ {list[i]} /\ pc' \in {to, "undefined"}
  BY DEF Frees
<1>3. /\ list' \in Seq(Program) /\ Len(list') = Len(list) - 1
      /\ \A j \in 1..(Len(list) - 1) :
            list'[j] = IF j < i THEN list[j] ELSE list[j + 1]
  <2> DEFINE r == RemoveAt(list, i)
  <2>1. list' = r
    BY DEF Unlinks
  <2>2. list \in Seq(Program)
    BY <1>0
  <2>3. /\ r \in Seq(Program) /\ Len(r) = Len(list) - 1
        /\ \A j \in 1..(Len(list) - 1) :
              r[j] = IF j < i THEN list[j] ELSE list[j + 1]
    BY ONLY <2>2, i \in 1..Len(list), RemoveAtPlaces
  <2> HIDE DEF r
  <2> QED BY <2>1, <2>3
<1>4. ASSUME NEW j \in 1..Len(list')
      PROVE  \E k \in 1..Len(list) : k # i /\ list'[j] = list[k]
  BY <1>0, <1>3
<1>5. ASSUME NEW q \in Listed, q # list[i]
      PROVE  q \in Listed'
  <2>1. PICK k \in 1..Len(list) : list[k] = q
    BY DEF Listed
  <2>2. CASE k < i
    <3>1. k \in 1..Len(list') /\ list'[k] = q
      BY <1>0, <1>3, <2>1, <2>2
    <3> QED BY <3>1 DEF Listed
  <2>3. CASE k > i
    <3>1. k - 1 \in 1..Len(list') /\ list'[k - 1] = q
      BY <1>0, <1>3, <2>1, <2>3
    <3> QED BY <3>1 DEF Listed
  <2>4. k # i
    BY <1>5, <2>1
  <2> QED BY <2>2, <2>3, <2>4
<1>6. Past'
  <2>1. \A j \in 1..Len(list') : list'[j] <= started'
    BY <1>0, <1>4 DEF Past
  <2>2. \A q \in nodes' : q <= started'
    BY <1>0, <1>2 DEF Past
  <2> QED BY <2>1, <2>2 DEF Past
<1>7. ASSUME Intact', pc' # "undefined",
             NEW j \in 1..Len(list'), NEW k \in 1..Len(list'), j < k
      PROVE  Num(list, j)' < Num(list, k)'
  <2>1. Intact
    <3>1. list[i] \in nodes
      BY <1>7 DEF Frees
    <3>2. ASSUME NEW q \in Listed PROVE q \in nodes
      <4>1. q # list[i] => q \in nodes'
        BY <1>5, <1>7 DEF Intact
      <4> QED BY <1>2, <3>1, <4>1
    <3> QED BY <3>2 DEF Intact
  <2>2. \A m, n \in 1..Len(list) : m < n => Num(list, m) < Num(list, n)
    BY <1>0, <2>1 DEF NumbersAscend
  <2>3. ASSUME NEW m \in 1..Len(list), m # i
        PROVE  job'[list[m]] = job[list[m]]
    <3>1. list[m] # list[i]
      <4>1. Num(list, m) # Num(list, i)
        BY <1>0, <2>2, <2>3
      <4> QED BY <4>1 DEF Num
    <3>2. job \in JobRecords /\ job' = [job EXCEPT ![list[i]] = Unused]
      BY <1>0 DEF Unlinks, JTypeOK, JobRecords
    <3> QED BY <1>0, <3>1, <3>2 DEF JobRecords
  <2>4. ASSUME NEW m \in 1..Len(list')
        PROVE  Num(list, m)' = IF m < i THEN Num(list, m)
                               ELSE Num(list, m + 1)
    <3>1. CASE m < i
      <4>1. list'[m] = list[m] /\ m \in 1..Len(list) /\ m # i
        BY <1>0, <1>3, <3>1
      <4> QED BY <2>3, <3>1, <4>1 DEF Num
    <3>2. CASE ~(m < i)
      <4>1. list'[m] = list[m + 1] /\ m + 1 \in 1..Len(list) /\ m + 1 # i
        BY <1>0, <1>3, <3>2
      <4> QED BY <2>3, <3>2, <4>1 DEF Num
    <3> QED BY <3>1, <3>2
  <2> DEFINE W(m) == IF m < i THEN Num(list, m) ELSE Num(list, m + 1)
  <2>5. Num(list, j)' = W(j) /\ Num(list, k)' = W(k)
    BY <2>4
  <2>6. W(j) < W(k)
    <3> DEFINE Place(m) == IF m < i THEN m ELSE m + 1
    <3>1. /\ Place(j) \in 1..Len(list) /\ Place(k) \in 1..Len(list)
          /\ Place(j) < Place(k)
      BY <1>0, <1>3, <1>7
    <3>2. W(j) = Num(list, Place(j)) /\ W(k) = Num(list, Place(k))
      OBVIOUS
    <3> HIDE DEF Place, W
    <3> QED BY <2>2, <3>1, <3>2
  <2> QED BY <2>5, <2>6
<1>8. Listed' \subseteq Listed
  BY <1>4 DEF Listed
<1> QED BY <1>0, <1>1, <1>2, <1>3, <1>5, <1>6, <1>7, <1>8 DEF NumbersAscend

\* The list as it was, with the numbers it had.
LEMMA SameList ==
  ASSUME IInv, UNCHANGED <<list, nodes, started>>, pc # "undefined",
         \A p \in Listed : job'[p].num = job[p].num
  PROVE  /\ Past' /\ NumbersAscend' /\ Listed' = Listed
<1>1. Past /\ NumbersAscend
  BY DEF IInv, Numbers
<1>2. Listed' = Listed
  BY DEF Listed
<1>3. Past'
  BY <1>1 DEF Past
<1>4. \A j \in 1..Len(list) : Num(list, j)' = Num(list, j)
  BY DEF Num, Listed
<1>5. Intact' => Intact
  BY <1>2 DEF Intact
<1> QED BY <1>1, <1>2, <1>3, <1>4, <1>5 DEF NumbersAscend

\* remove_job_index when its result is dropped.
LEMMA DropKeeps ==
  ASSUME IInv, NEW num, DropJobIndex(num), started' = started,
         pc # "undefined", list # <<>>
  PROVE  /\ list' \in Seq(Program) /\ nodes' \subseteq Program
         /\ job' \in JobRecords /\ older' \subseteq Program \X Program
         /\ pc' \in {"top", "undefined"}
         /\ Past'
         /\ NumbersAscend'
<1>0. /\ JTypeOK /\ Past /\ list \in Seq(Program) /\ nodes \subseteq Program
      /\ job \in JobRecords /\ older \subseteq Program \X Program
      /\ \A j \in 1..Len(list) : list[j] \in Program
      /\ 1 \in 1..Len(list)
  <2>1. JTypeOK /\ Past
    BY DEF IInv, Numbers
  <2>2. 1 \in 1..Len(list)
    BY <2>1, OfTheList
  <2> QED BY <2>1, <2>2, OfTheList DEF JTypeOK, JobRecords
<1>1. CASE RemovedAt(list, num) = {}
  <2>1. /\ pc' = "top" /\ UNCHANGED <<list, nodes, job, older>>
    BY <1>1 DEF DropJobIndex
  <2> QED BY <1>0, <2>1, SameList
<1>2. ASSUME NEW i \in RemovedAt(list, num), Frees(i, "top"), i > 1, Unlinks(i)
      PROVE  /\ list' \in Seq(Program) /\ nodes' \subseteq Program
             /\ job' \in JobRecords /\ older' \subseteq Program \X Program
             /\ pc' \in {"top", "undefined"}
             /\ Past' /\ NumbersAscend'
  <2>1. i \in 1..Len(list)
    BY <1>0 DEF RemovedAt
  <2> QED BY <1>2, <2>1, UnlinksKeeps
<1>3. ASSUME NEW i \in RemovedAt(list, num), Frees(i, "top"), ~(i > 1),
             NEW g \in Garbage, job' = [job EXCEPT ![list[1]].num = g],
             older' \in {older, Touched(list[1])}, UNCHANGED list
      PROVE  /\ list' \in Seq(Program) /\ nodes' \subseteq Program
             /\ job' \in JobRecords /\ older' \subseteq Program \X Program
             /\ pc' \in {"top", "undefined"}
             /\ Past' /\ NumbersAscend'
  <2>1. i = 1
    BY <1>0, <1>3 DEF RemovedAt
  <2>2. nodes' = nodes \ {list[1]} /\ pc' \in {"top", "undefined"}
    BY <1>3, <2>1 DEF Frees
  <2>3. ~Intact'
    BY <1>0, <1>3, <2>2 DEF Intact, Listed
  <2>4. job' \in JobRecords
    BY <1>0, <1>3, JobChanges, JobsAssumption
  <2>5. older' \subseteq Program \X Program
    BY <1>0, <1>3, OlderType
  <2>6. Past'
    BY <1>0, <1>3, <2>2 DEF Past
  <2> QED BY <1>0, <1>3, <2>2, <2>3, <2>4, <2>5, <2>6 DEF NumbersAscend
<1> QED BY <1>1, <1>2, <1>3 DEF DropJobIndex

-----------------------------------------------------------------------------
(* Every step keeps the invariant.                                           *)

LEMMA ProcSteps ==
  ASSUME IInv, NEW p \in Program, Ends(p) \/ GetsLost(p) \/ Wakes(p) \/ Stops(p)
  PROVE  IInv'
<1>1. UNCHANGED ShellKeeps /\ pc # "undefined"
  BY Zenon DEF Ends, GetsLost, Wakes, Stops, Awaited, Over
<1>2. proc' \in Processes
  <2>1. JTypeOK
    BY DEF IInv
  <2> QED BY <2>1, ProcChanges, Zenon DEF Ends, GetsLost, Wakes, Stops
<1>3. JTypeOK'
  BY <1>1, <1>2 DEF IInv, JTypeOK, ShellKeeps, Processes
<1>4. Past' /\ NumbersAscend' /\ Listed' = Listed
  BY <1>1, SameList DEF ShellKeeps
<1>5. Loop'
  BY <1>1, <1>4 DEF IInv, Numbers, Loop, ShellKeeps
<1> QED BY <1>3, <1>4, <1>5 DEF IInv, Numbers

LEMMA PollKeeps ==
  ASSUME IInv, Poll
  PROVE  IInv'
<1>0. JTypeOK /\ job \in JobRecords /\ proc \in Processes
  BY DEF IInv, JTypeOK, JobRecords, Processes
<1>1. /\ UNCHANGED <<list, nodes, current, started>> /\ pc # "undefined"
      /\ job_count' = FirstJob(list)
  BY DEF Poll
<1>2. pc' \in {"clean", "crashed", "undefined"}
  BY DEF Poll, PollLeadsTo
<1>3. job' \in JobRecords /\ \A p \in Program : job'[p].num = job[p].num
  <2>1. \A p \in Program : PolledStatus(p) \in {"running", "stopped", "done"}
    BY DEF PolledStatus
  <2>2. job' = [p \in Program |->
                 IF p \in Polled
                 THEN [job[p] EXCEPT !.status = PolledStatus(p)] ELSE job[p]]
    BY DEF Poll
  <2> HIDE DEF PolledStatus
  <2> QED BY <1>0, <2>1, <2>2 DEF JobRecords
<1>4. proc' \in Processes
  <2>1. \A p \in Program : Reported(p) \in
          [st : {"none", "run", "stopped", "lost", "ended", "reaped"},
           changed : BOOLEAN, flag : BOOLEAN, sleeps : BOOLEAN]
    BY <1>0, ReportedType
  <2>2. proc' = [p \in Program |->
                   IF p \in Polled THEN Reported(p) ELSE proc[p]]
    BY DEF Poll
  <2> QED BY <1>0, <2>1, <2>2 DEF Processes
<1>5. older' \subseteq Program \X Program
  <2>1. older \subseteq Program \X Program
    BY <1>0 DEF JTypeOK
  <2> QED BY <1>0, <2>1, OfTheList DEF Poll, PolledLast, Polled
<1>6. FirstJob(list) \in Listed \cup {NoJob}
  <2>1. list \in Seq(Program)
    BY <1>0, OfTheList
  <2>2. CASE list = <<>>
    BY <2>2 DEF FirstJob
  <2>3. CASE list # <<>>
    <3>1. 1 \in 1..Len(list)
      BY <2>1, <2>3
    <3> QED BY <2>3, <3>1 DEF FirstJob, Listed
  <2> QED BY <2>2, <2>3
<1>7. Past' /\ NumbersAscend' /\ Listed' = Listed
  <2>1. \A p \in Listed : job'[p].num = job[p].num
    BY <1>0, <1>3, OfTheList
  <2> QED BY <1>1, <2>1, SameList
<1>8. JTypeOK'
  <2>1. job_count' \in Program \cup {NoJob}
    BY <1>0, <1>1, <1>6, OfTheList
  <2> QED BY <1>0, <1>1, <1>2, <1>3, <1>4, <1>5, <2>1
          DEF JTypeOK, JobRecords, Processes, Over
<1>9. Loop'
  BY <1>1, <1>2, <1>6, <1>7 DEF Loop
<1> QED BY <1>7, <1>8, <1>9 DEF IInv, Numbers

LEMMA NextInList ==
  ASSUME JTypeOK, NEW p \in Listed
  PROVE  NextJob(p) \in Listed \cup {NoJob}
<1> DEFINE i == CHOOSE n \in 1..Len(list) : list[n] = p
<1>1. i \in 1..Len(list)
  BY DEF Listed
<1>2. NextJob(p) = IF i = Len(list) THEN NoJob ELSE list[i + 1]
  BY DEF NextJob
<1> HIDE DEF i
<1>3. CASE i = Len(list)
  BY <1>2, <1>3
<1>4. CASE i # Len(list)
  <2>1. i + 1 \in 1..Len(list)
    BY <1>1, <1>4, OfTheList
  <2> QED BY <1>2, <1>4, <2>1 DEF Listed
<1> QED BY <1>3, <1>4

LEMMA CleanUpKeeps ==
  ASSUME IInv, CleanUp
  PROVE  IInv'
<1> DEFINE next == NextJob(job_count)
           num == job[job_count].num
<1>0. JTypeOK /\ Loop
  BY DEF IInv, Numbers
<1>1. /\ pc = "clean" /\ job_count \in Listed
      /\ job_count' = next
      /\ UNCHANGED <<current, proc, started>>
  BY <1>0 DEF CleanUp, Loop
<1>2. next \in Listed \cup {NoJob}
  BY <1>0, <1>1, NextInList
<1>3. \/ UNCHANGED <<list, nodes, job, older, pc>>
      \/ \E i \in RemovedAt(list, num) :
           Unlinks(i) /\ Frees(i, IF list[i] = next THEN "undefined" ELSE pc)
  BY DEF CleanUp, RemoveJobIndex
<1> HIDE DEF next, num
<1>4. next \in Program \cup {NoJob}
  BY <1>0, <1>2, OfTheList
<1>5. CASE UNCHANGED <<list, nodes, job, older, pc>>
  <2>1. Past' /\ NumbersAscend' /\ Listed' = Listed
    BY <1>1, <1>5, SameList
  <2>2. JTypeOK'
    BY <1>0, <1>1, <1>4, <1>5 DEF JTypeOK
  <2>3. Loop'
    BY <1>1, <1>2, <1>5, <2>1 DEF Loop
  <2> QED BY <2>1, <2>2, <2>3 DEF IInv, Numbers
<1>6. ASSUME NEW i \in RemovedAt(list, num), Unlinks(i),
             Frees(i, IF list[i] = next THEN "undefined" ELSE pc)
      PROVE  IInv'
  <2> DEFINE to == IF list[i] = next THEN "undefined" ELSE pc
  <2>1. i \in 1..Len(list)
    <3>1. 1 \in 1..Len(list)
      BY <1>0, <1>1, OfTheList DEF Listed
    <3> QED BY <3>1, <1>0, OfTheList DEF RemovedAt
  <2>2. Frees(i, to)
    BY <1>6
  <2>3. to \in {"clean", "undefined"} /\ (to = "clean" => list[i] # next)
    BY <1>1
  <2> HIDE DEF to
  <2>4. /\ list' \in Seq(Program) /\ nodes' \subseteq Program
        /\ job' \in JobRecords /\ older' \subseteq Program \X Program
        /\ pc' \in {to, "undefined"}
        /\ \A q \in Listed : q # list[i] => q \in Listed'
        /\ Past'
        /\ NumbersAscend'
    BY <1>1, <1>6, <2>1, <2>2, UnlinksKeeps
  <2>5. JTypeOK'
    BY <1>0, <1>1, <1>4, <2>3, <2>4 DEF JTypeOK, JobRecords, Over
  <2>6. Loop'
    BY <1>1, <1>2, <2>3, <2>4 DEF Loop
  <2> QED BY <2>4, <2>5, <2>6 DEF IInv, Numbers
<1> QED BY <1>3, <1>5, <1>6

LEMMA PromptsKeeps ==
  ASSUME IInv, Prompts
  PROVE  IInv'
<1>1. /\ UNCHANGED <<list, nodes, job, older, current, job_count, proc, started>>
      /\ pc' = "prompt" /\ pc = "clean"
  BY DEF Prompts
<1>2. Past' /\ NumbersAscend'
  BY <1>1, SameList
<1>3. JTypeOK'
  BY <1>1 DEF IInv, JTypeOK
<1>4. Loop'
  BY <1>1 DEF Loop
<1> QED BY <1>2, <1>3, <1>4 DEF IInv, Numbers

LEMMA RunKeeps ==
  ASSUME IInv, NEW g \in BOOLEAN, NEW b \in BOOLEAN, Run(g, b)
  PROVE  IInv'
<1> DEFINE p == started + 1
<1>0. JTypeOK
  BY DEF IInv
<1>1. p \in Program /\ started \in Nat /\ started + 1 \in 0..MaxJobs
  BY <1>0, JobsAssumption DEF Run, JTypeOK, Program
<1>2. /\ started' = p /\ current' = p /\ AddJob(p, g) /\ older' = Touched(p)
      /\ proc' = [proc EXCEPT ![p].st = "run", ![p].sleeps = b]
      /\ pc = "prompt" /\ pc' \in {"wait", "top"} /\ job_count' = job_count
  BY DEF Run
<1> HIDE DEF p
<1>3. /\ list' \in Seq(Program) /\ nodes' \subseteq Program
      /\ job' \in JobRecords /\ list' # <<>>
      /\ Past' /\ NumbersAscend'
  <2>1. p = started + 1
    BY Zenon DEF p
  <2> QED BY <1>1, <1>2, <2>1, AddJobKeeps, Zenon
<1>4. proc' \in Processes /\ older' \subseteq Program \X Program
  BY <1>0, <1>1, <1>2, ProcChanges, OlderType
<1>5. JTypeOK'
  <2>1. started' \in 0..MaxJobs
    BY <1>1, <1>2 DEF p
  <2> QED BY <1>0, <1>1, <1>2, <1>3, <1>4, <2>1
          DEF JTypeOK, JobRecords, Processes
<1>6. Loop'
  BY <1>1, <1>2, <1>3 DEF Loop
<1> QED BY <1>3, <1>5, <1>6 DEF IInv, Numbers

\* The jobs that fg and bg choose from are listed.
LEMMA CandidatesListed ==
  ASSUME JTypeOK, NEW arg
  PROVE  FgCandidates(arg) \subseteq Listed /\ BgCandidates(arg) \subseteq Listed
<1>1. Numbered(arg) \subseteq Listed
  BY DEF Numbered, Listed
<1>2. \A S \in SUBSET Listed : Latest(S) \subseteq Listed
  BY DEF Latest
<1>3. StoppedJobs \subseteq Listed
  BY DEF StoppedJobs
<1> QED BY <1>1, <1>2, <1>3 DEF FgCandidates, BgCandidates

\* What fg, bg and the end of a wait do to the job in the foreground.
LEMMA StatusKeeps ==
  ASSUME IInv, NEW p \in Program, NEW st \in {"running", "stopped"},
         NEW g \in BOOLEAN, SetStatus(p, st, g),
         UNCHANGED <<list, nodes, started>>, pc # "undefined"
  PROVE  job' \in JobRecords /\ Past' /\ NumbersAscend' /\ Listed' = Listed
<1>1. JTypeOK /\ job \in JobRecords
  BY DEF IInv, JTypeOK, JobRecords
<1>2. job' = [job EXCEPT ![p].status = st, ![p].ground = g]
  BY DEF SetStatus
<1>3. job' \in JobRecords
  BY <1>1, <1>2, JobChanges
<1>4. \A q \in Program : job'[q].num = job[q].num
  BY <1>1, <1>2 DEF JobRecords
<1>5. \A q \in Listed : job'[q].num = job[q].num
  BY <1>1, <1>4, OfTheList
<1> QED BY <1>3, <1>5, SameList

LEMMA FgKeeps ==
  ASSUME IInv, NEW arg, Fg(arg)
  PROVE  IInv'
<1>0. JTypeOK
  BY DEF IInv
<1>1. PICK p \in FgCandidates(arg) :
        /\ At("prompt")
        /\ SetStatus(p, "running", FG)
        /\ current' = p
        /\ older' = Touched(p)
        /\ IF ~Findable(p) THEN pc' = "top" /\ UNCHANGED proc
           ELSE IF Restarts(arg) THEN pc' = "fgcont" /\ proc' = Continued(p)
           ELSE pc' = "wait" /\ UNCHANGED proc
        /\ UNCHANGED <<list, nodes>>
  BY DEF Fg
<1>2. p \in Listed /\ p \in Program
  BY <1>0, CandidatesListed, OfTheList
<1>3. /\ UNCHANGED <<list, nodes, started, job_count>> /\ pc = "prompt"
      /\ pc' \in {"top", "fgcont", "wait"}
      /\ proc' = proc \/ proc' = Continued(p)
  BY <1>1 DEF At
<1>4. job' \in JobRecords /\ Past' /\ NumbersAscend' /\ Listed' = Listed
  BY <1>1, <1>2, <1>3, StatusKeeps DEF FG
<1>5. proc' \in Processes /\ older' \subseteq Program \X Program
  <2>1. proc \in Processes
    BY <1>0 DEF JTypeOK, Processes
  <2> QED BY <1>0, <1>1, <1>2, <1>3, <2>1, ContinuedType, OlderType
<1>6. JTypeOK'
  BY <1>0, <1>1, <1>2, <1>3, <1>4, <1>5 DEF JTypeOK, JobRecords, Processes
<1>7. Loop'
  <2>1. list' # <<>>
    BY <1>2, <1>3 DEF Listed
  <2> QED BY <1>1, <1>2, <1>3, <2>1 DEF Loop
<1> QED BY <1>4, <1>6, <1>7 DEF IInv, Numbers

LEMMA BgKeeps ==
  ASSUME IInv, NEW arg, Bg(arg)
  PROVE  IInv'
<1>0. JTypeOK /\ proc \in Processes /\ older \subseteq Program \X Program
  BY DEF IInv, JTypeOK, Processes
<1>1. PICK p \in BgCandidates(arg) :
        /\ At("prompt")
        /\ current' = p
        /\ IF job[p].status = "stopped"
           THEN /\ Resumes(p)
                /\ older' = Touched(p)
                /\ pc' = IF Findable(p) THEN "bgcont" ELSE "crashed"
           ELSE pc' = "top" /\ UNCHANGED <<job, older, proc>>
        /\ UNCHANGED <<list, nodes>>
  BY DEF Bg
<1>2. p \in Listed /\ p \in Program
  BY <1>0, CandidatesListed, OfTheList
<1>3. /\ UNCHANGED <<list, nodes, started, job_count>> /\ pc = "prompt"
      /\ pc' \in {"top", "bgcont", "crashed"}
      /\ proc' = proc \/ proc' = Continued(p)
      /\ older' = older \/ older' = Touched(p)
      /\ UNCHANGED job \/ SetStatus(p, "running", job[p].ground)
  BY <1>1 DEF At, Resumes
<1>4. job' \in JobRecords /\ Past' /\ NumbersAscend' /\ Listed' = Listed
  <2>1. job \in JobRecords /\ job[p].ground \in BOOLEAN
    BY <1>0, <1>2 DEF JTypeOK, JobRecords
  <2>2. CASE UNCHANGED job
    BY <1>3, <2>1, <2>2, SameList
  <2>3. CASE SetStatus(p, "running", job[p].ground)
    BY <1>2, <1>3, <2>1, <2>3, StatusKeeps, SMTT(20)
  <2> QED BY <1>3, <2>2, <2>3
<1>5. proc' \in Processes /\ older' \subseteq Program \X Program
  BY <1>0, <1>2, <1>3, ContinuedType, OlderType
<1>6. JTypeOK'
  BY <1>0, <1>1, <1>2, <1>3, <1>4, <1>5
     DEF JTypeOK, JobRecords, Processes, Over
<1>7. Loop'
  <2>1. list' # <<>>
    BY <1>2, <1>3 DEF Listed
  <2> QED BY <1>1, <1>2, <1>3, <2>1 DEF Loop
<1> QED BY <1>4, <1>6, <1>7 DEF IInv, Numbers

LEMMA OtherKeeps ==
  ASSUME IInv, NEW do, NEW arg, NoCandidate(do, arg) \/ Other(do)
  PROVE  IInv'
<1>1. /\ UNCHANGED <<list, nodes, job, older, proc, job_count, started>>
      /\ pc = "prompt" /\ pc' \in {"top", "left", "crashed"}
      /\ current' \in {current, NoJob}
  BY DEF NoCandidate, Other, At
<1>2. Past' /\ NumbersAscend'
  BY <1>1, SameList
<1>3. JTypeOK'
  BY <1>1 DEF IInv, JTypeOK, Over
<1>4. Loop'
  BY <1>1 DEF Loop
<1> QED BY <1>2, <1>3, <1>4 DEF IInv, Numbers

LEMMA ClearsKeeps ==
  ASSUME IInv, ClearsChanged
  PROVE  IInv'
<1>0. JTypeOK /\ Loop
  BY DEF IInv, Numbers
<1>1. /\ UNCHANGED <<list, nodes, job, older, current, job_count, started>>
      /\ pc \in {"fgcont", "bgcont"} /\ pc' \in {"wait", "top"}
      /\ proc' = [proc EXCEPT ![current].changed = FALSE]
  BY DEF ClearsChanged
<1>2. current \in Program /\ list # <<>>
  BY <1>0, <1>1, SMTT(20) DEF Loop
<1>3. proc' \in Processes
  BY <1>0, <1>1, <1>2, ClearedType
<1>4. Past' /\ NumbersAscend'
  BY <1>1, SameList
<1>5. JTypeOK'
  BY <1>0, <1>1, <1>3 DEF JTypeOK, Processes
<1>6. Loop'
  BY <1>1, <1>2 DEF Loop
<1> QED BY <1>4, <1>5, <1>6 DEF IInv, Numbers

LEMMA WaitKeeps ==
  ASSUME IInv, WaitReturns
  PROVE  IInv'
<1>0. JTypeOK /\ Loop /\ older \subseteq Program \X Program /\ job \in JobRecords
      /\ list \in Seq(Program) /\ nodes \subseteq Program
  BY OfTheList DEF IInv, Numbers, JTypeOK, JobRecords
<1>1. /\ pc = "wait" /\ UNCHANGED <<job_count, started>>
      /\ proc' = [proc EXCEPT ![current] = Reported(current)]
  BY DEF WaitReturns, At
<1>2. current \in Program /\ list # <<>>
  BY <1>0, <1>1 DEF Loop
<1>3. proc' \in Processes
  BY <1>0, <1>1, <1>2, ReportedType
<1>4. /\ list' \in Seq(Program) /\ nodes' \subseteq Program
      /\ job' \in JobRecords /\ older' \subseteq Program \X Program
      /\ pc' \in {"top", "undefined"} /\ current' \in {current, NoJob}
      /\ Past' /\ NumbersAscend'
  <2>1. CASE DropJobIndex(job[current].num) /\ current' = NoJob
    BY <1>1, <1>2, <2>1, DropKeeps
  <2>2. CASE /\ SetStatus(current, "stopped", BG)
             /\ older' = Touched(current)
             /\ pc' = "top"
             /\ UNCHANGED <<list, nodes, current>>
    <3>1. older' \subseteq Program \X Program
      BY <1>0, <1>2, <2>2, OlderType
    <3>2. job' \in JobRecords /\ Past' /\ NumbersAscend'
      BY <1>1, <1>2, <2>2, StatusKeeps DEF BG
    <3> QED BY <1>0, <2>2, <3>1, <3>2
  <2>3. CASE pc' = "top" /\ UNCHANGED <<list, nodes, job, older, current>>
    <3>1. Past' /\ NumbersAscend'
      BY <1>1, <2>3, SameList
    <3> QED BY <1>0, <2>3, <3>1
  <2> QED BY <2>1, <2>2, <2>3 DEF WaitReturns
<1>5. JTypeOK'
  BY <1>0, <1>1, <1>2, <1>3, <1>4 DEF JTypeOK, JobRecords, Processes, Over
<1>6. Loop'
  BY <1>4 DEF Loop
<1> QED BY <1>4, <1>5, <1>6 DEF IInv, Numbers

LEMMA InitHolds ==
  ASSUME Init
  PROVE  IInv
<1>1. JTypeOK
  BY JobsAssumption DEF Init, JTypeOK, Unused, BG
<1>2. Numbers
  BY DEF Init, Numbers, Loop, Past, NumbersAscend
<1> QED BY <1>1, <1>2 DEF IInv

LEMMA StepKeeps ==
  ASSUME IInv, [Next]_vars
  PROVE  IInv'
<1>1. CASE UNCHANGED vars
  <2>1. JTypeOK'
    BY <1>1 DEF IInv, JTypeOK, vars
  <2>2. Numbers'
    BY <1>1 DEF IInv, Numbers, Loop, Past, NumbersAscend, Intact, Listed, Num,
                vars
  <2> QED BY <2>1, <2>2 DEF IInv
<1>2. CASE \E p \in Program : Ends(p) \/ GetsLost(p) \/ Wakes(p) \/ Stops(p)
  BY <1>2, ProcSteps
<1>3. CASE Top
  BY <1>3, PollKeeps, CleanUpKeeps, PromptsKeeps DEF Top
<1>4. CASE WaitReturns \/ ClearsChanged
  BY <1>4, WaitKeeps, ClearsKeeps
<1>5. ASSUME NEW c \in Commands, Command(c)
      PROVE  IInv'
  <2>1. c.ground \in BOOLEAN /\ c.sleeps \in BOOLEAN
    BY JobsAssumption
  <2>2. \/ Run(c.ground, c.sleeps) \/ Fg(c.arg) \/ Bg(c.arg)
        \/ NoCandidate(c.do, c.arg) \/ Other(c.do)
    BY <1>5 DEF Command
  <2> QED BY <2>1, <2>2, RunKeeps, FgKeeps, BgKeeps, OtherKeeps
<1>6. CASE Halted
  BY <1>1, <1>6 DEF Halted
<1> QED BY <1>1, <1>2, <1>3, <1>4, <1>5, <1>6 DEF Next

-----------------------------------------------------------------------------
(* The shell's record of a job and the kernel's of its process.              *)

InStep(p) ==
    /\ job[p].status = "stopped" <=> proc[p].st = "stopped"
    /\ job[p].status = "stopped" => job[p].ground = BG

\* They differ only while the shell waits for the process.
Agree ==
    pc \notin Over =>
       /\ \A p \in Listed \cap nodes : Awaited(p) \/ InStep(p)
       /\ pc \in {"wait", "fgcont"} => job[current].status = "running"

LEMMA ProcAgrees ==
  ASSUME IInv, Agree, NEW p \in Program,
         Ends(p) \/ GetsLost(p) \/ Wakes(p) \/ Stops(p)
  PROVE  Agree'
<1>1. /\ UNCHANGED ShellKeeps /\ pc \notin Over
      /\ \A q \in Program : q # p => proc'[q].st = proc[q].st
      /\ \/ proc[p].st # "stopped" /\ proc'[p].st # "stopped"
         \/ Awaited(p)
  BY DEF IInv, JTypeOK, Ends, GetsLost, Wakes, Stops, Awaited, Over
<1>2. Listed' = Listed /\ nodes' = nodes /\ Listed \subseteq Program
  BY <1>1, OfTheList DEF IInv, ShellKeeps, Listed
<1>3. ASSUME NEW q \in Listed \cap nodes PROVE (Awaited(q) \/ InStep(q))'
  BY <1>1, <1>2, <1>3 DEF Agree, InStep, Awaited, ShellKeeps
<1> QED BY <1>1, <1>2, <1>3 DEF Agree, ShellKeeps

LEMMA PollAgrees ==
  ASSUME IInv, Agree, Poll
  PROVE  Agree'
<1>1. /\ pc = "top" /\ pc' \in Over \cup {"clean"}
      /\ UNCHANGED <<list, nodes, current>>
      /\ \A q \in Program : job'[q] = IF q \in Polled
                   THEN [job[q] EXCEPT !.status = PolledStatus(q)] ELSE job[q]
      /\ \A q \in Program : proc'[q] = IF q \in Polled
                   THEN Reported(q) ELSE proc[q]
  BY DEF Poll, PollLeadsTo, Over
<1>2. Listed' = Listed /\ Listed \subseteq Program
  BY <1>1, OfTheList DEF IInv, Listed
<1>3. ASSUME NEW q \in Listed \cap nodes PROVE InStep(q)'
  <2>1. InStep(q) /\ q \in Program
    BY <1>1, <1>2 DEF Agree, Awaited, Over
  <2>2. /\ job[q] \in [num : Nat, ground : BOOLEAN,
                       status : {"running", "stopped", "done"}]
        /\ proc[q] \in
             [st : {"none", "run", "stopped", "lost", "ended", "reaped"},
              changed : BOOLEAN, flag : BOOLEAN, sleeps : BOOLEAN]
    BY <2>1 DEF IInv, JTypeOK
  <2>3. CASE q \notin Polled
    BY <1>1, <2>1, <2>3 DEF InStep
  <2>4. CASE q \in Polled
    <3>1. /\ job'[q].status = PolledStatus(q) /\ job'[q].ground = job[q].ground
          /\ proc'[q] = Reported(q)
      BY <1>1, <2>1, <2>2, <2>4
    <3>2. proc'[q].st = "stopped" <=> proc[q].st = "stopped"
      BY <2>2, <3>1 DEF Reported, Gone
    <3>3. PolledStatus(q) = "stopped" <=> proc[q].st = "stopped"
      BY DEF PolledStatus
    <3> QED BY <2>1, <3>1, <3>2, <3>3 DEF InStep
  <2> QED BY <2>3, <2>4
<1> QED BY <1>1, <1>2, <1>3 DEF Agree, Over

\* Jobs are taken out of the list, or freed; those that stay are as they were.
LEMMA FewerAgree ==
  ASSUME IInv, Agree, pc \notin Over,
         Listed' \cap nodes' \subseteq Listed \cap nodes,
         \A q \in Listed' \cap nodes' :
            /\ job'[q].status = job[q].status /\ job'[q].ground = job[q].ground
            /\ proc'[q].st = proc[q].st
            /\ ~Awaited(q),
         pc' \notin {"wait", "fgcont"}
  PROVE  Agree'
BY DEF Agree, InStep

LEMMA CleanUpAgrees ==
  ASSUME IInv, Agree, CleanUp
  PROVE  Agree'
<1> DEFINE next == NextJob(job_count)
           num == job[job_count].num
<1>1. /\ pc = "clean" /\ UNCHANGED <<proc, current>>
      /\ JTypeOK /\ Loop /\ job_count \in Listed
      /\ \A q \in Listed : ~Awaited(q)
  BY DEF CleanUp, IInv, Numbers, Loop, Awaited
<1>2. \/ UNCHANGED <<list, nodes, job, older, pc>>
      \/ \E i \in RemovedAt(list, num) :
           Unlinks(i) /\ Frees(i, IF list[i] = next THEN "undefined" ELSE pc)
  BY DEF CleanUp, RemoveJobIndex
<1> HIDE DEF next, num
<1>3. CASE UNCHANGED <<list, nodes, job, older, pc>>
  <2>1. Listed' = Listed
    BY <1>3 DEF Listed
  <2> QED BY <1>1, <1>3, <2>1, FewerAgree DEF Over
<1>4. ASSUME NEW i \in RemovedAt(list, num), Unlinks(i),
             Frees(i, IF list[i] = next THEN "undefined" ELSE pc)
      PROVE  Agree'
  <2> DEFINE to == IF list[i] = next THEN "undefined" ELSE pc
  <2>1. i \in 1..Len(list)
    <3>1. 1 \in 1..Len(list)
      BY <1>1, OfTheList DEF Listed
    <3> QED BY <3>1, <1>1, OfTheList DEF RemovedAt
  <2>2. Frees(i, to) /\ to \in {"clean", "undefined"}
    BY <1>1, <1>4
  <2> HIDE DEF to
  <2>3. started' = started
    BY DEF CleanUp
  <2>4. Listed' \subseteq Listed /\ pc' \in {to, "undefined"}
    BY <1>1, <1>4, <2>1, <2>2, <2>3, UnlinksKeeps
  <2>5. nodes' = nodes \ {list[i]}
    BY <1>4 DEF Frees
  <2>6. ASSUME NEW q \in Listed' \cap nodes' PROVE job'[q] = job[q]
    <3>1. q # list[i] /\ q \in Program
      BY <1>1, <2>4, <2>5, OfTheList
    <3> QED BY <1>1, <1>4, <3>1 DEF Unlinks, JTypeOK
  <2> QED BY <1>1, <2>2, <2>4, <2>5, <2>6, FewerAgree DEF Over
<1> QED BY <1>2, <1>3, <1>4

LEMMA PromptsAgrees ==
  ASSUME IInv, Agree, Prompts
  PROVE  Agree'
<1>1. /\ UNCHANGED <<list, nodes, job, proc>> /\ pc = "clean" /\ pc' = "prompt"
  BY DEF Prompts
<1>2. Listed' = Listed
  BY <1>1 DEF Listed
<1> QED BY <1>1, <1>2, FewerAgree DEF Awaited, Over

LEMMA RunAgrees ==
  ASSUME IInv, Agree, NEW g \in BOOLEAN, NEW b \in BOOLEAN, Run(g, b)
  PROVE  Agree'
<1> DEFINE p == started + 1
<1>0. JTypeOK /\ p \in Program
  BY JobsAssumption DEF IInv, Run, JTypeOK, Program
<1>1. /\ started' = p /\ current' = p /\ AddJob(p, g)
      /\ proc' = [proc EXCEPT ![p].st = "run", ![p].sleeps = b]
      /\ pc = "prompt" /\ pc' \in {"wait", "top"}
  BY DEF Run
<1>2. Listed' \subseteq Listed \cup {p}
  <2>1. p = started + 1
    OBVIOUS
  <2> HIDE DEF p
  <2> QED BY <1>0, <1>1, <2>1, AddJobKeeps
<1> HIDE DEF p
<1>3. PICK n : job' = [job EXCEPT ![p] = [num |-> n, ground |-> g,
                                          status |-> "running"]]
  BY <1>1 DEF AddJob
<1>4. /\ job'[p].status = "running" /\ proc'[p].st = "run"
      /\ \A q \in Program : q # p => job'[q] = job[q] /\ proc'[q] = proc[q]
  BY <1>0, <1>1, <1>3 DEF JTypeOK
<1>5. nodes' = nodes \cup {p}
  BY <1>1 DEF AddJob
<1>6. ASSUME NEW q \in Listed' \cap nodes' PROVE InStep(q)'
  <2>1. CASE q = p
    BY <1>4, <2>1 DEF InStep
  <2>2. CASE q # p
    <3>1. q \in Listed \cap nodes /\ q \in Program
      BY <1>0, <1>2, <1>5, <2>2, OfTheList
    <3>2. InStep(q)
      BY <1>1, <3>1 DEF Agree, Awaited, Over
    <3> QED BY <1>4, <2>2, <3>1, <3>2 DEF InStep
  <2> QED BY <2>1, <2>2
<1> QED BY <1>1, <1>4, <1>6 DEF Agree

\* A job the shell looks at is continued, or not, and its record is set.
LEMMA ShellAgrees ==
  ASSUME IInv, Agree, UNCHANGED <<list, nodes>>, NEW p \in Listed,
         pc \notin Over \cup {"wait", "fgcont"},
         proc' = proc \/ proc' = Continued(p),
         current' = p,
         pc' \in {"wait", "fgcont"} => job'[p].status = "running",
         InStep(p) => (Awaited(p) \/ InStep(p))',
         \A q \in Program : q # p => job'[q] = job[q]
  PROVE  Agree'
<1>1. Listed' = Listed /\ Listed \subseteq Program
  BY OfTheList DEF Listed, IInv
<1>2. \A q \in Program : q # p => proc'[q] = proc[q]
  BY DEF Continued, IInv, JTypeOK
<1>3. ASSUME NEW q \in Listed \cap nodes PROVE (Awaited(q) \/ InStep(q))'
  <2>1. InStep(q) /\ q \in Program
    BY <1>1 DEF Agree, Awaited
  <2>2. q # p => InStep(q)'
    BY <1>2, <2>1 DEF InStep
  <2> QED BY <2>1, <2>2
<1> QED BY <1>1, <1>3 DEF Agree

LEMMA FgAgrees ==
  ASSUME IInv, Agree, NEW arg, Fg(arg)
  PROVE  Agree'
<1>0. JTypeOK
  BY DEF IInv
<1>1. PICK p \in FgCandidates(arg) :
        /\ At("prompt")
        /\ SetStatus(p, "running", FG)
        /\ current' = p
        /\ IF ~Findable(p) THEN pc' = "top" /\ UNCHANGED proc
           ELSE IF Restarts(arg) THEN pc' = "fgcont" /\ proc' = Continued(p)
           ELSE pc' = "wait" /\ UNCHANGED proc
        /\ UNCHANGED <<list, nodes>>
  BY DEF Fg
<1>2. p \in Listed /\ p \in Program
  BY <1>0, CandidatesListed, OfTheList
<1>3. /\ job'[p].status = "running"
      /\ \A q \in Program : q # p => job'[q] = job[q]
  BY <1>0, <1>1, <1>2 DEF SetStatus, JTypeOK
<1>4. pc = "prompt" /\ (proc' = proc \/ proc' = Continued(p))
  BY <1>1 DEF At
<1>5. (Awaited(p) \/ InStep(p))'
  <2>1. CASE ~Findable(p)
    BY <1>1, <1>3, <2>1 DEF InStep, Findable
  <2>2. CASE Findable(p)
    BY <1>1, <2>2 DEF Awaited
  <2> QED BY <2>1, <2>2
<1> QED BY <1>1, <1>2, <1>3, <1>4, <1>5, ShellAgrees DEF Over

LEMMA BgAgrees ==
  ASSUME IInv, Agree, NEW arg, Bg(arg)
  PROVE  Agree'
<1>0. JTypeOK
  BY DEF IInv
<1>1. PICK p \in BgCandidates(arg) :
        /\ At("prompt")
        /\ current' = p
        /\ IF job[p].status = "stopped"
           THEN /\ Resumes(p)
                /\ pc' = IF Findable(p) THEN "bgcont" ELSE "crashed"
           ELSE pc' = "top" /\ UNCHANGED <<job, proc>>
        /\ UNCHANGED <<list, nodes>>
  BY DEF Bg
<1>2. p \in Listed /\ p \in Program
  BY <1>0, CandidatesListed, OfTheList
<1>3. /\ pc = "prompt" /\ pc' \in {"top", "bgcont", "crashed"}
      /\ proc' = proc \/ proc' = Continued(p)
      /\ \A q \in Program : q # p => job'[q] = job[q]
  BY <1>0, <1>1, <1>2 DEF At, Resumes, SetStatus, JTypeOK
<1>4. InStep(p) => InStep(p)'
  <2>1. CASE job[p].status = "stopped"
    <3>1. job'[p].status = "running"
      BY <1>0, <1>1, <1>2, <2>1 DEF Resumes, SetStatus, JTypeOK
    <3>2. proc'[p].st # "stopped"
      BY <1>0, <1>1, <1>2, <2>1 DEF Resumes, Continued, JTypeOK
    <3> QED BY <3>1, <3>2 DEF InStep
  <2>2. CASE job[p].status # "stopped"
    BY <1>1, <2>2 DEF InStep
  <2> QED BY <2>1, <2>2
<1> QED BY <1>1, <1>2, <1>3, <1>4, ShellAgrees DEF Over

LEMMA OtherAgrees ==
  ASSUME IInv, Agree, NEW do, NEW arg, NoCandidate(do, arg) \/ Other(do)
  PROVE  Agree'
<1>1. /\ UNCHANGED <<list, nodes, job, proc>>
      /\ pc = "prompt" /\ pc' \in {"top", "left", "crashed"}
  BY DEF NoCandidate, Other, At
<1>2. Listed' = Listed
  BY <1>1 DEF Listed
<1> QED BY <1>1, <1>2, FewerAgree DEF Awaited, Over

LEMMA ClearsAgrees ==
  ASSUME IInv, Agree, ClearsChanged
  PROVE  Agree'
<1>1. /\ UNCHANGED <<list, nodes, job, current>>
      /\ pc' = IF pc = "fgcont" THEN "wait" ELSE "top"
      /\ pc \in {"fgcont", "bgcont"}
      /\ proc' = [proc EXCEPT ![current].changed = FALSE]
  BY DEF ClearsChanged
<1>2. \A q \in Program : proc'[q].st = proc[q].st
  BY <1>1 DEF IInv, JTypeOK
<1>3. Listed' = Listed /\ Listed \subseteq Program
  BY <1>1, OfTheList DEF IInv, Listed
<1>4. ASSUME NEW q \in Listed \cap nodes PROVE (Awaited(q) \/ InStep(q))'
  BY <1>1, <1>2, <1>3 DEF Agree, Awaited, InStep, Over
<1>5. pc' \in {"wait", "fgcont"} => job'[current'].status = "running"
  BY <1>1 DEF Agree, Over
<1> QED BY <1>1, <1>3, <1>4, <1>5 DEF Agree

LEMMA WaitAgrees ==
  ASSUME IInv, Agree, WaitReturns
  PROVE  Agree'
<1> DEFINE c == current
<1>0. JTypeOK /\ list # <<>> /\ c \in Program
      /\ pc = "wait" /\ started' = started
      /\ proc' = [proc EXCEPT ![c] = Reported(c)]
  BY DEF WaitReturns, At, IInv, Numbers, Loop
<1>1. job[c].status = "running"
  BY <1>0 DEF Agree, Over
<1>2. \A q \in Program : q # c => proc'[q] = proc[q]
  BY <1>0 DEF JTypeOK
<1>3. proc'[c] = Reported(c)
  BY <1>0 DEF JTypeOK
<1>4. \A q \in Listed \cap nodes : q # c => InStep(q)
  BY <1>0 DEF Agree, Awaited, Over
<1>5. Listed \subseteq Program
  BY <1>0, OfTheList
<1> HIDE DEF c
<1>6. SUFFICES ASSUME pc' \notin Over
      PROVE  pc' = "top" /\ \A q \in Listed' \cap nodes' : InStep(q)'
  BY DEF Agree, Awaited
<1>7. CASE proc[c].st = "ended" /\ DropJobIndex(job[c].num)
  <2>1. Reported(c).st # "stopped"
    BY <1>7 DEF Reported, Gone
  <2>2. ASSUME NEW q \in Program,
               job'[q].status = job[q].status, job'[q].ground = job[q].ground,
               q # c => InStep(q)
        PROVE  InStep(q)'
    BY <1>1, <1>2, <1>3, <2>1, <2>2 DEF InStep
  <2>3. CASE /\ RemovedAt(list, job[c].num) = {}
             /\ pc' = "top" /\ UNCHANGED <<list, nodes, job, older>>
    <3>1. Listed' = Listed
      BY <2>3 DEF Listed
    <3> QED BY <1>4, <1>5, <2>2, <2>3, <3>1
  <2>4. ASSUME NEW i \in RemovedAt(list, job[c].num), Frees(i, "top"),
               i > 1, Unlinks(i)
        PROVE  pc' = "top" /\ \A q \in Listed' \cap nodes' : InStep(q)'
    <3>1. i \in 1..Len(list)
      <4>1. 1 \in 1..Len(list)
        BY <1>0, OfTheList
      <4> QED BY <4>1, <1>0, OfTheList DEF RemovedAt
    <3>2. Listed' \subseteq Listed /\ pc' \in {"top", "undefined"}
      BY <1>0, <2>4, <3>1, UnlinksKeeps
    <3>3. nodes' = nodes \ {list[i]} /\ job' = [job EXCEPT ![list[i]] = Unused]
      BY <2>4 DEF Frees, Unlinks
    <3>4. ASSUME NEW q \in Listed' \cap nodes' PROVE InStep(q)'
      <4>1. q # list[i] /\ q \in Listed \cap nodes /\ q \in Program
        BY <1>5, <3>2, <3>3
      <4>2. job'[q] = job[q]
        BY <1>0, <3>3, <4>1 DEF JTypeOK
      <4> QED BY <1>4, <2>2, <4>1, <4>2
    <3> QED BY <1>6, <3>2, <3>4 DEF Over
  <2>5. ASSUME NEW i \in RemovedAt(list, job[c].num), Frees(i, "top"),
               NEW n \in Garbage, job' = [job EXCEPT ![list[1]].num = n],
               UNCHANGED list
        PROVE  pc' = "top" /\ \A q \in Listed' \cap nodes' : InStep(q)'
    <3>1. pc' = "top" /\ nodes' \subseteq nodes
      BY <1>6, <2>5 DEF Frees, Over
    <3>2. Listed' = Listed
      BY <2>5 DEF Listed
    <3>3. \A q \in Program : /\ job'[q].status = job[q].status
                             /\ job'[q].ground = job[q].ground
      BY <1>0, <2>5 DEF JTypeOK
    <3> QED BY <1>4, <1>5, <2>2, <3>1, <3>2, <3>3
  <2> QED BY <1>7, <2>3, <2>4, <2>5 DEF DropJobIndex
<1>8. CASE /\ proc[c].st = "stopped" /\ SetStatus(c, "stopped", BG)
           /\ pc' = "top" /\ UNCHANGED <<list, nodes>>
  <2>1. Listed' = Listed
    BY <1>8 DEF Listed
  <2>2. /\ job'[c].status = "stopped" /\ job'[c].ground = BG
        /\ \A q \in Program : q # c => job'[q] = job[q]
    BY <1>0, <1>8 DEF SetStatus, JTypeOK
  <2>3. proc'[c].st = "stopped"
    BY <1>0, <1>3, <1>8 DEF Reported, JTypeOK
  <2> QED BY <1>2, <1>4, <1>5, <1>8, <2>1, <2>2, <2>3 DEF InStep
<1>9. CASE /\ proc[c].st \notin {"ended", "stopped"} /\ pc' = "top"
           /\ UNCHANGED <<list, nodes, job>>
  <2>1. Listed' = Listed
    BY <1>9 DEF Listed
  <2>2. proc'[c].st # "stopped"
    BY <1>0, <1>3, <1>9 DEF Reported, JTypeOK
  <2> QED BY <1>1, <1>2, <1>4, <1>5, <1>9, <2>1, <2>2 DEF InStep
<1> QED BY <1>7, <1>8, <1>9 DEF WaitReturns, c

LEMMA StepAgrees ==
  ASSUME IInv, Agree, [Next]_vars
  PROVE  Agree'
<1>1. CASE UNCHANGED vars
  BY <1>1 DEF Agree, Awaited, InStep, Listed, vars
<1>2. CASE \E p \in Program : Ends(p) \/ GetsLost(p) \/ Wakes(p) \/ Stops(p)
  BY <1>2, ProcAgrees
<1>3. CASE Top
  BY <1>3, PollAgrees, CleanUpAgrees, PromptsAgrees DEF Top
<1>4. CASE WaitReturns \/ ClearsChanged
  BY <1>4, WaitAgrees, ClearsAgrees
<1>5. ASSUME NEW c \in Commands, Command(c)
      PROVE  Agree'
  <2>1. c.ground \in BOOLEAN /\ c.sleeps \in BOOLEAN
    BY JobsAssumption
  <2>2. \/ Run(c.ground, c.sleeps) \/ Fg(c.arg) \/ Bg(c.arg)
        \/ NoCandidate(c.do, c.arg) \/ Other(c.do)
    BY <1>5 DEF Command
  <2> QED BY <2>1, <2>2, RunAgrees, FgAgrees, BgAgrees, OtherAgrees
<1>6. CASE Halted
  BY <1>1, <1>6 DEF Halted
<1> QED BY <1>1, <1>2, <1>3, <1>4, <1>5, <1>6 DEF Next

-----------------------------------------------------------------------------
(* The list with the nodes that have been freed, and are in it still: the   *)
(* shape that their numbers, and those of the jobs, give it.                *)

\* The places of the list whose node has been freed, and the numbers.
Ghosts  == {i \in 1..Len(list) : list[i] \notin nodes}
Numbering == [i \in 1..Len(list) |-> Num(list, i)]

\* The n places of a list with the ghosts G and the numbers num; g is the one
\* large number a freed node may have, top the highest small one in use.
\*   A ghost is at the head or follows one, but for a job 1 at the head.
Fronted(n, G, num) ==
    \A i, j \in 1..n : i < j /\ j \in G => i \in G \/ (i = 1 /\ num[1] = 1)
\*   A ghost's number is g, or 0 at the head.
Haunted(g, G, num) ==
    \A i \in G : num[i] \in {0, g} /\ (num[i] = 0 => i = 1)
\*   A job's number is small, or counts on from a ghost in front of it.
Counted(g, top, n, G, num) ==
    \A i \in (1..n) \ G :
        /\ num[i] >= 1 /\ (num[i] = 1 => i = 1)
        /\ \/ num[i] <= top
           \/ num[i] > g /\ \E h \in G : h < i /\ num[h] = g
\*   The large ones ascend, then the small ones do.
Sorted(g, n, G, num) ==
    \A i, j \in (1..n) \ G : i < j =>
        /\ num[i] < num[j] \/ (num[i] > g /\ num[j] < g)
        /\ i > 1 /\ num[i] < g => num[j] < g

Shaped(g, top, n, G, num) ==
    /\ Fronted(n, G, num) /\ Haunted(g, G, num)
    /\ Counted(g, top, n, G, num) /\ Sorted(g, n, G, num)

\* Two jobs have different numbers, and none that of a ghost.
LEMMA ShapedApart ==
  ASSUME NEW g \in Nat, NEW top \in Nat, top < g, NEW n \in Nat,
         NEW G \in SUBSET (1..n), NEW num \in [1..n -> Nat],
         Shaped(g, top, n, G, num),
         NEW i \in (1..n) \ G, NEW j \in 1..n, num[i] = num[j]
  PROVE  i = j
<1>1. num[i] \in Nat /\ num[j] \in Nat
  OBVIOUS
<1>2. num[i] >= 1 /\ (num[i] <= top \/ num[i] > g)
  BY DEF Shaped, Counted
<1>3. CASE j \in G
  BY <1>1, <1>2, <1>3 DEF Shaped, Haunted
<1>4. CASE j \notin G
  BY <1>1, <1>4 DEF Shaped, Sorted
<1> QED BY <1>3, <1>4

\* A job is taken out at place i.
Behind(i, j) == IF j < i THEN j ELSE j + 1
TakenOut(n, i, G, num, H, new) ==
    /\ \A j \in 1..(n - 1) : j \in H <=> Behind(i, j) \in G
    /\ \A j \in 1..(n - 1) : new[j] = num[Behind(i, j)]

LEMMA RemoveShaped ==
  ASSUME NEW g \in Nat, NEW top \in Nat, top < g, NEW n \in Nat,
         NEW G \in SUBSET (1..n), NEW num \in [1..n -> Nat],
         Shaped(g, top, n, G, num), NEW i \in (1..n) \ G,
         NEW H \in SUBSET (1..(n - 1)), NEW new \in [1..(n - 1) -> Nat],
         TakenOut(n, i, G, num, H, new)
  PROVE  Shaped(g, top, n - 1, H, new)
<1> DEFINE B(j) == Behind(i, j)
<1>0. /\ \A j \in 1..(n - 1) : j \in H <=> B(j) \in G
      /\ \A j \in 1..(n - 1) : new[j] = num[B(j)]
  BY DEF TakenOut
<1> USE <1>0
<1>1. /\ \A j \in 1..(n - 1) : B(j) \in 1..n /\ B(j) # i
      /\ \A j, k \in 1..(n - 1) : j < k => B(j) < B(k)
      /\ \A j \in 1..(n - 1) : B(j) = 1 => j = 1
      /\ \A j \in 1..(n - 1) : j > 1 => B(j) > 1
  BY DEF Behind
<1>2. Fronted(n - 1, H, new)
  <2> SUFFICES ASSUME NEW j \in 1..(n - 1), NEW k \in 1..(n - 1), j < k, k \in H
               PROVE  j \in H \/ (j = 1 /\ new[1] = 1)
    BY DEF Fronted
  <2>1. B(k) \in G /\ B(j) < B(k) /\ B(j) \in 1..n /\ B(k) \in 1..n
    BY <1>1
  <2>2. B(j) \in G \/ (B(j) = 1 /\ num[1] = 1)
    BY <2>1 DEF Shaped, Fronted
  <2> QED BY <1>1, <2>2
<1>3. Haunted(g, H, new)
  <2> SUFFICES ASSUME NEW j \in H
               PROVE  new[j] \in {0, g} /\ (new[j] = 0 => j = 1)
    BY DEF Haunted
  <2>1. B(j) \in G /\ new[j] = num[B(j)]
    OBVIOUS
  <2> QED BY <1>1, <2>1 DEF Shaped, Haunted
<1>4. Counted(g, top, n - 1, H, new)
  <2> SUFFICES ASSUME NEW j \in (1..(n - 1)) \ H
               PROVE  /\ new[j] >= 1 /\ (new[j] = 1 => j = 1)
                      /\ \/ new[j] <= top
                         \/ new[j] > g /\ \E h \in H : h < j /\ new[h] = g
    BY DEF Counted
  <2>1. B(j) \in (1..n) \ G /\ new[j] = num[B(j)]
    BY <1>1
  <2>2. /\ num[B(j)] >= 1 /\ (num[B(j)] = 1 => B(j) = 1)
        /\ \/ num[B(j)] <= top
           \/ num[B(j)] > g /\ \E h \in G : h < B(j) /\ num[h] = g
    BY <2>1 DEF Shaped, Counted
  <2>3. ASSUME NEW h \in G, h < B(j), num[h] = g
        PROVE  \E x \in H : x < j /\ new[x] = g
    <3> DEFINE x == IF h < i THEN h ELSE h - 1
    <3>1. h # i /\ h \in 1..n
      OBVIOUS
    <3>2. x \in 1..(n - 1) /\ B(x) = h
      BY <3>1 DEF Behind
    <3>4. x < j
      BY <2>3, <3>1 DEF Behind
    <3> HIDE DEF x
    <3>3. x \in H /\ new[x] = g
      BY <2>3, <3>2
    <3> QED BY <3>3, <3>4
  <2> HIDE DEF B
  <2> QED BY <1>1, <2>1, <2>2, <2>3
<1>5. Sorted(g, n - 1, H, new)
  <2> SUFFICES ASSUME NEW j \in (1..(n - 1)) \ H, NEW k \in (1..(n - 1)) \ H, j < k
               PROVE  /\ new[j] < new[k] \/ (new[j] > g /\ new[k] < g)
                      /\ j > 1 /\ new[j] < g => new[k] < g
    BY DEF Sorted
  <2>1. /\ B(j) \in (1..n) \ G /\ B(k) \in (1..n) \ G /\ B(j) < B(k)
        /\ new[j] = num[B(j)] /\ new[k] = num[B(k)] /\ (j > 1 => B(j) > 1)
    BY <1>1
  <2> HIDE DEF B
  <2> QED BY <2>1 DEF Shaped, Sorted
<1> QED BY <1>2, <1>3, <1>4, <1>5 DEF Shaped

\* The head, job 1, is freed where it is.
LEMMA FreeShaped ==
  ASSUME NEW g \in Nat, NEW top \in Nat, NEW n \in Nat, n > 0,
         NEW G \in SUBSET (1..n), NEW num \in [1..n -> Nat],
         Shaped(g, top, n, G, num), 1 \notin G, num[1] = 1,
         NEW x \in {0, g}
  PROVE  Shaped(g, top, n, G \cup {1}, [num EXCEPT ![1] = x])
<1> DEFINE new == [num EXCEPT ![1] = x]
           H == G \cup {1}
<1>1. new[1] = x /\ \A j \in 1..n : j > 1 => new[j] = num[j]
  OBVIOUS
<1>2. Fronted(n, H, new)
  BY <1>1 DEF Shaped, Fronted
<1>3. Haunted(g, H, new)
  <2>1. \A j \in H : j = 1 \/ (j > 1 /\ j \in G)
    OBVIOUS
  <2> HIDE DEF new
  <2> QED BY <1>1, <2>1 DEF Shaped, Haunted
<1>4. Counted(g, top, n, H, new)
  <2> SUFFICES ASSUME NEW j \in (1..n) \ H
               PROVE  /\ new[j] >= 1 /\ (new[j] = 1 => j = 1)
                      /\ \/ new[j] <= top
                         \/ new[j] > g /\ \E h \in H : h < j /\ new[h] = g
    BY DEF Counted
  <2>1. j > 1 /\ new[j] = num[j] /\ j \in (1..n) \ G
    BY <1>1
  <2>2. /\ num[j] >= 1 /\ (num[j] = 1 => j = 1)
        /\ \/ num[j] <= top
           \/ num[j] > g /\ \E h \in G : h < j /\ num[h] = g
    BY <2>1 DEF Shaped, Counted
  <2>3. ASSUME NEW h \in G, h < j, num[h] = g
        PROVE  h \in H /\ new[h] = g
    BY <1>1, <2>3
  <2> HIDE DEF new, H
  <2> QED BY <2>1, <2>2, <2>3
<1>5. Sorted(g, n, H, new)
  BY <1>1 DEF Shaped, Sorted
<1> QED BY <1>2, <1>3, <1>4, <1>5 DEF Shaped

\* add_job's place m, and the number it gives there.
Place(n, num, m) ==
    IF n = 0 \/ num[1] > 1 THEN m = 0
    ELSE IF n = 1 THEN m = 1
    ELSE m \in 2..n /\ (m = n \/ num[m] - num[m + 1] > 1)
Given(n, num, m) == IF m = 0 THEN 1 ELSE IF n = 1 THEN 2 ELSE num[m] + 1

\* A number that keeps the order, wherever the list has a place for it.
Fitting(g, top, n, G, num, m, x) ==
    /\ x >= 1 /\ (x = 1 => m = 0)
    /\ x <= top + 1 \/ (x > g /\ \E h \in G : h <= m /\ num[h] = g)
    /\ \A i \in (1..n) \ G : i <= m =>
          /\ num[i] < x \/ (num[i] > g /\ x < g)
          /\ i > 1 /\ num[i] < g => x < g
    /\ \A i \in (1..n) \ G : i > m =>
          /\ x < num[i] \/ (x > g /\ num[i] < g)
          /\ m > 0 /\ x < g => num[i] < g
    /\ \A i \in G : i > m => m = 0
    /\ m = 0 => x = 1 /\ (n = 0 \/ num[1] > 1)

LEMMA GivenFits ==
  ASSUME NEW g \in Nat, NEW top \in Nat, top + 1 < g, NEW n \in Nat,
         n > 0 => top > 0,
         NEW G \in SUBSET (1..n), NEW num \in [1..n -> Nat],
         Shaped(g, top, n, G, num),
         NEW m \in Nat, Place(n, num, m), NEW x, x = Given(n, num, m)
  PROVE  Fitting(g, top, n, G, num, m, x)
<1>a. \A i \in 1..n : num[i] \in Nat
  OBVIOUS
<1>b. \A i \in G : num[i] = g \/ (num[i] = 0 /\ i = 1)
  BY DEF Shaped, Haunted
<1>c. /\ \A i \in (1..n) \ G : num[i] >= 1 /\ (num[i] = 1 => i = 1)
      /\ \A i \in (1..n) \ G : num[i] <= top \/ num[i] > g
  BY DEF Shaped, Counted
<1>d. \A i \in (1..n) \ G : num[i] > top => \E h \in G : h < i /\ num[h] = g
  <2> SUFFICES ASSUME NEW i \in (1..n) \ G, num[i] > top
               PROVE  \E h \in G : h < i /\ num[h] = g
    OBVIOUS
  <2>1. \/ num[i] <= top
        \/ num[i] > g /\ \E h \in G : h < i /\ num[h] = g
    BY DEF Shaped, Counted
  <2> QED BY <1>a, <2>1
<1>e. \A i, j \in (1..n) \ G : i < j =>
           /\ num[i] < num[j] \/ (num[i] > g /\ num[j] < g)
           /\ i > 1 /\ num[i] < g => num[j] < g
  BY DEF Shaped, Sorted
<1>f. \A i, j \in 1..n : i < j /\ j \in G => i \in G \/ (i = 1 /\ num[1] = 1)
  BY DEF Shaped, Fronted
<1>1. CASE n = 0
  BY <1>1 DEF Place, Given, Fitting
<1>2. CASE n > 0 /\ num[1] > 1
  <2>1. m = 0 /\ x = 1
    BY <1>2 DEF Place, Given
  <2>2. \A i \in (1..n) \ G : num[i] > 1
    BY <1>a, <1>c, <1>2
  <2> QED BY <1>a, <1>2, <2>1, <2>2 DEF Fitting
<1>3. CASE n = 1 /\ num[1] <= 1
  <2>1. m = 1 /\ x = 2
    BY <1>a, <1>3 DEF Place, Given
  <2>2. \A i \in (1..n) \ G : i = 1 /\ num[i] < x
    BY <1>a, <1>3, <2>1
  <2>3. \A i \in G : i = 1
    BY <1>3
  <2>4. x <= top + 1
    BY <1>3, <2>1
  <2> QED BY <1>3, <2>1, <2>2, <2>3, <2>4 DEF Fitting
<1>4. CASE n > 1 /\ num[1] <= 1
  <2>1. /\ m \in 2..n /\ x = num[m] + 1
        /\ m = n \/ num[m] - num[m + 1] > 1
    BY <1>a, <1>4 DEF Place, Given
  <2>2. CASE m \in G
    <3>1. num[m] = g /\ x = g + 1
      BY <1>b, <2>1, <2>2
    <3>2. \A i \in (1..n) \ G : i <= m => i = 1 /\ num[i] = 1
      BY <1>f, <2>1, <2>2
    <3>3. ASSUME NEW i \in 1..n, i > m
          PROVE  i \notin G /\ num[i] < g
      <4>1. m + 1 \in 1..n /\ num[m + 1] < g
        BY <1>a, <2>1, <3>1, <3>3
      <4>2. m + 1 \notin G
        BY <1>b, <2>1, <4>1
      <4>3. i = m + 1 \/ i > m + 1
        BY <2>1, <3>3
      <4>4. i \notin G
        BY <1>f, <2>1, <4>1, <4>2, <4>3
      <4> QED BY <1>e, <2>1, <4>1, <4>2, <4>3, <4>4
    <3> QED BY <1>a, <2>1, <2>2, <3>1, <3>2, <3>3 DEF Fitting
  <2>3. CASE m \notin G /\ num[m] > g
    <3>0. m \in (1..n) \ G
      BY <2>1, <2>3
    <3>1. \A i \in G : i <= m
      BY <1>f, <2>1, <2>3
    <3>2. \E h \in G : h < m /\ num[h] = g
      BY <1>a, <1>d, <2>3, <3>0
    <3>3. ASSUME NEW i \in (1..n) \ G, i <= m
          PROVE  num[i] < x /\ (i > 1 => ~(num[i] < g))
      <4>1. num[i] \in Nat /\ num[m] \in Nat /\ x = num[m] + 1
        BY <1>a, <2>1, <3>0
      <4>2. i = m \/ i < m
        BY <2>1, <3>3
      <4>3. i < m => /\ num[i] < num[m] \/ num[m] < g
                     /\ i > 1 /\ num[i] < g => num[m] < g
        BY <1>e, <3>0
      <4> QED BY <2>3, <4>1, <4>2, <4>3
    <3>4. ASSUME NEW i \in (1..n) \ G, i > m
          PROVE  num[i] < g
      <4>1. m + 1 \in (1..n) \ G /\ num[m + 1] < num[m]
        BY <1>a, <2>1, <3>1, <3>4
      <4>2. num[m + 1] < g
        BY <1>a, <1>e, <2>1, <2>3, <3>0, <4>1
      <4>3. i = m + 1 \/ i > m + 1
        BY <2>1, <3>4
      <4> QED BY <1>e, <2>1, <4>1, <4>2, <4>3
    <3>5. x > g /\ x >= 1 /\ x # 1 /\ m > 0
      BY <1>a, <2>1, <2>3
    <3>6. \E h \in G : h <= m /\ num[h] = g
      BY <2>1, <3>2
    <3>7. \A i \in G : ~(i > m)
      BY <2>1, <3>1
    <3>8. x \in Nat
      BY <1>a, <2>1, <3>0
    <3>9. \A i \in (1..n) \ G : i > m => x > g /\ num[i] < g
      BY <3>4, <3>5
    <3> QED BY <3>3, <3>5, <3>6, <3>7, <3>8, <3>9 DEF Fitting
  <2>4. CASE m \notin G /\ num[m] <= top
    <3>0. m \in (1..n) \ G
      BY <2>1, <2>4
    <3>1. m = n
      <4> SUFFICES ASSUME m < n PROVE FALSE
        BY <2>1
      <4>1. m + 1 \in 1..n /\ num[m + 1] < num[m]
        BY <1>a, <2>1
      <4>2. m + 1 \notin G
        BY <1>f, <2>1, <2>4, <4>1
      <4> QED BY <1>a, <1>e, <2>4, <3>0, <4>1, <4>2
    <3>2. x >= 1 /\ x # 1 /\ x <= top + 1 /\ x < g
      BY <1>a, <1>c, <2>1, <2>4, <3>0
    <3>3. \A i \in (1..n) \ G : num[i] < x \/ num[i] > g
      BY <1>a, <1>e, <2>1, <2>4, <3>0, <3>1
    <3> QED BY <1>a, <2>1, <3>1, <3>2, <3>3 DEF Fitting
  <2>5. num[m] <= top \/ num[m] > g \/ m \in G
    BY <1>c, <2>1
  <2> QED BY <2>2, <2>3, <2>4, <2>5
<1>5. n = 0 \/ n = 1 \/ n > 1
  OBVIOUS
<1>6. n = 0 \/ num[1] > 1 \/ num[1] <= 1
  BY <1>a, <1>5
<1> QED BY <1>1, <1>2, <1>3, <1>4, <1>5, <1>6

\* The place a node had before one was put in behind place m.
Before(m, j) == IF j <= m THEN j ELSE j - 1
PutIn(n, m, x, G, num, H, new) ==
    /\ m + 1 \notin H /\ new[m + 1] = x
    /\ \A j \in 1..(n + 1) : j # m + 1 =>
          (j \in H <=> Before(m, j) \in G) /\ new[j] = num[Before(m, j)]

LEMMA InsertShaped ==
  ASSUME NEW g \in Nat, NEW top \in Nat, top + 1 < g, NEW n \in Nat,
         NEW G \in SUBSET (1..n), NEW num \in [1..n -> Nat],
         Shaped(g, top, n, G, num),
         NEW m \in 0..n, NEW x \in Nat, Fitting(g, top, n, G, num, m, x),
         NEW H \in SUBSET (1..(n + 1)), NEW new \in [1..(n + 1) -> Nat],
         PutIn(n, m, x, G, num, H, new)
  PROVE  Shaped(g, top + 1, n + 1, H, new)
<1> DEFINE B(j) == Before(m, j)
<1>0. /\ m + 1 \notin H /\ new[m + 1] = x
      /\ \A j \in 1..(n + 1) : j # m + 1 =>
             (j \in H <=> B(j) \in G) /\ new[j] = num[B(j)]
  BY DEF PutIn
<1> USE <1>0
<1>1. /\ \A j \in 1..(n + 1) : j # m + 1 => B(j) \in 1..n
      /\ \A j, k \in 1..(n + 1) : j < k /\ j # m + 1 /\ k # m + 1 => B(j) < B(k)
      /\ \A j \in 1..(n + 1) : j # m + 1 => (j <= m <=> B(j) <= m)
      /\ \A j \in 1..(n + 1) : j # m + 1 /\ B(j) = 1 => j = 1 \/ (m = 0 /\ j = 2)
      /\ \A j \in 1..(n + 1) : j # m + 1 /\ j > 1 => B(j) > 1 \/ m = 0
  BY DEF Before
<1>2. /\ \A j \in H : j # m + 1 /\ B(j) \in G /\ new[j] = num[B(j)]
      /\ \A j \in (1..(n + 1)) \ H : j # m + 1 =>
            B(j) \in (1..n) \ G /\ new[j] = num[B(j)]
  BY <1>1
<1>a. \A i \in 1..n : num[i] \in Nat
  OBVIOUS
<1>b. \A i \in G : num[i] = g \/ (num[i] = 0 /\ i = 1)
  BY DEF Shaped, Haunted
<1>c. \A i \in (1..n) \ G : num[i] >= 1 /\ (num[i] = 1 => i = 1)
  BY DEF Shaped, Counted
<1>d. \A i \in (1..n) \ G : num[i] <= top
                   \/ (num[i] > g /\ \E h \in G : h < i /\ num[h] = g)
  BY DEF Shaped, Counted
<1>e. \A i, j \in (1..n) \ G : i < j =>
           /\ num[i] < num[j] \/ (num[i] > g /\ num[j] < g)
           /\ i > 1 /\ num[i] < g => num[j] < g
  BY DEF Shaped, Sorted
<1>f. \A i, j \in 1..n : i < j /\ j \in G => i \in G \/ (i = 1 /\ num[1] = 1)
  BY DEF Shaped, Fronted
<1>g. /\ x >= 1 /\ (x = 1 => m = 0)
      /\ x <= top + 1 \/ (x > g /\ \E h \in G : h <= m /\ num[h] = g)
  BY DEF Fitting
<1>h. \A i \in (1..n) \ G : i <= m =>
          /\ num[i] < x \/ (num[i] > g /\ x < g)
          /\ i > 1 /\ num[i] < g => x < g
  BY DEF Fitting
<1>i. \A i \in (1..n) \ G : i > m =>
          /\ x < num[i] \/ (x > g /\ num[i] < g)
          /\ m > 0 /\ x < g => num[i] < g
  BY DEF Fitting
<1>j. \A i \in G : i > m => m = 0
  BY DEF Fitting
<1>k. m = 0 => x = 1 /\ (n = 0 \/ num[1] > 1)
  BY DEF Fitting
<1>5. ASSUME NEW i \in G, num[i] = g
      PROVE  \E h \in H : new[h] = g /\ B(h) = i /\ (i <= m => h = i)
                          /\ (m = 0 => h = i + 1)
  <2> DEFINE h == IF i <= m THEN i ELSE i + 1
  <2>0. i \in 1..n
    OBVIOUS
  <2>1. h \in 1..(n + 1) /\ h # m + 1 /\ B(h) = i
    BY <2>0 DEF Before
  <2> HIDE DEF h
  <2>2. (h \in H <=> B(h) \in G) /\ new[h] = num[B(h)]
    BY <2>1
  <2>4. h \in H /\ new[h] = g
    BY <1>5, <2>1, <2>2
  <2>3. (i <= m => h = i) /\ (m = 0 => h = i + 1)
    BY <2>0 DEF h
  <2> QED BY <2>1, <2>3, <2>4
<1> HIDE DEF B
<1>7. Haunted(g, H, new)
  <2> SUFFICES ASSUME NEW j \in H
               PROVE  new[j] \in {0, g} /\ (new[j] = 0 => j = 1)
    BY DEF Haunted
  <2>1. B(j) \in G /\ new[j] = num[B(j)] /\ j # m + 1
    BY <1>2
  <2>2. num[B(j)] = g \/ (num[B(j)] = 0 /\ B(j) = 1)
    BY <1>b, <2>1
  <2>3. m = 0 => num[1] > 1
    BY <1>k, <2>1
  <2>4. num[B(j)] = 0 => B(j) = 1 /\ m # 0
    BY <2>2, <2>3
  <2>5. B(j) = 1 /\ m # 0 => j = 1
    BY <1>1, <2>1
  <2> QED BY <2>1, <2>2, <2>4, <2>5
<1>8. Counted(g, top + 1, n + 1, H, new)
  <2> SUFFICES ASSUME NEW j \in (1..(n + 1)) \ H
               PROVE  /\ new[j] >= 1 /\ (new[j] = 1 => j = 1)
                      /\ \/ new[j] <= top + 1
                         \/ new[j] > g /\ \E h \in H : h < j /\ new[h] = g
    BY DEF Counted
  <2>1. CASE j = m + 1
    <3>1. new[j] = x /\ x >= 1 /\ (x = 1 => j = 1)
      BY <1>g, <2>1
    <3>2. ASSUME NEW h \in G, h <= m, num[h] = g
          PROVE  \E i \in H : i < j /\ new[i] = g
      <4>1. PICK i \in H : new[i] = g /\ (h <= m => i = h)
        BY <1>5, <3>2
      <4> QED BY <2>1, <3>2, <4>1
    <3> QED BY <1>g, <3>1, <3>2
  <2>2. CASE j # m + 1
    <3>1. B(j) \in (1..n) \ G /\ new[j] = num[B(j)]
      BY <1>2, <2>2
    <3>2. new[j] >= 1 /\ (new[j] = 1 => j = 1)
      BY <1>1, <1>c, <1>k, <2>2, <3>1
    <3>3. CASE num[B(j)] <= top
      BY <3>1, <3>2, <3>3
    <3>4. CASE num[B(j)] > g /\ \E h \in G : h < B(j) /\ num[h] = g
      <4>1. PICK h \in G : h < B(j) /\ num[h] = g
        BY <3>4
      <4>2. PICK i \in H : new[i] = g /\ B(i) = h
        BY <1>5, <4>1
      <4>3. i < j
        <5>1. i \in 1..(n + 1) /\ i # m + 1 /\ B(i) < B(j)
          BY <1>2, <4>1, <4>2
        <5>3. B(i) \in 1..n /\ B(j) \in 1..n
          BY <1>1, <2>2, <5>1
        <5>4. j < i => B(j) < B(i)
          BY <1>1, <2>2, <5>1
        <5>2. ~(j < i)
          BY <5>1, <5>3, <5>4
        <5>5. i # j
          BY <5>1, <5>3
        <5> QED BY <5>1, <5>2, <5>5
      <4> QED BY <3>1, <3>2, <3>4, <4>2, <4>3
    <3> QED BY <1>d, <3>1, <3>3, <3>4
  <2> QED BY <2>1, <2>2
<1>9. Sorted(g, n + 1, H, new)
  <2> SUFFICES ASSUME NEW j \in (1..(n + 1)) \ H, NEW k \in (1..(n + 1)) \ H, j < k
               PROVE  /\ new[j] < new[k] \/ (new[j] > g /\ new[k] < g)
                      /\ j > 1 /\ new[j] < g => new[k] < g
    BY DEF Sorted
  <2>1. CASE j = m + 1
    <3>1. B(k) \in (1..n) \ G /\ new[k] = num[B(k)] /\ B(k) > m
      BY <1>1, <1>2, <2>1
    <3>2. /\ x < num[B(k)] \/ (x > g /\ num[B(k)] < g)
          /\ m > 0 /\ x < g => num[B(k)] < g
      BY <1>i, <3>1
    <3> QED BY <2>1, <3>1, <3>2
  <2>2. CASE k = m + 1
    <3>1. B(j) \in (1..n) \ G /\ new[j] = num[B(j)] /\ B(j) <= m
      BY <1>1, <1>2, <2>2
    <3>2. j > 1 => B(j) > 1
      BY <1>1, <2>2
    <3>3. /\ num[B(j)] < x \/ (num[B(j)] > g /\ x < g)
          /\ B(j) > 1 /\ num[B(j)] < g => x < g
      BY <1>h, <3>1
    <3> QED BY <2>2, <3>1, <3>2, <3>3
  <2>3. CASE j # m + 1 /\ k # m + 1
    <3>1. /\ B(j) \in (1..n) \ G /\ new[j] = num[B(j)]
          /\ B(k) \in (1..n) \ G /\ new[k] = num[B(k)] /\ B(j) < B(k)
          /\ j > 1 => B(j) > 1 \/ m = 0
      BY <1>1, <1>2, <2>3
    <3>2. new[j] < new[k] \/ (new[j] > g /\ new[k] < g)
      BY <1>e, <3>1
    <3>3. CASE B(j) > 1
      BY <1>e, <3>1, <3>2, <3>3
    <3>4. CASE B(j) = 1 /\ m = 0 /\ new[j] < g
      <4>1. 1 \in (1..n) \ G /\ n # 0
        BY <3>1, <3>4
      <4>2. num[1] # 1
        BY <1>a, <1>k, <3>4, <4>1
      <4>3. ASSUME NEW h \in G PROVE FALSE
        <5>1. h \in 1..n /\ h # 1
          BY <4>1
        <5>2. 1 < h /\ 1 \in 1..n
          BY <5>1
        <5> QED BY <1>f, <4>1, <4>2, <5>1, <5>2
      <4>4. num[B(k)] <= top
        BY <1>d, <3>1, <4>3
      <4> QED BY <3>1, <3>2, <4>4
    <3>5. B(j) = 1 \/ B(j) > 1
      BY <3>1
    <3> QED BY <3>1, <3>2, <3>3, <3>4, <3>5
  <2> QED BY <2>1, <2>2, <2>3
<1>10. Fronted(n + 1, H, new)
  <2> SUFFICES ASSUME NEW j \in 1..(n + 1), NEW k \in 1..(n + 1), j < k, k \in H
               PROVE  j \in H \/ (j = 1 /\ new[1] = 1)
    BY DEF Fronted
  <2>1. k # m + 1 /\ B(k) \in G
    BY <1>2
  <2>2. CASE j = m + 1
    <3>1. m = 0
      BY <1>1, <1>j, <2>1, <2>2
    <3>2. n > 0 /\ num[1] > 1
      BY <1>k, <2>1, <3>1
    <3>3. 1 \in G
      <4>1. B(k) \in 1..n
        BY <2>1
      <4>2. 1 \in 1..n /\ (B(k) = 1 \/ 1 < B(k)) /\ num[1] # 1
        <5>1. 1 \in 1..n /\ (B(k) = 1 \/ 1 < B(k))
          BY <4>1
        <5> QED BY <1>a, <3>2, <5>1
      <4> QED BY <1>f, <2>1, <4>1, <4>2
    <3>4. x = 1
      BY <1>k, <3>1
    <3> QED BY <2>2, <3>1, <3>4
  <2>3. CASE j # m + 1
    <3>1. B(j) < B(k) /\ B(j) \in 1..n /\ B(k) \in 1..n
      BY <1>1, <2>1, <2>3
    <3>2. B(j) \in G \/ (B(j) = 1 /\ num[1] = 1)
      BY <1>f, <2>1, <3>1
    <3>3. CASE B(j) \in G
      BY <2>3, <3>3 DEF B
    <3>4. CASE B(j) = 1 /\ num[1] = 1
      <4>1. m # 0
        BY <1>k, <3>1, <3>4
      <4>2. j = 1 /\ new[1] = num[1]
        <5>1. j = 1
          BY <1>1, <2>3, <3>4, <4>1
        <5> QED BY <2>3, <3>4, <5>1 DEF B
      <4> QED BY <3>4, <4>2
    <3> QED BY <3>2, <3>3, <3>4
  <2> QED BY <2>2, <2>3
<1> QED BY <1>7, <1>8, <1>9, <1>10 DEF Shaped

-----------------------------------------------------------------------------
\* No job is listed twice.
Once == \A i, j \in 1..Len(list) : i < j => list[i] # list[j]

Shape(g) == Once /\ Shaped(g, started, Len(list), Ghosts, Numbering)

\* What freed memory says is no number a job may get.
Plain(g) == g \in Nat /\ MaxJobs < g /\ Garbage \subseteq {0, g}

LEMMA ViewType ==
  ASSUME IInv
  PROVE  /\ JTypeOK /\ Loop /\ Past
         /\ Len(list) \in Nat /\ Ghosts \in SUBSET (1..Len(list))
         /\ Numbering \in [1..Len(list) -> Nat]
         /\ \A i \in 1..Len(list) : /\ Numbering[i] = Num(list, i)
                                    /\ list[i] \in Program /\ list[i] \in Listed
         /\ started \in Nat /\ started <= MaxJobs /\ MaxJobs \in Nat
         /\ Listed \subseteq Program
<1>1. JTypeOK /\ Loop /\ Past
  BY DEF IInv, Numbers
<1>2. /\ Len(list) \in Nat /\ Listed \subseteq Program
      /\ \A i \in 1..Len(list) : list[i] \in Program /\ Num(list, i) \in Nat
  BY <1>1, OfTheList
<1>3. started \in Nat /\ started <= MaxJobs /\ MaxJobs \in Nat
  BY <1>1, JobsAssumption DEF JTypeOK
<1> QED BY <1>1, <1>2, <1>3 DEF Ghosts, Numbering, Listed

\* The list, its nodes and its numbers as they were.
LEMMA SameShape ==
  ASSUME IInv, NEW g, Shape(g), UNCHANGED <<list, nodes, started>>,
         \A p \in Listed : job'[p].num = job[p].num
  PROVE  Shape(g)'
<1>1. Ghosts' = Ghosts /\ Once'
  BY DEF Ghosts, Once, Shape
<1>2. Numbering' = Numbering
  BY DEF Numbering, Num, Listed
<1> QED BY <1>1, <1>2 DEF Shape

\* A place is that of one job.
LEMMA PlaceOf ==
  ASSUME IInv, Once, NEW i \in 1..Len(list), NEW j \in 1..Len(list), list[i] = list[j]
  PROVE  i = j
<1>1. i < j \/ j < i \/ i = j
  BY ViewType
<1> QED BY <1>1 DEF Once

\* remove_job_index finds the job it is meant to, if any.
LEMMA RemovedIsIt ==
  ASSUME IInv, NEW g, Plain(g), Shape(g), NEW i \in (1..Len(list)) \ Ghosts,
         NEW k \in RemovedAt(list, Num(list, i))
  PROVE  k = i /\ (i = 1 <=> Num(list, i) = 1)
<1> DEFINE num == Num(list, i)
<1>0. /\ g \in Nat /\ started < g
      /\ Shaped(g, started, Len(list), Ghosts, Numbering)
  BY ViewType DEF Plain, Shape
<1>1. Numbering[i] = num /\ num \in Nat /\ num >= 1 /\ (num = 1 => i = 1)
  BY <1>0, ViewType DEF Shaped, Counted
<1>2. CASE num = 1
  BY <1>1, <1>2 DEF RemovedAt
<1>3. CASE num # 1
  <2>1. k \in 2..Len(list) /\ Num(list, k) = num
    BY <1>3 DEF RemovedAt
  <2>2. k \in 1..Len(list) /\ Numbering[k] = Numbering[i]
    BY <1>1, <2>1, ViewType
  <2>3. /\ g \in Nat /\ started \in Nat /\ started < g /\ Len(list) \in Nat
        /\ Ghosts \in SUBSET (1..Len(list))
        /\ Numbering \in [1..Len(list) -> Nat]
        /\ Shaped(g, started, Len(list), Ghosts, Numbering)
        /\ i \in (1..Len(list)) \ Ghosts
    BY <1>0, ViewType
  <2>4. i = k
    BY ONLY <2>2, <2>3, ShapedApart
  <2> QED BY <1>3, <2>1, <2>4
<1> QED BY <1>2, <1>3

\* The node at place i, no ghost, is unlinked and freed.
LEMMA UnlinksShape ==
  ASSUME IInv, NEW g, Plain(g), Shape(g), NEW i \in (1..Len(list)) \ Ghosts,
         Unlinks(i), nodes' = nodes \ {list[i]}, started' = started
  PROVE  /\ Shape(g)'
         /\ Len(list') = Len(list) - 1
         /\ \A j \in 1..(Len(list) - 1) : list'[j] = list[Behind(i, j)]
         /\ list[i] \notin Listed'
         /\ \A q \in Listed : q # list[i] => q \in Listed'
         /\ Listed' \subseteq Listed
         /\ \A q \in Program : q # list[i] => job'[q] = job[q]
         /\ job'[list[i]].num = 0
<1> DEFINE n == Len(list)
<1>0. /\ JTypeOK /\ list \in Seq(Program) /\ n \in Nat /\ i \in 1..n
      /\ \A j \in 1..n : list[j] \in Program /\ list[j] \in Listed
  BY ViewType DEF JTypeOK
<1>1. /\ Len(list') = n - 1
      /\ \A j \in 1..(n - 1) :
            list'[j] = IF j < i THEN list[j] ELSE list[j + 1]
  <2> DEFINE r == RemoveAt(list, i)
  <2>1. list' = r
    BY DEF Unlinks
  <2>2. /\ Len(r) = Len(list) - 1
        /\ \A j \in 1..(Len(list) - 1) :
              r[j] = IF j < i THEN list[j] ELSE list[j + 1]
    BY ONLY <1>0, RemoveAtPlaces
  <2> HIDE DEF r
  <2> QED BY <2>1, <2>2
<1>2. \A j \in 1..(n - 1) : /\ list'[j] = list[Behind(i, j)]
                            /\ Behind(i, j) \in 1..n /\ Behind(i, j) # i
  BY <1>0, <1>1 DEF Behind
<1>3. \A j \in 1..n : j # i => list[j] # list[i]
  BY <1>0, PlaceOf DEF Shape
<1>4. /\ \A q \in Program : q # list[i] => job'[q] = job[q]
      /\ job'[list[i]].num = 0
  BY <1>0 DEF Unlinks, JTypeOK, Unused
<1>5. list[i] \notin Listed' /\ Listed' \subseteq Listed
  BY <1>1, <1>2, <1>3 DEF Listed
<1>6. ASSUME NEW q \in Listed, q # list[i]
      PROVE  q \in Listed'
  <2>1. PICK j \in 1..n : list[j] = q
    BY DEF Listed
  <2>2. CASE j < i
    <3>1. j \in 1..(n - 1) /\ list'[j] = q
      BY <1>0, <1>1, <2>1, <2>2
    <3> QED BY <1>1, <3>1 DEF Listed
  <2>3. CASE j > i
    <3>1. j - 1 \in 1..(n - 1) /\ list'[j - 1] = q
      BY <1>0, <1>1, <2>1, <2>3
    <3> QED BY <1>1, <3>1 DEF Listed
  <2>4. j # i
    BY <1>6, <2>1
  <2> QED BY <1>0, <2>2, <2>3, <2>4
<1>7. Once'
  <2> SUFFICES ASSUME NEW j \in 1..(n - 1), NEW k \in 1..(n - 1), j < k
               PROVE  list'[j] # list'[k]
    BY <1>1 DEF Once
  <2>1. Behind(i, j) < Behind(i, k)
    BY <1>0 DEF Behind
  <2>2. Behind(i, j) # Behind(i, k)
    BY <1>2, <2>1
  <2> QED BY <1>2, <2>2, PlaceOf DEF Shape
<1>8. Shaped(g, started', Len(list'), Ghosts', Numbering')
  <2> DEFINE H == Ghosts'
             new == Numbering'
  <2>1. Shaped(g, started, n, Ghosts, Numbering) /\ g \in Nat /\ started < g
    BY ViewType DEF Shape, Plain
  <2>2. H \in SUBSET (1..(n - 1))
    BY <1>1 DEF Ghosts
  <2>3. ASSUME NEW j \in 1..(n - 1)
        PROVE  j \in H <=> Behind(i, j) \in Ghosts
    <3>1. list'[j] \in nodes' <=> list[Behind(i, j)] \in nodes
      BY <1>2, <1>3
    <3> QED BY <1>1, <1>2, <3>1 DEF Ghosts
  <2>4. ASSUME NEW j \in 1..(n - 1)
        PROVE  new[j] = Numbering[Behind(i, j)] /\ new[j] \in Nat
    <3>1. new[j] = job'[list'[j]].num
      BY <1>1 DEF Numbering, Num
    <3>2. job'[list'[j]] = job[list[Behind(i, j)]]
      BY <1>0, <1>2, <1>3, <1>4
    <3>3. Numbering[Behind(i, j)] = job[list[Behind(i, j)]].num
      BY <1>2 DEF Numbering, Num
    <3>4. Numbering[Behind(i, j)] \in Nat
      BY <1>2, ViewType
    <3> QED BY <3>1, <3>2, <3>3, <3>4
  <2>5. new = [j \in 1..Len(list') |-> Num(list, j)']
    BY DEF Numbering
  <2>6. new \in [1..(n - 1) -> Nat]
    <3>1. \A j \in 1..Len(list') : Num(list, j)' \in Nat
      BY <1>1, <2>4, <2>5
    <3> HIDE DEF new
    <3> QED BY <1>1, <2>5, <3>1
  <2>7. PICK G, num, top, I, new1 : /\ G = Ghosts /\ num = Numbering /\ top = started
                                /\ I = H /\ new1 = new
    OBVIOUS
  <2> HIDE DEF H, new
  <2>8. /\ top \in Nat /\ G \in SUBSET (1..n) /\ num \in [1..n -> Nat]
        /\ g \in Nat /\ top < g /\ n \in Nat
    BY <1>0, <2>1, <2>7, ViewType
  <2>9. /\ I \in SUBSET (1..(n - 1)) /\ new1 \in [1..(n - 1) -> Nat]
        /\ Shaped(g, top, n, G, num) /\ i \in (1..n) \ G
    BY <2>1, <2>2, <2>6, <2>7
  <2>11. TakenOut(n, i, G, num, I, new1)
    BY <2>3, <2>4, <2>7 DEF TakenOut
  <2> HIDE DEF n
  <2>10. Shaped(g, top, n - 1, I, new1)
    BY ONLY <2>8, <2>9, <2>11, RemoveShaped
  <2> QED BY <1>1, <2>7, <2>10 DEF H, new, n
<1> QED BY <1>1, <1>2, <1>4, <1>5, <1>6, <1>7, <1>8 DEF Shape

\* The head, job 1, becomes a ghost.
LEMMA FreesHeadShape ==
  ASSUME IInv, NEW g, Plain(g), Shape(g), list # <<>>, 1 \notin Ghosts,
         Num(list, 1) = 1, NEW x \in Garbage,
         job' = [job EXCEPT ![list[1]].num = x], UNCHANGED <<list, started>>,
         nodes' = nodes \ {list[1]}
  PROVE  Shape(g)'
<1> DEFINE n == Len(list)
           H == Ghosts'
           new == Numbering'
<1>0. /\ JTypeOK /\ n \in Nat /\ n > 0 /\ 1 \in 1..n /\ x \in {0, g}
      /\ \A j \in 1..n : list[j] \in Program
      /\ \A j \in 1..n : j # 1 => list[j] # list[1]
  <2>1. n > 0 /\ 1 \in 1..n
    BY ViewType DEF JTypeOK
  <2> QED BY <2>1, ViewType, PlaceOf DEF Plain, Shape
<1>1. Once'
  BY DEF Shape, Once
<1>2. H = Ghosts \cup {1}
  BY <1>0 DEF Ghosts
<1>3. new = [Numbering EXCEPT ![1] = x]
  <2>1. job'[list[1]].num = x /\ \A j \in 1..n : j # 1 => job'[list[j]] = job[list[j]]
    BY <1>0 DEF JTypeOK
  <2>2. new = [j \in 1..n |-> job'[list[j]].num]
    BY DEF Numbering, Num
  <2>3. Numbering = [j \in 1..n |-> job[list[j]].num]
    BY DEF Numbering, Num
  <2> HIDE DEF new, n
  <2> DEFINE w(j) == job'[list[j]].num
             v(j) == job[list[j]].num
  <2>4. w(1) = x /\ \A j \in 1..n : j # 1 => w(j) = v(j)
    BY <2>1
  <2>5. new = [j \in 1..n |-> w(j)] /\ Numbering = [j \in 1..n |-> v(j)]
    BY <2>2, <2>3
  <2> HIDE DEF w, v
  <2>6. new = [j \in 1..n |-> IF j = 1 THEN x ELSE v(j)]
    BY <2>4, <2>5
  <2> QED BY <2>5, <2>6
<1>4. /\ Shaped(g, started, n, Ghosts, Numbering) /\ g \in Nat
      /\ Numbering[1] = 1
  BY <1>0, ViewType DEF Shape, Plain
<1>5. PICK G, num, top : G = Ghosts /\ num = Numbering /\ top = started
  OBVIOUS
<1>6. /\ top \in Nat /\ G \in SUBSET (1..n) /\ num \in [1..n -> Nat]
      /\ g \in Nat /\ n \in Nat /\ n > 0 /\ x \in {0, g}
      /\ Shaped(g, top, n, G, num) /\ 1 \notin G /\ num[1] = 1
  BY <1>0, <1>4, <1>5, ViewType
<1> HIDE DEF H, new, n
<1>7. Shaped(g, top, n, G \cup {1}, [num EXCEPT ![1] = x])
  BY ONLY <1>6, FreeShaped
<1>8. Shaped(g, top, n, H, new)
  BY <1>2, <1>3, <1>5, <1>7
<1>9. Shaped(g, started', Len(list'), Ghosts', Numbering')
  BY <1>5, <1>8 DEF H, new, n
<1> QED BY <1>1, <1>9 DEF Shape

LEMMA PlaceShaped ==
  ASSUME IInv, NEW m \in PlaceBehind(list)
  PROVE  /\ m \in 0..Len(list)
         /\ Place(Len(list), Numbering, m)
         /\ NewNumber(list, m) = Given(Len(list), Numbering, m)
         /\ Len(list) > 0 => started > 0
<1>0. /\ Len(list) \in Nat /\ Program \subseteq Nat \ {0} /\ started \in Nat
      /\ \A i \in 1..Len(list) : /\ Numbering[i] = Num(list, i)
                                 /\ list[i] \in Program /\ list[i] <= started
  <2>1. Program \subseteq Nat \ {0}
    BY JobsAssumption DEF Program
  <2> QED BY <2>1, ViewType DEF Past
<1>1. m \in 0..Len(list)
  BY PlaceType DEF IInv
<1>2. list = <<>> <=> Len(list) = 0
  BY ViewType DEF JTypeOK
<1>3. Place(Len(list), Numbering, m)
  <2>1. CASE Len(list) = 0
    BY <1>2, <2>1 DEF PlaceBehind, Place
  <2>2. CASE Len(list) # 0
    <3>1. 1 \in 1..Len(list)
      BY <1>0, <2>2
    <3> QED BY <1>0, <1>2, <2>2, <3>1 DEF PlaceBehind, Place
  <2> QED BY <2>1, <2>2
<1>4. NewNumber(list, m) = Given(Len(list), Numbering, m)
  BY <1>0, <1>1 DEF NewNumber, Given
<1>5. Len(list) > 0 => started > 0
  <2> SUFFICES ASSUME Len(list) > 0 PROVE started > 0
    OBVIOUS
  <2>1. 1 \in 1..Len(list)
    BY <1>0
  <2>2. list[1] \in Nat \ {0} /\ list[1] <= started
    BY <1>0, <2>1
  <2> QED BY <1>0, <2>2
<1> QED BY <1>1, <1>3, <1>4, <1>5

\* A new job takes its place.
LEMMA InsertsShape ==
  ASSUME IInv, NEW g, Plain(g), Shape(g), NEW p \in Program, p = started + 1,
         NEW m \in PlaceBehind(list), list' = InsertAt(list, m + 1, p),
         NEW x \in Nat, x = NewNumber(list, m), job'[p].num = x,
         \A q \in Program : q # p => job'[q] = job[q],
         nodes' = nodes \cup {p}, started' = p
  PROVE  Shape(g)' /\ Listed' = Listed \cup {p}
<1> DEFINE n == Len(list)
<1>0. /\ JTypeOK /\ list \in Seq(Program) /\ n \in Nat /\ m \in 0..n
      /\ started \in Nat /\ p \in Nat /\ g \in Nat /\ started + 1 < g
      /\ \A j \in 1..n : list[j] \in Program /\ list[j] # p /\ list[j] \in Listed
  <2>1. /\ JTypeOK /\ list \in Seq(Program) /\ n \in Nat /\ m \in 0..n
        /\ started \in Nat /\ g \in Nat /\ MaxJobs < g /\ MaxJobs \in Nat
        /\ \A j \in 1..n : list[j] \in Program /\ list[j] <= started /\ list[j] \in Listed
    BY ViewType, PlaceShaped DEF JTypeOK, Plain, Past
  <2>2. p \in Nat /\ p <= MaxJobs
    BY <2>1 DEF Program
  <2>3. \A j \in 1..n : list[j] # p
    <3>1. \A j \in 1..n : list[j] <= started /\ list[j] \in Nat
      BY <2>1 DEF Program
    <3> QED BY <2>1, <2>2, <3>1
  <2> QED BY <2>1, <2>2, <2>3
<1>1. Len(list') = n + 1
  <2> DEFINE i == m + 1
  <2>1. i \in 1..(n + 1) /\ list' = InsertAt(list, i, p) /\ list \in Seq(Program)
    BY <1>0
  <2> HIDE DEF i
  <2> QED BY ONLY <2>1, p \in Program, InsertAtLength
<1>2. ASSUME NEW j \in 1..(n + 1)
      PROVE  IF j = m + 1 THEN list'[j] = p
             ELSE list'[j] = list[Before(m, j)] /\ Before(m, j) \in 1..n
  <2> DEFINE i == m + 1
  <2>1. i \in 1..(n + 1) /\ list' = InsertAt(list, i, p) /\ list \in Seq(Program)
    BY <1>0
  <2> HIDE DEF i
  <2>2. list'[j] = IF j < i THEN list[j] ELSE IF j = i THEN p ELSE list[j - 1]
    BY ONLY <2>1, p \in Program, j \in 1..(Len(list) + 1), InsertAtPlace
  <2> QED BY <1>0, <2>2 DEF Before, i
<1>3. list'[m + 1] = p /\ m + 1 \in 1..(n + 1)
  BY <1>0, <1>2
<1>4. \A j \in 1..(n + 1) : j # m + 1 =>
         /\ list'[j] = list[Before(m, j)] /\ Before(m, j) \in 1..n
         /\ list'[j] # p
  BY <1>0, <1>2
<1>5. Listed' = Listed \cup {p}
  <2>1. Listed' \subseteq Listed \cup {p}
    <3> SUFFICES ASSUME NEW j \in 1..(n + 1) PROVE list'[j] \in Listed \cup {p}
      BY <1>1 DEF Listed
    <3>1. CASE j = m + 1
      BY <1>3, <3>1
    <3>2. CASE j # m + 1
      BY <1>0, <1>4, <3>2
    <3> QED BY <3>1, <3>2
  <2>2. p \in Listed'
    BY <1>0, <1>1, <1>3 DEF Listed
  <2>3. ASSUME NEW j \in 1..n PROVE list[j] \in Listed'
    <3>1. CASE j <= m
      <4>1. j \in 1..(n + 1) /\ j # m + 1 /\ Before(m, j) = j
        BY <1>0, <3>1 DEF Before
      <4> QED BY <1>1, <1>4, <4>1 DEF Listed
    <3>2. CASE j > m
      <4>1. j + 1 \in 1..(n + 1) /\ j + 1 # m + 1 /\ Before(m, j + 1) = j
        BY <1>0, <3>2 DEF Before
      <4> QED BY <1>1, <1>4, <4>1 DEF Listed
    <3> QED BY <1>0, <3>1, <3>2
  <2>4. Listed \subseteq Listed'
    BY <2>3 DEF Listed
  <2> QED BY <2>1, <2>2, <2>4
<1>6. Once'
  <2> SUFFICES ASSUME NEW j \in 1..(n + 1), NEW k \in 1..(n + 1), j < k
               PROVE  list'[j] # list'[k]
    BY <1>1 DEF Once
  <2>1. CASE j = m + 1 \/ k = m + 1
    BY <1>3, <1>4, <2>1
  <2>2. CASE j # m + 1 /\ k # m + 1
    <3>1. Before(m, j) < Before(m, k)
      BY <1>0, <2>2 DEF Before
    <3>2. Before(m, j) # Before(m, k)
      BY <1>4, <2>2, <3>1
    <3> QED BY <1>4, <2>2, <3>2, PlaceOf DEF Shape
  <2> QED BY <2>1, <2>2
<1>7. Shaped(g, started', Len(list'), Ghosts', Numbering')
  <2> DEFINE H == Ghosts'
             new == Numbering'
  <2>1. H \in SUBSET (1..(n + 1)) /\ m + 1 \notin H
    BY <1>1, <1>3 DEF Ghosts
  <2>2. new = [j \in 1..(n + 1) |-> job'[list'[j]].num]
    BY <1>1 DEF Numbering, Num
  <2>3. ASSUME NEW j \in 1..(n + 1), j # m + 1
        PROVE  /\ j \in H <=> Before(m, j) \in Ghosts
               /\ new[j] = Numbering[Before(m, j)] /\ new[j] \in Nat
    <3> DEFINE k == Before(m, j)
    <3>1. list'[j] = list[k] /\ k \in 1..n /\ list[k] # p /\ list[k] \in Program
      BY <1>0, <1>4, <2>3
    <3>2. j \in H <=> k \in Ghosts
      BY <1>1, <3>1 DEF Ghosts
    <3>3. new[j] = job'[list[k]].num
      BY <2>2, <3>1
    <3>4. job'[list[k]] = job[list[k]]
      BY <3>1
    <3>5. Numbering[k] = job[list[k]].num /\ Numbering[k] \in Nat
      BY <3>1, ViewType DEF Num
    <3> QED BY <3>2, <3>3, <3>4, <3>5
  <2>4. new[m + 1] = x
    BY <1>3, <2>2
  <2>5. \A j \in 1..(n + 1) : new[j] \in Nat
    BY <2>3, <2>4
  <2>6. new \in [1..(n + 1) -> Nat]
    BY <2>2, <2>5
  <2>7. /\ Shaped(g, started, n, Ghosts, Numbering)
        /\ Place(n, Numbering, m) /\ x = Given(n, Numbering, m)
        /\ n > 0 => started > 0
    BY PlaceShaped DEF Shape
  <2>8. PICK G, num, top, I, new1 : /\ G = Ghosts /\ num = Numbering /\ top = started
                                    /\ I = H /\ new1 = new
    OBVIOUS
  <2>9. /\ top \in Nat /\ G \in SUBSET (1..n) /\ num \in [1..n -> Nat]
        /\ g \in Nat /\ top + 1 < g /\ n \in Nat /\ m \in Nat /\ m \in 0..n
        /\ x \in Nat
    BY <1>0, <2>8, ViewType
  <2> HIDE DEF H, new
  <2>10. /\ I \in SUBSET (1..(n + 1)) /\ new1 \in [1..(n + 1) -> Nat]
         /\ PutIn(n, m, x, G, num, I, new1)
    BY <2>1, <2>3, <2>4, <2>6, <2>8 DEF PutIn
  <2>11. /\ Shaped(g, top, n, G, num) /\ Place(n, num, m) /\ x = Given(n, num, m)
         /\ n > 0 => top > 0
    BY <2>7, <2>8
  <2> HIDE DEF n
  <2>12. Fitting(g, top, n, G, num, m, x)
    BY ONLY <2>9, <2>11, GivenFits
  <2>13. Shaped(g, top + 1, n + 1, I, new1)
    BY ONLY <2>9, <2>10, <2>11, <2>12, InsertShaped
  <2>14. started' = top + 1 /\ Len(list') = n + 1
    BY <1>1, <2>8
  <2> QED BY <2>8, <2>13, <2>14 DEF H, new
<1> QED BY <1>5, <1>6, <1>7 DEF Shape

\* A new job takes its place, or none.
LEMMA AddShape ==
  ASSUME IInv, NEW g, Plain(g), Shape(g), NEW p \in Program, p = started + 1,
         NEW b \in BOOLEAN, AddJob(p, b), started' = p
  PROVE  /\ Shape(g)'
         /\ \/ Listed' = Listed \cup {p}
            \/ Listed' = Listed /\ job'[p].num \in {0, g} /\ PlaceBehind(list) = {}
         /\ \A q \in Program : q # p => job'[q] = job[q]
         /\ job'[p].status = "running" /\ nodes' = nodes \cup {p}
<1> DEFINE Node(x) == [num |-> x, ground |-> b, status |-> "running"]
<1>0. JTypeOK /\ nodes' = nodes \cup {p}
  BY ViewType DEF AddJob
<1>1. PICK x : job' = [job EXCEPT ![p] = Node(x)]
  BY DEF AddJob
<1>2. job'[p].status = "running" /\ \A q \in Program : q # p => job'[q] = job[q]
  BY <1>0, <1>1 DEF JTypeOK
<1>3. ASSUME NEW m \in PlaceBehind(list), list' = InsertAt(list, m + 1, p),
             job' = [job EXCEPT ![p] = Node(NewNumber(list, m))]
      PROVE  Shape(g)' /\ Listed' = Listed \cup {p}
  <2>1. PICK y : y = NewNumber(list, m)
    OBVIOUS
  <2>2. y \in Nat
    BY <1>0, <2>1, PlaceType
  <2>3. job'[p].num = y
    BY <1>0, <1>3, <2>1 DEF JTypeOK
  <2> QED BY <1>0, <1>2, <1>3, <2>1, <2>2, <2>3, InsertsShape
<1>4. ASSUME NEW y \in Garbage, PlaceBehind(list) = {}, UNCHANGED list,
             job' = [job EXCEPT ![p] = Node(y)]
      PROVE  Shape(g)' /\ Listed' = Listed /\ job'[p].num \in {0, g}
  <2>1. job'[p].num \in {0, g}
    BY <1>0, <1>4 DEF JTypeOK, Plain
  <2>2. Listed' = Listed /\ \A i \in 1..Len(list) : list[i] # p /\ list[i] \in Program
    <3>1. \A i \in 1..Len(list) : list[i] <= started /\ list[i] \in Nat
      BY ViewType DEF Past, Program
    <3> QED BY <1>4, <3>1, ViewType DEF Listed
  <2>3. Once' /\ Ghosts' = Ghosts
    BY <1>0, <1>4, <2>2 DEF Once, Shape, Ghosts
  <2>4. Numbering' = Numbering
    BY <1>2, <1>4, <2>2 DEF Numbering, Num
  <2>5. PICK G, num, top : G = Ghosts /\ num = Numbering /\ top = started
    OBVIOUS
  <2>6. top \in Nat /\ num \in [1..Len(list) -> Nat] /\ Shaped(g, top, Len(list), G, num)
    BY <2>5, ViewType DEF Shape
  <2>7. Shaped(g, top + 1, Len(list), G, num)
    <3>1. Counted(g, top + 1, Len(list), G, num)
      BY <2>6 DEF Shaped, Counted
    <3> QED BY <2>6, <3>1 DEF Shaped
  <2>8. Shaped(g, started', Len(list'), Ghosts', Numbering')
    BY <1>4, <2>3, <2>4, <2>5, <2>7
  <2> QED BY <2>1, <2>2, <2>3, <2>8 DEF Shape
<1> QED BY <1>0, <1>2, <1>3, <1>4 DEF AddJob

\* It has no place only where the numbers have a hole.
LEMMA NoPlace ==
  ASSUME IInv, PlaceBehind(list) = {}
  PROVE  \E i \in 2..(Len(list) - 1) : Num(list, i + 1) # Num(list, i) + 1
<1> DEFINE n == Len(list)
<1>1. n \in Nat /\ \A i \in 1..n : Num(list, i) \in Nat
  BY OfTheList DEF IInv
<1>2. list # <<>> /\ n # 1
  BY DEF PlaceBehind
<1>3. n >= 2
  <2>1. n # 0 /\ n # 1 /\ n \in Nat
    BY <1>1, <1>2, ViewType DEF JTypeOK
  <2> HIDE DEF n
  <2> QED BY ONLY <2>1
<1>4. SUFFICES ASSUME \A i \in 2..(n - 1) : Num(list, i + 1) = Num(list, i) + 1
               PROVE  FALSE
  OBVIOUS
<1>5. \A i \in 2..(n - 1) : Num(list, i) - Num(list, i + 1) = -1
  BY <1>1, <1>4
<1>6. WalkStops(list, n)
  BY <1>1, <1>3, <1>5 DEF WalkStops
<1>7. n \in 2..n
  BY <1>1, <1>3
<1> QED BY <1>2, <1>6, <1>7 DEF PlaceBehind

-----------------------------------------------------------------------------
\* A struct Job that is not linked has no job's number.
Unlinked(g) == \A p \in Program \ Listed : job[p].num \in {0, g}

\* What is freed, or done, has been reaped, and has nothing more to report.
Fates ==
    /\ \A p \in Listed : p \notin nodes => job[p].status # "done" /\ proc[p].st = "reaped"
    /\ \A p \in Listed : job[p].status = "done" => proc[p].st = "reaped"
    /\ \A p \in Program : proc[p].st = "reaped" => ~proc[p].changed

\* Behind job_count are all finished jobs, but for one at the head.
Swept ==
    pc = "clean" =>
       \A i \in 1..Len(list) : Finished(list[i]) =>
          \/ i = 1 /\ Num(list, 1) # 1
          \/ \E h \in 1..i : list[h] = job_count

Kept(g) == Shape(g) /\ Unlinked(g) /\ Fates /\ Swept /\ FinishedAtHead

\* Until the shell has crashed, or is undefined.
HInv(g) == pc \notin Over => Kept(g)

\* No program that is alive drops out of the list.
Stays ==
    \A p \in Program : Unfinished(p) /\ p \in Listed => p \in Listed'

\* The list, its nodes and its numbers as they were.
LEMMA QuietShape ==
  ASSUME IInv, NEW g, Kept(g), UNCHANGED <<list, nodes, started>>,
         \A p \in Program : job'[p].num = job[p].num
  PROVE  /\ Shape(g)' /\ Unlinked(g)'
         /\ Listed' = Listed /\ Stays
<1>1. Listed' = Listed /\ Listed \subseteq Program
  BY ViewType DEF Listed
<1>2. Shape(g)'
  BY <1>1, SameShape DEF Kept
<1> QED BY <1>1, <1>2 DEF Unlinked, Kept, Stays

LEMMA ProcHeads ==
  ASSUME IInv, NEW g, HInv(g), NEW p \in Program,
         Ends(p) \/ GetsLost(p) \/ Wakes(p) \/ Stops(p)
  PROVE  HInv(g)' /\ Stays
<1>1. UNCHANGED ShellKeeps /\ pc \notin Over
  BY SMTT(20) DEF Ends, GetsLost, Wakes, Stops, Awaited, Over
<1>2. /\ \A q \in Program : q # p => proc'[q] = proc[q]
      /\ proc[p].st # "reaped" /\ proc'[p].st # "reaped"
  BY DEF Ends, GetsLost, Wakes, Stops, IInv, JTypeOK
<1>3. Kept(g)
  BY <1>1 DEF HInv
<1>4. Shape(g)' /\ Unlinked(g)' /\ Listed' = Listed /\ Stays /\ Listed \subseteq Program
  BY <1>1, <1>3, QuietShape, ViewType DEF ShellKeeps
<1>5. Fates'
  BY <1>1, <1>2, <1>3, <1>4 DEF Kept, Fates, ShellKeeps
<1>6. Swept'
  BY <1>1, <1>3 DEF Kept, Swept, Finished, Num, ShellKeeps
<1>7. FinishedAtHead'
  BY <1>1, <1>3 DEF Kept, FinishedAtHead, Num, ShellKeeps
<1> QED BY <1>4, <1>5, <1>6, <1>7 DEF HInv, Kept

LEMMA PollHeads ==
  ASSUME IInv, NEW g, HInv(g), Poll
  PROVE  HInv(g)' /\ Stays
<1>1. /\ UNCHANGED <<list, nodes, current, started>> /\ pc = "top"
      /\ pc' \in {"clean"} \cup Over
      /\ job_count' = FirstJob(list)
      /\ \A q \in Program : job'[q] = IF q \in Polled
              THEN [job[q] EXCEPT !.status = PolledStatus(q)] ELSE job[q]
      /\ \A q \in Program : proc'[q] = IF q \in Polled
                   THEN Reported(q) ELSE proc[q]
  BY DEF Poll, PollLeadsTo, Over
<1>2. Kept(g) /\ JTypeOK /\ Listed \subseteq Program
  BY <1>1, ViewType DEF HInv, Over
<1>3. ASSUME NEW q \in Program
      PROVE  /\ job'[q].num = job[q].num
             /\ q \notin Polled => job'[q] = job[q] /\ proc'[q] = proc[q]
             /\ q \in Polled => /\ job'[q].status = PolledStatus(q)
                                /\ proc'[q] = Reported(q)
  <2>1. job[q] \in [num : Nat, ground : BOOLEAN, status : {"running", "stopped", "done"}]
    BY <1>2 DEF JTypeOK
  <2> QED BY <1>1, <2>1
<1>4. Shape(g)' /\ Unlinked(g)' /\ Listed' = Listed /\ Stays
  BY <1>1, <1>2, <1>3, QuietShape
<1>5. ASSUME NEW q \in Polled
      PROVE  /\ proc[q].changed /\ proc[q].st # "reaped" /\ q \in nodes /\ q \in Program
             /\ ~proc'[q].changed
             /\ job'[q].status = "done" => proc'[q].st = "reaped"
  <2>1. q \in Listed /\ q \in Program /\ proc[q].changed
    BY <1>2 DEF Polled
  <2>2. proc[q].st # "reaped" /\ q \in nodes
    BY <1>2, <2>1 DEF Kept, Fates
  <2>3. PolledStatus(q) = "done" => proc[q].st = "ended"
    BY DEF PolledStatus
  <2>4. proc[q] \in [st : {"none", "run", "stopped", "lost", "ended", "reaped"},
                     changed : BOOLEAN, flag : BOOLEAN, sleeps : BOOLEAN]
    BY <1>2, <2>1 DEF JTypeOK
  <2>5. ~Reported(q).changed /\ (proc[q].st = "ended" => Reported(q).st = "reaped")
    BY <2>4 DEF Reported, Gone
  <2> QED BY <1>3, <2>1, <2>2, <2>3, <2>5
<1>6. Fates'
  <2>1. ASSUME NEW q \in Listed
        PROVE  /\ q \notin nodes => job'[q].status # "done" /\ proc'[q].st = "reaped"
               /\ job'[q].status = "done" => proc'[q].st = "reaped"
    <3>1. CASE q \in Polled
      BY <1>5, <3>1
    <3>2. CASE q \notin Polled
      BY <1>2, <1>3, <3>2 DEF Kept, Fates
    <3> QED BY <3>1, <3>2
  <2>2. ASSUME NEW q \in Program, proc'[q].st = "reaped" PROVE ~proc'[q].changed
    BY <1>2, <1>3, <1>5, <2>2 DEF Kept, Fates
  <2> QED BY <1>1, <1>4, <2>1, <2>2 DEF Fates
<1>7. Swept'
  <2> SUFFICES ASSUME NEW i \in 1..Len(list)
               PROVE  \E h \in 1..i : list[h] = job_count'
    BY <1>1 DEF Swept
  <2>1. 1 \in 1..i /\ list # <<>>
    BY ViewType DEF JTypeOK
  <2> QED BY <1>1, <2>1 DEF FirstJob
<1>8. FinishedAtHead'
  BY <1>1 DEF FinishedAtHead, Over
<1> QED BY <1>4, <1>6, <1>7, <1>8 DEF HInv, Kept

\* A job behind the head is found.
LEMMA IsFound ==
  ASSUME IInv, NEW g, Plain(g), Shape(g), NEW i \in (1..Len(list)) \ Ghosts,
         RemovedAt(list, Num(list, i)) = {}
  PROVE  i = 1 /\ Num(list, 1) # 1
<1> DEFINE num == Num(list, i)
<1>1. num # 1
  BY DEF RemovedAt
<1>2. i \in 1..Len(list) /\ Len(list) \in Nat
  BY ViewType
<1>3. ASSUME i # 1
      PROVE  FALSE
  <2>1. PICK j \in 2..(i - 1) : Num(list, j) = num
    <3>1. i \in 2..Len(list)
      BY <1>2, <1>3
    <3>2. ~\A j \in 2..(i - 1) : Num(list, j) # num
      BY <1>1, <3>1 DEF RemovedAt
    <3> QED BY <3>2
  <2>2. /\ g \in Nat /\ started \in Nat /\ started < g /\ Len(list) \in Nat
        /\ Ghosts \in SUBSET (1..Len(list))
        /\ Numbering \in [1..Len(list) -> Nat]
        /\ Shaped(g, started, Len(list), Ghosts, Numbering)
        /\ i \in (1..Len(list)) \ Ghosts
    BY ViewType DEF Plain, Shape
  <2>3. j \in 1..Len(list) /\ Numbering[i] = Numbering[j] /\ i # j
    BY <1>2, <2>1, ViewType
  <2> QED BY ONLY <2>2, <2>3, ShapedApart
<1> QED BY <1>1, <1>3

LEMMA NextPlace ==
  ASSUME IInv, Once, NEW i \in 1..Len(list)
  PROVE  NextJob(list[i]) = IF i = Len(list) THEN NoJob ELSE list[i + 1]
<1> DEFINE k == CHOOSE n \in 1..Len(list) : list[n] = list[i]
<1>1. k \in 1..Len(list) /\ list[k] = list[i]
  OBVIOUS
<1>2. k = i
  <2> HIDE DEF k
  <2> QED BY <1>1, PlaceOf
<1> QED BY <1>2 DEF NextJob

LEMMA CleanUpHeads ==
  ASSUME IInv, NEW g, Plain(g), HInv(g), CleanUp
  PROVE  HInv(g)' /\ Stays
<1> DEFINE n == Len(list)
<1>1. /\ pc = "clean" /\ job_count # NoJob
      /\ UNCHANGED <<current, proc, started>>
      /\ job_count' = NextJob(job_count)
      /\ IF Finished(job_count)
         THEN RemoveJobIndex(job[job_count].num, NextJob(job_count))
         ELSE UNCHANGED <<list, nodes, job, older, pc>>
  BY DEF CleanUp
<1>2. Kept(g) /\ JTypeOK /\ Listed \subseteq Program /\ Loop /\ n \in Nat
  BY <1>1, ViewType DEF HInv, Over
<1>3. PICK i \in 1..n : list[i] = job_count
  <2>1. job_count \in Listed
    BY <1>1, <1>2 DEF Loop
  <2> QED BY <2>1 DEF Listed
<1>4. /\ i = n => job_count' = NoJob
      /\ i # n => i + 1 \in 1..n /\ job_count' = list[i + 1]
      /\ Once
  BY <1>1, <1>2, <1>3, NextPlace DEF Kept, Shape
<1>5. ASSUME NEW j \in 1..n, Finished(list[j]), j # i
      PROVE  (j = 1 /\ Num(list, 1) # 1) \/ i + 1 \in 1..j
  <2>1. \/ j = 1 /\ Num(list, 1) # 1
        \/ \E h \in 1..j : list[h] = job_count
    BY <1>1, <1>2, <1>5 DEF Kept, Swept
  <2>2. ASSUME NEW h \in 1..j, list[h] = job_count PROVE i + 1 \in 1..j
    <3>1. h \in 1..n
      BY <1>2
    <3>2. h = i
      BY <1>3, <1>4, <2>2, <3>1, PlaceOf
    <3> QED BY <1>5, <3>2
  <2> QED BY <2>1, <2>2
<1>6. CASE /\ UNCHANGED <<list, nodes, job, older, pc>>
           /\ Finished(list[i]) => i = 1 /\ Num(list, 1) # 1
  <2>1. Shape(g)' /\ Unlinked(g)' /\ Listed' = Listed /\ Stays
    BY <1>1, <1>2, <1>6, QuietShape
  <2>2. Fates'
    BY <1>1, <1>2, <1>6, <2>1 DEF Kept, Fates
  <2>3. Swept'
    <3> SUFFICES ASSUME NEW j \in 1..n, Finished(list[j])
                 PROVE  \/ j = 1 /\ Num(list, 1) # 1
                        \/ \E h \in 1..j : list[h] = job_count'
      BY <1>6 DEF Swept, Finished, Num
    <3>1. CASE j = i
      BY <1>6, <3>1
    <3>2. CASE j # i /\ i + 1 \in 1..j
      <4>1. i # n /\ list[i + 1] = job_count'
        BY <1>2, <1>4, <3>2
      <4> QED BY <3>2, <4>1
    <3> QED BY <1>5, <3>1, <3>2
  <2>4. FinishedAtHead'
    BY <1>1, <1>6 DEF FinishedAtHead
  <2> QED BY <2>1, <2>2, <2>3, <2>4 DEF HInv, Kept
<1>7. CASE Finished(list[i])
  <2> DEFINE num == Num(list, i)
             next == NextJob(job_count)
  <2>1. job[list[i]].status = "done" /\ list[i] \in Listed /\ list[i] \in Program
    BY <1>7, ViewType DEF Finished
  <2>2. list[i] \in nodes /\ i \notin Ghosts /\ proc[list[i]].st = "reaped"
    BY <1>2, <2>1 DEF Kept, Fates, Ghosts
  <2>3. RemoveJobIndex(num, next)
    BY <1>1, <1>3, <1>7 DEF Num
  <2>4. CASE RemovedAt(list, num) = {} /\ UNCHANGED <<list, nodes, job, older, pc>>
    <3>1. i = 1 /\ Num(list, 1) # 1
      BY <1>2, <2>2, <2>4, IsFound DEF Kept
    <3> QED BY <1>6, <2>4, <3>1
  <2>5. ASSUME NEW k \in RemovedAt(list, num), Unlinks(k),
               Frees(k, IF list[k] = next THEN "undefined" ELSE pc)
        PROVE  HInv(g)' /\ Stays
    <3>1. k = i
      BY <1>2, <2>2, RemovedIsIt DEF Kept
    <3>2. list[i] # next
      <4>1. CASE i = n
        BY <1>1, <1>3, <1>4, <4>1
      <4>2. CASE i # n
        <5>1. list[i + 1] # list[i]
          BY <1>2, <1>4, <4>2 DEF Once
        <5> QED BY <1>1, <1>4, <4>2, <5>1
      <4> QED BY <4>1, <4>2
    <3>3. nodes' = nodes \ {list[i]} /\ pc' = "clean"
      BY <1>1, <2>2, <2>5, <3>1, <3>2 DEF Frees
    <3>4. /\ Shape(g)' /\ Len(list') = n - 1
          /\ \A j \in 1..(n - 1) : list'[j] = list[Behind(i, j)]
          /\ list[i] \notin Listed' /\ Listed' \subseteq Listed
          /\ \A q \in Listed : q # list[i] => q \in Listed'
          /\ \A q \in Program : q # list[i] => job'[q] = job[q]
          /\ job'[list[i]].num = 0
      BY <1>1, <1>2, <2>2, <2>5, <3>1, <3>3, UnlinksShape DEF Kept
    <3>5. Unlinked(g)'
      BY <1>2, <3>4 DEF Kept, Unlinked
    <3>6. Fates'
      BY <1>1, <1>2, <3>3, <3>4 DEF Kept, Fates
    <3>7. Swept'
      <4> SUFFICES ASSUME NEW j \in 1..(n - 1), Finished(list[j])'
                   PROVE  \/ j = 1 /\ Num(list, 1)' # 1
                          \/ \E h \in 1..j : list'[h] = job_count'
        BY <3>4 DEF Swept
      <4> DEFINE m == Behind(i, j)
      <4>1. m \in 1..n /\ m # i /\ list'[j] = list[m] /\ (m = 1 => j = 1)
        BY <1>2, <3>4 DEF Behind
      <4>2. list[m] # list[i] /\ list[m] \in Program
        BY <1>4, <4>1, PlaceOf, ViewType
      <4>3. job'[list'[j]] = job[list[m]]
        BY <3>4, <4>1, <4>2
      <4>4. Finished(list[m])
        BY <4>1, <4>3 DEF Finished
      <4>5. CASE m = 1 /\ Num(list, 1) # 1
        <5>1. Num(list, j)' = Num(list, m)
          BY <4>3 DEF Num
        <5> QED BY <4>1, <4>5, <5>1
      <4>6. CASE i + 1 \in 1..m
        <5>1. i \in 1..j /\ i \in 1..(n - 1) /\ i # n /\ Behind(i, i) = i + 1
          BY <1>2, <4>1, <4>6 DEF Behind
        <5>2. list'[i] = job_count'
          BY <1>4, <3>4, <5>1
        <5> QED BY <5>1, <5>2
      <4> QED BY <1>5, <4>1, <4>4, <4>5, <4>6
    <3>8. FinishedAtHead'
      BY <3>3 DEF FinishedAtHead
    <3>9. Stays
      BY <2>2, <3>4 DEF Stays, Unfinished
    <3> QED BY <3>4, <3>5, <3>6, <3>7, <3>8, <3>9 DEF HInv, Kept
  <2> QED BY <2>3, <2>4, <2>5 DEF RemoveJobIndex
<1> QED BY <1>1, <1>3, <1>6, <1>7

LEMMA PromptsHeads ==
  ASSUME IInv, NEW g, HInv(g), Prompts
  PROVE  HInv(g)' /\ Stays
<1>1. /\ UNCHANGED <<list, nodes, job, proc, started>>
      /\ pc = "clean" /\ pc' = "prompt" /\ job_count = NoJob
  BY DEF Prompts
<1>2. Kept(g)
  BY <1>1 DEF HInv, Over
<1>3. Shape(g)' /\ Unlinked(g)' /\ Listed' = Listed /\ Stays
  BY <1>1, <1>2, QuietShape
<1>4. Fates'
  BY <1>1, <1>2, <1>3 DEF Kept, Fates
<1>5. Swept'
  BY <1>1 DEF Swept
<1>6. FinishedAtHead'
  <2>1. \A i \in 1..Len(list) : \A h \in 1..i : list[h] # job_count
    <3>1. \A h \in 1..Len(list) : list[h] \in Program
      BY ViewType
    <3> QED BY <1>1, <3>1, ViewType DEF Program, NoJob
  <2>2. \A i \in 1..Len(list) : Finished(list[i]) => i = 1 /\ Num(list, 1) # 1
    BY <1>1, <1>2, <2>1 DEF Kept, Swept
  <2> QED BY <1>1, <2>2 DEF FinishedAtHead, Finished, Num
<1> QED BY <1>3, <1>4, <1>5, <1>6 DEF HInv, Kept

LEMMA RunHeads ==
  ASSUME IInv, NEW g, Plain(g), HInv(g), NEW b \in BOOLEAN, NEW s \in BOOLEAN, Run(b, s)
  PROVE  /\ HInv(g)' /\ Stays
         /\ \A p \in Program : started < p /\ started' = p
              => \/ p \in Listed'
                 \/ \E i \in 2..(Len(list) - 1) : Num(list, i + 1) # Num(list, i) + 1
<1>1. PICK p : p = started + 1
  OBVIOUS
<1>2. /\ started' = p /\ AddJob(p, b)
      /\ proc' = [proc EXCEPT ![p].st = "run", ![p].sleeps = s]
      /\ pc = "prompt" /\ pc' \in {"wait", "top"}
  BY <1>1 DEF Run
<1>3. p \in Program /\ JTypeOK /\ Listed \subseteq Program
  BY <1>1, JobsAssumption, ViewType DEF Run, Program
<1>4. Kept(g)
  BY <1>2 DEF HInv, Over
<1>5. /\ Shape(g)'
      /\ \/ Listed' = Listed \cup {p}
         \/ Listed' = Listed /\ job'[p].num \in {0, g} /\ PlaceBehind(list) = {}
      /\ \A q \in Program : q # p => job'[q] = job[q]
      /\ job'[p].status = "running" /\ nodes' = nodes \cup {p}
  BY <1>1, <1>2, <1>3, <1>4, AddShape DEF Kept
<1>6. proc'[p].st = "run" /\ \A q \in Program : q # p => proc'[q] = proc[q]
  BY <1>2, <1>3 DEF JTypeOK
<1>7. p \notin Listed
  BY <1>1, ViewType DEF Past, Listed
<1>8. Unlinked(g)'
  BY <1>4, <1>5 DEF Kept, Unlinked
<1>9. Fates'
  <2>1. ASSUME NEW q \in Listed'
        PROVE  /\ q \notin nodes' => job'[q].status # "done" /\ proc'[q].st = "reaped"
               /\ job'[q].status = "done" => proc'[q].st = "reaped"
    <3>1. CASE q = p
      BY <1>5, <3>1
    <3>2. CASE q # p
      BY <1>3, <1>4, <1>5, <1>6, <3>2 DEF Kept, Fates
    <3> QED BY <3>1, <3>2
  <2>2. \A q \in Program : proc'[q].st = "reaped" => ~proc'[q].changed
    BY <1>4, <1>6 DEF Kept, Fates
  <2> QED BY <2>1, <2>2 DEF Fates
<1>10. Swept' /\ FinishedAtHead'
  BY <1>2 DEF Swept, FinishedAtHead
<1>11. Stays
  BY <1>5 DEF Stays
<1>12. p \in Listed' \/ \E i \in 2..(Len(list) - 1) : Num(list, i + 1) # Num(list, i) + 1
  BY <1>5, NoPlace
<1> QED BY <1>2, <1>5, <1>8, <1>9, <1>10, <1>11, <1>12 DEF HInv, Kept

\* What a command does to the record of one job, and to its process.
LEMMA ShellHeads ==
  ASSUME IInv, NEW g, HInv(g), pc \notin Over, pc' \notin {"clean", "prompt"},
         UNCHANGED <<list, nodes, started>>,
         \A q \in Program : job'[q].num = job[q].num /\
            (job'[q].status = "done" => job[q].status = "done"),
         \A q \in Program : proc[q].st = "reaped" => proc'[q] = proc[q],
         \A q \in Program : proc'[q].st = "reaped" => proc[q].st = "reaped"
  PROVE  HInv(g)' /\ Stays
<1>1. Kept(g) /\ Listed \subseteq Program
  BY ViewType DEF HInv
<1>2. Shape(g)' /\ Unlinked(g)' /\ Listed' = Listed /\ Stays
  BY <1>1, QuietShape
<1>3. Fates'
  BY <1>1, <1>2 DEF Kept, Fates
<1>4. Swept' /\ FinishedAtHead'
  BY DEF Swept, FinishedAtHead
<1> QED BY <1>2, <1>3, <1>4 DEF HInv, Kept

LEMMA ContinuedFate ==
  ASSUME JTypeOK, NEW p \in Program, proc' = proc \/ proc' = Continued(p)
  PROVE  /\ \A q \in Program : proc[q].st = "reaped" => proc'[q] = proc[q]
         /\ \A q \in Program : proc'[q].st = "reaped" => proc[q].st = "reaped"
<1>1. CASE proc' = proc
  BY <1>1
<1>2. CASE /\ proc[p].st = "stopped"
           /\ proc' = [proc EXCEPT ![p].st = "run", ![p].changed = TRUE]
  <2>1. proc'[p].st = "run" /\ \A q \in Program : q # p => proc'[q] = proc[q]
    BY <1>2 DEF JTypeOK
  <2> QED BY <1>2, <2>1
<1> QED BY <1>1, <1>2 DEF Continued

LEMMA FgHeads ==
  ASSUME IInv, NEW g, HInv(g), NEW arg, Fg(arg)
  PROVE  HInv(g)' /\ Stays
<1>0. JTypeOK
  BY DEF IInv
<1>1. PICK p \in FgCandidates(arg) :
        /\ At("prompt") /\ SetStatus(p, "running", FG)
        /\ IF ~Findable(p) THEN pc' = "top" /\ UNCHANGED proc
           ELSE IF Restarts(arg) THEN pc' = "fgcont" /\ proc' = Continued(p)
           ELSE pc' = "wait" /\ UNCHANGED proc
        /\ UNCHANGED <<list, nodes>>
  BY DEF Fg
<1>2. p \in Program
  BY <1>0, CandidatesListed, OfTheList
<1>3. /\ pc = "prompt" /\ pc' \in {"top", "fgcont", "wait"} /\ UNCHANGED started
      /\ proc' = proc \/ proc' = Continued(p)
  BY <1>1 DEF At
<1>4. \A q \in Program : job'[q].num = job[q].num /\
         (job'[q].status = "done" => job[q].status = "done")
  BY <1>0, <1>1, <1>2 DEF SetStatus, JTypeOK
<1> QED BY <1>0, <1>1, <1>2, <1>3, <1>4, ContinuedFate, ShellHeads DEF Over

LEMMA BgHeads ==
  ASSUME IInv, NEW g, HInv(g), NEW arg, Bg(arg)
  PROVE  HInv(g)' /\ Stays
<1>0. JTypeOK
  BY DEF IInv
<1>1. PICK p \in BgCandidates(arg) :
        /\ At("prompt")
        /\ IF job[p].status = "stopped"
           THEN /\ Resumes(p)
                /\ pc' = IF Findable(p) THEN "bgcont" ELSE "crashed"
           ELSE pc' = "top" /\ UNCHANGED <<job, proc>>
        /\ UNCHANGED <<list, nodes>>
  BY DEF Bg
<1>2. p \in Program
  BY <1>0, CandidatesListed, OfTheList
<1>3. /\ pc = "prompt" /\ pc' \in {"top", "bgcont", "crashed"} /\ UNCHANGED started
      /\ proc' = proc \/ proc' = Continued(p)
  BY <1>1 DEF At, Resumes
<1>4. \A q \in Program : job'[q].num = job[q].num /\
         (job'[q].status = "done" => job[q].status = "done")
  <2>1. CASE job' = [job EXCEPT ![p].status = "running", ![p].ground = job[p].ground]
    BY <1>0, <1>2, <2>1 DEF JTypeOK
  <2> QED BY <1>1, <2>1 DEF Resumes, SetStatus
<1> QED BY <1>0, <1>1, <1>2, <1>3, <1>4, ContinuedFate, ShellHeads DEF Over

LEMMA OtherHeads ==
  ASSUME IInv, NEW g, HInv(g), NEW do, NEW arg, NoCandidate(do, arg) \/ Other(do)
  PROVE  HInv(g)' /\ Stays
<1>1. /\ UNCHANGED <<list, nodes, job, proc, started>>
      /\ pc = "prompt" /\ pc' \in {"top", "left", "crashed"}
  BY DEF NoCandidate, Other, At
<1> QED BY <1>1, ShellHeads DEF Over

LEMMA ClearsHeads ==
  ASSUME IInv, NEW g, HInv(g), ClearsChanged
  PROVE  HInv(g)' /\ Stays
<1>1. /\ UNCHANGED <<list, nodes, job, started>>
      /\ pc' \in {"wait", "top"} /\ pc \in {"fgcont", "bgcont"}
      /\ proc' = [proc EXCEPT ![current].changed = FALSE]
  BY DEF ClearsChanged
<1>2. \A q \in Program : /\ proc'[q].st = proc[q].st
                         /\ ~proc[q].changed => ~proc'[q].changed
  BY <1>1 DEF IInv, JTypeOK
<1>3. Kept(g) /\ Listed \subseteq Program
  BY <1>1, ViewType DEF HInv, Over
<1>4. Shape(g)' /\ Unlinked(g)' /\ Listed' = Listed /\ Stays
  BY <1>1, <1>3, QuietShape
<1>5. Fates'
  BY <1>1, <1>2, <1>3, <1>4 DEF Kept, Fates
<1>6. Swept' /\ FinishedAtHead'
  BY <1>1 DEF Swept, FinishedAtHead
<1> QED BY <1>4, <1>5, <1>6 DEF HInv, Kept

\* The job the shell has waited for has ended.
LEMMA DropHeads ==
  ASSUME IInv, NEW g, Plain(g), HInv(g), pc = "wait", started' = started,
         NEW c \in Program, proc[c].changed, proc[c].st = "ended",
         proc' = [proc EXCEPT ![c] = Gone], DropJobIndex(job[c].num)
  PROVE  HInv(g)' /\ Stays
<1> DEFINE n == Len(list)
           num == job[c].num
<1>1. Kept(g) /\ JTypeOK /\ Listed \subseteq Program /\ n \in Nat
  BY ViewType DEF HInv, Over
<1>2. list # <<>> /\ 1 \in 1..n
  <2>1. list # <<>>
    BY DEF IInv, Numbers, Loop
  <2> QED BY <1>1, <2>1 DEF JTypeOK
<1>3. /\ proc'[c].st = "reaped" /\ ~proc'[c].changed
      /\ \A q \in Program : q # c => proc'[q] = proc[q]
      /\ job[c].status # "done" \/ c \notin Listed
      /\ c \in Listed => c \in nodes
  BY <1>1 DEF Kept, Fates, JTypeOK, Gone
<1>4. \A q \in Program : proc'[q].st = "reaped" => ~proc'[q].changed
  BY <1>1, <1>3 DEF Kept, Fates
<1>5. /\ pc' \in {"top", "undefined"}
      /\ pc' \notin Over => pc' = "top"
  BY DEF DropJobIndex, Frees, Over
<1>6. Swept' /\ FinishedAtHead'
  BY <1>5 DEF Swept, FinishedAtHead
<1>7. CASE /\ RemovedAt(list, num) = {}
           /\ UNCHANGED <<list, nodes, job, older>>
  <2>1. Shape(g)' /\ Unlinked(g)' /\ Listed' = Listed /\ Stays
    BY <1>1, <1>7, QuietShape
  <2>2. Fates'
    BY <1>1, <1>3, <1>4, <1>7, <2>1 DEF Kept, Fates
  <2> QED BY <1>6, <2>1, <2>2 DEF HInv, Kept
<1>8. ASSUME NEW k \in RemovedAt(list, num), Frees(k, "top"), c \in Listed,
             IF k > 1 THEN Unlinks(k)
             ELSE /\ \E x \in Garbage : job' = [job EXCEPT ![list[1]].num = x]
                  /\ older' \in {older, Touched(list[1])}
                  /\ UNCHANGED list
      PROVE  HInv(g)' /\ Stays
  <2>1. PICK i \in 1..n : list[i] = c
    BY <1>8 DEF Listed
  <2>2. i \in (1..n) \ Ghosts /\ Num(list, i) = num
    BY <1>3, <1>8, <2>1 DEF Ghosts, Num
  <2>3. k = i /\ (i = 1 <=> num = 1)
    BY <1>1, <1>8, <2>2, RemovedIsIt DEF Kept
  <2>4. nodes' = nodes \ {c}
    BY <1>8, <2>1, <2>3 DEF Frees
  <2>5. CASE i # 1
    <3>1. Unlinks(i)
      BY <1>1, <1>8, <2>1, <2>3, <2>5
    <3>2. /\ Shape(g)'
          /\ list[i] \notin Listed' /\ Listed' \subseteq Listed
          /\ \A q \in Listed : q # list[i] => q \in Listed'
          /\ \A q \in Program : q # list[i] => job'[q] = job[q]
          /\ job'[list[i]].num = 0
      BY <1>1, <2>1, <2>2, <2>4, <3>1, UnlinksShape DEF Kept
    <3>3. Unlinked(g)'
      BY <1>1, <2>1, <3>2 DEF Kept, Unlinked
    <3>4. Fates'
      BY <1>1, <1>3, <1>4, <2>1, <2>4, <3>2 DEF Kept, Fates
    <3>5. Stays
      BY <2>1, <3>2 DEF Stays, Unfinished
    <3> QED BY <1>6, <3>2, <3>3, <3>4, <3>5 DEF HInv, Kept
  <2>6. CASE i = 1
    <3>1. PICK x \in Garbage : job' = [job EXCEPT ![c].num = x]
      <4>1. ~(k > 1) /\ list[1] = c
        BY <2>1, <2>3, <2>6
      <4>2. \E x \in Garbage : job' = [job EXCEPT ![list[1]].num = x]
        BY <1>8, <4>1, Zenon
      <4> QED BY <4>1, <4>2
    <3>2. UNCHANGED list /\ Listed' = Listed
      BY <1>8, <2>3, <2>6 DEF Listed
    <3>3. Shape(g)'
      <4>1. /\ job' = [job EXCEPT ![list[1]].num = x] /\ nodes' = nodes \ {list[1]}
            /\ 1 \notin Ghosts /\ Num(list, 1) = 1 /\ Shape(g)
        BY <1>1, <2>1, <2>2, <2>3, <2>4, <2>6, <3>1 DEF Kept
      <4> QED BY ONLY IInv, Plain(g), <1>2, <3>2, <4>1, x \in Garbage,
                      started' = started, FreesHeadShape
    <3>4. \A q \in Program : /\ q # c => job'[q] = job[q]
                             /\ job'[q].status = job[q].status
      BY <1>1, <3>1 DEF JTypeOK
    <3>5. Unlinked(g)'
      BY <1>1, <1>8, <3>2, <3>4 DEF Kept, Unlinked
    <3>6. Fates'
      <4>1. ASSUME NEW q \in Listed
            PROVE  /\ q \notin nodes' => job'[q].status # "done" /\ proc'[q].st = "reaped"
                   /\ job'[q].status = "done" => proc'[q].st = "reaped"
        <5>1. CASE q = c
          BY <1>3, <1>8, <3>4, <5>1
        <5>2. CASE q # c
          BY <1>1, <1>3, <2>4, <3>4, <5>2 DEF Kept, Fates
        <5> QED BY <5>1, <5>2
      <4> QED BY <1>4, <3>2, <4>1 DEF Fates
    <3>7. Stays
      BY <3>2 DEF Stays
    <3> QED BY <1>6, <3>3, <3>5, <3>6, <3>7 DEF HInv, Kept
  <2> QED BY <2>5, <2>6
<1>9. ASSUME NEW k \in RemovedAt(list, num), Frees(k, "top"), c \notin Listed,
             IF k > 1 THEN Unlinks(k)
             ELSE /\ \E x \in Garbage : job' = [job EXCEPT ![list[1]].num = x]
                  /\ older' \in {older, Touched(list[1])}
                  /\ UNCHANGED list
      PROVE  HInv(g)' /\ Stays
  <2>1. /\ g \in Nat /\ g > 1 /\ started \in Nat /\ started < g
        /\ Shaped(g, started, n, Ghosts, Numbering)
    <3>1. MaxJobs \in Nat /\ MaxJobs >= 1
      BY JobsAssumption DEF Program
    <3> QED BY <1>1, <3>1, ViewType DEF Plain, Kept, Shape
  <2>2. num \in {0, g} /\ num # 1
    BY <1>1, <1>9, <2>1 DEF Kept, Unlinked
  <2>3. k \in 2..n /\ Num(list, k) = num
    BY <2>2 DEF RemovedAt
  <2>4. k \in 1..n /\ Numbering[k] = num /\ num \in Nat
    BY <1>1, <2>2, <2>3, ViewType
  <2>5. k \in Ghosts
    BY <2>1, <2>2, <2>4 DEF Shaped, Counted
  <2>6. list[k] \notin nodes /\ list[k] \in Listed
    BY <2>4, <2>5 DEF Ghosts, Listed
  <2>7. pc' = "undefined" /\ proc[list[k]].st = "reaped"
    BY <1>1, <1>9, <2>6 DEF Frees, Kept, Fates
  <2>8. Stays
    <3>1. Unlinks(k)
      BY <1>9, <2>3
    <3>2. ASSUME NEW q \in Listed, q # list[k] PROVE q \in Listed'
      <4>1. list' = RemoveAt(list, k)
        BY <3>1 DEF Unlinks
      <4>2. list \in Seq(Program)
        BY <1>1 DEF JTypeOK
      <4>3. /\ Len(RemoveAt(list, k)) = Len(list) - 1
            /\ \A j \in 1..(Len(list) - 1) :
                  RemoveAt(list, k)[j] = IF j < k THEN list[j] ELSE list[j + 1]
        BY ONLY <2>4, <4>2, RemoveAtPlaces
      <4>4. /\ Len(list') = n - 1
            /\ \A j \in 1..(n - 1) : list'[j] = IF j < k THEN list[j] ELSE list[j + 1]
        BY <4>1, <4>3
      <4>5. PICK j \in 1..n : list[j] = q
        BY DEF Listed
      <4>6. CASE j < k
        <5>1. j \in 1..(n - 1) /\ list'[j] = q
          BY <1>1, <2>4, <4>4, <4>5, <4>6
        <5> QED BY <4>4, <5>1 DEF Listed
      <4>7. CASE j > k
        <5>1. j - 1 \in 1..(n - 1) /\ list'[j - 1] = q
          BY <1>1, <2>4, <4>4, <4>5, <4>7
        <5> QED BY <4>4, <5>1 DEF Listed
      <4> QED BY <2>4, <3>2, <4>5, <4>6, <4>7
    <3> QED BY <2>7, <3>2 DEF Stays, Unfinished
  <2> QED BY <2>7, <2>8 DEF HInv, Over
<1>10. \/ RemovedAt(list, num) = {} /\ UNCHANGED <<list, nodes, job, older>>
       \/ \E k \in RemovedAt(list, num) :
            /\ Frees(k, "top")
            /\ IF k > 1 THEN Unlinks(k)
               ELSE /\ \E x \in Garbage : job' = [job EXCEPT ![list[1]].num = x]
                    /\ older' \in {older, Touched(list[1])}
                    /\ UNCHANGED list
  BY DEF DropJobIndex
<1> QED BY <1>7, <1>8, <1>9, <1>10

LEMMA WaitHeads ==
  ASSUME IInv, NEW g, Plain(g), HInv(g), WaitReturns
  PROVE  HInv(g)' /\ Stays
<1> DEFINE c == current
<1>0. /\ JTypeOK /\ c \in Program /\ Listed \subseteq Program
      /\ pc = "wait" /\ started' = started /\ proc[c].changed
      /\ proc' = [proc EXCEPT ![c] = Reported(c)]
  BY ViewType DEF WaitReturns, At, Loop
<1>1. Kept(g) /\ proc[c].st # "reaped"
  BY <1>0 DEF HInv, Over, Kept, Fates
<1>2. CASE proc[c].st = "ended" /\ DropJobIndex(job[c].num)
  BY <1>0, <1>2, DropHeads DEF Reported
<1>3. CASE /\ proc[c].st # "ended" /\ pc' = "top" /\ UNCHANGED <<list, nodes>>
           /\ job' = job \/ SetStatus(c, "stopped", BG)
  <2>1. \A q \in Program : /\ job'[q].num = job[q].num
                           /\ job'[q].status = "done" => job[q].status = "done"
    <3>1. CASE SetStatus(c, "stopped", BG)
      BY <1>0, <3>1 DEF SetStatus, JTypeOK
    <3> QED BY <1>3, <3>1
  <2>2. \A q \in Program : proc[q].st = "reaped" => proc'[q] = proc[q]
    BY <1>0, <1>1 DEF JTypeOK
  <2>3. \A q \in Program : proc'[q].st = "reaped" => proc[q].st = "reaped"
    <3>1. proc'[c].st # "reaped"
      BY <1>0, <1>1, <1>3 DEF JTypeOK, Reported
    <3>2. \A q \in Program : q # c => proc'[q] = proc[q]
      BY <1>0 DEF JTypeOK
    <3> QED BY <3>1, <3>2
  <2> QED BY <1>0, <1>3, <2>1, <2>2, <2>3, ShellHeads DEF Over
<1> QED BY <1>2, <1>3 DEF WaitReturns

LEMMA StepHeads ==
  ASSUME IInv, NEW g, Plain(g), HInv(g), [Next]_vars
  PROVE  HInv(g)' /\ Stays
<1>1. CASE UNCHANGED vars
  <2>1. UNCHANGED <<list, nodes, job, job_count, proc, started, pc>>
    BY <1>1 DEF vars
  <2>2. Listed' = Listed /\ Stays
    BY <2>1 DEF Listed, Stays
  <2>3. ASSUME pc \notin Over PROVE Kept(g)'
    <3>1. Kept(g)
      BY <2>3 DEF HInv
    <3>2. Shape(g)' /\ Unlinked(g)'
      BY <2>1, <3>1, QuietShape
    <3>3. Fates' /\ Swept' /\ FinishedAtHead'
      BY <2>1, <2>2, <3>1 DEF Kept, Fates, Swept, FinishedAtHead, Finished, Num
    <3> QED BY <3>2, <3>3 DEF Kept
  <2> QED BY <2>1, <2>2, <2>3 DEF HInv
<1>2. CASE \E p \in Program : Ends(p) \/ GetsLost(p) \/ Wakes(p) \/ Stops(p)
  BY <1>2, ProcHeads
<1>3. CASE Top
  BY <1>3, PollHeads, CleanUpHeads, PromptsHeads DEF Top
<1>4. CASE WaitReturns \/ ClearsChanged
  BY <1>4, WaitHeads, ClearsHeads
<1>5. ASSUME NEW c \in Commands, Command(c)
      PROVE  HInv(g)' /\ Stays
  <2>1. c.ground \in BOOLEAN /\ c.sleeps \in BOOLEAN
    BY JobsAssumption
  <2>2. \/ Run(c.ground, c.sleeps) \/ Fg(c.arg) \/ Bg(c.arg)
        \/ NoCandidate(c.do, c.arg) \/ Other(c.do)
    BY <1>5 DEF Command
  <2> QED BY <2>1, <2>2, RunHeads, FgHeads, BgHeads, OtherHeads
<1>6. CASE Halted
  BY <1>1, <1>6 DEF Halted
<1> QED BY <1>1, <1>2, <1>3, <1>4, <1>5, <1>6 DEF Next

LEMMA InitHeads ==
  ASSUME NEW g, Plain(g), Init
  PROVE  HInv(g)
<1>1. /\ list = <<>> /\ Len(list) = 0 /\ Listed = {} /\ Ghosts = {} /\ pc = "top"
      /\ \A p \in Program : job[p].num = 0 /\ proc[p].st = "none"
  BY DEF Init, Listed, Ghosts, Unused
<1>2. Shape(g)
  BY <1>1 DEF Shape, Once, Shaped, Fronted, Haunted, Counted, Sorted
<1>3. Unlinked(g) /\ Fates /\ Swept /\ FinishedAtHead
  BY <1>1 DEF Unlinked, Fates, Swept, FinishedAtHead
<1> QED BY <1>2, <1>3 DEF HInv, Kept

LEMMA StepLists ==
  ASSUME IInv, NEW g, Plain(g), HInv(g), [Next]_vars
  PROVE  [\A p \in Program :
            /\ Unfinished(p) /\ p \in Listed => p \in Listed'
            /\ started < p /\ started' = p
                 => \/ p \in Listed'
                    \/ \E i \in 2..(Len(list) - 1) :
                          Num(list, i + 1) # Num(list, i) + 1]_vars
<1>1. Stays
  BY StepHeads
<1>2. ASSUME Next, NEW p \in Program, started < p, started' = p
      PROVE  \/ p \in Listed'
             \/ \E i \in 2..(Len(list) - 1) : Num(list, i + 1) # Num(list, i) + 1
  <2>1. started' # started
    <3>1. started \in Nat
      BY ViewType
    <3> QED BY <1>2, <3>1
  <2>2. PICK c \in Commands : Run(c.ground, c.sleeps)
    BY <1>2, <2>1, Zenon DEF Next, Ends, GetsLost, Wakes, Stops, ShellKeeps, Top, Poll,
          CleanUp, Prompts, WaitReturns, ClearsChanged, Command, Fg, Bg, NoCandidate,
          Other, At, Halted, vars
  <2>3. c.ground \in BOOLEAN /\ c.sleeps \in BOOLEAN
    BY JobsAssumption
  <2> QED BY <1>2, <2>2, <2>3, RunHeads
<1> QED BY <1>1, <1>2 DEF Stays

-----------------------------------------------------------------------------
\* Whatever is typed, and whatever freed and fresh memory holds, the shell's
\* variables keep their types: no link leads out of the list (jobs.c, shell.c).
THEOREM JobsTypeCorrect == Spec => []JTypeOK
<1>1. Init => IInv
  BY InitHolds
<1>2. IInv /\ [Next]_vars => IInv'
  BY StepKeeps
<1>3. IInv => JTypeOK
  BY DEF IInv
<1> QED BY <1>1, <1>2, <1>3, PTL DEF Spec

\* As long as no freed node is in it, the list is in the order of its numbers
\* and no number is given twice, however many jobs there are (jobs.c, line 51).
THEOREM JobsAscend == Spec => []NumbersAscend
<1>1. Init => IInv
  BY InitHolds
<1>2. IInv /\ [Next]_vars => IInv'
  BY StepKeeps
<1>3. IInv => NumbersAscend
  BY DEF IInv, Numbers
<1> QED BY <1>1, <1>2, <1>3, PTL DEF Spec

\* At the prompt the shell's record of a job says stopped where, and only where,
\* its process is stopped, after any ^Z, fg and bg (shell.c, lines 742 and 868).
THEOREM JobsStatusAgrees == Spec => []StatusAgrees
<1>1. Init => IInv /\ Agree
  BY InitHolds DEF Init, Agree, Listed
<1>2. IInv /\ Agree /\ [Next]_vars => (IInv /\ Agree)'
  BY StepKeeps, StepAgrees
<1>3. IInv /\ Agree => StatusAgrees
  BY DEF Agree, StatusAgrees, Awaited, InStep, Over
<1> QED BY <1>1, <1>2, <1>3, PTL DEF Spec

\* Where a number read from freed memory is 0 or, at every node, the same large
\* one, the clean-up leaves no finished background job in the list at the prompt
\* but one at the head that is not job 1 (jobs.c, line 98; shell.c, line 493).
THEOREM FinishedStayAtHead ==
  ASSUME NEW g, Plain(g)
  PROVE  Spec => []FinishedAtHead
<1>1. Init => IInv /\ HInv(g)
  BY InitHolds, InitHeads
<1>2. IInv /\ HInv(g) /\ [Next]_vars => (IInv /\ HInv(g))'
  BY StepKeeps, StepHeads
<1>3. IInv /\ HInv(g) => FinishedAtHead
  BY DEF HInv, Kept, FinishedAtHead, Over
<1> QED BY <1>1, <1>2, <1>3, PTL DEF Spec

\* With the same numbers, no program drops out of the list before it has ended,
\* and a new one is missing only where add_job found the numbers with a hole
\* behind the second job (jobs.c, lines 85 and 98).
THEOREM LiveProgramsListed ==
  ASSUME NEW g, Plain(g)
  PROVE  Spec => LiveStayListed
<1>1. Init => IInv /\ HInv(g)
  BY InitHolds, InitHeads
<1>2. IInv /\ HInv(g) /\ [Next]_vars => (IInv /\ HInv(g))'
  BY StepKeeps, StepHeads
<1>3. IInv /\ HInv(g) /\ [Next]_vars
        => [\A p \in Program :
              /\ Unfinished(p) /\ p \in Listed => p \in Listed'
              /\ started < p /\ started' = p
                   => \/ p \in Listed'
                      \/ \E i \in 2..(Len(list) - 1) :
                            Num(list, i + 1) # Num(list, i) + 1]_vars
  BY StepLists
<1> QED BY <1>1, <1>2, <1>3, PTL DEF Spec, LiveStayListed
=============================================================================
