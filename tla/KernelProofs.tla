---------------------------- MODULE KernelProofs ----------------------------
(***************************************************************************)
(* What the operators of Pcb and Kernel preserve, for every MaxPid and      *)
(* every time slice: the types of kernel memory, and Rooted, the facts      *)
(* that keep the shell from being terminated.                              *)
(***************************************************************************)
EXTENDS Kernel, SequenceTheorems, WellFoundedInduction, TLAPS

-----------------------------------------------------------------------------
(***************************************************************************)
(* Facts about operators of the community modules that Kernel uses.        *)
(***************************************************************************)
\* The community modules' Min picks a member of the set it is given.
LEMMA MinOfNats ==
  ASSUME NEW S \in SUBSET Nat, S # {}
  PROVE  Min(S) \in S
<1> DEFINE R == OpToRel(<, Nat)
<1>1. \A x, y \in Nat : x < y => <<x, y>> \in R
  BY SMT DEF OpToRel
<1>2. IsWellFoundedOn(R, Nat)
  BY NatLessThanWellFounded
<1> HIDE DEF R
<1>3. \E x \in S : \A y \in S : ~(<<y, x>> \in R)
  BY WFMin, <1>2
<1>4. \E x \in S : \A y \in S : x <= y
  <2>1. PICK x \in S : \A y \in S : ~(<<y, x>> \in R)
    BY <1>3
  <2>2. ASSUME NEW y \in S PROVE x <= y
    <3>1. x \in Nat /\ y \in Nat
      OBVIOUS
    <3>2. ~(<<y, x>> \in R)
      BY <2>1
    <3>3. ~(y < x)
      BY <1>1, <3>1, <3>2
    <3> QED BY <3>1, <3>3
  <2> QED BY <2>2
<1> QED BY <1>4 DEF Min

\* RemoveFirst shifts what follows the first occurrence of e down by one.
LEMMA RemoveFirstShifts ==
  ASSUME NEW S, NEW s \in Seq(S), NEW e, \E i \in 1..Len(s) : s[i] = e
  PROVE  \E j \in 1..Len(s) :
           /\ s[j] = e
           /\ RemoveFirst(s, e) \in Seq(S) /\ Len(RemoveFirst(s, e)) = Len(s) - 1
           /\ \A i \in 1..Len(s) - 1 :
                RemoveFirst(s, e)[i] = IF i < j THEN s[i] ELSE s[i + 1]
<1> DEFINE I == {i \in 1..Len(s) : s[i] = e}
           j == Min(I)
           a == SubSeq(s, 1, j-1)
           b == SubSeq(s, j+1, Len(s))
<1>1. j \in 1..Len(s) /\ s[j] = e
  <2>1. I \in SUBSET Nat /\ I # {}
    OBVIOUS
  <2> HIDE DEF I
  <2>2. j \in I
    BY <2>1, MinOfNats
  <2> QED BY <2>2 DEF I
<1>2. RemoveFirst(s, e) = a \o b
  BY ZenonT(30) DEF RemoveFirst, RemoveAt, SelectInSeq
<1> HIDE DEF j, I
<1>3. /\ a \in Seq(S) /\ Len(a) = j - 1
      /\ \A i \in 1..j-1 : a[i] = s[i]
  BY <1>1
<1>4. /\ b \in Seq(S) /\ Len(b) = Len(s) - j
      /\ \A i \in 1..Len(s) - j : b[i] = s[j + i]
  BY <1>1
<1> HIDE DEF a, b
<1>5. a \o b \in Seq(S) /\ Len(a \o b) = Len(s) - 1
  <2>1. a \o b \in Seq(S) /\ Len(a \o b) = Len(a) + Len(b)
    BY <1>3, <1>4, ConcatProperties
  <2> QED BY <1>1, <1>3, <1>4, <2>1
<1>6. \A i \in 1..Len(s) - 1 : (a \o b)[i] = IF i < j THEN s[i] ELSE s[i + 1]
  <2>1. j \in 1..Len(s)
    BY <1>1
  <2> QED BY ONLY s \in Seq(S), <2>1, <1>3, <1>4, ConcatProperties
<1> QED BY <1>1, <1>2, <1>5, <1>6

\* RemoveFirst yields a sequence over the same set and brings in no new element.
LEMMA RemoveFirstType ==
  ASSUME NEW S, NEW s \in Seq(S), NEW e
  PROVE  /\ RemoveFirst(s, e) \in Seq(S)
         /\ \A x : (\A i \in 1..Len(s) : s[i] # x)
                     => \A i \in 1..Len(RemoveFirst(s, e)) : RemoveFirst(s, e)[i] # x
<1> DEFINE r == RemoveFirst(s, e)
<1>1. CASE \E i \in 1..Len(s) : s[i] = e
  <2> HIDE DEF r
  <2>1. PICK j \in 1..Len(s) :
          /\ s[j] = e
          /\ r \in Seq(S) /\ Len(r) = Len(s) - 1
          /\ \A i \in 1..Len(s) - 1 : r[i] = IF i < j THEN s[i] ELSE s[i + 1]
    BY <1>1, RemoveFirstShifts DEF r
  <2>2. ASSUME NEW x, \A i \in 1..Len(s) : s[i] # x, NEW i \in 1..Len(r)
        PROVE  r[i] # x
    BY <2>1, <2>2
  <2> QED BY <2>1, <2>2 DEF r
<1>2. CASE ~ \E i \in 1..Len(s) : s[i] = e
  BY <1>2 DEF RemoveFirst
<1> QED BY <1>1, <1>2
-----------------------------------------------------------------------------
(***************************************************************************)
(* Child lists: sequences without repetition.                              *)
(***************************************************************************)
Listed(s, x) == \E i \in 1..Len(s) : s[i] = x
Distinct(s) == \A i, j \in 1..Len(s) : s[i] = s[j] => i = j

\* RemoveFirst takes out e, and nothing else.
LEMMA RemoveFirstTakes ==
  ASSUME NEW S, NEW s \in Seq(S), NEW e, Listed(s, e), Distinct(s)
  PROVE  /\ RemoveFirst(s, e) \in Seq(S) /\ Len(RemoveFirst(s, e)) = Len(s) - 1
         /\ Distinct(RemoveFirst(s, e))
         /\ \A x : Listed(RemoveFirst(s, e), x) <=> Listed(s, x) /\ x # e
<1> DEFINE r == RemoveFirst(s, e)
<1> HIDE DEF r
<1>1. PICK j \in 1..Len(s) :
        /\ s[j] = e
        /\ r \in Seq(S) /\ Len(r) = Len(s) - 1
        /\ \A i \in 1..Len(s) - 1 : r[i] = IF i < j THEN s[i] ELSE s[i + 1]
  BY RemoveFirstShifts DEF r, Listed
<1>2. Distinct(r)
  <2> SUFFICES ASSUME NEW x \in 1..Len(r), NEW y \in 1..Len(r), r[x] = r[y] PROVE x = y
    BY DEF Distinct
  <2> DEFINE X == IF x < j THEN x ELSE x + 1
             Y == IF y < j THEN y ELSE y + 1
  <2>1. X \in 1..Len(s) /\ Y \in 1..Len(s) /\ r[x] = s[X] /\ r[y] = s[Y]
    BY <1>1
  <2>2. X = Y
    BY <2>1 DEF Distinct
  <2> QED BY <1>1, <2>2
<1>3. ASSUME NEW x PROVE Listed(r, x) <=> Listed(s, x) /\ x # e
  <2>1. ASSUME NEW i \in 1..Len(r), r[i] = x PROVE Listed(s, x) /\ x # e
    <3> DEFINE I == IF i < j THEN i ELSE i + 1
    <3>1. I \in 1..Len(s) /\ I # j /\ s[I] = x
      BY <1>1, <2>1
    <3> QED BY <1>1, <3>1 DEF Listed, Distinct
  <2>2. ASSUME NEW i \in 1..Len(s), s[i] = x, x # e PROVE Listed(r, x)
    <3> DEFINE I == IF i < j THEN i ELSE i - 1
    <3>1. i # j
      BY <1>1, <2>2
    <3>2. I \in 1..Len(r) /\ r[I] = x
      BY <1>1, <2>2, <3>1
    <3> QED BY <3>2 DEF Listed
  <2> QED BY <2>1, <2>2 DEF Listed
<1> QED BY <1>1, <1>2, <1>3 DEF r

\* Without e there is nothing to take out.
LEMMA RemoveFirstSpares ==
  ASSUME NEW s, NEW e, ~Listed(s, e)
  PROVE  RemoveFirst(s, e) = s
BY DEF RemoveFirst, Listed

\* Append adds e behind.
LEMMA AppendLists ==
  ASSUME NEW S, NEW s \in Seq(S), NEW e \in S, ~Listed(s, e), Distinct(s)
  PROVE  /\ Append(s, e) \in Seq(S) /\ Len(Append(s, e)) = Len(s) + 1
         /\ Distinct(Append(s, e))
         /\ \A x : Listed(Append(s, e), x) <=> Listed(s, x) \/ x = e
<1> DEFINE r == Append(s, e)
<1>1. /\ r \in Seq(S) /\ Len(r) = Len(s) + 1 /\ Len(s) \in Nat
      /\ \A i \in 1..Len(s) : r[i] = s[i]
      /\ r[Len(s) + 1] = e
  OBVIOUS
<1> HIDE DEF r
<1>2. Distinct(r)
  BY <1>1 DEF Distinct, Listed
<1>3. ASSUME NEW x PROVE Listed(r, x) <=> Listed(s, x) \/ x = e
  <2>1. ASSUME NEW i \in 1..Len(r), r[i] = x PROVE Listed(s, x) \/ x = e
    <3>1. CASE i \in 1..Len(s)
      BY <1>1, <2>1, <3>1 DEF Listed
    <3>2. CASE i = Len(s) + 1
      BY <1>1, <2>1, <3>2
    <3> QED BY <1>1, <3>1, <3>2
  <2>2. ASSUME NEW i \in 1..Len(s), s[i] = x PROVE Listed(r, x)
    BY <1>1, <2>2 DEF Listed
  <2>3. Listed(r, e)
    BY <1>1 DEF Listed
  <2> QED BY <2>1, <2>2, <2>3 DEF Listed
<1> QED BY <1>1, <1>2, <1>3 DEF r

\* The empty list.
LEMMA EmptyList ==
  ASSUME NEW S, NEW s \in Seq(S)
  PROVE  /\ (s = <<>>) <=> (Len(s) = 0)
         /\ (s = <<>>) <=> (\A x : ~Listed(s, x))
         /\ s # <<>> => Head(s) \in S /\ Listed(s, Head(s))
<1>1. s = <<>> <=> Len(s) = 0
  BY EmptySeq
<1>2. s # <<>> => Len(s) \in Nat /\ 1 \in 1..Len(s) /\ s[1] \in S /\ Head(s) = s[1]
  BY <1>1
<1>3. s = <<>> => \A x : ~Listed(s, x)
  BY DEF Listed
<1> QED BY <1>1, <1>2, <1>3 DEF Listed

\* A list of one.
LEMMA OneListed ==
  ASSUME NEW S, NEW s \in Seq(S), s # <<>>, Len(s) <= 1
  PROVE  Len(s) = 1 /\ \A x : Listed(s, x) => x = Head(s)
<1>1. Len(s) \in Nat /\ Len(s) # 0
  BY EmptyList
<1>2. Len(s) = 1
  <2> DEFINE n == Len(s)
  <2>1. n \in Nat /\ n # 0 /\ n <= 1
    BY <1>1
  <2> HIDE DEF n
  <2>2. n = 1
    BY ONLY <2>1
  <2> QED BY <2>2 DEF n
<1> QED BY <1>2 DEF Listed
-----------------------------------------------------------------------------
(***************************************************************************)
(* Good memory.                                                            *)
(***************************************************************************)
\* The shell is allocated, has not terminated, and is nobody's child.
Rooted(k) ==
  /\ Shell \in k.live
  /\ k.status[Shell] \notin {"ZOMBIE", "KILLED"}
  /\ k.parent[Shell] = NULL
  /\ \A p \in Pid : \A i \in 1..Len(k.kids[p]) : k.kids[p][i] # Shell
  /\ k.count # Shell

\* The lemmas are about types alone when safe is FALSE.
Good(k, safe) == k \in Memory /\ (safe => Rooted(k))

\* m comes from k by a call that leaves pid_count, cur_pcb, prev_fg, prev_cur,
\* how_finished and timer_mod as they are.
Keeps(k, m, safe) ==
  /\ Good(m, safe)
  /\ m.prevfg = k.prevfg /\ m.prevcur = k.prevcur
  /\ m.count = k.count /\ m.cur = k.cur
  /\ m.how = k.how /\ m.tmod = k.tmod

\* Two such calls in a row are one.
LEMMA KeepsTrans ==
  ASSUME NEW k, NEW l, NEW m, NEW safe \in BOOLEAN,
         Keeps(k, l, safe), Keeps(l, m, safe)
  PROVE  Keeps(k, m, safe)
BY DEF Keeps

\* An early return is such a call.
LEMMA KeepsSelf ==
  ASSUME NEW k, NEW safe \in BOOLEAN, Good(k, safe)
  PROVE  Keeps(k, k, safe)
BY DEF Keeps

\* Pids, pointers and queues.
LEMMA Pids ==
  /\ NULL \in Ptr /\ NULL \notin Pid /\ Shell \in Pid
  /\ \A x \in Ptr : x # NULL => x \in Pid
  /\ Pid \subseteq Ptr
  /\ RunQueue \subseteq Queue /\ ZombieQueue \in Queue
BY MaxPidAssumption DEF NULL, Ptr, Pid, Shell, RunQueue, Queue, ZombieQueue
-----------------------------------------------------------------------------
(***************************************************************************)
(* Lists and child lists.                                                  *)
(***************************************************************************)
\* A change of the links, or of another field Rooted does not look at.
LEMMA LinksKeep ==
  ASSUME NEW k, NEW m \in Memory, NEW safe \in BOOLEAN, Good(k, safe),
         m.live = k.live, m.status = k.status, m.parent = k.parent,
         m.kids = k.kids, m.count = k.count, m.cur = k.cur,
         m.prevfg = k.prevfg, m.prevcur = k.prevcur, m.how = k.how, m.tmod = k.tmod
  PROVE  Keeps(k, m, safe)
BY DEF Rooted, Good, Keeps

\* A change of one child_list.
LEMMA KidsKeep ==
  ASSUME NEW k, NEW b \in Pid, NEW r \in Seq(Pid), NEW safe \in BOOLEAN,
         Good(k, safe), safe => \A i \in 1..Len(r) : r[i] # Shell
  PROVE  Keeps(k, [k EXCEPT !.kids[b] = r], safe)
<1> DEFINE m == [k EXCEPT !.kids[b] = r]
<1>1. /\ m \in Memory
      /\ m.prevfg = k.prevfg /\ m.prevcur = k.prevcur
      /\ m.count = k.count /\ m.cur = k.cur /\ m.how = k.how /\ m.tmod = k.tmod
  BY DEF Memory, Good
<1>2. \A p \in Pid : m.kids[p] = IF p = b THEN r ELSE k.kids[p]
  BY DEF Memory, Good
<1>3. m.live = k.live /\ m.status = k.status /\ m.parent = k.parent
  BY DEF Memory, Good
<1> HIDE DEF m
<1>4. ASSUME safe PROVE Rooted(m)
  BY <1>1, <1>2, <1>3, <1>4 DEF Rooted, Good
<1>5. Keeps(k, m, safe)
  BY <1>1, <1>4 DEF Keeps, Good
<1> QED BY <1>5 DEF m

\* add_PCB.
LEMMA AddPCBKeeps ==
  ASSUME NEW k, NEW q \in Queue, NEW p \in Pid, NEW safe \in BOOLEAN, Good(k, safe)
  PROVE  Keeps(k, AddPCB(k, q, p), safe)
BY Pids DEF AddPCB, Memory, Rooted, Good, Keeps

\* remove_child_PCB.
LEMMA RemoveChildKeeps ==
  ASSUME NEW k, NEW p \in Pid, NEW safe \in BOOLEAN, Good(k, safe)
  PROVE  Keeps(k, RemoveChild(k, p), safe)
<1>1. CASE k.parent[p] = NULL
  BY <1>1, KeepsSelf DEF RemoveChild
<1>2. CASE k.parent[p] # NULL
  <2> DEFINE b == k.parent[p]
             r == RemoveFirst(k.kids[b], p)
             m == [k EXCEPT !.kids[b] = r]
  <2>1. b \in Pid /\ k.kids[b] \in Seq(Pid)
    BY <1>2, Pids DEF Memory, Good
  <2>2. /\ r \in Seq(Pid)
        /\ \A x : (\A i \in 1..Len(k.kids[b]) : k.kids[b][i] # x)
                    => \A i \in 1..Len(r) : r[i] # x
    BY <2>1, RemoveFirstType
  <2>3. RemoveChild(k, p) = m
    BY <1>2, <2>1 DEF RemoveChild, Memory, Good
  <2>4. safe => \A i \in 1..Len(r) : r[i] # Shell
    <3> HIDE DEF r, b
    <3> QED BY <2>1, <2>2 DEF Rooted, Good
  <2>5. Keeps(k, m, safe)
    <3> HIDE DEF r, b
    <3> QED BY <2>1, <2>2, <2>4, KidsKeep
  <2> HIDE DEF m
  <2> QED BY <2>3, <2>5
<1> QED BY <1>1, <1>2

\* remove_PCB, the links.
LEMMA UnlinkKeeps ==
  ASSUME NEW k, NEW q \in Queue, NEW p \in Pid, NEW safe \in BOOLEAN, Good(k, safe)
  PROVE  Keeps(k, Unlink(k, q, p), safe)
<1> DEFINE ch == [c \in Pid |-> IF c \in Members(k, q) /\ k.next[c] = p
                                THEN k.next[p] ELSE k.next[c]]
           m1 == [k EXCEPT !.head[q] = k.next[p], !.next[p] = NULL]
           m2 == [k EXCEPT !.next = ch]
<1>1. Unlink(k, q, p) = IF k.head[q] = p THEN m1 ELSE m2
  BY DEF Unlink
<1>2. ch \in [Pid -> Ptr] /\ k.next[p] \in Ptr
  BY DEF Memory, Good
<1> HIDE DEF ch
<1>3. m1 \in Memory /\ m2 \in Memory
  BY <1>2, Pids DEF Memory, Good
<1>a. k \in Memory
  BY DEF Good
<1>4. \A m \in {m1, m2} :
        /\ m.live = k.live /\ m.status = k.status /\ m.parent = k.parent
        /\ m.kids = k.kids /\ m.count = k.count /\ m.cur = k.cur
        /\ m.prevfg = k.prevfg /\ m.prevcur = k.prevcur
        /\ m.how = k.how /\ m.tmod = k.tmod
  BY ONLY <1>a DEF Memory
<1> HIDE DEF m1, m2
<1> QED BY <1>1, <1>3, <1>4, LinksKeep

\* remove_PCB.
LEMMA RemovePCBKeeps ==
  ASSUME NEW k, NEW q \in Queue, NEW p \in Pid, NEW safe \in BOOLEAN, Good(k, safe)
  PROVE  Keeps(k, RemovePCB(k, q, p), safe)
<1> DEFINE k1 == RemoveChild(k, p)
<1>1. Keeps(k, k1, safe)
  BY RemoveChildKeeps
<1>2. RemovePCB(k, q, p) \in {k, Unlink(k1, q, p)}
  BY DEF RemovePCB
<1> HIDE DEF k1
<1>3. Keeps(k1, Unlink(k1, q, p), safe)
  BY <1>1, UnlinkKeeps DEF Keeps
<1> QED BY <1>1, <1>2, <1>3, KeepsTrans, KeepsSelf

\* add_child_PCB: the shell must not become a child.
LEMMA AddChildKeeps ==
  ASSUME NEW k, NEW b \in Pid, NEW c \in Pid, NEW safe \in BOOLEAN,
         Good(k, safe), safe => c # Shell
  PROVE  Keeps(k, AddChild(k, b, c), safe)
<1> DEFINE r  == Append(k.kids[b], c)
           k1 == [k EXCEPT !.parent[c] = b]
           m  == [k1 EXCEPT !.kids[b] = r]
<1>1. /\ k.kids[b] \in Seq(Pid)
      /\ r \in Seq(Pid)
      /\ \A i \in 1..Len(r) : \/ r[i] = c
                              \/ i \in 1..Len(k.kids[b]) /\ r[i] = k.kids[b][i]
  <2>1. k.kids[b] \in Seq(Pid)
    BY DEF Memory, Good
  <2> DEFINE s == k.kids[b]
  <2> HIDE DEF s
  <2> QED BY <2>1, AppendProperties DEF s
<1>2. Good(k1, safe) /\ Keeps(k, k1, safe)
  BY Pids DEF Memory, Rooted, Good, Keeps
<1>3. AddChild(k, b, c) = k \/ AddChild(k, b, c) = m
  BY DEF AddChild, Memory, Good
<1>4. safe => \A i \in 1..Len(r) : r[i] # Shell
  <2> HIDE DEF r, k1
  <2> QED BY <1>1 DEF Rooted, Good
<1>5. Keeps(k1, m, safe)
  <2> HIDE DEF k1, r
  <2> QED BY <1>1, <1>2, <1>4, KidsKeep
<1> HIDE DEF k1, m
<1> QED BY <1>2, <1>3, <1>5, KeepsTrans, KeepsSelf

\* What follows a removal: p goes back into the child_list of its parent.
LEMMA RejoinParentKeeps ==
  ASSUME NEW k, NEW p \in Pid, NEW safe \in BOOLEAN, Good(k, safe)
  PROVE  Keeps(k, RejoinParent(k, p), safe)
<1>1. k.parent[p] \in Ptr /\ (safe => k.parent[p] = NULL \/ p # Shell)
  BY DEF Memory, Rooted, Good
<1>2. CASE k.parent[p] = NULL
  BY <1>2, KeepsSelf DEF RejoinParent
<1>3. CASE k.parent[p] # NULL
  BY <1>1, <1>3, AddChildKeeps, Pids DEF RejoinParent
<1> QED BY <1>2, <1>3

\* add_to_head.
LEMMA AddToHeadKeeps ==
  ASSUME NEW k, NEW q \in Queue, NEW p \in Pid, NEW safe \in BOOLEAN, Good(k, safe)
  PROVE  Keeps(k, AddToHead(k, q, p), safe)
<1> DEFINE k1 == RejoinParent(k, p)
           m1 == [k1 EXCEPT !.head[q] = p]
           m2 == [k1 EXCEPT !.next[p] = k.head[q], !.head[q] = p]
<1>1. Good(k1, safe) /\ Keeps(k, k1, safe)
  BY RejoinParentKeeps DEF Keeps
<1>2. AddToHead(k, q, p) = IF k.head[q] = NULL THEN m1 ELSE m2
  BY DEF AddToHead
<1>3. k.head[q] \in Ptr
  BY DEF Memory, Good
<1> HIDE DEF k1
<1>4. Keeps(k1, m1, safe) /\ Keeps(k1, m2, safe)
  <2>1. m1 \in Memory /\ m2 \in Memory
    BY <1>1, <1>3, Pids DEF Memory, Good
  <2>0. k1 \in Memory
    BY <1>1 DEF Good
  <2>2. \A m \in {m1, m2} :
          /\ m.live = k1.live /\ m.status = k1.status /\ m.parent = k1.parent
          /\ m.kids = k1.kids /\ m.count = k1.count /\ m.cur = k1.cur
          /\ m.prevfg = k1.prevfg /\ m.prevcur = k1.prevcur
          /\ m.how = k1.how /\ m.tmod = k1.tmod
    BY ONLY <2>0 DEF Memory
  <2> HIDE DEF m1, m2
  <2> QED BY <1>1, <2>1, <2>2, LinksKeep
<1> HIDE DEF m1, m2
<1> QED BY <1>1, <1>2, <1>4, KeepsTrans

\* free_PCB of a block that is not the shell's.
LEMMA FreePCBKeeps ==
  ASSUME NEW k, NEW p \in Pid, NEW safe \in BOOLEAN, Good(k, safe), safe => p # Shell
  PROVE  Keeps(k, FreePCB(k, p), safe)
BY DEF FreePCB, Memory, Rooted, Good, Keeps

\* find_next_valid returns a block or NULL.
LEMMA FindNextValidType ==
  ASSUME NEW k, NEW h
  PROVE  FindNextValid(k, h) \in Ptr
BY Pids DEF FindNextValid
-----------------------------------------------------------------------------
(***************************************************************************)
(* Processes.                                                              *)
(***************************************************************************)
\* A new status that is not a terminated one, or not the shell's.
LEMMA StatusKeeps ==
  ASSUME NEW k, NEW p \in Pid, NEW s \in Status, NEW safe \in BOOLEAN, Good(k, safe),
         safe => p # Shell \/ s \notin {"ZOMBIE", "KILLED"}
  PROVE  Keeps(k, [k EXCEPT !.status[p] = s], safe)
BY DEF Memory, Rooted, Good, Keeps

\* k_process_terminate of a process without children: removed from all lists, freed.
LEMMA TerminateLeafKeeps ==
  ASSUME NEW k, NEW p \in Pid, NEW safe \in BOOLEAN, Good(k, safe), safe => p # Shell
  PROVE  Keeps(k, TerminateLeaf(k, p), safe)
<1> DEFINE k1 == RemoveChild(k, p)
           k2 == RemovePCB(k1, ZombieQueue, p)
           k3 == RemovePCB(k2, -1, p)
           k4 == RemovePCB(k3, 0, p)
           k5 == RemovePCB(k4, 1, p)
           k6 == FreePCB(k5, p)
<1>0. ZombieQueue \in Queue /\ -1 \in Queue /\ 0 \in Queue /\ 1 \in Queue
  BY DEF Queue, ZombieQueue
<1>1. Keeps(k, k1, safe)
  BY RemoveChildKeeps
<1>2. Keeps(k1, k2, safe)
  BY <1>0, <1>1, RemovePCBKeeps DEF Keeps
<1>3. Keeps(k2, k3, safe)
  BY <1>0, <1>2, RemovePCBKeeps DEF Keeps
<1>4. Keeps(k3, k4, safe)
  BY <1>0, <1>3, RemovePCBKeeps DEF Keeps
<1>5. Keeps(k4, k5, safe)
  BY <1>0, <1>4, RemovePCBKeeps DEF Keeps
<1>6. Keeps(k5, k6, safe)
  BY <1>5, FreePCBKeeps DEF Keeps
<1>7. TerminateLeaf(k, p) = k6
  BY DEF TerminateLeaf
<1> HIDE DEF k1, k2, k3, k4, k5, k6
<1> QED BY <1>1, <1>2, <1>3, <1>4, <1>5, <1>6, <1>7, KeepsTrans

\* The first child of p is a process, and not the shell.
LEMMA FirstChild ==
  ASSUME NEW k, NEW p \in Pid, NEW safe \in BOOLEAN, Good(k, safe), k.kids[p] # <<>>
  PROVE  Head(k.kids[p]) \in Pid /\ (safe => Head(k.kids[p]) # Shell)
<1> DEFINE s == k.kids[p]
<1>1. s \in Seq(Pid) /\ s # <<>> /\ (safe => \A i \in 1..Len(s) : s[i] # Shell)
  BY DEF Memory, Rooted, Good
<1> HIDE DEF s
<1>2. Head(s) = s[1] /\ 1 \in 1..Len(s) /\ Head(s) \in Pid
  BY <1>1
<1> QED BY <1>1, <1>2 DEF s

\* k_process_terminate with the child the loop reaches.
LEMMA KProcessTerminateKeeps ==
  ASSUME NEW k, NEW p \in Pid, NEW safe \in BOOLEAN, Good(k, safe), safe => p # Shell
  PROVE  Keeps(k, KProcessTerminate(k, p), safe)
<1> DEFINE k1 == IF k.kids[p] = <<>> THEN k ELSE TerminateLeaf(k, Head(k.kids[p]))
<1>1. Keeps(k, k1, safe)
  BY TerminateLeafKeeps, FirstChild, KeepsSelf
<1>2. KProcessTerminate(k, p) = TerminateLeaf(k1, p)
  BY DEF KProcessTerminate
<1> HIDE DEF k1
<1>3. Keeps(k1, TerminateLeaf(k1, p), safe)
  BY <1>1, TerminateLeafKeeps DEF Keeps
<1> QED BY <1>1, <1>2, <1>3, KeepsTrans

\* One round of the loop over the children of a process that dies.
LEMMA TerminateFirstKeeps ==
  ASSUME NEW k, NEW p \in Pid, NEW safe \in BOOLEAN, Good(k, safe)
  PROVE  Keeps(k, TerminateFirst(k, p), safe)
BY KProcessTerminateKeeps, FirstChild, KeepsSelf DEF TerminateFirst

\* Out of a queue and back to its head.
LEMMA RequeueKeeps ==
  ASSUME NEW k, NEW q \in Queue, NEW d \in Pid, NEW safe \in BOOLEAN, Good(k, safe)
  PROVE  Keeps(k, Requeue(k, q, d), safe)
<1> DEFINE k1 == RemovePCB(k, q, d)
<1>1. Keeps(k, k1, safe)
  BY RemovePCBKeeps
<1>2. Requeue(k, q, d) = AddToHead(k1, q, d)
  BY DEF Requeue
<1> HIDE DEF k1
<1>3. Keeps(k1, AddToHead(k1, q, d), safe)
  BY <1>1, AddToHeadKeeps DEF Keeps
<1> QED BY <1>1, <1>2, <1>3, KeepsTrans

\* The blocked parent is READY and at the head of its queue.
LEMMA UnblockKeeps ==
  ASSUME NEW k, NEW d \in Pid, NEW h, NEW safe \in BOOLEAN, Good(k, safe)
  PROVE  Keeps(k, Unblock(k, d, h), safe)
<1> DEFINE k1 == [k EXCEPT !.status[d] = "READY"]
           q  == QueueWithHead(k, h)
<1>1. Keeps(k, k1, safe)
  BY StatusKeeps DEF Status
<1>2. q \in Queue
  BY DEF QueueWithHead, Queue
<1>3. Unblock(k, d, h) \in {k1, Requeue(k1, q, d)}
  BY DEF Unblock
<1> HIDE DEF k1, q
<1>4. Keeps(k1, Requeue(k1, q, d), safe)
  BY <1>1, <1>2, RequeueKeeps DEF Keeps
<1> QED BY <1>1, <1>3, <1>4, KeepsTrans

\* SIGTERM takes effect, on a process that is not the shell.
LEMMA DieKeeps ==
  ASSUME NEW k, NEW p \in Pid, NEW safe \in BOOLEAN, Good(k, safe), safe => p # Shell
  PROVE  Keeps(k, Die(k, p), safe)
<1> DEFINE z  == [k EXCEPT !.status[p] = "ZOMBIE"]
           k1 == IF k.natty[p] THEN AddPCB(z, ZombieQueue, p)
                 ELSE [k EXCEPT !.status[p] = "KILLED"]
           k2 == TerminateFirst(k1, p)
           k3 == TerminateFirst(k2, p)
           k4 == TerminateFirst(k3, p)
           k5 == [k4 EXCEPT !.kids[p] = <<>>]
<1>1. Keeps(k, k1, safe)
  <2>1. Keeps(k, z, safe) /\ Keeps(k, [k EXCEPT !.status[p] = "KILLED"], safe)
    BY StatusKeeps DEF Status
  <2> HIDE DEF z
  <2>2. Keeps(z, AddPCB(z, ZombieQueue, p), safe)
    BY <2>1, AddPCBKeeps, Pids DEF Keeps
  <2> QED BY <2>1, <2>2, KeepsTrans
<1>2. Die(k, p) = k5
  BY DEF Die
<1> HIDE DEF k1
<1>3. Keeps(k1, k2, safe)
  BY <1>1, TerminateFirstKeeps DEF Keeps
<1> HIDE DEF k2
<1>4. Keeps(k2, k3, safe)
  BY <1>3, TerminateFirstKeeps DEF Keeps
<1> HIDE DEF k3
<1>5. Keeps(k3, k4, safe)
  BY <1>4, TerminateFirstKeeps DEF Keeps
<1> HIDE DEF k4
<1>6. Keeps(k4, k5, safe)
  <2>1. <<>> \in Seq(Pid) /\ \A i \in 1..Len(<<>>) : <<>>[i] # Shell
    OBVIOUS
  <2>2. Good(k4, safe)
    BY <1>5 DEF Keeps
  <2>3. \A list \in Seq(Pid) : (\A i \in 1..Len(list) : list[i] # Shell)
                                => Keeps(k4, [k4 EXCEPT !.kids[p] = list], safe)
    BY <2>2, KidsKeep
  <2> QED BY <2>1, <2>3
<1> HIDE DEF k5
<1> QED BY <1>1, <1>2, <1>3, <1>4, <1>5, <1>6, KeepsTrans

\* A field Rooted does not look at.
LEMMA FlagKeeps ==
  ASSUME NEW k, NEW p, NEW b \in BOOLEAN, NEW safe \in BOOLEAN, Good(k, safe)
  PROVE  /\ Keeps(k, [k EXCEPT !.changed[p] = b], safe)
         /\ Keeps(k, [k EXCEPT !.natty[p] = b], safe)
         /\ Keeps(k, [k EXCEPT !.sigflag[p] = b], safe)
         /\ Keeps(k, [k EXCEPT !.ground[p] = b], safe)
         /\ Keeps(k, [k EXCEPT !.fault = b], safe)
<1>0. k \in Memory
  BY DEF Good
<1>1. Keeps(k, [k EXCEPT !.changed[p] = b], safe)
  BY <1>0 DEF Memory, Rooted, Good, Keeps
<1>2. Keeps(k, [k EXCEPT !.natty[p] = b], safe)
  BY <1>0 DEF Memory, Rooted, Good, Keeps
<1>3. Keeps(k, [k EXCEPT !.sigflag[p] = b], safe)
  BY <1>0 DEF Memory, Rooted, Good, Keeps
<1>4. Keeps(k, [k EXCEPT !.ground[p] = b], safe)
  BY <1>0 DEF Memory, Rooted, Good, Keeps
<1>5. Keeps(k, [k EXCEPT !.fault = b], safe)
  BY <1>0 DEF Memory, Rooted, Good, Keeps
<1> QED BY <1>1, <1>2, <1>3, <1>4, <1>5

\* k_process_kill, with any of the three signals.
LEMMA KProcessKillKeeps ==
  ASSUME NEW k, NEW p \in Pid, NEW signal \in {S_SIGSTOP, S_SIGCONT, S_SIGTERM},
         NEW safe \in BOOLEAN, Good(k, safe), safe => p # Shell
  PROVE  Keeps(k, KProcessKill(k, p, signal), safe)
<1> DEFINE daddy == k.parent[p]
           entry == IF daddy = NULL THEN NULL ELSE k.head[k.prio[daddy]]
           blocked == daddy # NULL /\ k.status[daddy] = "BLOCKED"
           k1 == CASE signal = S_SIGSTOP -> [k EXCEPT !.status[p] = "STOPPED"]
                   [] signal = S_SIGCONT -> [k EXCEPT !.status[p] = "READY"]
                   [] signal = S_SIGTERM -> Die(k, p)
           k2 == [k1 EXCEPT !.changed[p] = TRUE]
           k3 == WakeParent(k2, blocked, daddy, entry)
           k4 == IF Takes(k, p, signal) THEN k3 ELSE k
           k5 == RejoinParent(k4, p)
<1>1. daddy \in Ptr
  BY DEF Memory, Good
<1>2. KProcessKill(k, p, signal) = k5
  BY DEF KProcessKill
<1>3. Keeps(k, k1, safe)
  <2>1. /\ Keeps(k, [k EXCEPT !.status[p] = "STOPPED"], safe)
        /\ Keeps(k, [k EXCEPT !.status[p] = "READY"], safe)
    BY StatusKeeps DEF Status
  <2>2. Keeps(k, Die(k, p), safe)
    BY DieKeeps
  <2>3. CASE signal = S_SIGSTOP
    BY <2>1, <2>3 DEF S_SIGSTOP, S_SIGCONT, S_SIGTERM
  <2>4. CASE signal = S_SIGCONT
    BY <2>1, <2>4 DEF S_SIGSTOP, S_SIGCONT, S_SIGTERM
  <2>5. CASE signal = S_SIGTERM
    BY <2>2, <2>5 DEF S_SIGSTOP, S_SIGCONT, S_SIGTERM
  <2> QED BY <2>3, <2>4, <2>5
<1> HIDE DEF k1, daddy, entry, blocked
<1>4. Keeps(k1, k2, safe)
  <2>1. Good(k1, safe) /\ k1 \in Memory
    BY <1>3 DEF Keeps, Good
  <2> QED BY <2>1, FlagKeeps
<1> HIDE DEF k2
<1>5. Keeps(k2, k3, safe)
  <2>1. CASE blocked
    BY <1>1, <1>4, <2>1, UnblockKeeps, Pids DEF Keeps, WakeParent, blocked
  <2>2. CASE ~blocked
    BY <1>4, <2>2, KeepsSelf DEF Keeps, WakeParent
  <2> QED BY <2>1, <2>2
<1> HIDE DEF k3
<1>6. Keeps(k, k4, safe)
  BY <1>3, <1>4, <1>5, KeepsTrans, KeepsSelf
<1> HIDE DEF k4
<1>7. Keeps(k4, k5, safe)
  BY <1>6, RejoinParentKeeps DEF Keeps
<1> HIDE DEF k5
<1> QED BY <1>2, <1>6, <1>7, KeepsTrans

LEMMA PrioKeeps ==
  ASSUME NEW k, NEW p, NEW prior \in RunQueue, NEW safe \in BOOLEAN, Good(k, safe)
  PROVE  Keeps(k, [k EXCEPT !.prio[p] = prior], safe)
<1> DEFINE m == [k EXCEPT !.prio[p] = prior]
<1>1. k \in Memory
  BY DEF Good
<1>2. m \in Memory
  BY ONLY <1>1, prior \in RunQueue DEF Memory
<1>3. /\ m.live = k.live /\ m.status = k.status /\ m.parent = k.parent
      /\ m.kids = k.kids /\ m.count = k.count /\ m.cur = k.cur
      /\ m.prevfg = k.prevfg /\ m.prevcur = k.prevcur
      /\ m.how = k.how /\ m.tmod = k.tmod
  BY ONLY <1>1 DEF Memory
<1> HIDE DEF m
<1>4. Keeps(k, m, safe)
  BY <1>2, <1>3, LinksKeep
<1> QED BY <1>4 DEF m

\* k_process_nice, of any process, the shell included.
LEMMA KProcessNiceKeeps ==
  ASSUME NEW k, NEW p \in Pid, NEW prior \in RunQueue, NEW safe \in BOOLEAN, Good(k, safe)
  PROVE  Keeps(k, KProcessNice(k, p, prior), safe)
<1> DEFINE k0 == RemovePCB(k, k.prio[p], p)
           k1 == [k0 EXCEPT !.prio[p] = prior]
           k2 == AddPCB(k1, prior, p)
           k3 == RejoinParent(k2, p)
           n == [k EXCEPT !.prio[p] = prior]
<1>1. k.prio[p] \in Queue /\ prior \in Queue
  BY Pids DEF Memory, Good
<1>2. KProcessNice(k, p, prior) \in {k, Fault(k), n, k3}
  BY DEF KProcessNice
<1>3. Keeps(k, k0, safe)
  BY <1>1, RemovePCBKeeps
<1>4. Keeps(k, n, safe)
  BY PrioKeeps
<1> HIDE DEF k0, n
<1>5. Keeps(k0, k1, safe)
  <2>1. Good(k0, safe)
    BY <1>3 DEF Keeps
  <2> QED BY <2>1, PrioKeeps
<1> HIDE DEF k1
<1>6. Keeps(k1, k2, safe)
  BY <1>1, <1>5, AddPCBKeeps DEF Keeps
<1> HIDE DEF k2
<1>7. Keeps(k2, k3, safe)
  BY <1>6, RejoinParentKeeps DEF Keeps
<1> HIDE DEF k3
<1>8. Keeps(k, k3, safe)
  BY <1>3, <1>5, <1>6, <1>7, KeepsTrans
<1>9. Keeps(k, Fault(k), safe)
  BY FlagKeeps DEF Fault
<1> QED BY <1>2, <1>4, <1>8, <1>9, KeepsSelf
-----------------------------------------------------------------------------
(***************************************************************************)
(* The scheduler.  Between two entries kernel memory is Resting.           *)
(***************************************************************************)
Resting(k, safe) ==
  /\ Good(k, safe)
  /\ k.prevfg \in Pid /\ k.prevcur \in Pid
  /\ k.how = "NORMAL" /\ k.tmod < Cycle

\* Calls that are not the scheduler's leave memory at rest.
LEMMA KeepsResting ==
  ASSUME NEW k, NEW m, NEW safe \in BOOLEAN, Resting(k, safe), Keeps(k, m, safe)
  PROVE  Resting(m, safe)
BY DEF Resting, Keeps

\* What the scheduler may be entered with.
Entering(k, safe) ==
  /\ Good(k, safe)
  /\ k.prevfg \in Pid /\ k.prevcur \in Pid
  /\ k.how = "NORMAL" => k.tmod < Cycle

\* After a TIMEOUT timer_mod is below the cycle again.
LEMMA SwitchQueueType ==
  ASSUME NEW k, NEW safe \in BOOLEAN, Entering(k, safe)
  PROVE  Entering(SwitchQueue(k), safe) /\ SwitchQueue(k).tmod < Cycle
<1> DEFINE t == k.tmod % Cycle
<1>1. k \in Memory /\ Cycle \in Nat \ {0} /\ k.tmod \in Nat
  BY SliceAssumption DEF Entering, Good, Memory
<1>2. t \in 0..Cycle /\ t < Cycle
  BY <1>1
<1> HIDE DEF t
<1>3. SwitchQueue(k) =
        [k EXCEPT !.queue = IF k.tmod <= OneLast THEN 1
                            ELSE IF k.tmod <= ZeroLast THEN 0
                            ELSE IF k.tmod <= Cycle THEN -1 ELSE k.queue,
                  !.tmod = t]
  BY <1>1 DEF SwitchQueue, Memory, t
<1> DEFINE q == IF k.tmod <= OneLast THEN 1 ELSE IF k.tmod <= ZeroLast THEN 0
                ELSE IF k.tmod <= Cycle THEN -1 ELSE k.queue
<1>4. q \in RunQueue
  BY <1>1 DEF Memory, RunQueue
<1> HIDE DEF q
<1>5. SwitchQueue(k) = [k EXCEPT !.queue = q, !.tmod = t]
  BY <1>3 DEF q
<1> DEFINE m == [k EXCEPT !.queue = q, !.tmod = t]
<1>6. m \in Memory
  BY <1>1, <1>2, <1>4 DEF Memory
<1>7. /\ m.live = k.live /\ m.parent = k.parent /\ m.kids = k.kids /\ m.count = k.count
      /\ m.prevfg = k.prevfg /\ m.prevcur = k.prevcur /\ m.how = k.how
      /\ m.status = k.status /\ m.tmod = t
  BY <1>1 DEF Memory
<1>8. SwitchQueue(k) = m
  BY <1>5
<1> HIDE DEF m
<1> QED BY <1>2, <1>6, <1>7, <1>8 DEF Entering, Good, Rooted

\* The process that has returned is finished: it has a parent, so it is not the
\* shell.
LEMMA FinishCurrentType ==
  ASSUME NEW k, NEW safe \in BOOLEAN, Entering(k, safe), k.how = "NORMAL"
  PROVE  Entering(FinishCurrent(k), safe) /\ FinishCurrent(k).tmod < Cycle
<1> DEFINE p  == k.cur
           k1 == [k EXCEPT !.natty[p] = TRUE]
           k2 == KProcessKill(k1, p, S_SIGTERM)
<1>1. FinishCurrent(k) = k \/ (p # NULL /\ k.parent[p] # NULL /\ FinishCurrent(k) = k2)
  BY DEF FinishCurrent
<1>2. CASE FinishCurrent(k) = k
  BY <1>2 DEF Entering
<1>3. CASE p # NULL /\ k.parent[p] # NULL /\ FinishCurrent(k) = k2
  <2>1. p \in Pid /\ (safe => p # Shell)
    BY <1>3, Pids DEF Entering, Good, Memory, Rooted
  <2>2. Keeps(k, k1, safe)
    BY DEF Memory, Rooted, Good, Keeps, Entering
  <2> HIDE DEF k1, p
  <2>3. Keeps(k1, k2, safe)
    BY <2>1, <2>2, KProcessKillKeeps DEF Keeps
  <2> HIDE DEF k2
  <2> QED BY <1>3, <2>2, <2>3 DEF Keeps, Entering
<1> QED BY <1>1, <1>2, <1>3

\* A pass over a queue for sleepers; it makes processes READY and nothing else.
LEMMA SleepPassType ==
  ASSUME NEW k, NEW q, NEW safe \in BOOLEAN, Resting(k, safe)
  PROVE  Resting(SleepPass(k, q), safe)
<1> DEFINE st == [p \in Pid |-> IF p \in {x \in Members(k, q) : k.sleep[x] = 0} \cup
                    (IF q = 0 THEN {k.parent[x] : x \in {x \in Members(k, q) : k.sleep[x] = 0}}
                     ELSE {}) THEN "READY" ELSE k.status[p]]
           sl == [p \in Pid |-> IF p \in Members(k, q) /\ k.sleep[p] >= 0
                                THEN k.sleep[p] - 1 ELSE k.sleep[p]]
           fa == k.fault \/ NULL \in
                    (IF q = 0 THEN {k.parent[x] : x \in {x \in Members(k, q) : k.sleep[x] = 0}}
                     ELSE {})
<1>1. SleepPass(k, q) = [k EXCEPT !.status = st, !.sleep = sl, !.fault = fa]
  BY DEF SleepPass, Resting, Good, Memory
<1>2. st \in [Pid -> Status] /\ (safe => st[Shell] \notin {"ZOMBIE", "KILLED"})
  BY Pids DEF Resting, Good, Memory, Rooted, Status
<1>3. sl \in [Pid -> -1..MaxSleep]
  <2>1. \A p \in Pid : k.sleep[p] \in -1..MaxSleep
    BY DEF Resting, Good, Memory
  <2>2. \A p \in Pid : sl[p] \in -1..MaxSleep
    BY <2>1, SleepAssumption
  <2> QED BY <2>2
<1>4. fa \in BOOLEAN
  OBVIOUS
<1> HIDE DEF st, sl, fa
<1> DEFINE m == [k EXCEPT !.status = st, !.sleep = sl, !.fault = fa]
<1>5. m \in Memory
  BY <1>2, <1>3, <1>4 DEF Resting, Good, Memory
<1>6. /\ m.live = k.live /\ m.parent = k.parent /\ m.kids = k.kids /\ m.count = k.count
      /\ m.prevfg = k.prevfg /\ m.prevcur = k.prevcur /\ m.how = k.how
      /\ m.status = st /\ m.tmod = k.tmod
  BY DEF Resting, Good, Memory
<1> HIDE DEF m
<1>7. Resting(m, safe)
  BY <1>2, <1>5, <1>6 DEF Resting, Good, Rooted
<1> QED BY <1>1, <1>7 DEF m

\* A block is dequeued and becomes cur_pcb, prev_cur and perhaps prev_fg.
LEMMA RunNextType ==
  ASSUME NEW k, NEW c \in Pid, NEW safe \in BOOLEAN, Resting(k, safe)
  PROVE  Resting(RunNext(k, c), safe)
<1> DEFINE k1 == RemovePCB(k, k.queue, c)
           k2 == RejoinParent(k1, c)
           m  == [k2 EXCEPT !.prevfg = IF k.ground[c] = FG THEN c ELSE @,
                            !.prevcur = c, !.cur = c]
<1>1. RunNext(k, c) = m
  BY DEF RunNext
<1>2. k.queue \in Queue
  BY Pids DEF Resting, Good, Memory
<1>3. Keeps(k, k1, safe)
  BY <1>2, RemovePCBKeeps DEF Resting
<1> HIDE DEF k1
<1>4. Keeps(k1, k2, safe)
  BY <1>3, RejoinParentKeeps DEF Keeps
<1> HIDE DEF k2
<1>5. Resting(k2, safe)
  BY <1>3, <1>4, KeepsTrans, KeepsResting
<1>6. m \in Memory
  BY <1>5, Pids DEF Resting, Good, Memory
<1>7. /\ m.live = k2.live /\ m.parent = k2.parent /\ m.kids = k2.kids
      /\ m.status = k2.status /\ m.count = k2.count
      /\ m.how = k2.how /\ m.tmod = k2.tmod
      /\ m.prevfg \in {c, k2.prevfg} /\ m.prevcur = c
  BY <1>5 DEF Resting, Good, Memory
<1> HIDE DEF m
<1> QED BY <1>1, <1>5, <1>6, <1>7 DEF Resting, Good, Rooted

\* A READY block gets the CPU, or there is none.
LEMMA PickNextType ==
  ASSUME NEW k, NEW safe \in BOOLEAN, Resting(k, safe)
  PROVE  Resting(PickNext(k), safe)
<1> DEFINE c == FindNextValid(k, k.head[k.queue])
<1>1. c \in Ptr /\ PickNext(k) = RunOrIdle(k, c)
  BY FindNextValidType DEF PickNext
<1> HIDE DEF c
<1>2. CASE c = NULL
  BY <1>1, <1>2 DEF RunOrIdle
<1>3. CASE c # NULL
  BY <1>1, <1>3, RunNextType, Pids DEF RunOrIdle
<1> QED BY <1>2, <1>3

\* The scheduler as a whole: memory is at rest again.
LEMMA SchedulerType ==
  ASSUME NEW k, NEW safe \in BOOLEAN, Entering(k, safe)
  PROVE  Resting(Scheduler(k), safe)
<1> DEFINE k1 == IF k.how = "TIMEOUT" THEN SwitchQueue(k) ELSE FinishCurrent(k)
           k2 == [k1 EXCEPT !.cur = NULL, !.how = "NORMAL"]
           k3 == SleepPass(k2, -1)
           k4 == SleepPass(k3, 0)
           k5 == SleepPass(k4, 1)
<1>1. Entering(k1, safe) /\ k1.tmod < Cycle
  <2>1. k.how \in {"TIMEOUT", "NORMAL"}
    BY DEF Entering, Good, Memory
  <2> QED BY <2>1, SwitchQueueType, FinishCurrentType
<1>2. Scheduler(k) = PickNext(k5)
  BY DEF Scheduler
<1> HIDE DEF k1
<1>3. Resting(k2, safe)
  <2>1. /\ k1 \in Memory /\ k1.prevfg \in Pid /\ k1.prevcur \in Pid
        /\ k1.tmod < Cycle /\ (safe => Rooted(k1))
    BY <1>1 DEF Entering, Good
  <2>2. NULL \in Ptr
    BY Pids
  <2>3. /\ k2 \in Memory /\ k2.how = "NORMAL" /\ k2.tmod = k1.tmod
        /\ k2.prevfg = k1.prevfg /\ k2.prevcur = k1.prevcur
    BY ONLY <2>1, <2>2 DEF Memory
  <2>4. /\ k2.live = k1.live /\ k2.status = k1.status /\ k2.parent = k1.parent
        /\ k2.kids = k1.kids /\ k2.count = k1.count
    BY ONLY <2>1 DEF Memory
  <2> HIDE DEF k2
  <2>5. safe => Rooted(k2)
    BY ONLY <2>1, <2>4 DEF Rooted
  <2> QED BY <2>1, <2>3, <2>5 DEF Resting, Good
<1> HIDE DEF k2
<1>4. Resting(k3, safe)
  BY <1>3, SleepPassType
<1> HIDE DEF k3
<1>5. Resting(k4, safe)
  BY <1>4, SleepPassType
<1> HIDE DEF k4
<1>6. Resting(k5, safe)
  BY <1>5, SleepPassType
<1> HIDE DEF k5
<1> QED BY <1>2, <1>6, PickNextType

\* timer_interrupt counts timer_mod up and the scheduler may be entered.
LEMMA TimerInterruptType ==
  ASSUME NEW k, NEW safe \in BOOLEAN, Resting(k, safe)
  PROVE  Entering(TimerInterrupt(k), safe)
<1> DEFINE k1 == [k EXCEPT !.how = "TIMEOUT", !.tmod = @ + 1]
           p  == k.cur
           k2 == AddPCB(k1, k.prio[p], p)
<1>1. Entering(k1, safe) /\ k1.how = "TIMEOUT"
  <2>1. k.tmod + 1 \in 0..Cycle
    BY SliceAssumption DEF Resting, Good, Memory
  <2> QED BY <2>1 DEF Resting, Entering, Good, Memory, Rooted
<1>2. TimerInterrupt(k) = IF p = NULL THEN k1 ELSE k2
  BY DEF TimerInterrupt
<1> HIDE DEF k1
<1>3. CASE p # NULL
  <2>1. p \in Pid /\ k.prio[p] \in Queue
    BY <1>3, Pids DEF Resting, Good, Memory
  <2> HIDE DEF p
  <2>2. Keeps(k1, k2, safe)
    BY <1>1, <2>1, AddPCBKeeps DEF Entering
  <2> HIDE DEF k2
  <2> QED BY <1>1, <1>2, <1>3, <2>2 DEF Keeps, Entering
<1>4. CASE p = NULL
  BY <1>1, <1>2, <1>4
<1> QED BY <1>3, <1>4

\* k_process_swap_to_scheduler.
LEMMA KProcessSwapToSchedulerType ==
  ASSUME NEW k, NEW c \in Context, NEW safe \in BOOLEAN, Resting(k, safe)
  PROVE  Resting(KProcessSwapToScheduler(k, c), safe)
<1> DEFINE p  == k.cur
           k1 == [k EXCEPT !.status[p] = "BLOCKED", !.ctx[p] = c]
           k2 == AddPCB(k1, k.prio[p], p)
<1>1. KProcessSwapToScheduler(k, c) = IF p = NULL THEN Fault(k) ELSE k2
  BY DEF KProcessSwapToScheduler
<1>2. Resting(Fault(k), safe)
  BY DEF Fault, Resting, Good, Memory, Rooted
<1>3. CASE p # NULL
  <2>1. p \in Pid /\ k.prio[p] \in Queue
    BY <1>3, Pids DEF Resting, Good, Memory
  <2> HIDE DEF p
  <2>2. Resting(k1, safe)
    <3>1. /\ k \in Memory /\ k.prevfg \in Pid /\ k.prevcur \in Pid
          /\ k.how = "NORMAL" /\ k.tmod < Cycle /\ (safe => Rooted(k))
      BY DEF Resting, Good
    <3>2. "BLOCKED" \in Status /\ c \in Context
      BY DEF Status
    <3>3. k1 \in Memory
      BY ONLY <2>1, <3>1, <3>2 DEF Memory
    <3>4. /\ k1.how = k.how /\ k1.tmod = k.tmod
          /\ k1.prevfg = k.prevfg /\ k1.prevcur = k.prevcur
      BY ONLY <3>1 DEF Memory
    <3>5. /\ k1.live = k.live /\ k1.status = [k.status EXCEPT ![p] = "BLOCKED"]
          /\ k1.parent = k.parent /\ k1.kids = k.kids /\ k1.count = k.count
      BY ONLY <3>1 DEF Memory
    <3>6. k.status \in [Pid -> Status] /\ Shell \in Pid
      BY <3>1, Pids DEF Memory
    <3> HIDE DEF k1
    <3>7. safe => Rooted(k1)
      BY ONLY <3>1, <3>5, <3>6 DEF Rooted
    <3> QED BY <3>1, <3>3, <3>4, <3>7 DEF Resting, Good
  <2> HIDE DEF k1
  <2>3. Keeps(k1, k2, safe)
    BY <2>1, <2>2, AddPCBKeeps DEF Resting
  <2> HIDE DEF k2
  <2> QED BY <1>1, <1>3, <2>2, <2>3, KeepsResting
<1>4. CASE p = NULL
  BY <1>1, <1>2, <1>4
<1> QED BY <1>3, <1>4

\* What malloc leaves in next is a pointer.
LEMMA StaleNextType ==
  ASSUME NEW k \in Memory, k.count \in Pid, NEW stale \in StaleNext(k)
  PROVE  stale \in Ptr
<1>1. k.count \in Nat /\ k.count <= MaxPid
  BY MaxPidAssumption DEF Pid
<1>2. \A p \in Freed(k) : p \in Pid
  BY <1>1, MaxPidAssumption DEF Pid, Freed
<1>3. \A p \in Pid : k.next[p] \in Ptr
  BY DEF Memory
<1> QED BY <1>2, <1>3, Pids DEF StaleNext

\* create_PCB sets every field of the block, and nothing else.
BlockCreated(k, p, stale, m) ==
  /\ m.live = k.live \cup {p}
  /\ m.next = [k.next EXCEPT ![p] = stale]
  /\ m.parent = [k.parent EXCEPT ![p] = NULL]
  /\ m.kids = [k.kids EXCEPT ![p] = <<>>]
  /\ m.status = [k.status EXCEPT ![p] = "READY"]
  /\ m.prio = [k.prio EXCEPT ![p] = 0]
  /\ m.changed = [k.changed EXCEPT ![p] = FALSE]
  /\ m.natty = [k.natty EXCEPT ![p] = FALSE]
  /\ m.sigflag = [k.sigflag EXCEPT ![p] = FALSE]
  /\ m.ground = [k.ground EXCEPT ![p] = FG]
  /\ m.sleep = [k.sleep EXCEPT ![p] = -1]
  /\ m.head = k.head /\ m.ctx = k.ctx /\ m.count = k.count /\ m.fault = k.fault
  /\ m.cur = k.cur /\ m.prevfg = k.prevfg /\ m.prevcur = k.prevcur /\ m.how = k.how
  /\ m.tmod = k.tmod /\ m.queue = k.queue

LEMMA BlockIsCreated ==
  ASSUME NEW k \in Memory, NEW p, NEW stale
  PROVE  BlockCreated(k, p, stale, CreatePCB(k, p, stale))
<1> DEFINE m == CreatePCB(k, p, stale)
<1>0. k \in Memory
  OBVIOUS
<1>1. m.live = k.live \cup {p}
  BY ONLY <1>0 DEF CreatePCB, Memory
<1>2. m.next = [k.next EXCEPT ![p] = stale]
  BY ONLY <1>0 DEF CreatePCB, Memory
<1>3. m.parent = [k.parent EXCEPT ![p] = NULL]
  BY ONLY <1>0 DEF CreatePCB, Memory
<1>4. m.kids = [k.kids EXCEPT ![p] = <<>>]
  BY ONLY <1>0 DEF CreatePCB, Memory
<1>5. m.status = [k.status EXCEPT ![p] = "READY"]
  BY ONLY <1>0 DEF CreatePCB, Memory
<1>6. m.prio = [k.prio EXCEPT ![p] = 0]
  BY ONLY <1>0 DEF CreatePCB, Memory
<1>7. m.changed = [k.changed EXCEPT ![p] = FALSE]
  BY ONLY <1>0 DEF CreatePCB, Memory
<1>8. m.natty = [k.natty EXCEPT ![p] = FALSE]
  BY ONLY <1>0 DEF CreatePCB, Memory
<1>9. m.sigflag = [k.sigflag EXCEPT ![p] = FALSE]
  BY ONLY <1>0 DEF CreatePCB, Memory
<1>10. m.ground = [k.ground EXCEPT ![p] = FG]
  BY ONLY <1>0 DEF CreatePCB, Memory
<1>11. m.sleep = [k.sleep EXCEPT ![p] = -1]
  BY ONLY <1>0 DEF CreatePCB, Memory
<1>12. m.head = k.head /\ m.ctx = k.ctx /\ m.count = k.count /\ m.fault = k.fault
  BY ONLY <1>0 DEF CreatePCB, Memory
<1>13. m.cur = k.cur /\ m.prevfg = k.prevfg /\ m.prevcur = k.prevcur /\ m.how = k.how
  BY ONLY <1>0 DEF CreatePCB, Memory
<1>14. m.tmod = k.tmod /\ m.queue = k.queue
  BY ONLY <1>0 DEF CreatePCB, Memory
<1> HIDE DEF m
<1>q. BlockCreated(k, p, stale, m)
  BY ONLY <1>1, <1>2, <1>3, <1>4, <1>5, <1>6, <1>7, <1>8, <1>9, <1>10, <1>11, <1>12, <1>13, <1>14 DEF BlockCreated
<1> QED BY <1>q DEF m

\* create_PCB, for a pid that is not in use.
LEMMA CreatePCBType ==
  ASSUME NEW k, NEW p \in Pid, NEW stale \in Ptr, NEW safe \in BOOLEAN, Good(k, safe),
         safe => p # Shell
  PROVE  Keeps(k, CreatePCB(k, p, stale), safe)
<1> DEFINE m == CreatePCB(k, p, stale)
<1>0. /\ -1 \in -1..MaxSleep /\ <<>> \in Seq(Pid) /\ "READY" \in Status
      /\ 0 \in RunQueue /\ NULL \in Ptr /\ FG \in BOOLEAN
  BY SleepAssumption, Pids DEF Status, RunQueue, FG
<1>1. /\ m \in Memory
      /\ m.prevfg = k.prevfg /\ m.prevcur = k.prevcur
      /\ m.count = k.count /\ m.cur = k.cur /\ m.how = k.how /\ m.tmod = k.tmod
  <2> DEFINE a == [k EXCEPT !.live = @ \cup {p}, !.next[p] = stale, !.parent[p] = NULL,
                            !.kids[p] = <<>>, !.status[p] = "READY", !.prio[p] = 0]
             b == [a EXCEPT !.changed[p] = FALSE, !.natty[p] = FALSE,
                            !.sigflag[p] = FALSE, !.ground[p] = FG, !.sleep[p] = -1]
  <2>0. k \in Memory /\ p \in Pid /\ stale \in Ptr
    BY DEF Good
  <2>1. m = b
    BY ONLY <2>0 DEF CreatePCB, Memory
  <2>2. a \in Memory
    <3> DEFINE d == [k EXCEPT !.live = @ \cup {p}, !.next[p] = stale]
               e == [d EXCEPT !.parent[p] = NULL, !.kids[p] = <<>>]
    <3>1. d \in Memory
      BY ONLY <2>0 DEF Memory
    <3>2. a = [e EXCEPT !.status[p] = "READY", !.prio[p] = 0]
      BY ONLY <2>0 DEF Memory
    <3> HIDE DEF d, a
    <3>3. e \in Memory
      BY ONLY <1>0, <2>0, <3>1 DEF Memory
    <3> HIDE DEF e
    <3> QED BY ONLY <1>0, <2>0, <3>2, <3>3 DEF Memory
  <2>3. /\ a.prevfg = k.prevfg /\ a.prevcur = k.prevcur
        /\ a.count = k.count /\ a.cur = k.cur /\ a.how = k.how /\ a.tmod = k.tmod
    BY ONLY <2>0 DEF Memory
  <2> HIDE DEF a, m
  <2>4. b \in Memory
    BY ONLY <1>0, <2>2 DEF Memory
  <2>5. /\ b.prevfg = a.prevfg /\ b.prevcur = a.prevcur
        /\ b.count = a.count /\ b.cur = a.cur /\ b.how = a.how /\ b.tmod = a.tmod
    BY ONLY <2>2 DEF Memory
  <2> HIDE DEF b
  <2> QED BY <2>1, <2>3, <2>4, <2>5
<1>2. /\ m.live = k.live \cup {p}
      /\ m.status = [k.status EXCEPT ![p] = "READY"]
      /\ m.parent = [k.parent EXCEPT ![p] = NULL]
      /\ m.kids = [k.kids EXCEPT ![p] = <<>>]
  <2>1. BlockCreated(k, p, stale, m)
    BY BlockIsCreated DEF Good
  <2> HIDE DEF m
  <2> QED BY ONLY <2>1 DEF BlockCreated
<1>3. /\ k.status \in [Pid -> Status] /\ k.parent \in [Pid -> Ptr]
      /\ k.kids \in [Pid -> Seq(Pid)]
  BY DEF Good, Memory
<1> HIDE DEF m
<1>4. ASSUME safe PROVE Rooted(m)
  <2>1. \A q \in Pid : \A i \in 1..Len(m.kids[q]) : m.kids[q][i] # Shell
    <3> TAKE q \in Pid
    <3>1. CASE q = p
      BY <1>2, <1>3, <3>1
    <3>2. CASE q # p
      BY <1>2, <1>3, <1>4, <3>2 DEF Good, Rooted
    <3> QED BY <3>1, <3>2
  <2> QED BY <1>1, <1>2, <1>3, <1>4, <2>1, Pids DEF Good, Rooted
<1> QED BY <1>1, <1>4 DEF Keeps, Good, m

\* k_process_create, for a pid within the bound.
LEMMA KProcessCreateType ==
  ASSUME NEW k, NEW parent \in Ptr, NEW stale \in Ptr, NEW pc, NEW safe \in BOOLEAN,
         Resting(k, safe), k.count \in Pid,
         [who |-> k.count, pc |-> pc] \in Context
  PROVE  Resting(KProcessCreate(k, parent, stale, pc), safe)
<1> DEFINE p  == k.count
           k0 == CreatePCB(k, p, stale)
           k1 == [k0 EXCEPT !.ctx[p] = [who |-> p, pc |-> pc]]
           k2 == IF parent = NULL THEN k1 ELSE AddChild(k1, parent, p)
           k3 == AddPCB(k2, 0, p)
           m  == [k3 EXCEPT !.prevcur = p, !.count = p + 1]
<1>1. KProcessCreate(k, parent, stale, pc) = m
  BY DEF KProcessCreate
<1>2. /\ safe => p # Shell
      /\ 0 \in Queue
      /\ p + 1 \in 1..(MaxPid + 1) /\ p + 1 # Shell
  BY MaxPidAssumption DEF Resting, Good, Rooted, Pid, Queue, Shell
<1>3. Keeps(k, k0, safe)
  BY <1>2, CreatePCBType DEF Resting
<1> HIDE DEF k0
<1>4. Keeps(k0, k1, safe)
  BY <1>3 DEF Memory, Rooted, Good, Keeps
<1> HIDE DEF k1
<1>5. Keeps(k1, k2, safe)
  <2>1. CASE parent = NULL
    BY <1>4, <2>1, KeepsSelf DEF Keeps
  <2>2. CASE parent # NULL
    <3>1. Good(k1, safe) /\ parent \in Pid
      BY <1>4, <2>2, Pids DEF Keeps
    <3> QED BY <1>2, <2>2, <3>1, AddChildKeeps
  <2> QED BY <2>1, <2>2
<1> HIDE DEF k2
<1>6. Keeps(k2, k3, safe)
  BY <1>2, <1>5, AddPCBKeeps DEF Keeps
<1> HIDE DEF k3
<1>7. Resting(k3, safe)
  BY <1>3, <1>4, <1>5, <1>6, KeepsTrans, KeepsResting
<1>8. m \in Memory
  BY <1>2, <1>7, Pids DEF Resting, Good, Memory
<1>9. /\ m.live = k3.live /\ m.status = k3.status /\ m.parent = k3.parent
      /\ m.kids = k3.kids /\ m.prevfg = k3.prevfg /\ m.how = k3.how /\ m.tmod = k3.tmod
      /\ m.prevcur = p /\ m.count = p + 1
  BY <1>7 DEF Resting, Good, Memory
<1> HIDE DEF m
<1>10. Resting(m, safe)
  BY <1>2, <1>7, <1>8, <1>9 DEF Resting, Good, Rooted
<1> QED BY <1>1, <1>10
=============================================================================
