----------------------------- MODULE ListProofs -----------------------------
(***************************************************************************)
(* What the operators of Pcb and Kernel do to the lists, for every MaxPid: *)
(* which blocks a walk visits after a block is linked or unlinked, and     *)
(* that every walk ends.                                                   *)
(***************************************************************************)
EXTENDS KernelProofs

\* Every walk along next ends: no set of blocks is closed under it.
Ends(next) == \A S \in SUBSET Pid : S # {} => \E p \in S : next[p] \notin S

-----------------------------------------------------------------------------
(***************************************************************************)
(* Walks.                                                                  *)
(***************************************************************************)
\* The blocks a walk from h visits are closed under next ...
LEMMA VisitedCloses ==
  ASSUME NEW next \in [Pid -> Ptr], NEW h \in Ptr
  PROVE  /\ Visited(next, h, {}) \subseteq Pid
         /\ h # NULL => h \in Visited(next, h, {})
         /\ \A x \in Visited(next, h, {}) :
              next[x] # NULL => next[x] \in Visited(next, h, {})
<1>1. \A x \in Pid : next[x] \in Ptr
  OBVIOUS
<1> QED BY <1>1, Pids DEF Visited

\* ... and are in every set that is closed under next and holds h.
LEMMA VisitedLeast ==
  ASSUME NEW next, NEW h, NEW S \in SUBSET Pid,
         h # NULL => h \in S,
         \A x \in S : next[x] # NULL => next[x] \in S
  PROVE  Visited(next, h, {}) \subseteq S
BY DEF Visited

\* From NULL a walk visits nothing.
LEMMA VisitedNull ==
  ASSUME NEW next
  PROVE  Visited(next, NULL, {}) = {}
<1>1. {} \in SUBSET Pid /\ (NULL # NULL => NULL \in {})
  OBVIOUS
<1>2. Visited(next, NULL, {}) \subseteq {}
  BY <1>1, VisitedLeast
<1> QED BY <1>2

\* The walk from h is h and the walk from the block after it.
LEMMA VisitedStep ==
  ASSUME NEW next \in [Pid -> Ptr], NEW h \in Pid
  PROVE  Visited(next, h, {}) = {h} \cup Visited(next, next[h], {})
<1> DEFINE V == Visited(next, h, {})
           W == Visited(next, next[h], {})
<1>1. next[h] \in Ptr /\ h \in Ptr /\ h # NULL
  BY Pids
<1>2. /\ V \subseteq Pid /\ h \in V
      /\ \A x \in V : next[x] # NULL => next[x] \in V
  BY <1>1, VisitedCloses
<1>3. /\ W \subseteq Pid
      /\ next[h] # NULL => next[h] \in W
      /\ \A x \in W : next[x] # NULL => next[x] \in W
  BY <1>1, VisitedCloses
<1>4. W \subseteq V
  BY <1>2, VisitedLeast
<1>5. V \subseteq {h} \cup W
  <2>1. {h} \cup W \in SUBSET Pid /\ h \in {h} \cup W
        /\ \A x \in {h} \cup W : next[x] # NULL => next[x] \in {h} \cup W
    <3> HIDE DEF W
    <3> QED BY <1>3
  <2> HIDE DEF W
  <2> QED BY <2>1, VisitedLeast
<1> HIDE DEF V, W
<1>6. V = {h} \cup W
  BY <1>2, <1>4, <1>5
<1> QED BY <1>6 DEF V, W

\* A block is not visited again by the walk that goes on behind it.
LEMMA NoReturn ==
  ASSUME NEW next \in [Pid -> Ptr], Ends(next), NEW p \in Pid
  PROVE  p \notin Visited(next, next[p], {})
<1> DEFINE W == Visited(next, next[p], {})
           C == {x \in W : p \in Visited(next, x, {})}
<1> SUFFICES ASSUME p \in W PROVE FALSE
  OBVIOUS
<1>1. /\ W \subseteq Pid
      /\ \A x \in W : next[x] # NULL => next[x] \in W
      /\ next[p] # NULL => next[p] \in W
  BY VisitedCloses
<1>2. \A x \in Pid : Visited(next, x, {}) = {x} \cup Visited(next, next[x], {})
  BY VisitedStep
<1>3. p \in C
  BY <1>2
<1>4. \A x \in C : next[x] \in C
  <2> TAKE x \in C
  <2>1. p \in Visited(next, next[x], {})
    <3>1. CASE x = p
      BY <3>1
    <3>2. CASE x # p
      BY <1>1, <1>2, <3>2
    <3> QED BY <3>1, <3>2
  <2>2. next[x] # NULL
    BY <2>1, VisitedNull
  <2> QED BY <1>1, <2>1, <2>2
<1>5. C \in SUBSET Pid /\ C # {}
  BY <1>1, <1>3
<1> HIDE DEF C
<1> QED BY <1>4, <1>5 DEF Ends

\* The walk from h ends at a block without a next.
LEMMA LastOne ==
  ASSUME NEW next \in [Pid -> Ptr], Ends(next), NEW h \in Pid
  PROVE  \E x \in Visited(next, h, {}) : next[x] = NULL
<1> DEFINE V == Visited(next, h, {})
<1>1. /\ V \subseteq Pid /\ h \in V
      /\ \A x \in V : next[x] # NULL => next[x] \in V
  BY VisitedCloses, Pids
<1> HIDE DEF V
<1>2. PICK x \in V : next[x] \notin V
  BY <1>1 DEF Ends
<1> QED BY <1>1, <1>2 DEF V

\* A walk does not notice what is changed elsewhere.
LEMMA VisitedAgrees ==
  ASSUME NEW next \in [Pid -> Ptr], NEW new \in [Pid -> Ptr], NEW h \in Ptr,
         \A x \in Visited(next, h, {}) : new[x] = next[x]
  PROVE  Visited(new, h, {}) = Visited(next, h, {})
<1> DEFINE V == Visited(next, h, {})
           W == Visited(new, h, {})
           T == V \cap W
<1>1. /\ V \subseteq Pid /\ (h # NULL => h \in V)
      /\ \A x \in V : next[x] # NULL => next[x] \in V
  BY VisitedCloses
<1>2. /\ W \subseteq Pid /\ (h # NULL => h \in W)
      /\ \A x \in W : new[x] # NULL => new[x] \in W
  BY VisitedCloses
<1>3. \A x \in V : new[x] = next[x]
  OBVIOUS
<1>4. W \subseteq V
  BY <1>1, <1>3, VisitedLeast
<1>5. V \subseteq T
  <2>1. T \in SUBSET Pid /\ (h # NULL => h \in T)
        /\ \A x \in T : next[x] # NULL => next[x] \in T
    <3> HIDE DEF V, W
    <3> QED BY <1>1, <1>2, <1>3
  <2> HIDE DEF T
  <2> QED BY <2>1, VisitedLeast
<1> HIDE DEF V, W
<1>6. W = V
  BY <1>4, <1>5
<1> QED BY <1>6 DEF V, W
-----------------------------------------------------------------------------
(***************************************************************************)
(* A block behind the last one of a list (add_PCB).                        *)
(***************************************************************************)
Behind(next, members, p) ==
  [c \in Pid |-> IF c = p THEN NULL
                 ELSE IF c \in members /\ next[c] = NULL THEN p ELSE next[c]]

LEMMA BehindEnds ==
  ASSUME NEW next \in [Pid -> Ptr], Ends(next), NEW members, NEW p \in Pid
  PROVE  Behind(next, members, p) \in [Pid -> Ptr] /\ Ends(Behind(next, members, p))
<1> DEFINE new == Behind(next, members, p)
<1>1. /\ new \in [Pid -> Ptr] /\ new[p] = NULL
      /\ \A c \in Pid : new[c] # next[c] => new[c] \in {NULL, p}
  BY Pids DEF Behind
<1> HIDE DEF new
<1>2. ASSUME NEW S \in SUBSET Pid, S # {} PROVE \E x \in S : new[x] \notin S
  <2>1. NULL \notin S
    BY Pids
  <2>2. PICK x \in S : next[x] \notin S
    BY <1>2 DEF Ends
  <2>3. CASE p \in S
    BY <1>1, <2>1, <2>3
  <2>4. CASE p \notin S
    BY <1>1, <2>1, <2>2, <2>4
  <2> QED BY <2>3, <2>4
<1>3. Ends(new)
  BY <1>2 DEF Ends
<1> QED BY <1>1, <1>3 DEF new

LEMMA BehindVisits ==
  ASSUME NEW next \in [Pid -> Ptr], Ends(next), NEW h \in Pid, NEW p \in Pid,
         p \notin Visited(next, h, {})
  PROVE  Visited(Behind(next, Visited(next, h, {}), p), h, {})
           = Visited(next, h, {}) \cup {p}
<1> DEFINE V == Visited(next, h, {})
           new == Behind(next, V, p)
           W == Visited(new, h, {})
           T == V \cap W
<1>1. /\ V \subseteq Pid /\ h \in V
      /\ \A x \in V : next[x] # NULL => next[x] \in V
  BY VisitedCloses, Pids
<1>2. PICK z \in V : next[z] = NULL
  BY LastOne
<1>3. p \notin V
  OBVIOUS
<1> HIDE DEF V
<1>4. /\ new \in [Pid -> Ptr] /\ new[p] = NULL
      /\ \A c \in V : new[c] = IF next[c] = NULL THEN p ELSE next[c]
  BY <1>1, <1>3, Pids DEF Behind
<1> HIDE DEF new
<1>5. /\ W \subseteq Pid /\ h \in W
      /\ \A x \in W : new[x] # NULL => new[x] \in W
  BY <1>4, VisitedCloses, Pids
<1>6. W \subseteq V \cup {p}
  <2>1. V \cup {p} \in SUBSET Pid /\ h \in V \cup {p}
        /\ \A x \in V \cup {p} : new[x] # NULL => new[x] \in V \cup {p}
    BY <1>1, <1>4
  <2> QED BY <2>1, VisitedLeast
<1> HIDE DEF W
<1>7. V \subseteq T
  <2>1. T \in SUBSET Pid /\ h \in T
        /\ \A x \in T : next[x] # NULL => next[x] \in T
    BY <1>1, <1>4, <1>5
  <2> HIDE DEF T
  <2> QED BY <2>1, VisitedLeast DEF V
<1>8. p \in W
  BY <1>2, <1>4, <1>5, <1>7, Pids
<1>9. W = V \cup {p}
  BY <1>6, <1>7, <1>8
<1> QED BY <1>9 DEF W, V, new
-----------------------------------------------------------------------------
(***************************************************************************)
(* A block taken out of the middle of a list (remove_PCB).                 *)
(***************************************************************************)
Around(next, members, p) ==
  [c \in Pid |-> IF c \in members /\ next[c] = p THEN next[p] ELSE next[c]]

LEMMA AroundEnds ==
  ASSUME NEW next \in [Pid -> Ptr], Ends(next), NEW members, NEW p \in Pid
  PROVE  Around(next, members, p) \in [Pid -> Ptr] /\ Ends(Around(next, members, p))
<1> DEFINE new == Around(next, members, p)
<1>1. /\ new \in [Pid -> Ptr]
      /\ \A c \in Pid : new[c] # next[c] => next[c] = p /\ new[c] = next[p]
  BY DEF Around
<1> HIDE DEF new
<1>2. ASSUME NEW S \in SUBSET Pid, S # {} PROVE \E x \in S : new[x] \notin S
  <2>1. PICK x \in S : next[x] \notin S
    BY <1>2 DEF Ends
  <2>2. CASE p \in S
    BY <1>1, <2>1, <2>2
  <2>3. CASE p \notin S /\ next[p] \notin S
    BY <1>1, <2>1, <2>3
  <2>4. CASE p \notin S /\ next[p] \in S
    <3>1. S \cup {p} \in SUBSET Pid /\ S \cup {p} # {}
      OBVIOUS
    <3>2. PICK y \in S \cup {p} : next[y] \notin S \cup {p}
      BY <3>1 DEF Ends
    <3> QED BY <1>1, <2>4, <3>2
  <2> QED BY <2>2, <2>3, <2>4
<1>3. Ends(new)
  BY <1>2 DEF Ends
<1> QED BY <1>1, <1>3 DEF new

LEMMA AroundVisits ==
  ASSUME NEW next \in [Pid -> Ptr], Ends(next), NEW h \in Pid, NEW p \in Pid, h # p,
         p \in Visited(next, h, {})
  PROVE  Visited(Around(next, Visited(next, h, {}), p), h, {})
           = Visited(next, h, {}) \ {p}
<1> DEFINE V == Visited(next, h, {})
           new == Around(next, V, p)
           W == Visited(new, h, {})
           T == {x \in V : IF x = p THEN next[p] = NULL \/ next[p] \in W ELSE x \in W}
<1>1. /\ V \subseteq Pid /\ h \in V
      /\ \A x \in V : next[x] # NULL => next[x] \in V
  BY VisitedCloses, Pids
<1>2. next[p] # p
  <2>1. p \notin Visited(next, next[p], {})
    BY NoReturn
  <2>2. next[p] # NULL => next[p] \in Visited(next, next[p], {})
    BY VisitedCloses
  <2> QED BY <2>1, <2>2, Pids
<1>3. p \in V
  OBVIOUS
<1> HIDE DEF V
<1>4. /\ new \in [Pid -> Ptr]
      /\ \A c \in V : new[c] = IF next[c] = p THEN next[p] ELSE next[c]
  BY <1>1 DEF Around
<1> HIDE DEF new
<1>5. /\ W \subseteq Pid /\ h \in W
      /\ \A x \in W : new[x] # NULL => new[x] \in W
  BY <1>4, VisitedCloses, Pids
<1>6. W \subseteq V \ {p}
  <2>1. V \ {p} \in SUBSET Pid /\ h \in V \ {p}
        /\ \A x \in V \ {p} : new[x] # NULL => new[x] \in V \ {p}
    BY <1>1, <1>2, <1>3, <1>4
  <2> QED BY <2>1, VisitedLeast
<1> HIDE DEF W
<1>7. V \subseteq T
  <2>1. T \in SUBSET Pid /\ h \in T
    BY <1>1, <1>5
  <2>2. ASSUME NEW x \in T, next[x] # NULL PROVE next[x] \in T
    BY <1>1, <1>2, <1>3, <1>4, <1>5, <2>2
  <2> HIDE DEF T
  <2> QED BY <2>1, <2>2, VisitedLeast DEF V
<1>8. W = V \ {p}
  BY <1>6, <1>7
<1> QED BY <1>8 DEF W, V, new
-----------------------------------------------------------------------------
(***************************************************************************)
(* The head taken off a list, and a block put in front of one.             *)
(***************************************************************************)
LEMMA ClearedEnds ==
  ASSUME NEW next \in [Pid -> Ptr], Ends(next), NEW p \in Pid
  PROVE  [next EXCEPT ![p] = NULL] \in [Pid -> Ptr] /\ Ends([next EXCEPT ![p] = NULL])
<1> DEFINE new == [next EXCEPT ![p] = NULL]
<1>1. /\ new \in [Pid -> Ptr] /\ new[p] = NULL
      /\ \A c \in Pid : c # p => new[c] = next[c]
  BY Pids
<1> HIDE DEF new
<1>2. ASSUME NEW S \in SUBSET Pid, S # {} PROVE \E x \in S : new[x] \notin S
  <2>1. PICK x \in S : next[x] \notin S
    BY <1>2 DEF Ends
  <2> QED BY <1>1, <2>1, Pids
<1>3. Ends(new)
  BY <1>2 DEF Ends
<1> QED BY <1>1, <1>3 DEF new

LEMMA ClearedVisits ==
  ASSUME NEW next \in [Pid -> Ptr], Ends(next), NEW p \in Pid
  PROVE  Visited([next EXCEPT ![p] = NULL], next[p], {}) = Visited(next, p, {}) \ {p}
<1> DEFINE new == [next EXCEPT ![p] = NULL]
           V == Visited(next, next[p], {})
<1>1. p \notin V /\ Visited(next, p, {}) = {p} \cup V
  BY NoReturn, VisitedStep
<1>2. V \subseteq Pid
  BY VisitedCloses
<1>3. new \in [Pid -> Ptr] /\ \A c \in Pid : c # p => new[c] = next[c]
  BY Pids
<1>4. \A x \in V : new[x] = next[x]
  <2> HIDE DEF new, V
  <2> QED BY <1>1, <1>2, <1>3
<1> HIDE DEF new
<1>5. Visited(new, next[p], {}) = V
  BY <1>3, <1>4, VisitedAgrees
<1> HIDE DEF V
<1> QED BY <1>1, <1>5 DEF new

LEMMA PushedEnds ==
  ASSUME NEW next \in [Pid -> Ptr], Ends(next), NEW p \in Pid, NEW h \in Ptr,
         p \notin Visited(next, h, {})
  PROVE  [next EXCEPT ![p] = h] \in [Pid -> Ptr] /\ Ends([next EXCEPT ![p] = h])
<1> DEFINE new == [next EXCEPT ![p] = h]
           V == Visited(next, h, {})
<1>1. /\ new \in [Pid -> Ptr] /\ new[p] = h
      /\ \A c \in Pid : c # p => new[c] = next[c]
  OBVIOUS
<1>2. /\ V \subseteq Pid /\ (h # NULL => h \in V) /\ p \notin V
      /\ \A x \in V : next[x] # NULL => next[x] \in V
  BY VisitedCloses
<1> HIDE DEF new, V
<1>3. ASSUME NEW S \in SUBSET Pid, S # {} PROVE \E x \in S : new[x] \notin S
  <2>1. PICK x \in S : next[x] \notin S
    BY <1>3 DEF Ends
  <2>2. CASE x # p
    BY <1>1, <2>1, <2>2
  <2>3. CASE x = p /\ h \notin S
    BY <1>1, <2>3
  <2>4. CASE h \in S
    <3>1. S \cap V \in SUBSET Pid /\ S \cap V # {}
      BY <1>2, <2>4, Pids
    <3>2. PICK y \in S \cap V : next[y] \notin S \cap V
      BY <3>1 DEF Ends
    <3>3. next[y] \notin S
      BY <1>2, <3>2, Pids
    <3> QED BY <1>1, <1>2, <3>2, <3>3
  <2> QED BY <2>2, <2>3, <2>4
<1>4. Ends(new)
  BY <1>3 DEF Ends
<1> QED BY <1>1, <1>4 DEF new

\* A block that nothing points to may point anywhere but to itself.
LEMMA FreshEnds ==
  ASSUME NEW next \in [Pid -> Ptr], Ends(next), NEW p \in Pid, NEW h \in Ptr,
         h # p, \A x \in Pid : next[x] # p
  PROVE  [next EXCEPT ![p] = h] \in [Pid -> Ptr] /\ Ends([next EXCEPT ![p] = h])
<1> DEFINE new == [next EXCEPT ![p] = h]
<1>1. /\ new \in [Pid -> Ptr] /\ new[p] = h
      /\ \A c \in Pid : c # p => new[c] = next[c]
  OBVIOUS
<1> HIDE DEF new
<1>2. ASSUME NEW S \in SUBSET Pid, S # {} PROVE \E x \in S : new[x] \notin S
  <2>1. CASE S \ {p} = {}
    BY <1>1, <1>2, <2>1
  <2>2. CASE S \ {p} # {}
    <3>1. S \ {p} \in SUBSET Pid
      OBVIOUS
    <3>2. PICK x \in S \ {p} : next[x] \notin S \ {p}
      BY <2>2, <3>1 DEF Ends
    <3> QED BY <1>1, <3>2
  <2> QED BY <2>1, <2>2
<1>3. Ends(new)
  BY <1>2 DEF Ends
<1> QED BY <1>1, <1>3 DEF new

-----------------------------------------------------------------------------
(***************************************************************************)
(* Kernel memory.  Links: every walk ends, and no pointer leads to a block *)
(* that is yet to be created.                                              *)
(***************************************************************************)
Known(k) ==
  /\ \A x \in Pid : k.next[x] < k.count /\ k.parent[x] < k.count
  /\ \A q \in Queue : k.head[q] < k.count
  /\ k.cur < k.count /\ k.prevfg < k.count /\ k.prevcur < k.count

Links(k) == k \in Memory /\ Ends(k.next) /\ Known(k)

\* The fields that the operations on lists and child lists leave alone.
SameFields(k, m) ==
  /\ m.status = k.status /\ m.changed = k.changed /\ m.natty = k.natty
  /\ m.prio = k.prio /\ m.sigflag = k.sigflag /\ m.ground = k.ground
  /\ m.sleep = k.sleep /\ m.ctx = k.ctx /\ m.count = k.count
  /\ m.fault = k.fault /\ m.cur = k.cur /\ m.prevfg = k.prevfg
  /\ m.prevcur = k.prevcur /\ m.how = k.how /\ m.tmod = k.tmod
  /\ m.queue = k.queue

\* m comes from k by such operations.
Relinks(k, m) == Links(m) /\ SameFields(k, m)

LEMMA RelinksTrans ==
  ASSUME NEW k, NEW l, NEW m, Relinks(k, l), Relinks(l, m)
  PROVE  Relinks(k, m)
BY DEF Relinks, SameFields

LEMMA RelinksSelf ==
  ASSUME NEW k, Links(k)
  PROVE  Relinks(k, k)
BY DEF Relinks, SameFields

\* Only blocks that have been created are in a list.
LEMMA MembersKnown ==
  ASSUME NEW k, Links(k), NEW q \in Queue
  PROVE  /\ Members(k, q) \subseteq Pid
         /\ \A x \in Members(k, q) : x < k.count
<1> DEFINE S == {x \in Pid : x < k.count}
<1>1. k.next \in [Pid -> Ptr] /\ k.head[q] \in Ptr
  BY DEF Links, Memory
<1>2. S \in SUBSET Pid /\ (k.head[q] # NULL => k.head[q] \in S)
      /\ \A x \in S : k.next[x] # NULL => k.next[x] \in S
  BY <1>1, Pids DEF Links, Known
<1> HIDE DEF S
<1>3. Members(k, q) \subseteq S
  BY <1>2, VisitedLeast DEF Members
<1> QED BY <1>3 DEF S

\* add_PCB, for a block that has been created.
LEMMA AddPCBRelinks ==
  ASSUME NEW k, Links(k), NEW q \in Queue, NEW p \in Pid, p < k.count
  PROVE  Relinks(k, AddPCB(k, q, p))
<1> DEFINE b  == Behind(k.next, Members(k, q), p)
           m1 == [k EXCEPT !.head[q] = p]
           m2 == [k EXCEPT !.next = b]
<1>1. AddPCB(k, q, p) \in {k, m1, m2}
  BY DEF AddPCB, Behind
<1>2. b \in [Pid -> Ptr] /\ Ends(b)
  BY BehindEnds DEF Links, Memory
<1>3. \A x \in Pid : b[x] < k.count
  <2>1. NULL < k.count
    BY MaxPidAssumption DEF Links, Memory, NULL
  <2> QED BY <2>1 DEF Behind, Links, Known
<1> HIDE DEF b
<1>4. SameFields(k, m1) /\ SameFields(k, m2)
  BY DEF SameFields, Links, Memory
<1>5. m1 \in Memory /\ m2 \in Memory
  BY <1>2, Pids DEF Links, Memory
<1>6. /\ m1.next = k.next /\ m1.parent = k.parent
      /\ \A r \in Queue : m1.head[r] \in {p, k.head[r]}
      /\ m2.next = b /\ m2.parent = k.parent /\ m2.head = k.head
  BY DEF Links, Memory
<1> HIDE DEF m1, m2
<1>7. Known(m1)
  BY <1>4, <1>6 DEF Known, Links, SameFields
<1>8. Known(m2)
  BY <1>3, <1>4, <1>6 DEF Known, Links, SameFields
<1>9. Relinks(k, m1) /\ Relinks(k, m2)
  BY <1>2, <1>4, <1>5, <1>6, <1>7, <1>8 DEF Relinks, Links
<1> QED BY <1>1, <1>9, RelinksSelf

\* A change of the child lists.
LEMMA KidsRelinks ==
  ASSUME NEW k, Links(k), NEW b, NEW r, [k EXCEPT !.kids[b] = r] \in Memory
  PROVE  Relinks(k, [k EXCEPT !.kids[b] = r])
<1> DEFINE m == [k EXCEPT !.kids[b] = r]
<1>1. SameFields(k, m) /\ m.next = k.next /\ m.head = k.head /\ m.parent = k.parent
  BY DEF SameFields, Links, Memory
<1>2. m \in Memory
  OBVIOUS
<1> HIDE DEF m
<1>3. Relinks(k, m)
  BY <1>1, <1>2 DEF Relinks, Links, Known, SameFields
<1> QED BY <1>3 DEF m

\* remove_child_PCB.
LEMMA RemoveChildRelinks ==
  ASSUME NEW k, Links(k), NEW p \in Pid
  PROVE  Relinks(k, RemoveChild(k, p))
<1> DEFINE b == k.parent[p]
           r == RemoveFirst(k.kids[b], p)
           m == [k EXCEPT !.kids[b] = r]
<1>1. RemoveChild(k, p) = k \/ RemoveChild(k, p) = m
  BY DEF RemoveChild, Links, Memory
<1>2. RemoveChild(k, p) \in Memory
  BY RemoveChildKeeps DEF Keeps, Good, Links
<1> HIDE DEF b, r
<1> QED BY <1>1, <1>2, KidsRelinks, RelinksSelf

\* remove_PCB, the links: p is in the list no more.
LEMMA UnlinkRelinks ==
  ASSUME NEW k, Links(k), NEW q \in Queue, NEW p \in Members(k, q)
  PROVE  Relinks(k, Unlink(k, q, p)) /\ p \notin Members(Unlink(k, q, p), q)
<1> DEFINE a  == Around(k.next, Members(k, q), p)
           c  == [k.next EXCEPT ![p] = NULL]
           m1 == [k EXCEPT !.head[q] = k.next[p], !.next[p] = NULL]
           m2 == [k EXCEPT !.next = a]
<1>0. /\ p \in Pid /\ k.next \in [Pid -> Ptr] /\ k.head[q] \in Ptr /\ Ends(k.next)
      /\ p \in Visited(k.next, k.head[q], {})
  BY MembersKnown DEF Links, Memory, Members
<1>1. Unlink(k, q, p) = IF k.head[q] = p THEN m1 ELSE m2
  BY DEF Unlink, Around
<1>2. a \in [Pid -> Ptr] /\ Ends(a) /\ c \in [Pid -> Ptr] /\ Ends(c)
  BY <1>0, AroundEnds, ClearedEnds
<1>3. \A x \in Pid : a[x] < k.count /\ c[x] < k.count
  <2>1. NULL < k.count
    BY MaxPidAssumption DEF Links, Memory, NULL
  <2> QED BY <1>0, <2>1 DEF Around, Links, Known
<1>4. SameFields(k, m1) /\ SameFields(k, m2)
  BY DEF SameFields, Links, Memory
<1>5. /\ m1.next = c /\ m1.parent = k.parent /\ m1.head = [k.head EXCEPT ![q] = k.next[p]]
      /\ m2.next = a /\ m2.parent = k.parent /\ m2.head = k.head
  BY DEF Links, Memory
<1>6. m1 \in Memory /\ m2 \in Memory
  BY <1>0, <1>2, Pids DEF Links, Memory
<1>7. p \notin Visited(c, k.next[p], {})
  BY <1>0, ClearedVisits
<1>8. k.head[q] # p => p \notin Visited(a, k.head[q], {})
  <2>1. k.head[q] # NULL
    BY <1>0, VisitedNull
  <2>2. k.head[q] \in Pid
    BY <1>0, <2>1, Pids
  <2> QED BY <1>0, <2>2, AroundVisits DEF Members
<1> HIDE DEF a, c, m1, m2
<1>9. Known(m1)
  <2>1. k.next[p] < k.count /\ \A r \in Queue : m1.head[r] \in {k.next[p], k.head[r]}
    BY <1>0, <1>5 DEF Links, Known, Memory
  <2> QED BY <1>3, <1>4, <1>5, <2>1 DEF Known, Links, SameFields
<1>10. Known(m2)
  BY <1>3, <1>4, <1>5 DEF Known, Links, SameFields
<1>11. Relinks(k, m1) /\ Relinks(k, m2)
  BY <1>2, <1>4, <1>5, <1>6, <1>9, <1>10 DEF Relinks, Links
<1>12. m1.head[q] = k.next[p]
  BY <1>5 DEF Links, Memory
<1> QED BY <1>1, <1>5, <1>7, <1>8, <1>11, <1>12 DEF Members

\* remove_PCB.
LEMMA RemovePCBRelinks ==
  ASSUME NEW k, Links(k), NEW q \in Queue, NEW p \in Pid
  PROVE  Relinks(k, RemovePCB(k, q, p)) /\ p \notin Members(RemovePCB(k, q, p), q)
<1> DEFINE k1 == RemoveChild(k, p)
<1>1. Relinks(k, k1)
  BY RemoveChildRelinks
<1>2. Members(k1, q) = Members(k, q)
  BY DEF RemoveChild, Members, Links, Memory
<1>3. CASE p \notin Members(k, q)
  BY <1>3, RelinksSelf DEF RemovePCB
<1>4. CASE p \in Members(k, q)
  <2>1. RemovePCB(k, q, p) = Unlink(k1, q, p)
    BY <1>4 DEF RemovePCB
  <2> HIDE DEF k1
  <2>2. Links(k1) /\ p \in Members(k1, q)
    BY <1>1, <1>2, <1>4 DEF Relinks
  <2> QED BY <1>1, <2>1, <2>2, UnlinkRelinks, RelinksTrans
<1> QED BY <1>3, <1>4

\* add_child_PCB, for a parent that has been created.
LEMMA AddChildRelinks ==
  ASSUME NEW k, Links(k), NEW b \in Pid, NEW c \in Pid, b < k.count
  PROVE  Relinks(k, AddChild(k, b, c))
<1> DEFINE m == [k EXCEPT !.parent[c] = b, !.kids[b] = Append(k.kids[b], c)]
<1>1. AddChild(k, b, c) = k \/ AddChild(k, b, c) = m
  BY DEF AddChild, Links, Memory
<1>2. AddChild(k, b, c) \in Memory
  BY AddChildKeeps DEF Keeps, Good, Links
<1>3. SameFields(k, m) /\ m.next = k.next /\ m.head = k.head
      /\ m.parent = [k.parent EXCEPT ![c] = b]
  BY DEF SameFields, Links, Memory
<1> HIDE DEF m
<1>4. \A x \in Pid : m.parent[x] \in {b, k.parent[x]}
  BY <1>3 DEF Links, Memory
<1>5. CASE AddChild(k, b, c) = m
  <2>1. Known(m)
    BY <1>3, <1>4 DEF Links, Known, SameFields
  <2> QED BY <1>2, <1>3, <1>5, <2>1 DEF Relinks, Links
<1> QED BY <1>1, <1>5, RelinksSelf

\* What follows a removal.
LEMMA RejoinParentRelinks ==
  ASSUME NEW k, Links(k), NEW p \in Pid
  PROVE  Relinks(k, RejoinParent(k, p))
<1>1. k.parent[p] \in Ptr /\ k.parent[p] < k.count
  BY DEF Links, Memory, Known
<1>2. CASE k.parent[p] = NULL
  BY <1>2, RelinksSelf DEF RejoinParent
<1>3. CASE k.parent[p] # NULL
  BY <1>1, <1>3, Pids, AddChildRelinks DEF RejoinParent
<1> QED BY <1>2, <1>3

\* add_to_head, for a block that is not in the list.
LEMMA AddToHeadRelinks ==
  ASSUME NEW k, Links(k), NEW q \in Queue, NEW p \in Pid, p < k.count,
         p \notin Members(k, q)
  PROVE  Relinks(k, AddToHead(k, q, p))
<1> DEFINE k1 == RejoinParent(k, p)
           m1 == [k1 EXCEPT !.head[q] = p]
           m2 == [k1 EXCEPT !.next[p] = k.head[q], !.head[q] = p]
<1>1. Relinks(k, k1)
  BY RejoinParentRelinks
<1>2. k1.next = k.next /\ k1.head = k.head
  BY DEF RejoinParent, AddChild, Links, Memory
<1>3. AddToHead(k, q, p) = IF k.head[q] = NULL THEN m1 ELSE m2
  BY DEF AddToHead
<1> HIDE DEF k1
<1> DEFINE u == [k1.next EXCEPT ![p] = k.head[q]]
<1>4. u \in [Pid -> Ptr] /\ Ends(u)
  BY <1>2, PushedEnds DEF Links, Memory, Members
<1>5. /\ SameFields(k1, m1) /\ SameFields(k1, m2)
      /\ m1.next = k1.next /\ m2.next = u
      /\ m1.parent = k1.parent /\ m2.parent = k1.parent
      /\ m1.head = [k1.head EXCEPT ![q] = p] /\ m2.head = m1.head
  BY <1>1 DEF SameFields, Relinks, Links, Memory
<1>6. m1 \in Memory /\ m2 \in Memory
  <2>1. k.head[q] \in Ptr /\ p \in Ptr
    BY Pids DEF Links, Memory
  <2> QED BY <1>1, <2>1 DEF Relinks, Links, Memory
<1>7. \A x \in Pid : u[x] \in {k.head[q], k1.next[x]}
  BY <1>1 DEF Relinks, Links, Memory
<1>8. \A r \in Queue : m1.head[r] \in {p, k1.head[r]}
  BY <1>1, <1>5 DEF Relinks, Links, Memory
<1> HIDE DEF m1, m2, u
<1>9. k1.count = k.count /\ k.head[q] < k.count
  BY <1>1 DEF Relinks, SameFields, Links, Known
<1>10. Known(m1) /\ Known(m2)
  BY <1>1, <1>5, <1>7, <1>8, <1>9 DEF Relinks, Links, Known, SameFields
<1>11. Relinks(k1, m1) /\ Relinks(k1, m2)
  BY <1>1, <1>4, <1>5, <1>6, <1>10 DEF Relinks, Links
<1> QED BY <1>1, <1>3, <1>11, RelinksTrans

\* free_PCB.
LEMMA FreePCBRelinks ==
  ASSUME NEW k, Links(k), NEW p \in Pid
  PROVE  Relinks(k, FreePCB(k, p))
BY DEF FreePCB, Relinks, Links, Known, SameFields, Memory

\* k_process_terminate of a process without children.
LEMMA TerminateLeafRelinks ==
  ASSUME NEW k, Links(k), NEW p \in Pid
  PROVE  Relinks(k, TerminateLeaf(k, p))
<1> DEFINE k1 == RemoveChild(k, p)
           k2 == RemovePCB(k1, ZombieQueue, p)
           k3 == RemovePCB(k2, -1, p)
           k4 == RemovePCB(k3, 0, p)
           k5 == RemovePCB(k4, 1, p)
           k6 == FreePCB(k5, p)
<1>0. ZombieQueue \in Queue /\ -1 \in Queue /\ 0 \in Queue /\ 1 \in Queue
  BY DEF Queue, ZombieQueue
<1>1. Relinks(k, k1)
  BY RemoveChildRelinks
<1>2. Relinks(k1, k2)
  BY <1>0, <1>1, RemovePCBRelinks DEF Relinks
<1>3. Relinks(k2, k3)
  BY <1>0, <1>2, RemovePCBRelinks DEF Relinks
<1>4. Relinks(k3, k4)
  BY <1>0, <1>3, RemovePCBRelinks DEF Relinks
<1>5. Relinks(k4, k5)
  BY <1>0, <1>4, RemovePCBRelinks DEF Relinks
<1>6. Relinks(k5, k6)
  BY <1>5, FreePCBRelinks DEF Relinks
<1>7. TerminateLeaf(k, p) = k6
  BY DEF TerminateLeaf
<1> HIDE DEF k1, k2, k3, k4, k5, k6
<1> QED BY <1>1, <1>2, <1>3, <1>4, <1>5, <1>6, <1>7, RelinksTrans

\* k_process_terminate with the child the loop reaches.
LEMMA KProcessTerminateRelinks ==
  ASSUME NEW k, Links(k), NEW p \in Pid
  PROVE  Relinks(k, KProcessTerminate(k, p))
<1> DEFINE k1 == IF k.kids[p] = <<>> THEN k ELSE TerminateLeaf(k, Head(k.kids[p]))
<1>1. Relinks(k, k1)
  BY TerminateLeafRelinks, FirstChild, RelinksSelf DEF Good, Links
<1>2. KProcessTerminate(k, p) = TerminateLeaf(k1, p)
  BY DEF KProcessTerminate
<1> HIDE DEF k1
<1>3. Relinks(k1, TerminateLeaf(k1, p))
  BY <1>1, TerminateLeafRelinks DEF Relinks
<1> QED BY <1>1, <1>2, <1>3, RelinksTrans

\* One round of the loop over the children of a process that dies.
LEMMA TerminateFirstRelinks ==
  ASSUME NEW k, Links(k), NEW p \in Pid
  PROVE  Relinks(k, TerminateFirst(k, p))
BY KProcessTerminateRelinks, FirstChild, RelinksSelf DEF TerminateFirst, Good, Links

\* Out of a queue and back to its head.
LEMMA RequeueRelinks ==
  ASSUME NEW k, Links(k), NEW q \in Queue, NEW d \in Pid, d < k.count
  PROVE  Relinks(k, Requeue(k, q, d))
<1> DEFINE k1 == RemovePCB(k, q, d)
<1>1. Relinks(k, k1) /\ d \notin Members(k1, q)
  BY RemovePCBRelinks
<1>2. Requeue(k, q, d) = AddToHead(k1, q, d)
  BY DEF Requeue
<1> HIDE DEF k1
<1>3. Links(k1) /\ d < k1.count
  BY <1>1 DEF Relinks, SameFields
<1>4. Relinks(k1, AddToHead(k1, q, d))
  BY <1>1, <1>3, AddToHeadRelinks
<1> QED BY <1>1, <1>2, <1>4, RelinksTrans
-----------------------------------------------------------------------------
(***************************************************************************)
(* Sound memory: moreover, whoever has terminated says so to p_wait.       *)
(***************************************************************************)
Told(k) == \A p \in Pid : k.status[p] \in {"ZOMBIE", "KILLED"} => k.changed[p]

Sound(k) == Links(k) /\ Told(k)

\* The fields that say who runs, and where, are the same.
Alike(k, m) ==
  /\ m.count = k.count /\ m.cur = k.cur /\ m.prevfg = k.prevfg
  /\ m.prevcur = k.prevcur /\ m.ground = k.ground /\ m.ctx = k.ctx

USE DEF Alike

\* A change of the fields that are not links.
LEMMA SoundOf ==
  ASSUME NEW k, Links(k), NEW m \in Memory,
         m.next = k.next, m.head = k.head, m.parent = k.parent, m.count = k.count,
         m.cur < k.count, m.prevfg < k.count, m.prevcur < k.count
  PROVE  Links(m) /\ (Told(m) => Sound(m))
BY DEF Sound, Links, Known

\* Operations on lists keep it.
LEMMA RelinksSound ==
  ASSUME NEW k, NEW m, Sound(k), Relinks(k, m)
  PROVE  Sound(m) /\ Alike(k, m)
BY DEF Sound, Relinks, SameFields, Told

\* Pointers of k are pids that have been given out, or NULL.
LEMMA KnownPointers ==
  ASSUME NEW k, Links(k)
  PROVE  /\ \A p \in Pid : k.parent[p] \in Ptr /\ k.parent[p] < k.count
         /\ \A p \in Pid : k.next[p] \in Ptr /\ k.next[p] < k.count
         /\ \A q \in Queue : k.head[q] \in Ptr /\ k.head[q] < k.count
         /\ k.cur \in Ptr /\ k.prevfg \in Ptr /\ k.prevcur \in Ptr
         /\ k.cur < k.count /\ k.prevfg < k.count /\ k.prevcur < k.count
         /\ NULL < k.count
<1>1. NULL < k.count
  BY MaxPidAssumption DEF Links, Memory, NULL
<1> QED BY <1>1 DEF Links, Known, Memory

\* The status of one process changes.
WithStatus(k, d, s) == [k EXCEPT !.status[d] = s]

LEMMA StatusLinks ==
  ASSUME NEW k, Links(k), NEW d \in Pid, NEW s \in Status
  PROVE  /\ Links(WithStatus(k, d, s))
         /\ Alike(k, WithStatus(k, d, s))
         /\ WithStatus(k, d, s).changed = k.changed
         /\ \A x \in Pid \ {d} : WithStatus(k, d, s).status[x] = k.status[x]
         /\ WithStatus(k, d, s).status[d] = s
<1> DEFINE m == [k EXCEPT !.status[d] = s]
<1>1. m \in Memory
  BY DEF Links, Memory
<1>2. /\ m.next = k.next /\ m.head = k.head /\ m.parent = k.parent /\ m.count = k.count
      /\ m.cur = k.cur /\ m.prevfg = k.prevfg /\ m.prevcur = k.prevcur
      /\ m.ground = k.ground /\ m.ctx = k.ctx
      /\ m.changed = k.changed /\ \A x \in Pid \ {d} : m.status[x] = k.status[x]
      /\ m.status[d] = s
  BY DEF Links, Memory
<1> HIDE DEF m
<1>3. k.cur < k.count /\ k.prevfg < k.count /\ k.prevcur < k.count
  BY KnownPointers
<1>4. Links(m)
  BY <1>1, <1>2, <1>3, SoundOf
<1> QED BY <1>2, <1>4 DEF m, WithStatus

\* The blocked parent is READY and at the head of its queue.
LEMMA WakeParentSound ==
  ASSUME NEW k, Sound(k), NEW blocked, NEW d \in Ptr, d < k.count, NEW h,
         blocked => d # NULL
  PROVE  Sound(WakeParent(k, blocked, d, h)) /\ Alike(k, WakeParent(k, blocked, d, h))
<1> DEFINE k1 == [k EXCEPT !.status[d] = "READY"]
           q  == QueueWithHead(k, h)
<1>1. CASE ~blocked
  BY <1>1 DEF WakeParent
<1>2. CASE blocked
  <2>1. d \in Pid
    BY <1>2, Pids
  <2>2. /\ Links(k1) /\ Alike(k, k1) /\ k1.changed = k.changed
        /\ \A p \in Pid \ {d} : k1.status[p] = k.status[p]
        /\ k1.status[d] = "READY"
    <3>1. k1 = WithStatus(k, d, "READY") /\ "READY" \in Status
      BY DEF WithStatus, Status
    <3> HIDE DEF k1
    <3> QED BY <2>1, <3>1, StatusLinks DEF Sound
  <2>3. q \in Queue
    BY DEF QueueWithHead, Queue
  <2>4. WakeParent(k, blocked, d, h) \in {k1, Requeue(k1, q, d)}
    BY <1>2 DEF WakeParent, Unblock
  <2> HIDE DEF k1, q
  <2>5. Sound(k1)
    BY <2>2 DEF Sound, Told
  <2>6. Relinks(k1, Requeue(k1, q, d))
    BY <2>1, <2>2, <2>3, RequeueRelinks
  <2> QED BY <2>2, <2>4, <2>5, <2>6, RelinksSound
<1> QED BY <1>1, <1>2

\* SIGTERM takes effect: the status of p alone changes.
LEMMA DieLinks ==
  ASSUME NEW k, Links(k), NEW p \in Pid, p < k.count
  PROVE  /\ Links(Die(k, p)) /\ Alike(k, Die(k, p))
         /\ Die(k, p).changed = k.changed
         /\ \A x \in Pid \ {p} : Die(k, p).status[x] = k.status[x]
<1> DEFINE z  == [k EXCEPT !.status[p] = "ZOMBIE"]
           d  == [k EXCEPT !.status[p] = "KILLED"]
           k1 == IF k.natty[p] THEN AddPCB(z, ZombieQueue, p) ELSE d
           k2 == TerminateFirst(k1, p)
           k3 == TerminateFirst(k2, p)
           k4 == TerminateFirst(k3, p)
           k5 == [k4 EXCEPT !.kids[p] = <<>>]
<1>1. \A m \in {z, d} :
        /\ Links(m) /\ Alike(k, m) /\ m.changed = k.changed
        /\ \A x \in Pid \ {p} : m.status[x] = k.status[x]
  <2>1. /\ z = WithStatus(k, p, "ZOMBIE") /\ d = WithStatus(k, p, "KILLED")
        /\ "ZOMBIE" \in Status /\ "KILLED" \in Status
    BY DEF WithStatus, Status
  <2> HIDE DEF z, d
  <2> QED BY <2>1, StatusLinks
<1>2. Die(k, p) = k5
  BY DEF Die
<1>3. /\ Links(k1) /\ Alike(k, k1) /\ k1.changed = k.changed
      /\ \A x \in Pid \ {p} : k1.status[x] = k.status[x]
  <2> HIDE DEF z, d
  <2>1. Relinks(z, AddPCB(z, ZombieQueue, p))
    BY <1>1, AddPCBRelinks, Pids
  <2> QED BY <1>1, <2>1 DEF Relinks, SameFields
<1> HIDE DEF k1
<1>4. Relinks(k1, k2)
  BY <1>3, TerminateFirstRelinks
<1> HIDE DEF k2
<1>5. Relinks(k2, k3)
  BY <1>4, TerminateFirstRelinks DEF Relinks
<1> HIDE DEF k3
<1>6. Relinks(k3, k4)
  BY <1>5, TerminateFirstRelinks DEF Relinks
<1> HIDE DEF k4
<1>7. Relinks(k4, k5)
  <2>1. k5 \in Memory
    <3>1. <<>> \in Seq(Pid)
      OBVIOUS
    <3> QED BY <1>6, <3>1 DEF Relinks, Links, Memory
  <2> QED BY <1>6, <2>1, KidsRelinks DEF Relinks
<1> HIDE DEF k5
<1>8. Relinks(k1, k5)
  BY <1>4, <1>5, <1>6, <1>7, RelinksTrans
<1> QED BY <1>2, <1>3, <1>8 DEF Relinks, SameFields

\* k_process_kill: whoever it ends is marked as changed.
LEMMA KProcessKillSound ==
  ASSUME NEW k, Sound(k), NEW p \in Pid, p < k.count,
         NEW signal \in {S_SIGSTOP, S_SIGCONT, S_SIGTERM}
  PROVE  Sound(KProcessKill(k, p, signal)) /\ Alike(k, KProcessKill(k, p, signal))
<1> DEFINE daddy     == k.parent[p]
           entryHead == IF daddy = NULL THEN NULL ELSE k.head[k.prio[daddy]]
           blocked   == daddy # NULL /\ k.status[daddy] = "BLOCKED"
           a  == [k EXCEPT !.status[p] = "STOPPED"]
           b  == [k EXCEPT !.status[p] = "READY"]
           d  == Die(k, p)
           k1 == CASE signal = S_SIGSTOP -> a [] signal = S_SIGCONT -> b
                   [] signal = S_SIGTERM -> d
           k2 == [k1 EXCEPT !.changed[p] = TRUE]
           k3 == IF Takes(k, p, signal) THEN WakeParent(k2, blocked, daddy, entryHead)
                 ELSE k
<1>1. KProcessKill(k, p, signal) = RejoinParent(k3, p)
  BY DEF KProcessKill
<1>2. daddy \in Ptr /\ daddy < k.count /\ (blocked => daddy # NULL)
  BY KnownPointers DEF Sound
<1>3. \A m \in {a, b, d} :
        /\ Links(m) /\ Alike(k, m) /\ m.changed = k.changed
        /\ \A x \in Pid \ {p} : m.status[x] = k.status[x]
  <2>1. /\ a = WithStatus(k, p, "STOPPED") /\ b = WithStatus(k, p, "READY")
        /\ "STOPPED" \in Status /\ "READY" \in Status
    BY DEF WithStatus, Status
  <2> HIDE DEF a, b
  <2> QED BY <2>1, StatusLinks, DieLinks DEF Sound
<1>4. k1 \in {a, b, d}
  BY DEF S_SIGSTOP, S_SIGCONT, S_SIGTERM
<1> HIDE DEF a, b, d, k1, daddy, entryHead, blocked
<1>5. Sound(k2) /\ Alike(k, k2)
  <2>1. Links(k1) /\ Alike(k, k1) /\ k1.changed = k.changed
        /\ \A x \in Pid \ {p} : k1.status[x] = k.status[x]
    BY <1>3, <1>4
  <2>2. k2 \in Memory
    BY <2>1 DEF Links, Memory
  <2>3. /\ k2.next = k1.next /\ k2.head = k1.head /\ k2.parent = k1.parent
        /\ k2.count = k1.count /\ k2.cur = k1.cur /\ k2.prevfg = k1.prevfg
        /\ k2.prevcur = k1.prevcur /\ k2.status = k1.status
        /\ k2.ground = k1.ground /\ k2.ctx = k1.ctx
        /\ k2.changed = [k1.changed EXCEPT ![p] = TRUE]
    BY <2>1 DEF Links, Memory
  <2>4. k.changed \in [Pid -> BOOLEAN]
    BY DEF Sound, Links, Memory
  <2> HIDE DEF k2
  <2>5. Told(k2)
    BY <2>1, <2>3, <2>4 DEF Told, Sound
  <2> QED BY <2>1, <2>2, <2>3, <2>5, KnownPointers, SoundOf
<1> HIDE DEF k2
<1>6. Sound(k3) /\ Alike(k, k3)
  BY <1>2, <1>5, WakeParentSound
<1> HIDE DEF k3
<1>7. Relinks(k3, RejoinParent(k3, p))
  BY <1>6, RejoinParentRelinks DEF Sound
<1> QED BY <1>1, <1>6, <1>7, RelinksSound
-----------------------------------------------------------------------------
(***************************************************************************)
(* The scheduler and the calls that lead to it.                            *)
(***************************************************************************)
\* A change of fields that Sound does not look at, or of cur_pcb, prev_fg and
\* prev_cur.
LEMMA PlainSound ==
  ASSUME NEW k, Sound(k), NEW m \in Memory,
         m.next = k.next, m.head = k.head, m.parent = k.parent, m.count = k.count,
         m.status = k.status, m.changed = k.changed,
         m.cur < k.count, m.prevfg < k.count, m.prevcur < k.count
  PROVE  Sound(m)
BY DEF Sound, Links, Known, Told

\* The fields that are never links.
LEMMA FlagsSound ==
  ASSUME NEW k, Sound(k), NEW p \in Pid, NEW b \in BOOLEAN
  PROVE  /\ Sound([k EXCEPT !.natty[p] = b]) /\ Alike(k, [k EXCEPT !.natty[p] = b])
         /\ Sound([k EXCEPT !.sigflag[p] = b])
         /\ Alike(k, [k EXCEPT !.sigflag[p] = b])
         /\ Sound([k EXCEPT !.ground[p] = b]) /\ [k EXCEPT !.ground[p] = b].count = k.count
BY DEF Sound, Links, Known, Told, Memory

LEMMA ContextSound ==
  ASSUME NEW k, Sound(k), NEW p \in Pid, NEW c \in Context
  PROVE  Sound([k EXCEPT !.ctx[p] = c]) /\ [k EXCEPT !.ctx[p] = c].count = k.count
BY DEF Sound, Links, Known, Told, Memory

LEMMA PrioSound ==
  ASSUME NEW k, Sound(k), NEW p \in Pid, NEW prior \in RunQueue
  PROVE  Sound([k EXCEPT !.prio[p] = prior]) /\ Alike(k, [k EXCEPT !.prio[p] = prior])
BY DEF Sound, Links, Known, Told, Memory

LEMMA FaultSound ==
  ASSUME NEW k, Sound(k)
  PROVE  Sound(Fault(k)) /\ Alike(k, Fault(k))
BY DEF Sound, Links, Known, Told, Memory, Fault

\* k_process_nice, whoever is found.
LEMMA KProcessNiceSound ==
  ASSUME NEW k, Sound(k), NEW p \in Pid, NEW prior \in RunQueue
  PROVE  Sound(KProcessNice(k, p, prior)) /\ Alike(k, KProcessNice(k, p, prior))
<1> DEFINE k0 == RemovePCB(k, k.prio[p], p)
           k1 == [k0 EXCEPT !.prio[p] = prior]
           k2 == AddPCB(k1, prior, p)
           k3 == RejoinParent(k2, p)
           n == [k EXCEPT !.prio[p] = prior]
<1>1. k.prio[p] \in Queue /\ prior \in Queue
  BY Pids DEF Memory, Links, Sound
<1>2. /\ KProcessNice(k, p, prior) \in {k, Fault(k), n, k3}
      /\ ~Findable(k, p) => KProcessNice(k, p, prior) \in {k, Fault(k)}
  BY DEF KProcessNice
<1>3. Sound(n) /\ Alike(k, n) /\ Sound(Fault(k)) /\ Alike(k, Fault(k))
  BY PrioSound, FaultSound
<1>4. CASE Findable(k, p)
  <2>1. p < k.count
    BY <1>4, MembersKnown, KnownPointers, Pids DEF Findable, InRunQueue, Sound
  <2>2. Sound(k0) /\ Alike(k, k0)
    BY <1>1, RemovePCBRelinks, RelinksSound DEF Sound
  <2> HIDE DEF k0, n
  <2>3. Sound(k1) /\ Alike(k, k1)
    BY <2>2, PrioSound
  <2> HIDE DEF k1
  <2>4. Sound(k2) /\ Alike(k, k2)
    BY <1>1, <2>1, <2>3, AddPCBRelinks, RelinksSound DEF Sound
  <2> HIDE DEF k2
  <2>5. Sound(k3) /\ Alike(k, k3)
    BY <2>4, RejoinParentRelinks, RelinksSound DEF Sound
  <2> HIDE DEF k3
  <2> QED BY <1>2, <1>3, <2>5
<1>5. CASE ~Findable(k, p)
  BY <1>2, <1>3, <1>5
<1> QED BY <1>4, <1>5

\* find_next_valid finds a block that has been created.
LEMMA FindNextKnown ==
  ASSUME NEW k, Links(k), NEW h \in Ptr, h < k.count
  PROVE  FindNextValid(k, h) \in Ptr /\ FindNextValid(k, h) < k.count
<1> DEFINE ready == {p \in Pid : k.status[p] = "READY"}
           found == ready \cap Visited(k.next, h, ready)
           S == {x \in Pid : x < k.count}
<1>1. S \in SUBSET Pid /\ (h # NULL => h \in S)
      /\ \A x \in S : k.next[x] # NULL => k.next[x] \in S
  BY KnownPointers, Pids
<1>2. Visited(k.next, h, ready) \subseteq S
  <2> HIDE DEF ready, S
  <2> QED BY <1>1 DEF Visited
<1>3. FindNextValid(k, h) = IF found = {} THEN NULL ELSE CHOOSE p \in found : TRUE
  BY DEF FindNextValid
<1>4. found \subseteq S
  BY <1>2
<1> HIDE DEF found
<1>5. FindNextValid(k, h) = NULL \/ FindNextValid(k, h) \in found
  BY <1>3
<1> QED BY <1>4, <1>5, KnownPointers, FindNextValidType

\* The choice of the queue.
LEMMA SwitchQueueSound ==
  ASSUME NEW k, Sound(k), Entering(k, FALSE)
  PROVE  Sound(SwitchQueue(k)) /\ Alike(k, SwitchQueue(k))
<1> DEFINE m == SwitchQueue(k)
<1>1. m \in Memory
  BY SwitchQueueType DEF Entering, Good
<1>2. /\ m.next = k.next /\ m.head = k.head /\ m.parent = k.parent /\ m.count = k.count
      /\ m.status = k.status /\ m.changed = k.changed
      /\ m.cur = k.cur /\ m.prevfg = k.prevfg /\ m.prevcur = k.prevcur
      /\ m.ground = k.ground /\ m.ctx = k.ctx
  BY DEF SwitchQueue, Entering, Good, Memory
<1> HIDE DEF m
<1>3. k.cur < k.count /\ k.prevfg < k.count /\ k.prevcur < k.count
  BY KnownPointers DEF Sound
<1>4. Sound(m)
  BY <1>1, <1>2, <1>3, PlainSound
<1> QED BY <1>2, <1>4 DEF m

\* The end of the process that has returned.
LEMMA FinishCurrentSound ==
  ASSUME NEW k, Sound(k)
  PROVE  Sound(FinishCurrent(k)) /\ Alike(k, FinishCurrent(k))
<1> DEFINE p  == k.cur
           k1 == [k EXCEPT !.natty[p] = TRUE]
           k2 == KProcessKill(k1, p, S_SIGTERM)
<1>1. FinishCurrent(k) = k \/ (p # NULL /\ FinishCurrent(k) = k2)
  BY DEF FinishCurrent
<1>2. CASE p # NULL /\ FinishCurrent(k) = k2
  <2>1. p \in Pid /\ p < k.count
    BY <1>2, Pids, KnownPointers DEF Sound
  <2> HIDE DEF p
  <2>2. Sound(k1) /\ Alike(k, k1)
    BY <2>1, FlagsSound
  <2> HIDE DEF k1
  <2>3. Sound(k2) /\ Alike(k, k2)
    BY <2>1, <2>2, KProcessKillSound
  <2> QED BY <1>2, <2>3
<1> QED BY <1>1, <1>2

\* A pass for sleepers.
LEMMA SleepPassSound ==
  ASSUME NEW k, NEW q, Sound(k), Resting(k, FALSE)
  PROVE  Sound(SleepPass(k, q)) /\ Alike(k, SleepPass(k, q))
<1> DEFINE m == SleepPass(k, q)
<1>1. m \in Memory
  BY SleepPassType DEF Resting, Good
<1>2. /\ m.next = k.next /\ m.head = k.head /\ m.parent = k.parent /\ m.count = k.count
      /\ m.changed = k.changed
      /\ m.cur = k.cur /\ m.prevfg = k.prevfg /\ m.prevcur = k.prevcur
      /\ m.ground = k.ground /\ m.ctx = k.ctx
  BY DEF SleepPass, Resting, Good, Memory
<1>3. \A p \in Pid : m.status[p] \in {k.status[p], "READY"}
  BY DEF SleepPass, Resting, Good, Memory
<1> HIDE DEF m
<1>4. k.cur < k.count /\ k.prevfg < k.count /\ k.prevcur < k.count
  BY KnownPointers DEF Sound
<1>5. Links(m)
  BY <1>1, <1>2, <1>4, SoundOf DEF Sound
<1>6. Told(m)
  BY <1>2, <1>3 DEF Sound, Told
<1> QED BY <1>2, <1>5, <1>6 DEF m, Sound

\* c is the process that has been chosen to run.
Runs(k, m, c) ==
  /\ m.count = k.count /\ m.ground = k.ground /\ m.ctx = k.ctx
  /\ m.cur = c /\ m.prevcur = c
  /\ m.prevfg = IF k.ground[c] = FG THEN c ELSE k.prevfg

\* A block is dequeued and runs.
LEMMA RunNextSound ==
  ASSUME NEW k, Sound(k), NEW c \in Pid, c < k.count
  PROVE  Sound(RunNext(k, c)) /\ Runs(k, RunNext(k, c), c)
<1> DEFINE k1 == RemovePCB(k, k.queue, c)
           k2 == RejoinParent(k1, c)
           m  == [k2 EXCEPT !.prevfg = IF k.ground[c] = FG THEN c ELSE @,
                            !.prevcur = c, !.cur = c]
<1>1. RunNext(k, c) = m
  BY DEF RunNext
<1>2. k.queue \in Queue
  BY Pids DEF Sound, Links, Memory
<1>3. Sound(k1) /\ Alike(k, k1)
  BY <1>2, RemovePCBRelinks, RelinksSound DEF Sound
<1> HIDE DEF k1
<1>4. Sound(k2) /\ Alike(k, k2)
  BY <1>3, RejoinParentRelinks, RelinksSound DEF Sound
<1> HIDE DEF k2
<1>5. m \in Memory
  BY <1>4, Pids DEF Sound, Links, Memory
<1>6. /\ m.next = k2.next /\ m.head = k2.head /\ m.parent = k2.parent
      /\ m.count = k2.count /\ m.status = k2.status /\ m.changed = k2.changed
      /\ m.ground = k2.ground /\ m.ctx = k2.ctx
      /\ m.prevfg = (IF k.ground[c] = FG THEN c ELSE k2.prevfg)
      /\ m.prevcur = c /\ m.cur = c
  BY <1>4 DEF Sound, Links, Memory
<1> HIDE DEF m
<1>7. m.prevfg < k2.count
  BY <1>4, <1>6, KnownPointers DEF Sound
<1>8. Sound(m)
  BY <1>4, <1>5, <1>6, <1>7, PlainSound
<1> QED BY <1>1, <1>4, <1>6, <1>8 DEF Runs

\* The scheduler returns m, entered with k.
Chose(k, m) ==
  /\ m.count = k.count /\ m.ground = k.ground /\ m.ctx = k.ctx
  /\ \/ m.cur = NULL /\ m.prevfg = k.prevfg /\ m.prevcur = k.prevcur
     \/ m.cur \in Pid /\ Runs(k, m, m.cur)

\* The scheduler as a whole.
LEMMA SchedulerSound ==
  ASSUME NEW k, Entering(k, FALSE), Sound(k)
  PROVE  Sound(Scheduler(k)) /\ Chose(k, Scheduler(k))
<1> DEFINE k1 == IF k.how = "TIMEOUT" THEN SwitchQueue(k) ELSE FinishCurrent(k)
           k2 == [k1 EXCEPT !.cur = NULL, !.how = "NORMAL"]
           k3 == SleepPass(k2, -1)
           k4 == SleepPass(k3, 0)
           k5 == SleepPass(k4, 1)
           c  == FindNextValid(k5, k5.head[k5.queue])
<1>1. Entering(k1, FALSE) /\ k1.tmod < Cycle /\ Sound(k1) /\ Alike(k, k1)
  <2>1. k.how \in {"TIMEOUT", "NORMAL"}
    BY DEF Entering, Good, Memory
  <2> QED BY <2>1, SwitchQueueType, FinishCurrentType, SwitchQueueSound,
             FinishCurrentSound
<1>2. Scheduler(k) = RunOrIdle(k5, c)
  BY DEF Scheduler, PickNext
<1> HIDE DEF k1
<1>3. Resting(k2, FALSE)
  BY <1>1, Pids DEF Entering, Resting, Good, Memory, Rooted
<1>4. /\ Sound(k2) /\ k2.count = k.count /\ k2.ground = k.ground /\ k2.ctx = k.ctx
      /\ k2.cur = NULL /\ k2.prevfg = k.prevfg /\ k2.prevcur = k.prevcur
  <2>1. /\ k2.next = k1.next /\ k2.head = k1.head /\ k2.parent = k1.parent
        /\ k2.count = k1.count /\ k2.status = k1.status /\ k2.changed = k1.changed
        /\ k2.prevfg = k1.prevfg /\ k2.prevcur = k1.prevcur /\ k2.cur = NULL
        /\ k2.ground = k1.ground /\ k2.ctx = k1.ctx /\ k2 \in Memory
    BY <1>1, <1>3 DEF Sound, Links, Memory, Resting, Good
  <2>2. NULL < k1.count /\ k1.prevfg < k1.count /\ k1.prevcur < k1.count
    BY <1>1, KnownPointers DEF Sound
  <2> HIDE DEF k2
  <2> QED BY <1>1, <2>1, <2>2, PlainSound
<1> HIDE DEF k2
<1>5. Resting(k3, FALSE) /\ Sound(k3) /\ Alike(k2, k3)
  BY <1>3, <1>4, SleepPassType, SleepPassSound
<1> HIDE DEF k3
<1>6. Resting(k4, FALSE) /\ Sound(k4) /\ Alike(k2, k4)
  BY <1>5, SleepPassType, SleepPassSound
<1> HIDE DEF k4
<1>7. Resting(k5, FALSE) /\ Sound(k5) /\ Alike(k2, k5)
  BY <1>6, SleepPassType, SleepPassSound
<1> HIDE DEF k5
<1>8. c \in Ptr /\ c < k5.count
  <2>1. k5.queue \in Queue
    BY <1>7, Pids DEF Sound, Links, Memory
  <2>2. k5.head[k5.queue] \in Ptr /\ k5.head[k5.queue] < k5.count
    BY <1>7, <2>1, KnownPointers DEF Sound
  <2> QED BY <1>7, <2>2, FindNextKnown DEF Sound
<1> HIDE DEF c
<1>9. CASE c = NULL
  BY <1>2, <1>4, <1>7, <1>9 DEF RunOrIdle, Chose
<1>10. CASE c # NULL
  <2>1. c \in Pid /\ Scheduler(k) = RunNext(k5, c)
    BY <1>2, <1>8, <1>10, Pids DEF RunOrIdle
  <2>2. Sound(RunNext(k5, c)) /\ Runs(k5, RunNext(k5, c), c)
    BY <1>7, <1>8, <2>1, RunNextSound
  <2> QED BY <1>4, <1>7, <2>1, <2>2 DEF Runs, Chose
<1> QED BY <1>9, <1>10

\* timer_interrupt.
LEMMA TimerInterruptSound ==
  ASSUME NEW k, Sound(k), Resting(k, FALSE)
  PROVE  Sound(TimerInterrupt(k)) /\ Alike(k, TimerInterrupt(k))
<1> DEFINE k1 == [k EXCEPT !.how = "TIMEOUT", !.tmod = @ + 1]
           p  == k.cur
           k2 == AddPCB(k1, k.prio[p], p)
<1>1. k1 \in Memory
  <2>1. k.tmod + 1 \in 0..Cycle
    BY SliceAssumption DEF Resting, Good, Memory
  <2> QED BY <2>1 DEF Resting, Good, Memory
<1>2. /\ k1.next = k.next /\ k1.head = k.head /\ k1.parent = k.parent
      /\ k1.count = k.count /\ k1.status = k.status /\ k1.changed = k.changed
      /\ k1.cur = k.cur /\ k1.prevfg = k.prevfg /\ k1.prevcur = k.prevcur
      /\ k1.ground = k.ground /\ k1.ctx = k.ctx
  BY DEF Sound, Links, Memory
<1>3. TimerInterrupt(k) = IF p = NULL THEN k1 ELSE k2
  BY DEF TimerInterrupt
<1> HIDE DEF k1
<1>4. k.cur < k.count /\ k.prevfg < k.count /\ k.prevcur < k.count
  BY KnownPointers DEF Sound
<1>5. Sound(k1)
  BY <1>1, <1>2, <1>4, PlainSound
<1>6. CASE p # NULL
  <2>1. p \in Pid /\ k.prio[p] \in Queue
    BY <1>6, Pids DEF Resting, Good, Memory
  <2>2. Relinks(k1, k2)
    BY <1>2, <1>4, <1>5, <2>1, AddPCBRelinks DEF Sound
  <2> HIDE DEF k2
  <2> QED BY <1>2, <1>3, <1>5, <1>6, <2>2, RelinksSound
<1>7. CASE p = NULL
  BY <1>2, <1>3, <1>5, <1>7
<1> QED BY <1>6, <1>7

\* k_process_swap_to_scheduler.
LEMMA KProcessSwapToSchedulerSound ==
  ASSUME NEW k, Sound(k), NEW c \in Context
  PROVE  /\ Sound(KProcessSwapToScheduler(k, c))
         /\ k.cur # NULL => Alike([k EXCEPT !.ctx[k.cur] = c], KProcessSwapToScheduler(k, c))
         /\ k.cur = NULL => Alike(k, KProcessSwapToScheduler(k, c))
<1> DEFINE p  == k.cur
           k0 == WithStatus(k, p, "BLOCKED")
           k1 == [k0 EXCEPT !.ctx[p] = c]
           k2 == AddPCB(k1, k.prio[p], p)
<1>1. KProcessSwapToScheduler(k, c) = IF p = NULL THEN Fault(k) ELSE k2
  BY DEF KProcessSwapToScheduler, WithStatus
<1>2. Sound(Fault(k)) /\ Alike(k, Fault(k))
  BY FaultSound
<1>3. CASE p # NULL
  <2>1. p \in Pid /\ k.prio[p] \in Queue /\ p < k.count /\ "BLOCKED" \in Status
    BY <1>3, Pids, KnownPointers DEF Sound, Links, Memory, Status
  <2> HIDE DEF p
  <2>2. /\ Links(k0) /\ Alike(k, k0) /\ k0.changed = k.changed
        /\ \A x \in Pid \ {p} : k0.status[x] = k.status[x]
        /\ k0.status[p] = "BLOCKED"
    BY <2>1, StatusLinks DEF Sound
  <2> HIDE DEF k0
  <2>3. Sound(k0)
    BY <2>2 DEF Sound, Told
  <2>4. Sound(k1) /\ Alike([k EXCEPT !.ctx[p] = c], k1)
    <3>1. Alike([k0 EXCEPT !.ctx[p] = c], k1) /\ Alike([k EXCEPT !.ctx[p] = c], k1)
      BY <2>2 DEF Sound, Links, Memory
    <3> QED BY <2>1, <2>2, <2>3, <3>1, ContextSound
  <2> HIDE DEF k1
  <2>5. Sound(k2) /\ Alike(k1, k2)
    <3>1. k1.count = k.count
      BY <2>4 DEF Sound, Links, Memory
    <3> QED BY <2>1, <2>4, <3>1, AddPCBRelinks, RelinksSound DEF Sound
  <2> HIDE DEF k2
  <2> QED BY <1>1, <1>3, <2>4, <2>5 DEF p
<1>4. CASE p = NULL
  BY <1>1, <1>2, <1>4
<1> QED BY <1>3, <1>4
\* set_sleep.
LEMMA SetSleepSound ==
  ASSUME NEW k, Sound(k), NEW p \in Pid, NEW passes \in -1..MaxSleep
  PROVE  Sound(SetSleep(k, p, passes)) /\ Alike(k, SetSleep(k, p, passes))
<1> DEFINE k0 == WithStatus(k, p, "BLOCKED")
           m  == [k0 EXCEPT !.sleep[p] = passes]
<1>1. SetSleep(k, p, passes) = m /\ "BLOCKED" \in Status
  BY DEF SetSleep, WithStatus, Status, Sound, Links, Memory
<1>2. /\ Links(k0) /\ Alike(k, k0) /\ k0.changed = k.changed
      /\ \A x \in Pid \ {p} : k0.status[x] = k.status[x]
      /\ k0.status[p] = "BLOCKED"
  BY <1>1, StatusLinks DEF Sound
<1> HIDE DEF k0
<1>3. Sound(k0)
  BY <1>2 DEF Sound, Told
<1>4. Sound(m) /\ Alike(k0, m)
  BY <1>3 DEF Sound, Links, Known, Told, Memory
<1> HIDE DEF m
<1> QED BY <1>1, <1>2, <1>4

\* What malloc leaves in next leads to a block that has been created.
LEMMA StaleNextKnown ==
  ASSUME NEW k, Links(k), k.count \in Pid, NEW stale \in StaleNext(k)
  PROVE  stale \in Ptr /\ stale < k.count
<1>1. k.count \in Nat /\ k.count <= MaxPid
  BY MaxPidAssumption DEF Pid
<1>2. \A p \in Freed(k) : p \in Pid
  BY <1>1, MaxPidAssumption DEF Pid, Freed
<1>3. stale = NULL \/ \E p \in Pid : stale = k.next[p]
  BY <1>2 DEF StaleNext
<1> QED BY <1>3, KnownPointers, Pids

\* The new block is the last to run, in name only.
Creates(k, m, pc) ==
  /\ m.count = k.count + 1 /\ m.prevcur = k.count
  /\ m.cur = k.cur /\ m.prevfg = k.prevfg
  /\ m.ground = [k.ground EXCEPT ![k.count] = FG]
  /\ m.ctx = [k.ctx EXCEPT ![k.count] = [who |-> k.count, pc |-> pc]]

\* k_process_create: nothing leads to the new block, so whatever its next holds,
\* walks end.
LEMMA KProcessCreateSound ==
  ASSUME NEW k, Sound(k), Resting(k, FALSE), k.count \in Pid,
         NEW parent \in Ptr, parent < k.count,
         NEW stale \in Ptr, stale < k.count, NEW pc,
         [who |-> k.count, pc |-> pc] \in Context
  PROVE  /\ Sound(KProcessCreate(k, parent, stale, pc))
         /\ Creates(k, KProcessCreate(k, parent, stale, pc), pc)
<1> DEFINE p  == k.count
           k0 == CreatePCB(k, p, stale)
           k1 == [k0 EXCEPT !.ctx[p] = [who |-> p, pc |-> pc]]
           k2 == IF parent = NULL THEN k1 ELSE AddChild(k1, parent, p)
           k3 == AddPCB(k2, 0, p)
           m  == [k3 EXCEPT !.prevcur = p, !.count = p + 1]
           u  == [k.next EXCEPT ![p] = stale]
<1>1. KProcessCreate(k, parent, stale, pc) = m
  BY DEF KProcessCreate
<1>2. m \in Memory
  <2> HIDE DEF m
  <2> QED BY <1>1, KProcessCreateType DEF Resting, Good
<1>3. u \in [Pid -> Ptr] /\ Ends(u) /\ \A x \in Pid : u[x] < p
  <2>1. \A x \in Pid : k.next[x] # p
    BY KnownPointers, MaxPidAssumption DEF Sound, Ptr, Pid
  <2>2. k.next \in [Pid -> Ptr] /\ Ends(k.next) /\ \A x \in Pid : k.next[x] < p
    BY KnownPointers DEF Sound, Links, Memory
  <2>3. stale # p
    BY MaxPidAssumption DEF Ptr, Pid
  <2>4. u \in [Pid -> Ptr] /\ Ends(u)
    <3> HIDE DEF p
    <3> QED BY <2>1, <2>2, <2>3, FreshEnds DEF p
  <2>5. \A x \in Pid : u[x] \in {stale, k.next[x]}
    BY <2>2
  <2> HIDE DEF u
  <2> QED BY <2>2, <2>4, <2>5
<1>a. k \in Memory
  BY DEF Sound, Links
<1>4. k0 \in Memory
  <2>1. Good(k, FALSE)
    BY <1>a DEF Good
  <2>2. p \in Pid /\ FALSE \in BOOLEAN /\ (FALSE => p # Shell)
    OBVIOUS
  <2>3. Keeps(k, CreatePCB(k, p, stale), FALSE)
    <3> HIDE DEF p
    <3> QED BY ONLY <2>1, <2>2, stale \in Ptr, CreatePCBType
  <2> QED BY <2>3 DEF Keeps, Good
<1>5. /\ k0.next = u /\ k0.head = k.head /\ k0.parent = [k.parent EXCEPT ![p] = NULL]
      /\ k0.status = [k.status EXCEPT ![p] = "READY"]
      /\ k0.changed = [k.changed EXCEPT ![p] = FALSE]
      /\ k0.cur = k.cur /\ k0.prevfg = k.prevfg
      /\ k0.ground = [k.ground EXCEPT ![p] = FG] /\ k0.ctx = k.ctx
  <2>1. BlockCreated(k, p, stale, k0)
    BY <1>a, BlockIsCreated
  <2> HIDE DEF k0, p
  <2> QED BY ONLY <2>1 DEF BlockCreated, u
<1> HIDE DEF k0
<1>6. /\ k1 \in Memory
      /\ k1.next = k0.next /\ k1.head = k0.head /\ k1.parent = k0.parent
      /\ k1.status = k0.status /\ k1.changed = k0.changed
      /\ k1.cur = k0.cur /\ k1.prevfg = k0.prevfg
      /\ k1.ground = k0.ground /\ k1.ctx = [k0.ctx EXCEPT ![p] = [who |-> p, pc |-> pc]]
  BY <1>4 DEF Memory
<1> HIDE DEF k1
<1>7. /\ k2 \in Memory
      /\ k2.next = k1.next /\ k2.head = k1.head
      /\ k2.parent \in {k1.parent, [k1.parent EXCEPT ![p] = parent]}
      /\ k2.status = k1.status /\ k2.changed = k1.changed
      /\ k2.cur = k1.cur /\ k2.prevfg = k1.prevfg /\ k2.ground = k1.ground
      /\ k2.ctx = k1.ctx
  <2>1. CASE parent = NULL
    BY <1>6, <2>1
  <2>2. CASE parent # NULL
    <3>1. k2 \in Memory
      BY <1>6, <2>2, Pids, AddChildKeeps DEF Good, Keeps
    <3>2. k2 = AddChild(k1, parent, p)
      BY <2>2
    <3> HIDE DEF k2
    <3> QED BY <1>6, <3>1, <3>2 DEF AddChild, Memory
  <2> QED BY <2>1, <2>2
<1> HIDE DEF k2
<1> DEFINE b == Behind(k2.next, Members(k2, 0), p)
<1>8. /\ k3.next \in {k2.next, b} /\ \A q \in Queue : k3.head[q] \in {p, k2.head[q]}
      /\ k3.parent = k2.parent /\ k3.status = k2.status /\ k3.changed = k2.changed
      /\ k3.cur = k2.cur /\ k3.prevfg = k2.prevfg /\ k3.ground = k2.ground
      /\ k3.ctx = k2.ctx /\ k3 \in Memory
  <2>1. k3 \in {k2, [k2 EXCEPT !.head[0] = p], [k2 EXCEPT !.next = b]}
    BY DEF AddPCB, Behind
  <2>2. k3 \in Memory
    <3>1. Good(k2, FALSE) /\ 0 \in Queue /\ FALSE \in BOOLEAN
      BY <1>7 DEF Good, Queue
    <3> QED BY <3>1, AddPCBKeeps DEF Good, Keeps
  <2> DEFINE m1 == [k2 EXCEPT !.head[0] = p]
             m2 == [k2 EXCEPT !.next = b]
  <2>3. /\ m1.next = k2.next /\ \A q \in Queue : m1.head[q] \in {p, k2.head[q]}
        /\ m1.parent = k2.parent /\ m1.status = k2.status /\ m1.changed = k2.changed
        /\ m1.cur = k2.cur /\ m1.prevfg = k2.prevfg /\ m1.ground = k2.ground
        /\ m1.ctx = k2.ctx
    BY <1>7 DEF Memory
  <2>4. /\ m2.next = b /\ m2.head = k2.head
        /\ m2.parent = k2.parent /\ m2.status = k2.status /\ m2.changed = k2.changed
        /\ m2.cur = k2.cur /\ m2.prevfg = k2.prevfg /\ m2.ground = k2.ground
        /\ m2.ctx = k2.ctx
    BY <1>7 DEF Memory
  <2>5. k3 \in {k2, m1, m2}
    BY <2>1
  <2> HIDE DEF k3, b, m1, m2
  <2> QED BY <2>2, <2>3, <2>4, <2>5
<1>9. b \in [Pid -> Ptr] /\ Ends(b) /\ \A x \in Pid : b[x] \in {NULL, p, u[x]}
  <2>1. k2.next = u
    BY <1>5, <1>6, <1>7
  <2> DEFINE V == Members(k2, 0)
  <2> HIDE DEF u, V
  <2>2. b = Behind(u, V, p)
    BY <2>1 DEF V
  <2>3. Behind(u, V, p) \in [Pid -> Ptr] /\ Ends(Behind(u, V, p))
    BY <1>3, BehindEnds
  <2>4. \A x \in Pid : Behind(u, V, p)[x] \in {NULL, p, u[x]}
    BY DEF Behind
  <2> QED BY <2>2, <2>3, <2>4
<1> HIDE DEF k3, b, u
<1>10. /\ m.next = k3.next /\ m.head = k3.head /\ m.parent = k3.parent
       /\ m.status = k3.status /\ m.changed = k3.changed
       /\ m.cur = k3.cur /\ m.prevfg = k3.prevfg /\ m.ground = k3.ground
       /\ m.ctx = k3.ctx /\ m.prevcur = p /\ m.count = p + 1
  BY <1>8 DEF Memory
<1> HIDE DEF m
<1>11. Ends(m.next)
  BY <1>3, <1>5, <1>6, <1>7, <1>8, <1>9, <1>10
<1>12. p \in Nat /\ NULL < p
  BY MaxPidAssumption DEF Pid, NULL
<1>13. Known(m)
  <2>1. \A x \in Pid : m.next[x] \in {NULL, p, u[x]}
    BY <1>5, <1>6, <1>7, <1>8, <1>9, <1>10
  <2>2. \A x \in Pid : m.parent[x] \in {NULL, parent, k.parent[x]}
    <3>1. k.parent \in [Pid -> Ptr]
      BY DEF Sound, Links, Memory
    <3> QED BY <1>5, <1>6, <1>7, <1>8, <1>10, <3>1
  <2>3. \A q \in Queue : m.head[q] \in {p, k.head[q]}
    BY <1>5, <1>6, <1>7, <1>8, <1>10
  <2>4. m.cur = k.cur /\ m.prevfg = k.prevfg
    BY <1>5, <1>6, <1>7, <1>8, <1>10
  <2>5. \A x \in Pid : u[x] \in Ptr /\ u[x] < p
    BY <1>3
  <2>6. \A y \in Ptr : y < p => y < p + 1
    BY <1>12, MaxPidAssumption DEF Ptr
  <2>7. NULL < p + 1 /\ p < p + 1 /\ parent < p + 1
    <3>1. parent < p + 1
      BY <2>6
    <3>2. NULL < p + 1 /\ p < p + 1
      BY <1>12 DEF NULL
    <3> QED BY <3>1, <3>2
  <2>8. /\ \A x \in Pid : k.parent[x] \in Ptr /\ k.parent[x] < p
        /\ \A q \in Queue : k.head[q] \in Ptr /\ k.head[q] < p
        /\ k.cur \in Ptr /\ k.prevfg \in Ptr /\ k.cur < p /\ k.prevfg < p
    BY KnownPointers DEF Sound
  <2> HIDE DEF p
  <2>9. \A x \in Pid : m.next[x] < p + 1
    BY <2>1, <2>5, <2>6, <2>7
  <2>10. \A x \in Pid : m.parent[x] < p + 1
    BY <2>2, <2>6, <2>7, <2>8
  <2>11. \A q \in Queue : m.head[q] < p + 1
    BY <2>3, <2>6, <2>7, <2>8
  <2>12. m.cur < p + 1 /\ m.prevfg < p + 1 /\ m.prevcur < p + 1
    BY <1>10, <2>4, <2>6, <2>7, <2>8
  <2> QED BY <1>10, <2>9, <2>10, <2>11, <2>12 DEF Known
<1>14. Told(m)
  <2>1. m.status = [k.status EXCEPT ![p] = "READY"]
        /\ m.changed = [k.changed EXCEPT ![p] = FALSE]
    BY <1>5, <1>6, <1>7, <1>8, <1>10
  <2>2. k.status \in [Pid -> Status] /\ k.changed \in [Pid -> BOOLEAN]
    BY DEF Sound, Links, Memory
  <2> QED BY <2>1, <2>2 DEF Told, Sound
<1>15. /\ m.cur = k.cur /\ m.prevfg = k.prevfg
       /\ m.ground = [k.ground EXCEPT ![p] = FG]
       /\ m.ctx = [k.ctx EXCEPT ![p] = [who |-> p, pc |-> pc]]
  BY <1>5, <1>6, <1>7, <1>8, <1>10
<1> QED BY <1>1, <1>2, <1>10, <1>11, <1>13, <1>14, <1>15 DEF Sound, Links, Creates
=============================================================================
