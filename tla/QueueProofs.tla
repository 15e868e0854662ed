---------------------------- MODULE QueueProofs ----------------------------
(***************************************************************************)
(* The four queues as sets: what an operation on one list does to all of   *)
(* them, as long as no block is in two lists and a block that is added is  *)
(* in none and has a cleared next.                                         *)
(***************************************************************************)
EXTENDS ListProofs

\* No block is in two lists.
Apart(k) == \A q, r \in Queue : q # r => Members(k, q) \cap Members(k, r) = {}

\* m comes from k by an operation on lists alone.
Relisted(k, m) ==
  /\ Relinks(k, m)
  /\ m.live = k.live /\ m.parent = k.parent /\ m.kids = k.kids

\* Only queue q has changed, and no next but of its blocks and of p.
OnlyIn(k, m, q, p) ==
  /\ \A r \in Queue \ {q} : Members(m, r) = Members(k, r)
  /\ \A x \in Pid : x # p /\ x \notin Members(k, q) => m.next[x] = k.next[x]

\* A list none of whose blocks has changed is the same list.
LEMMA OtherMembers ==
  ASSUME NEW k, Links(k), NEW m, Links(m), Apart(k), NEW q \in Queue, NEW p \in Pid,
         \A r \in Queue \ {q} : p \notin Members(k, r) /\ m.head[r] = k.head[r],
         \A x \in Pid : x # p /\ x \notin Members(k, q) => m.next[x] = k.next[x]
  PROVE  OnlyIn(k, m, q, p)
<1> SUFFICES ASSUME NEW r \in Queue \ {q} PROVE Members(m, r) = Members(k, r)
  BY DEF OnlyIn
<1>1. /\ k.next \in [Pid -> Ptr] /\ m.next \in [Pid -> Ptr]
      /\ k.head[r] \in Ptr /\ m.head[r] = k.head[r]
  BY DEF Links, Memory
<1>2. \A x \in Members(k, r) : m.next[x] = k.next[x]
  <2>1. Members(k, r) \subseteq Pid
    BY MembersKnown
  <2>2. \A x \in Members(k, r) : x \notin Members(k, q)
    BY DEF Apart
  <2> QED BY <2>1, <2>2
<1> DEFINE V == Visited(k.next, k.head[r], {})
<1>3. Members(k, r) = V /\ Members(m, r) = Visited(m.next, k.head[r], {})
  BY <1>1 DEF Members
<1>4. \A x \in V : m.next[x] = k.next[x]
  BY <1>2, <1>3
<1> QED BY <1>1, <1>3, <1>4, VisitedAgrees

\* add_PCB of a block that is in no list.
LEMMA AddPCBFiles ==
  ASSUME NEW k, Links(k), Apart(k), NEW q \in Queue, NEW p \in Pid, p < k.count,
         k.next[p] = NULL, \A r \in Queue : p \notin Members(k, r)
  PROVE  /\ Relisted(k, AddPCB(k, q, p))
         /\ Members(AddPCB(k, q, p), q) = Members(k, q) \cup {p}
         /\ OnlyIn(k, AddPCB(k, q, p), q, p)
<1> DEFINE m == AddPCB(k, q, p)
           V == Visited(k.next, k.head[q], {})
           m1 == [k EXCEPT !.head[q] = p]
           m2 == [k EXCEPT !.next = Behind(k.next, V, p)]
<1>1. /\ k.next \in [Pid -> Ptr] /\ Ends(k.next) /\ k.head[q] \in Ptr
      /\ Members(k, q) = V /\ p \notin V
  BY DEF Links, Memory, Members
<1>2. Relinks(k, m) /\ Links(m)
  BY AddPCBRelinks DEF Relinks
<1>3. CASE k.head[q] = NULL
  <2>1. m = m1
    BY <1>3 DEF AddPCB
  <2>2. m1.next = k.next /\ m1.head = [k.head EXCEPT ![q] = p] /\ m1.live = k.live
        /\ m1.parent = k.parent /\ m1.kids = k.kids
    BY DEF Links, Memory
  <2>3. m1.head[q] = p /\ \A r \in Queue \ {q} : m1.head[r] = k.head[r]
    BY <2>2 DEF Links, Memory
  <2> HIDE DEF m, m1
  <2>4. Members(m, q) = {p}
    <3>1. Visited(k.next, p, {}) = {p} \cup Visited(k.next, NULL, {})
      BY <1>1, VisitedStep
    <3>2. Visited(k.next, NULL, {}) = {}
      BY VisitedNull
    <3> QED BY <2>1, <2>2, <2>3, <3>1, <3>2 DEF Members
  <2>5. Members(k, q) = {}
    BY <1>1, <1>3, VisitedNull
  <2>6. OnlyIn(k, m, q, p)
    BY <1>2, <2>1, <2>2, <2>3, OtherMembers
  <2> QED BY <1>2, <2>1, <2>2, <2>4, <2>5, <2>6 DEF Relisted, m
<1>4. CASE k.head[q] # NULL
  <2>1. k.head[q] \in Pid /\ k.head[q] # p
    BY <1>1, <1>4, Pids, VisitedCloses
  <2>2. m = m2
    BY <1>1, <1>4, <2>1 DEF AddPCB, Behind
  <2>3. m2.next = Behind(k.next, V, p) /\ m2.head = k.head /\ m2.live = k.live
        /\ m2.parent = k.parent /\ m2.kids = k.kids
    BY DEF Links, Memory
  <2>4. Visited(Behind(k.next, V, p), k.head[q], {}) = V \cup {p}
    BY <1>1, <2>1, BehindVisits
  <2>5. \A x \in Pid : x # p /\ x \notin V => Behind(k.next, V, p)[x] = k.next[x]
    BY DEF Behind
  <2> HIDE DEF m, m2, V
  <2>6. Members(m, q) = V \cup {p}
    BY <2>2, <2>3, <2>4 DEF Members
  <2>7. OnlyIn(k, m, q, p)
    BY <1>1, <1>2, <2>2, <2>3, <2>5, OtherMembers
  <2> QED BY <1>1, <1>2, <2>2, <2>3, <2>6, <2>7 DEF Relisted, m
<1> QED BY <1>3, <1>4

\* remove_PCB of a block that is in the queue, without its child_list part.
LEMMA UnlinkFiles ==
  ASSUME NEW k, Links(k), Apart(k), NEW q \in Queue, NEW p \in Members(k, q)
  PROVE  /\ Relisted(k, Unlink(k, q, p))
         /\ Members(Unlink(k, q, p), q) = Members(k, q) \ {p}
         /\ OnlyIn(k, Unlink(k, q, p), q, p)
         /\ k.head[q] = p => Unlink(k, q, p).next[p] = NULL
<1> DEFINE m == Unlink(k, q, p)
           V == Visited(k.next, k.head[q], {})
           m1 == [k EXCEPT !.head[q] = k.next[p], !.next[p] = NULL]
           m2 == [k EXCEPT !.next = Around(k.next, V, p)]
<1>1. /\ k.next \in [Pid -> Ptr] /\ Ends(k.next) /\ k.head[q] \in Ptr
      /\ Members(k, q) = V /\ p \in V /\ p \in Pid
  BY MembersKnown DEF Links, Memory, Members
<1>2. Relinks(k, m) /\ Links(m)
  BY UnlinkRelinks DEF Relinks
<1>3. \A r \in Queue \ {q} : p \notin Members(k, r)
  BY DEF Apart
<1>4. CASE k.head[q] = p
  <2> DEFINE c == [k.next EXCEPT ![p] = NULL]
  <2>1. m = m1
    BY <1>4 DEF Unlink
  <2>2. m1.next = c /\ m1.head = [k.head EXCEPT ![q] = k.next[p]] /\ m1.live = k.live
        /\ m1.parent = k.parent /\ m1.kids = k.kids
    BY DEF Links, Memory
  <2>3. m1.head[q] = k.next[p] /\ \A r \in Queue \ {q} : m1.head[r] = k.head[r]
    BY <2>2 DEF Links, Memory
  <2>4. Visited(c, k.next[p], {}) = V \ {p}
    BY <1>1, <1>4, ClearedVisits
  <2>5. c[p] = NULL /\ \A x \in Pid : x # p => c[x] = k.next[x]
    BY <1>1
  <2> HIDE DEF m, m1, V, c
  <2>6. Members(m, q) = V \ {p}
    BY <2>1, <2>2, <2>3, <2>4 DEF Members
  <2>7. OnlyIn(k, m, q, p)
    BY <1>1, <1>2, <1>3, <2>1, <2>2, <2>3, <2>5, OtherMembers
  <2> QED BY <1>1, <1>2, <2>1, <2>2, <2>5, <2>6, <2>7 DEF Relisted, m
<1>5. CASE k.head[q] # p
  <2>1. k.head[q] \in Pid
    BY <1>1, VisitedNull, Pids
  <2>2. m = m2
    BY <1>1, <1>5 DEF Unlink, Around
  <2>3. m2.next = Around(k.next, V, p) /\ m2.head = k.head /\ m2.live = k.live
        /\ m2.parent = k.parent /\ m2.kids = k.kids
    BY DEF Links, Memory
  <2>4. Visited(Around(k.next, V, p), k.head[q], {}) = V \ {p}
    BY <1>1, <1>5, <2>1, AroundVisits
  <2>5. \A x \in Pid : x \notin V => Around(k.next, V, p)[x] = k.next[x]
    BY DEF Around
  <2> HIDE DEF m, m2, V
  <2>6. Members(m, q) = V \ {p}
    BY <2>2, <2>3, <2>4 DEF Members
  <2>7. OnlyIn(k, m, q, p)
    BY <1>1, <1>2, <1>3, <2>2, <2>3, <2>5, OtherMembers
  <2> QED BY <1>1, <1>2, <1>5, <2>2, <2>3, <2>6, <2>7 DEF Relisted, m
<1> QED BY <1>4, <1>5
-----------------------------------------------------------------------------
(***************************************************************************)
(* Kernel memory in which every block is where it belongs: out is the only *)
(* block in no queue, the others are in the queue of their priority or,    *)
(* when they have terminated, in the zombie queue; parent_pcb and          *)
(* child_list are one tree of three levels.                                *)
(***************************************************************************)
Ready(k, out) == {p \in k.live \ {Shell, out} : k.status[p] = "READY"}
Zombies(k) == {p \in k.live \ {Shell} : k.status[p] = "ZOMBIE"}

Placed(k, out) ==
  /\ Members(k, -1) = {Shell} \ {out}
  /\ Members(k, 0) = Ready(k, out)
  /\ Members(k, 1) = {}
  /\ Members(k, ZombieQueue) = Zombies(k)
  /\ \A p \in Pid : p = out \/ p >= k.count => k.next[p] = NULL

Settled(k, out) ==
  /\ Shell \in k.live /\ \A p \in k.live : p < k.count
  /\ k.status[Shell] \in {"READY", "BLOCKED"} /\ k.prio[Shell] = -1
  /\ \A p \in k.live \ {Shell} : k.status[p] \in {"READY", "ZOMBIE"} /\ k.prio[p] = 0
  /\ \A p \in Pid : k.sleep[p] = -1 /\ k.sigflag[p] = FALSE
  /\ k.fault = FALSE
  /\ out # NULL => out \in k.live /\ (out = Shell \/ k.status[out] = "READY")

Tree(k) ==
  /\ k.parent[Shell] = NULL
  /\ \A p \in k.live \ {Shell} :
       /\ k.parent[p] \in k.live /\ Listed(k.kids[k.parent[p]], p)
       /\ Len(k.kids[p]) <= 1
       /\ k.parent[p] # Shell => k.kids[p] = <<>>
  /\ \A p \in k.live :
       /\ Distinct(k.kids[p])
       /\ \A c : Listed(k.kids[p], c) => c \in k.live /\ k.parent[c] = p

Fit(k, out) == Links(k) /\ Placed(k, out) /\ Settled(k, out) /\ Tree(k)

\* Who has terminated has no children, nor has a block that is free.
Barren(k) ==
  \A p \in Pid : p \notin k.live \/ k.status[p] = "ZOMBIE" => k.kids[p] = <<>>

\* The four queues.
LEMMA Queues ==
  /\ Queue = {-1, 0, 1, ZombieQueue} /\ ZombieQueue = 2
  /\ -1 \in RunQueue /\ 0 \in RunQueue /\ 1 \in RunQueue
  /\ ZombieQueue \notin RunQueue /\ RunQueue = {-1, 0, 1}
BY DEF Queue, RunQueue, ZombieQueue

\* Pids are numbers, and NULL and the shell's are as they are.
LEMMA PidsAreNats ==
  /\ \A p \in Pid : p \in Nat /\ p # NULL
  /\ Shell \in Pid /\ Shell # NULL
BY MaxPidAssumption DEF Pid, NULL, Shell

\* Types of the fields.
LEMMA FitTypes ==
  ASSUME NEW k, Links(k)
  PROVE  /\ k \in Memory /\ k.live \subseteq Pid /\ k.count \in Nat
         /\ k.parent \in [Pid -> Ptr] /\ k.kids \in [Pid -> Seq(Pid)]
         /\ k.status \in [Pid -> Status] /\ k.next \in [Pid -> Ptr]
         /\ k.head \in [Queue -> Ptr] /\ k.prio \in [Pid -> RunQueue]
         /\ k.sleep \in [Pid -> -1..MaxSleep] /\ k.sigflag \in [Pid -> BOOLEAN]
         /\ \A p \in Pid : k.kids[p] \in Seq(Pid)
BY MaxPidAssumption DEF Links, Memory

\* No block is in two queues.
LEMMA FitApart ==
  ASSUME NEW k, NEW out, Fit(k, out)
  PROVE  /\ Apart(k)
         /\ \A q \in Queue : Members(k, q) \subseteq k.live
         /\ \A q \in Queue : out \notin Members(k, q)
<1>1. /\ Members(k, -1) = {Shell} \ {out} /\ Members(k, 0) = Ready(k, out)
      /\ Members(k, 1) = {} /\ Members(k, 2) = Zombies(k)
  BY Queues DEF Fit, Placed
<1>2. Ready(k, out) \cap Zombies(k) = {}
  BY DEF Ready, Zombies
<1>3. /\ Shell \notin Ready(k, out) /\ Shell \notin Zombies(k)
      /\ Ready(k, out) \subseteq k.live /\ Zombies(k) \subseteq k.live /\ Shell \in k.live
  BY DEF Ready, Zombies, Fit, Settled
<1>4. out \notin Ready(k, out) /\ out \notin Zombies(k)
  BY PidsAreNats, FitTypes DEF Ready, Zombies, Fit, Settled
<1>5. Queue = {-1, 0, 1, 2}
  BY Queues
<1> HIDE DEF Ready, Zombies
<1>6. Apart(k)
  BY <1>1, <1>2, <1>3, <1>5 DEF Apart
<1> QED BY <1>1, <1>3, <1>4, <1>5, <1>6

\* A change of the fields Fit does not look at.
LEMMA FitOf ==
  ASSUME NEW k, NEW out, Fit(k, out), NEW m, Links(m),
         m.next = k.next, m.head = k.head, m.live = k.live, m.status = k.status,
         m.prio = k.prio, m.sleep = k.sleep, m.sigflag = k.sigflag,
         m.fault = k.fault, m.count = k.count, m.parent = k.parent, m.kids = k.kids
  PROVE  Fit(m, out)
<1>1. \A q \in Queue : Members(m, q) = Members(k, q)
  BY DEF Members
<1>2. Placed(m, out)
  BY <1>1, Queues DEF Fit, Placed, Ready, Zombies
<1>3. Settled(m, out)
  BY DEF Fit, Settled
<1>4. Tree(m)
  BY DEF Fit, Tree
<1> QED BY <1>2, <1>3, <1>4 DEF Fit
-----------------------------------------------------------------------------
(***************************************************************************)
(* The scheduler, all blocks in their queues.                              *)
(***************************************************************************)
\* A walk that stops at its first block.
LEMMA VisitedOne ==
  ASSUME NEW next, NEW h \in Pid, NEW stop, h \in stop \/ next[h] \in {NULL, h}
  PROVE  Visited(next, h, stop) \subseteq {h}
BY DEF Visited

\* The head of a queue is in it.
LEMMA HeadIn ==
  ASSUME NEW k, Links(k), NEW q \in Queue
  PROVE  /\ k.head[q] \in Ptr
         /\ k.head[q] = NULL => Members(k, q) = {}
         /\ k.head[q] # NULL => k.head[q] \in Pid /\ k.head[q] \in Members(k, q)
<1>1. k.next \in [Pid -> Ptr] /\ k.head[q] \in Ptr
  BY DEF Links, Memory
<1> QED BY <1>1, VisitedCloses, VisitedNull, Pids DEF Members

\* Only the shell may be in a queue and not READY, and then alone: the first
\* READY block of a queue is its head.
LEMMA FirstReady ==
  ASSUME NEW k, Fit(k, NULL), NEW q \in RunQueue
  PROVE  \/ FindNextValid(k, k.head[q]) = NULL
         \/ /\ FindNextValid(k, k.head[q]) = k.head[q]
            /\ k.head[q] \in Pid /\ k.status[k.head[q]] = "READY"
<1> DEFINE h == k.head[q]
           ready == {p \in Pid : k.status[p] = "READY"}
           found == ready \cap Visited(k.next, h, ready)
<1>1. Links(k) /\ q \in Queue
  BY Pids DEF Fit
<1>2. FindNextValid(k, h) = IF found = {} THEN NULL ELSE CHOOSE p \in found : TRUE
  BY DEF FindNextValid
<1>3. CASE h = NULL
  <2>1. Visited(k.next, NULL, ready) = {}
    <3> SUFFICES ASSUME NEW p \in Visited(k.next, NULL, ready) PROVE FALSE
      OBVIOUS
    <3>1. {} \in SUBSET Pid /\ p \notin {}
      OBVIOUS
    <3> QED BY <3>1, Zenon DEF Visited
  <2> QED BY <1>2, <1>3, <2>1
<1>4. CASE h # NULL
  <2>1. h \in Pid /\ h \in Members(k, q)
    BY <1>1, <1>4, HeadIn
  <2>2. CASE k.status[h] = "READY"
    <3>1. Visited(k.next, h, ready) \subseteq {h}
      BY <2>1, <2>2, VisitedOne
    <3>2. found \subseteq {h}
      BY <3>1
    <3> HIDE DEF found
    <3> QED BY <1>2, <2>1, <2>2, <3>2
  <2>3. CASE k.status[h] # "READY"
    <3>1. q = -1 /\ Members(k, q) = {Shell} /\ h = Shell
      BY <2>1, <2>3, Queues DEF Fit, Placed, Ready
    <3>2. k.next[h] \in {NULL, h}
      <4>1. k.next[h] # NULL => k.next[h] \in Members(k, q)
        <5>1. k.next \in [Pid -> Ptr] /\ k.head[q] \in Ptr
          BY <1>1 DEF Links, Memory
        <5> QED BY <2>1, <5>1, VisitedCloses DEF Members
      <4> QED BY <3>1, <4>1
    <3>3. Visited(k.next, h, ready) \subseteq {h}
      BY <2>1, <3>2, VisitedOne
    <3>4. found = {}
      BY <2>3, <3>3
    <3> HIDE DEF found
    <3> QED BY <1>2, <3>4
  <2> QED BY <2>2, <2>3
<1> QED BY <1>3, <1>4

\* Nobody sleeps.
LEMMA NoneSleeps ==
  ASSUME NEW k, Fit(k, NULL), NEW q \in RunQueue
  PROVE  SleepPass(k, q) = k
<1> DEFINE visited == Members(k, q)
           woken   == {p \in visited : k.sleep[p] = 0}
           parents == IF q = 0 THEN {k.parent[p] : p \in woken} ELSE {}
           s == [p \in Pid |-> IF p \in woken \cup parents THEN "READY" ELSE k.status[p]]
           t == [p \in Pid |-> IF p \in visited /\ k.sleep[p] >= 0
                               THEN k.sleep[p] - 1 ELSE k.sleep[p]]
<1>1. k \in Memory /\ visited \subseteq Pid /\ \A p \in Pid : k.sleep[p] = -1
  BY MembersKnown, Pids DEF Fit, Links, Settled
<1>2. woken = {}
  BY <1>1
<1>3. parents = {}
  BY <1>2
<1>4. SleepPass(k, q) = [k EXCEPT !.status = s, !.sleep = t, !.fault = @ \/ NULL \in parents]
  BY DEF SleepPass
<1> HIDE DEF woken, parents
<1>5. s = k.status
  BY <1>1, <1>2, <1>3 DEF Memory
<1>6. t = k.sleep
  BY <1>1 DEF Memory
<1>7. (k.fault \/ NULL \in parents) = k.fault
  BY <1>1, <1>3 DEF Memory
<1>8. [k EXCEPT !.status = k.status, !.sleep = k.sleep, !.fault = k.fault] = k
  BY <1>1 DEF Memory
<1> HIDE DEF s, t
<1> QED BY <1>4, <1>5, <1>6, <1>7, <1>8

\* The tree depends on who is in a child list, not in which order.
SameKids(s, t) ==
  /\ Len(t) = Len(s) /\ (Distinct(s) => Distinct(t)) /\ (t = <<>> <=> s = <<>>)
  /\ \A c : Listed(t, c) <=> Listed(s, c)

\* m is k but for the order of children, the links and who is current.
Heirs(k, m) ==
  /\ m.live = k.live /\ m.status = k.status /\ m.parent = k.parent
  /\ \A p \in Pid : SameKids(k.kids[p], m.kids[p])

LEMMA HeirsTree ==
  ASSUME NEW k, k.live \subseteq Pid, Tree(k), Shell \in k.live, NEW m, Heirs(k, m)
  PROVE  Tree(m) /\ (Barren(k) => Barren(m))
<1>1. ASSUME NEW p \in k.live \ {Shell}
      PROVE  /\ m.parent[p] \in m.live /\ Listed(m.kids[m.parent[p]], p)
             /\ Len(m.kids[p]) <= 1
             /\ m.parent[p] # Shell => m.kids[p] = <<>>
  <2>1. k.parent[p] \in k.live /\ k.parent[p] \in Pid /\ p \in Pid
    BY DEF Tree
  <2>2. SameKids(k.kids[p], m.kids[p]) /\ SameKids(k.kids[k.parent[p]], m.kids[k.parent[p]])
    BY <2>1 DEF Heirs
  <2> QED BY <2>1, <2>2 DEF Tree, Heirs, SameKids
<1>2. ASSUME NEW p \in k.live
      PROVE  /\ Distinct(m.kids[p])
             /\ \A c : Listed(m.kids[p], c) => c \in m.live /\ m.parent[c] = p
  <2>1. SameKids(k.kids[p], m.kids[p])
    BY DEF Heirs
  <2> QED BY <2>1 DEF Tree, Heirs, SameKids
<1>3. m.live = k.live /\ m.parent[Shell] = NULL
  BY DEF Heirs, Tree
<1>4. Tree(m)
  BY <1>1, <1>2, <1>3 DEF Tree
<1>5. Barren(k) => Barren(m)
  BY DEF Barren, Heirs, SameKids
<1> QED BY <1>4, <1>5

\* Taken out of the child list and put back behind.
LEMMA RejoinedKids ==
  ASSUME NEW s \in Seq(Pid), NEW c \in Pid, Listed(s, c), Distinct(s)
  PROVE  /\ RemoveFirst(s, c) \in Seq(Pid) /\ ~Listed(RemoveFirst(s, c), c)
         /\ SameKids(s, Append(RemoveFirst(s, c), c))
<1> DEFINE r == RemoveFirst(s, c)
           t == Append(r, c)
<1>1. /\ r \in Seq(Pid) /\ Len(r) = Len(s) - 1 /\ Distinct(r)
      /\ \A x : Listed(r, x) <=> Listed(s, x) /\ x # c
  BY RemoveFirstTakes
<1> HIDE DEF r
<1>2. /\ t \in Seq(Pid) /\ Len(t) = Len(r) + 1 /\ Distinct(t)
      /\ \A x : Listed(t, x) <=> Listed(r, x) \/ x = c
  BY <1>1, AppendLists
<1>3. Len(s) \in Nat /\ Len(t) = Len(s) /\ Len(t) # 0
  <2>1. Len(r) \in Nat /\ Len(s) \in Nat
    BY <1>1
  <2> QED BY <1>1, <1>2, <2>1
<1> HIDE DEF t
<1>4. s # <<>> /\ t # <<>>
  BY <1>2, <1>3, EmptyList
<1>5. \A x : Listed(t, x) <=> Listed(s, x)
  BY <1>1, <1>2
<1> QED BY <1>1, <1>2, <1>3, <1>4, <1>5 DEF SameKids, r, t

\* A child list is the same as itself.
LEMMA SameKidsSelf ==
  ASSUME NEW s
  PROVE  SameKids(s, s)
BY DEF SameKids

\* The block that is dequeued to run is out of the queues, and as much as ever
\* a child of its parent.
LEMMA RunNextFit ==
  ASSUME NEW k, Fit(k, NULL), Sound(k), NEW c \in Pid, c = k.head[k.queue],
         k.status[c] = "READY"
  PROVE  Fit(RunNext(k, c), c) /\ Heirs(k, RunNext(k, c))
<1> DEFINE q  == k.queue
           k0 == RemoveChild(k, c)
           k1 == RemovePCB(k, q, c)
           k2 == RejoinParent(k1, c)
           m  == RunNext(k, c)
<1>1. Links(k) /\ q \in RunQueue /\ q \in Queue /\ k.kids \in [Pid -> Seq(Pid)]
      /\ k.parent \in [Pid -> Ptr] /\ k \in Memory
  BY Pids DEF Fit, Links, Memory
<1>2. c \in Members(k, q)
  BY <1>1, HeadIn, PidsAreNats
<1>3. Apart(k) /\ c \in k.live /\ c < k.count
  BY <1>1, <1>2, FitApart DEF Fit, Settled
<1>4. Relinks(k, k0) /\ Links(k0)
  BY <1>1, RemoveChildRelinks DEF Relinks
<1>5. k0.next = k.next /\ k0.head = k.head /\ k0.live = k.live /\ k0.parent = k.parent
  BY <1>1 DEF RemoveChild, Memory
<1>6. k1 = Unlink(k0, q, c)
  BY <1>2 DEF RemovePCB
<1> HIDE DEF k0, k1
<1>7. \A r \in Queue : Members(k0, r) = Members(k, r)
  BY <1>5 DEF Members
<1>8. /\ Relisted(k0, k1) /\ Members(k1, q) = Members(k0, q) \ {c}
      /\ OnlyIn(k0, k1, q, c) /\ k1.next[c] = NULL
  <2>1. Apart(k0) /\ c \in Members(k0, q) /\ k0.head[q] = c
    BY <1>1, <1>2, <1>3, <1>5, <1>7 DEF Apart
  <2> QED BY <1>1, <1>4, <1>6, <2>1, UnlinkFiles
<1>9. /\ Links(k1) /\ k1.live = k.live /\ k1.parent = k.parent /\ k1.kids = k0.kids
      /\ SameFields(k0, k1) /\ SameFields(k, k0)
  BY <1>4, <1>5, <1>8 DEF Relisted, Relinks
<1>10. /\ Relinks(k1, k2) /\ k2.next = k1.next /\ k2.head = k1.head /\ k2.live = k1.live
       /\ k2.parent = k.parent /\ \A p \in Pid : SameKids(k.kids[p], k2.kids[p])
  <2>1. Relinks(k1, k2)
    BY <1>9, RejoinParentRelinks
  <2>2. CASE k.parent[c] = NULL
    <3>1. k0 = k /\ k2 = k1
      BY <1>9, <2>2 DEF RemoveChild, RejoinParent, k0
    <3> QED BY <1>9, <2>1, <3>1, SameKidsSelf
  <2>3. CASE k.parent[c] # NULL
    <3> DEFINE d == k.parent[c]
               s == k.kids[d]
               r == RemoveFirst(s, c)
    <3>a. k \in Memory
      BY <1>1
    <3>1. d \in Pid /\ s \in Seq(Pid) /\ d \in k.live
      BY <1>1, <1>3, <2>3, Pids DEF Fit, Tree
    <3>2. Listed(s, c) /\ Distinct(s)
      BY <1>3, <2>3, <3>1 DEF Fit, Tree
    <3>3. r \in Seq(Pid) /\ ~Listed(r, c) /\ SameKids(s, Append(r, c))
      BY <3>1, <3>2, RejoinedKids
    <3>4. k0.kids = [k.kids EXCEPT ![d] = r]
      BY ONLY <3>a, <2>3 DEF RemoveChild, k0, Memory
    <3>5. k1.kids[d] = r /\ k1.parent[c] = d
      BY <1>1, <1>9, <3>1, <3>4
    <3> HIDE DEF d, s, r
    <3>6. k2 = AddChild(k1, d, c)
      BY <2>3, <3>5 DEF RejoinParent, d
    <3>7. k2 = [k1 EXCEPT !.parent[c] = d, !.kids[d] = Append(r, c)]
      BY <3>3, <3>5, <3>6 DEF AddChild, Listed
    <3> HIDE DEF k2
    <3>8. /\ k2.next = k1.next /\ k2.head = k1.head /\ k2.live = k1.live
          /\ k2.parent = [k1.parent EXCEPT ![c] = d]
          /\ k2.kids = [k1.kids EXCEPT ![d] = Append(r, c)]
      BY <1>9, <3>7 DEF Links, Memory
    <3>9. k2.parent = k.parent
      BY <1>1, <1>9, <3>5, <3>8
    <3>10. \A p \in Pid : k2.kids[p] = IF p = d THEN Append(r, c) ELSE k.kids[p]
      BY <1>1, <1>9, <3>4, <3>8
    <3>11. \A p \in Pid : SameKids(k.kids[p], k2.kids[p])
      BY <3>3, <3>10, SameKidsSelf DEF s
    <3> QED BY <2>1, <3>8, <3>9, <3>11
  <2> QED BY <2>2, <2>3
<1>11. /\ m.next = k1.next /\ m.head = k1.head /\ m.live = k.live /\ m.parent = k.parent
       /\ m.kids = k2.kids /\ m.status = k.status /\ m.prio = k.prio /\ m.sleep = k.sleep
       /\ m.sigflag = k.sigflag /\ m.fault = k.fault /\ m.count = k.count
  <2>1. m = [k2 EXCEPT !.prevfg = IF k.ground[c] = FG THEN c ELSE @, !.prevcur = c, !.cur = c]
    BY DEF RunNext, k1
  <2>2. k2 \in Memory /\ SameFields(k1, k2)
    BY <1>10 DEF Relinks, Links
  <2> HIDE DEF k2, m
  <2> QED BY <1>9, <1>10, <2>1, <2>2 DEF SameFields, Memory
<1> HIDE DEF m, k2
<1>12. Links(m)
  BY <1>3, RunNextSound DEF Sound, m
<1>13. Heirs(k, m)
  BY <1>10, <1>11 DEF Heirs
<1>14. Tree(m)
  BY <1>1, <1>13, HeirsTree, FitTypes DEF Fit, Settled
<1>15. Settled(m, c)
  BY <1>3, <1>11 DEF Fit, Settled
<1>16. Placed(m, c)
  <2>1. \A r \in Queue : Members(m, r) = IF r = q THEN Members(k, r) \ {c} ELSE Members(k, r)
    <3>1. \A r \in Queue : Members(m, r) = Members(k1, r)
      BY <1>11 DEF Members
    <3> QED BY <1>1, <1>7, <1>8, <3>1 DEF OnlyIn
  <2>2. \A p \in Pid : p = c \/ p >= m.count => m.next[p] = NULL
    <3> SUFFICES ASSUME NEW p \in Pid, p # c, p >= k.count PROVE k1.next[p] = NULL
      BY <1>8, <1>11
    <3>1. p \notin Members(k, q)
      BY <1>1, MembersKnown, PidsAreNats, FitTypes
    <3>2. k1.next[p] = k.next[p]
      BY <1>5, <1>7, <1>8, <1>1, <3>1 DEF OnlyIn
    <3> QED BY <3>2 DEF Fit, Placed
  <2>3. /\ Members(k, -1) = {Shell} /\ Members(k, 0) = Ready(k, NULL)
        /\ Members(k, 1) = {} /\ Members(k, ZombieQueue) = Zombies(k)
    BY PidsAreNats DEF Fit, Placed
  <2>4. Zombies(m) = Zombies(k) /\ Ready(m, c) = Ready(k, NULL) \ {c}
    BY <1>1, <1>11, PidsAreNats, FitTypes DEF Zombies, Ready
  <2>5. Shell \notin Ready(k, NULL)
    BY DEF Ready
  <2> HIDE DEF q
  <2>6. CASE q = -1
    <3>1. c = Shell
      BY <1>2, <2>3, <2>6
    <3>2. /\ Members(m, -1) = {} /\ Members(m, 0) = Members(k, 0)
          /\ Members(m, 1) = Members(k, 1) /\ Members(m, ZombieQueue) = Members(k, ZombieQueue)
      BY <2>1, <2>3, <2>6, <3>1, Queues
    <3> QED BY <2>2, <2>3, <2>4, <2>5, <3>1, <3>2 DEF Placed
  <2>7. CASE q = 0
    <3>1. c # Shell
      BY <1>2, <2>3, <2>5, <2>7
    <3>2. /\ Members(m, -1) = Members(k, -1) /\ Members(m, 0) = Members(k, 0) \ {c}
          /\ Members(m, 1) = Members(k, 1) /\ Members(m, ZombieQueue) = Members(k, ZombieQueue)
      BY <2>1, <2>7, Queues
    <3> QED BY <2>2, <2>3, <2>4, <3>1, <3>2 DEF Placed
  <2>8. CASE q = 1
    BY <1>2, <2>3, <2>8
  <2> QED BY <1>1, <2>6, <2>7, <2>8, Queues
<1> QED BY <1>12, <1>13, <1>14, <1>15, <1>16 DEF Fit, m

\* Nothing is chosen, or the head of the current queue.
LEMMA PickNextFit ==
  ASSUME NEW k, Fit(k, NULL), Sound(k), k.cur = NULL
  PROVE  Fit(PickNext(k), PickNext(k).cur) /\ Heirs(k, PickNext(k))
<1> DEFINE c == FindNextValid(k, k.head[k.queue])
<1>1. k.queue \in RunQueue
  BY DEF Fit, Links, Memory
<1>2. CASE c = NULL
  <2>1. PickNext(k) = k
    BY <1>2 DEF PickNext, RunOrIdle
  <2> QED BY <2>1, SameKidsSelf DEF Heirs
<1>3. CASE c # NULL
  <2>1. c = k.head[k.queue] /\ c \in Pid /\ k.status[c] = "READY" /\ c < k.count
    <3>1. c = k.head[k.queue] /\ c \in Pid /\ k.status[c] = "READY"
      BY <1>1, <1>3, FirstReady
    <3> QED BY <1>1, <3>1, Pids, KnownPointers DEF Fit
  <2>2. PickNext(k) = RunNext(k, c)
    BY <1>3 DEF PickNext, RunOrIdle
  <2> HIDE DEF c
  <2>3. Fit(RunNext(k, c), c) /\ Heirs(k, RunNext(k, c)) /\ RunNext(k, c).cur = c
    BY <2>1, RunNextFit, RunNextSound DEF Runs
  <2> QED BY <2>2, <2>3
<1> QED BY <1>2, <1>3

\* What the scheduler does when its first part is over.
Chooses(k) ==
  LET k2 == [k EXCEPT !.cur = NULL, !.how = "NORMAL"]
  IN  PickNext(SleepPass(SleepPass(SleepPass(k2, -1), 0), 1))

LEMMA ChoosesFit ==
  ASSUME NEW k, Fit(k, NULL), Sound(k)
  PROVE  Fit(Chooses(k), Chooses(k).cur) /\ Heirs(k, Chooses(k))
<1> DEFINE k2 == [k EXCEPT !.cur = NULL, !.how = "NORMAL"]
<1>1. k2 \in Memory
  BY Pids DEF Fit, Links, Memory
<1>2. /\ k2.next = k.next /\ k2.head = k.head /\ k2.live = k.live /\ k2.status = k.status
      /\ k2.prio = k.prio /\ k2.sleep = k.sleep /\ k2.sigflag = k.sigflag
      /\ k2.fault = k.fault /\ k2.count = k.count /\ k2.parent = k.parent
      /\ k2.kids = k.kids /\ k2.cur = NULL /\ k2.changed = k.changed
      /\ k2.prevfg = k.prevfg /\ k2.prevcur = k.prevcur
  BY DEF Fit, Links, Memory
<1>3. Chooses(k) = PickNext(SleepPass(SleepPass(SleepPass(k2, -1), 0), 1))
  BY DEF Chooses
<1> HIDE DEF k2
<1>4. NULL < k.count /\ k.prevfg < k.count /\ k.prevcur < k.count
  BY KnownPointers DEF Fit
<1>5. Sound(k2) /\ Links(k2)
  BY <1>1, <1>2, <1>4, PlainSound DEF Sound
<1>6. Fit(k2, NULL)
  BY <1>2, <1>5, FitOf
<1>7. /\ SleepPass(k2, -1) = k2 /\ SleepPass(k2, 0) = k2 /\ SleepPass(k2, 1) = k2
  BY <1>6, Queues, NoneSleeps
<1>8. Fit(PickNext(k2), PickNext(k2).cur) /\ Heirs(k2, PickNext(k2))
  BY <1>2, <1>5, <1>6, PickNextFit
<1>9. Chooses(k) = PickNext(k2)
  BY <1>3, <1>7
<1> QED BY <1>2, <1>8, <1>9 DEF Heirs
-----------------------------------------------------------------------------
(***************************************************************************)
(* The end of a process.                                                   *)
(***************************************************************************)
\* p is in no child list.
Unlisted(k, p) == k.parent[p] = NULL \/ ~Listed(k.kids[k.parent[p]], p)

LEMMA UnlistedStays ==
  ASSUME NEW k \in Memory, NEW p \in Pid, Unlisted(k, p)
  PROVE  RemoveChild(k, p) = k
<1>1. CASE k.parent[p] = NULL
  BY <1>1 DEF RemoveChild
<1>2. CASE k.parent[p] # NULL
  <2> DEFINE d == k.parent[p]
             r == RemoveFirst(k.kids[d], p)
  <2>1. r = k.kids[d]
    BY <1>2, RemoveFirstSpares DEF Unlisted
  <2>2. RemoveChild(k, p) = [k EXCEPT !.kids[d] = r]
    BY <1>2 DEF RemoveChild
  <2> HIDE DEF d, r
  <2>3. [k EXCEPT !.kids[d] = k.kids[d]] = k
    BY DEF Memory
  <2> QED BY <2>1, <2>2, <2>3
<1> QED BY <1>1, <1>2

\* m comes from k when p is taken out of the queues Q.
Purged(k, m, p, Q) ==
  /\ Relisted(k, m)
  /\ \A q \in Queue : Members(m, q) = IF q \in Q THEN Members(k, q) \ {p} ELSE Members(k, q)
  /\ \A x \in Pid : x # p /\ (\A q \in Queue : x \notin Members(k, q))
                      => m.next[x] = k.next[x]

LEMMA PurgeOne ==
  ASSUME NEW k, Apart(k), NEW p \in Pid, Unlisted(k, p), NEW l, NEW Q, Purged(k, l, p, Q),
         NEW q \in Queue
  PROVE  Purged(k, RemovePCB(l, q, p), p, Q \cup {q})
<1> DEFINE m == RemovePCB(l, q, p)
<1>1. Links(l) /\ l \in Memory /\ l.parent = k.parent /\ l.kids = k.kids /\ l.live = k.live
  BY DEF Purged, Relisted, Relinks, Links
<1>2. CASE p \in Members(l, q)
  <2>1. Unlisted(l, p)
    BY <1>1 DEF Unlisted
  <2>2. m = Unlink(l, q, p)
    BY <1>1, <1>2, <2>1, UnlistedStays DEF RemovePCB
  <2>3. Apart(l)
    BY DEF Apart, Purged
  <2> HIDE DEF m
  <2>4. Relisted(l, m) /\ Members(m, q) = Members(l, q) \ {p} /\ OnlyIn(l, m, q, p)
    BY <1>1, <1>2, <2>2, <2>3, UnlinkFiles
  <2>5. Relisted(k, m)
    BY <1>1, <2>4, RelinksTrans DEF Purged, Relisted
  <2>6. \A r \in Queue : Members(m, r) =
          IF r \in Q \cup {q} THEN Members(k, r) \ {p} ELSE Members(k, r)
    <3> TAKE r \in Queue
    <3>1. Members(l, r) = IF r \in Q THEN Members(k, r) \ {p} ELSE Members(k, r)
      BY DEF Purged
    <3>2. Members(m, r) = IF r = q THEN Members(l, r) \ {p} ELSE Members(l, r)
      BY <2>4 DEF OnlyIn
    <3> QED BY <3>1, <3>2
  <2>7. ASSUME NEW x \in Pid, x # p, \A r \in Queue : x \notin Members(k, r)
        PROVE  m.next[x] = k.next[x]
    <3>1. x \notin Members(l, q)
      BY <2>7 DEF Purged
    <3>2. m.next[x] = l.next[x]
      BY <2>4, <2>7, <3>1 DEF OnlyIn
    <3> QED BY <2>7, <3>2 DEF Purged
  <2> QED BY <2>5, <2>6, <2>7 DEF Purged, m
<1>3. CASE p \notin Members(l, q)
  <2>1. m = l
    BY <1>3 DEF RemovePCB
  <2>2. Members(l, q) = Members(k, q) \ {p}
    <3>1. Members(l, q) = IF q \in Q THEN Members(k, q) \ {p} ELSE Members(k, q)
      BY DEF Purged
    <3> QED BY <1>3, <3>1
  <2> HIDE DEF m
  <2> QED BY <2>1, <2>2 DEF Purged, m
<1> QED BY <1>2, <1>3

\* The tree when c, which has no children, is cut off.
Pruned(k, m, c) ==
  /\ m.live = k.live \ {c} /\ m.parent = k.parent
  /\ \A p \in Pid :
       m.kids[p] = IF p = k.parent[c] THEN RemoveFirst(k.kids[p], c) ELSE k.kids[p]

LEMMA PrunedTree ==
  ASSUME NEW k, k.live \subseteq Pid, Tree(k), Shell \in k.live,
         \A p \in Pid : k.kids[p] \in Seq(Pid),
         NEW c \in k.live, c # Shell, k.kids[c] = <<>>, NEW m, Pruned(k, m, c)
  PROVE  /\ Tree(m)
         /\ \A p \in Pid : k.kids[p] = <<>> => m.kids[p] = <<>>
         /\ \A p \in Pid : Len(k.kids[p]) <= 1 /\ p = k.parent[c] => m.kids[p] = <<>>
<1> DEFINE d == k.parent[c]
           r == RemoveFirst(k.kids[d], c)
<1>1. d \in k.live /\ d \in Pid /\ Listed(k.kids[d], c) /\ Distinct(k.kids[d])
  BY DEF Tree
<1>2. /\ r \in Seq(Pid) /\ Len(r) = Len(k.kids[d]) - 1 /\ Distinct(r)
      /\ \A x : Listed(r, x) <=> Listed(k.kids[d], x) /\ x # c
  BY <1>1, RemoveFirstTakes
<1> HIDE DEF r
<1>3. \A p \in Pid : m.kids[p] = IF p = d THEN r ELSE k.kids[p]
  BY <1>1 DEF Pruned, r
<1>4. d # c /\ k.kids[d] # <<>>
  BY <1>1, EmptyList
<1>5. Len(k.kids[d]) \in Nat
  BY <1>1
<1>6. ASSUME NEW p \in m.live \ {Shell}
      PROVE  /\ m.parent[p] \in m.live /\ Listed(m.kids[m.parent[p]], p)
             /\ Len(m.kids[p]) <= 1
             /\ m.parent[p] # Shell => m.kids[p] = <<>>
  <2>1. /\ p \in k.live /\ p # c /\ k.parent[p] \in k.live /\ Listed(k.kids[k.parent[p]], p)
        /\ Len(k.kids[p]) <= 1 /\ (k.parent[p] # Shell => k.kids[p] = <<>>)
    BY DEF Tree, Pruned
  <2>2. k.parent[p] # c
    BY <2>1, EmptyList
  <2>3. m.parent[p] \in m.live /\ m.parent[p] = k.parent[p]
    BY <2>1, <2>2 DEF Pruned
  <2>4. Listed(m.kids[k.parent[p]], p)
    BY <1>2, <1>3, <2>1
  <2>5. Len(m.kids[p]) <= 1
    BY <1>2, <1>3, <1>5, <2>1
  <2>6. k.parent[p] # Shell => m.kids[p] = <<>>
    BY <1>3, <1>4, <2>1
  <2> QED BY <2>3, <2>4, <2>5, <2>6
<1>7. ASSUME NEW p \in m.live
      PROVE  /\ Distinct(m.kids[p])
             /\ \A x : Listed(m.kids[p], x) => x \in m.live /\ m.parent[x] = p
  <2>1. p \in k.live /\ p \in Pid
    BY DEF Pruned
  <2>2. CASE p = d
    BY <1>2, <1>3, <2>1, <2>2 DEF Tree, Pruned
  <2>3. CASE p # d
    BY <1>3, <2>1, <2>3 DEF Tree, Pruned
  <2> QED BY <2>2, <2>3
<1>8. Tree(m)
  BY <1>6, <1>7 DEF Tree, Pruned
<1>9. \A p \in Pid : k.kids[p] = <<>> => m.kids[p] = <<>>
  BY <1>3, <1>4
<1>10. Len(k.kids[d]) <= 1 => r = <<>>
  <2>1. Len(k.kids[d]) # 0
    BY <1>1, <1>4, EmptyList
  <2>2. Len(k.kids[d]) <= 1 => Len(r) = 0
    <3>1. Len(k.kids[d]) <= 1 => Len(k.kids[d]) = 1
      BY <1>1, <1>4, OneListed
    <3> QED BY <1>2, <3>1
  <2> QED BY <1>2, <2>2, EmptyList
<1> QED BY <1>3, <1>8, <1>9, <1>10

\* k_process_terminate of a process without children.
LEMMA TerminateLeafFit ==
  ASSUME NEW k, NEW out, Fit(k, out), NEW c \in k.live, c # Shell, c # out,
         k.kids[c] = <<>>
  PROVE  /\ Fit(TerminateLeaf(k, c), out)
         /\ Pruned(k, TerminateLeaf(k, c), c)
         /\ Relinks(k, TerminateLeaf(k, c))
<1> DEFINE k0 == RemoveChild(k, c)
           k1 == RemovePCB(k0, ZombieQueue, c)
           k2 == RemovePCB(k1, -1, c)
           k3 == RemovePCB(k2, 0, c)
           k4 == RemovePCB(k3, 1, c)
           m  == FreePCB(k4, c)
           d  == k.parent[c]
           r  == RemoveFirst(k.kids[d], c)
<1>1. Links(k) /\ k \in Memory /\ c \in Pid /\ k.live \subseteq Pid
  BY FitTypes DEF Fit
<1>2. /\ d \in Pid /\ k.kids[d] \in Seq(Pid) /\ Listed(k.kids[d], c) /\ Distinct(k.kids[d])
      /\ d # NULL
  BY <1>1, PidsAreNats, FitTypes DEF Fit, Tree
<1>3. k0 = [k EXCEPT !.kids[d] = r]
  BY <1>2 DEF RemoveChild
<1>4. /\ k0.next = k.next /\ k0.head = k.head /\ k0.live = k.live /\ k0.parent = k.parent
      /\ k0.kids = [k.kids EXCEPT ![d] = r]
  BY <1>1, <1>3 DEF Memory
<1>5. Relinks(k, k0) /\ Links(k0)
  BY <1>1, RemoveChildRelinks DEF Relinks
<1>6. ~Listed(r, c)
  BY <1>2, RemoveFirstTakes
<1>7. TerminateLeaf(k, c) = m
  BY DEF TerminateLeaf
<1> HIDE DEF k0, d, r
<1>8. \A q \in Queue : Members(k0, q) = Members(k, q)
  BY <1>4 DEF Members
<1>9. Apart(k0)
  BY <1>8, FitApart DEF Apart
<1>10. Unlisted(k0, c)
  BY <1>1, <1>2, <1>4, <1>6 DEF Unlisted, d, Memory
<1>11. Purged(k0, k4, c, Queue)
  <2>1. Purged(k0, k0, c, {})
    BY <1>5, RelinksSelf DEF Purged, Relisted
  <2>2. Purged(k0, k1, c, {ZombieQueue})
    <3>1. Purged(k0, k1, c, {} \cup {ZombieQueue})
      BY <1>1, <1>9, <1>10, <2>1, PurgeOne, Queues
    <3>2. {} \cup {ZombieQueue} = {ZombieQueue}
      OBVIOUS
    <3> HIDE DEF k1
    <3> QED BY <3>1, <3>2
  <2> HIDE DEF k1
  <2>3. Purged(k0, k2, c, {ZombieQueue, -1})
    <3>1. Purged(k0, k2, c, {ZombieQueue} \cup {-1})
      BY <1>1, <1>9, <1>10, <2>2, PurgeOne, Queues
    <3>2. {ZombieQueue} \cup {-1} = {ZombieQueue, -1}
      OBVIOUS
    <3> HIDE DEF k2
    <3> QED BY <3>1, <3>2
  <2> HIDE DEF k2
  <2>4. Purged(k0, k3, c, {ZombieQueue, -1} \cup {0})
    BY <1>1, <1>9, <1>10, <2>3, PurgeOne, Queues
  <2> HIDE DEF k3
  <2>5. Purged(k0, k4, c, {ZombieQueue, -1} \cup {0} \cup {1})
    BY <1>1, <1>9, <1>10, <2>4, PurgeOne, Queues
  <2>6. Queue = {ZombieQueue, -1} \cup {0} \cup {1}
    BY Queues
  <2> HIDE DEF k4
  <2> QED BY <2>5, <2>6
<1>12. Relinks(k, m)
  BY <1>1, <1>7, TerminateLeafRelinks
<1> HIDE DEF k4
<1>13. Relinks(k0, k4) /\ k4 \in Memory
  BY <1>11 DEF Purged, Relisted, Relinks, Links
<1>14. /\ m.next = k4.next /\ m.head = k4.head /\ m.live = k.live \ {c}
       /\ m.parent = k.parent /\ m.kids = [k.kids EXCEPT ![d] = r]
  <2>1. k4.live = k.live /\ k4.parent = k.parent /\ k4.kids = k0.kids
    BY <1>4, <1>11 DEF Purged, Relisted
  <2> QED BY <1>4, <1>13, <2>1 DEF FreePCB, Memory
<1> HIDE DEF m
<1>15. Pruned(k, m, c)
  <2>1. k.kids \in [Pid -> Seq(Pid)]
    BY <1>1 DEF Memory
  <2> QED BY <1>14, <2>1 DEF Pruned, d, r
<1>16. /\ Links(m) /\ m.status = k.status /\ m.prio = k.prio /\ m.sleep = k.sleep
       /\ m.sigflag = k.sigflag /\ m.fault = k.fault /\ m.count = k.count
  BY <1>12 DEF Relinks, SameFields
<1>17. Tree(m)
  BY <1>1, <1>15, PrunedTree, FitTypes DEF Fit, Settled
<1>18. Settled(m, out)
  BY <1>14, <1>16 DEF Fit, Settled
<1>19. Placed(m, out)
  <2>1. \A q \in Queue : Members(m, q) = Members(k, q) \ {c}
    <3>1. \A q \in Queue : Members(m, q) = Members(k4, q)
      BY <1>14 DEF Members
    <3> QED BY <1>8, <1>11, <3>1 DEF Purged
  <2>2. /\ Members(k, -1) = {Shell} \ {out} /\ Members(k, 0) = Ready(k, out)
        /\ Members(k, 1) = {} /\ Members(k, ZombieQueue) = Zombies(k)
    BY DEF Fit, Placed
  <2>3. Ready(m, out) = Ready(k, out) \ {c} /\ Zombies(m) = Zombies(k) \ {c}
    BY <1>14, <1>16 DEF Ready, Zombies
  <2>4. ASSUME NEW p \in Pid, p = out \/ p >= m.count
        PROVE  m.next[p] = NULL
    <3>1. p # c /\ \A q \in Queue : p \notin Members(k0, q)
      <4>1. c < k.count /\ c \in Nat /\ p \in Nat /\ k.count \in Nat
        BY <1>1, PidsAreNats, FitTypes DEF Fit, Settled
      <4>2. \A q \in Queue : p >= k.count => p \notin Members(k, q)
        BY <1>1, <4>1, MembersKnown, PidsAreNats
      <4>3. \A q \in Queue : p = out => p \notin Members(k, q)
        BY FitApart
      <4> QED BY <1>8, <1>16, <2>4, <4>1, <4>2, <4>3
    <3>2. m.next[p] = k.next[p]
      BY <1>4, <1>11, <1>14, <3>1 DEF Purged
    <3> QED BY <1>16, <2>4, <3>2 DEF Fit, Placed
  <2>5. /\ Members(m, -1) = Members(k, -1) \ {c} /\ Members(m, 0) = Members(k, 0) \ {c}
        /\ Members(m, 1) = Members(k, 1) \ {c}
        /\ Members(m, ZombieQueue) = Members(k, ZombieQueue) \ {c}
    BY <2>1, Queues
  <2>6. ({Shell} \ {out}) \ {c} = {Shell} \ {out}
    OBVIOUS
  <2> QED BY <2>2, <2>3, <2>4, <2>5, <2>6 DEF Placed
<1> QED BY <1>7, <1>12, <1>15, <1>16, <1>17, <1>18, <1>19 DEF Fit

\* Whose parent p is.
LEMMA OnlyChild ==
  ASSUME NEW k, Links(k), Tree(k), Shell \in k.live, NEW p \in k.live, p # Shell
  PROVE  /\ k.kids[p] = <<>> => \A x \in k.live : k.parent[x] # p
         /\ k.kids[p] # <<>> =>
              /\ Head(k.kids[p]) \in k.live /\ Head(k.kids[p]) # Shell
              /\ k.kids[Head(k.kids[p])] = <<>> /\ k.parent[Head(k.kids[p])] = p
              /\ \A x \in k.live : k.parent[x] = p => x = Head(k.kids[p])
<1> DEFINE s == k.kids[p]
           c == Head(s)
<1>1. s \in Seq(Pid) /\ p \in Pid /\ p # NULL
  BY PidsAreNats, FitTypes
<1>2. \A x \in k.live : k.parent[x] = p => Listed(s, x)
  BY <1>1 DEF Tree
<1>3. CASE s = <<>>
  BY <1>1, <1>2, <1>3, EmptyList
<1>4. CASE s # <<>>
  <2>1. Listed(s, c) /\ Len(s) <= 1 /\ Len(s) # 0
    BY <1>1, <1>4, EmptyList DEF Tree
  <2>2. c \in k.live /\ k.parent[c] = p /\ c # Shell
    BY <1>1, <2>1 DEF Tree
  <2>3. k.kids[c] = <<>>
    BY <2>2 DEF Tree
  <2>4. \A x : Listed(s, x) => x = c
    BY <1>1, <1>4, <2>1, OneListed
  <2>5. \A x \in k.live : k.parent[x] = p => x = c
    BY <1>2, <2>4
  <2> HIDE DEF s, c
  <2> QED BY <1>4, <2>2, <2>3, <2>5 DEF s, c
<1> QED BY <1>3, <1>4

\* p has terminated, its child is gone, and the shell may have been woken.
Perished(k, m, p) ==
  /\ m.live = {x \in k.live : k.parent[x] # p} /\ m.parent = k.parent
  /\ m.status[p] = "ZOMBIE" /\ m.status[Shell] \in {"READY", k.status[Shell]}
  /\ \A x \in Pid \ {p, Shell} : m.status[x] = k.status[x]
  /\ \A x \in Pid : m.kids[x] = IF x = p THEN <<>> ELSE k.kids[x]

\* The process on the CPU becomes a zombie and its child is terminated.
LEMMA DieFit ==
  ASSUME NEW k, NEW p \in k.live, Fit(k, p), p # Shell, k.natty[p] = TRUE
  PROVE  /\ Fit(Die(k, p), NULL) /\ Perished(k, Die(k, p), p)
         /\ Die(k, p).status[Shell] = k.status[Shell] /\ Die(k, p).prio = k.prio
<1> DEFINE k0 == WithStatus(k, p, "ZOMBIE")
           k1 == AddPCB(k0, ZombieQueue, p)
           k2 == TerminateFirst(k1, p)
           m  == Die(k, p)
<1>1. Links(k) /\ k \in Memory /\ p \in Pid /\ k.live \subseteq Pid /\ "ZOMBIE" \in Status
  BY FitTypes DEF Fit, Status
<1>2. /\ p < k.count /\ Shell \in k.live /\ k.status[p] = "READY"
      /\ k.next[p] = NULL /\ Tree(k) /\ Shell \in Pid
  BY <1>1, PidsAreNats DEF Fit, Settled, Placed
<1>3. /\ Links(k0) /\ k0.status = [k.status EXCEPT ![p] = "ZOMBIE"]
      /\ k0.next = k.next /\ k0.head = k.head /\ k0.live = k.live
      /\ k0.parent = k.parent /\ k0.kids = k.kids /\ k0.count = k.count
      /\ k0.prio = k.prio /\ k0.sleep = k.sleep /\ k0.sigflag = k.sigflag
      /\ k0.fault = k.fault
  <2>1. Links(k0)
    BY <1>1, StatusLinks
  <2> QED BY <1>1, <2>1 DEF WithStatus, Memory
<1>4. m = [TerminateFirst(TerminateFirst(k2, p), p) EXCEPT !.kids[p] = <<>>]
  BY DEF Die, WithStatus
<1> HIDE DEF k0, m
<1>5. \A q \in Queue : Members(k0, q) = Members(k, q)
  BY <1>3 DEF Members
<1>6. /\ Relisted(k0, k1) /\ Members(k1, ZombieQueue) = Members(k0, ZombieQueue) \cup {p}
      /\ OnlyIn(k0, k1, ZombieQueue, p)
  <2>1. Apart(k0) /\ \A q \in Queue : p \notin Members(k0, q)
    BY <1>5, FitApart DEF Apart
  <2> QED BY <1>1, <1>2, <1>3, <2>1, AddPCBFiles, Pids
<1> HIDE DEF k1
<1>7. /\ Links(k1) /\ k1.status = [k.status EXCEPT ![p] = "ZOMBIE"]
      /\ k1.live = k.live /\ k1.parent = k.parent /\ k1.kids = k.kids
      /\ k1.count = k.count /\ k1.prio = k.prio /\ k1.sleep = k.sleep
      /\ k1.sigflag = k.sigflag /\ k1.fault = k.fault
  BY <1>3, <1>6 DEF Relisted, Relinks, SameFields
<1>8. Fit(k1, NULL)
  <2>1. Tree(k1)
    BY <1>2, <1>7 DEF Tree
  <2>2. Settled(k1, NULL)
    BY <1>1, <1>2, <1>7 DEF Settled, Fit, Memory
  <2>3. /\ Members(k, -1) = {Shell} \ {p} /\ Members(k, 0) = Ready(k, p)
        /\ Members(k, 1) = {} /\ Members(k, ZombieQueue) = Zombies(k)
    BY DEF Fit, Placed
  <2>4. /\ Members(k1, -1) = Members(k, -1) /\ Members(k1, 0) = Members(k, 0)
        /\ Members(k1, 1) = Members(k, 1)
        /\ Members(k1, ZombieQueue) = Members(k, ZombieQueue) \cup {p}
    BY <1>5, <1>6, Queues DEF OnlyIn
  <2>5. k.status \in [Pid -> Status]
    BY <1>1 DEF Memory
  <2>6. Ready(k1, NULL) = Ready(k, p)
    BY <1>1, <1>7, <2>5, PidsAreNats DEF Ready
  <2>7. Zombies(k1) = Zombies(k) \cup {p}
    BY <1>1, <1>7, <2>5 DEF Zombies
  <2>8. ASSUME NEW x \in Pid, x >= k.count PROVE k1.next[x] = NULL
    <3>1. x # p /\ x \notin Members(k, ZombieQueue)
      BY <1>1, <1>2, <2>8, MembersKnown, PidsAreNats, Pids, FitTypes
    <3>2. k1.next[x] = k.next[x]
      BY <1>3, <1>5, <1>6, <3>1, Pids DEF OnlyIn
    <3> QED BY <2>8, <3>2 DEF Fit, Placed
  <2>9. Placed(k1, NULL)
    BY <1>7, <2>3, <2>4, <2>6, <2>7, <2>8, PidsAreNats DEF Placed
  <2> QED BY <1>7, <2>1, <2>2, <2>9 DEF Fit
<1>9. /\ Fit(k2, NULL) /\ k2.kids[p] = <<>> /\ k2.parent = k.parent
      /\ k2.live = {x \in k.live : k.parent[x] # p}
      /\ k2.status = k1.status /\ k2.prio = k.prio
      /\ \A x \in Pid : x # p => k2.kids[x] = k.kids[x]
  <2>1. CASE k1.kids[p] = <<>>
    <3>1. k2 = k1
      BY <2>1 DEF TerminateFirst
    <3>2. \A x \in k.live : k.parent[x] # p
      BY <1>1, <1>2, <1>7, <2>1, OnlyChild
    <3> HIDE DEF k2
    <3> QED BY <1>7, <1>8, <2>1, <3>1, <3>2
  <2>2. CASE k1.kids[p] # <<>>
    <3> DEFINE c == Head(k1.kids[p])
    <3>1. /\ c \in k1.live /\ c # Shell /\ k1.kids[c] = <<>> /\ k1.parent[c] = p
          /\ \A x \in k1.live : k1.parent[x] = p => x = c
      <4>1. Tree(k1) /\ p \in k1.live /\ Shell \in k1.live
        BY <1>2, <1>7, <1>8 DEF Fit
      <4> QED BY <1>7, <2>2, <4>1, OnlyChild
    <3>2. k2 = TerminateLeaf(k1, c)
      BY <2>2, <3>1 DEF TerminateFirst, KProcessTerminate
    <3>3. c # NULL /\ c \in Pid
      BY <1>1, <1>7, <3>1, PidsAreNats
    <3> HIDE DEF c, k2
    <3>4. Fit(k2, NULL) /\ Pruned(k1, k2, c) /\ Relinks(k1, k2)
      BY <1>8, <3>1, <3>2, <3>3, TerminateLeafFit
    <3>5. Len(k1.kids[p]) <= 1
      BY <1>2, <1>7 DEF Tree
    <3>6. k2.kids[p] = <<>>
      <4>1. Tree(k1) /\ Shell \in k1.live /\ k1.live \subseteq Pid
            /\ \A x \in Pid : k1.kids[x] \in Seq(Pid)
        BY <1>1, <1>2, <1>7, <1>8, FitTypes DEF Fit
      <4> QED BY <1>1, <3>1, <3>4, <3>5, <4>1, PrunedTree
    <3>7. k2.live = {x \in k.live : k.parent[x] # p}
      BY <1>7, <3>1, <3>4 DEF Pruned
    <3>8. \A x \in Pid : x # p => k2.kids[x] = k.kids[x]
      BY <1>7, <3>1, <3>4 DEF Pruned
    <3> QED BY <1>7, <3>4, <3>6, <3>7, <3>8 DEF Pruned, Relinks, SameFields
  <2> QED BY <2>1, <2>2
<1> HIDE DEF k2
<1>10. m = k2
  <2>1. TerminateFirst(k2, p) = k2
    BY <1>9 DEF TerminateFirst
  <2>2. m = [k2 EXCEPT !.kids[p] = <<>>]
    BY <1>4, <2>1
  <2>3. k2 \in Memory
    BY <1>9 DEF Fit, Links
  <2>4. [k2 EXCEPT !.kids[p] = k2.kids[p]] = k2
    BY <2>3 DEF Memory
  <2> QED BY <1>9, <2>2, <2>4
<1>11. k2.status = [k.status EXCEPT ![p] = "ZOMBIE"] /\ k.status \in [Pid -> Status]
  BY <1>1, <1>7, <1>9 DEF Memory
<1>12. Perished(k, m, p)
  BY <1>1, <1>2, <1>9, <1>10, <1>11 DEF Perished
<1> QED BY <1>1, <1>2, <1>9, <1>10, <1>11, <1>12 DEF m

\* The shell is alone in its queue, so requeueing it changes nothing.
LEMMA RequeueShell ==
  ASSUME NEW k, Links(k), Members(k, -1) = {Shell}, k.parent[Shell] = NULL
  PROVE  k.head[-1] = Shell /\ Requeue(k, -1, Shell) = k
<1>1. /\ k \in Memory /\ k.next \in [Pid -> Ptr] /\ Ends(k.next)
      /\ k.head \in [Queue -> Ptr] /\ -1 \in Queue /\ Shell \in Pid
  BY Queues, Pids DEF Links, Memory
<1>2. k.head[-1] = Shell
  BY <1>1, HeadIn
<1>3. k.next[Shell] = NULL
  <2>1. k.next[Shell] # Shell
    <3>1. {Shell} \in SUBSET Pid /\ {Shell} # {}
      BY <1>1
    <3>2. \E p \in {Shell} : k.next[p] \notin {Shell}
      BY <1>1, <3>1 DEF Ends
    <3> QED BY <3>2
  <2>2. k.next[Shell] # NULL => k.next[Shell] \in Members(k, -1)
    BY <1>1, VisitedCloses DEF Members
  <2> QED BY <2>1, <2>2
<1> DEFINE k1 == [k EXCEPT !.head[-1] = NULL, !.next[Shell] = NULL]
<1>4. RemovePCB(k, -1, Shell) = k1
  <2>1. RemoveChild(k, Shell) = k
    BY DEF RemoveChild
  <2> QED BY <1>2, <1>3, <2>1 DEF RemovePCB, Unlink
<1>5. k1.head = [k.head EXCEPT ![-1] = NULL] /\ k1.parent = k.parent /\ k1.head[-1] = NULL
  BY <1>1 DEF Memory
<1>6. AddToHead(k1, -1, Shell) = [k1 EXCEPT !.head[-1] = Shell]
  BY <1>5 DEF AddToHead, RejoinParent
<1>7. [k1 EXCEPT !.head[-1] = Shell] = k
  <2>1. [k.head EXCEPT ![-1] = Shell] = k.head /\ [k.next EXCEPT ![Shell] = NULL] = k.next
    BY <1>1, <1>2, <1>3
  <2>2. [[k.head EXCEPT ![-1] = NULL] EXCEPT ![-1] = Shell] = [k.head EXCEPT ![-1] = Shell]
    BY <1>1
  <2>3. [k1 EXCEPT !.head[-1] = Shell]
          = [k EXCEPT !.head = [[k.head EXCEPT ![-1] = NULL] EXCEPT ![-1] = Shell],
                      !.next = [k.next EXCEPT ![Shell] = NULL]]
    BY <1>1 DEF Memory
  <2>4. [k EXCEPT !.head = k.head, !.next = k.next] = k
    BY <1>1 DEF Memory
  <2> QED BY <2>1, <2>2, <2>3, <2>4
<1> QED BY <1>2, <1>4, <1>6, <1>7 DEF Requeue

\* The shell is woken.
LEMMA WakeFit ==
  ASSUME NEW k, Fit(k, NULL), NEW blocked, NEW d \in Ptr,
         blocked => d = Shell
  PROVE  /\ Fit(WakeParent(k, blocked, d, Shell), NULL)
         /\ WakeParent(k, blocked, d, Shell)
              = IF blocked THEN WithStatus(k, Shell, "READY") ELSE k
<1> DEFINE k1 == WithStatus(k, Shell, "READY")
<1>1. CASE ~blocked
  BY <1>1 DEF WakeParent
<1>2. CASE blocked
  <2>1. Links(k1) /\ k \in Memory
    BY Pids, StatusLinks DEF Fit, Links, Status
  <2>2. /\ k1.status = [k.status EXCEPT ![Shell] = "READY"]
        /\ k1.next = k.next /\ k1.head = k.head /\ k1.live = k.live
        /\ k1.parent = k.parent /\ k1.kids = k.kids /\ k1.count = k.count
        /\ k1.prio = k.prio /\ k1.sleep = k.sleep /\ k1.sigflag = k.sigflag
        /\ k1.fault = k.fault
    BY <2>1 DEF WithStatus, Memory
  <2>3. WakeParent(k, blocked, d, Shell) =
          IF \E q \in RunQueue : Shell = k.head[q]
          THEN Requeue(k1, QueueWithHead(k, Shell), Shell) ELSE k1
    BY <1>2 DEF WakeParent, Unblock, WithStatus
  <2> HIDE DEF k1
  <2>4. Members(k1, -1) = {Shell} /\ k1.parent[Shell] = NULL
    BY <2>2, PidsAreNats DEF Fit, Placed, Tree, Members
  <2>5. k1.head[-1] = Shell /\ Requeue(k1, -1, Shell) = k1
    BY <2>1, <2>4, RequeueShell
  <2>6. QueueWithHead(k, Shell) = -1
    BY <2>2, <2>5 DEF QueueWithHead
  <2>7. WakeParent(k, blocked, d, Shell) = k1
    BY <2>2, <2>3, <2>5, <2>6, Queues
  <2>8. k.status \in [Pid -> Status] /\ k.live \subseteq Pid /\ Shell \in Pid
    BY <2>1, Pids DEF Memory
  <2>9. Ready(k1, NULL) = Ready(k, NULL) /\ Zombies(k1) = Zombies(k)
    BY <2>2, <2>8 DEF Ready, Zombies
  <2>10. \A q \in Queue : Members(k1, q) = Members(k, q)
    BY <2>2 DEF Members
  <2>11. Placed(k1, NULL)
    BY <2>2, <2>9, <2>10, Queues DEF Fit, Placed
  <2>12. Settled(k1, NULL)
    BY <2>2, <2>8 DEF Fit, Settled
  <2>13. Tree(k1)
    BY <2>2 DEF Fit, Tree
  <2> QED BY <1>2, <2>1, <2>7, <2>11, <2>12, <2>13 DEF Fit, k1
<1> QED BY <1>1, <1>2

\* k_process_kill of the process on the CPU, which is to become a zombie.
LEMMA KillFit ==
  ASSUME NEW k, NEW p \in k.live, Fit(k, p), p # Shell, k.natty[p] = TRUE
  PROVE  /\ Fit(KProcessKill(k, p, S_SIGTERM), NULL)
         /\ Perished(k, KProcessKill(k, p, S_SIGTERM), p)
<1> DEFINE daddy     == k.parent[p]
           entryHead == IF daddy = NULL THEN NULL ELSE k.head[k.prio[daddy]]
           blocked   == daddy # NULL /\ k.status[daddy] = "BLOCKED"
           k1 == Die(k, p)
           k2 == [k1 EXCEPT !.changed[p] = TRUE]
           k3 == WakeParent(k2, blocked, daddy, entryHead)
<1>1. Links(k) /\ p \in Pid /\ k.live \subseteq Pid /\ k.status[p] = "READY"
      /\ daddy \in k.live /\ daddy \in Pid /\ daddy # NULL /\ Listed(k.kids[daddy], p)
      /\ daddy # p
  <2>1. Links(k) /\ p \in Pid /\ k.live \subseteq Pid /\ k.status[p] = "READY"
    BY FitTypes, PidsAreNats DEF Fit, Settled
  <2>2. daddy \in k.live /\ daddy \in Pid /\ daddy # NULL /\ Listed(k.kids[daddy], p)
    BY <2>1, PidsAreNats DEF Fit, Tree
  <2>3. k.parent[p] # p
    <3>1. k.parent[p] = p => k.kids[p] = <<>>
      BY DEF Fit, Tree
    <3> QED BY <2>2, <3>1, <2>1, EmptyList, FitTypes
  <2> QED BY <2>1, <2>2, <2>3
<1>2. KProcessKill(k, p, S_SIGTERM) = RejoinParent(k3, p)
  BY <1>1 DEF KProcessKill, Takes, S_SIGTERM, S_SIGCONT, S_SIGSTOP
<1>3. blocked => daddy = Shell /\ entryHead = Shell
  <2>1. blocked => daddy = Shell
    BY <1>1 DEF Fit, Settled
  <2>2. Members(k, -1) = {Shell} /\ k.parent[Shell] = NULL /\ k.prio[Shell] = -1
    BY DEF Fit, Placed, Tree, Settled
  <2>3. k.head[-1] = Shell
    BY <1>1, <2>2, RequeueShell
  <2> QED BY <1>1, <2>1, <2>2, <2>3
<1>4. /\ Fit(k1, NULL) /\ Perished(k, k1, p) /\ k1.status[Shell] = k.status[Shell]
  BY DieFit
<1> HIDE DEF k1
<1>5. k1 \in Memory
  BY <1>4 DEF Fit, Links
<1>6. k2 \in Memory
  BY <1>5 DEF Memory
<1>7. /\ k2.next = k1.next /\ k2.head = k1.head /\ k2.live = k1.live
      /\ k2.status = k1.status /\ k2.prio = k1.prio /\ k2.sleep = k1.sleep
      /\ k2.sigflag = k1.sigflag /\ k2.fault = k1.fault /\ k2.count = k1.count
      /\ k2.parent = k1.parent /\ k2.kids = k1.kids
      /\ k2.cur = k1.cur /\ k2.prevfg = k1.prevfg /\ k2.prevcur = k1.prevcur
  BY <1>5 DEF Memory
<1> HIDE DEF k2
<1>8. Links(k2)
  <2>1. k1.cur < k1.count /\ k1.prevfg < k1.count /\ k1.prevcur < k1.count
    BY <1>4, KnownPointers DEF Fit
  <2> QED BY <1>4, <1>6, <1>7, <2>1, SoundOf DEF Fit
<1>9. Fit(k2, NULL)
  BY <1>4, <1>7, <1>8, FitOf
<1>10. Fit(k3, NULL) /\ k3 = IF blocked THEN WithStatus(k2, Shell, "READY") ELSE k2
  <2>1. CASE blocked
    <3>1. k3 = WakeParent(k2, blocked, daddy, Shell)
      BY <1>3, <2>1
    <3> HIDE DEF k3, blocked, daddy
    <3> QED BY <1>1, <1>3, <1>9, <3>1, WakeFit, Pids
  <2>2. CASE ~blocked
    <3> HIDE DEF blocked, daddy, entryHead, k2
    <3>1. k3 = k2
      BY ONLY <2>2 DEF WakeParent
    <3> HIDE DEF k3
    <3> QED BY ONLY <1>9, <2>2, <3>1
  <2> QED BY <2>1, <2>2
<1>11. /\ k3.live = k1.live /\ k3.parent = k.parent /\ k3.kids = k1.kids
       /\ k3.status[Shell] \in {"READY", k.status[Shell]}
       /\ \A x \in Pid \ {Shell} : k3.status[x] = k1.status[x]
  <2> HIDE DEF blocked, daddy
  <2>1. k2.status \in [Pid -> Status] /\ Shell \in Pid
    BY <1>6, Pids DEF Memory
  <2>2. CASE blocked
    <3>1. /\ k3.status = [k2.status EXCEPT ![Shell] = "READY"]
          /\ k3.live = k2.live /\ k3.parent = k2.parent /\ k3.kids = k2.kids
      <4>1. k3 = WithStatus(k2, Shell, "READY")
        BY <1>10, <2>2
      <4> HIDE DEF k3
      <4> QED BY ONLY <1>6, <4>1 DEF WithStatus, Memory
    <3> HIDE DEF k3
    <3>2. k3.status[Shell] = "READY"
      BY ONLY <2>1, <3>1
    <3>3. \A x \in Pid \ {Shell} : k3.status[x] = k1.status[x]
      BY ONLY <2>1, <3>1, <1>7
    <3>4. k1.parent = k.parent
      BY <1>4 DEF Perished
    <3> QED BY ONLY <1>7, <3>1, <3>2, <3>3, <3>4
  <2>3. CASE ~blocked
    <3>1. k3 = k2
      BY <1>10, <2>3
    <3> HIDE DEF k3
    <3>2. k1.parent = k.parent /\ k1.status[Shell] = k.status[Shell]
      BY <1>4 DEF Perished
    <3> QED BY ONLY <1>7, <3>1, <3>2
  <2> QED BY <2>2, <2>3
<1> HIDE DEF k3
<1>12. RejoinParent(k3, p) = k3
  <2>1. k3.parent[p] = daddy /\ Listed(k3.kids[daddy], p)
    BY <1>1, <1>4, <1>11 DEF Perished
  <2> HIDE DEF daddy
  <2> QED BY <2>1 DEF RejoinParent, AddChild, Listed
<1>13. Perished(k, k3, p)
  BY <1>1, <1>4, <1>11 DEF Perished
<1> QED BY <1>2, <1>10, <1>12, <1>13

\* Who has terminated still has no children.
LEMMA PerishedBarren ==
  ASSUME NEW k, k.live \subseteq Pid, Tree(k), Barren(k), k.status[Shell] # "ZOMBIE",
         NEW m, NEW p \in Pid, p # Shell, Perished(k, m, p)
  PROVE  Barren(m)
<1> SUFFICES ASSUME NEW x \in Pid, x \notin m.live \/ m.status[x] = "ZOMBIE", x # p
             PROVE  k.kids[x] = <<>>
  BY DEF Barren, Perished
<1>1. CASE x \in k.live /\ k.parent[x] = p
  BY <1>1, PidsAreNats DEF Tree
<1>2. CASE ~(x \in k.live /\ k.parent[x] = p)
  <2>1. CASE x \notin m.live
    BY <1>2, <2>1 DEF Perished, Barren
  <2>2. CASE m.status[x] = "ZOMBIE"
    <3>1. x # Shell
      BY <2>2 DEF Perished
    <3> QED BY <2>2, <3>1 DEF Perished, Barren
  <2> QED BY <2>1, <2>2
<1> QED BY <1>1, <1>2

\* So it is when a zombie is freed.
LEMMA PrunedBarren ==
  ASSUME NEW k, k.live \subseteq Pid, Tree(k), Barren(k), NEW c \in k.live, c # Shell,
         k.kids[c] = <<>>, \A x \in Pid : k.kids[x] \in Seq(Pid),
         NEW m, Pruned(k, m, c), m.status = k.status
  PROVE  Barren(m)
<1> SUFFICES ASSUME NEW x \in Pid, x \notin m.live \/ m.status[x] = "ZOMBIE"
             PROVE  m.kids[x] = <<>>
  BY DEF Barren
<1>1. k.kids[x] = <<>>
  BY DEF Pruned, Barren
<1>2. x # k.parent[c]
  <2>1. Listed(k.kids[k.parent[c]], c)
    BY DEF Tree
  <2> QED BY <1>1, <2>1, EmptyList
<1> QED BY <1>1, <1>2 DEF Pruned
-----------------------------------------------------------------------------
(***************************************************************************)
(* Entering and leaving the scheduler.                                     *)
(***************************************************************************)
\* m is k, but for fields that say nothing of lists and life.
Likewise(k, m) ==
  /\ m.next = k.next /\ m.head = k.head /\ m.live = k.live /\ m.status = k.status
  /\ m.prio = k.prio /\ m.sleep = k.sleep /\ m.sigflag = k.sigflag
  /\ m.fault = k.fault /\ m.count = k.count /\ m.parent = k.parent /\ m.kids = k.kids

LEMMA LikewiseFit ==
  ASSUME NEW k, NEW m, Likewise(k, m)
  PROVE  /\ Heirs(k, m) /\ (Barren(k) => Barren(m))
         /\ \A out : Fit(k, out) /\ Links(m) => Fit(m, out)
<1>1. Heirs(k, m) /\ (Barren(k) => Barren(m))
  BY SameKidsSelf DEF Likewise, Heirs, Barren
<1>2. ASSUME NEW out, Fit(k, out), Links(m) PROVE Fit(m, out)
  BY <1>2, FitOf DEF Likewise
<1> QED BY <1>1, <1>2

\* The scheduler has switched queues and chosen.
LEMMA TimeoutFit ==
  ASSUME NEW k, Entering(k, FALSE), Sound(k), Fit(k, NULL), k.how = "TIMEOUT"
  PROVE  Fit(Scheduler(k), Scheduler(k).cur) /\ Heirs(k, Scheduler(k))
<1> DEFINE m == SwitchQueue(k)
<1>1. Scheduler(k) = Chooses(m)
  BY DEF Scheduler, Chooses
<1>2. Sound(m)
  BY SwitchQueueSound
<1>3. Likewise(k, m)
  BY DEF SwitchQueue, Likewise, Fit, Links, Memory
<1> HIDE DEF m
<1>4. Fit(m, NULL) /\ Heirs(k, m)
  BY <1>2, <1>3, LikewiseFit DEF Sound
<1>5. Fit(Chooses(m), Chooses(m).cur) /\ Heirs(m, Chooses(m))
  BY <1>2, <1>4, ChoosesFit
<1> QED BY <1>1, <1>3, <1>5 DEF Heirs, Likewise

\* The shell has blocked: it is not taken to have returned.
LEMMA BlockedFit ==
  ASSUME NEW k, Sound(k), Fit(k, NULL), k.how # "TIMEOUT", k.cur = Shell
  PROVE  Fit(Scheduler(k), Scheduler(k).cur) /\ Heirs(k, Scheduler(k))
<1>1. FinishCurrent(k) = k
  BY DEF FinishCurrent, Fit, Tree
<1>2. Scheduler(k) = Chooses(k)
  BY <1>1 DEF Scheduler, Chooses
<1> QED BY <1>2, ChoosesFit

\* A program has returned.
LEMMA ReturnFit ==
  ASSUME NEW k, Sound(k), NEW p \in k.live, p # Shell, Fit(k, p), k.cur = p,
         k.how # "TIMEOUT"
  PROVE  /\ Fit(Scheduler(k), Scheduler(k).cur)
         /\ \E l : Perished(k, l, p) /\ Heirs(l, Scheduler(k))
<1> DEFINE n == [k EXCEPT !.natty[p] = TRUE]
           l == KProcessKill(n, p, S_SIGTERM)
<1>1. /\ p \in Pid /\ k.parent[p] # NULL /\ k.status[p] = "READY"
      /\ k.sigflag[p] = FALSE /\ p < k.count /\ k \in Memory
  <2>1. p \in Pid /\ k \in Memory /\ k.live \subseteq Pid
    BY FitTypes DEF Fit
  <2>2. k.parent[p] \in k.live
    BY DEF Fit, Tree
  <2> QED BY <2>1, <2>2, PidsAreNats DEF Fit, Settled
<1>2. FinishCurrent(k) = l
  BY <1>1, PidsAreNats DEF FinishCurrent
<1>3. Sound(n)
  BY <1>1, FlagsSound
<1>4. Likewise(k, n) /\ n.natty[p] = TRUE
  BY <1>1 DEF Likewise, Memory
<1> HIDE DEF n
<1>5. Sound(l)
  BY <1>1, <1>3, <1>4, KProcessKillSound DEF Likewise
<1>6. Fit(n, p) /\ p \in n.live
  BY <1>3, <1>4, LikewiseFit DEF Sound, Likewise
<1>7. Fit(l, NULL) /\ Perished(n, l, p)
  BY <1>4, <1>6, KillFit
<1>8. Scheduler(k) = Chooses(l)
  BY <1>2 DEF Scheduler, Chooses
<1> HIDE DEF l
<1>9. Perished(k, l, p)
  BY <1>4, <1>7 DEF Perished, Likewise
<1> QED BY <1>5, <1>7, <1>8, <1>9, ChoosesFit

\* A block that is out of the queues goes back into that of its priority.
LEMMA RequeuedFit ==
  ASSUME NEW k, NEW p \in k.live, Fit(k, p)
  PROVE  Fit(AddPCB(k, k.prio[p], p), NULL) /\ Heirs(k, AddPCB(k, k.prio[p], p))
<1> DEFINE q == k.prio[p]
           m == AddPCB(k, q, p)
<1>1. /\ Links(k) /\ k.live \subseteq Pid /\ p \in Pid /\ p < k.count /\ k.next[p] = NULL
      /\ (p = Shell \/ k.status[p] = "READY")
  BY FitTypes, PidsAreNats DEF Fit, Settled, Placed
<1>2. q = IF p = Shell THEN -1 ELSE 0
  BY DEF Fit, Settled
<1>3. q \in Queue
  BY <1>2, Queues
<1> HIDE DEF q, m
<1>4. Relisted(k, m) /\ Members(m, q) = Members(k, q) \cup {p} /\ OnlyIn(k, m, q, p)
  BY <1>1, <1>3, FitApart, AddPCBFiles DEF m
<1>5. Likewise(k, [m EXCEPT !.next = k.next, !.head = k.head]) /\ Links(m)
  BY <1>4 DEF Relisted, Relinks, SameFields, Likewise, Links, Memory
<1>6. /\ m.live = k.live /\ m.status = k.status /\ m.prio = k.prio /\ m.sleep = k.sleep
      /\ m.sigflag = k.sigflag /\ m.fault = k.fault /\ m.count = k.count
      /\ m.parent = k.parent /\ m.kids = k.kids
  BY <1>4 DEF Relisted, Relinks, SameFields
<1>7. Tree(m) /\ Settled(m, NULL) /\ Heirs(k, m)
  BY <1>6, SameKidsSelf DEF Fit, Tree, Settled, Heirs
<1>8. Placed(m, NULL)
  <2>1. /\ Members(k, -1) = {Shell} \ {p} /\ Members(k, 0) = Ready(k, p)
        /\ Members(k, 1) = {} /\ Members(k, ZombieQueue) = Zombies(k)
    BY DEF Fit, Placed
  <2>2. \A r \in Queue : Members(m, r) = IF r = q THEN Members(k, r) \cup {p} ELSE Members(k, r)
    BY <1>4 DEF OnlyIn
  <2>3. Zombies(m) = Zombies(k)
    BY <1>6 DEF Zombies
  <2>4. Ready(m, NULL) = IF p = Shell THEN Ready(k, p) ELSE Ready(k, p) \cup {p}
    BY <1>1, <1>6, PidsAreNats DEF Ready
  <2>5. ASSUME NEW x \in Pid, x >= k.count PROVE m.next[x] = NULL
    <3>1. x # p /\ x \notin Members(k, q)
      BY <1>1, <1>3, <2>5, MembersKnown, PidsAreNats, FitTypes
    <3>2. m.next[x] = k.next[x]
      BY <1>4, <3>1 DEF OnlyIn
    <3> QED BY <2>5, <3>2 DEF Fit, Placed
  <2>6. {Shell} \ {NULL} = {Shell}
    BY PidsAreNats
  <2>7. CASE p = Shell
    <3>1. /\ Members(m, -1) = Members(k, -1) \cup {p} /\ Members(m, 0) = Members(k, 0)
          /\ Members(m, 1) = Members(k, 1) /\ Members(m, ZombieQueue) = Members(k, ZombieQueue)
      BY <1>2, <2>2, <2>7, Queues
    <3> QED BY <1>6, <2>1, <2>3, <2>4, <2>5, <2>6, <2>7, <3>1, PidsAreNats DEF Placed
  <2>8. CASE p # Shell
    <3>1. /\ Members(m, -1) = Members(k, -1) /\ Members(m, 0) = Members(k, 0) \cup {p}
          /\ Members(m, 1) = Members(k, 1) /\ Members(m, ZombieQueue) = Members(k, ZombieQueue)
      BY <1>2, <2>2, <2>8, Queues
    <3> QED BY <1>6, <2>1, <2>3, <2>4, <2>5, <2>6, <2>8, <3>1, PidsAreNats DEF Placed
  <2> QED BY <2>7, <2>8
<1> QED BY <1>5, <1>7, <1>8 DEF Fit, m, q

\* timer_interrupt: whoever runs is back in its queue.
LEMMA TimerFit ==
  ASSUME NEW k, Sound(k), Resting(k, FALSE), Fit(k, k.cur)
  PROVE  /\ Fit(TimerInterrupt(k), NULL) /\ Heirs(k, TimerInterrupt(k))
         /\ TimerInterrupt(k).how = "TIMEOUT"
<1> DEFINE k1 == [k EXCEPT !.how = "TIMEOUT", !.tmod = @ + 1]
           p  == k.cur
           k2 == AddPCB(k1, k.prio[p], p)
<1>1. k1 \in Memory
  <2>1. k.tmod + 1 \in 0..Cycle
    BY SliceAssumption DEF Resting, Good, Memory
  <2> QED BY <2>1 DEF Resting, Good, Memory
<1>2. Likewise(k, k1) /\ k1.cur = p /\ k1.how = "TIMEOUT"
      /\ k1.prevfg = k.prevfg /\ k1.prevcur = k.prevcur
  BY DEF Likewise, Fit, Links, Memory
<1>3. TimerInterrupt(k) = IF p = NULL THEN k1 ELSE k2
  BY DEF TimerInterrupt
<1> HIDE DEF k1
<1>4. Links(k1)
  <2>1. k.cur < k.count /\ k.prevfg < k.count /\ k.prevcur < k.count
    BY KnownPointers DEF Fit
  <2> QED BY <1>1, <1>2, <2>1, SoundOf DEF Fit, Likewise
<1>5. Fit(k1, p) /\ Heirs(k, k1)
  BY <1>2, <1>4, LikewiseFit
<1>6. CASE p = NULL
  BY <1>2, <1>3, <1>5, <1>6
<1>7. CASE p # NULL
  <2>1. p \in k1.live /\ k1.prio[p] = k.prio[p] /\ k.prio[p] \in Queue /\ p \in Pid
    BY <1>2, <1>5, <1>7, FitTypes, PidsAreNats, Pids DEF Fit, Settled, Likewise, Memory
  <2>2. Fit(k2, NULL) /\ Heirs(k1, k2)
    BY <1>5, <2>1, RequeuedFit
  <2>3. k2.how = "TIMEOUT"
    <3>1. Relinks(k1, k2)
      BY <1>2, <1>4, <2>1, KnownPointers, AddPCBRelinks DEF Fit
    <3> QED BY <1>2, <3>1 DEF Relinks, SameFields
  <2> HIDE DEF k2
  <2> QED BY <1>3, <1>5, <1>7, <2>2, <2>3 DEF Heirs, SameKids
<1> QED BY <1>6, <1>7

\* k_process_swap_to_scheduler, called by the shell.
LEMMA SwapFit ==
  ASSUME NEW k, Sound(k), Fit(k, Shell), k.cur = Shell, NEW c \in Context
  PROVE  /\ Fit(KProcessSwapToScheduler(k, c), NULL)
         /\ Heirs(WithStatus(k, Shell, "BLOCKED"), KProcessSwapToScheduler(k, c))
         /\ KProcessSwapToScheduler(k, c).how = k.how
<1> DEFINE p  == k.cur
           k0 == WithStatus(k, Shell, "BLOCKED")
           k1 == [k0 EXCEPT !.ctx[Shell] = c]
           k2 == AddPCB(k1, k.prio[Shell], Shell)
<1>1. KProcessSwapToScheduler(k, c) = k2
  BY PidsAreNats DEF KProcessSwapToScheduler, WithStatus
<1>2. Links(k0) /\ k \in Memory /\ Shell \in Pid
  BY PidsAreNats, StatusLinks DEF Fit, Links, Status
<1>3. /\ k0.status = [k.status EXCEPT ![Shell] = "BLOCKED"]
      /\ k0.next = k.next /\ k0.head = k.head /\ k0.live = k.live
      /\ k0.parent = k.parent /\ k0.kids = k.kids /\ k0.count = k.count
      /\ k0.prio = k.prio /\ k0.sleep = k.sleep /\ k0.sigflag = k.sigflag
      /\ k0.fault = k.fault /\ k0.cur = k.cur /\ k0.prevfg = k.prevfg
      /\ k0.prevcur = k.prevcur /\ k0.how = k.how /\ k0 \in Memory
  BY <1>2 DEF WithStatus, Memory, Links
<1> HIDE DEF k0
<1>4. /\ k1 \in Memory /\ Likewise(k0, k1) /\ k1.cur = k.cur /\ k1.prevfg = k.prevfg
      /\ k1.prevcur = k.prevcur /\ k1.how = k.how
  BY <1>3 DEF Memory, Likewise
<1> HIDE DEF k1
<1>5. Links(k1)
  <2>1. k0.cur < k0.count /\ k0.prevfg < k0.count /\ k0.prevcur < k0.count
    BY <1>2, KnownPointers
  <2> QED BY <1>2, <1>3, <1>4, <2>1, SoundOf DEF Likewise
<1>6. Fit(k0, Shell)
  <2>1. k.status \in [Pid -> Status] /\ k.live \subseteq Pid
    BY <1>2 DEF Memory
  <2>2. Ready(k0, Shell) = Ready(k, Shell) /\ Zombies(k0) = Zombies(k)
    BY <1>3, <2>1 DEF Ready, Zombies
  <2>3. \A q \in Queue : Members(k0, q) = Members(k, q)
    BY <1>3 DEF Members
  <2>4. Placed(k0, Shell)
    BY <1>3, <2>2, <2>3, Queues DEF Fit, Placed
  <2>5. Settled(k0, Shell)
    BY <1>2, <1>3, <2>1 DEF Fit, Settled
  <2>6. Tree(k0)
    BY <1>3 DEF Fit, Tree
  <2> QED BY <1>2, <2>4, <2>5, <2>6 DEF Fit
<1>7. Fit(k1, Shell) /\ Heirs(k0, k1)
  BY <1>4, <1>5, <1>6, LikewiseFit
<1>8. Shell \in k1.live /\ k1.prio[Shell] = k.prio[Shell] /\ k1.prio[Shell] \in Queue
  BY <1>3, <1>4, <1>7, Queues DEF Fit, Settled, Likewise
<1>9. Fit(k2, NULL) /\ Heirs(k1, k2)
  BY <1>7, <1>8, RequeuedFit
<1>10. k2.how = k.how
  <2>1. Relinks(k1, k2)
    BY <1>2, <1>5, <1>7, <1>8, AddPCBRelinks DEF Fit, Settled
  <2> QED BY <1>4, <2>1 DEF Relinks, SameFields
<1> HIDE DEF k2
<1>11. Heirs(k0, k2)
  BY <1>7, <1>9 DEF Heirs, SameKids
<1> QED BY <1>1, <1>9, <1>10, <1>11 DEF k0

\* The globals that add_PCB does not look at may be set before it or after it.
Counted(k, a, b) == [k EXCEPT !.prevcur = a, !.count = b]

LEMMA AddPCBCommutes ==
  ASSUME NEW k \in Memory, NEW q, NEW p, NEW a, NEW b
  PROVE  Counted(AddPCB(k, q, p), a, b) = AddPCB(Counted(k, a, b), q, p)
<1> DEFINE n  == [k EXCEPT !.prevcur = a, !.count = b]
           f  == [c \in Pid |-> IF c = p THEN NULL
                                ELSE IF c \in Members(k, q) /\ k.next[c] = NULL THEN p
                                ELSE k.next[c]]
           h  == [k.head EXCEPT ![q] = p]
<1>1. n.next = k.next /\ n.head = k.head
  BY DEF Memory
<1>2. Members(n, q) = Members(k, q)
  BY <1>1 DEF Members
<1>3. [k EXCEPT !.head[q] = p] = [k EXCEPT !.head = h]
      /\ [n EXCEPT !.head[q] = p] = [n EXCEPT !.head = h]
  BY <1>1 DEF Memory
<1>4. /\ [[k EXCEPT !.head = h] EXCEPT !.prevcur = a, !.count = b] = [n EXCEPT !.head = h]
      /\ [[k EXCEPT !.next = f] EXCEPT !.prevcur = a, !.count = b] = [n EXCEPT !.next = f]
  BY DEF Memory
<1>5. AddPCB(k, q, p) =
        IF k.head[q] = NULL THEN [k EXCEPT !.head = h]
        ELSE IF k.head[q] = p \/ (p \in Members(k, q) /\ k.next[p] # NULL) THEN k
        ELSE [k EXCEPT !.next = f]
  BY <1>3 DEF AddPCB
<1>6. AddPCB(n, q, p) =
        IF k.head[q] = NULL THEN [n EXCEPT !.head = h]
        ELSE IF k.head[q] = p \/ (p \in Members(k, q) /\ k.next[p] # NULL) THEN n
        ELSE [n EXCEPT !.next = f]
  BY <1>1, <1>2, <1>3 DEF AddPCB
<1> HIDE DEF f, h
<1> QED BY <1>4, <1>5, <1>6 DEF Counted

\* m is k with one more process, a child of d.
Born(k, m, d) ==
  /\ m.live = k.live \cup {k.count} /\ m.parent = [k.parent EXCEPT ![k.count] = d]
  /\ m.status = [k.status EXCEPT ![k.count] = "READY"]
  /\ \A x \in Pid : m.kids[x] = IF x = k.count THEN <<>>
                                ELSE IF x = d THEN Append(k.kids[x], k.count)
                                ELSE k.kids[x]

LEMMA BornTree ==
  ASSUME NEW k, k.live \subseteq Pid, Tree(k), Shell \in k.live,
         \A x \in Pid : k.kids[x] \in Seq(Pid), k.parent \in [Pid -> Ptr],
         k.count \in Pid \ k.live, NEW d \in k.live,
         d # Shell => k.parent[d] = Shell /\ k.kids[d] = <<>>,
         NEW m, Born(k, m, d)
  PROVE  Tree(m)
<1> DEFINE p == k.count
           t == Append(k.kids[d], p)
<1>1. p \in Pid /\ d \in Pid /\ p # d /\ p # Shell /\ ~Listed(k.kids[d], p)
      /\ Distinct(k.kids[d]) /\ p \notin k.live
  BY DEF Tree
<1>2. /\ Len(t) = Len(k.kids[d]) + 1 /\ Distinct(t)
      /\ \A x : Listed(t, x) <=> Listed(k.kids[d], x) \/ x = p
  BY <1>1, AppendLists
<1>3. /\ m.live = k.live \cup {p} /\ m.parent[p] = d
      /\ \A x \in Pid \ {p} : m.parent[x] = k.parent[x]
  BY <1>1 DEF Born
<1>4. /\ m.kids[p] = <<>> /\ m.kids[d] = t
      /\ \A x \in Pid \ {p, d} : m.kids[x] = k.kids[x]
  BY <1>1 DEF Born
<1> HIDE DEF p, t
<1>5. \A x : ~Listed(<<>>, x)
  BY DEF Listed
<1>6. d # Shell => Len(t) <= 1
  <2>1. Len(<<>>) = 0
    BY EmptyList
  <2> QED BY <1>2, <2>1
<1>7. ASSUME NEW x \in m.live \ {Shell}
      PROVE  /\ m.parent[x] \in m.live /\ Listed(m.kids[m.parent[x]], x)
             /\ Len(m.kids[x]) <= 1
             /\ m.parent[x] # Shell => m.kids[x] = <<>>
  <2>1. CASE x = p
    <3>1. Len(<<>>) = 0
      BY EmptyList
    <3> QED BY <1>2, <1>3, <1>4, <2>1, <3>1
  <2>2. CASE x # p
    <3>1. /\ x \in k.live /\ k.parent[x] \in k.live /\ Listed(k.kids[k.parent[x]], x)
          /\ Len(k.kids[x]) <= 1 /\ (k.parent[x] # Shell => k.kids[x] = <<>>)
      BY <1>3, <2>2 DEF Tree
    <3>2. m.parent[x] = k.parent[x] /\ k.parent[x] \in Pid \ {p} /\ x \in Pid \ {p}
      BY <1>1, <1>3, <2>2, <3>1
    <3>3. Listed(m.kids[k.parent[x]], x)
      BY <1>2, <1>4, <3>1, <3>2
    <3>4. Len(m.kids[x]) <= 1
      BY <1>4, <1>6, <3>1, <3>2
    <3>5. k.parent[x] # Shell => m.kids[x] = <<>>
      BY <1>4, <3>1, <3>2
    <3> QED BY <1>3, <3>1, <3>2, <3>3, <3>4, <3>5
  <2> QED BY <2>1, <2>2
<1>8. ASSUME NEW x \in m.live
      PROVE  /\ Distinct(m.kids[x])
             /\ \A c : Listed(m.kids[x], c) => c \in m.live /\ m.parent[c] = x
  <2>1. CASE x = p
    <3>1. Distinct(<<>>)
      BY DEF Distinct
    <3> QED BY <1>4, <1>5, <2>1, <3>1
  <2>2. CASE x = d
    <3>1. ASSUME NEW c, Listed(t, c), c # p PROVE c \in k.live /\ k.parent[c] = d
      BY <1>2, <3>1 DEF Tree
    <3>2. ASSUME NEW c, Listed(t, c) PROVE c \in m.live /\ m.parent[c] = d
      BY <1>3, <3>1, <3>2
    <3> QED BY <1>2, <1>4, <2>2, <3>2
  <2>3. CASE x # p /\ x # d
    <3>1. x \in k.live /\ m.kids[x] = k.kids[x]
      BY <1>3, <1>4, <2>3
    <3>2. ASSUME NEW c, Listed(m.kids[x], c) PROVE c \in m.live /\ m.parent[c] = x
      <4>1. c \in k.live /\ k.parent[c] = x
        BY <3>1, <3>2 DEF Tree
      <4> QED BY <1>1, <1>3, <4>1
    <3> QED BY <3>1, <3>2 DEF Tree
  <2> QED BY <2>1, <2>2, <2>3
<1>9. m.parent[Shell] = NULL /\ Shell \in Pid
  BY <1>1, <1>3 DEF Tree
<1> QED BY <1>7, <1>8, <1>9 DEF Tree

\* p_spawn's k_process_create, by the process on the CPU, in memory that malloc
\* has not recycled.
LEMMA CreateFit ==
  ASSUME NEW k, Sound(k), Resting(k, FALSE), k.cur \in k.live, Fit(k, k.cur), Barren(k),
         k.count \in Pid,
         k.cur # Shell => k.parent[k.cur] = Shell /\ k.kids[k.cur] = <<>>,
         NEW pc, [who |-> k.count, pc |-> pc] \in Context
  PROVE  /\ Fit(KProcessCreate(k, k.cur, NULL, pc), k.cur)
         /\ Barren(KProcessCreate(k, k.cur, NULL, pc))
         /\ Born(k, KProcessCreate(k, k.cur, NULL, pc), k.cur)
<1> DEFINE p  == k.count
           d  == k.cur
           k0 == CreatePCB(k, p, NULL)
           k1 == [k0 EXCEPT !.ctx[p] = [who |-> p, pc |-> pc]]
           k2 == AddChild(k1, d, p)
           n  == [k2 EXCEPT !.prevcur = p, !.count = p + 1]
           m  == AddPCB(n, 0, p)
           t  == Append(k.kids[d], p)
<1>1. /\ Links(k) /\ k \in Memory /\ k.live \subseteq Pid /\ d \in Pid /\ d # NULL /\ p \in Pid
      /\ p \notin k.live /\ p # Shell /\ p # d /\ Shell \in k.live /\ k.next[p] = NULL
      /\ d < p /\ NULL < p /\ p \in Nat
  <2>1. /\ Links(k) /\ k \in Memory /\ k.live \subseteq Pid
        /\ Shell \in k.live /\ p \in Nat
        /\ \A x \in k.live : x < p
    BY FitTypes DEF Fit, Settled
  <2>2. p >= k.count
    BY <2>1
  <2>3. k.next[p] = NULL
    BY <2>2 DEF Fit, Placed
  <2>4. p \notin k.live
    BY <2>1
  <2> QED BY <2>1, <2>3, <2>4, PidsAreNats, KnownPointers
<1>2. /\ k0.next = k.next /\ k0.head = k.head /\ k0.live = k.live \cup {p}
      /\ k0.parent = [k.parent EXCEPT ![p] = NULL]
      /\ k0.kids = [k.kids EXCEPT ![p] = <<>>]
      /\ k0.status = [k.status EXCEPT ![p] = "READY"]
      /\ k0.prio = [k.prio EXCEPT ![p] = 0] /\ k0.sleep = [k.sleep EXCEPT ![p] = -1]
      /\ k0.sigflag = [k.sigflag EXCEPT ![p] = FALSE] /\ k0.fault = k.fault
      /\ k0.cur = k.cur /\ k0.prevfg = k.prevfg
  <2>1. [k.next EXCEPT ![p] = NULL] = k.next
    BY <1>1 DEF Memory
  <2>2. BlockCreated(k, p, NULL, k0)
    BY <1>1, BlockIsCreated
  <2> HIDE DEF k0, p
  <2> QED BY ONLY <2>1, <2>2 DEF BlockCreated
<1>3. k0 \in Memory
  BY <1>1, Pids, CreatePCBType DEF Resting, Good, Keeps
<1>4. KProcessCreate(k, d, NULL, pc) = [AddPCB(k2, 0, p) EXCEPT !.prevcur = p, !.count = p + 1]
  BY <1>1 DEF KProcessCreate
<1> HIDE DEF k0
<1>5. /\ k1 \in Memory
      /\ k1.next = k0.next /\ k1.head = k0.head /\ k1.live = k0.live
      /\ k1.parent = k0.parent /\ k1.kids = k0.kids /\ k1.status = k0.status
      /\ k1.prio = k0.prio /\ k1.sleep = k0.sleep /\ k1.sigflag = k0.sigflag
      /\ k1.fault = k0.fault /\ k1.cur = k0.cur /\ k1.prevfg = k0.prevfg
  BY <1>1, <1>3 DEF Memory
<1> HIDE DEF k1
<1>6. k1.kids[d] = k.kids[d] /\ ~Listed(k.kids[d], p)
  <2>1. k1.kids[d] = k.kids[d]
    BY <1>1, <1>2, <1>5 DEF Memory
  <2>2. ~Listed(k.kids[d], p)
    BY <1>1 DEF Fit, Tree
  <2> QED BY <2>1, <2>2
<1>7. /\ k2 \in Memory
      /\ k2.next = k.next /\ k2.head = k.head /\ k2.live = k.live \cup {p}
      /\ k2.parent = [k.parent EXCEPT ![p] = d]
      /\ k2.kids = [[k.kids EXCEPT ![p] = <<>>] EXCEPT ![d] = t]
      /\ k2.status = k1.status /\ k2.prio = k1.prio /\ k2.sleep = k1.sleep
      /\ k2.sigflag = k1.sigflag /\ k2.fault = k1.fault /\ k2.cur = k1.cur
      /\ k2.prevfg = k1.prevfg
  <2>1. k2 \in Memory
    BY <1>1, <1>5, Pids, AddChildKeeps DEF Good, Keeps
  <2>2. k2 = [k1 EXCEPT !.parent[p] = d, !.kids[d] = t]
    BY <1>6 DEF AddChild, Listed
  <2> HIDE DEF k2, t
  <2>3. /\ k2.next = k1.next /\ k2.head = k1.head /\ k2.live = k1.live
        /\ k2.parent = [k1.parent EXCEPT ![p] = d] /\ k2.kids = [k1.kids EXCEPT ![d] = t]
        /\ k2.status = k1.status /\ k2.prio = k1.prio /\ k2.sleep = k1.sleep
        /\ k2.sigflag = k1.sigflag /\ k2.fault = k1.fault /\ k2.cur = k1.cur
        /\ k2.prevfg = k1.prevfg
    BY <1>5, <2>2 DEF Memory
  <2>4. k2.parent = [k.parent EXCEPT ![p] = d]
    <3>1. k1.parent = [k.parent EXCEPT ![p] = NULL]
      BY <1>2, <1>5
    <3> HIDE DEF p, d
    <3> QED BY <2>3, <3>1
  <2> QED BY <1>2, <1>5, <2>1, <2>3, <2>4
<1>8. KProcessCreate(k, d, NULL, pc) = m
  <2>1. k2 \in Memory
    BY <1>7
  <2> HIDE DEF k2, p, d
  <2>2. Counted(AddPCB(k2, 0, p), p, p + 1) = AddPCB(Counted(k2, p, p + 1), 0, p)
    BY <2>1, AddPCBCommutes
  <2> QED BY <1>4, <2>2 DEF Counted
<1>9. m \in Memory
  <2>1. KProcessCreate(k, d, NULL, pc) \in Memory
    BY <1>1, Pids, KProcessCreateSound DEF Sound, Links
  <2> QED BY <1>8, <2>1
<1> HIDE DEF k2, t
<1>10. /\ n \in Memory
       /\ n.next = k2.next /\ n.head = k2.head /\ n.live = k2.live
       /\ n.parent = k2.parent /\ n.kids = k2.kids /\ n.status = k2.status
       /\ n.prio = k2.prio /\ n.sleep = k2.sleep /\ n.sigflag = k2.sigflag
       /\ n.fault = k2.fault /\ n.cur = k2.cur /\ n.prevfg = k2.prevfg
       /\ n.prevcur = p /\ n.count = p + 1
  <2>1. p + 1 \in 1..(MaxPid + 1) /\ p \in Ptr
    BY <1>1, Pids, MaxPidAssumption DEF Pid
  <2> QED BY <1>7, <2>1 DEF Memory
<1> HIDE DEF n
<1>11. Links(n)
  <2>1. \A y \in Ptr : y < p => y < p + 1
    BY <1>1, MaxPidAssumption DEF Ptr
  <2>2. p < p + 1
    BY <1>1
  <2>3. /\ \A x \in Pid : k.parent[x] \in Ptr /\ k.parent[x] < p
        /\ \A x \in Pid : k.next[x] \in Ptr /\ k.next[x] < p
        /\ \A q \in Queue : k.head[q] \in Ptr /\ k.head[q] < p
        /\ k.cur \in Ptr /\ k.prevfg \in Ptr /\ k.cur < p /\ k.prevfg < p
    BY <1>1, KnownPointers
  <2>4. \A x \in Pid : n.parent[x] \in {d, k.parent[x]}
    BY <1>1, <1>7, <1>10 DEF Memory
  <2>5. n.cur = d /\ n.prevfg = k.prevfg /\ n.prevcur = p /\ n.count = p + 1
    BY <1>2, <1>5, <1>7, <1>10
  <2>6. n.next = k.next /\ n.head = k.head
    BY <1>7, <1>10
  <2>7. \A x \in Pid : n.parent[x] < p + 1
    BY <2>1, <2>3, <2>4
  <2>8. Known(n)
    BY <2>1, <2>2, <2>3, <2>5, <2>6, <2>7 DEF Known
  <2> QED BY <1>1, <1>10, <2>6, <2>8 DEF Links
<1>12. \A q \in Queue : Members(n, q) = Members(k, q)
  BY <1>7, <1>10 DEF Members
<1>13. \A q \in Queue : p \notin Members(k, q)
  BY <1>1, MembersKnown
<1>14. /\ Relisted(n, m) /\ Members(m, 0) = Members(n, 0) \cup {p} /\ OnlyIn(n, m, 0, p)
  <2>1. Apart(n) /\ \A q \in Queue : p \notin Members(n, q)
    BY <1>12, <1>13, FitApart DEF Apart
  <2>2. p < n.count /\ n.next[p] = NULL
    BY <1>1, <1>7, <1>10
  <2> QED BY <1>1, <1>11, <2>1, <2>2, AddPCBFiles, Queues
<1> HIDE DEF m
<1>15. /\ Links(m) /\ m.live = n.live /\ m.parent = n.parent /\ m.kids = n.kids
       /\ m.status = n.status /\ m.prio = n.prio /\ m.sleep = n.sleep
       /\ m.sigflag = n.sigflag /\ m.fault = n.fault /\ m.count = n.count
  BY <1>14 DEF Relisted, Relinks, SameFields
<1>16. Born(k, m, d)
  <2>1. m.kids = [[k.kids EXCEPT ![p] = <<>>] EXCEPT ![d] = t]
    BY <1>7, <1>10, <1>15
  <2>2. k.kids \in [Pid -> Seq(Pid)]
    BY <1>1 DEF Memory
  <2>3. \A x \in Pid : m.kids[x] = IF x = p THEN <<>> ELSE IF x = d THEN t ELSE k.kids[x]
    BY <1>1, <2>1, <2>2
  <2>4. /\ m.live = k.live \cup {p} /\ m.parent = [k.parent EXCEPT ![p] = d]
        /\ m.status = [k.status EXCEPT ![p] = "READY"]
    BY <1>2, <1>5, <1>7, <1>10, <1>15
  <2> QED BY <2>3, <2>4 DEF Born, t
<1>17. Tree(m)
  <2>1. k.count \in Pid \ k.live /\ k.parent \in [Pid -> Ptr]
        /\ \A x \in Pid : k.kids[x] \in Seq(Pid)
    BY <1>1, FitTypes
  <2> QED BY <1>1, <1>16, <2>1, BornTree DEF Fit
<1>18. Settled(m, d)
  <2>1. /\ m.live = k.live \cup {p} /\ m.count = p + 1 /\ m.fault = k.fault
        /\ m.status[p] = "READY" /\ m.prio[p] = 0 /\ m.sleep[p] = -1 /\ m.sigflag[p] = FALSE
        /\ \A x \in Pid \ {p} : /\ m.status[x] = k.status[x] /\ m.prio[x] = k.prio[x]
                                /\ m.sleep[x] = k.sleep[x] /\ m.sigflag[x] = k.sigflag[x]
    BY <1>1, <1>2, <1>5, <1>7, <1>10, <1>15 DEF Memory
  <2>2. \A x \in m.live : x < m.count
    <3>1. \A x \in k.live : x < p /\ x \in Nat
      BY <1>1, PidsAreNats DEF Fit, Settled
    <3>2. \A x \in k.live : x < p + 1
      BY <1>1, <3>1
    <3>3. p < p + 1
      BY <1>1
    <3> QED BY <2>1, <3>2, <3>3
  <2>3. \A x \in Pid : m.sleep[x] = -1 /\ m.sigflag[x] = FALSE
    BY <2>1 DEF Fit, Settled
  <2>4. \A x \in m.live \ {Shell} : m.status[x] \in {"READY", "ZOMBIE"} /\ m.prio[x] = 0
    BY <1>1, <2>1 DEF Fit, Settled
  <2>5. m.status[Shell] \in {"READY", "BLOCKED"} /\ m.prio[Shell] = -1
    BY <1>1, <2>1 DEF Fit, Settled
  <2>6. d \in m.live /\ (d = Shell \/ m.status[d] = "READY")
    BY <1>1, <2>1 DEF Fit, Settled
  <2> QED BY <1>1, <2>1, <2>2, <2>3, <2>4, <2>5, <2>6 DEF Fit, Settled
<1>19. Placed(m, d)
  <2>1. /\ Members(k, -1) = {Shell} \ {d} /\ Members(k, 0) = Ready(k, d)
        /\ Members(k, 1) = {} /\ Members(k, ZombieQueue) = Zombies(k)
    BY DEF Fit, Placed
  <2>2. /\ Members(m, -1) = Members(k, -1) /\ Members(m, 0) = Members(k, 0) \cup {p}
        /\ Members(m, 1) = Members(k, 1) /\ Members(m, ZombieQueue) = Members(k, ZombieQueue)
    BY <1>12, <1>14, Queues DEF OnlyIn
  <2>3. /\ m.live = k.live \cup {p} /\ m.status[p] = "READY"
        /\ \A x \in Pid \ {p} : m.status[x] = k.status[x]
    BY <1>1, <1>16 DEF Born, Memory
  <2>4. Ready(m, d) = Ready(k, d) \cup {p} /\ Zombies(m) = Zombies(k)
    BY <1>1, <2>3 DEF Ready, Zombies
  <2>5. ASSUME NEW x \in Pid, x = d \/ x >= p + 1 PROVE m.next[x] = NULL
    <3>1. x # p /\ k.next[x] = NULL
      <4>1. x \in Nat
        BY PidsAreNats
      <4>2. x >= p + 1 => x >= k.count /\ x # p
        BY <1>1, <4>1
      <4> QED BY <1>1, <2>5, <4>2 DEF Fit, Placed
    <3>2. x \notin Members(n, 0)
      <4>1. x = d => x \notin Members(k, 0)
        BY <2>1 DEF Ready
      <4>2. x >= p + 1 => x \notin Members(k, 0)
        BY <1>1, MembersKnown, PidsAreNats, Queues
      <4> QED BY <1>12, <2>5, <4>1, <4>2, Queues
    <3>3. m.next[x] = n.next[x]
      BY <1>14, <3>1, <3>2 DEF OnlyIn
    <3> QED BY <1>7, <1>10, <3>1, <3>3
  <2> QED BY <1>10, <1>15, <2>1, <2>2, <2>4, <2>5 DEF Placed
<1>20. Barren(m)
  <2> SUFFICES ASSUME NEW x \in Pid, x \notin m.live \/ m.status[x] = "ZOMBIE"
               PROVE  m.kids[x] = <<>>
    BY DEF Barren
  <2>1. CASE x = p
    BY <1>1, <1>16, <2>1 DEF Born
  <2>2. CASE x # p
    <3>1. x \notin k.live \/ k.status[x] = "ZOMBIE"
      BY <1>1, <1>16, <2>2 DEF Born, Memory
    <3>2. x # d
      BY <1>1, <3>1 DEF Fit, Settled
    <3> QED BY <1>16, <2>2, <3>1, <3>2 DEF Born, Barren
  <2> QED BY <2>1, <2>2
<1> QED BY <1>8, <1>15, <1>16, <1>17, <1>18, <1>19, <1>20 DEF Fit
=============================================================================
