-------------------------- MODULE FileSystemProofs --------------------------
(***************************************************************************)
(* The file system, for every size of disk, descriptor table and buffer,   *)
(* every set of names and of programs.                                     *)
(***************************************************************************)
EXTENDS FileSystem, FiniteSetTheorems, SequenceTheorems, WellFoundedInduction, TLAPS

-----------------------------------------------------------------------------
(***************************************************************************)
(* Numbers.                                                                *)
(***************************************************************************)
LEMMA LeastOfNats ==
  ASSUME NEW S, S \subseteq Nat, S # {}
  PROVE  \E x \in S : \A y \in S : x <= y
<1>1. IsWellFoundedOn({ss \in Nat \X Nat : ss[1] < ss[2]}, Nat)
  BY NatLessThanWellFounded DEF OpToRel
<1>2. PICK x \in S : \A y \in S : ~ (<<y, x>> \in {ss \in Nat \X Nat : ss[1] < ss[2]})
  BY <1>1, WFMin
<1>3. \A y \in S : ~(y < x)
  BY <1>2
<1> QED BY <1>3

LEMMA MinIs ==
  ASSUME NEW S, S \subseteq Nat, S # {}
  PROVE  Min(S) \in S /\ \A y \in S : Min(S) <= y
BY LeastOfNats DEF Min

LEMMA MaxIs ==
  ASSUME NEW S, S \subseteq Nat, S # {}, NEW n \in Nat, \A x \in S : x <= n
  PROVE  \E m \in S : \A y \in S : y <= m
<1> DEFINE T == {m \in Nat : \A x \in S : x <= m}
<1>1. T \subseteq Nat /\ n \in T
  OBVIOUS
<1> HIDE DEF T
<1>2. PICK m \in T : \A y \in T : m <= y
  BY <1>1, LeastOfNats
<1>3. m \in Nat /\ \A x \in S : x <= m
  BY <1>2 DEF T
<1>4. m \in S
  <2> SUFFICES ASSUME m \notin S PROVE FALSE
    OBVIOUS
  <2>1. \A x \in S : x <= m - 1
    BY <1>3
  <2>2. m - 1 \in Nat
    <3>1. PICK x \in S : TRUE
      OBVIOUS
    <3>2. x \in Nat /\ x <= m - 1
      BY <2>1
    <3> QED BY <1>3, <3>2
  <2>3. m - 1 \in T
    BY <2>1, <2>2 DEF T
  <2> QED BY <1>2, <1>3, <2>3
<1> QED BY <1>3, <1>4

\* The community modules' Min and Max, of two numbers.
LEMMA MinOfTwo ==
  ASSUME NEW a \in Int, NEW b \in Int
  PROVE  Min({a, b}) = IF a <= b THEN a ELSE b
<1>1. CASE a <= b
  <2>1. \A x \in {a, b} : (\A y \in {a, b} : x <= y) <=> x = a
    BY <1>1
  <2> QED BY <1>1, <2>1 DEF Min
<1>2. CASE ~(a <= b)
  <2>1. \A x \in {a, b} : (\A y \in {a, b} : x <= y) <=> x = b
    BY <1>2
  <2> QED BY <1>2, <2>1 DEF Min
<1> QED BY <1>1, <1>2

LEMMA MaxOfTwo ==
  ASSUME NEW a \in Int, NEW b \in Int
  PROVE  Max({a, b}) = IF a >= b THEN a ELSE b
<1>1. CASE a >= b
  <2>1. \A x \in {a, b} : (\A y \in {a, b} : x >= y) <=> x = a
    BY <1>1
  <2> QED BY <1>1, <2>1 DEF Max
<1>2. CASE ~(a >= b)
  <2>1. \A x \in {a, b} : (\A y \in {a, b} : x >= y) <=> x = b
    BY <1>2
  <2> QED BY <1>2, <2>1 DEF Max
<1> QED BY <1>1, <1>2

LEMMA BlocksAreNats ==
  /\ Blocks \subseteq Nat /\ 0 \in Blocks /\ DirBlock = 0 /\ IsFiniteSet(Blocks)
  /\ LastBlock \in Nat /\ \A b \in Blocks : b <= LastBlock
BY SizeAssumption, FS_Interval DEF Blocks, DirBlock
-----------------------------------------------------------------------------
(***************************************************************************)
(* Chains.                                                                 *)
(***************************************************************************)
Fats == [Blocks -> Blocks]

LEMMA ChainCloses ==
  ASSUME NEW fat \in Fats, NEW s \in Blocks
  PROVE  /\ Chain(fat, s) \subseteq Blocks /\ s \in Chain(fat, s)
         /\ \A c \in Chain(fat, s) : fat[c] \in Chain(fat, s)
<1>1. Chain(fat, s) \subseteq Blocks /\ s \in Chain(fat, s)
  BY DEF Chain
<1>2. ASSUME NEW c \in Chain(fat, s) PROVE fat[c] \in Chain(fat, s)
  <2>1. fat[c] \in Blocks
    BY <1>1, <1>2 DEF Fats
  <2>2. ASSUME NEW S \in SUBSET (Blocks \ {fat[c]}), s \in S, \A x \in S : fat[x] \in S
        PROVE  FALSE
    <3>1. c \notin S
      BY <2>2
    <3>2. S \in SUBSET (Blocks \ {c})
      BY <2>2, <3>1
    <3> QED BY <1>2, <2>2, <3>2 DEF Chain
  <2> QED BY <2>1, <2>2 DEF Chain
<1> QED BY <1>1, <1>2

LEMMA ChainIsLeast ==
  ASSUME NEW fat \in Fats, NEW s \in Blocks,
         NEW S, s \in S, \A c \in S \cap Blocks : fat[c] \in S
  PROVE  Chain(fat, s) \subseteq S
<1> DEFINE T == S \cap Blocks
<1>1. T \in SUBSET Blocks /\ s \in T /\ \A c \in T : fat[c] \in T
  BY DEF Fats
<1> HIDE DEF T
<1>2. ASSUME NEW b \in Chain(fat, s), b \notin T PROVE FALSE
  <2>1. T \in SUBSET (Blocks \ {b})
    BY <1>1, <1>2
  <2> QED BY <1>1, <1>2, <2>1 DEF Chain
<1> QED BY <1>2 DEF T

\* A chain depends on the links of its own blocks only.
LEMMA ChainSame ==
  ASSUME NEW fat \in Fats, NEW new \in Fats, NEW s \in Blocks,
         \A c \in Chain(fat, s) : new[c] = fat[c]
  PROVE  Chain(new, s) = Chain(fat, s)
<1>1. Chain(new, s) \subseteq Chain(fat, s)
  <2>1. /\ s \in Chain(fat, s)
        /\ \A c \in Chain(fat, s) \cap Blocks : new[c] \in Chain(fat, s)
    BY ChainCloses
  <2> QED BY <2>1, ChainIsLeast
<1>2. Chain(fat, s) \subseteq Chain(new, s)
  <2> DEFINE D == Chain(new, s)
  <2>1. s \in D /\ \A c \in D : new[c] \in D
    BY ChainCloses
  <2>2. \A c \in D : fat[c] \in D
    BY <1>1, <2>1
  <2> HIDE DEF D
  <2>3. Chain(fat, s) \subseteq D
    BY <2>1, <2>2, ChainIsLeast
  <2> QED BY <2>3 DEF D
<1> QED BY <1>1, <1>2

\* No two starts of S have a block in common, each chain ends, and the
\* directory's holds no free block.
Apart(fat, S) ==
  /\ fat \in Fats /\ DirBlock \in S /\ S \subseteq Blocks
  /\ \A s \in S : \E b \in Chain(fat, s) : fat[b] = b
  /\ \A s, t \in S : s # t => Chain(fat, s) \cap Chain(fat, t) = {}
  /\ Chain(fat, DirBlock) \cap FreeBlocks(fat) = {}

LEMMA NoneIsFree ==
  ASSUME NEW fat, NEW S, Apart(fat, S), NEW s \in S
  PROVE  Chain(fat, s) \cap FreeBlocks(fat) = {}
<1>1. CASE s = DirBlock
  BY <1>1 DEF Apart
<1>2. CASE s # DirBlock
  <2> SUFFICES ASSUME NEW b \in Chain(fat, s), fat[b] = 0 PROVE FALSE
    BY DEF FreeBlocks
  <2>1. 0 \in Chain(fat, s)
    BY ChainCloses DEF Apart
  <2>2. 0 \in Chain(fat, DirBlock)
    BY ChainCloses, BlocksAreNats DEF Apart
  <2> QED BY <1>2, <2>1, <2>2 DEF Apart
<1> QED BY <1>1, <1>2

LEMMA EndIs ==
  ASSUME NEW fat, NEW S, Apart(fat, S), NEW s \in S
  PROVE  ChainEnd(fat, s) \in Chain(fat, s) /\ fat[ChainEnd(fat, s)] = ChainEnd(fat, s)
BY DEF Apart, ChainEnd
-----------------------------------------------------------------------------
(***************************************************************************)
(* Taking free blocks.                                                     *)
(***************************************************************************)
Taking(fat, n) ==
  {b \in FreeBlocks(fat) : Cardinality({c \in FreeBlocks(fat) : c <= b}) <= n}

Behind(T, tail, b) == {c \in T : c > b \/ b = tail}

Linked(fat, tail, T) ==
  [b \in Blocks |-> IF b \notin T \cup {tail} THEN fat[b]
                    ELSE IF Behind(T, tail, b) = {} THEN b
                    ELSE Min(Behind(T, tail, b))]

LEMMA GrowIs ==
  ASSUME NEW fat, NEW tail, NEW n
  PROVE  Grow(fat, tail, n) = Linked(fat, tail, Taking(fat, n))
BY DEF Grow, Linked, Taking, Behind

\* What the links are: each block's is the next one that was taken.
LEMMA LinkedIs ==
  ASSUME NEW fat \in Fats, NEW tail \in Blocks, tail \notin FreeBlocks(fat),
         NEW T, T \subseteq FreeBlocks(fat)
  PROVE  /\ Linked(fat, tail, T) \in Fats
         /\ \A b \in Blocks \ (T \cup {tail}) : Linked(fat, tail, T)[b] = fat[b]
         /\ \A b \in T \cup {tail} :
              \/ /\ Behind(T, tail, b) = {}
                 /\ Linked(fat, tail, T)[b] = b
              \/ /\ Linked(fat, tail, T)[b] \in Behind(T, tail, b)
                 /\ \A c \in Behind(T, tail, b) : Linked(fat, tail, T)[b] <= c
<1>1. T \subseteq Blocks /\ Blocks \subseteq Nat
  BY BlocksAreNats DEF FreeBlocks
<1>2. \A b : Behind(T, tail, b) \subseteq T
  BY DEF Behind
<1>3. ASSUME NEW b, Behind(T, tail, b) # {}
      PROVE  /\ Min(Behind(T, tail, b)) \in Behind(T, tail, b)
             /\ \A c \in Behind(T, tail, b) : Min(Behind(T, tail, b)) <= c
  BY <1>1, <1>2, <1>3, MinIs
<1>4. ASSUME NEW b \in Blocks
      PROVE  /\ Linked(fat, tail, T)[b] \in Blocks
             /\ b \notin T \cup {tail} => Linked(fat, tail, T)[b] = fat[b]
             /\ b \in T \cup {tail} =>
                  Linked(fat, tail, T)[b] = IF Behind(T, tail, b) = {} THEN b
                                            ELSE Min(Behind(T, tail, b))
  BY <1>1, <1>2, <1>3 DEF Linked, Fats
<1>5. Linked(fat, tail, T) \in Fats
  <2>1. Linked(fat, tail, T) = [b \in Blocks |-> Linked(fat, tail, T)[b]]
    BY DEF Linked
  <2> QED BY <1>4, <2>1 DEF Fats
<1>6. ASSUME NEW b \in T \cup {tail}
      PROVE  \/ /\ Behind(T, tail, b) = {}
                /\ Linked(fat, tail, T)[b] = b
             \/ /\ Linked(fat, tail, T)[b] \in Behind(T, tail, b)
                /\ \A c \in Behind(T, tail, b) : Linked(fat, tail, T)[b] <= c
  <2>1. b \in Blocks
    BY <1>1
  <2> QED BY <2>1, <1>3, <1>4
<1> QED BY <1>4, <1>5, <1>6

LEMMA LinkedFrees ==
  ASSUME NEW fat \in Fats, NEW tail \in Blocks, tail \notin FreeBlocks(fat),
         NEW T, T \subseteq FreeBlocks(fat)
  PROVE  FreeBlocks(Linked(fat, tail, T)) = FreeBlocks(fat) \ T
<1> DEFINE new == Linked(fat, tail, T)
<1>1. 0 \notin T /\ T \subseteq Blocks
  BY DEF FreeBlocks, DirBlock
<1>2. \A b : Behind(T, tail, b) \subseteq T
  BY DEF Behind
<1>3. \A b \in T \cup {tail} : new[b] = b \/ new[b] \in T
  BY <1>2, LinkedIs
<1>4. \A b \in Blocks \ (T \cup {tail}) : new[b] = fat[b]
  BY LinkedIs
<1> HIDE DEF new
<1>5. ASSUME NEW b \in Blocks \ {DirBlock}
      PROVE  new[b] = 0 <=> fat[b] = 0 /\ b \notin T
  <2>1. CASE b \in T
    BY <1>1, <1>3, <2>1 DEF DirBlock
  <2>2. CASE b = tail
    <3>1. fat[b] # 0
      BY <2>2 DEF FreeBlocks
    <3>2. new[b] # 0
      BY <1>1, <1>3, <2>2 DEF DirBlock
    <3> QED BY <3>1, <3>2
  <2>3. CASE b \notin T /\ b # tail
    BY <1>4, <2>3
  <2> QED BY <2>1, <2>2, <2>3
<1>6. FreeBlocks(new) = FreeBlocks(fat) \ T
  BY <1>5 DEF FreeBlocks
<1> QED BY <1>6 DEF new

\* The chain that grows holds what was taken, and ends in the last of it.
LEMMA LinkedChain ==
  ASSUME NEW fat \in Fats, NEW s \in Blocks, NEW tail \in Chain(fat, s),
         fat[tail] = tail, Chain(fat, s) \cap FreeBlocks(fat) = {},
         NEW T, T \subseteq FreeBlocks(fat)
  PROVE  /\ Chain(Linked(fat, tail, T), s) = Chain(fat, s) \cup T
         /\ \E b \in Chain(fat, s) \cup T : Linked(fat, tail, T)[b] = b
<1> DEFINE new == Linked(fat, tail, T)
           C   == Chain(fat, s)
           D   == Chain(new, s)
<1>1. C \subseteq Blocks /\ s \in C /\ \A c \in C : fat[c] \in C
  BY ChainCloses
<1>2. tail \in Blocks /\ tail \notin FreeBlocks(fat) /\ T \subseteq Blocks /\ T \cap C = {}
  BY <1>1 DEF FreeBlocks
<1>3. /\ new \in Fats
      /\ \A b \in Blocks \ (T \cup {tail}) : new[b] = fat[b]
      /\ \A b \in T \cup {tail} :
           \/ Behind(T, tail, b) = {} /\ new[b] = b
           \/ new[b] \in Behind(T, tail, b) /\ \A c \in Behind(T, tail, b) : new[b] <= c
  BY <1>2, LinkedIs
<1>4. s \in D /\ \A c \in D : new[c] \in D
  BY <1>3, ChainCloses
<1>5. tail \in C /\ \A b : Behind(T, tail, b) \subseteq T
  BY DEF Behind
<1> HIDE DEF new, C
<1>6. Chain(new, s) \subseteq C \cup T
  <2>1. ASSUME NEW c \in (C \cup T) \cap Blocks PROVE new[c] \in C \cup T
    <3>1. CASE c \in T \cup {tail}
      <4>1. c \in C \cup T /\ (new[c] = c \/ new[c] \in T)
        BY <3>1, <1>3, <1>5
      <4> QED BY <4>1
    <3>2. CASE c \notin T \cup {tail}
      <4>1. c \in C /\ new[c] = fat[c]
        BY <3>2, <1>3
      <4> QED BY <4>1, <1>1
    <3> QED BY <3>1, <3>2
  <2> DEFINE E == C \cup T
  <2>2. s \in E /\ \A c \in E \cap Blocks : new[c] \in E
    BY <1>1, <2>1
  <2> HIDE DEF E
  <2>3. Chain(new, s) \subseteq E
    BY <1>3, <2>2, ChainIsLeast
  <2> QED BY <2>3 DEF E
<1> HIDE DEF D
<1>7. C \subseteq D
  <2>1. \A c \in D \cap C : fat[c] \in D \cap C
    <3> SUFFICES ASSUME NEW c \in D \cap C PROVE fat[c] \in D \cap C
      OBVIOUS
    <3>1. CASE c = tail
      BY <3>1
    <3>2. CASE c # tail
      <4>1. new[c] = fat[c]
        BY <3>2, <1>1, <1>2, <1>3
      <4> QED BY <4>1, <1>1, <1>4
    <3> QED BY <3>1, <3>2
  <2> DEFINE E == D \cap C
  <2>2. s \in E /\ \A c \in E \cap Blocks : fat[c] \in E
    BY <1>1, <1>4, <2>1
  <2> HIDE DEF E
  <2>3. Chain(fat, s) \subseteq E
    BY <2>2, ChainIsLeast
  <2> QED BY <2>3 DEF E, C
<1>8. T \subseteq D
  <2> SUFFICES ASSUME T \ D # {} PROVE FALSE
    OBVIOUS
  <2>1. T \ D \subseteq Nat /\ T \subseteq Nat
    BY <1>2, BlocksAreNats
  <2>2. PICK m \in T \ D : \A y \in T \ D : m <= y
    BY <2>1, LeastOfNats
  <2> DEFINE B == {c \in T : c < m}
  <2>3. CASE B = {}
    <3>1. \A c \in T : m <= c
      BY <2>1, <2>2, <2>3
    <3>2. m \in Behind(T, tail, tail)
      BY <2>2 DEF Behind
    <3>3. tail \in D /\ new[tail] \in T /\ new[tail] <= m
      <4>1. \/ Behind(T, tail, tail) = {} /\ new[tail] = tail
            \/ /\ new[tail] \in Behind(T, tail, tail)
               /\ \A c \in Behind(T, tail, tail) : new[tail] <= c
        BY <1>3
      <4> QED BY <4>1, <1>5, <1>7, <3>2
    <3>4. new[tail] = m
      <4>1. new[tail] \in Nat /\ m \in Nat /\ m <= new[tail]
        BY <2>1, <3>1, <3>3
      <4> QED BY <4>1, <3>3
    <3>5. m \in D
      BY <1>4, <3>3, <3>4
    <3> QED BY <2>2, <3>5
  <2>4. CASE B # {}
    <3>1. B \subseteq Nat /\ m \in Nat /\ \A c \in B : c <= m
      <4>1. T \subseteq Nat /\ m \in T
        BY <2>1
      <4>2. \A c \in T : c \in Nat /\ (c < m => c <= m)
        BY <4>1
      <4> QED BY <4>1, <4>2
    <3>2. PICK p \in B : \A c \in B : c <= p
      <4> HIDE DEF B
      <4> QED BY <2>4, <3>1, MaxIs
    <3>3. p \in D
      BY <2>1, <2>2
    <3>4. m \in Behind(T, tail, p)
      BY <2>2, <3>2 DEF Behind
    <3>5. new[p] \in Behind(T, tail, p) /\ new[p] <= m
      BY <1>3, <3>4
    <3>6. p # tail
      BY <1>2
    <3>7. new[p] \in T /\ new[p] > p
      BY <3>5, <3>6 DEF Behind
    <3>8. new[p] = m
      <4>1. new[p] \in Nat
        BY <2>1, <3>7
      <4>2. ~(new[p] < m)
        BY <3>1, <3>2, <3>7, <4>1
      <4> QED BY <3>1, <3>5, <4>1, <4>2
    <3> QED BY <1>4, <2>2, <3>3, <3>8
  <2> QED BY <2>3, <2>4
<1>9. \E b \in C \cup T : new[b] = b
  <2>1. CASE T = {}
    <3>1. Behind(T, tail, tail) = {}
      BY <2>1 DEF Behind
    <3> QED BY <1>3, <3>1 DEF C
  <2>2. CASE T # {}
    <3>1. T \subseteq Nat /\ \A c \in T : c <= LastBlock
      BY <1>2, BlocksAreNats
    <3>2. PICK m \in T : \A c \in T : c <= m
      BY <2>2, <3>1, BlocksAreNats, MaxIs
    <3>3. Behind(T, tail, m) = {}
      <4>1. m # tail
        BY <1>2
      <4>2. \A c \in T : ~(c > m)
        BY <3>1, <3>2
      <4> QED BY <4>1, <4>2 DEF Behind
    <3> QED BY <1>3, <3>3
  <2> QED BY <2>1, <2>2
<1>10. D = C \cup T
  BY <1>6, <1>7, <1>8 DEF D
<1> QED BY <1>9, <1>10 DEF new, C, D
-----------------------------------------------------------------------------
\* As many are taken as are asked for, if there are so many.
LEMMA TakingIs ==
  ASSUME NEW fat, NEW n \in Nat, n <= Cardinality(FreeBlocks(fat))
  PROVE  /\ Taking(fat, n) \subseteq FreeBlocks(fat)
         /\ IsFiniteSet(Taking(fat, n)) /\ Cardinality(Taking(fat, n)) = n
<1> DEFINE F == FreeBlocks(fat)
           m == Cardinality(F)
           L(b) == {c \in F : c <= b}
           r == [b \in F |-> Cardinality(L(b))]
           T == Taking(fat, n)
<1>1. F \subseteq Nat /\ IsFiniteSet(F) /\ m \in Nat /\ n <= m
  <2>1. F \subseteq Blocks
    BY DEF FreeBlocks
  <2> QED BY <2>1, BlocksAreNats, FS_Subset, FS_CardinalityType
<1>2. T = {b \in F : r[b] <= n}
  BY DEF Taking
<1> HIDE DEF F
<1>3. ASSUME NEW b \in F
      PROVE  IsFiniteSet(L(b)) /\ r[b] \in 1..m
  <2>1. L(b) \subseteq F /\ b \in L(b)
    BY <1>1
  <2> HIDE DEF L
  <2>2. IsFiniteSet(L(b)) /\ Cardinality(L(b)) <= m /\ Cardinality(L(b)) \in Nat
    BY <1>1, <2>1, FS_Subset, FS_CardinalityType
  <2>3. Cardinality(L(b)) # 0
    BY <2>1, <2>2, FS_EmptySet
  <2> QED BY <1>1, <2>2, <2>3
<1>4. ASSUME NEW b \in F, NEW c \in F, b < c
      PROVE  r[b] < r[c]
  <2>1. L(b) \subseteq L(c) /\ c \in L(c) /\ c \notin L(b)
    <3>1. b \in Nat /\ c \in Nat /\ \A x \in F : x \in Nat
      BY <1>1
    <3>2. \A x \in F : x <= b => x <= c
      BY <3>1, <1>4
    <3>3. c <= c /\ ~(c <= b)
      BY <3>1, <1>4
    <3> QED BY <3>2, <3>3
  <2>2. IsFiniteSet(L(c)) /\ r[b] = Cardinality(L(b)) /\ r[c] = Cardinality(L(c))
    BY <1>3
  <2> HIDE DEF L, r
  <2>3. Cardinality(L(b)) <= Cardinality(L(c)) /\ Cardinality(L(b)) # Cardinality(L(c))
    BY <2>1, <2>2, FS_Subset
  <2> QED BY <2>2, <2>3, <1>3
<1>5. r \in Injection(F, 1..m)
  <2>1. r \in [F -> 1..m]
    BY <1>3
  <2>2. \A b, c \in F : r[b] = r[c] => b = c
    <3> SUFFICES ASSUME NEW b \in F, NEW c \in F, r[b] = r[c], b # c PROVE FALSE
      OBVIOUS
    <3>1. b < c \/ c < b
      BY <1>1
    <3>2. r[b] \in Int /\ r[c] \in Int
      BY <1>3
    <3> HIDE DEF r
    <3> QED BY <1>4, <3>1, <3>2
  <2> HIDE DEF r
  <2> QED BY <2>1, <2>2 DEF Injection, IsInjective
<1>6. \A i \in 1..m : \E b \in F : r[b] = i
  <2>1. IsFiniteSet(1..m) /\ Cardinality(1..m) = m
    BY <1>1, FS_Interval
  <2> HIDE DEF r
  <2>2. r \in Surjection(F, 1..m)
    BY <1>5, <2>1, FS_Injection
  <2> QED BY <2>2 DEF Surjection
<1> DEFINE h == [b \in T |-> r[b]]
<1>7. h \in Bijection(T, 1..n)
  <2>1. T \subseteq F /\ \A b \in T : r[b] \in 1..n
    BY <1>2, <1>3
  <2>2. \A i \in 1..n : \E b \in T : r[b] = i
    <3>1. \A i \in 1..n : i \in 1..m /\ i <= n
      BY <1>1
    <3> HIDE DEF r, T
    <3> QED BY <3>1, <1>2, <1>6
  <2>3. \A b, c \in F : r[b] = r[c] => b = c
    BY <1>5 DEF Injection, IsInjective
  <2> HIDE DEF r, T
  <2>4. h \in Injection(T, 1..n)
    BY <2>1, <2>3 DEF Injection, IsInjective
  <2>5. h \in Surjection(T, 1..n)
    BY <2>1, <2>2 DEF Surjection
  <2> QED BY <2>4, <2>5 DEF Bijection
<1>8. IsFiniteSet(T)
  BY <1>1, <1>2, FS_Subset
<1>9. Cardinality(1..n) = Cardinality(T)
  <2> HIDE DEF h, T
  <2> QED BY <1>7, <1>8, FS_Bijection DEF ExistsBijection
<1>10. Cardinality(1..n) = n
  BY FS_Interval
<1> QED BY <1>2, <1>8, <1>9, <1>10 DEF F

\* A chain that grows stays apart from the others.
LEMMA GrowKeeps ==
  ASSUME NEW fat, NEW S, Apart(fat, S), NEW s \in S,
         NEW n \in Nat, n <= Cardinality(FreeBlocks(fat)),
         NEW new, new = Grow(fat, ChainEnd(fat, s), n)
  PROVE  /\ Apart(new, S)
         /\ \A t \in S \ {s} : Chain(new, t) = Chain(fat, t)
         /\ Chain(new, s) = Chain(fat, s) \cup Taking(fat, n)
         /\ FreeBlocks(new) = FreeBlocks(fat) \ Taking(fat, n)
         /\ Cardinality(Chain(new, s)) = Cardinality(Chain(fat, s)) + n
<1> DEFINE tail == ChainEnd(fat, s)
           T    == Taking(fat, n)
<1>1. fat \in Fats /\ S \subseteq Blocks /\ s \in Blocks /\ DirBlock \in S
  BY DEF Apart
<1>2. tail \in Chain(fat, s) /\ fat[tail] = tail
  BY EndIs
<1>3. Chain(fat, s) \cap FreeBlocks(fat) = {}
  BY NoneIsFree
<1>4. T \subseteq FreeBlocks(fat) /\ IsFiniteSet(T) /\ Cardinality(T) = n
  BY TakingIs
<1>5. new = Linked(fat, tail, T)
  BY GrowIs
<1> HIDE DEF tail, T
<1>6. Chain(fat, s) \subseteq Blocks /\ tail \in Blocks /\ tail \notin FreeBlocks(fat)
  BY <1>1, <1>2, <1>3, ChainCloses
<1>7. /\ new \in Fats
      /\ \A b \in Blocks \ (T \cup {tail}) : new[b] = fat[b]
  BY <1>1, <1>4, <1>5, <1>6, LinkedIs
<1>8. FreeBlocks(new) = FreeBlocks(fat) \ T
  BY <1>1, <1>4, <1>5, <1>6, LinkedFrees
<1>9. /\ Chain(new, s) = Chain(fat, s) \cup T
      /\ \E b \in Chain(new, s) : new[b] = b
  BY <1>1, <1>2, <1>3, <1>4, <1>5, LinkedChain
<1>10. ASSUME NEW t \in S \ {s}
       PROVE  /\ Chain(new, t) = Chain(fat, t) /\ Chain(fat, t) \cap T = {}
              /\ \A b \in Chain(fat, t) : new[b] = fat[b]
  <2>1. Chain(fat, t) \cap Chain(fat, s) = {} /\ Chain(fat, t) \cap FreeBlocks(fat) = {}
    BY NoneIsFree DEF Apart
  <2>2. Chain(fat, t) \subseteq Blocks
    BY <1>1, ChainCloses
  <2>3. \A b \in Chain(fat, t) : b \notin T \cup {tail} /\ new[b] = fat[b]
    BY <1>2, <1>4, <1>7, <2>1, <2>2
  <2> QED BY <1>1, <1>7, <2>3, ChainSame
<1>11. Apart(new, S)
  <2>1. \A t \in S : \E b \in Chain(new, t) : new[b] = b
    BY <1>9, <1>10 DEF Apart
  <2>2. \A t, u \in S : t # u => Chain(new, t) \cap Chain(new, u) = {}
    <3> SUFFICES ASSUME NEW t \in S, NEW u \in S, t # u
                 PROVE  Chain(new, t) \cap Chain(new, u) = {}
      OBVIOUS
    <3>1. Chain(fat, t) \cap Chain(fat, u) = {}
      BY DEF Apart
    <3>2. CASE t = s
      BY <3>1, <3>2, <1>9, <1>10
    <3>3. CASE u = s
      BY <3>1, <3>3, <1>9, <1>10
    <3>4. CASE t # s /\ u # s
      BY <3>1, <3>4, <1>10
    <3> QED BY <3>2, <3>3, <3>4
  <2>3. Chain(new, DirBlock) \cap FreeBlocks(new) = {}
    <3>1. CASE s = DirBlock
      BY <3>1, <1>3, <1>8, <1>9
    <3>2. CASE s # DirBlock
      <4>1. Chain(new, DirBlock) = Chain(fat, DirBlock)
        BY <3>2, <1>1, <1>10
      <4> QED BY <4>1, <1>8 DEF Apart
    <3> QED BY <3>1, <3>2
  <2> QED BY <1>1, <1>7, <2>1, <2>2, <2>3 DEF Apart
<1>12. Cardinality(Chain(new, s)) = Cardinality(Chain(fat, s)) + n
  <2>1. IsFiniteSet(Chain(fat, s)) /\ Cardinality(Chain(fat, s)) \in Nat
    BY <1>6, BlocksAreNats, FS_Subset, FS_CardinalityType
  <2>2. Chain(fat, s) \cap T = {}
    BY <1>3, <1>4
  <2>3. Cardinality(Chain(fat, s) \cup T) =
          Cardinality(Chain(fat, s)) + Cardinality(T) - Cardinality({})
    BY <2>1, <2>2, <1>4, FS_Union
  <2> QED BY <2>1, <2>3, <1>4, <1>9, FS_EmptySet
<1> QED BY <1>8, <1>9, <1>10, <1>11, <1>12 DEF T
-----------------------------------------------------------------------------
(***************************************************************************)
(* Freeing, cutting and beginning a chain.                                 *)
(***************************************************************************)
LEMMA SelfLinked ==
  ASSUME NEW fat \in Fats, NEW s \in Blocks, fat[s] = s
  PROVE  Chain(fat, s) = {s}
<1>1. Chain(fat, s) \subseteq {s}
  BY ChainIsLeast
<1> QED BY <1>1, ChainCloses

\* Links change, but no chain of T does.
StayApart(fat, new, T) ==
  Apart(new, T) /\ \A t \in T : Chain(new, t) = Chain(fat, t)

LEMMA ApartKeeps ==
  ASSUME NEW fat, NEW S, Apart(fat, S), NEW new \in Fats, NEW T, T \subseteq S, DirBlock \in T,
         \A t \in T : \A b \in Chain(fat, t) : new[b] = fat[b]
  PROVE  StayApart(fat, new, T)
<1>1. fat \in Fats /\ S \subseteq Blocks
  BY DEF Apart
<1>2. \A t \in T : Chain(new, t) = Chain(fat, t)
  BY <1>1, ChainSame
<1>3. \A t \in T : \E b \in Chain(new, t) : new[b] = b
  BY <1>2 DEF Apart
<1>4. \A t, u \in T : t # u => Chain(new, t) \cap Chain(new, u) = {}
  BY <1>2 DEF Apart
<1>5. Chain(new, DirBlock) \cap FreeBlocks(new) = {}
  <2> SUFFICES ASSUME NEW b \in Chain(fat, DirBlock), b \in FreeBlocks(new) PROVE FALSE
    BY <1>2
  <2>1. b \in FreeBlocks(fat)
    BY DEF FreeBlocks
  <2> QED BY <2>1 DEF Apart
<1> QED BY <1>1, <1>2, <1>3, <1>4, <1>5 DEF Apart, StayApart

LEMMA FreeKeeps ==
  ASSUME NEW fat, NEW S, Apart(fat, S), NEW s \in S \ {DirBlock}
  PROVE  /\ Apart(FreeChain(fat, s), S \ {s})
         /\ \A t \in S \ {s} : Chain(FreeChain(fat, s), t) = Chain(fat, t)
         /\ FreeBlocks(FreeChain(fat, s)) = FreeBlocks(fat) \cup Chain(fat, s)
<1> DEFINE new == FreeChain(fat, s)
           C   == Chain(fat, s)
<1>1. fat \in Fats /\ s \in Blocks /\ S \subseteq Blocks /\ DirBlock \in S
  BY DEF Apart
<1>2. C \subseteq Blocks /\ DirBlock \notin C
  BY <1>1, ChainCloses DEF Apart
<1>3. new \in Fats /\ \A b \in Blocks : new[b] = IF b \in C THEN 0 ELSE fat[b]
  BY <1>1, BlocksAreNats DEF FreeChain, Fats
<1> HIDE DEF new
<1>4. ASSUME NEW t \in S \ {s}, NEW b \in Chain(fat, t) PROVE new[b] = fat[b]
  <2>1. b \in Blocks /\ b \notin C
    BY <1>1, ChainCloses DEF Apart
  <2> QED BY <2>1, <1>3
<1>5. Apart(new, S \ {s}) /\ \A t \in S \ {s} : Chain(new, t) = Chain(fat, t)
  <2> DEFINE T == S \ {s}
  <2>1. T \subseteq S /\ DirBlock \in T /\ \A t \in T : \A b \in Chain(fat, t) : new[b] = fat[b]
    BY <1>1, <1>4
  <2> HIDE DEF T
  <2>2. Apart(new, T) /\ \A t \in T : Chain(new, t) = Chain(fat, t)
    BY <1>3, <2>1, ApartKeeps DEF StayApart
  <2> QED BY <2>2 DEF T
<1>6. FreeBlocks(new) = FreeBlocks(fat) \cup C
  <2> HIDE DEF C
  <2> QED BY <1>2, <1>3 DEF FreeBlocks
<1> QED BY <1>5, <1>6 DEF new

BegunAt(fat, S, b, new) ==
  /\ b \notin S /\ b \in Blocks \ {DirBlock}
  /\ Apart(new, S \cup {b})
  /\ \A t \in S : Chain(new, t) = Chain(fat, t)
  /\ Chain(new, b) = {b}
  /\ FreeBlocks(new) = FreeBlocks(fat) \ {b}

LEMMA BeginKeeps ==
  ASSUME NEW fat, NEW S, Apart(fat, S), NEW b \in FreeBlocks(fat),
         NEW new, new = [fat EXCEPT ![b] = b]
  PROVE  BegunAt(fat, S, b, new)
<1>1. fat \in Fats /\ S \subseteq Blocks /\ DirBlock \in S
  BY DEF Apart
<1>2. b \in Blocks \ {DirBlock} /\ fat[b] = 0
  BY DEF FreeBlocks
<1>3. new \in Fats /\ new[b] = b /\ \A c \in Blocks \ {b} : new[c] = fat[c]
  BY <1>1, <1>2 DEF Fats
<1>4. \A t \in S : b \notin Chain(fat, t) /\ Chain(fat, t) \subseteq Blocks /\ t \in Chain(fat, t)
  BY <1>1, NoneIsFree, ChainCloses
<1>5. b \notin S
  BY <1>4
<1>6. \A t \in S : \A c \in Chain(fat, t) : new[c] = fat[c]
  BY <1>3, <1>4
<1>7. Apart(new, S) /\ \A t \in S : Chain(new, t) = Chain(fat, t)
  <2>1. StayApart(fat, new, S)
    BY <1>1, <1>3, <1>6, ApartKeeps
  <2> QED BY <2>1 DEF StayApart
<1>8. Chain(new, b) = {b}
  BY <1>2, <1>3, SelfLinked
<1>9. FreeBlocks(new) = FreeBlocks(fat) \ {b}
  BY <1>2, <1>3, BlocksAreNats DEF FreeBlocks, DirBlock
<1>10. Apart(new, S \cup {b})
  <2>1. \A t \in S \cup {b} : \E c \in Chain(new, t) : new[c] = c
    BY <1>3, <1>7, <1>8 DEF Apart
  <2>2. \A t, u \in S \cup {b} : t # u => Chain(new, t) \cap Chain(new, u) = {}
    <3> SUFFICES ASSUME NEW t \in S \cup {b}, NEW u \in S \cup {b}, t # u
                 PROVE  Chain(new, t) \cap Chain(new, u) = {}
      OBVIOUS
    <3>1. CASE t = b
      BY <3>1, <1>4, <1>7, <1>8
    <3>2. CASE u = b
      BY <3>2, <1>4, <1>7, <1>8
    <3>3. CASE t # b /\ u # b
      <4>1. t \in S /\ u \in S
        BY <3>3
      <4> QED BY <4>1, <1>7 DEF Apart
    <3> QED BY <3>1, <3>2, <3>3
  <2>3. new \in Fats /\ Chain(new, DirBlock) \cap FreeBlocks(new) = {}
    BY <1>7 DEF Apart
  <2>4. DirBlock \in S \cup {b} /\ S \cup {b} \subseteq Blocks
    BY <1>1, <1>2
  <2> QED BY <2>1, <2>2, <2>3, <2>4 DEF Apart
<1> QED BY <1>2, <1>5, <1>7, <1>8, <1>9, <1>10 DEF BegunAt

\* truncate_file: freed, and begun once more at the same block.
CutAt(fat, S, s, new) ==
  /\ Apart(new, S)
  /\ \A t \in S \ {s} : Chain(new, t) = Chain(fat, t)
  /\ Chain(new, s) = {s}
  /\ FreeBlocks(new) = FreeBlocks(fat) \cup (Chain(fat, s) \ {s})

LEMMA CutKeeps ==
  ASSUME NEW fat, NEW S, Apart(fat, S), NEW s \in S \ {DirBlock},
         NEW new, new = [FreeChain(fat, s) EXCEPT ![s] = s]
  PROVE  CutAt(fat, S, s, new)
<1> DEFINE mid == FreeChain(fat, s)
           T   == S \ {s}
<1>1. /\ Apart(mid, T)
      /\ \A t \in T : Chain(mid, t) = Chain(fat, t)
      /\ FreeBlocks(mid) = FreeBlocks(fat) \cup Chain(fat, s)
  BY FreeKeeps
<1>2. s \in Chain(fat, s) /\ s \notin FreeBlocks(fat)
  BY ChainCloses, NoneIsFree DEF Apart
<1>3. s \in FreeBlocks(mid)
  BY <1>1, <1>2
<1>4. S = T \cup {s}
  OBVIOUS
<1> HIDE DEF mid, T
<1>5. new = [mid EXCEPT ![s] = s]
  BY DEF mid
<1>6. /\ Apart(new, T \cup {s})
      /\ \A t \in T : Chain(new, t) = Chain(mid, t)
      /\ Chain(new, s) = {s}
      /\ FreeBlocks(new) = FreeBlocks(mid) \ {s}
  <2>1. BegunAt(mid, T, s, new)
    BY <1>1, <1>3, <1>5, BeginKeeps
  <2> QED BY <2>1 DEF BegunAt
<1>7. FreeBlocks(new) = FreeBlocks(fat) \cup (Chain(fat, s) \ {s})
  BY <1>1, <1>2, <1>6
<1> QED BY <1>1, <1>4, <1>6, <1>7 DEF T, CutAt
-----------------------------------------------------------------------------
(***************************************************************************)
(* Writing.                                                                *)
(***************************************************************************)
LEMMA Times ==
  ASSUME NEW a \in Nat, NEW b \in Nat, a <= b
  PROVE  a * BlockSize \in Nat /\ b * BlockSize \in Nat /\ a * BlockSize <= b * BlockSize
<1>1. BlockSize \in Nat
  BY SizeAssumption
<1>2. PICK d \in Nat : b = a + d
  <2>1. b - a \in Nat /\ b = a + (b - a)
    OBVIOUS
  <2> QED BY <2>1
<1>3. b * BlockSize = a * BlockSize + d * BlockSize
  BY <1>1, <1>2
<1>4. a * BlockSize \in Nat /\ d * BlockSize \in Nat
  BY <1>1
<1> QED BY <1>3, <1>4

\* The number of the last block that n units at offset `at' touch.
LEMMA Quotient ==
  ASSUME NEW m \in Nat
  PROVE  /\ m \div BlockSize \in Nat
         /\ (m \div BlockSize) * BlockSize <= m
         /\ m < (m \div BlockSize + 1) * BlockSize
<1>1. BlockSize \in Nat /\ BlockSize > 0
  BY SizeAssumption
<1> QED BY <1>1
Size(fat, s) == Cardinality(Chain(fat, s))

LEMMA SizeIs ==
  ASSUME NEW fat \in Fats, NEW s \in Blocks
  PROVE  /\ IsFiniteSet(Chain(fat, s)) /\ Size(fat, s) \in Nat /\ Size(fat, s) >= 1
         /\ IsFiniteSet(FreeBlocks(fat)) /\ Cardinality(FreeBlocks(fat)) \in Nat
<1>1. IsFiniteSet(Chain(fat, s)) /\ s \in Chain(fat, s)
  BY ChainCloses, BlocksAreNats, FS_Subset
<1>2. Size(fat, s) \in Nat /\ Size(fat, s) # 0
  BY <1>1, FS_CardinalityType, FS_EmptySet DEF Size
<1>3. FreeBlocks(fat) \subseteq Blocks
  BY DEF FreeBlocks
<1> QED BY <1>1, <1>2, <1>3, BlocksAreNats, FS_Subset, FS_CardinalityType

\* How many blocks are taken: what is needed, or all there are.
LEMMA TakenIs ==
  ASSUME NEW fat \in Fats, NEW s \in Blocks, NEW at \in Nat, NEW n \in Nat \ {0}
  PROVE  /\ Taken(fat, s, at, n) \in Nat
         /\ Taken(fat, s, at, n) <= Cardinality(FreeBlocks(fat))
         /\ \/ Taken(fat, s, at, n) = Cardinality(FreeBlocks(fat))
            \/ at + n <= (Size(fat, s) + Taken(fat, s, at, n)) * BlockSize
         /\ at + n <= Size(fat, s) * BlockSize => Taken(fat, s, at, n) = 0
<1> DEFINE c == Size(fat, s)
           f == Cardinality(FreeBlocks(fat))
           m == at + n - 1
           q == m \div BlockSize
           w == Wanted(fat, s, at, n)
           t == Taken(fat, s, at, n)
<1>1. c \in Nat /\ f \in Nat
  BY SizeIs
<1>2. m \in Nat
  OBVIOUS
<1>3. q \in Nat /\ q * BlockSize <= m /\ m < (q + 1) * BlockSize
  BY <1>2, Quotient
<1>4. w = Max({0, q + 1 - c})
  BY DEF Wanted, Size
<1>5. t = Min({w, f})
  BY DEF Taken
<1>6. BlockSize \in Nat
  BY SizeAssumption
<1> HIDE DEF c, f, q, w, t
<1>7. w = IF 0 >= q + 1 - c THEN 0 ELSE q + 1 - c
  BY <1>1, <1>3, <1>4, MaxOfTwo
<1>8. w \in Nat
  BY <1>1, <1>3, <1>7
<1>9. t = IF w <= f THEN w ELSE f
  BY <1>1, <1>5, <1>8, MinOfTwo
<1>10. t \in Nat /\ t <= f
  BY <1>1, <1>8, <1>9
<1>11. t = f \/ at + n <= (c + t) * BlockSize
  <2> SUFFICES ASSUME t # f PROVE at + n <= (c + t) * BlockSize
    OBVIOUS
  <2>1. q + 1 \in Nat /\ c + t \in Nat /\ q + 1 <= c + t
    BY <1>1, <1>3, <1>7, <1>9, <1>10
  <2>2. (q + 1) * BlockSize <= (c + t) * BlockSize /\ (c + t) * BlockSize \in Nat
        /\ (q + 1) * BlockSize \in Nat
    BY <2>1, Times
  <2> DEFINE X == (q + 1) * BlockSize
             Y == (c + t) * BlockSize
  <2>3. X \in Nat /\ Y \in Nat /\ X <= Y /\ m < X
    BY <1>3, <2>2
  <2> HIDE DEF X, Y
  <2>4. at + n <= Y
    BY <2>3, <1>2
  <2> QED BY <2>4 DEF Y
<1>12. ASSUME at + n <= c * BlockSize PROVE t = 0
  <2>1. q + 1 <= c
    <3> SUFFICES ASSUME c <= q PROVE FALSE
      BY <1>1, <1>3
    <3>1. c * BlockSize <= q * BlockSize /\ c * BlockSize \in Nat /\ q * BlockSize \in Nat
      BY <1>1, <1>3, Times
    <3> DEFINE X == c * BlockSize
               Y == q * BlockSize
    <3>2. X \in Nat /\ Y \in Nat /\ X <= Y /\ Y <= m /\ at + n <= X
      BY <3>1, <1>3, <1>12
    <3> HIDE DEF X, Y
    <3> QED BY <3>2, <1>2
  <2>2. w = 0
    BY <2>1, <1>1, <1>3, <1>7
  <2> QED BY <2>2, <1>1, <1>9
<1> QED BY <1>10, <1>11, <1>12 DEF c, f, t

\* What a write of n units at offset `at' of the chain of s leaves: every other
\* chain as it was, every block of this one and every free one in one of the
\* two, and as much written as there is room for.
Wrote(fat, S, s, at, n, w) ==
  /\ Apart(w.fat, S)
  /\ \A t \in S \ {s} : Chain(w.fat, t) = Chain(fat, t)
  /\ Chain(fat, s) \subseteq Chain(w.fat, s)
  /\ Chain(w.fat, s) \cup FreeBlocks(w.fat) = Chain(fat, s) \cup FreeBlocks(fat)
  /\ Size(fat, s) <= Size(w.fat, s)
  /\ \/ w.done = Failed
     \/ w.done \in 1..n /\ at + w.done <= Size(w.fat, s) * BlockSize
  /\ w.done = n \/ FreeBlocks(w.fat) = {}
  /\ at + n <= Size(fat, s) * BlockSize =>
       w.done = n /\ FreeBlocks(w.fat) = FreeBlocks(fat) /\ Chain(w.fat, s) = Chain(fat, s)
  /\ \A m \in 1..n : at + m <= Size(fat, s) * BlockSize => w.done # Failed /\ m <= w.done

LEMMA WriteKeeps ==
  ASSUME NEW fat, NEW S, Apart(fat, S), NEW s \in S, NEW at \in Nat, NEW n \in Nat \ {0},
         NEW w, w = WriteToFile(fat, s, at, n)
  PROVE  Wrote(fat, S, s, at, n, w)
<1> DEFINE t    == Taken(fat, s, at, n)
           room == (Size(fat, s) + t) * BlockSize
           new  == Grow(fat, ChainEnd(fat, s), t)
<1>1. fat \in Fats /\ s \in Blocks
  BY DEF Apart
<1>2. /\ t \in Nat /\ t <= Cardinality(FreeBlocks(fat))
      /\ t = Cardinality(FreeBlocks(fat)) \/ at + n <= room
      /\ at + n <= Size(fat, s) * BlockSize => t = 0
  BY <1>1, TakenIs
<1>3. w = [fat |-> new, done |-> IF at >= room THEN Failed ELSE Min({n, room - at})]
  BY DEF WriteToFile, Size
<1> HIDE DEF t
<1>4. /\ Apart(new, S)
      /\ \A u \in S \ {s} : Chain(new, u) = Chain(fat, u)
      /\ Chain(new, s) = Chain(fat, s) \cup Taking(fat, t)
      /\ FreeBlocks(new) = FreeBlocks(fat) \ Taking(fat, t)
      /\ Size(new, s) = Size(fat, s) + t
  BY <1>2, GrowKeeps DEF Size
<1>5. /\ Taking(fat, t) \subseteq FreeBlocks(fat)
      /\ IsFiniteSet(Taking(fat, t)) /\ Cardinality(Taking(fat, t)) = t
  BY <1>2, TakingIs
<1>6. Size(fat, s) \in Nat /\ IsFiniteSet(FreeBlocks(fat))
  BY <1>1, SizeIs
<1>7. room \in Nat
  BY <1>2, <1>6, SizeAssumption
<1>8. w.fat = new /\ w.done = IF at >= room THEN Failed ELSE Min({n, room - at})
  BY <1>3
<1> HIDE DEF new
<1>9. room = Size(new, s) * BlockSize
  BY <1>4
<1> HIDE DEF room
<1>10. w.done = IF at >= room THEN Failed ELSE IF n <= room - at THEN n ELSE room - at
  BY <1>7, <1>8, MinOfTwo
<1>11. w.done = Failed \/ (w.done \in 1..n /\ at + w.done <= room)
  <2>1. CASE at >= room
    BY <2>1, <1>10
  <2>2. CASE ~(at >= room) /\ n <= room - at
    BY <2>2, <1>7, <1>10
  <2>3. CASE ~(at >= room) /\ ~(n <= room - at)
    <3>1. w.done = room - at
      BY <2>3, <1>10
    <3>2. w.done \in 1..n /\ at + w.done = room
      BY <2>3, <3>1, <1>7
    <3> QED BY <3>2, <1>7
  <2> QED BY <2>1, <2>2, <2>3
<1>12. at + n <= room => w.done = n
  BY <1>7, <1>10
<1>13. t = Cardinality(FreeBlocks(fat)) => FreeBlocks(new) = {}
  <2> SUFFICES ASSUME t = Cardinality(FreeBlocks(fat)) PROVE FreeBlocks(new) = {}
    OBVIOUS
  <2>1. Taking(fat, t) = FreeBlocks(fat)
    BY <1>5, <1>6, FS_Subset
  <2> QED BY <2>1, <1>4
<1>14. ASSUME t = 0
       PROVE  FreeBlocks(new) = FreeBlocks(fat) /\ Chain(new, s) = Chain(fat, s)
  <2>1. Taking(fat, t) = {}
    BY <1>14, <1>5, FS_EmptySet
  <2> QED BY <2>1, <1>4
<1>15. ASSUME t = 0 PROVE room = Size(fat, s) * BlockSize
  BY <1>15, <1>6 DEF room
<1>16. Chain(new, s) \cup FreeBlocks(new) = Chain(fat, s) \cup FreeBlocks(fat)
  BY <1>4, <1>5
<1>17. Size(fat, s) <= Size(new, s)
  BY <1>2, <1>4, <1>6
<1>18. w.done = n \/ FreeBlocks(new) = {}
  BY <1>2, <1>12, <1>13
<1>19. at + n <= Size(fat, s) * BlockSize =>
         w.done = n /\ FreeBlocks(new) = FreeBlocks(fat) /\ Chain(new, s) = Chain(fat, s)
  <2> SUFFICES ASSUME at + n <= Size(fat, s) * BlockSize
               PROVE  w.done = n /\ FreeBlocks(new) = FreeBlocks(fat) /\ Chain(new, s) = Chain(fat, s)
    OBVIOUS
  <2>1. t = 0
    BY <1>2
  <2> QED BY <2>1, <1>12, <1>14, <1>15
<1>20. ASSUME NEW m \in 1..n, at + m <= Size(fat, s) * BlockSize
       PROVE  w.done # Failed /\ m <= w.done
  <2> DEFINE X == Size(fat, s) * BlockSize
  <2>1. X \in Nat /\ X <= room
    <3>1. Size(fat, s) <= Size(fat, s) + t /\ Size(fat, s) + t \in Nat
      BY <1>2, <1>6
    <3>2. X \in Nat /\ X <= (Size(fat, s) + t) * BlockSize
      BY <3>1, <1>6, Times
    <3> QED BY <3>2 DEF room
  <2>2. at + m <= X
    BY <1>20
  <2> HIDE DEF X
  <2>3. ~(at >= room) /\ m <= room - at
    BY <2>1, <2>2, <1>7
  <2>4. w.done = n \/ w.done = room - at
    BY <2>3, <1>10
  <2> QED BY <2>3, <2>4, <1>7 DEF Failed
<1> QED BY <1>4, <1>8, <1>9, <1>11, <1>16, <1>17, <1>18, <1>19, <1>20 DEF Wrote
-----------------------------------------------------------------------------
(***************************************************************************)
(* The state of the file system, part by part.                             *)
(***************************************************************************)
Unit == [name : Names \cup {NoName}, size : Nat, start : Blocks]
File == [name : Names, size : Nat, start : Blocks \ {DirBlock}, open : Nat,
         marked : BOOLEAN]
Node == [live : BOOLEAN, name : Names \cup {NoName}, cursor : Nat]
Systems == [fat : Fats, dirSize : Nat, dir : [0..(MaxDirSize - 1) -> Unit],
            files : Seq(File), slot : [Fds -> Fds \cup {NoFd}],
            node : [Fds -> Node]]

\* No two files of a list have their name, or their first block, in common.
Distinct(list) ==
  \A i, j \in 1..Len(list) :
    i # j => list[i].name # list[j].name /\ list[i].start # list[j].start

\* The files of s and their blocks, among the chains of S; the directory's has
\* room for all the files but one.
Body(s, S) ==
  /\ s \in Systems
  /\ Apart(s.fat, S)
  /\ Distinct(s.files)
  /\ \A i \in Places(s) : s.files[i].start \in S
  /\ \A i \in Places(s) : s.files[i].size <= BlockSize * Size(s.fat, s.files[i].start)
  /\ Header + EntrySize * (Len(s.files) - 1) <= Size(s.fat, DirBlock) * BlockSize

\* The directory on disk is the list of files, or its beginning when the disk
\* is full.
Agrees(s) ==
  /\ s.dirSize <= MaxDirSize
  /\ s.dirSize <= EntrySize * Len(s.files) + 1
  /\ \A i \in 1..(s.dirSize \div EntrySize) :
       /\ i \in Places(s)
       /\ s.dir[EntrySize * i - 2] = OnDisk(s.files[i])
       /\ s.dir[EntrySize * i - 1] = OnDisk(s.files[i])
  /\ Recorded(s) \/ FreeBlocks(s.fat) = {}
  /\ Header + s.dirSize <= Size(s.fat, DirBlock) * BlockSize

Starts(s) == {DirBlock} \cup {s.files[i].start : i \in Places(s)}
Sound(s)  == Body(s, Starts(s)) /\ Agrees(s)
Used(s)   == Owned(s) \cup FreeBlocks(s.fat)

\* The file of a name; where there is none, a file nobody has open.
NoFile == [name |-> NoName, size |-> 0, start |-> 0, open |-> 0, marked |-> FALSE]
Named(s, x) == IF FindFile(s, x) = 0 THEN NoFile ELSE s.files[FindFile(s, x)]
-----------------------------------------------------------------------------
(***************************************************************************)
(* The list of files.                                                      *)
(***************************************************************************)
LEMMA FindIs ==
  ASSUME NEW s, Len(s.files) \in Nat, NEW x
  PROVE  \/ /\ FindFile(s, x) = 0
            /\ \A i \in 1..Len(s.files) : s.files[i].name # x
         \/ /\ FindFile(s, x) \in 1..Len(s.files)
            /\ s.files[FindFile(s, x)].name = x
<1> DEFINE I == {i \in 1..Len(s.files) : s.files[i].name = x}
<1>1. FindFile(s, x) = IF I # {} THEN Min(I) ELSE 0
  BY DEF FindFile, SelectInSeq
<1>2. I \subseteq Nat
  OBVIOUS
<1> HIDE DEF I
<1>3. I # {} => Min(I) \in I
  BY <1>2, MinIs
<1> QED BY <1>1, <1>3 DEF I

LEMMA FindSame ==
  ASSUME NEW s, NEW t, s.files = t.files, NEW x
  PROVE  FindFile(s, x) = FindFile(t, x) /\ Named(s, x) = Named(t, x)
<1>1. FindFile(s, x) = FindFile(t, x)
  BY DEF FindFile
<1> QED BY <1>1 DEF Named

LEMMA PlacesAre ==
  ASSUME NEW s, s.files \in Seq(File)
  PROVE  /\ Places(s) = 1..Len(s.files) /\ Len(s.files) \in Nat
         /\ \A i \in Places(s) : s.files[i] \in File
BY DEF Places

\* In a list of distinct files, the file of a name is the one that has it.
LEMMA NamedIs ==
  ASSUME NEW s, s.files \in Seq(File), Distinct(s.files), NEW i \in Places(s)
  PROVE  FindFile(s, s.files[i].name) = i /\ Named(s, s.files[i].name) = s.files[i]
<1>1. i \in 1..Len(s.files) /\ Len(s.files) \in Nat
  BY PlacesAre
<1> DEFINE k == FindFile(s, s.files[i].name)
<1>2. k \in 1..Len(s.files) /\ s.files[k].name = s.files[i].name
  BY <1>1, FindIs
<1> HIDE DEF k
<1>3. k = i /\ i # 0
  BY <1>1, <1>2 DEF Distinct
<1> QED BY <1>3 DEF k, Named

LEMMA NamedNone ==
  ASSUME NEW s, s.files \in Seq(File), NEW x, \A i \in Places(s) : s.files[i].name # x
  PROVE  FindFile(s, x) = 0 /\ Named(s, x) = NoFile
<1>1. Places(s) = 1..Len(s.files) /\ Len(s.files) \in Nat
  BY PlacesAre
<1>2. FindFile(s, x) = 0
  BY <1>1, FindIs
<1> QED BY <1>2 DEF Named

\* What is found is in the list, under the name looked for.
Found(s, x, i) ==
  /\ i \in Places(s) /\ s.files[i].name = x /\ x \in Names
  /\ s.files[i] \in File /\ Named(s, x) = s.files[i]

LEMMA FoundAt ==
  ASSUME NEW s, s.files \in Seq(File), NEW x
  PROVE  FindFile(s, x) = 0 \/ Found(s, x, FindFile(s, x))
<1> PICK i : i = FindFile(s, x)
  OBVIOUS
<1> SUFFICES ASSUME i # 0 PROVE Found(s, x, i)
  OBVIOUS
<1>1. Places(s) = 1..Len(s.files) /\ Len(s.files) \in Nat
      /\ \A j \in Places(s) : s.files[j] \in File
  BY PlacesAre
<1>2. i \in Places(s) /\ s.files[i].name = x
  BY <1>1, FindIs
<1>3. s.files[i] \in File
  BY <1>1, <1>2
<1>4. x \in Names
  BY <1>2, <1>3 DEF File
<1> QED BY <1>2, <1>3, <1>4 DEF Found, Named

LEMMA RemoveAtPlaces ==
  ASSUME NEW S, NEW l \in Seq(S), NEW i \in 1..Len(l)
  PROVE  /\ RemoveAt(l, i) \in Seq(S)
         /\ Len(RemoveAt(l, i)) = Len(l) - 1
         /\ \A j \in 1..(Len(l) - 1) :
               RemoveAt(l, i)[j] = IF j < i THEN l[j] ELSE l[j + 1]
<1> DEFINE a == SubSeq(l, 1, i - 1)
           b == SubSeq(l, i + 1, Len(l))
<1>1. a \in Seq(S) /\ Len(a) = i - 1 /\ \A j \in 1..(i - 1) : a[j] = l[j]
  BY SubSeqProperties
<1>2. b \in Seq(S) /\ Len(b) = Len(l) - i /\ \A j \in 1..(Len(l) - i) : b[j] = l[i + j]
  BY SubSeqProperties
<1>3. RemoveAt(l, i) = a \o b
  BY DEF RemoveAt
<1> HIDE DEF a, b
<1>4. a \o b \in Seq(S) /\ Len(a \o b) = Len(a) + Len(b)
  BY <1>1, <1>2, ConcatProperties
<1>5. \A j \in 1..(Len(l) - 1) : (a \o b)[j] = IF j < i THEN l[j] ELSE l[j + 1]
  BY <1>1, <1>2, ConcatProperties
<1>6. Len(a \o b) = Len(l) - 1
  BY <1>1, <1>2, <1>4
<1> QED BY <1>3, <1>4, <1>5, <1>6

\* The lists that come of a list of distinct files.
RemovedFrom(s, i, t) ==
  /\ t.files \in Seq(File) /\ Distinct(t.files) /\ Len(t.files) = Len(s.files) - 1
  /\ \A j \in Places(t) : \E k \in Places(s) \ {i} : t.files[j] = s.files[k]
  /\ \A k \in Places(s) \ {i} : \E j \in Places(t) : t.files[j] = s.files[k]
  /\ \A x : Named(t, x) = IF x = s.files[i].name THEN NoFile ELSE Named(s, x)

LEMMA Removed ==
  ASSUME NEW s, s.files \in Seq(File), Distinct(s.files), NEW i \in Places(s),
         NEW t, t.files = RemoveAt(s.files, i)
  PROVE  RemovedFrom(s, i, t)
<1> DEFINE n == Len(s.files)
<1>1. i \in 1..n /\ n \in Nat /\ Places(s) = 1..n
  BY PlacesAre
<1>2. /\ t.files \in Seq(File) /\ Len(t.files) = n - 1
      /\ \A j \in 1..(n - 1) : t.files[j] = IF j < i THEN s.files[j] ELSE s.files[j + 1]
  BY <1>1, RemoveAtPlaces
<1>3. Places(t) = 1..(n - 1)
  BY <1>2, PlacesAre
<1> DEFINE from(j) == IF j < i THEN j ELSE j + 1
<1>4. \A j \in Places(t) : from(j) \in Places(s) \ {i} /\ t.files[j] = s.files[from(j)]
  BY <1>1, <1>2, <1>3
<1>5. \A j, k \in Places(t) : j # k => from(j) # from(k)
  BY <1>1, <1>3
<1>6. Distinct(t.files)
  <2> SUFFICES ASSUME NEW j \in Places(t), NEW k \in Places(t), j # k
               PROVE  t.files[j].name # t.files[k].name /\ t.files[j].start # t.files[k].start
    BY <1>2, <1>3 DEF Distinct
  <2>1. from(j) \in 1..n /\ from(k) \in 1..n /\ from(j) # from(k)
    BY <1>1, <1>4, <1>5
  <2>2. t.files[j] = s.files[from(j)] /\ t.files[k] = s.files[from(k)]
    BY <1>4
  <2> HIDE DEF from, n
  <2> QED BY <2>1, <2>2 DEF Distinct, n
<1>7. ASSUME NEW k \in Places(s) \ {i}
      PROVE  \E j \in Places(t) : t.files[j] = s.files[k]
  <2>1. CASE k < i
    <3>1. k \in Places(t) /\ t.files[k] = s.files[k]
      BY <1>1, <1>2, <1>3, <2>1
    <3> QED BY <3>1
  <2>2. CASE ~(k < i)
    <3>1. k - 1 \in Places(t) /\ t.files[k - 1] = s.files[k]
      BY <1>1, <1>2, <1>3, <2>2
    <3> QED BY <3>1
  <2> QED BY <2>1, <2>2
<1>8. \A j \in Places(t) : \E k \in Places(s) \ {i} : t.files[j] = s.files[k]
  BY <1>4
<1> HIDE DEF n, from
<1>9. ASSUME NEW x
      PROVE  Named(t, x) = IF x = s.files[i].name THEN NoFile ELSE Named(s, x)
  <2>1. CASE \E j \in Places(t) : t.files[j].name = x
    <3>1. PICK j \in Places(t) : t.files[j].name = x
      BY <2>1
    <3>2. PICK k \in Places(s) \ {i} : t.files[j] = s.files[k]
      BY <1>8
    <3>3. Named(t, x) = t.files[j]
      BY <1>2, <1>6, <3>1, NamedIs
    <3>4. Named(s, x) = s.files[k]
      BY <3>1, <3>2, NamedIs
    <3>5. x # s.files[i].name
      BY <3>1, <3>2, <1>1 DEF Distinct, n
    <3> QED BY <3>2, <3>3, <3>4, <3>5
  <2>2. CASE \A j \in Places(t) : t.files[j].name # x
    <3>1. Named(t, x) = NoFile
      BY <1>2, <2>2, NamedNone
    <3>2. \A k \in Places(s) \ {i} : s.files[k].name # x
      BY <1>7, <2>2
    <3>3. x # s.files[i].name => Named(s, x) = NoFile
      BY <3>2, NamedNone
    <3> QED BY <3>1, <3>3
  <2> QED BY <2>1, <2>2
<1> QED BY <1>2, <1>6, <1>7, <1>8, <1>9 DEF n, RemovedFrom

ChangedIn(s, i, f, t) ==
  /\ t.files \in Seq(File) /\ Distinct(t.files) /\ Len(t.files) = Len(s.files)
  /\ Places(t) = Places(s)
  /\ \A j \in Places(s) : t.files[j] = IF j = i THEN f ELSE s.files[j]
  /\ \A x : FindFile(t, x) = FindFile(s, x)
  /\ \A x : Named(t, x) = IF x = f.name THEN f ELSE Named(s, x)

LEMMA Changed ==
  ASSUME NEW s, s.files \in Seq(File), Distinct(s.files), NEW i \in Places(s),
         NEW f \in File, f.name = s.files[i].name, f.start = s.files[i].start,
         NEW t, t.files = [s.files EXCEPT ![i] = f]
  PROVE  ChangedIn(s, i, f, t)
<1> DEFINE n == Len(s.files)
<1>1. i \in 1..n /\ n \in Nat /\ Places(s) = 1..n
  BY PlacesAre
<1>2. t.files \in Seq(File) /\ Len(t.files) = n
  BY <1>1
<1>3. Places(t) = 1..n
  BY <1>2, PlacesAre
<1>4. \A j \in 1..n : t.files[j] = IF j = i THEN f ELSE s.files[j]
  BY <1>1
<1>5. \A j \in 1..n : t.files[j].name = s.files[j].name /\ t.files[j].start = s.files[j].start
  BY <1>4
<1>6. Distinct(t.files)
  BY <1>2, <1>5 DEF Distinct
<1> HIDE DEF n
<1>7. ASSUME NEW x
      PROVE  /\ FindFile(t, x) = FindFile(s, x)
             /\ Named(t, x) = IF x = f.name THEN f ELSE Named(s, x)
  <2>1. CASE \E j \in Places(t) : t.files[j].name = x
    <3>1. PICK j \in Places(t) : t.files[j].name = x
      BY <2>1
    <3>2. j \in Places(s) /\ s.files[j].name = x
      BY <1>1, <1>3, <1>5, <3>1
    <3>3. FindFile(t, x) = j /\ Named(t, x) = t.files[j]
      BY <1>2, <1>6, <3>1, NamedIs
    <3>4. FindFile(s, x) = j /\ Named(s, x) = s.files[j]
      BY <3>2, NamedIs
    <3>5. x = f.name <=> j = i
      BY <1>1, <3>2, NamedIs
    <3> QED BY <1>1, <1>4, <3>2, <3>3, <3>4, <3>5
  <2>2. CASE \A j \in Places(t) : t.files[j].name # x
    <3>1. FindFile(t, x) = 0 /\ Named(t, x) = NoFile
      BY <1>2, <2>2, NamedNone
    <3>2. \A k \in Places(s) : s.files[k].name # x
      BY <1>1, <1>3, <1>5, <2>2
    <3>3. FindFile(s, x) = 0 /\ Named(s, x) = NoFile
      BY <3>2, NamedNone
    <3> QED BY <3>1, <3>2, <3>3
  <2> QED BY <2>1, <2>2
<1> QED BY <1>1, <1>2, <1>3, <1>4, <1>6, <1>7 DEF n, ChangedIn

AddedTo(s, f, t) ==
  /\ t.files \in Seq(File) /\ Distinct(t.files) /\ Len(t.files) = Len(s.files) + 1
  /\ Places(t) = Places(s) \cup {Len(s.files) + 1}
  /\ \A j \in Places(s) : t.files[j] = s.files[j]
  /\ t.files[Len(s.files) + 1] = f
  /\ \A x : Named(t, x) = IF x = f.name THEN f ELSE Named(s, x)

LEMMA Added ==
  ASSUME NEW s, s.files \in Seq(File), Distinct(s.files),
         NEW f \in File, \A i \in Places(s) : s.files[i].name # f.name /\ s.files[i].start # f.start,
         NEW t, t.files = Append(s.files, f)
  PROVE  AddedTo(s, f, t)
<1> DEFINE n == Len(s.files)
<1>1. n \in Nat /\ Places(s) = 1..n
  BY PlacesAre
<1>2. /\ t.files \in Seq(File) /\ Len(t.files) = n + 1 /\ t.files[n + 1] = f
      /\ \A j \in 1..n : t.files[j] = s.files[j]
  BY <1>1, AppendProperties
<1>3. Places(t) = 1..(n + 1) /\ 1..(n + 1) = (1..n) \cup {n + 1}
  <2>1. Places(t) = 1..(n + 1)
    BY <1>2, PlacesAre
  <2> QED BY <1>1, <2>1
<1>4. Distinct(t.files)
  <2> SUFFICES ASSUME NEW j \in (1..n) \cup {n + 1}, NEW k \in (1..n) \cup {n + 1}, j # k
               PROVE  t.files[j].name # t.files[k].name /\ t.files[j].start # t.files[k].start
    BY <1>2, <1>3 DEF Distinct
  <2>1. CASE j \in 1..n /\ k \in 1..n
    BY <2>1, <1>2 DEF Distinct
  <2>2. CASE j = n + 1 /\ k \in 1..n
    BY <2>2, <1>1, <1>2
  <2>3. CASE j \in 1..n /\ k = n + 1
    BY <2>3, <1>1, <1>2
  <2> QED BY <2>1, <2>2, <2>3
<1>5. Places(t) = Places(s) \cup {n + 1} /\ n + 1 \in Places(t)
  BY <1>1, <1>3
<1> HIDE DEF n
<1>6. ASSUME NEW x
      PROVE  Named(t, x) = IF x = f.name THEN f ELSE Named(s, x)
  <2>1. CASE x = f.name
    BY <1>2, <1>4, <1>5, <2>1, NamedIs
  <2>2. CASE x # f.name /\ \E j \in Places(s) : s.files[j].name = x
    <3>1. PICK j \in Places(s) : s.files[j].name = x
      BY <2>2
    <3>2. t.files[j] = s.files[j] /\ j \in Places(t)
      BY <1>1, <1>2, <1>5
    <3>3. Named(t, x) = t.files[j] /\ Named(s, x) = s.files[j]
      BY <1>2, <1>4, <3>1, <3>2, NamedIs
    <3> QED BY <2>2, <3>2, <3>3
  <2>3. CASE x # f.name /\ \A j \in Places(s) : s.files[j].name # x
    <3>1. \A j \in Places(t) : t.files[j].name # x
      BY <1>1, <1>2, <1>5, <2>3
    <3>2. Named(t, x) = NoFile
      BY <1>2, <3>1, NamedNone
    <3>3. Named(s, x) = NoFile
      BY <2>3, NamedNone
    <3> QED BY <2>3, <3>2, <3>3
  <2> QED BY <2>1, <2>2, <2>3
<1> QED BY <1>1, <1>2, <1>4, <1>5, <1>6 DEF n, AddedTo
-----------------------------------------------------------------------------
(***************************************************************************)
(* The directory.                                                          *)
(***************************************************************************)
LEMMA MaxDirSizeIs ==
  /\ MaxDirSize \in Nat
  /\ \A list \in Seq(File) : Distinct(list) => EntrySize * Len(list) <= MaxDirSize
<1>1. Cardinality(Names) \in Nat
  BY NamesAssumption, FS_CardinalityType
<1>2. ASSUME NEW list \in Seq(File), Distinct(list)
      PROVE  Len(list) <= Cardinality(Names)
  <2> DEFINE n == Len(list)
             f == [i \in 1..n |-> list[i].name]
  <2>0. n \in Nat /\ \A i \in 1..n : list[i] \in File
    OBVIOUS
  <2>1. n \in Nat /\ \A i \in 1..n : list[i].name \in Names
    BY <2>0 DEF File
  <2>2. f \in [1..n -> Names] /\ \A i, j \in 1..n : f[i] = f[j] => i = j
    BY <1>2, <2>1 DEF Distinct
  <2> HIDE DEF f, n
  <2>3. f \in Injection(1..n, Names)
    BY <2>2 DEF Injection, IsInjective
  <2>4. Cardinality(1..n) <= Cardinality(Names)
    BY <2>3, NamesAssumption, FS_Injection
  <2>5. Cardinality(1..n) = n
    BY <2>1, FS_Interval
  <2> QED BY <2>4, <2>5 DEF n
<1>3. ASSUME NEW list \in Seq(File), Distinct(list)
      PROVE  EntrySize * Len(list) <= MaxDirSize
  <2>1. Len(list) \in Nat /\ Len(list) <= Cardinality(Names)
    BY <1>2, <1>3
  <2> QED BY <1>1, <2>1 DEF EntrySize, MaxDirSize
<1> QED BY <1>1, <1>3 DEF EntrySize, MaxDirSize

\* The entries of `list' written from offset `at' on, as far as they go.
Exports(s, S, at, list, t) ==
  /\ t \in Systems /\ Apart(t.fat, S)
  /\ t.files = s.files /\ t.slot = s.slot /\ t.node = s.node
  /\ \A u \in S \ {DirBlock} : Chain(t.fat, u) = Chain(s.fat, u)
  /\ Chain(s.fat, DirBlock) \cup FreeBlocks(s.fat)
       = Chain(t.fat, DirBlock) \cup FreeBlocks(t.fat)
  /\ Size(s.fat, DirBlock) <= Size(t.fat, DirBlock)
  /\ at <= t.dirSize /\ t.dirSize <= at + EntrySize * Len(list)
  /\ t.dirSize = at + EntrySize * Len(list) \/ FreeBlocks(t.fat) = {}
  /\ Header + at <= Size(s.fat, DirBlock) * BlockSize =>
       Header + t.dirSize <= Size(t.fat, DirBlock) * BlockSize
  /\ Header + at + EntrySize * Len(list) <= Size(s.fat, DirBlock) * BlockSize =>
       /\ t.dirSize = at + EntrySize * Len(list)
       /\ FreeBlocks(t.fat) = FreeBlocks(s.fat)
       /\ Chain(t.fat, DirBlock) = Chain(s.fat, DirBlock)
  /\ \A m \in 1..(EntrySize * Len(list)) :
       Header + at + m <= Size(s.fat, DirBlock) * BlockSize => at + m <= t.dirSize
  /\ \A o \in 0..(MaxDirSize - 1) :
       t.dir[o] = IF o < at THEN s.dir[o]
                  ELSE IF o < t.dirSize
                  THEN OnDisk(list[(o - at) \div EntrySize + 1])
                  ELSE NoUnit

LEMMA Exported ==
  ASSUME NEW s \in Systems, NEW S, Apart(s.fat, S), NEW at \in Nat,
         NEW list \in Seq(File), list # <<>>,
         NEW t, t = Export(s, at, list)
  PROVE  Exports(s, S, at, list, t)
<1> DEFINE n   == EntrySize * Len(list)
           w   == WriteToFile(s.fat, DirBlock, Header + at, n)
           end == at + Max({0, w.done})
           dir == [o \in 0..(MaxDirSize - 1) |->
                     IF o < at THEN s.dir[o]
                     ELSE IF o < end THEN OnDisk(list[(o - at) \div EntrySize + 1])
                     ELSE NoUnit]
<1>1. DirBlock \in S /\ s.fat \in Fats /\ DirBlock \in Blocks /\ Header + at \in Nat /\ Header = 1
  BY DEF Apart, Header
<1>2. Len(list) \in Nat /\ Len(list) # 0 /\ \A i \in 1..Len(list) : list[i] \in File
  BY EmptySeq, LenProperties
<1>3. n \in Nat \ {0}
  BY <1>2 DEF EntrySize
<1>4. DOMAIN s.dir = 0..(MaxDirSize - 1) /\ \A o \in 0..(MaxDirSize - 1) : s.dir[o] \in Unit
  BY DEF Systems
<1>5. t = [s EXCEPT !.fat = w.fat, !.dir = dir, !.dirSize = end]
  BY <1>4 DEF Export
<1> HIDE DEF w
<1>6. /\ Apart(w.fat, S)
      /\ \A u \in S \ {DirBlock} : Chain(w.fat, u) = Chain(s.fat, u)
      /\ Chain(w.fat, DirBlock) \cup FreeBlocks(w.fat)
           = Chain(s.fat, DirBlock) \cup FreeBlocks(s.fat)
      /\ Size(s.fat, DirBlock) <= Size(w.fat, DirBlock)
      /\ \/ w.done = Failed
         \/ w.done \in 1..n /\ Header + at + w.done <= Size(w.fat, DirBlock) * BlockSize
      /\ w.done = n \/ FreeBlocks(w.fat) = {}
      /\ Header + at + n <= Size(s.fat, DirBlock) * BlockSize =>
           /\ w.done = n /\ FreeBlocks(w.fat) = FreeBlocks(s.fat)
           /\ Chain(w.fat, DirBlock) = Chain(s.fat, DirBlock)
      /\ \A m \in 1..n : Header + at + m <= Size(s.fat, DirBlock) * BlockSize =>
           w.done # Failed /\ m <= w.done
  <2> HIDE DEF n
  <2>1. w = WriteToFile(s.fat, DirBlock, Header + at, n)
    BY DEF w
  <2> DEFINE fat == s.fat
             off == Header + at
  <2>2. /\ Apart(fat, S) /\ w = WriteToFile(fat, DirBlock, off, n)
        /\ off \in Nat /\ n \in Nat \ {0} /\ DirBlock \in S
    BY <1>1, <1>3, <2>1
  <2> HIDE DEF end, dir, fat, off
  <2>3. Wrote(fat, S, DirBlock, off, n, w)
    BY <2>2, WriteKeeps
  <2> QED BY <2>3 DEF fat, off, Wrote
<1>7. w.fat \in Fats
  BY <1>6 DEF Apart
<1>8. w.done \in Int /\ end = at + (IF 0 >= w.done THEN 0 ELSE w.done)
  BY <1>3, <1>6, MaxOfTwo DEF Failed
<1>9. end \in Nat /\ at <= end /\ end <= at + n /\ (w.done = n => end = at + n)
  BY <1>3, <1>6, <1>8 DEF Failed
<1>10. t.fat = w.fat /\ t.dir = dir /\ t.dirSize = end
       /\ t.files = s.files /\ t.slot = s.slot /\ t.node = s.node
  BY <1>5 DEF Systems
<1> HIDE DEF end
<1>11. dir \in [0..(MaxDirSize - 1) -> Unit]
  <2> SUFFICES ASSUME NEW o \in 0..(MaxDirSize - 1)
               PROVE  dir[o] \in Unit
    OBVIOUS
  <2>1. NoUnit \in Unit
    BY BlocksAreNats DEF NoUnit, Unit
  <2>2. ASSUME ~(o < at), o < end
        PROVE  OnDisk(list[(o - at) \div EntrySize + 1]) \in Unit
    <3>1. (o - at) \div EntrySize + 1 \in 1..Len(list)
      <4>1. o - at \in Nat /\ o - at < 2 * Len(list) /\ MaxDirSize \in Nat
        BY <2>2, <1>9, MaxDirSizeIs DEF EntrySize
      <4>2. (o - at) \div 2 \in Nat /\ (o - at) \div 2 < Len(list)
        BY <4>1, <1>2
      <4> QED BY <4>2, <1>2 DEF EntrySize
    <3>2. list[(o - at) \div EntrySize + 1] \in File
      BY <3>1, <1>2
    <3> QED BY <3>2 DEF OnDisk, File, Unit
  <2>3. s.dir[o] \in Unit
    BY <1>4
  <2> QED BY <2>1, <2>2, <2>3
<1>12. t \in Systems
  BY <1>5, <1>7, <1>9, <1>11 DEF Systems
<1>13. end = at + n \/ FreeBlocks(w.fat) = {}
  BY <1>6, <1>9
<1>14. Header + at <= Size(s.fat, DirBlock) * BlockSize =>
         Header + end <= Size(w.fat, DirBlock) * BlockSize
  <2> SUFFICES ASSUME Header + at <= Size(s.fat, DirBlock) * BlockSize
               PROVE  Header + end <= Size(w.fat, DirBlock) * BlockSize
    OBVIOUS
  <2>1. Size(s.fat, DirBlock) \in Nat /\ Size(w.fat, DirBlock) \in Nat
    BY <1>1, <1>7, SizeIs
  <2>2. /\ Size(s.fat, DirBlock) * BlockSize <= Size(w.fat, DirBlock) * BlockSize
        /\ Size(s.fat, DirBlock) * BlockSize \in Nat /\ Size(w.fat, DirBlock) * BlockSize \in Nat
    BY <2>1, <1>6, Times
  <2> DEFINE X == Size(s.fat, DirBlock) * BlockSize
             Y == Size(w.fat, DirBlock) * BlockSize
  <2>3. X \in Nat /\ Y \in Nat /\ X <= Y /\ Header + at <= X
        /\ (w.done = Failed \/ (w.done \in 1..n /\ Header + at + w.done <= Y))
    BY <2>2, <1>6
  <2> HIDE DEF X, Y, n
  <2>4. Header + end <= Y
    BY <2>3, <1>1, <1>3, <1>8 DEF Failed
  <2> QED BY <2>4 DEF Y
<1>15. Header + at + n <= Size(s.fat, DirBlock) * BlockSize =>
         /\ end = at + n /\ FreeBlocks(w.fat) = FreeBlocks(s.fat)
         /\ Chain(w.fat, DirBlock) = Chain(s.fat, DirBlock)
  BY <1>6, <1>9
<1>16. \A o \in 0..(MaxDirSize - 1) :
         t.dir[o] = IF o < at THEN s.dir[o]
                    ELSE IF o < end THEN OnDisk(list[(o - at) \div EntrySize + 1])
                    ELSE NoUnit
  BY <1>10
<1> HIDE DEF dir
<1>17. ASSUME NEW m \in 1..n, Header + at + m <= Size(s.fat, DirBlock) * BlockSize
       PROVE  at + m <= end
  <2>1. w.done # Failed /\ m <= w.done
    BY <1>6, <1>17
  <2> HIDE DEF n
  <2>2. end = at + w.done /\ w.done \in Nat
    BY <2>1, <1>3, <1>6, <1>8 DEF Failed
  <2> QED BY <2>1, <2>2, <1>3
<1> QED BY <1>6, <1>9, <1>10, <1>12, <1>13, <1>14, <1>15, <1>16, <1>17 DEF Exports

\* The list of files fits the directory as it is.
Fits(s) == Header + EntrySize * Len(s.files) <= Size(s.fat, DirBlock) * BlockSize

\* What export_file_list makes of s: the same files, and a directory that
\* agrees with them.
Refreshed(s, S, t) ==
  /\ Body(t, S) /\ Agrees(t)
  /\ t.files = s.files /\ t.slot = s.slot /\ t.node = s.node
  /\ \A u \in S \ {DirBlock} : Chain(t.fat, u) = Chain(s.fat, u)
  /\ Chain(s.fat, DirBlock) \cup FreeBlocks(s.fat)
       = Chain(t.fat, DirBlock) \cup FreeBlocks(t.fat)
  /\ Fits(s) => Recorded(t)
  /\ EntrySize * (Len(s.files) - 1) <= t.dirSize

LEMMA DirectoryHasRoom ==
  ASSUME NEW s \in Systems
  PROVE  /\ Size(s.fat, DirBlock) \in Nat /\ Size(s.fat, DirBlock) * BlockSize \in Nat
         /\ Header <= Size(s.fat, DirBlock) * BlockSize
<1>1. s.fat \in Fats /\ DirBlock \in Blocks
  BY BlocksAreNats DEF Systems
<1>2. Size(s.fat, DirBlock) \in Nat /\ Size(s.fat, DirBlock) >= 1
  BY <1>1, SizeIs
<1>3. 1 * BlockSize <= Size(s.fat, DirBlock) * BlockSize
  BY <1>2, Times
<1>4. BlockSize \in Nat /\ BlockSize >= 1
  BY SizeAssumption
<1>5. Size(s.fat, DirBlock) * BlockSize \in Nat
  BY <1>2, <1>4
<1> DEFINE X == Size(s.fat, DirBlock) * BlockSize
<1>6. X \in Nat /\ 1 * BlockSize <= X
  BY <1>3, <1>5
<1> HIDE DEF X
<1>7. 1 <= X
  BY <1>4, <1>6
<1> QED BY <1>2, <1>5, <1>7 DEF X, Header

LEMMA FileListExported ==
  ASSUME NEW s, NEW S, Body(s, S), NEW t, t = ExportFileList(s)
  PROVE  Refreshed(s, S, t)
<1> DEFINE n == Len(s.files)
<1>1. /\ s \in Systems /\ s.files \in Seq(File) /\ Apart(s.fat, S) /\ Distinct(s.files)
      /\ \A i \in Places(s) : s.files[i].start \in S
      /\ \A i \in Places(s) : s.files[i].size <= BlockSize * Size(s.fat, s.files[i].start)
      /\ Header + EntrySize * (n - 1) <= Size(s.fat, DirBlock) * BlockSize
  BY DEF Body, Systems
<1>2. n \in Nat /\ Places(s) = 1..n /\ \A i \in 1..n : s.files[i] \in File
  BY <1>1, PlacesAre
<1>3. t = Export(s, 0, s.files)
  BY DEF ExportFileList
<1>4. CASE s.files = <<>>
  <2> DEFINE dir == [o \in 0..(MaxDirSize - 1) |-> NoUnit]
  <2>1. n = 0
    BY <1>4
  <2>2. t = [s EXCEPT !.dir = dir, !.dirSize = 0]
    <3>1. DOMAIN s.dir = 0..(MaxDirSize - 1) /\ \A o \in 0..(MaxDirSize - 1) : ~(o < 0)
      BY <1>1, MaxDirSizeIs DEF Systems
    <3>2. t = [s EXCEPT !.fat = @, !.dir = dir, !.dirSize = 0]
      BY <1>3, <1>4, <3>1 DEF Export
    <3> HIDE DEF dir
    <3> QED BY <3>2, <1>1 DEF Systems
  <2>3. dir \in [0..(MaxDirSize - 1) -> Unit]
    BY BlocksAreNats DEF NoUnit, Unit
  <2> HIDE DEF dir
  <2>4. t \in Systems
    <3> DEFINE D == [0..(MaxDirSize - 1) -> Unit]
               L == Seq(File)
    <3>1. dir \in D /\ 0 \in Nat
      BY <2>3
    <3>2. s \in [fat : Fats, dirSize : Nat, dir : D, files : L,
                 slot : [Fds -> Fds \cup {NoFd}], node : [Fds -> Node]]
      BY <1>1 DEF Systems
    <3> HIDE DEF D, L
    <3>3. t \in [fat : Fats, dirSize : Nat, dir : D, files : L,
                 slot : [Fds -> Fds \cup {NoFd}], node : [Fds -> Node]]
      BY <2>2, <3>1, <3>2
    <3> QED BY <3>3 DEF D, L, Systems
  <2>5. t.fat = s.fat /\ t.files = s.files /\ t.slot = s.slot /\ t.node = s.node /\ t.dirSize = 0
    BY <2>2, <1>1 DEF Systems
  <2>6. Body(t, S)
    BY <1>1, <2>4, <2>5 DEF Body, Places
  <2>7. Header + 0 <= Size(t.fat, DirBlock) * BlockSize
    BY <2>4, DirectoryHasRoom DEF Header
  <2>8. Recorded(t)
    BY <2>1, <2>5 DEF Recorded, EntrySize
  <2>9. Agrees(t)
    <3>1. t.dirSize \div EntrySize = 0
      BY <2>5 DEF EntrySize
    <3> QED BY <2>1, <2>5, <2>7, <2>8, <3>1, MaxDirSizeIs DEF Agrees, EntrySize
  <2>10. EntrySize * (n - 1) <= t.dirSize
    BY <2>1, <2>5 DEF EntrySize
  <2> QED BY <2>5, <2>6, <2>8, <2>9, <2>10 DEF Refreshed
<1>5. CASE s.files # <<>>
  <2>1. Exports(s, S, 0, s.files, t)
    <3> DEFINE list == s.files
    <3>1. list \in Seq(File) /\ list # <<>> /\ t = Export(s, 0, list)
      BY <1>1, <1>3, <1>5
    <3> HIDE DEF list
    <3>2. Exports(s, S, 0, list, t)
      BY <1>1, <3>1, Exported
    <3> QED BY <3>2 DEF list
  <2>2. /\ t \in Systems /\ Apart(t.fat, S)
        /\ t.files = s.files /\ t.slot = s.slot /\ t.node = s.node
        /\ \A u \in S \ {DirBlock} : Chain(t.fat, u) = Chain(s.fat, u)
        /\ Chain(s.fat, DirBlock) \cup FreeBlocks(s.fat)
             = Chain(t.fat, DirBlock) \cup FreeBlocks(t.fat)
        /\ Size(s.fat, DirBlock) <= Size(t.fat, DirBlock)
    BY <2>1 DEF Exports
  <2>3. /\ 0 <= t.dirSize /\ t.dirSize <= 0 + EntrySize * n
        /\ t.dirSize = 0 + EntrySize * n \/ FreeBlocks(t.fat) = {}
        /\ Header + 0 <= Size(s.fat, DirBlock) * BlockSize =>
             Header + t.dirSize <= Size(t.fat, DirBlock) * BlockSize
        /\ Header + 0 + EntrySize * n <= Size(s.fat, DirBlock) * BlockSize =>
             t.dirSize = 0 + EntrySize * n
    BY <2>1 DEF Exports
  <2>4. \A o \in 0..(MaxDirSize - 1) :
          ~(o < 0) /\ o < t.dirSize => t.dir[o] = OnDisk(s.files[(o - 0) \div EntrySize + 1])
    BY <2>1 DEF Exports
  <2>5. t.dirSize \in Nat /\ EntrySize * n <= MaxDirSize /\ MaxDirSize \in Nat
    BY <2>2, <1>1, MaxDirSizeIs DEF Systems
  <2>6. Places(t) = Places(s) /\ (Recorded(t) <=> t.dirSize = EntrySize * n)
    BY <2>2 DEF Places, Recorded
  <2>7. /\ Size(s.fat, DirBlock) * BlockSize \in Nat /\ Size(t.fat, DirBlock) * BlockSize \in Nat
        /\ Header <= Size(s.fat, DirBlock) * BlockSize
        /\ Size(s.fat, DirBlock) * BlockSize <= Size(t.fat, DirBlock) * BlockSize
    BY <1>1, <2>2, DirectoryHasRoom, Times
  <2>8. Body(t, S)
    <3>1. \A i \in Places(s) : s.files[i].start \in S \ {DirBlock}
      BY <1>1, <1>2 DEF File
    <3>2. \A i \in Places(s) : Size(t.fat, s.files[i].start) = Size(s.fat, s.files[i].start)
      BY <2>2, <3>1 DEF Size
    <3>3. \A i \in Places(s) : s.files[i].size <= BlockSize * Size(t.fat, s.files[i].start)
      BY <1>1, <3>2
    <3>4. Header + EntrySize * (n - 1) <= Size(t.fat, DirBlock) * BlockSize
      <4> DEFINE X == Size(s.fat, DirBlock) * BlockSize
                 Y == Size(t.fat, DirBlock) * BlockSize
      <4>1. X \in Nat /\ Y \in Nat /\ X <= Y /\ Header + EntrySize * (n - 1) <= X
        BY <1>1, <2>7
      <4> HIDE DEF X, Y, n
      <4>2. Header + EntrySize * (n - 1) <= Y
        BY <4>1, <1>2 DEF Header, EntrySize
      <4> QED BY <4>2 DEF Y
    <3>5. Len(t.files) = n /\ \A i \in Places(t) : t.files[i] = s.files[i] /\ i \in Places(s)
      BY <2>2, <2>6
    <3>6. /\ \A i \in Places(t) : t.files[i].start \in S
          /\ \A i \in Places(t) : t.files[i].size <= BlockSize * Size(t.fat, t.files[i].start)
      BY <1>1, <3>3, <3>5
    <3>7. Distinct(t.files)
      BY <1>1, <2>2
    <3> HIDE DEF n
    <3>8. Header + EntrySize * (Len(t.files) - 1) <= Size(t.fat, DirBlock) * BlockSize
      BY <3>4, <3>5
    <3> QED BY <2>2, <3>6, <3>7, <3>8 DEF Body
  <2>9. ASSUME NEW i \in 1..(t.dirSize \div EntrySize)
        PROVE  /\ i \in Places(t)
               /\ t.dir[EntrySize * i - 2] = OnDisk(t.files[i])
               /\ t.dir[EntrySize * i - 1] = OnDisk(t.files[i])
    <3> HIDE DEF n
    <3>0. t.dirSize <= 2 * n
      BY <1>2, <2>3, <2>5 DEF EntrySize
    <3>1. i \in Nat /\ i >= 1 /\ 2 * i <= t.dirSize
      BY <2>5 DEF EntrySize
    <3>2. i \in 1..n
      BY <1>2, <2>5, <3>0, <3>1
    <3>3. \A o \in {2 * i - 2, 2 * i - 1} :
            /\ o \in 0..(MaxDirSize - 1) /\ ~(o < 0) /\ o < t.dirSize
            /\ (o - 0) \div EntrySize + 1 = i
      BY <2>5, <1>2, <3>0, <3>1 DEF EntrySize
    <3>4. \A o \in {2 * i - 2, 2 * i - 1} : t.dir[o] = OnDisk(s.files[i])
      BY <2>4, <3>3
    <3>5. EntrySize * i - 2 = 2 * i - 2 /\ EntrySize * i - 1 = 2 * i - 1
      BY DEF EntrySize
    <3> QED BY <1>2, <2>2, <2>6, <3>2, <3>4, <3>5
  <2>10. Agrees(t)
    <3>1. t.dirSize <= MaxDirSize /\ t.dirSize <= EntrySize * n + 1
      BY <1>2, <2>3, <2>5 DEF EntrySize
    <3>2. Recorded(t) \/ FreeBlocks(t.fat) = {}
      BY <1>2, <2>3, <2>6 DEF EntrySize
    <3>3. Header + t.dirSize <= Size(t.fat, DirBlock) * BlockSize
      BY <2>3, <2>7 DEF Header
    <3>4. Len(t.files) = n
      BY <2>2
    <3> QED BY <2>9, <3>1, <3>2, <3>3, <3>4 DEF Agrees
  <2>11. Fits(s) => Recorded(t)
    BY <1>2, <2>3, <2>6 DEF Fits, Header, EntrySize
  <2>12. EntrySize * (n - 1) <= t.dirSize
    <3>1. n \in Nat \ {0}
      BY <1>1, <1>2, <1>5, EmptySeq
    <3>2. \A m \in 1..(EntrySize * n) :
            Header + 0 + m <= Size(s.fat, DirBlock) * BlockSize => 0 + m <= t.dirSize
      BY <2>1 DEF Exports
    <3> DEFINE X == Size(s.fat, DirBlock) * BlockSize
    <3>3. X \in Nat /\ Header + EntrySize * (n - 1) <= X
          /\ \A m \in 1..(EntrySize * n) : Header + 0 + m <= X => 0 + m <= t.dirSize
      BY <1>1, <2>7, <3>2
    <3> HIDE DEF X, n
    <3>4. CASE n = 1
      BY <3>4, <2>5 DEF EntrySize
    <3>5. CASE n # 1
      <4>1. EntrySize * (n - 1) \in 1..(EntrySize * n)
        BY <3>1, <3>5 DEF EntrySize
      <4>2. PICK m : m = EntrySize * (n - 1)
        OBVIOUS
      <4>3. m \in Nat /\ Header + 0 + m <= X
        BY <3>3, <4>1, <4>2 DEF Header, EntrySize
      <4>4. 0 + m <= t.dirSize
        BY <3>3, <4>1, <4>2, <4>3
      <4> QED BY <4>2, <4>3, <4>4
    <3> QED BY <3>4, <3>5
  <2> QED BY <2>2, <2>8, <2>10, <2>11, <2>12 DEF Refreshed
<1> QED BY <1>4, <1>5
-----------------------------------------------------------------------------
(***************************************************************************)
(* What the operations of directory.c leave of the disk.                   *)
(***************************************************************************)
\* The blocks that some chain of S, or nobody, has.
Covered(fat, S) ==
  {b \in Blocks : b \in FreeBlocks(fat) \/ \E u \in S : b \in Chain(fat, u)}

LEMMA UsedIs ==
  ASSUME NEW s
  PROVE  Used(s) = Covered(s.fat, Starts(s))
<1>1. FreeBlocks(s.fat) \subseteq Blocks /\ \A u : Chain(s.fat, u) \subseteq Blocks
  BY DEF FreeBlocks, Chain
<1>2. ASSUME NEW b
      PROVE  (b \in Owned(s)) <=> \E u \in Starts(s) : b \in Chain(s.fat, u)
  <2>1. b \in Owned(s) <=> \/ b \in Chain(s.fat, DirBlock)
                          \/ \E i \in Places(s) : b \in Chain(s.fat, s.files[i].start)
    BY DEF Owned, BlocksOf
  <2>2. (\E u \in Starts(s) : b \in Chain(s.fat, u)) <=>
          \/ b \in Chain(s.fat, DirBlock)
          \/ \E i \in Places(s) : b \in Chain(s.fat, s.files[i].start)
    BY DEF Starts
  <2> QED BY <2>1, <2>2
<1> QED BY <1>1, <1>2 DEF Used, Covered

LEMMA RefreshedCovers ==
  ASSUME NEW s, NEW S, Body(s, S), NEW t, Refreshed(s, S, t)
  PROVE  Covered(t.fat, S) = Covered(s.fat, S)
<1>1. DirBlock \in S
  BY DEF Body, Apart
<1>2. \A u \in S \ {DirBlock} : Chain(t.fat, u) = Chain(s.fat, u)
  BY DEF Refreshed
<1>3. \A b : b \in Chain(t.fat, DirBlock) \/ b \in FreeBlocks(t.fat)
             <=> b \in Chain(s.fat, DirBlock) \/ b \in FreeBlocks(s.fat)
  BY DEF Refreshed
<1> QED BY <1>1, <1>2, <1>3 DEF Covered

LEMMA BodyFacts ==
  ASSUME NEW s, NEW S, Body(s, S)
  PROVE  /\ s \in Systems /\ s.files \in Seq(File) /\ Distinct(s.files)
         /\ Len(s.files) \in Nat /\ Places(s) = 1..Len(s.files)
         /\ \A i \in Places(s) : s.files[i] \in File /\ s.files[i].start \in S \ {DirBlock}
         /\ Apart(s.fat, S) /\ s.fat \in Fats /\ DirBlock \in S /\ S \subseteq Blocks
<1>1. s \in Systems /\ s.files \in Seq(File)
  BY DEF Body, Systems
<1>2. /\ Places(s) = 1..Len(s.files) /\ Len(s.files) \in Nat
      /\ \A i \in Places(s) : s.files[i] \in File
  BY <1>1, PlacesAre
<1>3. \A i \in Places(s) : s.files[i].start # DirBlock
  BY <1>2 DEF File
<1> QED BY <1>1, <1>2, <1>3 DEF Body, Apart

\* The directory and the list say the same of other descriptors, and of other
\* counts of them.
LEMMA SameDisk ==
  ASSUME NEW s, Sound(s), NEW t \in Systems,
         t.fat = s.fat, t.dir = s.dir, t.dirSize = s.dirSize, Len(t.files) = Len(s.files),
         \A i \in Places(s) : OnDisk(t.files[i]) = OnDisk(s.files[i])
  PROVE  Sound(t) /\ Used(t) = Used(s)
<1> DEFINE S == Starts(s)
           n == Len(s.files)
<1>1. Body(s, S) /\ Agrees(s)
  BY DEF Sound
<1>2. Places(s) = 1..n /\ n \in Nat
  BY <1>1, BodyFacts
<1>3. t.files \in Seq(File)
  BY DEF Systems
<1>4. Places(t) = 1..n
  BY <1>3, PlacesAre
<1>5. \A i \in 1..n : /\ t.files[i].name = s.files[i].name
                      /\ t.files[i].size = s.files[i].size
                      /\ t.files[i].start = s.files[i].start
  BY <1>2 DEF OnDisk
<1>6. Starts(t) = S
  BY <1>2, <1>4, <1>5 DEF Starts
<1>7. Used(t) = Used(s)
  BY <1>6, UsedIs
<1> HIDE DEF S, n
<1>8. Body(t, S)
  <2>1. Distinct(t.files)
    BY <1>1, <1>5 DEF Body, Distinct, n
  <2> QED BY <1>1, <1>2, <1>4, <1>5, <2>1 DEF Body, n
<1>9. Agrees(t)
  <2>1. \A i \in Places(s) : i \in Places(t)
    BY <1>2, <1>4
  <2>2. Recorded(t) <=> Recorded(s)
    BY DEF Recorded
  <2> QED BY <1>1, <2>1, <2>2 DEF Agrees
<1> QED BY <1>6, <1>7, <1>8, <1>9 DEF Sound, S

LEMMA FileListExportedSound ==
  ASSUME NEW s, Body(s, Starts(s)), NEW t, t = ExportFileList(s)
  PROVE  /\ Sound(t) /\ Used(t) = Used(s)
         /\ t.files = s.files /\ t.slot = s.slot /\ t.node = s.node
         /\ Fits(s) => Recorded(t)
         /\ EntrySize * (Len(s.files) - 1) <= t.dirSize
<1> DEFINE S == Starts(s)
<1>1. Refreshed(s, S, t)
  BY FileListExported
<1>2. t.files = s.files /\ t.slot = s.slot /\ t.node = s.node
  BY <1>1 DEF Refreshed
<1>3. Starts(t) = S
  BY <1>2 DEF Starts, Places
<1>4. Covered(t.fat, S) = Covered(s.fat, S)
  BY <1>1, RefreshedCovers
<1>5. Used(t) = Used(s)
  BY <1>3, <1>4, UsedIs
<1>6. Sound(t)
  BY <1>1, <1>3 DEF Sound, Refreshed
<1>7. (Fits(s) => Recorded(t)) /\ EntrySize * (Len(s.files) - 1) <= t.dirSize
  BY <1>1 DEF Refreshed
<1> QED BY <1>2, <1>5, <1>6, <1>7

\* The entries that are on disk stay there.
Stays(s, t) ==
  \A i \in Places(s) : EntrySize * i <= s.dirSize => EntrySize * i <= t.dirSize

\* export_file_list, of a list as long as the one the directory agreed with.
LEMMA ListStays ==
  ASSUME NEW s, Sound(s), NEW u, Body(u, Starts(u)), Len(u.files) = Len(s.files),
         Size(u.fat, DirBlock) = Size(s.fat, DirBlock), NEW t, t = ExportFileList(u)
  PROVE  Stays(s, t)
<1> PICK n : n = Len(s.files)
  OBVIOUS
<1> PICK X : X = Size(s.fat, DirBlock) * BlockSize
  OBVIOUS
<1>1. /\ s \in Systems /\ n \in Nat /\ Places(s) = 1..n
      /\ Agrees(s)
  BY BodyFacts DEF Sound
<1>2. X \in Nat /\ s.dirSize \in Nat /\ Header + s.dirSize <= X
  BY <1>1, DirectoryHasRoom DEF Systems, Agrees
<1>3. /\ t.files = u.files
      /\ Fits(u) => Recorded(t)
      /\ EntrySize * (n - 1) <= t.dirSize
      /\ t \in Systems
  BY FileListExportedSound, BodyFacts DEF Sound
<1>4. t.dirSize \in Nat
  BY <1>3 DEF Systems
<1>5. Fits(u) <=> Header + EntrySize * n <= X
  BY DEF Fits
<1>6. Len(t.files) = n
  BY <1>3
<1>7. CASE s.dirSize >= EntrySize * n
  <2>1. Header + EntrySize * n <= X
    BY <1>1, <1>2, <1>7 DEF Header, EntrySize
  <2>2. Recorded(t)
    BY <2>1, <1>3, <1>5
  <2>3. t.dirSize = EntrySize * n
    BY ONLY <2>2, <1>6 DEF Recorded
  <2> QED BY <2>3, <1>1 DEF Stays, EntrySize
<1>8. CASE ~(s.dirSize >= EntrySize * n)
  BY <1>1, <1>2, <1>3, <1>4, <1>8 DEF Stays, EntrySize
<1> QED BY <1>7, <1>8
-----------------------------------------------------------------------------
\* remove_file, where the freed node keeps its start_block.
LEMMA FileRemoved ==
  ASSUME NEW s, Sound(s), NEW i \in Places(s), NEW t, t = RemoveFile(s, i, Intact)
  PROVE  /\ Sound(t) /\ Used(t) = Used(s) /\ Recorded(t)
         /\ t.files = RemoveAt(s.files, i) /\ t.slot = s.slot /\ t.node = s.node
<1> DEFINE S  == Starts(s)
           n  == Len(s.files)
           s1 == [s EXCEPT !.files = RemoveAt(@, i)]
           t1 == ExportFileList(s1)
           first == s.files[i].start
           T  == S \ {first}
<1>1. /\ Body(s, S) /\ s \in Systems /\ s.files \in Seq(File) /\ Distinct(s.files)
      /\ n \in Nat /\ Places(s) = 1..n /\ DirBlock \in S
      /\ \A k \in Places(s) : s.files[k] \in File /\ s.files[k].start \in S \ {DirBlock}
  BY BodyFacts DEF Sound
<1>2. t = [t1 EXCEPT !.fat = FreeChain(t1.fat, first)]
  BY DEF RemoveFile
<1>3. /\ s1.files = RemoveAt(s.files, i) /\ s1.fat = s.fat /\ s1.slot = s.slot /\ s1.node = s.node
      /\ (RemoveAt(s.files, i) \in Seq(File) => s1 \in Systems)
  BY <1>1 DEF Systems
<1> HIDE DEF S, n, s1, first, t1
<1>4. /\ s1.files \in Seq(File) /\ Distinct(s1.files) /\ Len(s1.files) = n - 1
      /\ \A j \in Places(s1) : \E k \in Places(s) \ {i} : s1.files[j] = s.files[k]
      /\ \A k \in Places(s) \ {i} : \E j \in Places(s1) : s1.files[j] = s.files[k]
  <2>1. s1.files = RemoveAt(s.files, i)
    BY <1>3
  <2>2. RemovedFrom(s, i, s1)
    BY <1>1, <2>1, Removed
  <2> QED BY <2>2 DEF RemovedFrom, n
<1>5. \A k \in Places(s) \ {i} : s.files[k].start # first
  BY <1>1 DEF Distinct, n, first
<1>6. Body(s1, S)
  <2>1. \A j \in Places(s1) : s1.files[j].start \in S
    BY <1>1, <1>4
  <2>2. \A j \in Places(s1) : s1.files[j].size <= BlockSize * Size(s1.fat, s1.files[j].start)
    BY <1>1, <1>3, <1>4 DEF Body
  <2>3. Header + EntrySize * (Len(s1.files) - 1) <= Size(s1.fat, DirBlock) * BlockSize
    <3> DEFINE X == Size(s.fat, DirBlock) * BlockSize
    <3>1. X \in Nat /\ Header + EntrySize * (n - 1) <= X
      BY <1>1, DirectoryHasRoom DEF Body, n
    <3> HIDE DEF X
    <3>2. Header + EntrySize * (n - 1 - 1) <= X
      BY <3>1, <1>1 DEF Header, EntrySize
    <3> QED BY <3>2, <1>3, <1>4 DEF X
  <2> QED BY <1>1, <1>3, <1>4, <2>1, <2>2, <2>3 DEF Body
<1>7. Fits(s1)
  BY <1>1, <1>3, <1>4 DEF Fits, Body, n
<1>8. Refreshed(s1, S, t1)
  BY <1>6, FileListExported DEF t1
<1>9. /\ Body(t1, S) /\ Agrees(t1) /\ Recorded(t1) /\ t1 \in Systems
      /\ t1.files = s1.files /\ t1.slot = s1.slot /\ t1.node = s1.node
  BY <1>7, <1>8 DEF Refreshed, Body
<1>10. Covered(t1.fat, S) = Covered(s.fat, S)
  BY <1>3, <1>6, <1>8, RefreshedCovers
<1>11. first \in S \ {DirBlock} /\ Apart(t1.fat, S) /\ t1.fat \in Fats
  BY <1>1, <1>9, BodyFacts DEF first
<1> DEFINE new == FreeChain(t1.fat, first)
<1>12. /\ Apart(new, T)
       /\ \A u \in T : Chain(new, u) = Chain(t1.fat, u)
       /\ FreeBlocks(new) = FreeBlocks(t1.fat) \cup Chain(t1.fat, first)
  <2> DEFINE fat == t1.fat
  <2>1. Apart(fat, S)
    BY <1>11
  <2> HIDE DEF fat
  <2>2. /\ Apart(FreeChain(fat, first), S \ {first})
        /\ \A u \in S \ {first} : Chain(FreeChain(fat, first), u) = Chain(fat, u)
        /\ FreeBlocks(FreeChain(fat, first)) = FreeBlocks(fat) \cup Chain(fat, first)
    BY <1>11, <2>1, FreeKeeps
  <2> QED BY <2>2 DEF fat
<1> HIDE DEF new
<1>13. /\ t.fat = new /\ t.files = t1.files /\ t.slot = t1.slot /\ t.node = t1.node
       /\ t.dir = t1.dir /\ t.dirSize = t1.dirSize
  BY <1>2, <1>9 DEF new, Systems
<1>14. t \in Systems
  <2>1. new \in Fats
    BY <1>12 DEF Apart
  <2> QED BY <2>1, <1>2, <1>9 DEF new, Systems
<1>15. Places(t) = Places(s1) /\ Places(t) = Places(t1)
  BY <1>9, <1>13 DEF Places
<1>16. Starts(t) = T
  <2>1. \A j \in Places(s1) : s1.files[j].start \in T
    BY <1>1, <1>4, <1>5
  <2>2. \A u \in T : u = DirBlock \/ \E j \in Places(s1) : u = s1.files[j].start
    BY <1>4 DEF S, Starts, first
  <2>3. DirBlock \in T
    BY <1>1, <1>11
  <2>4. Starts(t) = {DirBlock} \cup {s1.files[j].start : j \in Places(s1)}
    BY <1>9, <1>13, <1>15 DEF Starts
  <2> HIDE DEF T
  <2> QED BY <2>1, <2>2, <2>3, <2>4
<1>17. DirBlock \in T
  BY <1>16 DEF Starts
<1>18. Body(t, T)
  <2>1. \A j \in Places(t) : t.files[j].start \in T
    BY <1>16 DEF Starts
  <2>2. \A u \in T : Size(t.fat, u) = Size(t1.fat, u)
    BY <1>12, <1>13 DEF Size
  <2> HIDE DEF T
  <2> QED BY <1>9, <1>12, <1>13, <1>14, <1>15, <1>17, <2>1, <2>2 DEF Body
<1>19. Recorded(t)
  BY <1>9, <1>13 DEF Recorded
<1>20. Agrees(t)
  <2>1. Size(t.fat, DirBlock) = Size(t1.fat, DirBlock)
    BY <1>12, <1>13, <1>17 DEF Size
  <2> QED BY <1>9, <1>13, <1>15, <1>19, <2>1 DEF Agrees
<1>21. Used(t) = Used(s)
  <2>1. Covered(new, T) = Covered(t1.fat, S)
    <3> QED BY <1>11, <1>12 DEF Covered
  <2> QED BY <2>1, <1>10, <1>13, <1>16, UsedIs DEF S
<1> QED BY <1>3, <1>9, <1>13, <1>16, <1>18, <1>19, <1>20, <1>21 DEF Sound

\* A field of one file set is that file replaced.
LEMMA SizeSet ==
  ASSUME NEW s, NEW i, NEW n
  PROVE  [s.files EXCEPT ![i].size = n] = [s.files EXCEPT ![i] = [s.files[i] EXCEPT !.size = n]]
OBVIOUS

LEMMA FileOpened ==
  ASSUME NEW f \in File
  PROVE  /\ [f EXCEPT !.open = @ + 1] \in File
         /\ OnDisk([f EXCEPT !.open = @ + 1]) = OnDisk(f)
BY DEF File, OnDisk

LEMMA OpenAdded ==
  ASSUME NEW s, NEW i
  PROVE  [s.files EXCEPT ![i].open = @ + 1]
           = [s.files EXCEPT ![i] = [s.files[i] EXCEPT !.open = @ + 1]]
OBVIOUS

\* truncate_file.
TruncatedAt(s, i, t) ==
  /\ Sound(t) /\ Used(t) = Used(s)
  /\ t.files = [s.files EXCEPT ![i] = [s.files[i] EXCEPT !.size = 0]]
  /\ t.slot = s.slot /\ t.node = s.node /\ Stays(s, t)

LEMMA FileTruncated ==
  ASSUME NEW s, Sound(s), NEW i \in Places(s)
  PROVE  TruncatedAt(s, i, TruncateFile(s, i))
<1> DEFINE S  == Starts(s)
           first == s.files[i].start
           new == [FreeChain(s.fat, first) EXCEPT ![first] = first]
           f   == [s.files[i] EXCEPT !.size = 0]
           s1 == [s EXCEPT !.files[i].size = 0, !.fat = new]
           t  == TruncateFile(s, i)
<1>1. /\ Body(s, S) /\ s \in Systems /\ s.files \in Seq(File) /\ Distinct(s.files)
      /\ Places(s) = 1..Len(s.files) /\ DirBlock \in S /\ Apart(s.fat, S)
      /\ \A k \in Places(s) : s.files[k] \in File /\ s.files[k].start \in S \ {DirBlock}
  BY BodyFacts DEF Sound
<1>2. t = ExportFileList(s1)
  BY DEF TruncateFile
<1> HIDE DEF t
<1>3. first \in S \ {DirBlock} /\ first \in Blocks
  BY <1>1 DEF Apart
<1>4. f \in File /\ f.name = s.files[i].name /\ f.start = first /\ f.size = 0
  BY <1>1 DEF File
<1> HIDE DEF S, new, first
<1>5. /\ Apart(new, S)
      /\ \A u \in S \ {first} : Chain(new, u) = Chain(s.fat, u)
      /\ Chain(new, first) = {first}
      /\ FreeBlocks(new) = FreeBlocks(s.fat) \cup (Chain(s.fat, first) \ {first})
  <2> DEFINE fat == s.fat
  <2>1. Apart(fat, S) /\ new = [FreeChain(fat, first) EXCEPT ![first] = first]
    BY <1>1 DEF new
  <2> HIDE DEF fat
  <2>2. CutAt(fat, S, first, new)
    BY <1>3, <2>1, CutKeeps
  <2> QED BY <2>2 DEF fat, CutAt
<1>6. new \in Fats /\ s.fat \in Fats
  BY <1>1, <1>5 DEF Apart
<1>7. /\ s1 \in Systems /\ s1.fat = new /\ s1.files = [s.files EXCEPT ![i] = f]
      /\ s1.slot = s.slot /\ s1.node = s.node
  <2>1. [s.files EXCEPT ![i].size = 0] = [s.files EXCEPT ![i] = f]
    BY <1>1
  <2>2. [s.files EXCEPT ![i] = f] \in Seq(File)
    <3> HIDE DEF f
    <3> QED BY <1>1, <1>4
  <2>3. s1 = [s EXCEPT !.files = [s.files EXCEPT ![i].size = 0], !.fat = new]
    BY <1>1 DEF Systems
  <2> DEFINE list == [s.files EXCEPT ![i].size = 0]
  <2>4. list \in Seq(File)
    BY <2>1, <2>2
  <2> HIDE DEF list
  <2>5. s1 = [s EXCEPT !.files = list, !.fat = new]
    BY <2>3 DEF list
  <2>6. s1 \in Systems /\ s1.fat = new /\ s1.files = list /\ s1.slot = s.slot /\ s1.node = s.node
    BY <1>1, <1>6, <2>4, <2>5 DEF Systems
  <2> QED BY <2>1, <2>6 DEF list
<1> HIDE DEF f, s1
<1>8. ChangedIn(s, i, f, s1)
  BY <1>1, <1>4, <1>7, Changed DEF first
<1>9. /\ Distinct(s1.files) /\ Len(s1.files) = Len(s.files) /\ Places(s1) = Places(s)
      /\ \A j \in Places(s) : s1.files[j] = IF j = i THEN f ELSE s.files[j]
  BY <1>8 DEF ChangedIn
<1>10. \A j \in Places(s) : s1.files[j].start = s.files[j].start
  BY <1>4, <1>9 DEF first
<1>11. Starts(s1) = S
  BY <1>9, <1>10 DEF Starts, S
<1>12. \A j \in Places(s) \ {i} : s.files[j].start # first
  BY <1>1 DEF Distinct, first
<1>13. \A j \in Places(s) : s1.files[j].size <= BlockSize * Size(new, s1.files[j].start)
  <2> SUFFICES ASSUME NEW j \in Places(s)
               PROVE  s1.files[j].size <= BlockSize * Size(new, s1.files[j].start)
    OBVIOUS
  <2>1. CASE j = i
    <3>1. s1.files[j].size = 0 /\ s1.files[j].start = first
      BY <2>1, <1>4, <1>9
    <3>2. Size(new, first) \in Nat /\ BlockSize \in Nat
      BY <1>3, <1>6, SizeIs, SizeAssumption
    <3> QED BY <3>1, <3>2
  <2>2. CASE j # i
    <3>1. s1.files[j] = s.files[j] /\ s.files[j].start \in S \ {first}
      BY <2>2, <1>1, <1>9, <1>12
    <3>2. Size(new, s.files[j].start) = Size(s.fat, s.files[j].start)
      BY <3>1, <1>5 DEF Size
    <3> QED BY <3>1, <3>2, <1>1 DEF Body
  <2> QED BY <2>1, <2>2
<1>14. Size(new, DirBlock) = Size(s.fat, DirBlock)
  BY <1>1, <1>3, <1>5 DEF Size
<1>15. Body(s1, S)
  <2>1. Header + EntrySize * (Len(s1.files) - 1) <= Size(s1.fat, DirBlock) * BlockSize
    BY <1>1, <1>7, <1>9, <1>14 DEF Body
  <2> QED BY <1>1, <1>5, <1>7, <1>9, <1>10, <1>13, <2>1 DEF Body
<1>16. Covered(new, S) = Covered(s.fat, S)
  <2>1. first \in Chain(s.fat, first)
    BY <1>3, <1>6, ChainCloses
  <2> QED BY <2>1, <1>3, <1>5 DEF Covered
<1>17. Used(s1) = Used(s)
  BY <1>7, <1>11, <1>16, UsedIs DEF S
<1>18. Sound(t) /\ Used(t) = Used(s1) /\ t.files = s1.files /\ t.slot = s1.slot /\ t.node = s1.node
  BY <1>2, <1>11, <1>15, FileListExportedSound
<1>19. Stays(s, t)
  BY <1>2, <1>7, <1>9, <1>11, <1>14, <1>15, ListStays
<1>20. TruncatedAt(s, i, t)
  BY <1>7, <1>17, <1>18, <1>19 DEF TruncatedAt, f
<1> QED BY <1>20 DEF t

FdNodeSet(s, fd, i, entry, t) ==
  /\ t.slot = [s.slot EXCEPT ![fd] = fd]
  /\ t.node = [s.node EXCEPT ![fd] = entry]
  /\ t.files = [s.files EXCEPT ![i].open = @ + 1]
  /\ t.fat = s.fat /\ t.dir = s.dir /\ t.dirSize = s.dirSize
  /\ t = [s EXCEPT !.slot = [s.slot EXCEPT ![fd] = fd],
                   !.node = [s.node EXCEPT ![fd] = entry],
                   !.files = [s.files EXCEPT ![i].open = @ + 1]]

LEMMA SetFdNodeIs ==
  ASSUME NEW s \in Systems, NEW fd, NEW i, NEW cursor, NEW entry,
         entry = [live |-> TRUE, name |-> s.files[i].name, cursor |-> cursor]
  PROVE  FdNodeSet(s, fd, i, entry, SetFdNode(s, fd, i, cursor))
<1> DEFINE D == [0..(MaxDirSize - 1) -> Unit]
           L == Seq(File)
           N == [Fds -> Node]
           M == [Fds -> Fds \cup {NoFd}]
<1>1. s \in [fat : Fats, dirSize : Nat, dir : D, files : L, slot : M, node : N]
  BY DEF Systems
<1> HIDE DEF D, L, N, M
<1>2. SetFdNode(s, fd, i, cursor) =
        [s EXCEPT !.slot[fd] = fd, !.node[fd] = entry, !.files[i].open = @ + 1]
  BY DEF SetFdNode
<1> QED BY <1>1, <1>2 DEF FdNodeSet

\* create_fd_node and set_fd_node, for one of the files.
SetsNode(s, fd, i, cursor, t) ==
  /\ t \in Systems
  /\ t.files = [s.files EXCEPT ![i] = [s.files[i] EXCEPT !.open = @ + 1]]
  /\ t.slot = [s.slot EXCEPT ![fd] = fd]
  /\ t.node = [s.node EXCEPT ![fd] = [live |-> TRUE, name |-> s.files[i].name,
                                      cursor |-> cursor]]
  /\ t.fat = s.fat /\ t.dir = s.dir /\ t.dirSize = s.dirSize

LEMMA NodeIsSet ==
  ASSUME NEW s \in Systems, NEW fd \in Fds, NEW i \in Places(s), NEW cursor \in Nat
  PROVE  SetsNode(s, fd, i, cursor, SetFdNode(s, fd, i, cursor))
<1> DEFINE t == SetFdNode(s, fd, i, cursor)
<1>1. PICK entry : entry = [live |-> TRUE, name |-> s.files[i].name, cursor |-> cursor]
  OBVIOUS
<1>2. PICK slot : slot = [s.slot EXCEPT ![fd] = fd]
  OBVIOUS
<1>3. PICK node : node = [s.node EXCEPT ![fd] = entry]
  OBVIOUS
<1>4. PICK list : list = [s.files EXCEPT ![i].open = @ + 1]
  OBVIOUS
<1>5. /\ t.slot = slot /\ t.node = node /\ t.files = list
      /\ t.fat = s.fat /\ t.dir = s.dir /\ t.dirSize = s.dirSize
      /\ t = [s EXCEPT !.slot = slot, !.node = node, !.files = list]
  <2>1. FdNodeSet(s, fd, i, entry, t)
    BY <1>1, SetFdNodeIs
  <2> HIDE DEF t
  <2> QED BY <2>1, <1>2, <1>3, <1>4 DEF FdNodeSet
<1>6. s.files \in Seq(File) /\ s.slot \in [Fds -> Fds \cup {NoFd}] /\ s.node \in [Fds -> Node]
  BY DEF Systems
<1>7. Places(s) = 1..Len(s.files) /\ s.files[i] \in File
  BY <1>6, PlacesAre
<1>8. PICK f : f = [s.files[i] EXCEPT !.open = @ + 1]
  OBVIOUS
<1>9. f \in File
  BY <1>7, <1>8, FileOpened
<1>10. list = [s.files EXCEPT ![i] = f]
  BY <1>4, <1>8, OpenAdded
<1>11. list \in Seq(File)
  BY <1>6, <1>7, <1>9, <1>10
<1>12. slot \in [Fds -> Fds \cup {NoFd}]
  BY <1>2, <1>6
<1>13. entry \in Node
  BY <1>1, <1>7 DEF File, Node
<1>14. node \in [Fds -> Node]
  BY <1>3, <1>6, <1>13
<1> HIDE DEF t
<1>15. t \in Systems
  BY <1>5, <1>11, <1>12, <1>14 DEF Systems
<1>16. SetsNode(s, fd, i, cursor, t)
  BY <1>1, <1>2, <1>3, <1>5, <1>8, <1>10, <1>15 DEF SetsNode
<1> QED BY <1>16 DEF t

LEMMA NodeSetSound ==
  ASSUME NEW s, Sound(s), NEW i \in Places(s), NEW fd, NEW cursor, NEW t,
         SetsNode(s, fd, i, cursor, t)
  PROVE  Sound(t) /\ Used(t) = Used(s)
<1>1. s.files \in Seq(File) /\ Places(s) = 1..Len(s.files) /\ s.files[i] \in File
  BY BodyFacts DEF Sound
<1>2. PICK f : f = [s.files[i] EXCEPT !.open = @ + 1]
  OBVIOUS
<1>3. f \in File /\ OnDisk(f) = OnDisk(s.files[i])
  BY <1>1, <1>2, FileOpened
<1>4. t.files = [s.files EXCEPT ![i] = f] /\ t \in Systems
      /\ t.fat = s.fat /\ t.dir = s.dir /\ t.dirSize = s.dirSize
  BY <1>2 DEF SetsNode
<1>5. Len(t.files) = Len(s.files) /\ \A j \in Places(s) : t.files[j] = IF j = i THEN f ELSE s.files[j]
  BY <1>1, <1>3, <1>4
<1>6. \A j \in Places(s) : OnDisk(t.files[j]) = OnDisk(s.files[j])
  BY <1>3, <1>5
<1> QED BY <1>4, <1>5, <1>6, SameDisk

\* f_open of a name no file has: a block is taken, and the file added.
CreatedIn(s, f, t) ==
  /\ Sound(t) /\ Used(t) = Used(s)
  /\ AddedTo(s, f, t) /\ t.slot = s.slot /\ t.node = s.node /\ Stays(s, t)

LEMMA FileCreated ==
  ASSUME NEW s, Sound(s), NEW x \in Names, FindFile(s, x) = 0, CanCreate(s)
  PROVE  \E f \in File : /\ f.name = x /\ f.size = 0 /\ f.open = 0 /\ ~f.marked
                         /\ CreatedIn(s, f, Create(s, x))
<1> DEFINE S  == Starts(s)
           n  == Len(s.files)
           b  == FindFreeBlock(s.fat)
           fat == s.fat
           new == [fat EXCEPT ![b] = b]
           f  == NewFile(x, 0, b)
           list == Append(s.files, f)
           s1 == [s EXCEPT !.fat = new, !.files = list]
           t  == Create(s, x)
           S1 == S \cup {b}
<1>1. /\ Body(s, S) /\ Agrees(s) /\ s \in Systems /\ s.files \in Seq(File) /\ Distinct(s.files)
      /\ n \in Nat /\ Places(s) = 1..n /\ DirBlock \in S /\ Apart(fat, S)
      /\ \A k \in Places(s) : s.files[k] \in File /\ s.files[k].start \in S \ {DirBlock}
  BY BodyFacts DEF Sound
<1>2. b \in FreeBlocks(fat) /\ FreeBlocks(fat) \subseteq Blocks \ {DirBlock}
  <2>1. FreeBlocks(fat) # {} /\ b = Min(FreeBlocks(fat))
    BY DEF CanCreate, FindFreeBlock
  <2>2. FreeBlocks(fat) \subseteq Nat /\ FreeBlocks(fat) \subseteq Blocks \ {DirBlock}
    BY BlocksAreNats DEF FreeBlocks
  <2> HIDE DEF b, fat
  <2> QED BY <2>1, <2>2, MinIs
<1>3. t = Export(s1, s.dirSize, <<f>>)
  <2>1. t = Export([[s EXCEPT !.fat[b] = b] EXCEPT !.files = Append(@, f)],
                   [s EXCEPT !.fat[b] = b].dirSize, <<f>>)
    BY DEF Create, AddFile
  <2> DEFINE D == [0..(MaxDirSize - 1) -> Unit]
             L == Seq(File)
             N == [Fds -> Node]
             M == [Fds -> Fds \cup {NoFd}]
  <2>2. s \in [fat : Fats, dirSize : Nat, dir : D, files : L, slot : M, node : N]
    BY <1>1 DEF Systems
  <2> HIDE DEF D, L, N, M, t, b, f
  <2>3. [s EXCEPT !.fat[b] = b].dirSize = s.dirSize
    BY <2>2
  <2>4. [[s EXCEPT !.fat[b] = b] EXCEPT !.files = Append(@, f)] = s1
    BY <2>2
  <2> HIDE DEF s1
  <2> QED BY <2>1, <2>3, <2>4
<1>4. f \in File /\ f.name = x /\ f.start = b /\ f.size = 0 /\ f.open = 0 /\ ~f.marked
  <2>1. b \in Blocks \ {DirBlock}
    BY <1>2
  <2> HIDE DEF b
  <2> QED BY <2>1 DEF NewFile, File
<1> HIDE DEF f, b, fat, S, t, n
<1>5. /\ b \notin S /\ Apart(new, S \cup {b})
      /\ \A u \in S : Chain(new, u) = Chain(fat, u)
      /\ Chain(new, b) = {b}
      /\ FreeBlocks(new) = FreeBlocks(fat) \ {b}
  <2>1. new = [fat EXCEPT ![b] = b]
    OBVIOUS
  <2> HIDE DEF new
  <2>2. BegunAt(fat, S, b, new)
    BY <1>1, <1>2, <2>1, BeginKeeps
  <2> QED BY <2>2 DEF BegunAt
<1>6. new \in Fats /\ list \in Seq(File)
  BY <1>1, <1>4, <1>5 DEF Apart
<1>7. /\ s1 \in Systems /\ s1.fat = new /\ s1.files = list /\ s1.dirSize = s.dirSize
      /\ s1.dir = s.dir /\ s1.slot = s.slot /\ s1.node = s.node
  <2> HIDE DEF new, list
  <2> QED BY <1>1, <1>6 DEF Systems
<1>8. \A i \in Places(s) : s.files[i].name # f.name /\ s.files[i].start # f.start
  <2>1. \A i \in Places(s) : s.files[i].name # x
    BY <1>1, FindIs DEF n
  <2> QED BY <2>1, <1>1, <1>4, <1>5
<1> HIDE DEF s1
<1>9. AddedTo(s, f, s1)
  BY <1>1, <1>4, <1>7, <1>8, Added
<1> HIDE DEF new, list, S1
<1>10. /\ Distinct(s1.files) /\ Len(s1.files) = n + 1 /\ Places(s1) = Places(s) \cup {n + 1}
       /\ s1.files \in Seq(File)
       /\ \A j \in Places(s) : s1.files[j] = s.files[j]
       /\ s1.files[n + 1] = f
  BY <1>9 DEF AddedTo, n
<1>11. /\ s.dirSize = EntrySize * n /\ s.dirSize \in Nat
       /\ Header + s.dirSize <= Size(fat, DirBlock) * BlockSize
  BY <1>1, <1>2 DEF Agrees, Recorded, n, fat, Systems
<1>12. Apart(s1.fat, S1)
  BY <1>5, <1>7 DEF S1
<1>13. Exports(s1, S1, s.dirSize, <<f>>, t)
  <2> DEFINE one == <<f>>
  <2>1. one \in Seq(File) /\ one # <<>>
    BY <1>4
  <2>2. t = Export(s1, s.dirSize, one)
    BY <1>3
  <2> HIDE DEF one
  <2>3. Exports(s1, S1, s.dirSize, one, t)
    BY <1>7, <1>11, <1>12, <2>1, <2>2, Exported
  <2> QED BY <2>3 DEF one
<1>14. /\ t \in Systems /\ Apart(t.fat, S1)
       /\ t.files = s1.files /\ t.slot = s1.slot /\ t.node = s1.node
       /\ \A u \in S1 \ {DirBlock} : Chain(t.fat, u) = Chain(s1.fat, u)
       /\ Chain(s1.fat, DirBlock) \cup FreeBlocks(s1.fat)
            = Chain(t.fat, DirBlock) \cup FreeBlocks(t.fat)
       /\ Size(s1.fat, DirBlock) <= Size(t.fat, DirBlock)
  BY <1>13 DEF Exports
<1>15. Len(<<f>>) = 1 /\ <<f>>[1] = f
  OBVIOUS
<1>16. s.dirSize <= t.dirSize /\ t.dirSize <= s.dirSize + 2
  BY <1>13, <1>15 DEF Exports, EntrySize
<1>17. t.dirSize = s.dirSize + 2 \/ FreeBlocks(t.fat) = {}
  BY <1>13, <1>15 DEF Exports, EntrySize
<1>18. Size(s1.fat, DirBlock) = Size(fat, DirBlock)
  BY <1>1, <1>5, <1>7 DEF Size
<1>19. Header + t.dirSize <= Size(t.fat, DirBlock) * BlockSize
  BY <1>11, <1>13, <1>18 DEF Exports
<1>20. \A o \in 0..(MaxDirSize - 1) :
         /\ o < s.dirSize => t.dir[o] = s.dir[o]
         /\ ~(o < s.dirSize) /\ o < t.dirSize =>
              t.dir[o] = OnDisk(<<f>>[(o - s.dirSize) \div EntrySize + 1])
  BY <1>7, <1>13 DEF Exports
<1>21. Places(t) = 1..(n + 1) /\ Places(t) = Places(s1) /\ n \in Nat
  BY <1>1, <1>10, <1>14, PlacesAre DEF Places
<1>22. t.dirSize \in Nat /\ 2 * n + 2 <= MaxDirSize /\ MaxDirSize \in Nat
  BY <1>1, <1>10, <1>14, MaxDirSizeIs DEF Systems, EntrySize
<1>23. Starts(t) = S1
  <2>1. \A j \in Places(s) : j \in Places(t) /\ t.files[j] = s.files[j]
    BY <1>10, <1>14, <1>21
  <2>2. \A j \in Places(t) : j \in Places(s) \/ j = n + 1
    BY <1>10, <1>21
  <2>3. n + 1 \in Places(t) /\ t.files[n + 1].start = b
    BY <1>4, <1>10, <1>14, <1>21
  <2> QED BY <2>1, <2>2, <2>3 DEF Starts, S1, S
<1>24. Body(t, S1)
  <2>1. \A j \in Places(t) : t.files[j].start \in S1
    BY <1>23 DEF Starts
  <2>2. ASSUME NEW j \in Places(t)
        PROVE  t.files[j].size <= BlockSize * Size(t.fat, t.files[j].start)
    <3>1. CASE j \in Places(s)
      <4>1. t.files[j] = s.files[j] /\ s.files[j].start \in S \ {DirBlock}
        BY <3>1, <1>1, <1>10, <1>14
      <4>2. s.files[j].start \in S1 \ {DirBlock}
        BY <4>1 DEF S1
      <4>3. Chain(t.fat, s.files[j].start) = Chain(fat, s.files[j].start)
        BY <4>1, <4>2, <1>5, <1>7, <1>14
      <4> QED BY <3>1, <4>1, <4>3, <1>1 DEF Body, Size, fat
    <3>2. CASE j = n + 1
      <4>1. t.files[j].size = 0 /\ t.files[j].start = b
        BY <3>2, <1>4, <1>10, <1>14
      <4>2. t.fat \in Fats /\ b \in Blocks
        BY <1>2, <1>14 DEF Apart
      <4>3. Size(t.fat, b) \in Nat /\ BlockSize \in Nat
        BY <4>2, SizeIs, SizeAssumption
      <4> QED BY <4>1, <4>3
    <3> QED BY <3>1, <3>2, <1>10, <1>21
  <2>3. Header + EntrySize * (Len(t.files) - 1) <= Size(t.fat, DirBlock) * BlockSize
    <3>1. /\ Size(fat, DirBlock) * BlockSize <= Size(t.fat, DirBlock) * BlockSize
          /\ Size(fat, DirBlock) * BlockSize \in Nat /\ Size(t.fat, DirBlock) * BlockSize \in Nat
      BY <1>1, <1>14, <1>18, DirectoryHasRoom, Times DEF fat
    <3> DEFINE X == Size(fat, DirBlock) * BlockSize
               Y == Size(t.fat, DirBlock) * BlockSize
    <3>2. X \in Nat /\ Y \in Nat /\ X <= Y /\ Header + EntrySize * n <= X
      BY <3>1, <1>11
    <3> HIDE DEF X, Y
    <3>3. Header + EntrySize * (Len(t.files) - 1) <= Y
      BY <3>2, <1>10, <1>14, <1>21 DEF Header, EntrySize
    <3> QED BY <3>3 DEF Y
  <2>4. Distinct(t.files)
    BY <1>10, <1>14
  <2> QED BY <1>14, <2>1, <2>2, <2>3, <2>4 DEF Body
<1>25. Agrees(t)
  <2>1. t.dirSize <= MaxDirSize /\ t.dirSize <= EntrySize * Len(t.files) + 1
    BY <1>10, <1>11, <1>14, <1>16, <1>21, <1>22 DEF EntrySize
  <2>2. ASSUME NEW i \in 1..(t.dirSize \div EntrySize)
        PROVE  /\ i \in Places(t)
               /\ t.dir[EntrySize * i - 2] = OnDisk(t.files[i])
               /\ t.dir[EntrySize * i - 1] = OnDisk(t.files[i])
    <3>0. s.dirSize = 2 * n
      BY <1>11 DEF EntrySize
    <3>1. i \in Nat /\ i >= 1 /\ 2 * i <= t.dirSize
      BY <1>22 DEF EntrySize
    <3>2. i \in 1..(n + 1)
      BY <3>0, <3>1, <1>16, <1>21, <1>22
    <3>3. \A o \in {2 * i - 2, 2 * i - 1} : o \in 0..(MaxDirSize - 1) /\ o < t.dirSize
      BY <3>0, <3>1, <1>16, <1>21, <1>22
    <3>4. EntrySize * i - 2 = 2 * i - 2 /\ EntrySize * i - 1 = 2 * i - 1
      BY DEF EntrySize
    <3>5. CASE i \in 1..n
      <4>1. \A o \in {2 * i - 2, 2 * i - 1} : o < s.dirSize /\ t.dir[o] = s.dir[o]
        BY <3>0, <3>1, <3>3, <3>5, <1>20, <1>21
      <4>2. i \in 1..(s.dirSize \div EntrySize)
        BY <3>0, <3>5, <1>21 DEF EntrySize
      <4>3. s.dir[EntrySize * i - 2] = OnDisk(s.files[i]) /\ s.dir[EntrySize * i - 1] = OnDisk(s.files[i])
        BY <4>2, <1>1 DEF Agrees
      <4>4. t.files[i] = s.files[i]
        BY <3>5, <1>1, <1>10, <1>14
      <4> QED BY <4>1, <4>3, <4>4, <3>2, <3>4, <1>21
    <3>6. CASE i = n + 1
      <4>1. \A o \in {2 * i - 2, 2 * i - 1} :
              ~(o < s.dirSize) /\ (o - s.dirSize) \div EntrySize + 1 = 1
        BY <3>0, <3>6, <1>21 DEF EntrySize
      <4>2. \A o \in {2 * i - 2, 2 * i - 1} : t.dir[o] = OnDisk(f)
        BY <4>1, <3>3, <1>15, <1>20
      <4>3. t.files[i] = f
        BY <3>6, <1>10, <1>14
      <4> QED BY <4>2, <4>3, <3>2, <3>4, <1>21
    <3> QED BY <3>2, <3>5, <3>6, <1>21
  <2>3. Recorded(t) \/ FreeBlocks(t.fat) = {}
    BY <1>10, <1>11, <1>14, <1>17, <1>21 DEF Recorded, EntrySize
  <2> QED BY <2>1, <2>2, <2>3, <1>19 DEF Agrees
<1>26. Used(t) = Used(s)
  <2>1. Covered(t.fat, S1) = Covered(new, S1)
    <3>1. DirBlock \in S1
      BY <1>1 DEF S1
    <3>2. \A c : c \in Chain(t.fat, DirBlock) \/ c \in FreeBlocks(t.fat)
                <=> c \in Chain(new, DirBlock) \/ c \in FreeBlocks(new)
      BY <1>7, <1>14
    <3> QED BY <3>1, <3>2, <1>7, <1>14 DEF Covered
  <2>2. Covered(new, S1) = Covered(fat, S)
    BY <1>2, <1>5 DEF Covered, S1
  <2> QED BY <2>1, <2>2, <1>23, UsedIs DEF S, fat
<1>27. Sound(t)
  BY <1>23, <1>24, <1>25 DEF Sound
<1>28. AddedTo(s, f, t)
  <2>1. \A y : Named(t, y) = Named(s1, y)
    BY <1>14, FindSame
  <2>2. Places(t) = Places(s1)
    BY <1>21
  <2> QED BY <1>9, <1>14, <2>1, <2>2 DEF AddedTo
<1>29. Stays(s, t)
  BY <1>1, <1>11, <1>16, <1>22 DEF Stays, EntrySize
<1>30. CreatedIn(s, f, t)
  BY <1>7, <1>14, <1>26, <1>27, <1>28, <1>29 DEF CreatedIn
<1> QED BY <1>4, <1>30 DEF t

\* f_write to a file, from the end of it on.
WrittenAt(s, i, k, t) ==
  /\ Sound(t) /\ Used(t) = Used(s) /\ t.slot = s.slot /\ Stays(s, t)
  /\ \E end \in Nat :
       /\ s.files[i].size <= end
       /\ t.files = [s.files EXCEPT ![i] = [s.files[i] EXCEPT !.size = end]]
       /\ t.node = [s.node EXCEPT ![k] = [s.node[k] EXCEPT !.cursor = end]]

LEMMA SizeFile ==
  ASSUME NEW f \in File, NEW n \in Nat, NEW g, g = [f EXCEPT !.size = n]
  PROVE  /\ g \in File /\ g.name = f.name /\ g.start = f.start /\ g.size = n
         /\ g.open = f.open /\ g.marked = f.marked
BY DEF File

LEMMA CursorNode ==
  ASSUME NEW d \in Node, NEW n \in Nat, NEW e, e = [d EXCEPT !.cursor = n]
  PROVE  e \in Node /\ e.name = d.name /\ e.live = d.live /\ e.cursor = n
BY DEF Node

\* The state f_write makes before it exports the list, and its parts.
Grown(s, fat, k, i, end) ==
  [s EXCEPT !.fat = fat, !.node[k].cursor = end, !.files[i].size = Max({@, end})]
WithParts(s, fat, node, list) == [s EXCEPT !.fat = fat, !.node = node, !.files = list]

GrownParts(s, k, i, end, node, list) ==
  /\ node = [s.node EXCEPT ![k] = [s.node[k] EXCEPT !.cursor = end]]
  /\ list = [s.files EXCEPT ![i] = [s.files[i] EXCEPT !.size = Max({s.files[i].size, end})]]

LEMMA WriteSets ==
  ASSUME NEW s \in Systems, NEW fat, NEW k, NEW i, NEW end, NEW node, NEW list,
         GrownParts(s, k, i, end, node, list)
  PROVE  Grown(s, fat, k, i, end) = WithParts(s, fat, node, list)
<1> DEFINE D == [0..(MaxDirSize - 1) -> Unit]
           L == Seq(File)
           N == [Fds -> Node]
           M == [Fds -> Fds \cup {NoFd}]
<1>1. s \in [fat : Fats, dirSize : Nat, dir : D, files : L, slot : M, node : N]
  BY DEF Systems
<1> HIDE DEF D, L, N, M
<1> QED BY <1>1 DEF Grown, GrownParts, WithParts

LEMMA FileWritten ==
  ASSUME NEW s, Sound(s), NEW fd, NEW k \in Fds, k = s.slot[fd], NEW i \in Places(s), FileOf(s, fd) = i,
         s.node[k].cursor = s.files[i].size, NEW n \in Nat \ {0}
  PROVE  WrittenAt(s, i, k, FWrite(s, fd, n).sys)
<1> DEFINE S == Starts(s)
           size == s.files[i].size
           first == s.files[i].start
           fat == s.fat
           w == WriteToFile(fat, first, size, n)
           end == IF w.done = Failed THEN size ELSE size + w.done
           s1 == [s EXCEPT !.fat = w.fat, !.node[k].cursor = end, !.files[i].size = Max({@, end})]
           t == FWrite(s, fd, n).sys
<1>1. /\ Body(s, S) /\ s \in Systems /\ s.files \in Seq(File) /\ Distinct(s.files)
      /\ Places(s) = 1..Len(s.files) /\ DirBlock \in S /\ Apart(fat, S)
      /\ \A j \in Places(s) : s.files[j] \in File /\ s.files[j].start \in S \ {DirBlock}
  BY BodyFacts DEF Sound
<1>2. size \in Nat /\ first \in S \ {DirBlock}
  BY <1>1 DEF File
<1>3. t = ExportFileList(s1)
  <2>1. Min({size, size}) = size
    <3> HIDE DEF size
    <3> QED BY <1>2, MinOfTwo
  <2>2. n + size - size = n /\ i # 0
    <3> HIDE DEF size
    <3> QED BY <1>1, <1>2
  <2> QED BY <2>1, <2>2 DEF FWrite
<1> HIDE DEF w, fat, first, S, t
<1>4. Wrote(fat, S, first, size, n, w)
  <2> HIDE DEF size
  <2>1. w = WriteToFile(fat, first, size, n)
    BY DEF w
  <2> QED BY <1>1, <1>2, <2>1, WriteKeeps
<1>5. /\ Apart(w.fat, S)
      /\ \A u \in S \ {first} : Chain(w.fat, u) = Chain(fat, u)
      /\ Chain(w.fat, first) \cup FreeBlocks(w.fat) = Chain(fat, first) \cup FreeBlocks(fat)
      /\ Size(fat, first) <= Size(w.fat, first)
      /\ \/ w.done = Failed
         \/ w.done \in 1..n /\ size + w.done <= Size(w.fat, first) * BlockSize
  BY <1>4 DEF Wrote
<1>6. w.fat \in Fats /\ fat \in Fats /\ first \in Blocks
  BY <1>1, <1>2, <1>5 DEF Apart
<1>7. size <= end /\ end \in Nat /\ end <= Size(w.fat, first) * BlockSize
  <2> DEFINE X == Size(fat, first) * BlockSize
             Y == Size(w.fat, first) * BlockSize
  <2>1. X \in Nat /\ Y \in Nat /\ X <= Y
    BY <1>5, <1>6, SizeIs, Times
  <2>2. size <= X
    <3>1. size <= BlockSize * Size(fat, first)
      BY <1>1 DEF Body, fat, first
    <3>2. BlockSize \in Nat /\ Size(fat, first) \in Nat
      BY <1>6, SizeIs, SizeAssumption
    <3>3. BlockSize * Size(fat, first) = X
      BY <3>2
    <3> QED BY <3>1, <3>3
  <2>3. w.done = Failed \/ (w.done \in 1..n /\ size + w.done <= Y)
    BY <1>5
  <2> HIDE DEF X, Y, size
  <2>4. size <= end /\ end \in Nat /\ end <= Y
    BY <1>2, <2>1, <2>2, <2>3 DEF Failed
  <2> QED BY <2>4 DEF Y
<1> HIDE DEF end
<1>8. Max({size, end}) = end
  <2> HIDE DEF size
  <2>1. Max({size, end}) = IF size >= end THEN size ELSE end
    BY <1>2, <1>7, MaxOfTwo
  <2> QED BY <2>1, <1>2, <1>7
<1>9. PICK f : f = [s.files[i] EXCEPT !.size = end]
  OBVIOUS
<1>10. PICK d : d = [s.node[k] EXCEPT !.cursor = end]
  OBVIOUS
<1>11. PICK list : list = [s.files EXCEPT ![i] = f]
  OBVIOUS
<1>12. PICK node : node = [s.node EXCEPT ![k] = d]
  OBVIOUS
<1>13. s1 = [s EXCEPT !.fat = w.fat, !.node = node, !.files = list]
  <2> DEFINE new == w.fat
  <2>1. s1 = Grown(s, new, k, i, end)
    BY DEF Grown
  <2> HIDE DEF new, s1
  <2>2. node = [s.node EXCEPT ![k] = [s.node[k] EXCEPT !.cursor = end]]
    BY <1>10, <1>12
  <2>3. list = [s.files EXCEPT ![i] = [s.files[i] EXCEPT !.size = Max({size, end})]]
    BY <1>8, <1>9, <1>11
  <2>4. GrownParts(s, k, i, end, node, list)
    BY <2>2, <2>3 DEF GrownParts
  <2>5. Grown(s, new, k, i, end) = WithParts(s, new, node, list)
    BY <1>1, <2>4, WriteSets
  <2> QED BY <2>1, <2>5 DEF new, WithParts
<1> HIDE DEF s1
<1>14. f \in File /\ f.name = s.files[i].name /\ f.start = first /\ f.size = end
  BY <1>1, <1>7, <1>9, SizeFile DEF first
<1>15. d \in Node
  <2>1. s.node[k] \in Node
    BY <1>1 DEF Systems
  <2> QED BY <2>1, <1>7, <1>10, CursorNode
<1>16. list \in Seq(File)
  BY <1>1, <1>11, <1>14
<1>17. node \in [Fds -> Node]
  BY <1>1, <1>12, <1>15 DEF Systems
<1>18. /\ s1 \in Systems /\ s1.fat = w.fat /\ s1.files = list /\ s1.node = node /\ s1.slot = s.slot
  BY <1>1, <1>6, <1>13, <1>16, <1>17 DEF Systems
<1>19. ChangedIn(s, i, f, s1)
  BY <1>1, <1>11, <1>14, <1>18, Changed DEF first
<1>20. /\ Distinct(s1.files) /\ Len(s1.files) = Len(s.files) /\ Places(s1) = Places(s)
       /\ \A j \in Places(s) : s1.files[j] = IF j = i THEN f ELSE s.files[j]
  BY <1>19 DEF ChangedIn
<1>21. \A j \in Places(s) : s1.files[j].start = s.files[j].start
  BY <1>14, <1>20 DEF first
<1>22. Starts(s1) = S
  BY <1>20, <1>21 DEF Starts, S
<1>23. \A j \in Places(s) \ {i} : s.files[j].start # first
  BY <1>1 DEF Distinct, first
<1>24. \A j \in Places(s) : s1.files[j].size <= BlockSize * Size(w.fat, s1.files[j].start)
  <2> SUFFICES ASSUME NEW j \in Places(s)
               PROVE  s1.files[j].size <= BlockSize * Size(w.fat, s1.files[j].start)
    OBVIOUS
  <2>1. CASE j = i
    <3>1. s1.files[j].size = end /\ s1.files[j].start = first
      BY <2>1, <1>14, <1>20
    <3>2. Size(w.fat, first) \in Nat /\ BlockSize \in Nat
      BY <1>6, SizeIs, SizeAssumption
    <3>3. BlockSize * Size(w.fat, first) = Size(w.fat, first) * BlockSize
      BY <3>2
    <3> QED BY <3>1, <3>3, <1>7
  <2>2. CASE j # i
    <3>1. s1.files[j] = s.files[j] /\ s.files[j].start \in S \ {first}
      BY <2>2, <1>1, <1>20, <1>23
    <3>2. Size(w.fat, s.files[j].start) = Size(fat, s.files[j].start)
      BY <3>1, <1>5 DEF Size
    <3> QED BY <3>1, <3>2, <1>1 DEF Body, fat
  <2> QED BY <2>1, <2>2
<1>25. Size(w.fat, DirBlock) = Size(fat, DirBlock)
  BY <1>1, <1>2, <1>5 DEF Size
<1>26. Body(s1, S)
  <2>1. Header + EntrySize * (Len(s1.files) - 1) <= Size(s1.fat, DirBlock) * BlockSize
    BY <1>1, <1>18, <1>20, <1>25 DEF Body, fat
  <2> QED BY <1>1, <1>5, <1>18, <1>20, <1>21, <1>24, <2>1 DEF Body
<1>27. Covered(w.fat, S) = Covered(fat, S)
  <2>1. \A b : b \in Chain(w.fat, first) \/ b \in FreeBlocks(w.fat)
               <=> b \in Chain(fat, first) \/ b \in FreeBlocks(fat)
    BY <1>5
  <2> QED BY <2>1, <1>2, <1>5 DEF Covered
<1>28. Used(s1) = Used(s)
  BY <1>18, <1>22, <1>27, UsedIs DEF S, fat
<1>29. Sound(t) /\ Used(t) = Used(s1) /\ t.files = s1.files /\ t.slot = s1.slot /\ t.node = s1.node
  BY <1>3, <1>22, <1>26, FileListExportedSound
<1>30. WrittenAt(s, i, k, t)
  <2>1. /\ t.files = [s.files EXCEPT ![i] = [s.files[i] EXCEPT !.size = end]]
        /\ t.node = [s.node EXCEPT ![k] = [s.node[k] EXCEPT !.cursor = end]]
    BY <1>9, <1>10, <1>11, <1>12, <1>18, <1>29
  <2>2. Stays(s, t)
    BY <1>3, <1>18, <1>20, <1>22, <1>25, <1>26, ListStays DEF fat
  <2> QED BY <2>1, <2>2, <1>7, <1>18, <1>28, <1>29 DEF WrittenAt
<1> QED BY <1>30 DEF t

\* A restart: what the directory says is loaded, and the table is new.
MountedFrom(s, t) ==
  /\ Sound(t) /\ (Recorded(s) => Used(t) = Used(s))
  /\ t.slot = [fd \in Fds |-> IF fd \in Std THEN fd ELSE NoFd]
  /\ t.node = [fd \in Fds |-> IF fd \in Std THEN Dummy ELSE Blank]
  /\ t.files = LoadFileList(s) /\ t.dir = s.dir /\ t.dirSize = s.dirSize /\ t.fat = s.fat

FdsAre == Fds \subseteq Nat /\ 0 \in Fds /\ 1 \in Fds /\ 2 \in Fds /\ IsFiniteSet(Fds)

LEMMA FdsHold == FdsAre
BY SizeAssumption, FS_Interval DEF FdsAre, Fds

LEMMA FreshTable ==
  /\ [fd \in Fds |-> IF fd \in Std THEN fd ELSE NoFd] \in [Fds -> Fds \cup {NoFd}]
  /\ [fd \in Fds |-> IF fd \in Std THEN Dummy ELSE Blank] \in [Fds -> Node]
  /\ Dummy = [live |-> TRUE, name |-> NoName, cursor |-> 0]
  /\ Blank = [live |-> FALSE, name |-> NoName, cursor |-> 0]
<1>1. Blank = [live |-> FALSE, name |-> NoName, cursor |-> 0]
  BY DEF Blank
<1>2. Dummy = [live |-> TRUE, name |-> NoName, cursor |-> 0]
  <2> PICK x : x = Blank
    OBVIOUS
  <2>1. x \in [live : BOOLEAN, name : {NoName}, cursor : {0}] /\ Dummy = [x EXCEPT !.live = TRUE]
    BY DEF Dummy, Blank
  <2>2. /\ Dummy \in [live : BOOLEAN, name : {NoName}, cursor : {0}] /\ Dummy.live = TRUE
        /\ Dummy.name = NoName /\ Dummy.cursor = 0
    BY <2>1
  <2> QED BY <2>2
<1>3. Blank \in Node /\ Dummy \in Node
  BY <1>1, <1>2 DEF Node
<1> QED BY <1>1, <1>2, <1>3

LEMMA Loaded ==
  ASSUME NEW s, Sound(s), NEW m, m = s.dirSize \div EntrySize,
         NEW list, list = LoadFileList(s)
  PROVE  /\ m \in Nat /\ m <= Len(s.files)
         /\ list \in Seq(File) /\ Len(list) = m
         /\ \A i \in 1..m : /\ i \in Places(s)
                            /\ list[i].name = s.files[i].name /\ list[i].size = s.files[i].size
                            /\ list[i].start = s.files[i].start /\ list[i].open = 0
         /\ 2 * m <= s.dirSize /\ s.dirSize <= 2 * m + 1 /\ s.dirSize \in Nat
<1>1. /\ s \in Systems /\ Agrees(s) /\ Places(s) = 1..Len(s.files) /\ Len(s.files) \in Nat
      /\ \A k \in Places(s) : s.files[k] \in File
  BY BodyFacts DEF Sound
<1>2. s.dirSize \in Nat
  BY <1>1 DEF Systems
<1>3. m \in Nat /\ 2 * m <= s.dirSize /\ s.dirSize <= 2 * m + 1
  BY <1>2 DEF EntrySize
<1>4. ASSUME NEW i \in 1..m
      PROVE  /\ i \in Places(s)
             /\ list[i] = NewFile(s.files[i].name, s.files[i].size, s.files[i].start)
  <2>1. /\ i \in Places(s)
        /\ s.dir[EntrySize * i - 2] = OnDisk(s.files[i])
        /\ s.dir[EntrySize * i - 1] = OnDisk(s.files[i])
    BY <1>1 DEF Agrees
  <2>2. (i - 1) * EntrySize = EntrySize * i - 2 /\ (i - 1) * EntrySize + 1 = EntrySize * i - 1
    BY <1>3 DEF EntrySize
  <2>3. list[i] = NewFile(s.dir[EntrySize * i - 2].name, s.dir[EntrySize * i - 1].size,
                          s.dir[EntrySize * i - 1].start)
    BY <2>2 DEF LoadFileList
  <2> QED BY <2>1, <2>3 DEF OnDisk
<1>5. ASSUME NEW i \in 1..m
      PROVE  /\ list[i] \in File
             /\ list[i].name = s.files[i].name /\ list[i].size = s.files[i].size
             /\ list[i].start = s.files[i].start /\ list[i].open = 0
  <2> DEFINE f == s.files[i]
  <2>1. f \in File /\ list[i] = NewFile(f.name, f.size, f.start)
    BY <1>1, <1>4
  <2> HIDE DEF f
  <2>2. NewFile(f.name, f.size, f.start)
          = [name |-> f.name, size |-> f.size, start |-> f.start, open |-> 0, marked |-> FALSE]
    BY DEF NewFile
  <2>3. f.name \in Names /\ f.size \in Nat /\ f.start \in Blocks \ {DirBlock}
    BY <2>1 DEF File
  <2>4. list[i] \in File
    BY <2>1, <2>2, <2>3 DEF File
  <2>5. list[i].name = f.name /\ list[i].size = f.size /\ list[i].start = f.start /\ list[i].open = 0
    BY <2>1, <2>2
  <2> QED BY <2>4, <2>5 DEF f
<1>6. list = [i \in 1..m |-> list[i]]
  BY DEF LoadFileList
<1>7. list \in Seq(File) /\ Len(list) = m
  <2>1. list \in [1..m -> File]
    BY <1>5, <1>6
  <2> QED BY <2>1, <1>3
<1>8. m <= Len(s.files)
  <2>1. CASE m = 0
    BY <2>1, <1>1
  <2>2. CASE m # 0
    <3>1. m \in 1..m
      BY <2>2, <1>3
    <3> QED BY <3>1, <1>1, <1>4
  <2> QED BY <2>1, <2>2
<1> QED BY <1>2, <1>3, <1>4, <1>5, <1>7, <1>8

LEMMA MountedIs ==
  ASSUME NEW s, Sound(s)
  PROVE  MountedFrom(s, Mounted(s))
<1> DEFINE S == Starts(s)
           n == Len(s.files)
           m == s.dirSize \div EntrySize
           list == LoadFileList(s)
           slot == [fd \in Fds |-> IF fd \in Std THEN fd ELSE NoFd]
           node == [fd \in Fds |-> IF fd \in Std THEN Dummy ELSE Blank]
           t == Mounted(s)
           T == Starts(t)
<1>1. /\ Body(s, S) /\ s \in Systems /\ Agrees(s) /\ Distinct(s.files)
      /\ n \in Nat /\ Places(s) = 1..n /\ DirBlock \in S /\ Apart(s.fat, S)
      /\ \A k \in Places(s) : s.files[k] \in File /\ s.files[k].start \in S \ {DirBlock}
  BY BodyFacts DEF Sound
<1>2. /\ m \in Nat /\ m <= n /\ list \in Seq(File) /\ Len(list) = m
      /\ \A i \in 1..m : /\ i \in Places(s)
                         /\ list[i].name = s.files[i].name /\ list[i].size = s.files[i].size
                         /\ list[i].start = s.files[i].start /\ list[i].open = 0
      /\ 2 * m <= s.dirSize /\ s.dirSize <= 2 * m + 1 /\ s.dirSize \in Nat
  BY Loaded
<1>3. slot \in [Fds -> Fds \cup {NoFd}] /\ node \in [Fds -> Node]
  BY FreshTable
<1>4. t = [s EXCEPT !.files = list, !.slot = slot, !.node = node]
  BY <1>1 DEF Mounted, InitFdList, Systems
<1> HIDE DEF list, slot, node, t
<1>5. /\ t \in Systems /\ t.files = list /\ t.slot = slot /\ t.node = node
      /\ t.fat = s.fat /\ t.dir = s.dir /\ t.dirSize = s.dirSize
  BY <1>1, <1>2, <1>3, <1>4 DEF Systems
<1> HIDE DEF S, n, m
<1>6. Places(t) = 1..m
  BY <1>2, <1>5, PlacesAre
<1>7. \A i \in 1..m : /\ i \in Places(s)
                      /\ t.files[i].name = s.files[i].name /\ t.files[i].size = s.files[i].size
                      /\ t.files[i].start = s.files[i].start
  BY <1>2, <1>5
<1>8. T \subseteq S /\ DirBlock \in T
  BY <1>6, <1>7 DEF Starts, S
<1> HIDE DEF T
<1>9. Apart(t.fat, T)
  <2> DEFINE fat == s.fat
  <2>1. Apart(fat, S) /\ fat \in Fats
    BY <1>1 DEF Apart
  <2> HIDE DEF fat
  <2>2. StayApart(fat, fat, T)
    BY <1>8, <2>1, ApartKeeps
  <2> QED BY <2>2, <1>5 DEF StayApart, fat
<1>10. Recorded(s) <=> s.dirSize = 2 * n
  BY DEF Recorded, EntrySize, n
<1>11. Recorded(t) <=> s.dirSize = 2 * m
  BY <1>2, <1>5 DEF Recorded, EntrySize
<1>12. Recorded(s) => m = n
  BY <1>1, <1>2, <1>10
<1>13. Body(t, T)
  <2>1. Distinct(t.files)
    BY <1>1, <1>2, <1>5, <1>7 DEF Distinct, n
  <2>2. \A i \in Places(t) : t.files[i].start \in T
    BY DEF Starts, T
  <2>3. \A i \in Places(t) : t.files[i].size <= BlockSize * Size(t.fat, t.files[i].start)
    BY <1>1, <1>5, <1>6, <1>7 DEF Body
  <2>4. Header + EntrySize * (Len(t.files) - 1) <= Size(t.fat, DirBlock) * BlockSize
    <3> DEFINE X == Size(s.fat, DirBlock) * BlockSize
    <3>1. X \in Nat /\ Header + s.dirSize <= X
      BY <1>1, DirectoryHasRoom DEF Agrees
    <3> HIDE DEF X
    <3>2. Header + EntrySize * (m - 1) <= X
      BY <3>1, <1>2 DEF Header, EntrySize
    <3> QED BY <3>2, <1>2, <1>5 DEF X
  <2> QED BY <1>5, <1>9, <2>1, <2>2, <2>3, <2>4 DEF Body
<1>14. Agrees(t)
  <2>1. t.dirSize <= EntrySize * Len(t.files) + 1
    BY <1>2, <1>5 DEF EntrySize
  <2>2. Recorded(t) \/ FreeBlocks(t.fat) = {}
    BY <1>1, <1>5, <1>10, <1>11, <1>12 DEF Agrees
  <2>3. ASSUME NEW i \in 1..(t.dirSize \div EntrySize)
        PROVE  /\ i \in Places(t)
               /\ t.dir[EntrySize * i - 2] = OnDisk(t.files[i])
               /\ t.dir[EntrySize * i - 1] = OnDisk(t.files[i])
    <3>1. i \in 1..m
      BY <1>5 DEF m
    <3>2. s.dir[EntrySize * i - 2] = OnDisk(s.files[i]) /\ s.dir[EntrySize * i - 1] = OnDisk(s.files[i])
      BY <3>1, <1>1 DEF Agrees, m
    <3>3. OnDisk(t.files[i]) = OnDisk(s.files[i])
      BY <3>1, <1>7 DEF OnDisk
    <3> QED BY <3>1, <3>2, <3>3, <1>5, <1>6
  <2> QED BY <1>1, <1>5, <2>1, <2>2, <2>3 DEF Agrees
<1>15. Recorded(s) => Used(t) = Used(s)
  <2> SUFFICES ASSUME Recorded(s) PROVE Used(t) = Used(s)
    OBVIOUS
  <2>1. Places(t) = Places(s)
    BY <1>1, <1>6, <1>12
  <2>2. T = S
    BY <2>1, <1>6, <1>7 DEF Starts, S, T
  <2> QED BY <2>2, <1>5, UsedIs DEF S, T
<1>16. MountedFrom(s, t)
  BY <1>5, <1>13, <1>14, <1>15 DEF MountedFrom, Sound, list, slot, node, T
<1> QED BY <1>16 DEF t
-----------------------------------------------------------------------------
(***************************************************************************)
(* The files and the descriptors of them.                                  *)
(***************************************************************************)
\* A file counts at least the descriptors that name it.
Held(s) == \A x \in Names : Cardinality(Holders(s, x)) <= Named(s, x).open

\* A descriptor that names a file is live; those of the terminal name none.
Nodes(s) ==
  \A n \in Fds : /\ s.node[n].name # NoName => s.node[n].live
                 /\ n \in Std => s.node[n].name = NoName

\* Past the terminal's three, a slot is empty or leads to its own node, and the
\* node of an empty one is free.
Free(s) ==
  \A n \in Fds : n >= MinFreeFd =>
    /\ s.slot[n] \in {NoFd, n}
    /\ s.slot[n] = NoFd => ~s.node[n].live

Core(s) == Sound(s) /\ Held(s) /\ Nodes(s) /\ Free(s)

LEMMA FreeStays ==
  ASSUME NEW s, Free(s), NEW t, t.slot = s.slot,
         \A n \in Fds : t.node[n].live = s.node[n].live
  PROVE  Free(t)
BY DEF Free

\* The cursor of a descriptor is at the end of its file.
AtEnd(s, n) ==
  s.node[n].name \in Names => s.node[n].cursor = Named(s, s.node[n].name).size

LEMMA CoreFacts ==
  ASSUME NEW s, Core(s)
  PROVE  /\ Sound(s) /\ Held(s) /\ Nodes(s) /\ Free(s) /\ s \in Systems
         /\ s.files \in Seq(File) /\ Distinct(s.files)
         /\ Places(s) = 1..Len(s.files) /\ Len(s.files) \in Nat
         /\ \A i \in Places(s) : s.files[i] \in File
         /\ s.slot \in [Fds -> Fds \cup {NoFd}] /\ s.node \in [Fds -> Node]
<1>1. Sound(s) /\ Held(s) /\ Nodes(s) /\ Free(s)
  BY DEF Core
<1>2. /\ s \in Systems /\ s.files \in Seq(File) /\ Distinct(s.files)
      /\ Places(s) = 1..Len(s.files) /\ Len(s.files) \in Nat
      /\ \A i \in Places(s) : s.files[i] \in File
  BY <1>1, BodyFacts DEF Sound
<1> QED BY <1>1, <1>2 DEF Systems

\* How many descriptors name a file is a number.
LEMMA HoldersCount ==
  ASSUME NEW s, NEW x
  PROVE  /\ Holders(s, x) \subseteq Fds /\ IsFiniteSet(Holders(s, x))
         /\ Cardinality(Holders(s, x)) \in Nat
<1>1. Holders(s, x) \subseteq Fds
  BY DEF Holders
<1>2. IsFiniteSet(Fds)
  BY FdsHold DEF FdsAre
<1> QED BY <1>1, <1>2, FS_Subset, FS_CardinalityType

\* A file named is one of the list, or no file, which nobody has open.
LEMMA NamedKind ==
  ASSUME NEW s, s.files \in Seq(File), NEW x
  PROVE  /\ Named(s, x).open \in Nat /\ Named(s, x).size \in Nat
         /\ \/ FindFile(s, x) = 0 /\ Named(s, x) = NoFile
            \/ FindFile(s, x) \in Places(s) /\ Named(s, x) = s.files[FindFile(s, x)]
<1>1. Places(s) = 1..Len(s.files) /\ Len(s.files) \in Nat /\ \A i \in Places(s) : s.files[i] \in File
  BY PlacesAre
<1>2. CASE FindFile(s, x) = 0
  BY <1>2 DEF Named, NoFile
<1>3. CASE FindFile(s, x) # 0
  <2>1. FindFile(s, x) \in Places(s) /\ Named(s, x) = s.files[FindFile(s, x)]
    BY <1>1, <1>3, FindIs DEF Named
  <2> QED BY <2>1, <1>1 DEF File
<1> QED BY <1>2, <1>3

\* Files of the same sizes and counts, and the same descriptors.
SameFiles(s, t) ==
  /\ t.node = s.node
  /\ \A x \in Names : Named(t, x).open = Named(s, x).open /\ Named(t, x).size = Named(s, x).size

LEMMA SameFilesKeep ==
  ASSUME NEW s, Held(s), Nodes(s), NEW t, SameFiles(s, t)
  PROVE  Held(t) /\ Nodes(t) /\ \A n \in Fds : AtEnd(s, n) => AtEnd(t, n)
<1>1. \A x : Holders(t, x) = Holders(s, x)
  BY DEF Holders, SameFiles
<1>2. Held(t)
  BY <1>1 DEF Held, SameFiles
<1>3. Nodes(t)
  BY DEF Nodes, SameFiles
<1>4. \A n \in Fds : AtEnd(s, n) => AtEnd(t, n)
  BY DEF AtEnd, SameFiles
<1> QED BY <1>2, <1>3, <1>4

\* A descriptor of x is made of any other.
LEMMA HoldersGrow ==
  ASSUME NEW s, s.node \in [Fds -> Node], NEW fd \in Fds, NEW e \in Node, NEW t,
         t.node = [s.node EXCEPT ![fd] = e], NEW x
  PROVE  Cardinality(Holders(t, x)) <= Cardinality(Holders(s, x)) + IF e.name = x THEN 1 ELSE 0
<1>1. \A n \in Fds : t.node[n] = IF n = fd THEN e ELSE s.node[n]
  OBVIOUS
<1> DEFINE H == Holders(s, x)
           K == Holders(t, x)
<1>2. /\ IsFiniteSet(H) /\ Cardinality(H) \in Nat /\ IsFiniteSet(K) /\ Cardinality(K) \in Nat
      /\ H \subseteq Fds
  BY HoldersCount
<1>3. \A n \in K : n \in H \/ (n = fd /\ e.name = x)
  BY <1>1 DEF Holders
<1> HIDE DEF H, K
<1>4. CASE e.name = x
  <2>1. IsFiniteSet(H \cup {fd}) /\ Cardinality(H \cup {fd}) <= Cardinality(H) + 1
    <3>1. /\ IsFiniteSet(H \cup {fd})
          /\ Cardinality(H \cup {fd}) = IF fd \in H THEN Cardinality(H) ELSE Cardinality(H) + 1
      BY <1>2, FS_AddElement
    <3> QED BY <3>1, <1>2
  <2>2. Cardinality(K) <= Cardinality(H \cup {fd})
    BY <2>1, <1>3, FS_Subset
  <2>3. Cardinality(H \cup {fd}) \in Nat
    BY <2>1, FS_CardinalityType
  <2> QED BY <2>1, <2>2, <2>3, <1>2, <1>4 DEF H, K
<1>5. CASE e.name # x
  <2>1. Cardinality(K) <= Cardinality(H)
    BY <1>2, <1>3, <1>5, FS_Subset
  <2> QED BY <2>1, <1>2, <1>5 DEF H, K
<1> QED BY <1>4, <1>5

\* One descriptor of x fewer.
LEMMA HoldersShrink ==
  ASSUME NEW s, Nodes(s), s.node \in [Fds -> Node], NEW k \in Fds,
         NEW t, t.node = [s.node EXCEPT ![k] = Blank], NEW x \in Names
  PROVE  /\ Holders(t, x) = Holders(s, x) \ {k}
         /\ Cardinality(Holders(t, x))
              = Cardinality(Holders(s, x)) - IF s.node[k].name = x THEN 1 ELSE 0
<1>1. \A n \in Fds : t.node[n] = IF n = k THEN Blank ELSE s.node[n]
  OBVIOUS
<1>2. ~Blank.live
  BY DEF Blank
<1>3. Holders(t, x) = Holders(s, x) \ {k}
  BY <1>1, <1>2 DEF Holders
<1>4. k \in Holders(s, x) <=> s.node[k].name = x
  BY NamesAssumption DEF Holders, Nodes
<1>5. IsFiniteSet(Holders(s, x)) /\ Cardinality(Holders(s, x)) \in Nat
  BY HoldersCount
<1> DEFINE H == Holders(s, x)
<1>6. Cardinality(H \ {k}) = Cardinality(H) - IF k \in H THEN 1 ELSE 0
  <2> HIDE DEF H
  <2>1. IsFiniteSet(H) /\ Cardinality(H) \in Nat
    BY <1>5 DEF H
  <2>2. Cardinality(H \ {k}) = IF k \in H THEN Cardinality(H) - 1 ELSE Cardinality(H)
    BY <2>1, FS_RemoveElement
  <2> QED BY <2>1, <2>2
<1> QED BY <1>3, <1>4, <1>6
-----------------------------------------------------------------------------
(***************************************************************************)
(* What a call does to each file: from s to t the file named x ...         *)
(***************************************************************************)
Listed(s, x) == Named(s, x).name = x
Length(s, x) == Named(s, x).size
Marked(s, x) == Named(s, x).marked
Holds(s, x)  == Cardinality(Holders(s, x))

Same(s, t, x) ==
  /\ Listed(t, x) <=> Listed(s, x)
  /\ Marked(t, x) <=> Marked(s, x)

Rests(s, t, x) ==
  Same(s, t, x) /\ Length(t, x) = Length(s, x) /\ Holds(t, x) = Holds(s, x)
Makes(s, t, x) ==
  ~Listed(s, x) /\ Listed(t, x) /\ ~Marked(t, x) /\ Length(t, x) = 0 /\ Holds(t, x) \in {0, 1}
Opens(s, t, x) ==
  Listed(s, x) /\ Same(s, t, x) /\ Length(t, x) \in {0, Length(s, x)} /\ Holds(t, x) = Holds(s, x) + 1
Writes(s, t, x) ==
  /\ Listed(s, x) /\ Same(s, t, x) /\ Length(t, x) >= Length(s, x)
  /\ Holds(s, x) > 0 /\ Holds(t, x) = Holds(s, x)
Dooms(s, t, x) ==
  /\ Listed(s, x) /\ Listed(t, x) /\ Marked(t, x) /\ Length(t, x) = Length(s, x)
  /\ Holds(t, x) = Holds(s, x)
Drops(s, t, x) == Listed(s, x) /\ ~Listed(t, x) /\ Holds(s, x) = 0
\* ... loses holders, and is gone with the last of them when it is marked.
Sheds(s, t, x) ==
  \/ Same(s, t, x) /\ Length(t, x) = Length(s, x) /\ Holds(t, x) <= Holds(s, x)
  \/ Listed(s, x) /\ ~Listed(t, x) /\ Marked(s, x)

\* The directory has an entry for x.
OnRecord(s, x) ==
  \E i \in Places(s) : EntrySize * i <= s.dirSize /\ s.files[i].name = x

\* No call takes the entry of a file that stays.
Saves(s, t) == \A x \in Names : OnRecord(s, x) /\ Listed(t, x) => OnRecord(t, x)

\* What any call, an f_close, and an f_open of x do to the files.
Fares(s, t) ==
  /\ \A x \in Names : \/ Rests(s, t, x) \/ Makes(s, t, x) \/ Opens(s, t, x)
                      \/ Writes(s, t, x) \/ Dooms(s, t, x) \/ Drops(s, t, x)
                      \/ Sheds(s, t, x)
  /\ Saves(s, t)
Closes(s, t) == (\A x \in Names : Sheds(s, t, x)) /\ Saves(s, t)
OpensOne(s, x, t) ==
  /\ \A y \in Names : Rests(s, t, y) \/ (y = x /\ (Makes(s, t, y) \/ Opens(s, t, y)))
  /\ Saves(s, t)

LEMMA HoldsIs ==
  ASSUME NEW s, NEW x
  PROVE  Holds(s, x) \in Nat
BY HoldersCount DEF Holds

\* Nobody holds a file that is not there, and it is neither marked nor long.
LEMMA NotListed ==
  ASSUME NEW s, Core(s), NEW x \in Names
  PROVE  /\ Length(s, x) \in Nat
         /\ ~Listed(s, x) => ~Marked(s, x) /\ Length(s, x) = 0 /\ Holds(s, x) = 0
         /\ Listed(s, x) <=> FindFile(s, x) # 0
<1>1. s.files \in Seq(File) /\ Held(s) /\ Len(s.files) \in Nat /\ Places(s) = 1..Len(s.files)
  BY CoreFacts
<1>2. Length(s, x) \in Nat
  BY <1>1, NamedKind DEF Length
<1>3. Listed(s, x) <=> FindFile(s, x) # 0
  <2>1. CASE FindFile(s, x) = 0
    <3>1. Named(s, x) = NoFile /\ NoFile.name # x
      BY <2>1, NamesAssumption DEF Named, NoFile
    <3> QED BY <2>1, <3>1 DEF Listed
  <2>2. CASE FindFile(s, x) # 0
    <3>1. FindFile(s, x) \in Places(s) /\ s.files[FindFile(s, x)].name = x
      BY <1>1, <2>2, FindIs
    <3> QED BY <2>2, <3>1 DEF Listed, Named
  <2> QED BY <2>1, <2>2
<1>4. ASSUME ~Listed(s, x)
      PROVE  ~Marked(s, x) /\ Length(s, x) = 0 /\ Holds(s, x) = 0
  <2>1. Named(s, x) = NoFile
    BY <1>3, <1>4 DEF Named
  <2>2. ~Marked(s, x) /\ Length(s, x) = 0 /\ NoFile.open = 0
    BY <2>1 DEF NoFile, Marked, Length
  <2>3. Holds(s, x) <= 0
    BY <1>1, <2>1, <2>2 DEF Held, Holds
  <2> QED BY <2>2, <2>3, HoldsIs
<1> QED BY <1>2, <1>3, <1>4

\* A file that Named gives back as it was, with as many holders, rests.
LEMMA RestIs ==
  ASSUME NEW s, NEW t, NEW x, Named(t, x) = Named(s, x), Holds(t, x) = Holds(s, x)
  PROVE  Rests(s, t, x)
BY DEF Rests, Same, Listed, Marked, Length

LEMMA HoldsSame ==
  ASSUME NEW s, NEW t, t.node = s.node, NEW x
  PROVE  Holds(t, x) = Holds(s, x)
BY DEF Holds, Holders

LEMMA ListedAt ==
  ASSUME NEW s, Core(s), NEW i \in Places(s), NEW x, s.files[i].name = x
  PROVE  /\ x \in Names /\ Listed(s, x) /\ Named(s, x) = s.files[i]
<1>1. s.files[i] \in File /\ s.files \in Seq(File) /\ Distinct(s.files)
  BY CoreFacts
<1>2. Named(s, x) = s.files[i]
  BY <1>1, NamedIs
<1>3. x \in Names
  BY <1>1 DEF File
<1> QED BY <1>2, <1>3 DEF Listed

\* Only files of the list have an entry.
LEMMA RecordIsListed ==
  ASSUME NEW s, Core(s), NEW x \in Names, OnRecord(s, x)
  PROVE  Listed(s, x)
<1>1. PICK i \in Places(s) : s.files[i].name = x
  BY DEF OnRecord
<1> QED BY <1>1, ListedAt

LEMMA ListedPlace ==
  ASSUME NEW s, Core(s), NEW x \in Names, Listed(s, x)
  PROVE  FindFile(s, x) \in Places(s) /\ s.files[FindFile(s, x)].name = x
BY CoreFacts, NotListed, FindIs

\* All entries: nothing is missing.
LEMMA AllOnRecord ==
  ASSUME NEW t, Core(t), Recorded(t), NEW x \in Names, Listed(t, x)
  PROVE  OnRecord(t, x)
<1> PICK i : i = FindFile(t, x)
  OBVIOUS
<1>1. i \in Places(t) /\ t.files[i].name = x /\ Places(t) = 1..Len(t.files) /\ Len(t.files) \in Nat
  BY ListedPlace, CoreFacts
<1>2. EntrySize * i <= t.dirSize
  BY <1>1 DEF Recorded, EntrySize
<1> QED BY <1>1, <1>2 DEF OnRecord

LEMMA SavesAll ==
  ASSUME NEW s, NEW t, Core(t), Recorded(t)
  PROVE  Saves(s, t)
BY AllOnRecord DEF Saves

\* The same entries for files of the same names.
LEMMA SavesSame ==
  ASSUME NEW s, NEW t, Stays(s, t),
         \A i \in Places(s) : i \in Places(t) /\ t.files[i].name = s.files[i].name
  PROVE  Saves(s, t)
BY DEF Saves, Stays, OnRecord

LEMMA StaysSame ==
  ASSUME NEW s, NEW t, t.dirSize = s.dirSize
  PROVE  Stays(s, t)
BY DEF Stays

LEMMA ClosesNothing ==
  ASSUME NEW s, Core(s)
  PROVE  Closes(s, s) /\ \A x \in Names : Rests(s, s, x)
<1>1. Saves(s, s)
  BY DEF Saves
<1>2. \A x \in Names : Rests(s, s, x)
  BY RestIs
<1>3. \A x \in Names : Sheds(s, s, x)
  BY <1>2, HoldsIs DEF Rests, Sheds
<1> QED BY <1>1, <1>2, <1>3 DEF Closes

LEMMA RestSheds ==
  ASSUME NEW s, NEW t, NEW x, Rests(s, t, x)
  PROVE  Sheds(s, t, x)
BY HoldsIs DEF Rests, Sheds

LEMMA ClosesFares ==
  ASSUME NEW s, NEW t, Closes(s, t)
  PROVE  Fares(s, t)
BY DEF Closes, Fares

LEMMA OpenFares ==
  ASSUME NEW s, NEW t, NEW x, OpensOne(s, x, t)
  PROVE  Fares(s, t)
BY DEF OpensOne, Fares

\* One f_close after another.
LEMMA ClosesTwice ==
  ASSUME NEW s, Core(s), NEW t, Core(t), NEW u, Core(u), Closes(s, t), Closes(t, u)
  PROVE  Closes(s, u)
<1>1. \A x \in Names : Sheds(s, t, x) /\ Sheds(t, u, x)
  BY DEF Closes
<1>2. ASSUME NEW x \in Names
      PROVE  Sheds(s, u, x) /\ (Listed(u, x) => Listed(t, x))
  <2>1. Holds(s, x) \in Nat /\ Holds(t, x) \in Nat /\ Holds(u, x) \in Nat
    BY HoldsIs
  <2>2. ~Listed(t, x) => Length(t, x) = 0 /\ Holds(t, x) = 0
    BY NotListed
  <2>3. Sheds(s, t, x) /\ Sheds(t, u, x)
    BY <1>1
  <2>4. Listed(u, x) => Listed(t, x)
    BY <2>3 DEF Sheds, Same
  <2>5. CASE Same(s, t, x) /\ Length(t, x) = Length(s, x) /\ Holds(t, x) <= Holds(s, x)
    BY <2>1, <2>3, <2>5 DEF Sheds, Same
  <2>6. CASE Listed(s, x) /\ ~Listed(t, x) /\ Marked(s, x)
    BY <2>4, <2>6 DEF Sheds
  <2> QED BY <2>3, <2>4, <2>5, <2>6 DEF Sheds
<1>3. Saves(s, u)
  <2>1. Saves(s, t) /\ Saves(t, u)
    BY DEF Closes
  <2> QED BY <1>2, <2>1 DEF Saves
<1> QED BY <1>2, <1>3 DEF Closes

\* One file of the list changed, with its name and its entry.
KeepsOthers(s, i, f, t) ==
  /\ Saves(s, t) /\ f.name \in Names
  /\ \A y : y # f.name => Named(t, y) = Named(s, y)
  /\ Named(t, f.name) = f /\ Named(s, f.name) = s.files[i]
  /\ Listed(s, f.name) /\ Listed(t, f.name)

LEMMA OneChanged ==
  ASSUME NEW s, Core(s), NEW i \in Places(s), NEW f \in File, f.name = s.files[i].name,
         NEW t, ChangedIn(s, i, f, t), Stays(s, t)
  PROVE  KeepsOthers(s, i, f, t)
<1>1. /\ Places(t) = Places(s)
      /\ \A j \in Places(s) : t.files[j] = IF j = i THEN f ELSE s.files[j]
      /\ \A x : Named(t, x) = IF x = f.name THEN f ELSE Named(s, x)
  BY DEF ChangedIn
<1>2. Saves(s, t)
  BY <1>1, SavesSame
<1>3. f.name \in Names /\ Listed(s, f.name) /\ Named(s, f.name) = s.files[i]
  BY ListedAt
<1>4. Named(t, f.name) = f
  BY <1>1
<1> QED BY <1>1, <1>2, <1>3, <1>4 DEF Listed, KeepsOthers

\* A descriptor is made of a free one.
TakesFree(s, fd, e, t) ==
  /\ s.node \in [Fds -> Node] /\ ~s.node[fd].live
  /\ e.live /\ t.node = [s.node EXCEPT ![fd] = e]

LEMMA HoldersAdd ==
  ASSUME NEW s, NEW fd \in Fds, NEW e \in Node, NEW t, TakesFree(s, fd, e, t), NEW x
  PROVE  Holds(t, x) = Holds(s, x) + IF x = e.name THEN 1 ELSE 0
<1>0. ~s.node[fd].live /\ e.live
  BY DEF TakesFree
<1>1. \A n \in Fds : t.node[n] = IF n = fd THEN e ELSE s.node[n]
  BY DEF TakesFree
<1> DEFINE H == Holders(s, x)
           K == Holders(t, x)
<1>2. IsFiniteSet(H) /\ Cardinality(H) \in Nat /\ fd \notin H
  <2>1. IsFiniteSet(H) /\ Cardinality(H) \in Nat
    BY HoldersCount
  <2>2. fd \notin H
    BY <1>0 DEF Holders
  <2> QED BY <2>1, <2>2
<1>3. K = IF x = e.name THEN H \cup {fd} ELSE H
  BY <1>0, <1>1 DEF Holders
<1> HIDE DEF H, K
<1>4. CASE x = e.name
  <2>1. Cardinality(H \cup {fd}) = Cardinality(H) + 1
    BY <1>2, FS_AddElement
  <2> QED BY <2>1, <1>3, <1>4 DEF Holds, H, K
<1>5. CASE x # e.name
  BY <1>2, <1>3, <1>5 DEF Holds, H, K
<1> QED BY <1>4, <1>5
-----------------------------------------------------------------------------
\* find_free_fd: a descriptor of no file, past those of the terminal.
LEMMA FindFreeFdIs ==
  ASSUME NEW s
  PROVE  \/ FindFreeFd(s) = Failed
         \/ FindFreeFd(s) \in Fds /\ FindFreeFd(s) >= MinFreeFd /\ s.slot[FindFreeFd(s)] = NoFd
<1> DEFINE free == {fd \in Fds : fd >= MinFreeFd /\ s.slot[fd] = NoFd}
<1>1. FindFreeFd(s) = IF free = {} THEN Failed ELSE Min(free)
  BY DEF FindFreeFd
<1>2. free \subseteq Nat
  BY FdsHold DEF FdsAre
<1>3. free # {} => Min(free) \in free
  <2> HIDE DEF free
  <2> QED BY <1>2, MinIs
<1>4. FindFreeFd(s) = Failed \/ FindFreeFd(s) \in free
  <2> HIDE DEF free
  <2> QED BY <1>1, <1>3
<1> QED BY <1>4

\* What becomes of a file when one of its fields is set.
Fields(g, f, size, open) ==
  /\ g \in File /\ g.name = f.name /\ g.start = f.start
  /\ g.size = size /\ g.open = open

LEMMA FieldsSet ==
  ASSUME NEW f \in File, NEW n \in Nat
  PROVE  /\ Fields([f EXCEPT !.size = n], f, n, f.open)
         /\ Fields([f EXCEPT !.open = n], f, f.size, n)
         /\ Fields([f EXCEPT !.marked = TRUE], f, f.size, f.open)
         /\ [f EXCEPT !.size = n].marked = f.marked
         /\ [f EXCEPT !.open = n].marked = f.marked
         /\ [f EXCEPT !.marked = TRUE].marked
<1>1. ASSUME NEW g, g = [f EXCEPT !.size = n] PROVE Fields(g, f, n, f.open)
  BY <1>1, SizeFile DEF Fields
<1>2. ASSUME NEW g, g = [f EXCEPT !.open = n] PROVE Fields(g, f, f.size, n)
  BY <1>2 DEF File, Fields
<1>3. ASSUME NEW g, g = [f EXCEPT !.marked = TRUE] PROVE Fields(g, f, f.size, f.open)
  BY <1>3 DEF File, Fields
<1>4. /\ [f EXCEPT !.size = n].marked = f.marked
      /\ [f EXCEPT !.open = n].marked = f.marked
      /\ [f EXCEPT !.marked = TRUE].marked
  BY DEF File
<1> QED BY <1>1, <1>2, <1>3, <1>4

\* f_open of x: no descriptor, or one of x, at its end when it is to be written.
OpenedTo(s, x, mode, t, fd) ==
  /\ Core(t) /\ Used(t) = Used(s) /\ OpensOne(s, x, t)
  /\ IF fd = Failed
     THEN /\ t.slot = s.slot /\ t.node = s.node
          /\ \A n \in Fds : AtEnd(s, n) => AtEnd(t, n)
     ELSE /\ fd \in Fds /\ fd >= MinFreeFd /\ s.slot[fd] = NoFd
          /\ t.slot = [s.slot EXCEPT ![fd] = fd]
          /\ \A n \in Fds \ {fd} : t.node[n] = s.node[n]
          /\ mode # "read" => AtEnd(t, fd)
          /\ mode # "write" => \A n \in Fds \ {fd} : AtEnd(s, n) => AtEnd(t, n)

\* A descriptor of the file at place i, with its cursor anywhere.
GivenFd(s, i, fd, cursor, t) ==
  /\ Core(t) /\ Used(t) = Used(s) /\ i \in Places(t)
  /\ t.slot = [s.slot EXCEPT ![fd] = fd]
  /\ \A n \in Fds \ {fd} : t.node[n] = s.node[n]
  /\ \A x \in Names : Named(t, x).size = Named(s, x).size
  /\ \A n \in Fds \ {fd} : AtEnd(s, n) => AtEnd(t, n)
  /\ cursor = s.files[i].size => AtEnd(t, fd)
  /\ t.files[i].name = s.files[i].name
  /\ Saves(s, t)
  /\ \A y \in Names : /\ Same(s, t, y)
                      /\ Holds(t, y) = Holds(s, y) + IF y = s.files[i].name THEN 1 ELSE 0

LEMMA FdGiven ==
  ASSUME NEW s, Core(s), NEW i \in Places(s), NEW fd \in Fds, fd >= MinFreeFd,
         s.slot[fd] = NoFd, NEW cursor \in Nat
  PROVE  GivenFd(s, i, fd, cursor, SetFdNode(s, fd, i, cursor))
<1> DEFINE t == SetFdNode(s, fd, i, cursor)
           x == s.files[i].name
<1>1. /\ Sound(s) /\ Held(s) /\ Nodes(s) /\ s \in Systems
      /\ s.files \in Seq(File) /\ Distinct(s.files) /\ s.files[i] \in File
      /\ s.node \in [Fds -> Node]
  BY CoreFacts
<1>2. SetsNode(s, fd, i, cursor, t)
  BY <1>1, NodeIsSet
<1> HIDE DEF t
<1>3. Sound(t) /\ Used(t) = Used(s)
  BY <1>1, <1>2, NodeSetSound
<1>4. PICK f : f = [s.files[i] EXCEPT !.open = @ + 1]
  OBVIOUS
<1>5. /\ f \in File /\ f.name = x /\ f.start = s.files[i].start
      /\ f.size = s.files[i].size /\ f.open = s.files[i].open + 1
  <2> PICK old : old = s.files[i]
    OBVIOUS
  <2>1. old \in File /\ old.open \in Nat /\ old.open + 1 \in Nat
    BY <1>1 DEF File
  <2>2. Fields([old EXCEPT !.open = old.open + 1], old, old.size, old.open + 1)
    BY <2>1, FieldsSet
  <2>3. f = [old EXCEPT !.open = old.open + 1]
    BY <1>4
  <2> QED BY <2>2, <2>3 DEF Fields
<1>6. PICK e : e = [live |-> TRUE, name |-> x, cursor |-> cursor]
  OBVIOUS
<1>7. x \in Names
  BY <1>1 DEF File
<1>8. e \in Node /\ e.live /\ e.name = x /\ e.cursor = cursor
  BY <1>6, <1>7 DEF Node
<1>9. /\ t.files = [s.files EXCEPT ![i] = f] /\ t.node = [s.node EXCEPT ![fd] = e]
      /\ t.slot = [s.slot EXCEPT ![fd] = fd]
  BY <1>2, <1>4, <1>6 DEF SetsNode
<1>10. ChangedIn(s, i, f, t)
  BY <1>1, <1>5, <1>9, Changed
<1>11. /\ Places(t) = Places(s) /\ t.files[i] = f
       /\ \A y : Named(t, y) = IF y = x THEN f ELSE Named(s, y)
  BY <1>5, <1>10 DEF ChangedIn
<1>12. Named(s, x) = s.files[i]
  BY <1>1, NamedIs
<1> HIDE DEF x
<1>13. \A n \in Fds : t.node[n] = IF n = fd THEN e ELSE s.node[n]
  BY <1>1, <1>9
<1>14. \A y \in Names : Named(t, y).size = Named(s, y).size
  BY <1>5, <1>11, <1>12
<1>15. Held(t)
  <2> SUFFICES ASSUME NEW y \in Names
               PROVE  Cardinality(Holders(t, y)) <= Named(t, y).open
    BY DEF Held
  <2>1. Cardinality(Holders(t, y)) <= Cardinality(Holders(s, y)) + IF e.name = y THEN 1 ELSE 0
    BY <1>1, <1>8, <1>9, HoldersGrow
  <2>2. Cardinality(Holders(s, y)) <= Named(s, y).open
    BY <1>1 DEF Held
  <2>3. Cardinality(Holders(s, y)) \in Nat /\ Cardinality(Holders(t, y)) \in Nat
    BY HoldersCount
  <2>4. Named(s, y).open \in Nat
    BY <1>1, NamedKind
  <2>5. CASE y = x
    BY <2>1, <2>2, <2>3, <2>4, <2>5, <1>5, <1>8, <1>11, <1>12
  <2>6. CASE y # x
    BY <2>1, <2>2, <2>3, <2>4, <2>6, <1>8, <1>11
  <2> QED BY <2>5, <2>6
<1>16. Nodes(t)
  <2>1. fd \notin Std
    BY FdsHold DEF FdsAre, Std, MinFreeFd
  <2> QED BY <2>1, <1>1, <1>8, <1>13 DEF Nodes
<1>17. \A n \in Fds \ {fd} : AtEnd(s, n) => AtEnd(t, n)
  BY <1>13, <1>14 DEF AtEnd
<1>18. cursor = s.files[i].size => AtEnd(t, fd)
  BY <1>5, <1>8, <1>11, <1>13 DEF AtEnd
<1>19. GivenFd(s, i, fd, cursor, t)
  <2>1. Free(t)
    <3>1. Free(s) /\ s.slot \in [Fds -> Fds \cup {NoFd}]
      BY CoreFacts
    <3>2. fd # NoFd /\ \A n \in Fds : t.slot[n] = IF n = fd THEN fd ELSE s.slot[n]
      BY <1>9, <3>1, FdsHold DEF FdsAre, NoFd, MinFreeFd
    <3> QED BY <1>13, <3>1, <3>2 DEF Free
  <2>2. ~s.node[fd].live
    BY CoreFacts DEF Free
  <2>3. ASSUME NEW y \in Names PROVE Holds(t, y) = Holds(s, y) + IF y = x THEN 1 ELSE 0
    <3>1. TakesFree(s, fd, e, t)
      BY <1>1, <1>8, <1>9, <2>2 DEF TakesFree
    <3>2. Holds(t, y) = Holds(s, y) + IF y = e.name THEN 1 ELSE 0
      BY <1>8, <3>1, HoldersAdd
    <3> QED BY <3>2, <1>8
  <2>4. Stays(s, t)
    BY <1>2, StaysSame DEF SetsNode
  <2>5. f.name = s.files[i].name /\ f.marked = s.files[i].marked
    BY <1>1, <1>4, <1>5 DEF x, File
  <2>6. Saves(s, t)
    BY <1>5, <1>10, <2>4, <2>5, OneChanged DEF KeepsOthers
  <2>7. ASSUME NEW y \in Names PROVE Same(s, t, y)
    <3>1. CASE y = x
      BY <3>1, <1>5, <1>11, <1>12, <2>5 DEF Same, Listed, Marked, x
    <3>2. CASE y # x
      BY <3>2, <1>11 DEF Same, Listed, Marked
    <3> QED BY <3>1, <3>2
  <2> QED BY <1>3, <1>5, <1>9, <1>11, <1>13, <1>14, <1>15, <1>16, <1>17, <1>18,
             <2>1, <2>3, <2>6, <2>7 DEF GivenFd, Core, x
<1> QED BY <1>19 DEF t

\* truncate_file changes how many units a file has, and no other file.
Emptied(s, i, t) ==
  /\ Core(t) /\ Used(t) = Used(s) /\ t.slot = s.slot /\ t.node = s.node
  /\ \A x \in Names : Named(t, x).size = IF x = s.files[i].name THEN 0 ELSE Named(s, x).size
  /\ Saves(s, t) /\ \A y \in Names : Same(s, t, y) /\ Holds(t, y) = Holds(s, y)

LEMMA FileEmptied ==
  ASSUME NEW s, Core(s), NEW i \in Places(s)
  PROVE  Emptied(s, i, TruncateFile(s, i))
<1> DEFINE t == TruncateFile(s, i)
           x == s.files[i].name
<1>1. /\ Sound(s) /\ Held(s) /\ Nodes(s) /\ s.files \in Seq(File) /\ Distinct(s.files)
      /\ s.files[i] \in File
  BY CoreFacts
<1>2. TruncatedAt(s, i, t)
  BY <1>1, FileTruncated
<1> HIDE DEF t
<1>3. PICK f : f = [s.files[i] EXCEPT !.size = 0]
  OBVIOUS
<1>4. f \in File /\ f.name = x /\ f.start = s.files[i].start /\ f.size = 0 /\ f.open = s.files[i].open
  <2> PICK old : old = s.files[i]
    OBVIOUS
  <2>1. Fields([old EXCEPT !.size = 0], old, 0, old.open)
    BY <1>1, FieldsSet
  <2> QED BY <2>1, <1>3 DEF Fields
<1>5. /\ Sound(t) /\ Used(t) = Used(s) /\ t.files = [s.files EXCEPT ![i] = f]
      /\ t.slot = s.slot /\ t.node = s.node
  BY <1>2, <1>3 DEF TruncatedAt
<1>6. ChangedIn(s, i, f, t)
  BY <1>1, <1>4, <1>5, Changed
<1>7. \A y : Named(t, y) = IF y = x THEN f ELSE Named(s, y)
  BY <1>4, <1>6 DEF ChangedIn
<1>8. Named(s, x) = s.files[i]
  BY <1>1, NamedIs
<1> HIDE DEF x
<1>9. \A y : Named(t, y).open = Named(s, y).open
  BY <1>4, <1>7, <1>8
<1>10. \A y : Holders(t, y) = Holders(s, y)
  BY <1>5 DEF Holders
<1>11. Held(t)
  BY <1>1, <1>9, <1>10 DEF Held
<1>12. Nodes(t)
  BY <1>1, <1>5 DEF Nodes
<1>13. \A y \in Names : Named(t, y).size = IF y = x THEN 0 ELSE Named(s, y).size
  BY <1>4, <1>7
<1>14. Emptied(s, i, t)
  <2>1. Free(t)
    BY <1>5, CoreFacts, FreeStays
  <2>2. f.name = s.files[i].name /\ f.marked = s.files[i].marked
    BY <1>1, <1>3, <1>4 DEF x, File
  <2>3. Saves(s, t)
    BY <1>2, <1>4, <1>6, <2>2, OneChanged DEF TruncatedAt, KeepsOthers
  <2>4. ASSUME NEW y \in Names PROVE Same(s, t, y) /\ Holds(t, y) = Holds(s, y)
    <3>1. Holds(t, y) = Holds(s, y)
      BY <1>5, HoldsSame
    <3>2. CASE y = x
      BY <3>1, <3>2, <1>4, <1>7, <1>8, <2>2 DEF Same, Listed, Marked, x
    <3>3. CASE y # x
      BY <3>1, <3>3, <1>7 DEF Same, Listed, Marked
    <3> QED BY <3>2, <3>3
  <2> QED BY <1>5, <1>11, <1>12, <1>13, <2>1, <2>3, <2>4 DEF Emptied, Core, x
<1> QED BY <1>14 DEF t

\* f_open of a file of the list.
LEMMA ListedOpened ==
  ASSUME NEW s, Core(s), NEW x \in Names, FindFile(s, x) # 0,
         NEW mode \in {"read", "append", "write"}
  PROVE  OpenedTo(s, x, mode, Opened(s, x, mode), FindFreeFd(s))
<1> DEFINE fd == FindFreeFd(s)
           i  == FindFile(s, x)
           t  == Opened(s, x, mode)
<1>1. /\ s.files \in Seq(File) /\ Distinct(s.files) /\ Places(s) = 1..Len(s.files)
      /\ Len(s.files) \in Nat /\ \A k \in Places(s) : s.files[k] \in File
      /\ s.node \in [Fds -> Node]
  BY CoreFacts
<1>2. i \in Places(s) /\ s.files[i].name = x /\ s.files[i] \in File
  BY <1>1, FindIs
<1>3. fd = Failed \/ (fd \in Fds /\ fd >= MinFreeFd /\ s.slot[fd] = NoFd)
  BY FindFreeFdIs
<1>4. s.files[i].size \in Nat
  <2> PICK f : f = s.files[i]
    OBVIOUS
  <2> QED BY <1>2 DEF File
<1>5. /\ fd = Failed => t = s
      /\ fd # Failed /\ mode = "append" => t = SetFdNode(s, fd, i, s.files[i].size)
      /\ fd # Failed /\ mode = "read" => t = SetFdNode(s, fd, i, 0)
      /\ fd # Failed /\ mode = "write" => t = TruncateFile(SetFdNode(s, fd, i, 0), i)
  <2> HIDE DEF fd, i
  <2>1. t = IF fd = Failed THEN s
            ELSE CASE mode = "append" -> SetFdNode(s, fd, i, s.files[i].size)
                   [] mode = "read"   -> SetFdNode(s, fd, i, 0)
                   [] mode = "write"  -> TruncateFile(SetFdNode(s, fd, i, 0), i)
    BY DEF Opened, fd, i
  <2> HIDE DEF t
  <2> QED BY <2>1
<1> HIDE DEF fd, i, t
<1>9. Listed(s, x)
  BY NotListed
<1>6. CASE fd = Failed
  <2>1. OpensOne(s, x, s)
    BY ClosesNothing DEF OpensOne, Closes
  <2> QED BY <1>5, <1>6, <2>1 DEF OpenedTo, fd, t
<1>8. ASSUME NEW cursor, NEW u, GivenFd(s, i, fd, cursor, u)
      PROVE  OpensOne(s, x, u)
  <2>1. \A y \in Names : /\ Same(s, u, y) /\ Length(u, y) = Length(s, y)
                         /\ Holds(u, y) = Holds(s, y) + IF y = x THEN 1 ELSE 0
    BY <1>2, <1>8 DEF GivenFd, Length
  <2>2. \A y \in Names : Rests(s, u, y) \/ (y = x /\ Opens(s, u, y))
    BY <1>9, <2>1, HoldsIs DEF Rests, Opens
  <2> QED BY <1>8, <2>2 DEF GivenFd, OpensOne
<1>7. CASE fd # Failed
  <2>1. fd \in Fds /\ fd >= MinFreeFd /\ s.slot[fd] = NoFd
    BY <1>3, <1>7
  <2>2. CASE mode = "append"
    <3>1. GivenFd(s, i, fd, s.files[i].size, t)
      BY <1>2, <1>4, <1>5, <1>7, <2>1, <2>2, FdGiven
    <3>2. OpenedTo(s, x, mode, t, fd)
      BY <1>7, <1>8, <2>1, <3>1 DEF OpenedTo, GivenFd
    <3> QED BY <3>2 DEF fd, t
  <2>3. CASE mode = "read"
    <3>1. GivenFd(s, i, fd, 0, t)
      BY <1>2, <1>5, <1>7, <2>1, <2>3, FdGiven
    <3>2. OpenedTo(s, x, mode, t, fd)
      BY <1>7, <1>8, <2>1, <2>3, <3>1 DEF OpenedTo, GivenFd
    <3> QED BY <3>2 DEF fd, t
  <2>4. CASE mode = "write"
    <3>1. PICK u : u = SetFdNode(s, fd, i, 0)
      OBVIOUS
    <3>2. GivenFd(s, i, fd, 0, u)
      BY <1>2, <2>1, <3>1, FdGiven
    <3>3. Core(u) /\ i \in Places(u) /\ u.files[i].name = x /\ Used(u) = Used(s)
      BY <1>2, <3>2 DEF GivenFd
    <3>4. t = TruncateFile(u, i)
      BY <1>5, <1>7, <2>4, <3>1
    <3>5. Emptied(u, i, t)
      BY <3>3, <3>4, FileEmptied
    <3>6. Core(t) /\ t.slot = u.slot /\ t.node = u.node /\ Used(t) = Used(u)
      BY <3>5 DEF Emptied
    <3>7. u.node[fd].name = x /\ u.node[fd].cursor = 0
      <4>1. FdNodeSet(s, fd, i, [live |-> TRUE, name |-> s.files[i].name, cursor |-> 0], u)
        BY <3>1, SetFdNodeIs, CoreFacts
      <4>2. PICK e : e = [live |-> TRUE, name |-> s.files[i].name, cursor |-> 0]
        OBVIOUS
      <4>3. u.node = [s.node EXCEPT ![fd] = e]
        BY <4>1, <4>2 DEF FdNodeSet
      <4>4. u.node[fd] = e
        BY <1>1, <2>1, <4>3
      <4> QED BY <1>2, <4>2, <4>4
    <3>8. AtEnd(t, fd)
      BY <1>2, <3>3, <3>5, <3>6, <3>7 DEF AtEnd, Emptied
    <3>10. OpensOne(s, x, t)
      <4>1. OpensOne(s, x, u) /\ Emptied(u, i, t) /\ u.files[i].name = x
        BY <1>8, <3>2, <3>3, <3>5
      <4>2. \A y \in Names : /\ Same(u, t, y) /\ Holds(t, y) = Holds(u, y)
                             /\ Length(t, y) = IF y = x THEN 0 ELSE Length(u, y)
        BY <4>1 DEF Emptied, Length
      <4>3. \A y \in Names : /\ Same(s, u, y)
                             /\ Holds(u, y) = Holds(s, y) + IF y = x THEN 1 ELSE 0
        BY <1>2, <3>2 DEF GivenFd
      <4>4. \A y \in Names : Length(u, y) = Length(s, y)
        BY <3>2 DEF GivenFd, Length
      <4>5. \A y \in Names : Same(s, t, y)
        BY <4>2, <4>3 DEF Same
      <4>6. \A y \in Names : Rests(s, t, y) \/ (y = x /\ Opens(s, t, y))
        BY <1>9, <4>2, <4>3, <4>4, <4>5, HoldsIs DEF Rests, Opens
      <4>7. Saves(s, t)
        BY <4>1, <4>2 DEF OpensOne, Emptied, Saves, Same
      <4> QED BY <4>6, <4>7 DEF OpensOne
    <3>9. OpenedTo(s, x, mode, t, fd)
      BY <1>7, <2>1, <2>4, <3>2, <3>3, <3>6, <3>8, <3>10 DEF OpenedTo, GivenFd
    <3> QED BY <3>9 DEF fd, t
  <2> QED BY <2>2, <2>3, <2>4
<1> QED BY <1>6, <1>7

\* f_open.
LEMMA FileIsOpened ==
  ASSUME NEW s, Core(s), NEW x \in Names, NEW mode \in {"read", "append", "write"}, NEW o,
         o = FOpen(s, x, mode)
  PROVE  OpenedTo(s, x, mode, o.sys, o.fd)
<1>1. CASE FindFile(s, x) # 0
  <2>1. o.sys = Opened(s, x, mode) /\ o.fd = FindFreeFd(s)
    BY <1>1 DEF FOpen
  <2> QED BY <1>1, <2>1, ListedOpened
<1>2. CASE FindFile(s, x) = 0 /\ (mode = "read" \/ ~CanCreate(s))
  <2>1. o.sys = s /\ o.fd = Failed
    BY <1>2 DEF FOpen
  <2>2. OpensOne(s, x, s)
    BY ClosesNothing DEF OpensOne, Closes
  <2> QED BY <2>1, <2>2 DEF OpenedTo
<1>3. CASE FindFile(s, x) = 0 /\ mode # "read" /\ CanCreate(s)
  <2>1. PICK u : u = Create(s, x)
    OBVIOUS
  <2>2. o.sys = Opened(u, x, mode) /\ o.fd = FindFreeFd(s)
    BY <1>3, <2>1 DEF FOpen
  <2>3. Sound(s) /\ Held(s) /\ Nodes(s) /\ s.files \in Seq(File)
    BY CoreFacts
  <2>4. PICK f \in File : /\ f.name = x /\ f.size = 0 /\ f.open = 0 /\ ~f.marked
                          /\ CreatedIn(s, f, Create(s, x))
    BY <1>3, <2>3, FileCreated
  <2>5. CreatedIn(s, f, u)
    BY <2>1, <2>4
  <2>6. /\ Sound(u) /\ Used(u) = Used(s) /\ u.slot = s.slot /\ u.node = s.node
        /\ u.files \in Seq(File) /\ Distinct(u.files)
        /\ Places(u) = Places(s) \cup {Len(s.files) + 1} /\ u.files[Len(s.files) + 1] = f
        /\ \A j \in Places(s) : u.files[j] = s.files[j]
        /\ \A y : Named(u, y) = IF y = x THEN f ELSE Named(s, y)
    BY <2>4, <2>5 DEF CreatedIn, AddedTo
  <2>7. Named(s, x) = NoFile /\ NoFile.open = 0 /\ NoFile.size = 0
    BY <1>3 DEF Named, NoFile
  <2>8. SameFiles(s, u)
    BY <2>4, <2>6, <2>7 DEF SameFiles
  <2>9. Held(u) /\ Nodes(u) /\ \A n \in Fds : AtEnd(s, n) => AtEnd(u, n)
    BY <2>3, <2>8, SameFilesKeep
  <2>10. Core(u)
    <3>1. Free(u)
      BY <2>6, CoreFacts, FreeStays
    <3> QED BY <2>6, <2>9, <3>1 DEF Core
  <2>11. FindFile(u, x) # 0
    <3>1. Len(s.files) + 1 \in Places(u) /\ u.files[Len(s.files) + 1].name = x /\ Len(s.files) + 1 # 0
      BY <2>3, <2>4, <2>6
    <3>2. FindFile(u, x) = Len(s.files) + 1
      BY <2>6, <3>1, NamedIs
    <3> QED BY <3>1, <3>2
  <2>12. FindFreeFd(u) = FindFreeFd(s)
    BY <2>6 DEF FindFreeFd
  <2>13. OpenedTo(u, x, mode, o.sys, o.fd)
    BY <2>2, <2>10, <2>11, <2>12, ListedOpened
  <2> PICK t : t = o.sys
    OBVIOUS
  <2>14. /\ ~Listed(s, x) /\ Listed(u, x) /\ ~Marked(u, x) /\ Length(u, x) = 0 /\ Holds(u, x) = 0
         /\ \A y : y # x => Rests(s, u, y)
    <3>1. \A y : Holds(u, y) = Holds(s, y)
      BY <2>6, HoldsSame
    <3>2. ~Listed(s, x) /\ Holds(s, x) = 0
      BY <1>3, NotListed
    <3>3. Listed(u, x) /\ ~Marked(u, x) /\ Length(u, x) = 0
      BY <2>4, <2>6 DEF Listed, Marked, Length
    <3>4. \A y : y # x => Rests(s, u, y)
      BY <2>6, <3>1, RestIs
    <3> QED BY <3>1, <3>2, <3>3, <3>4
  <2>15. OpensOne(u, x, t) /\ Core(t)
    BY <2>13 DEF OpenedTo
  <2>16. ASSUME NEW y \in Names
         PROVE  Rests(s, t, y) \/ (y = x /\ Makes(s, t, y))
    <3>1. CASE y # x
      BY <3>1, <2>14, <2>15 DEF OpensOne, Rests, Same
    <3>2. CASE y = x
      <4>1. Rests(u, t, x) \/ Opens(u, t, x)
        BY <2>14, <2>15 DEF OpensOne, Makes
      <4>2. Listed(t, x) /\ ~Marked(t, x) /\ Length(t, x) = 0 /\ Holds(t, x) \in {0, 1}
        BY <4>1, <2>14 DEF Rests, Opens, Same
      <4> QED BY <3>2, <4>2, <2>14 DEF Makes
    <3> QED BY <3>1, <3>2
  <2>17. Saves(s, t)
    <3> SUFFICES ASSUME NEW y \in Names, OnRecord(s, y), Listed(t, y) PROVE OnRecord(t, y)
      BY DEF Saves
    <3>1. Listed(s, y)
      BY RecordIsListed
    <3>2. Listed(u, y)
      BY <3>1, <2>14 DEF Rests, Same
    <3>3. Saves(s, u)
      BY <2>5, <2>6, SavesSame DEF CreatedIn
    <3> QED BY <3>2, <3>3, <2>15 DEF Saves, OpensOne
  <2>18. OpensOne(s, x, t)
    BY <2>16, <2>17 DEF OpensOne
  <2> QED BY <2>6, <2>9, <2>13, <2>18 DEF OpenedTo
<1> QED BY <1>1, <1>2, <1>3
-----------------------------------------------------------------------------
\* A state that differs from s in its table alone.
SameList(s, t) ==
  /\ t \in Systems
  /\ t.fat = s.fat /\ t.dir = s.dir /\ t.dirSize = s.dirSize /\ t.files = s.files

LEMMA TableSound ==
  ASSUME NEW s, Sound(s), NEW t, SameList(s, t)
  PROVE  Sound(t) /\ Used(t) = Used(s)
<1>1. t \in Systems /\ t.fat = s.fat /\ t.dir = s.dir /\ t.dirSize = s.dirSize /\ t.files = s.files
  BY DEF SameList
<1>2. \A i \in Places(s) : OnDisk(t.files[i]) = OnDisk(s.files[i])
  BY <1>1
<1> QED BY <1>1, <1>2, SameDisk

LEMMA TableNamed ==
  ASSUME NEW s, NEW t, SameList(s, t), NEW x
  PROVE  FindFile(t, x) = FindFile(s, x) /\ Named(t, x) = Named(s, x)
BY FindSame DEF SameList

\* A table in which no file has more holders.
LEMMA TableCloses ==
  ASSUME NEW s, NEW t, SameList(s, t), \A x \in Names : Holds(t, x) <= Holds(s, x)
  PROVE  Closes(s, t)
<1>1. t.files = s.files /\ t.dirSize = s.dirSize
  BY DEF SameList
<1>2. Saves(s, t)
  BY <1>1, StaysSame, SavesSame DEF Places
<1>3. \A x \in Names : Sheds(s, t, x)
  BY TableNamed DEF Sheds, Same, Listed, Marked, Length
<1> QED BY <1>2, <1>3 DEF Closes

\* A table put in place of another.
WithTable(s, slot, node) == [s EXCEPT !.slot = slot, !.node = node]

LEMMA TableSet ==
  ASSUME NEW s \in Systems, NEW slot \in [Fds -> Fds \cup {NoFd}], NEW node \in [Fds -> Node],
         NEW t, t = WithTable(s, slot, node)
  PROVE  SameList(s, t) /\ t.slot = slot /\ t.node = node
<1> t = [s EXCEPT !.slot = slot, !.node = node]
  BY DEF WithTable
<1>1. /\ t.fat = s.fat /\ t.dir = s.dir /\ t.dirSize = s.dirSize /\ t.files = s.files
      /\ t.slot = slot /\ t.node = node
  BY DEF Systems
<1>2. t \in Systems
  BY DEF Systems
<1> QED BY <1>1, <1>2 DEF SameList

LEMMA BlankIsNode == Blank \in Node /\ Blank.name = NoName
BY FreshTable DEF Node

\* remove_fd_node.
NodeRemoved(s, fd, t) ==
  /\ SameList(s, t)
  /\ t.slot = [s.slot EXCEPT ![fd] = NoFd]
  /\ t.node = [s.node EXCEPT ![s.slot[fd]] = Blank]

LEMMA FdNodeRemoved ==
  ASSUME NEW s \in Systems, NEW fd \in Fds, s.slot[fd] \in Fds
  PROVE  NodeRemoved(s, fd, RemoveFdNode(s, fd))
<1> PICK k : k = s.slot[fd]
  OBVIOUS
<1> PICK slot : slot = [s.slot EXCEPT ![fd] = NoFd]
  OBVIOUS
<1> PICK node : node = [s.node EXCEPT ![k] = Blank]
  OBVIOUS
<1>1. s.slot \in [Fds -> Fds \cup {NoFd}] /\ s.node \in [Fds -> Node] /\ Blank \in Node
  BY BlankIsNode DEF Systems
<1>2. slot \in [Fds -> Fds \cup {NoFd}] /\ node \in [Fds -> Node]
  BY <1>1
<1>3. RemoveFdNode(s, fd) = [s EXCEPT !.slot[fd] = NoFd, !.node[k] = Blank]
  BY DEF RemoveFdNode
<1>4. [s EXCEPT !.slot[fd] = NoFd, !.node[k] = Blank] = [s EXCEPT !.slot = slot, !.node = node]
  <2> DEFINE D == [0..(MaxDirSize - 1) -> Unit]
             L == Seq(File)
             N == [Fds -> Node]
             M == [Fds -> Fds \cup {NoFd}]
  <2>1. s \in [fat : Fats, dirSize : Nat, dir : D, files : L, slot : M, node : N]
    BY DEF Systems
  <2> HIDE DEF D, L, N, M
  <2> QED BY <2>1
<1> PICK t : t = RemoveFdNode(s, fd)
  OBVIOUS
<1>5. t = WithTable(s, slot, node)
  BY <1>3, <1>4 DEF WithTable
<1>6. SameList(s, t) /\ t.slot = slot /\ t.node = node
  BY <1>2, <1>5, TableSet
<1>7. /\ t.slot = [s.slot EXCEPT ![fd] = NoFd]
      /\ t.node = [s.node EXCEPT ![s.slot[fd]] = Blank]
  BY <1>6
<1>8. NodeRemoved(s, fd, t)
  BY <1>6, <1>7 DEF NodeRemoved
<1> QED BY <1>8

\* The disk and the descriptors survive a list with one file's count or mark
\* set.
FileSet(s, i, f, t) ==
  /\ t \in Systems /\ t.files = [s.files EXCEPT ![i] = f]
  /\ t.fat = s.fat /\ t.dir = s.dir /\ t.dirSize = s.dirSize
  /\ t.slot = s.slot /\ t.node = s.node

LEMMA OneFileSet ==
  ASSUME NEW s \in Systems, NEW i \in Places(s), NEW f \in File, NEW t,
         t = [s EXCEPT !.files = [s.files EXCEPT ![i] = f]]
  PROVE  FileSet(s, i, f, t)
<1>1. s.files \in Seq(File) /\ Places(s) = 1..Len(s.files)
  BY PlacesAre DEF Systems
<1> PICK list : list = [s.files EXCEPT ![i] = f]
  OBVIOUS
<1>2. list \in Seq(File)
  BY <1>1
<1>3. /\ t.files = list /\ t.fat = s.fat /\ t.dir = s.dir /\ t.dirSize = s.dirSize
      /\ t.slot = s.slot /\ t.node = s.node
  BY DEF Systems
<1>4. t \in Systems
  BY <1>2 DEF Systems
<1> QED BY <1>3, <1>4 DEF FileSet

LEMMA FileSetSound ==
  ASSUME NEW s, Sound(s), NEW i \in Places(s), NEW f, Fields(f, s.files[i], s.files[i].size, f.open),
         NEW t, FileSet(s, i, f, t)
  PROVE  /\ Sound(t) /\ Used(t) = Used(s) /\ ChangedIn(s, i, f, t)
<1>1. /\ s.files \in Seq(File) /\ Distinct(s.files) /\ Places(s) = 1..Len(s.files)
      /\ Len(s.files) \in Nat
  BY BodyFacts DEF Sound
<1>2. f \in File /\ f.name = s.files[i].name /\ f.start = s.files[i].start /\ f.size = s.files[i].size
  BY DEF Fields
<1>3. /\ t \in Systems /\ t.files = [s.files EXCEPT ![i] = f]
      /\ t.fat = s.fat /\ t.dir = s.dir /\ t.dirSize = s.dirSize
  BY DEF FileSet
<1>4. ChangedIn(s, i, f, t)
  BY <1>1, <1>2, <1>3, Changed
<1>5. /\ Len(t.files) = Len(s.files)
      /\ \A j \in Places(s) : t.files[j] = IF j = i THEN f ELSE s.files[j]
  BY <1>4 DEF ChangedIn
<1>6. \A j \in Places(s) : OnDisk(t.files[j]) = OnDisk(s.files[j])
  BY <1>2, <1>5 DEF OnDisk
<1>7. Sound(t) /\ Used(t) = Used(s)
  BY <1>3, <1>5, <1>6, SameDisk
<1> QED BY <1>4, <1>7
-----------------------------------------------------------------------------
\* f_close: the descriptor goes, and of a file marked the last one takes the
\* file with it.
ClosedAs(s, fd, t) ==
  /\ Core(t) /\ Used(t) = Used(s) /\ Closes(s, t)
  /\ t.slot = [s.slot EXCEPT ![fd] = NoFd]
  /\ \A n \in Fds : t.node[n] = IF n = s.slot[fd] THEN Blank ELSE s.node[n]
  /\ \A n \in Fds : AtEnd(s, n) => AtEnd(t, n)

LEMMA FileClosed ==
  ASSUME NEW s, Core(s), NEW fd \in Fds
  PROVE  ClosedAs(s, fd, FClose(s, fd, Intact))
<1> DEFINE t == FClose(s, fd, Intact)
           i == FileOf(s, fd)
<1>1. /\ Sound(s) /\ Held(s) /\ Nodes(s) /\ s \in Systems
      /\ s.files \in Seq(File) /\ Distinct(s.files) /\ Places(s) = 1..Len(s.files)
      /\ Len(s.files) \in Nat /\ \A k \in Places(s) : s.files[k] \in File
      /\ s.slot \in [Fds -> Fds \cup {NoFd}] /\ s.node \in [Fds -> Node]
  BY CoreFacts
<1>2. CASE s.slot[fd] = NoFd
  <2>1. t = s
    BY <1>2 DEF FClose
  <2>2. s.slot = [s.slot EXCEPT ![fd] = NoFd]
    BY <1>1, <1>2
  <2>3. NoFd \notin Fds
    BY FdsHold DEF FdsAre, NoFd
  <2>4. ClosedAs(s, fd, s)
    BY <1>2, <2>2, <2>3, ClosesNothing DEF ClosedAs
  <2> QED BY <2>1, <2>4
<1>3. CASE s.slot[fd] # NoFd
  <2> PICK k : k = s.slot[fd]
    OBVIOUS
  <2>1. k \in Fds
    BY <1>1, <1>3
  <2> PICK x : x = s.node[k].name
    OBVIOUS
  <2> PICK u : u = RemoveFdNode(s, fd)
    OBVIOUS
  <2>2. NodeRemoved(s, fd, u)
    BY <1>1, <2>1, FdNodeRemoved
  <2>3. SameList(s, u) /\ u.slot = [s.slot EXCEPT ![fd] = NoFd] /\ u.node = [s.node EXCEPT ![k] = Blank]
    BY <2>2 DEF NodeRemoved
  <2>4. Sound(u) /\ Used(u) = Used(s)
    BY <1>1, <2>3, TableSound
  <2>5. \A y : Named(u, y) = Named(s, y) /\ FindFile(u, y) = FindFile(s, y)
    BY <2>3, TableNamed
  <2>6. /\ u.files = s.files /\ u \in Systems /\ Places(u) = Places(s)
    BY <2>3 DEF SameList, Places
  <2>7. \A n \in Fds : u.node[n] = IF n = k THEN Blank ELSE s.node[n]
    BY <1>1, <2>1, <2>3
  <2>8. Nodes(u)
    BY <1>1, <2>7, BlankIsNode DEF Nodes
  <2>9. ASSUME NEW y \in Names
        PROVE  /\ Cardinality(Holders(u, y)) = Cardinality(Holders(s, y)) - IF x = y THEN 1 ELSE 0
               /\ Cardinality(Holders(s, y)) <= Named(s, y).open
               /\ Cardinality(Holders(s, y)) \in Nat /\ Named(s, y).open \in Nat
               /\ Cardinality(Holders(u, y)) \in Nat
    <3>1. Cardinality(Holders(u, y)) = Cardinality(Holders(s, y)) - IF x = y THEN 1 ELSE 0
      BY <1>1, <2>1, <2>3, HoldersShrink
    <3> QED BY <3>1, <1>1, HoldersCount, NamedKind DEF Held
  <2>10. Held(u)
    BY <2>5, <2>9 DEF Held
  <2>11. \A n \in Fds : AtEnd(s, n) => AtEnd(u, n)
    BY <2>5, <2>7, BlankIsNode, NamesAssumption DEF AtEnd
  <2>12. i = FindFile(s, x)
    BY DEF FileOf
  <2>13. /\ i = 0 \/ ~s.files[i].marked => t = u
         /\ i # 0 /\ s.files[i].marked /\ s.files[i].open = 1 => t = RemoveFile(u, i, Intact)
         /\ i # 0 /\ s.files[i].marked /\ s.files[i].open # 1
              => t = [u EXCEPT !.files[i].open = @ - 1]
    <3>1. t = IF i = 0 \/ ~s.files[i].marked THEN u
              ELSE IF s.files[i].open = 1 THEN RemoveFile(u, i, Intact)
              ELSE [u EXCEPT !.files[i].open = @ - 1]
      BY <1>3 DEF FClose
    <3> QED BY <3>1, Zenon
  <2> HIDE DEF t, i
  <2>20. Free(u)
    <3>1. Free(s) /\ \A n \in Fds : u.slot[n] = IF n = fd THEN NoFd ELSE s.slot[n]
      BY <1>1, <2>3, CoreFacts
    <3>2. fd >= MinFreeFd => k = fd
      BY <1>3, <3>1 DEF Free
    <3> QED BY <2>7, <3>1, <3>2 DEF Free, Blank
  <2>14. ClosedAs(s, fd, u)
    <3>1. \A y \in Names : Holds(u, y) <= Holds(s, y)
      BY <2>9 DEF Holds
    <3>2. Closes(s, u)
      BY <2>3, <3>1, TableCloses
    <3> QED BY <2>3, <2>4, <2>7, <2>8, <2>10, <2>11, <2>20, <3>2 DEF ClosedAs, Core
  <2>15. CASE i = 0 \/ ~s.files[i].marked
    <3>1. t = u
      BY <2>13, <2>15, Zenon
    <3> QED BY <3>1, <2>14 DEF t
  <2>16. ASSUME i # 0
         PROVE  /\ i \in Places(s) /\ s.files[i].name = x /\ x \in Names /\ s.files[i] \in File
                /\ Named(s, x) = s.files[i]
    <3>1. Found(s, x, i)
      BY <1>1, <2>12, <2>16, FoundAt
    <3> QED BY <3>1 DEF Found
  <2>17. CASE i # 0 /\ s.files[i].marked /\ s.files[i].open = 1
    <3>1. t = RemoveFile(u, i, Intact)
      BY <2>13, <2>17
    <3>2. /\ Sound(t) /\ Used(t) = Used(u) /\ t.files = RemoveAt(u.files, i) /\ Recorded(t)
          /\ t.slot = u.slot /\ t.node = u.node
      BY <2>4, <2>6, <2>16, <2>17, <3>1, FileRemoved
    <3>3. RemovedFrom(u, i, t)
      BY <1>1, <2>6, <2>16, <2>17, <3>2, Removed
    <3>4. \A y : Named(t, y) = IF y = x THEN NoFile ELSE Named(s, y)
      BY <2>5, <2>6, <2>16, <2>17, <3>3 DEF RemovedFrom
    <3>5. \A y : Holders(t, y) = Holders(u, y)
      BY <3>2 DEF Holders
    <3>6. Holders(u, x) = {}
      <4>1. Cardinality(Holders(u, x)) = 0
        BY <2>9, <2>16, <2>17
      <4> QED BY <4>1, HoldersCount, FS_EmptySet
    <3>7. Held(t)
      <4> SUFFICES ASSUME NEW y \in Names PROVE Cardinality(Holders(t, y)) <= Named(t, y).open
        BY DEF Held
      <4>1. CASE y = x
        BY <4>1, <3>4, <3>5, <3>6, FS_EmptySet DEF NoFile
      <4>2. CASE y # x
        BY <4>2, <3>4, <3>5, <2>9
      <4> QED BY <4>1, <4>2
    <3>8. Nodes(t)
      BY <2>8, <3>2 DEF Nodes
    <3>9. \A n \in Fds : u.node[n].name # x
      BY <2>8, <2>16, <2>17, <3>6, NamesAssumption DEF Nodes, Holders
    <3>10. \A n \in Fds : AtEnd(s, n) => AtEnd(t, n)
      <4> SUFFICES ASSUME NEW n \in Fds, AtEnd(s, n), t.node[n].name \in Names
                   PROVE  t.node[n].cursor = Named(t, t.node[n].name).size
        BY DEF AtEnd
      <4>1. AtEnd(u, n) /\ t.node[n] = u.node[n] /\ u.node[n].name # x
        BY <2>11, <3>2, <3>9
      <4> QED BY <4>1, <3>4, <2>5 DEF AtEnd
    <3>11. ClosedAs(s, fd, t)
      <4>1. Free(t)
        BY <2>20, <3>2, FreeStays
      <4>2. Core(t)
        BY <3>2, <3>7, <3>8, <4>1 DEF Core
      <4>3. Saves(s, t)
        BY <3>2, <4>2, SavesAll
      <4>4. ASSUME NEW y \in Names PROVE Sheds(s, t, y)
        <5>1. CASE y = x
          <6>1. Named(s, x) = s.files[i] /\ Named(t, x) = NoFile /\ NoFile.name # x
            BY <2>16, <2>17, <3>4, NamesAssumption DEF NoFile
          <6>2. Listed(s, x) /\ ~Listed(t, x) /\ Marked(s, x)
            BY <6>1, <2>16, <2>17 DEF Listed, Marked
          <6> QED BY <5>1, <6>2 DEF Sheds
        <5>2. CASE y # x
          <6>1. Holds(t, y) <= Holds(s, y)
            BY <2>9, <3>5 DEF Holds
          <6>2. Named(t, y) = Named(s, y)
            BY <5>2, <3>4
          <6> QED BY <6>1, <6>2 DEF Sheds, Same, Listed, Marked, Length
        <5> QED BY <5>1, <5>2
      <4>5. Closes(s, t)
        BY <4>3, <4>4 DEF Closes
      <4> QED BY <2>3, <2>4, <2>7, <3>2, <3>10, <4>2, <4>5 DEF ClosedAs
    <3> QED BY <3>11 DEF t
  <2>18. CASE i # 0 /\ s.files[i].marked /\ s.files[i].open # 1
    <3> PICK old : old = s.files[i]
      OBVIOUS
    <3> PICK f : f = [old EXCEPT !.open = old.open - 1]
      OBVIOUS
    <3>1. old \in File /\ old.open \in Nat /\ old.open # 1 /\ Named(s, x) = old /\ x \in Names
          /\ old.name = x /\ i \in Places(s)
      BY <2>16, <2>18 DEF File
    <3>2. old.open - 1 \in Nat
      BY <3>1, <2>9
    <3>3. Fields(f, old, old.size, old.open - 1)
      BY <3>1, <3>2, FieldsSet
    <3>4. f \in File /\ f.name = x /\ f.size = old.size /\ f.open = old.open - 1
      BY <3>1, <3>3 DEF Fields
    <3>5. t = [u EXCEPT !.files = [u.files EXCEPT ![i] = f]]
      <4>1. t = [u EXCEPT !.files[i].open = @ - 1]
        BY <2>13, <2>18
      <4>2. [u.files EXCEPT ![i].open = @ - 1] = [u.files EXCEPT ![i] = f]
        BY <2>6
      <4>3. [u EXCEPT !.files[i].open = @ - 1] = [u EXCEPT !.files = [u.files EXCEPT ![i].open = @ - 1]]
        BY <2>6 DEF Systems
      <4> QED BY <4>1, <4>2, <4>3
    <3>6. FileSet(u, i, f, t)
      BY <2>6, <3>1, <3>4, <3>5, OneFileSet
    <3>7. Fields(f, u.files[i], u.files[i].size, f.open)
      BY <2>6, <3>3 DEF Fields
    <3>8. Sound(t) /\ Used(t) = Used(u) /\ ChangedIn(u, i, f, t)
      BY <2>4, <2>6, <3>1, <3>6, <3>7, FileSetSound
    <3>9. \A y : Named(t, y) = IF y = x THEN f ELSE Named(s, y)
      BY <2>5, <3>4, <3>8 DEF ChangedIn
    <3>10. t.slot = u.slot /\ t.node = u.node
      BY <3>6 DEF FileSet
    <3>11. \A y : Holders(t, y) = Holders(u, y)
      BY <3>10 DEF Holders
    <3>12. Held(t)
      <4> SUFFICES ASSUME NEW y \in Names PROVE Cardinality(Holders(t, y)) <= Named(t, y).open
        BY DEF Held
      <4>1. CASE y = x
        <5>1. /\ Cardinality(Holders(u, y)) = Cardinality(Holders(s, y)) - 1
              /\ Cardinality(Holders(s, y)) <= old.open /\ Cardinality(Holders(s, y)) \in Nat
          BY <4>1, <2>9, <3>1
        <5>2. Named(t, y).open = old.open - 1
          BY <4>1, <3>4, <3>9
        <5> QED BY <5>1, <5>2, <3>1, <3>11
      <4>2. CASE y # x
        BY <4>2, <2>9, <3>9, <3>11
      <4> QED BY <4>1, <4>2
    <3>13. Nodes(t)
      BY <2>8, <3>10 DEF Nodes
    <3>14. \A y : Named(t, y).size = Named(u, y).size
      BY <2>5, <3>1, <3>4, <3>9
    <3>15. \A n \in Fds : AtEnd(s, n) => AtEnd(t, n)
      BY <2>11, <3>10, <3>14 DEF AtEnd
    <3>16. ClosedAs(s, fd, t)
      <4>1. Free(t)
        BY <2>20, <3>10, FreeStays
      <4>2. Core(u) /\ Core(t)
        BY <2>14, <3>8, <3>12, <3>13, <4>1 DEF ClosedAs, Core
      <4>3. Stays(u, t)
        BY <3>6, StaysSame DEF FileSet
      <4>4. f.name = u.files[i].name /\ f.marked = old.marked /\ u.files[i] = old
        BY <2>6, <3>1, <3>2, <3>4, FieldsSet
      <4>5. /\ Saves(u, t) /\ Named(t, x) = f /\ Named(u, x) = old
            /\ Listed(u, x) /\ Listed(t, x)
            /\ \A y : y # x => Named(t, y) = Named(u, y)
        <5>1. KeepsOthers(u, i, f, t)
          BY <2>6, <3>1, <3>4, <3>8, <4>2, <4>3, <4>4, OneChanged
        <5> QED BY <5>1, <3>4, <4>4 DEF KeepsOthers
      <4>6. ASSUME NEW y \in Names PROVE Rests(u, t, y)
        <5>1. Holds(t, y) = Holds(u, y)
          BY <3>10, HoldsSame
        <5>2. CASE y = x
          BY <5>1, <5>2, <3>4, <4>4, <4>5 DEF Rests, Same, Marked, Length
        <5>3. CASE y # x
          BY <5>1, <5>3, <4>5, RestIs
        <5> QED BY <5>2, <5>3
      <4>7. Closes(u, t) /\ Closes(s, u)
        BY <2>14, <4>5, <4>6, RestSheds DEF ClosedAs, Closes
      <4>8. Closes(s, t)
        BY <4>2, <4>7, ClosesTwice
      <4> QED BY <2>3, <2>4, <2>7, <3>8, <3>10, <3>15, <4>2, <4>8 DEF ClosedAs
    <3> QED BY <3>16 DEF t
  <2> QED BY <2>15, <2>17, <2>18
<1> QED BY <1>2, <1>3
-----------------------------------------------------------------------------
\* Everything but the list of files, and no descriptor off its end.
Unmoved(s, t) ==
  /\ Core(t) /\ Used(t) = Used(s) /\ Fares(s, t) /\ t.slot = s.slot /\ t.node = s.node
  /\ \A n \in Fds : AtEnd(s, n) => AtEnd(t, n)

\* f_unlink: a file nobody has open goes, another is marked.
LEMMA FileUnlinked ==
  ASSUME NEW s, Core(s), NEW x \in Names
  PROVE  Unmoved(s, FUnlink(s, x, Intact))
<1> DEFINE t == FUnlink(s, x, Intact)
           i == FindFile(s, x)
<1>1. /\ Sound(s) /\ Held(s) /\ Nodes(s) /\ s \in Systems
      /\ s.files \in Seq(File) /\ Distinct(s.files) /\ Places(s) = 1..Len(s.files)
      /\ Len(s.files) \in Nat /\ \A k \in Places(s) : s.files[k] \in File
  BY CoreFacts
<1>2. t = IF i = 0 THEN s
          ELSE IF s.files[i].open = 0 THEN ExportFileList(RemoveFile(s, i, Intact))
          ELSE [s EXCEPT !.files[i].marked = TRUE]
  BY DEF FUnlink
<1>3. ASSUME i # 0
      PROVE  i \in Places(s) /\ s.files[i].name = x /\ s.files[i] \in File /\ Named(s, x) = s.files[i]
  <2>1. i \in Places(s) /\ s.files[i].name = x /\ s.files[i] \in File
    BY <1>1, <1>3, FindIs
  <2> QED BY <2>1, <1>3 DEF Named
<1> HIDE DEF i, t
<1>4. CASE i = 0
  <2>1. t = s
    BY <1>2, <1>4
  <2>2. Unmoved(s, s)
    BY ClosesNothing, ClosesFares DEF Unmoved
  <2> QED BY <2>1, <2>2 DEF t
<1>5. CASE i # 0 /\ s.files[i].open = 0
  <2>1. i \in Places(s) /\ s.files[i].name = x /\ Named(s, x).open = 0
    BY <1>3, <1>5
  <2> PICK u : u = RemoveFile(s, i, Intact)
    OBVIOUS
  <2>2. /\ Sound(u) /\ Used(u) = Used(s) /\ u.files = RemoveAt(s.files, i) /\ Recorded(u)
        /\ u.slot = s.slot /\ u.node = s.node
    BY <1>1, <2>1, FileRemoved
  <2>3. t = ExportFileList(u)
    BY <1>2, <1>5
  <2>4. Body(u, Starts(u))
    BY <2>2 DEF Sound
  <2>5. Sound(t) /\ Used(t) = Used(u) /\ t.files = u.files /\ t.slot = u.slot /\ t.node = u.node
    BY <2>3, <2>4, FileListExportedSound
  <2>6. t.files = RemoveAt(s.files, i)
    BY <2>2, <2>5
  <2>7. RemovedFrom(s, i, t)
    BY <1>1, <2>1, <2>6, Removed
  <2>8. \A y : Named(t, y) = IF y = x THEN NoFile ELSE Named(s, y)
    BY <2>1, <2>7 DEF RemovedFrom
  <2>9. t.slot = s.slot /\ t.node = s.node
    BY <2>2, <2>5
  <2>10. Holders(s, x) = {}
    <3>1. Cardinality(Holders(s, x)) <= 0 /\ Cardinality(Holders(s, x)) \in Nat
      BY <1>1, <2>1, HoldersCount DEF Held
    <3>2. Cardinality(Holders(s, x)) = 0
      BY <3>1
    <3> QED BY <3>2, HoldersCount, FS_EmptySet
  <2>11. \A y : Holders(t, y) = Holders(s, y)
    BY <2>9 DEF Holders
  <2>12. Held(t)
    <3> SUFFICES ASSUME NEW y \in Names PROVE Cardinality(Holders(t, y)) <= Named(t, y).open
      BY DEF Held
    <3>1. CASE y = x
      BY <3>1, <2>8, <2>10, <2>11, FS_EmptySet DEF NoFile
    <3>2. CASE y # x
      BY <3>2, <1>1, <2>8, <2>11 DEF Held
    <3> QED BY <3>1, <3>2
  <2>13. Nodes(t)
    BY <1>1, <2>9 DEF Nodes
  <2>14. \A n \in Fds : s.node[n].name # x
    BY <1>1, <2>10, NamesAssumption DEF Nodes, Holders
  <2>15. \A n \in Fds : AtEnd(s, n) => AtEnd(t, n)
    BY <2>8, <2>9, <2>14 DEF AtEnd
  <2>16. Unmoved(s, t)
    <3>1. Free(t)
      BY <2>9, CoreFacts, FreeStays
    <3>2. Core(t)
      BY <2>5, <2>12, <2>13, <3>1 DEF Core
    <3>3. Fits(u)
      BY <2>2 DEF Sound, Agrees, Recorded, Fits
    <3>4. Saves(s, t)
      BY <2>3, <2>4, <3>2, <3>3, FileListExportedSound, SavesAll
    <3>5. ASSUME NEW y \in Names PROVE Rests(s, t, y) \/ Drops(s, t, y)
      <4>1. CASE y = x
        <5>1. Named(s, x) = s.files[i] /\ Named(t, x) = NoFile /\ NoFile.name # x
          BY <1>3, <1>5, <2>8, NamesAssumption DEF NoFile
        <5>2. Listed(s, x) /\ ~Listed(t, x)
          BY <5>1, <2>1 DEF Listed
        <5>3. Holds(s, x) = 0
          BY <2>10, FS_EmptySet DEF Holds
        <5> QED BY <4>1, <5>2, <5>3 DEF Drops
      <4>2. CASE y # x
        BY <4>2, <2>8, <2>9, HoldsSame, RestIs
      <4> QED BY <4>1, <4>2
    <3>6. Fares(s, t)
      BY <3>4, <3>5 DEF Fares
    <3> QED BY <2>2, <2>5, <2>9, <2>15, <3>2, <3>6 DEF Unmoved
  <2> QED BY <2>16 DEF t
<1>6. CASE i # 0 /\ s.files[i].open # 0
  <2>1. i \in Places(s) /\ s.files[i].name = x /\ s.files[i] \in File /\ Named(s, x) = s.files[i]
    BY <1>3, <1>6
  <2> PICK old : old = s.files[i]
    OBVIOUS
  <2> PICK f : f = [old EXCEPT !.marked = TRUE]
    OBVIOUS
  <2>2. Fields(f, old, old.size, old.open)
    <3>1. old \in File /\ old.size \in Nat
      BY <2>1 DEF File
    <3> QED BY <3>1, FieldsSet
  <2>3. f \in File /\ f.name = x /\ f.size = old.size /\ f.open = old.open
    BY <2>1, <2>2 DEF Fields
  <2>4. t = [s EXCEPT !.files = [s.files EXCEPT ![i] = f]]
    <3>1. t = [s EXCEPT !.files[i].marked = TRUE]
      BY <1>2, <1>6
    <3>2. [s.files EXCEPT ![i].marked = TRUE] = [s.files EXCEPT ![i] = f]
      OBVIOUS
    <3>3. [s EXCEPT !.files[i].marked = TRUE] = [s EXCEPT !.files = [s.files EXCEPT ![i].marked = TRUE]]
      BY <1>1 DEF Systems
    <3> QED BY <3>1, <3>2, <3>3
  <2>5. FileSet(s, i, f, t)
    BY <1>1, <2>1, <2>3, <2>4, OneFileSet
  <2>6. Fields(f, s.files[i], s.files[i].size, f.open)
    BY <2>2 DEF Fields
  <2>7. Sound(t) /\ Used(t) = Used(s) /\ ChangedIn(s, i, f, t)
    BY <1>1, <2>1, <2>5, <2>6, FileSetSound
  <2>8. \A y : Named(t, y) = IF y = x THEN f ELSE Named(s, y)
    BY <2>3, <2>7 DEF ChangedIn
  <2>9. t.slot = s.slot /\ t.node = s.node
    BY <2>5 DEF FileSet
  <2>10. SameFiles(s, t)
    BY <2>1, <2>3, <2>8, <2>9 DEF SameFiles
  <2>11. Held(t) /\ Nodes(t) /\ \A n \in Fds : AtEnd(s, n) => AtEnd(t, n)
    BY <1>1, <2>10, SameFilesKeep
  <2>12. Unmoved(s, t)
    <3>1. Free(t)
      BY <2>9, CoreFacts, FreeStays
    <3>2. Stays(s, t)
      BY <2>5, StaysSame DEF FileSet
    <3>3. f.marked
      BY <2>1, FieldsSet
    <3>4. /\ Saves(s, t) /\ Named(t, x) = f /\ Named(s, x) = old
          /\ Listed(s, x) /\ Listed(t, x)
          /\ \A y : y # x => Named(t, y) = Named(s, y)
      <4>1. KeepsOthers(s, i, f, t)
        BY <2>1, <2>3, <2>7, <3>2, OneChanged
      <4> QED BY <4>1, <2>1, <2>3 DEF KeepsOthers
    <3>5. ASSUME NEW y \in Names PROVE Rests(s, t, y) \/ Dooms(s, t, y)
      <4>1. Holds(t, y) = Holds(s, y)
        BY <2>9, HoldsSame
      <4>2. CASE y = x
        BY <4>1, <4>2, <2>3, <3>3, <3>4 DEF Dooms, Marked, Length
      <4>3. CASE y # x
        BY <4>1, <4>3, <3>4, RestIs
      <4> QED BY <4>2, <4>3
    <3>6. Fares(s, t)
      BY <3>4, <3>5 DEF Fares
    <3> QED BY <2>7, <2>9, <2>11, <3>1, <3>6 DEF Unmoved, Core
  <2> QED BY <2>12 DEF t
<1> QED BY <1>4, <1>5, <1>6

\* The table's nodes, with their names and none of them more alive.
SameNames(s, t) ==
  /\ \A n \in Fds : t.node[n].name = s.node[n].name /\ t.node[n].live = s.node[n].live
  /\ \A x \in Names : Named(t, x).open = Named(s, x).open

LEMMA NamesStay ==
  ASSUME NEW s, Held(s), Nodes(s), NEW t, SameNames(s, t)
  PROVE  Held(t) /\ Nodes(t)
<1>1. \A x : Holders(t, x) = Holders(s, x)
  BY DEF Holders, SameNames
<1> QED BY <1>1 DEF Held, Nodes, SameNames

\* Reading: the cursor of one descriptor moves.
MovesOne(s, k, t) ==
  /\ Core(t) /\ Used(t) = Used(s) /\ Fares(s, t) /\ t.slot = s.slot
  /\ \A n \in Fds \ {k} : t.node[n] = s.node[n]
  /\ \A n \in Fds \ {k} : AtEnd(s, n) => AtEnd(t, n)

LEMMA NodeMoved ==
  ASSUME NEW s, Core(s), NEW k \in Fds, NEW t, SameList(s, t), t.slot = s.slot,
         \A j \in Fds : t.node[j].name = s.node[j].name /\ t.node[j].live = s.node[j].live,
         \A j \in Fds \ {k} : t.node[j] = s.node[j]
  PROVE  MovesOne(s, k, t)
<1>1. Sound(s) /\ Held(s) /\ Nodes(s)
  BY CoreFacts
<1>2. Sound(t) /\ Used(t) = Used(s)
  BY <1>1, TableSound
<1>3. \A x : Named(t, x) = Named(s, x)
  BY TableNamed
<1>4. Held(t) /\ Nodes(t)
  <2>1. SameNames(s, t)
    BY <1>3 DEF SameNames
  <2> QED BY <1>1, <2>1, NamesStay
<1>5. \A j \in Fds \ {k} : AtEnd(s, j) => AtEnd(t, j)
  BY <1>3 DEF AtEnd
<1>6. Free(t)
  BY CoreFacts, FreeStays
<1>7. \A x \in Names : Holds(t, x) = Holds(s, x) /\ Holds(s, x) \in Nat
  <2>1. \A x : Holders(t, x) = Holders(s, x)
    BY DEF Holders
  <2> QED BY <2>1, HoldsIs DEF Holds
<1>8. Fares(s, t)
  BY <1>7, TableCloses, ClosesFares
<1> QED BY <1>2, <1>4, <1>5, <1>6, <1>8 DEF MovesOne, Core

LEMMA Advanced ==
  ASSUME NEW s, Core(s), NEW fd \in Fds, s.slot[fd] \in Fds, NEW n \in Nat
  PROVE  MovesOne(s, s.slot[fd], Advance(s, fd, n))
<1> PICK k : k = s.slot[fd]
  OBVIOUS
<1> PICK old : old = s.node[k]
  OBVIOUS
<1>1. /\ Sound(s) /\ Held(s) /\ Nodes(s) /\ s \in Systems
      /\ s.slot \in [Fds -> Fds \cup {NoFd}] /\ s.node \in [Fds -> Node]
  BY CoreFacts
<1>2. old \in Node /\ old.cursor \in Nat
  BY <1>1 DEF Node
<1> PICK d : d = [old EXCEPT !.cursor = old.cursor + n]
  OBVIOUS
<1>3. d \in Node /\ d.name = old.name /\ d.live = old.live
  <2> PICK c : c = old.cursor + n
    OBVIOUS
  <2>1. c \in Nat /\ d = [old EXCEPT !.cursor = c]
    BY <1>2
  <2> QED BY <1>2, <2>1, CursorNode
<1> PICK node : node = [s.node EXCEPT ![k] = d]
  OBVIOUS
<1>4. node \in [Fds -> Node] /\ \A j \in Fds : node[j] = IF j = k THEN d ELSE s.node[j]
  BY <1>1, <1>3
<1> PICK t : t = Advance(s, fd, n)
  OBVIOUS
<1>5. t = WithTable(s, s.slot, node)
  <2>1. t = [s EXCEPT !.node[k].cursor = @ + n]
    BY DEF Advance
  <2>2. [s.node EXCEPT ![k].cursor = @ + n] = node
    OBVIOUS
  <2>3. s \in Systems
    BY <1>1
  <2>4. [s EXCEPT !.node[k].cursor = @ + n] = [s EXCEPT !.node = [s.node EXCEPT ![k].cursor = @ + n]]
    BY ONLY <2>3 DEF Systems
  <2>5. [s EXCEPT !.node = node] = [s EXCEPT !.slot = s.slot, !.node = node]
    BY ONLY <2>3 DEF Systems
  <2> QED BY <2>1, <2>2, <2>4, <2>5 DEF WithTable
<1>6. SameList(s, t) /\ t.slot = s.slot /\ t.node = node
  <2>1. s \in Systems /\ s.slot \in [Fds -> Fds \cup {NoFd}] /\ node \in [Fds -> Node]
    BY <1>1, <1>4
  <2> QED BY ONLY <2>1, <1>5, TableSet
<1>7. \A j \in Fds : t.node[j] = IF j = k THEN d ELSE s.node[j]
  BY <1>4, <1>6, Zenon
<1>8. ASSUME NEW j \in Fds
      PROVE  t.node[j].name = s.node[j].name /\ t.node[j].live = s.node[j].live
  <2>1. CASE j = k
    BY <2>1, <1>3, <1>7
  <2>2. CASE j # k
    BY <2>2, <1>7
  <2> QED BY <2>1, <2>2
<1>9. \A j \in Fds \ {k} : t.node[j] = s.node[j]
  BY <1>7
<1>10. MovesOne(s, k, t)
  BY <1>6, <1>8, <1>9, NodeMoved
<1> QED BY <1>10

\* f_write at the end of what the descriptor's slot leads to.
WritesOne(s, k, t) ==
  /\ Core(t) /\ Used(t) = Used(s) /\ Fares(s, t) /\ t.slot = s.slot
  /\ \A n \in Fds \ {k} : t.node[n] = s.node[n]
  /\ AtEnd(t, k)
  /\ s.node[k].name = NoName => t = s

LEMMA FileAppended ==
  ASSUME NEW s, Core(s), NEW fd \in Fds, NEW k \in Fds, k = s.slot[fd], AtEnd(s, k),
         NEW n \in Nat \ {0}
  PROVE  WritesOne(s, k, FWrite(s, fd, n).sys)
<1> PICK i : i = FileOf(s, fd)
  OBVIOUS
<1> PICK x : x = s.node[k].name
  OBVIOUS
<1>1. /\ Sound(s) /\ Held(s) /\ Nodes(s) /\ s \in Systems
      /\ s.files \in Seq(File) /\ Distinct(s.files) /\ Places(s) = 1..Len(s.files)
      /\ Len(s.files) \in Nat /\ \A j \in Places(s) : s.files[j] \in File
      /\ s.node \in [Fds -> Node]
  BY CoreFacts
<1>2. i = FindFile(s, x)
  BY DEF FileOf
<1>5. i = 0 \/ Found(s, x, i)
  BY <1>1, <1>2, FoundAt
<1> PICK t : t = FWrite(s, fd, n).sys
  OBVIOUS
<1>3. CASE i = 0
  <2>1. FWrite(s, fd, n) = [sys |-> s, done |-> n]
    BY <1>3 DEF FWrite
  <2>2. t = s
    BY <2>1
  <2>3. WritesOne(s, k, s)
    BY ClosesNothing, ClosesFares DEF WritesOne
  <2> QED BY <2>2, <2>3
<1>4. CASE i # 0
  <2>0. /\ i \in Places(s) /\ s.files[i].name = x /\ x \in Names
        /\ s.files[i] \in File /\ Named(s, x) = s.files[i]
    BY <1>4, <1>5 DEF Found
  <2> PICK old : old = s.files[i]
    BY Zenon
  <2>1. i \in Places(s) /\ old \in File /\ old.name = x
    BY <2>0
  <2>2. x \in Names /\ Named(s, x) = old
    BY <2>0
  <2>3. s.node[k].cursor = s.files[i].size
    BY <2>2 DEF AtEnd
  <2>4. WrittenAt(s, i, k, t)
    BY <1>1, <2>1, <2>3, FileWritten
  <2>5. PICK end \in Nat :
          /\ s.files[i].size <= end
          /\ t.files = [s.files EXCEPT ![i] = [s.files[i] EXCEPT !.size = end]]
          /\ t.node = [s.node EXCEPT ![k] = [s.node[k] EXCEPT !.cursor = end]]
    BY <2>4 DEF WrittenAt
  <2> PICK f : f = [old EXCEPT !.size = end]
    OBVIOUS
  <2> PICK od : od = s.node[k]
    OBVIOUS
  <2> PICK d : d = [od EXCEPT !.cursor = end]
    OBVIOUS
  <2>6. t.files = [s.files EXCEPT ![i] = f] /\ t.node = [s.node EXCEPT ![k] = d]
    BY <2>5
  <2>7. f \in File /\ f.name = x /\ f.start = old.start /\ f.size = end /\ f.open = old.open
    BY <2>1, SizeFile
  <2>8. d \in Node /\ d.name = x /\ d.live = od.live /\ d.cursor = end
    <3>1. od \in Node
      BY <1>1
    <3> QED BY <3>1, CursorNode
  <2>9. Sound(t) /\ Used(t) = Used(s) /\ t.slot = s.slot
    BY <2>4 DEF WrittenAt
  <2>10. ChangedIn(s, i, f, t)
    <3>1. f.name = s.files[i].name /\ f.start = s.files[i].start
      BY <2>1, <2>7
    <3>2. s.files \in Seq(File) /\ Distinct(s.files) /\ i \in Places(s)
      BY <1>1, <2>1
    <3>3. f \in File /\ t.files = [s.files EXCEPT ![i] = f]
      BY <2>6, <2>7
    <3> QED BY <3>1, <3>2, <3>3, Changed
  <2>11. \A y : Named(t, y) = IF y = x THEN f ELSE Named(s, y)
    BY <2>7, <2>10 DEF ChangedIn
  <2>12. \A j \in Fds : t.node[j] = IF j = k THEN d ELSE s.node[j]
    BY <1>1, <2>6, <2>8
  <2>13. SameNames(s, t)
    <3>1. \A y \in Names : Named(t, y).open = Named(s, y).open
      BY <2>2, <2>7, <2>11
    <3>2. \A j \in Fds : t.node[j].name = s.node[j].name /\ t.node[j].live = s.node[j].live
      BY <2>8, <2>12
    <3> QED BY <3>1, <3>2 DEF SameNames
  <2>14. Held(t) /\ Nodes(t)
    BY <1>1, <2>13, NamesStay
  <2>15. AtEnd(t, k)
    <3>1. t.node[k].name = x /\ t.node[k].cursor = end
      BY <2>8, <2>12
    <3>2. Named(t, x).size = end
      BY <2>7, <2>11
    <3> QED BY <3>1, <3>2 DEF AtEnd
  <2>16. s.node[k].name # NoName
    BY <2>2, NamesAssumption
  <2>17. WritesOne(s, k, t)
    <3>1. \A j \in Fds : t.node[j].live = s.node[j].live
      BY <2>8, <2>12
    <3>2. Free(t)
      BY <2>9, <3>1, CoreFacts, FreeStays
    <3>3. Stays(s, t)
      BY <2>4 DEF WrittenAt
    <3>4. f.marked = old.marked /\ f.name = s.files[i].name /\ old.size <= end
      <4>1. f.marked = old.marked
        BY <2>1 DEF File
      <4> QED BY <4>1, <2>1, <2>5, <2>7
    <3>5. /\ Saves(s, t) /\ Named(t, x) = f /\ Named(s, x) = old
          /\ Listed(s, x) /\ Listed(t, x)
          /\ \A y : y # x => Named(t, y) = Named(s, y)
      <4>1. KeepsOthers(s, i, f, t)
        BY <2>1, <2>7, <2>10, <3>3, <3>4, OneChanged
      <4> QED BY <4>1, <2>1, <2>7 DEF KeepsOthers
    <3>6. \A y : Holds(t, y) = Holds(s, y)
      <4>1. \A y : Holders(t, y) = Holders(s, y)
        BY <2>13 DEF SameNames, Holders
      <4> QED BY ONLY <4>1 DEF Holds
    <3>7. Holds(s, x) > 0
      <4>1. k \in Holders(s, x)
        BY <1>1, <2>16 DEF Nodes, Holders
      <4>2. Holds(s, x) # 0
        BY <4>1, HoldersCount, FS_EmptySet DEF Holds
      <4> QED BY <4>2, HoldsIs
    <3>8. ASSUME NEW y \in Names PROVE Rests(s, t, y) \/ Writes(s, t, y)
      <4>1. Holds(t, y) = Holds(s, y)
        BY ONLY <3>6
      <4>2. CASE y = x
        <5>1. Length(t, x) = end /\ Length(s, x) = old.size
          BY <2>7, <3>5 DEF Length
        <5>2. Length(t, x) >= Length(s, x)
          <6>1. old.size \in Nat
            BY <2>1 DEF File
          <6> QED BY <5>1, <6>1, <3>4
        <5> QED BY <4>1, <4>2, <5>2, <3>4, <3>5, <3>7 DEF Writes, Same, Marked
      <4>3. CASE y # x
        <5>1. Named(t, y) = Named(s, y)
          BY ONLY <4>3, <3>5
        <5> QED BY ONLY <4>1, <5>1, RestIs
      <4> QED BY <4>2, <4>3
    <3>9. Fares(s, t)
      BY <3>5, <3>8 DEF Fares
    <3> QED BY <2>9, <2>12, <2>14, <2>15, <2>16, <3>2, <3>9 DEF WritesOne, Core
  <2> QED BY <2>17
<1> QED BY <1>3, <1>4

\* A descriptor of a file that only its own slot leads to.
Mine(s, fd) == fd \in Fds /\ fd >= MinFreeFd /\ s.slot[fd] = fd

\* f_dup2 of such a descriptor onto one of the terminal's.
DupedOnto(s, old, new, t) ==
  /\ Core(t) /\ Used(t) = Used(s) /\ Closes(s, t)
  /\ t.slot = [s.slot EXCEPT ![new] = old]
  /\ \A n \in Fds : AtEnd(s, n) => AtEnd(t, n)

LEMMA FdDuped ==
  ASSUME NEW s, Core(s), NEW old, Mine(s, old), NEW new \in Fds, new < MinFreeFd,
         s.slot[new] # old
  PROVE  DupedOnto(s, old, new, FDup2(s, old, new, Intact))
<1> PICK t : t = FDup2(s, old, new, Intact)
  OBVIOUS
<1> PICK u : u = FClose(s, new, Intact)
  OBVIOUS
<1>1. old \in Fds /\ s.slot[old] = old /\ old # Failed /\ old # NoFd
  BY FdsHold DEF FdsAre, Mine, MinFreeFd, Failed, NoFd
<1>2. t = [u EXCEPT !.slot[new] = old]
  BY <1>1 DEF FDup2
<1>3. ClosedAs(s, new, u)
  BY FileClosed
<1>4. /\ Core(u) /\ Used(u) = Used(s) /\ u.slot = [s.slot EXCEPT ![new] = NoFd]
      /\ \A n \in Fds : AtEnd(s, n) => AtEnd(u, n)
  BY <1>3 DEF ClosedAs
<1>5. /\ u \in Systems /\ Sound(u) /\ Held(u) /\ Nodes(u) /\ u.node \in [Fds -> Node]
      /\ s.slot \in [Fds -> Fds \cup {NoFd}] /\ u.slot \in [Fds -> Fds \cup {NoFd}]
  BY <1>4, CoreFacts
<1> PICK slot : slot = [s.slot EXCEPT ![new] = old]
  OBVIOUS
<1>6. slot = [u.slot EXCEPT ![new] = old] /\ slot \in [Fds -> Fds \cup {NoFd}]
  BY <1>1, <1>4, <1>5
<1>7. t = WithTable(u, slot, u.node)
  <2>1. [u EXCEPT !.slot[new] = old] = [u EXCEPT !.slot = [u.slot EXCEPT ![new] = old]]
    BY <1>5 DEF Systems
  <2>2. [u EXCEPT !.slot = slot] = [u EXCEPT !.slot = slot, !.node = u.node]
    BY <1>5 DEF Systems
  <2> QED BY <1>2, <1>6, <2>1, <2>2 DEF WithTable
<1>8. SameList(u, t) /\ t.slot = slot /\ t.node = u.node
  BY <1>5, <1>6, <1>7, TableSet
<1>9. Sound(t) /\ Used(t) = Used(u)
  BY <1>5, <1>8, TableSound
<1>10. \A x : Named(t, x) = Named(u, x)
  BY <1>8, TableNamed
<1>11. SameFiles(u, t)
  BY <1>8, <1>10 DEF SameFiles
<1>12. Held(t) /\ Nodes(t) /\ \A n \in Fds : AtEnd(u, n) => AtEnd(t, n)
  BY <1>5, <1>11, SameFilesKeep
<1>13. DupedOnto(s, old, new, t)
  <2>1. \A n \in Fds : n >= MinFreeFd => t.slot[n] = u.slot[n] /\ t.node[n] = u.node[n]
    <3>1. \A n \in Fds : slot[n] = IF n = new THEN old ELSE u.slot[n]
      BY <1>5, <1>6
    <3>2. \A n \in Fds : n >= MinFreeFd => n # new
      BY FdsHold DEF FdsAre, MinFreeFd
    <3> QED BY <1>8, <3>1, <3>2
  <2>2. Free(t)
    BY <1>4, <2>1, CoreFacts DEF Free
  <2>3. \A x \in Names : Holds(t, x) = Holds(u, x) /\ Holds(u, x) \in Nat
    BY <1>8, HoldsSame, HoldsIs
  <2>4. Closes(u, t)
    BY <1>8, <2>3, TableCloses
  <2>5. Core(t)
    BY <1>9, <1>12, <2>2 DEF Core
  <2>6. Closes(s, t)
    BY <1>3, <1>4, <2>4, <2>5, ClosesTwice DEF ClosedAs
  <2> QED BY <1>4, <1>8, <1>9, <1>12, <2>5, <2>6 DEF DupedOnto
<1> QED BY <1>13

\* f_dup_reset: the terminal's descriptors are its own again.
ResetFrom(s, t) ==
  /\ Core(t) /\ Used(t) = Used(s) /\ Closes(s, t)
  /\ t.slot = [fd \in Fds |-> IF fd \in Std THEN fd ELSE s.slot[fd]]

LEMMA FdsReset ==
  ASSUME NEW s, Core(s)
  PROVE  ResetFrom(s, FDupReset(s, Intact))
<1> PICK a : a = FClose(s, 0, Intact)
  OBVIOUS
<1> PICK b : b = FClose(a, 1, Intact)
  OBVIOUS
<1> PICK c : c = FClose(b, 2, Intact)
  OBVIOUS
<1> PICK t : t = FDupReset(s, Intact)
  OBVIOUS
<1>1. 0 \in Fds /\ 1 \in Fds /\ 2 \in Fds /\ Std = {0, 1, 2}
  BY FdsHold DEF FdsAre, Std
<1>2. Core(a) /\ Used(a) = Used(s) /\ Closes(s, a) /\ a.slot = [s.slot EXCEPT ![0] = NoFd]
  <2>1. ClosedAs(s, 0, a)
    BY <1>1, FileClosed
  <2> QED BY <2>1 DEF ClosedAs
<1>3. Core(b) /\ Used(b) = Used(a) /\ Closes(a, b) /\ b.slot = [a.slot EXCEPT ![1] = NoFd]
  <2>1. ClosedAs(a, 1, b)
    BY <1>1, <1>2, FileClosed
  <2> QED BY <2>1 DEF ClosedAs
<1>4. Core(c) /\ Used(c) = Used(b) /\ Closes(b, c) /\ c.slot = [b.slot EXCEPT ![2] = NoFd]
  <2>1. ClosedAs(b, 2, c)
    BY <1>1, <1>3, FileClosed
  <2> QED BY <2>1 DEF ClosedAs
<1>5. s.slot \in [Fds -> Fds \cup {NoFd}] /\ c.slot \in [Fds -> Fds \cup {NoFd}]
  BY <1>4, CoreFacts
<1>6. \A fd \in Fds : fd \notin Std => c.slot[fd] = s.slot[fd]
  BY <1>1, <1>2, <1>3, <1>4, <1>5
<1>7. /\ c \in Systems /\ Sound(c) /\ Held(c) /\ Nodes(c) /\ c.node \in [Fds -> Node]
  BY <1>4, CoreFacts
<1> PICK slot : slot = [fd \in Fds |-> IF fd \in Std THEN fd ELSE c.slot[fd]]
  OBVIOUS
<1> PICK node : node = [n \in Fds |-> IF n \in Std THEN Dummy ELSE c.node[n]]
  OBVIOUS
<1>8. Dummy \in Node /\ Dummy.name = NoName
  BY FreshTable DEF Node
<1>9. slot \in [Fds -> Fds \cup {NoFd}] /\ node \in [Fds -> Node]
  BY <1>5, <1>7, <1>8
<1>10. t = WithTable(c, slot, node)
  BY DEF FDupReset, WithTable
<1>11. SameList(c, t) /\ t.slot = slot /\ t.node = node
  BY <1>7, <1>9, <1>10, TableSet
<1>12. Sound(t) /\ Used(t) = Used(c)
  BY <1>7, <1>11, TableSound
<1>13. \A x : Named(t, x) = Named(c, x)
  BY <1>11, TableNamed
<1>14. \A n \in Fds : t.node[n] = IF n \in Std THEN Dummy ELSE c.node[n]
  BY <1>11
<1>15. ASSUME NEW x \in Names PROVE Holders(t, x) = Holders(c, x)
  <2>1. \A n \in Fds : n \in Std => c.node[n].name # x /\ t.node[n].name # x
    BY <1>7, <1>8, <1>14, NamesAssumption DEF Nodes
  <2> QED BY <2>1, <1>14 DEF Holders
<1>16. Held(t)
  BY <1>7, <1>13, <1>15 DEF Held
<1>17. Nodes(t)
  BY <1>7, <1>8, <1>14 DEF Nodes
<1>18. t.slot = [fd \in Fds |-> IF fd \in Std THEN fd ELSE s.slot[fd]]
  BY <1>6, <1>11
<1>19. ResetFrom(s, t)
  <2>1. \A n \in Fds : n >= MinFreeFd => n \notin Std
    BY <1>1 DEF MinFreeFd
  <2>2. \A n \in Fds : n >= MinFreeFd => t.slot[n] = c.slot[n] /\ t.node[n] = c.node[n]
    BY <1>11, <1>14, <2>1
  <2>3. Free(t)
    BY <1>4, <2>2, CoreFacts DEF Free
  <2>4. Core(t)
    BY <1>12, <1>16, <1>17, <2>3 DEF Core
  <2>5. \A x \in Names : Holds(t, x) = Holds(c, x) /\ Holds(c, x) \in Nat
    BY <1>15, HoldsIs DEF Holds
  <2>6. Closes(c, t)
    BY <1>11, <2>5, TableCloses
  <2>7. Closes(s, b)
    BY <1>2, <1>3, ClosesTwice
  <2>8. Closes(s, c)
    BY <1>3, <1>4, <2>7, ClosesTwice
  <2>9. Closes(s, t)
    BY <1>4, <2>4, <2>6, <2>8, ClosesTwice
  <2> QED BY <1>2, <1>3, <1>4, <1>12, <1>18, <2>4, <2>9 DEF ResetFrom
<1> QED BY <1>19
-----------------------------------------------------------------------------
(***************************************************************************)
(* The disk mkFlatFAT makes, and every disk mounted.                       *)
(***************************************************************************)
MountedCore(s, t) ==
  /\ Core(t) /\ (Recorded(s) => Used(t) = Used(s))
  /\ t.slot = [fd \in Fds |-> IF fd \in Std THEN fd ELSE NoFd]

\* A new table names no file.
LEMMA NewTable ==
  ASSUME NEW t, t.files \in Seq(File),
         t.slot = [fd \in Fds |-> IF fd \in Std THEN fd ELSE NoFd],
         t.node = [fd \in Fds |-> IF fd \in Std THEN Dummy ELSE Blank]
  PROVE  Held(t) /\ Nodes(t) /\ Free(t)
<1>1. \A n \in Fds : t.node[n].name = NoName
  BY FreshTable
<1>2. ASSUME NEW x \in Names PROVE Holders(t, x) = {}
  BY <1>1, NamesAssumption DEF Holders
<1>3. Held(t)
  <2> SUFFICES ASSUME NEW x \in Names PROVE Cardinality(Holders(t, x)) <= Named(t, x).open
    BY DEF Held
  <2>1. Cardinality(Holders(t, x)) = 0
    BY <1>2, FS_EmptySet
  <2>2. Named(t, x).open \in Nat
    BY NamedKind
  <2> QED BY <2>1, <2>2
<1>4. Nodes(t)
  BY <1>1 DEF Nodes
<1>5. Free(t)
  <2>1. \A n \in Fds : n >= MinFreeFd => n \notin Std
    BY FdsHold DEF FdsAre, MinFreeFd, Std
  <2>2. \A n \in Fds : n >= MinFreeFd => t.slot[n] = NoFd /\ t.node[n] = Blank
    BY <2>1
  <2> QED BY <2>2 DEF Free, Blank
<1> QED BY <1>3, <1>4, <1>5

LEMMA RemountedCore ==
  ASSUME NEW s, Core(s)
  PROVE  MountedCore(s, Mounted(s))
<1> PICK t : t = Mounted(s)
  OBVIOUS
<1>1. MountedFrom(s, t)
  BY CoreFacts, MountedIs
<1>2. /\ Sound(t) /\ (Recorded(s) => Used(t) = Used(s))
      /\ t.slot = [fd \in Fds |-> IF fd \in Std THEN fd ELSE NoFd]
      /\ t.node = [fd \in Fds |-> IF fd \in Std THEN Dummy ELSE Blank]
  BY <1>1 DEF MountedFrom
<1>3. t.files \in Seq(File)
  BY <1>2, BodyFacts DEF Sound
<1>4. Held(t) /\ Nodes(t) /\ Free(t)
  BY <1>2, <1>3, NewTable
<1>5. MountedCore(s, t)
  BY <1>2, <1>4 DEF MountedCore, Core
<1> QED BY <1>5

\* The first state: no files, and every block free but the directory's.
FirstState(t) ==
  /\ Core(t) /\ t.slot = [fd \in Fds |-> IF fd \in Std THEN fd ELSE NoFd]
  /\ t.files = <<>> /\ t.dirSize = 0 /\ t.fat = [b \in Blocks |-> 0]

LEMMA MadeAndMounted == FirstState(Mounted(EmptyDisk))
<1> PICK t : t = Mounted(EmptyDisk)
  OBVIOUS
<1> PICK fat : fat = [b \in Blocks |-> 0]
  OBVIOUS
<1> PICK dir : dir = [o \in 0..(MaxDirSize - 1) |-> NoUnit]
  OBVIOUS
<1> PICK slot : slot = [fd \in Fds |-> IF fd \in Std THEN fd ELSE NoFd]
  OBVIOUS
<1> PICK node : node = [fd \in Fds |-> IF fd \in Std THEN Dummy ELSE Blank]
  OBVIOUS
<1>1. /\ t.fat = fat /\ t.dirSize = 0 /\ t.dir = dir /\ t.files = <<>>
      /\ t.slot = slot /\ t.node = node
      /\ t = [fat |-> fat, dirSize |-> 0, dir |-> dir, files |-> <<>>, slot |-> slot, node |-> node]
  <2> PICK list : list = LoadFileList(EmptyDisk)
    OBVIOUS
  <2>1. list = <<>>
    <3>1. EmptyDisk.dirSize \div EntrySize = 0
      BY DEF EmptyDisk, EntrySize
    <3> QED BY <3>1 DEF LoadFileList
  <2>2. EmptyDisk = [fat |-> fat, dirSize |-> 0, dir |-> dir, files |-> <<>>, slot |-> <<>>, node |-> <<>>]
    BY DEF EmptyDisk
  <2> PICK e : e = EmptyDisk
    OBVIOUS
  <2>3. t = [[e EXCEPT !.files = list] EXCEPT !.slot = slot, !.node = node]
    BY DEF Mounted, InitFdList
  <2>4. t = [fat |-> fat, dirSize |-> 0, dir |-> dir, files |-> list, slot |-> slot, node |-> node]
    BY <2>2, <2>3
  <2> QED BY <2>1, <2>4
<1>2. 0 \in Blocks /\ Blocks \subseteq Nat /\ DirBlock = 0
  BY SizeAssumption DEF Blocks, DirBlock
<1>3. fat \in Fats /\ fat[0] = 0
  BY <1>2 DEF Fats
<1>4. MaxDirSize \in Nat
  BY NamesAssumption, FS_CardinalityType DEF MaxDirSize, EntrySize
<1>5. t \in Systems
  <2>1. dir \in [0..(MaxDirSize - 1) -> Unit]
    BY <1>2 DEF NoUnit, Unit
  <2>2. slot \in [Fds -> Fds \cup {NoFd}] /\ node \in [Fds -> Node]
    BY FreshTable
  <2>3. <<>> \in Seq(File)
    OBVIOUS
  <2> QED BY <1>1, <1>3, <2>1, <2>2, <2>3 DEF Systems
<1>6. Places(t) = {} /\ Len(t.files) = 0
  BY <1>1 DEF Places
<1>7. Starts(t) = {DirBlock}
  BY <1>6 DEF Starts
<1>8. Chain(fat, 0) = {0}
  <2>1. 0 \in Chain(fat, 0)
    BY <1>2, <1>3, ChainCloses
  <2>2. \A b \in Chain(fat, 0) : b \in {0}
    <3>1. {0} \in SUBSET Blocks /\ 0 \in {0} /\ \A c \in {0} : fat[c] \in {0}
      BY <1>2, <1>3
    <3> QED BY <3>1 DEF Chain
  <2> QED BY <2>1, <2>2
<1>9. Apart(fat, {0})
  BY <1>2, <1>3, <1>8 DEF Apart, FreeBlocks
<1>10. Size(fat, 0) = 1 /\ BlockSize \in Nat /\ BlockSize >= 1
  <2>1. Cardinality({0}) = 1
    BY FS_Singleton
  <2>2. Size(fat, 0) = 1
    BY <2>1, <1>8 DEF Size
  <2> QED BY <2>2, SizeAssumption
<1>11. Body(t, {0})
  <2>1. Distinct(t.files)
    BY <1>6 DEF Distinct
  <2>2. Header + EntrySize * (Len(t.files) - 1) <= Size(t.fat, DirBlock) * BlockSize
    BY <1>1, <1>2, <1>6, <1>10 DEF Header, EntrySize
  <2> QED BY <1>1, <1>5, <1>6, <1>9, <2>1, <2>2 DEF Body
<1>12. Agrees(t)
  <2>1. Recorded(t)
    BY <1>1, <1>6 DEF Recorded, EntrySize
  <2>2. t.dirSize <= MaxDirSize /\ t.dirSize <= EntrySize * Len(t.files) + 1
    BY <1>1, <1>4, <1>6 DEF EntrySize
  <2>3. 1..(t.dirSize \div EntrySize) = {}
    <3>1. t.dirSize \div EntrySize = 0
      BY <1>1 DEF EntrySize
    <3> QED BY <3>1
  <2>4. Header + t.dirSize <= Size(t.fat, DirBlock) * BlockSize
    BY <1>1, <1>2, <1>10 DEF Header
  <2> QED BY <2>1, <2>2, <2>3, <2>4 DEF Agrees
<1>13. Sound(t)
  BY <1>2, <1>7, <1>11, <1>12 DEF Sound
<1>14. t.files \in Seq(File)
  BY <1>5 DEF Systems
<1>15. Held(t) /\ Nodes(t) /\ Free(t)
  BY <1>1, <1>14, NewTable
<1>16. FirstState(t)
  BY <1>1, <1>13, <1>15 DEF FirstState, Core
<1> QED BY <1>16
-----------------------------------------------------------------------------
(***************************************************************************)
(* The invariant: the file system, the shell and the programs together.    *)
(***************************************************************************)
\* Past the terminal's three, a slot is empty or leads to its own node; stdin
\* and stdout are the terminal's or a file's, never the same.
Slots(s) ==
  /\ \A fd \in Fds : fd >= MinFreeFd => s.slot[fd] \in {NoFd, fd}
  /\ s.slot[0] = 0 \/ Mine(s, s.slot[0])
  /\ s.slot[1] = 1 \/ Mine(s, s.slot[1])
  /\ s.slot[0] # s.slot[1]

Shells == [pc : {"prompt", "open in", "dup in", "open out", "dup out", "reset"},
           input : Names \cup {NoName}, output : Names \cup {NoName},
           mode : {"write", "append"}, fd : Fds \cup {NoFd}]
Progs  == [cmd : {"none", "touch", "rm", "cat", "ls"}, name : Names \cup {NoName},
           pc : {"start", "close", "write"}, fd : Fds \cup {NoFd}, buf : 0..BufferSize]

\* touch and rm have a name, a write has something to write, and only touch
\* has something to close.
Ready(q) == /\ q.cmd \in {"touch", "rm"} => q.name \in Names
            /\ q.pc = "write" => q.buf >= 1
            /\ q.pc = "close" => q.cmd = "touch"

Typed(sh, pr) ==
  /\ sh \in Shells
  /\ pr \in [Programs -> Progs]
  /\ \A p \in Programs : Ready(pr[p])

\* The shell has opened a redirect and not yet used the descriptor.
Duping(sh)     == sh.pc \in {"dup in", "dup out"} /\ sh.fd # NoFd
Closing(pr, p) == pr[p].pc = "close"
Spare(s, fd)   == Mine(s, fd) /\ fd # s.slot[0] /\ fd # s.slot[1]

\* A descriptor between its f_open and its f_dup2 or f_close is nobody else's.
ShellOwns(s, sh) == Duping(sh) => Spare(s, sh.fd)
ProgsOwn(s, sh, pr) ==
  \A p \in Programs : Closing(pr, p) =>
    /\ Spare(s, pr[p].fd)
    /\ Duping(sh) => pr[p].fd # sh.fd
    /\ \A q \in Programs \ {p} : Closing(pr, q) => pr[q].fd # pr[p].fd

\* Until it is redirected stdout is the terminal, and then it is at the end of
\* its file, as the descriptor is that it is redirected to.
Ends(s, sh) ==
  /\ sh.pc # "reset" => s.slot[1] = 1
  /\ AtEnd(s, s.slot[1])
  /\ Duping(sh) /\ sh.pc = "dup out" => AtEnd(s, sh.fd)

Good(s, sh, pr) ==
  /\ Core(s) /\ Slots(s) /\ Typed(sh, pr)
  /\ ShellOwns(s, sh) /\ ProgsOwn(s, sh, pr) /\ Ends(s, sh)

FInv == Good(sys, shell, prog)

LEMMA SlotFacts ==
  ASSUME NEW s, Slots(s)
  PROVE  /\ s.slot[0] \in Fds /\ s.slot[1] \in Fds
         /\ \A g : Mine(s, g) => g \in Fds /\ g >= MinFreeFd /\ s.slot[g] = g /\ g # NoFd /\ g # 0 /\ g # 1
BY FdsHold DEF FdsAre, Slots, Mine, MinFreeFd, NoFd

\* What a call keeps of the table's slots.
Keeps(s, t) ==
  /\ Slots(t) /\ t.slot[0] = s.slot[0] /\ t.slot[1] = s.slot[1]
  /\ \A g : Spare(s, g) => Spare(t, g)

LEMMA SameSlots ==
  ASSUME NEW s, Slots(s), NEW t, t.slot = s.slot
  PROVE  Keeps(s, t)
BY DEF Keeps, Slots, Mine, Spare

\* An f_open: the new descriptor is its opener's.
OpenSlot(s, fd, t) ==
  /\ Keeps(s, t) /\ Spare(t, fd) /\ \A g : Mine(s, g) => g # fd

LEMMA SlotOpened ==
  ASSUME NEW s, Slots(s), s.slot \in [Fds -> Fds \cup {NoFd}], NEW fd \in Fds, fd >= MinFreeFd,
         s.slot[fd] = NoFd, NEW t, t.slot = [s.slot EXCEPT ![fd] = fd]
  PROVE  OpenSlot(s, fd, t)
<1>1. \A g \in Fds : t.slot[g] = IF g = fd THEN fd ELSE s.slot[g]
  OBVIOUS
<1>2. \A g : Mine(s, g) => g # fd
  BY SlotFacts
<1>3. 0 \in Fds /\ 1 \in Fds /\ fd # 0 /\ fd # 1 /\ fd # NoFd
  BY FdsHold DEF FdsAre, MinFreeFd, NoFd
<1>4. t.slot[0] = s.slot[0] /\ t.slot[1] = s.slot[1]
  BY <1>1, <1>3
<1>5. \A g : Mine(s, g) => Mine(t, g)
  BY <1>1, <1>2 DEF Mine
<1>6. \A g \in Fds : g >= MinFreeFd => t.slot[g] \in {NoFd, g}
  BY <1>1 DEF Slots
<1>7. Slots(t)
  BY <1>4, <1>5, <1>6 DEF Slots
<1>8. fd # s.slot[0] /\ fd # s.slot[1]
  BY <1>2, <1>3 DEF Slots
<1>9. Spare(t, fd)
  BY <1>1, <1>4, <1>8 DEF Spare, Mine
<1> QED BY <1>2, <1>4, <1>5, <1>7, <1>9 DEF OpenSlot, Keeps, Spare

\* An f_close of a spare descriptor.
CloseSlot(s, fd, t) ==
  /\ Slots(t) /\ t.slot[0] = s.slot[0] /\ t.slot[1] = s.slot[1]
  /\ \A g : Spare(s, g) /\ g # fd => Spare(t, g)

LEMMA SlotClosed ==
  ASSUME NEW s, Slots(s), s.slot \in [Fds -> Fds \cup {NoFd}], NEW fd, Spare(s, fd),
         NEW t, t.slot = [s.slot EXCEPT ![fd] = NoFd]
  PROVE  CloseSlot(s, fd, t)
<1>1. fd \in Fds /\ fd # 0 /\ fd # 1 /\ fd # s.slot[0] /\ fd # s.slot[1]
  BY SlotFacts DEF Spare
<1>2. \A g \in Fds : t.slot[g] = IF g = fd THEN NoFd ELSE s.slot[g]
  BY <1>1
<1>3. t.slot[0] = s.slot[0] /\ t.slot[1] = s.slot[1]
  BY <1>1, <1>2, FdsHold DEF FdsAre
<1>4. \A g : Mine(s, g) /\ g # fd => Mine(t, g)
  BY <1>2 DEF Mine
<1>5. \A g \in Fds : g >= MinFreeFd => t.slot[g] \in {NoFd, g}
  BY <1>2 DEF Slots
<1>6. Slots(t)
  BY <1>1, <1>3, <1>4, <1>5 DEF Slots
<1> QED BY <1>3, <1>4, <1>6 DEF CloseSlot, Spare

\* An f_dup2 of a spare descriptor onto stdin or stdout.
DupSlot(s, old, new, t) ==
  /\ Slots(t) /\ t.slot[new] = old
  /\ \A k \in {0, 1} \ {new} : t.slot[k] = s.slot[k]
  /\ \A g : Spare(s, g) /\ g # old => Spare(t, g)

LEMMA SlotDuped ==
  ASSUME NEW s, Slots(s), NEW old, Spare(s, old), NEW new \in {0, 1},
         NEW t, \A g \in Fds : t.slot[g] = IF g = new THEN old ELSE s.slot[g]
  PROVE  DupSlot(s, old, new, t)
<1>1. Mine(s, old) /\ old # s.slot[0] /\ old # s.slot[1] /\ new \in Fds /\ 0 \in Fds /\ 1 \in Fds
  BY FdsHold DEF Spare, FdsAre
<1>2. \A g \in Fds : t.slot[g] = IF g = new THEN old ELSE s.slot[g]
  OBVIOUS
<1>3. \A g : Mine(s, g) => Mine(t, g)
  BY <1>2, SlotFacts DEF Mine
<1>4. \A g \in Fds : g >= MinFreeFd => t.slot[g] \in {NoFd, g}
  BY <1>2 DEF Slots, MinFreeFd
<1>5. \A k \in {0, 1} : t.slot[k] = IF k = new THEN old ELSE s.slot[k]
  BY <1>1, <1>2
<1>6. Slots(t)
  BY <1>1, <1>3, <1>4, <1>5 DEF Slots
<1> QED BY <1>3, <1>5, <1>6 DEF DupSlot, Spare

\* A table whose first three slots are the terminal's.
LEMMA SlotsReset ==
  ASSUME NEW s, NEW slot, \A fd \in Fds : fd >= MinFreeFd => slot[fd] \in {NoFd, fd},
         s.slot = [fd \in Fds |-> IF fd \in Std THEN fd ELSE slot[fd]]
  PROVE  Slots(s) /\ s.slot[0] = 0 /\ s.slot[1] = 1
         /\ \A g \in Fds : g >= MinFreeFd => s.slot[g] = slot[g]
<1>1. 0 \in Fds /\ 1 \in Fds /\ Std = {0, 1, 2} /\ \A fd \in Fds : fd >= MinFreeFd => fd \notin Std
  BY FdsHold DEF FdsAre, Std, MinFreeFd
<1>2. s.slot[0] = 0 /\ s.slot[1] = 1
  BY <1>1
<1>3. \A fd \in Fds : fd >= MinFreeFd => s.slot[fd] = slot[fd]
  BY <1>1
<1> QED BY <1>2, <1>3 DEF Slots
-----------------------------------------------------------------------------
(***************************************************************************)
(* What the steps of the shell and of a program have in common.            *)
(***************************************************************************)
LEMMA GoodFacts ==
  ASSUME NEW s, NEW sh, NEW pr, Good(s, sh, pr)
  PROVE  /\ Core(s) /\ Slots(s) /\ Typed(sh, pr)
         /\ ShellOwns(s, sh) /\ ProgsOwn(s, sh, pr) /\ Ends(s, sh)
         /\ sh \in Shells /\ pr \in [Programs -> Progs]
         /\ s.slot \in [Fds -> Fds \cup {NoFd}] /\ s.slot[0] \in Fds /\ s.slot[1] \in Fds
<1>1. /\ Core(s) /\ Slots(s) /\ Typed(sh, pr)
      /\ ShellOwns(s, sh) /\ ProgsOwn(s, sh, pr) /\ Ends(s, sh)
  BY DEF Good
<1>2. sh \in Shells /\ pr \in [Programs -> Progs]
  BY <1>1 DEF Typed
<1>3. s.slot \in [Fds -> Fds \cup {NoFd}]
  BY <1>1, CoreFacts
<1>4. s.slot[0] \in Fds /\ s.slot[1] \in Fds
  BY <1>1, SlotFacts
<1> QED BY <1>1, <1>2, <1>3, <1>4

\* The terminal's own descriptors are at the end of no file.
LEMMA TerminalAtEnd ==
  ASSUME NEW s, Nodes(s)
  PROVE  AtEnd(s, 1) /\ s.node[1].name = NoName
<1>1. 1 \in Fds /\ 1 \in Std
  BY FdsHold DEF FdsAre, Std
<1>2. s.node[1].name = NoName
  BY <1>1 DEF Nodes
<1> QED BY <1>2, NamesAssumption DEF AtEnd

\* The descriptors whose cursor matters, at their ends.
LEMMA EndsStay ==
  ASSUME NEW s, NEW sh, NEW pr, Good(s, sh, pr), NEW t, t.slot[1] = s.slot[1],
         \A n \in Fds : n = s.slot[1] \/ (Duping(sh) /\ n = sh.fd) => (AtEnd(s, n) => AtEnd(t, n))
  PROVE  Ends(t, sh)
<1>1. Ends(s, sh) /\ s.slot[1] \in Fds /\ (Duping(sh) => sh.fd \in Fds)
  BY GoodFacts, SlotFacts DEF ShellOwns, Spare
<1> QED BY <1>1 DEF Ends

\* The shell goes on, with no descriptor in hand.
LEMMA ShellMoves ==
  ASSUME NEW s, NEW sh, NEW pr, Good(s, sh, pr),
         NEW t, Core(t), Slots(t), NEW next \in Shells, ~Duping(next),
         \A p \in Programs : Closing(pr, p) => Spare(t, pr[p].fd),
         next.pc # "reset" => t.slot[1] = 1, AtEnd(t, t.slot[1])
  PROVE  Good(t, next, pr)
<1>1. Typed(sh, pr) /\ ProgsOwn(s, sh, pr)
  BY GoodFacts
<1>2. Typed(next, pr)
  BY <1>1 DEF Typed
<1>3. ProgsOwn(t, next, pr)
  BY <1>1 DEF ProgsOwn
<1> QED BY <1>2, <1>3 DEF Good, ShellOwns, Ends

LEMMA ClosersKept ==
  ASSUME NEW s, NEW sh, NEW pr, Good(s, sh, pr), NEW t, Keeps(s, t)
  PROVE  \A p \in Programs : Closing(pr, p) => Spare(t, pr[p].fd)
<1>1. ProgsOwn(s, sh, pr)
  BY GoodFacts
<1> QED BY <1>1 DEF ProgsOwn, Keeps

\* The shell has opened a file.
LEMMA ShellOpens ==
  ASSUME NEW s, NEW sh, NEW pr, Good(s, sh, pr), sh.pc # "reset",
         NEW t, Core(t), NEW fd, OpenSlot(s, fd, t),
         NEW next \in Shells, next.fd = fd, next.pc \in {"dup in", "dup out"},
         next.pc = "dup out" => AtEnd(t, fd)
  PROVE  Good(t, next, pr)
<1>1. Typed(sh, pr) /\ ProgsOwn(s, sh, pr) /\ Ends(s, sh)
  BY GoodFacts
<1>2. Typed(next, pr)
  BY <1>1 DEF Typed
<1>3. Keeps(s, t) /\ Spare(t, fd) /\ \A g : Mine(s, g) => g # fd
  BY DEF OpenSlot
<1>4. Slots(t) /\ ShellOwns(t, next)
  BY <1>3 DEF Keeps, ShellOwns
<1>5. ProgsOwn(t, next, pr)
  <2>1. \A p \in Programs : Closing(pr, p) => Mine(s, pr[p].fd)
    BY <1>1 DEF ProgsOwn, Spare
  <2>2. \A p \in Programs : Closing(pr, p) => Spare(t, pr[p].fd)
    BY <1>3, ClosersKept
  <2> QED BY <2>1, <2>2, <1>1, <1>3 DEF ProgsOwn
<1>6. t.slot[1] = 1
  BY <1>1, <1>3 DEF Ends, Keeps
<1>7. AtEnd(t, 1)
  BY TerminalAtEnd, CoreFacts
<1>8. Ends(t, next)
  BY <1>6, <1>7 DEF Ends
<1> QED BY <1>2, <1>4, <1>5, <1>8 DEF Good

\* A program goes on, with no descriptor to close.
LEMMA ProgramMoves ==
  ASSUME NEW s, NEW sh, NEW pr, Good(s, sh, pr), NEW t, Core(t), Keeps(s, t), Ends(t, sh),
         NEW p \in Programs, NEW q \in Progs, Ready(q), q.pc # "close",
         NEW next, next = [pr EXCEPT ![p] = q]
  PROVE  Good(t, sh, next)
<1>1. Typed(sh, pr) /\ ProgsOwn(s, sh, pr) /\ ShellOwns(s, sh) /\ pr \in [Programs -> Progs]
  BY GoodFacts
<1>2. \A r \in Programs : next[r] = IF r = p THEN q ELSE pr[r]
  BY <1>1
<1>3. next \in [Programs -> Progs]
  BY <1>1
<1>4. Typed(sh, next)
  BY <1>1, <1>2, <1>3 DEF Typed
<1>5. ShellOwns(t, sh) /\ Slots(t)
  BY <1>1 DEF ShellOwns, Keeps
<1>6. \A r \in Programs : Closing(next, r) => Closing(pr, r) /\ next[r] = pr[r]
  BY <1>2 DEF Closing
<1>7. \A r \in Programs : Closing(pr, r) => Spare(t, pr[r].fd)
  BY ClosersKept
<1>8. ProgsOwn(t, sh, next)
  <2> SUFFICES ASSUME NEW r \in Programs, Closing(next, r)
               PROVE  /\ Spare(t, next[r].fd) /\ (Duping(sh) => next[r].fd # sh.fd)
                      /\ \A o \in Programs \ {r} : Closing(next, o) => next[o].fd # next[r].fd
    BY DEF ProgsOwn
  <2>1. Closing(pr, r) /\ next[r] = pr[r] /\ Spare(t, pr[r].fd)
    BY <1>6, <1>7
  <2>2. \A o \in Programs \ {r} : Closing(next, o) => Closing(pr, o) /\ next[o] = pr[o]
    BY <1>6
  <2> HIDE DEF Closing
  <2>3. /\ Duping(sh) => pr[r].fd # sh.fd
        /\ \A o \in Programs \ {r} : Closing(pr, o) => pr[o].fd # pr[r].fd
    BY <1>1, <2>1, Zenon DEF ProgsOwn
  <2> QED BY <2>1, <2>2, <2>3, Zenon
<1> QED BY <1>4, <1>5, <1>8 DEF Good

\* A program has opened a file, to close it.
LEMMA ProgramOpens ==
  ASSUME NEW s, NEW sh, NEW pr, Good(s, sh, pr), NEW t, Core(t), NEW fd, OpenSlot(s, fd, t), Ends(t, sh),
         NEW p \in Programs, NEW q \in Progs, Ready(q), q.fd = fd,
         NEW next, next = [pr EXCEPT ![p] = q]
  PROVE  Good(t, sh, next)
<1>1. Typed(sh, pr) /\ ProgsOwn(s, sh, pr) /\ ShellOwns(s, sh) /\ pr \in [Programs -> Progs]
  BY GoodFacts
<1>2. \A r \in Programs : next[r] = IF r = p THEN q ELSE pr[r]
  BY <1>1
<1>3. next \in [Programs -> Progs]
  BY <1>1
<1>4. Typed(sh, next)
  BY <1>1, <1>2, <1>3 DEF Typed
<1>5. Keeps(s, t) /\ Spare(t, fd) /\ \A g : Mine(s, g) => g # fd
  BY DEF OpenSlot
<1>6. ShellOwns(t, sh) /\ Slots(t)
  BY <1>1, <1>5 DEF ShellOwns, Keeps
<1>7. \A r \in Programs : Closing(pr, r) => Spare(t, pr[r].fd) /\ pr[r].fd # fd
  BY <1>1, <1>5, ClosersKept DEF ProgsOwn, Spare
<1>8. Duping(sh) => sh.fd # fd
  BY <1>1, <1>5 DEF ShellOwns, Spare
<1>9. \A r \in Programs : r # p /\ Closing(next, r) => Closing(pr, r) /\ next[r] = pr[r]
  BY <1>2 DEF Closing
<1>10. next[p].fd = fd
  BY <1>2
<1>11. ProgsOwn(t, sh, next)
  <2> SUFFICES ASSUME NEW r \in Programs, Closing(next, r)
               PROVE  /\ Spare(t, next[r].fd) /\ (Duping(sh) => next[r].fd # sh.fd)
                      /\ \A o \in Programs \ {r} : Closing(next, o) => next[o].fd # next[r].fd
    BY DEF ProgsOwn
  <2>1. CASE r = p
    BY <2>1, <1>5, <1>7, <1>8, <1>9, <1>10
  <2>2. CASE r # p
    BY <2>2, <1>1, <1>7, <1>9, <1>10 DEF ProgsOwn
  <2> QED BY <2>1, <2>2
<1> QED BY <1>4, <1>6, <1>11 DEF Good

\* A program has closed the file it opened.
LEMMA ProgramCloses ==
  ASSUME NEW s, NEW sh, NEW pr, Good(s, sh, pr), NEW p \in Programs, Closing(pr, p),
         NEW t, Core(t), CloseSlot(s, pr[p].fd, t), Ends(t, sh),
         NEW q \in Progs, Ready(q), q.pc # "close", NEW next, next = [pr EXCEPT ![p] = q]
  PROVE  Good(t, sh, next)
<1>1. Typed(sh, pr) /\ ProgsOwn(s, sh, pr) /\ ShellOwns(s, sh) /\ pr \in [Programs -> Progs]
  BY GoodFacts
<1>2. \A r \in Programs : next[r] = IF r = p THEN q ELSE pr[r]
  BY <1>1
<1>3. next \in [Programs -> Progs]
  BY <1>1
<1>4. Typed(sh, next)
  BY <1>1, <1>2, <1>3 DEF Typed
<1>5. Slots(t) /\ \A g : Spare(s, g) /\ g # pr[p].fd => Spare(t, g)
  BY DEF CloseSlot
<1>6. ShellOwns(t, sh)
  BY <1>1, <1>5 DEF ShellOwns, ProgsOwn
<1>7. \A r \in Programs : Closing(next, r) => r # p /\ Closing(pr, r) /\ next[r] = pr[r]
  BY <1>2 DEF Closing
<1>8. \A r \in Programs : Closing(next, r) => Spare(t, next[r].fd)
  BY <1>1, <1>5, <1>7 DEF ProgsOwn
<1>9. ProgsOwn(t, sh, next)
  BY <1>1, <1>7, <1>8 DEF ProgsOwn
<1> QED BY <1>4, <1>5, <1>6, <1>9 DEF Good
-----------------------------------------------------------------------------
(***************************************************************************)
(* Every step keeps the invariant, and the blocks that are in use or free. *)
(***************************************************************************)
\* The allocator leaves start_block in the node that remove_file has freed.
FreedIntact == StaleStarts \subseteq {Intact}

\* The step leads to t, next and nextProg, no block is lost, and each file
\* fares as calls let it.
StepsTo(t, next, nextProg) ==
  Good(t, next, nextProg) /\ Used(t) = Used(sys) /\ Fares(sys, t)

LEMMA NothingFares ==
  ASSUME NEW s, Core(s)
  PROVE  Fares(s, s)
BY ClosesNothing, ClosesFares

LEMMA IdleIs ==
  /\ Idle \in Progs /\ Ready(Idle) /\ Idle.pc = "start"
  /\ AtPrompt \in Shells /\ AtPrompt.pc = "prompt" /\ ~Duping(AtPrompt)
<1>1. /\ Idle.cmd = "none" /\ Idle.name = NoName /\ Idle.pc = "start" /\ Idle.fd = NoFd /\ Idle.buf = 0
      /\ Idle \in Progs
  <2>1. 0 \in 0..BufferSize
    BY SizeAssumption
  <2> QED BY <2>1 DEF Idle, Progs
<1>2. AtPrompt \in Shells /\ AtPrompt.pc = "prompt"
  BY DEF AtPrompt, Shells
<1> QED BY <1>1, <1>2 DEF Ready, Duping

LEMMA SpawnSteps ==
  ASSUME FInv, NEW p \in Programs, Spawn(p)
  PROVE  StepsTo(sys', shell', prog')
<1>1. Good(sys, shell, prog) /\ shell.pc = "prompt" /\ prog[p] = Idle /\ sys' = sys
  BY DEF FInv, Spawn
<1>2. PICK cmd \in {"touch", "rm", "cat", "ls"}, name \in Names \cup {NoName} :
        /\ (name = NoName) <=> (cmd \in {"cat", "ls"})
        /\ prog' = [prog EXCEPT ![p] = [Idle EXCEPT !.cmd = cmd, !.name = name]]
  BY DEF Spawn
<1>3. PICK input, output, mode :
        /\ input \in Names \cup {shell.input} /\ output \in Names \cup {shell.output}
        /\ mode \in {"write", "append"}
        /\ shell' = [shell EXCEPT !.pc = "open in", !.input = input, !.output = output, !.mode = mode]
  <2>0. \E inSeen, outSeen \in BOOLEAN, mode \in {"write", "append"} :
         /\ outSeen \/ mode = AtPrompt.mode
         /\ \E input  \in IF inSeen THEN Names ELSE {shell.input},
               output \in IF outSeen THEN Names ELSE {shell.output} :
              shell' = [shell EXCEPT !.pc = "open in", !.input = input,
                                     !.output = output, !.mode = mode]
    BY Zenon DEF Spawn
  <2>1. PICK inSeen \in BOOLEAN, outSeen \in BOOLEAN, mode \in {"write", "append"} :
          \E input  \in IF inSeen THEN Names ELSE {shell.input},
             output \in IF outSeen THEN Names ELSE {shell.output} :
            shell' = [shell EXCEPT !.pc = "open in", !.input = input, !.output = output, !.mode = mode]
    BY <2>0, Zenon
  <2> DEFINE I == IF inSeen THEN Names ELSE {shell.input}
             O == IF outSeen THEN Names ELSE {shell.output}
  <2>2. \E input \in I, output \in O :
          shell' = [shell EXCEPT !.pc = "open in", !.input = input, !.output = output, !.mode = mode]
    BY Zenon, <2>1
  <2>3. I \subseteq Names \cup {shell.input} /\ O \subseteq Names \cup {shell.output}
    OBVIOUS
  <2> HIDE DEF I, O
  <2>4. PICK input \in I, output \in O :
          shell' = [shell EXCEPT !.pc = "open in", !.input = input, !.output = output, !.mode = mode]
    BY <2>2
  <2> QED BY <2>3, <2>4
<1> PICK q : q = [Idle EXCEPT !.cmd = cmd, !.name = name]
  OBVIOUS
<1>4. q \in Progs /\ Ready(q) /\ q.pc = "start"
  <2> PICK idle : idle = Idle
    OBVIOUS
  <2>1. idle \in Progs /\ idle.pc = "start"
    BY IdleIs
  <2>2. q = [idle EXCEPT !.cmd = cmd, !.name = name]
    OBVIOUS
  <2>3. q \in Progs /\ q.pc = "start" /\ q.cmd = cmd /\ q.name = name
    BY <2>1, <2>2 DEF Progs
  <2> QED BY <2>3, <1>2 DEF Ready
<1>5. shell \in Shells /\ Core(sys) /\ Slots(sys) /\ Ends(sys, shell)
  BY <1>1, GoodFacts
<1>6. shell' \in Shells /\ shell'.pc = "open in"
  BY <1>3, <1>5 DEF Shells
<1>7. ~Duping(shell') /\ Keeps(sys, sys)
  BY <1>5, <1>6, SameSlots DEF Duping
<1>8. Good(sys, shell', prog)
  <2>1. \A r \in Programs : Closing(prog, r) => Spare(sys, prog[r].fd)
    BY <1>1, <1>7, ClosersKept
  <2>2. sys.slot[1] = 1 /\ AtEnd(sys, sys.slot[1])
    BY <1>1, <1>5 DEF Ends
  <2> QED BY <2>1, <2>2, <1>1, <1>5, <1>6, <1>7, ShellMoves
<1>9. Ends(sys, shell')
  BY <1>8, GoodFacts
<1>10. Good(sys, shell', prog')
  BY <1>2, <1>4, <1>5, <1>7, <1>8, <1>9, ProgramMoves
<1> QED BY <1>1, <1>5, <1>10, NothingFares DEF StepsTo

\* The f_open of a redirect.
LEMMA RedirectOpens ==
  ASSUME FInv, NEW x \in Names \cup {NoName}, NEW mode \in {"read", "append", "write"},
         NEW dup \in {"dup in", "dup out"}, dup = "dup out" => mode # "read",
         shell.pc \in {"open in", "open out"},
         NEW next \in Shells, next.pc \in {"open out", "reset"},
         OpenRedirect(x, mode, dup, next)
  PROVE  StepsTo(sys', shell', prog')
<1>1. /\ Good(sys, shell, prog) /\ prog' = prog /\ Core(sys) /\ Slots(sys) /\ Ends(sys, shell)
      /\ sys.slot \in [Fds -> Fds \cup {NoFd}]
  BY GoodFacts DEF FInv, OpenRedirect
<1>2. sys.slot[1] = 1
  BY <1>1 DEF Ends
<1>3. CASE x = NoName
  <2>1. shell' = next /\ sys' = sys
    BY <1>3 DEF OpenRedirect
  <2>2. ~Duping(next)
    BY DEF Duping
  <2>3. \A r \in Programs : Closing(prog, r) => Spare(sys, prog[r].fd)
    BY <1>1, SameSlots, ClosersKept
  <2>4. AtEnd(sys, sys.slot[1])
    BY <1>1 DEF Ends
  <2>5. Good(sys, next, prog)
    BY <1>1, <1>2, <2>2, <2>3, <2>4, ShellMoves
  <2> QED BY <1>1, <2>1, <2>5, NothingFares DEF StepsTo
<1>4. CASE x # NoName
  <2> PICK o : o = FOpen(sys, x, mode)
    OBVIOUS
  <2>1. sys' = o.sys /\ shell' = [next EXCEPT !.pc = dup, !.fd = o.fd]
    BY <1>4 DEF OpenRedirect
  <2>2. OpenedTo(sys, x, mode, o.sys, o.fd)
    BY <1>1, <1>4, FileIsOpened
  <2> PICK t : t = o.sys
    OBVIOUS
  <2> PICK fd : fd = o.fd
    OBVIOUS
  <2> PICK sh2 : sh2 = [next EXCEPT !.pc = dup, !.fd = fd]
    OBVIOUS
  <2>3. Core(t) /\ Used(t) = Used(sys) /\ Fares(sys, t)
    BY <2>2, OpenFares DEF OpenedTo
  <2>4. ASSUME fd \in Fds \cup {NoFd}
        PROVE  sh2 \in Shells /\ sh2.pc = dup /\ sh2.fd = fd
    BY <2>4 DEF Shells
  <2>5. CASE fd = Failed
    <3>1. t.slot = sys.slot /\ \A n \in Fds : AtEnd(sys, n) => AtEnd(t, n)
      BY <2>2, <2>5 DEF OpenedTo
    <3>2. sh2 \in Shells /\ sh2.pc = dup /\ sh2.fd = NoFd
      BY <2>4, <2>5 DEF Failed, NoFd
    <3>3. ~Duping(sh2) /\ sh2.pc # "reset"
      BY <3>2 DEF Duping
    <3>4. Keeps(sys, t) /\ Slots(t)
      BY <1>1, <3>1, SameSlots DEF Keeps
    <3>5. \A r \in Programs : Closing(prog, r) => Spare(t, prog[r].fd)
      BY <1>1, <3>4, ClosersKept
    <3>6. t.slot[1] = 1 /\ AtEnd(t, t.slot[1])
      BY <1>2, <2>3, <3>1, TerminalAtEnd, CoreFacts
    <3>7. Good(t, sh2, prog)
      BY <1>1, <2>3, <3>2, <3>3, <3>4, <3>5, <3>6, ShellMoves
    <3> QED BY <1>1, <2>1, <2>3, <3>7 DEF StepsTo
  <2>6. CASE fd # Failed
    <3>1. /\ fd \in Fds /\ fd >= MinFreeFd /\ sys.slot[fd] = NoFd
          /\ t.slot = [sys.slot EXCEPT ![fd] = fd]
          /\ mode # "read" => AtEnd(t, fd)
      BY <2>2, <2>6 DEF OpenedTo
    <3>2. OpenSlot(sys, fd, t)
      BY <1>1, <3>1, SlotOpened
    <3>3. sh2 \in Shells /\ sh2.pc = dup /\ sh2.fd = fd
      BY <2>4, <3>1
    <3>4. Good(t, sh2, prog)
      BY <1>1, <2>3, <3>1, <3>2, <3>3, ShellOpens
    <3> QED BY <1>1, <2>1, <2>3, <3>4 DEF StepsTo
  <2> QED BY <2>5, <2>6
<1> QED BY <1>3, <1>4

\* The f_dup2 of a redirect.
LEMMA RedirectDups ==
  ASSUME FreedIntact, FInv, NEW std \in {0, 1},
         NEW next \in Shells, DupRedirect(std, next),
         \/ std = 0 /\ std # 1 /\ shell.pc = "dup in" /\ next.pc = "open out"
         \/ std = 1 /\ std # 0 /\ shell.pc = "dup out" /\ next.pc = "reset"
  PROVE  StepsTo(sys', shell', prog')
<1>1. /\ Good(sys, shell, prog) /\ prog' = prog /\ shell' = next
      /\ Core(sys) /\ Slots(sys) /\ Ends(sys, shell) /\ ShellOwns(sys, shell)
      /\ ProgsOwn(sys, shell, prog) /\ shell \in Shells
      /\ sys.slot \in [Fds -> Fds \cup {NoFd}]
  BY GoodFacts DEF FInv, DupRedirect
<1>2. sys' = FDup2(sys, shell.fd, std, Intact)
  BY DEF DupRedirect, FreedIntact
<1>3. sys.slot[1] = 1 /\ ~Duping(next) /\ (next.pc # "reset" => std = 0)
  BY <1>1 DEF Ends, Duping
<1> PICK t : t = sys'
  OBVIOUS
<1>4. CASE shell.fd = NoFd
  <2>1. t = sys
    BY <1>2, <1>4 DEF FDup2, NoFd, Failed
  <2>2. \A r \in Programs : Closing(prog, r) => Spare(sys, prog[r].fd)
    BY <1>1, SameSlots, ClosersKept
  <2>3. AtEnd(sys, sys.slot[1])
    BY <1>1 DEF Ends
  <2>4. Good(sys, next, prog)
    BY <1>1, <1>3, <2>2, <2>3, ShellMoves
  <2> QED BY <1>1, <2>1, <2>4, NothingFares DEF StepsTo
<1>5. CASE shell.fd # NoFd
  <2>1. Duping(shell) /\ Spare(sys, shell.fd)
    BY <1>1, <1>5 DEF Duping, ShellOwns
  <2>2. std \in Fds /\ 0 \in Fds /\ 1 \in Fds /\ sys.slot[std] # shell.fd /\ Mine(sys, shell.fd)
        /\ shell.fd \in Fds /\ std < MinFreeFd
    <3>1. \A k \in {0, 1} : k < MinFreeFd
      BY ONLY DEF MinFreeFd
    <3>2. std < MinFreeFd
      BY <3>1
    <3> QED BY <2>1, <3>2, FdsHold DEF FdsAre, Spare, Mine
  <2>3. DupedOnto(sys, shell.fd, std, t)
    BY <1>1, <1>2, <2>2, FdDuped
  <2>4. /\ Core(t) /\ Used(t) = Used(sys) /\ t.slot = [sys.slot EXCEPT ![std] = shell.fd]
        /\ \A n \in Fds : AtEnd(sys, n) => AtEnd(t, n)
        /\ Fares(sys, t)
    BY <2>3, ClosesFares DEF DupedOnto
  <2>5. DupSlot(sys, shell.fd, std, t)
    <3> PICK old : old = shell.fd
      BY Zenon
    <3>1. Slots(sys) /\ sys.slot \in [Fds -> Fds \cup {NoFd}] /\ Spare(sys, old)
      BY <1>1, <2>1
    <3>2. \A g \in Fds : t.slot[g] = IF g = std THEN old ELSE sys.slot[g]
      BY <2>4, <3>1
    <3>3. DupSlot(sys, old, std, t)
      BY <3>1, <3>2, SlotDuped
    <3> QED BY <3>3, Zenon
  <2>6. /\ Slots(t) /\ t.slot[std] = shell.fd
        /\ \A k \in {0, 1} \ {std} : t.slot[k] = sys.slot[k]
        /\ \A g : Spare(sys, g) /\ g # shell.fd => Spare(t, g)
    BY <2>5 DEF DupSlot
  <2>7. \A r \in Programs : Closing(prog, r) => Spare(t, prog[r].fd)
    BY <1>1, <2>1, <2>6 DEF ProgsOwn
  <2>8. (next.pc # "reset" => t.slot[1] = 1) /\ AtEnd(t, t.slot[1])
    <3>1. (std = 0 => t.slot[1] = sys.slot[1]) /\ (std = 1 => t.slot[1] = shell.fd)
      <4> PICK slot : slot = sys.slot
        OBVIOUS
      <4>1. slot \in [Fds -> Fds \cup {NoFd}] /\ t.slot = [slot EXCEPT ![std] = shell.fd]
        BY <1>1, <2>4
      <4>2. \A k \in Fds : t.slot[k] = IF k = std THEN shell.fd ELSE slot[k]
        BY <2>2, <4>1
      <4>3. 1 \in Fds
        BY FdsHold DEF FdsAre
      <4>4. std = 0 => std # 1
        OBVIOUS
      <4> QED BY <4>2, <4>3, <4>4
    <3>2. CASE std = 0
      <4>1. t.slot[1] = 1
        BY <3>1, <3>2, <1>3
      <4> QED BY <4>1, <2>4, TerminalAtEnd, CoreFacts
    <3>3. CASE std = 1
      <4>0. std = 1 => std # 0
        OBVIOUS
      <4>1. shell.pc = "dup out" /\ next.pc = "reset"
        BY <3>3, <4>0
      <4>2. t.slot[1] = shell.fd
        BY <3>1, <3>3
      <4>3. AtEnd(sys, shell.fd)
        BY <4>1, <1>1, <2>1 DEF Ends
      <4> QED BY <4>1, <4>2, <4>3, <2>2, <2>4
    <3> QED BY <3>2, <3>3
  <2>9. Good(t, next, prog)
    BY <1>1, <1>3, <2>4, <2>6, <2>7, <2>8, ShellMoves
  <2> QED BY <1>1, <2>4, <2>9 DEF StepsTo
<1> QED BY <1>4, <1>5

LEMMA ShellSteps ==
  ASSUME FreedIntact, FInv, RedirectIn \/ RedirectOut \/ Prompt
  PROVE  StepsTo(sys', shell', prog')
<1>1. /\ Good(sys, shell, prog) /\ shell \in Shells /\ Core(sys) /\ Slots(sys)
      /\ ProgsOwn(sys, shell, prog) /\ sys.slot \in [Fds -> Fds \cup {NoFd}]
  BY GoodFacts DEF FInv
<1>2. /\ shell.input \in Names \cup {NoName} /\ shell.output \in Names \cup {NoName}
      /\ shell.mode \in {"write", "append"} /\ AtPrompt.mode = "write"
  BY <1>1 DEF Shells, AtPrompt
<1>3. CASE RedirectIn
  <2> PICK next : next = [shell EXCEPT !.pc = "open out", !.fd = NoFd]
    OBVIOUS
  <2>1. next \in Shells /\ next.pc = "open out"
    BY <1>1 DEF Shells
  <2>2. \/ shell.pc = "open in" /\ OpenRedirect(shell.input, "read", "dup in", next)
        \/ shell.pc = "dup in" /\ DupRedirect(0, next)
    BY <1>3 DEF RedirectIn
  <2>3. CASE shell.pc = "open in" /\ OpenRedirect(shell.input, "read", "dup in", next)
    BY <1>2, <2>1, <2>3, RedirectOpens
  <2>4. CASE shell.pc = "dup in" /\ DupRedirect(0, next)
    <3>1. 0 \in {0, 1} /\ 0 = 0 /\ 0 # 1
      OBVIOUS
    <3> QED BY <2>1, <2>4, <3>1, RedirectDups
  <2> QED BY <2>2, <2>3, <2>4
<1>4. CASE RedirectOut
  <2> PICK next : next = [shell EXCEPT !.pc = "reset", !.mode = AtPrompt.mode, !.fd = NoFd]
    OBVIOUS
  <2>1. next \in Shells /\ next.pc = "reset"
    BY <1>1, <1>2 DEF Shells
  <2>2. \/ shell.pc = "open out" /\ OpenRedirect(shell.output, shell.mode, "dup out", next)
        \/ shell.pc = "dup out" /\ DupRedirect(1, next)
    BY <1>4 DEF RedirectOut
  <2>3. CASE shell.pc = "open out" /\ OpenRedirect(shell.output, shell.mode, "dup out", next)
    <3> PICK mode : mode = shell.mode
      OBVIOUS
    <3> PICK x : x = shell.output
      OBVIOUS
    <3>1. mode \in {"read", "append", "write"} /\ mode # "read" /\ x \in Names \cup {NoName}
      BY <1>2
    <3>2. OpenRedirect(x, mode, "dup out", next)
      BY <2>3
    <3> QED BY <2>1, <2>3, <3>1, <3>2, RedirectOpens
  <2>4. CASE shell.pc = "dup out" /\ DupRedirect(1, next)
    <3>1. 1 \in {0, 1} /\ 1 = 1 /\ 1 # 0
      OBVIOUS
    <3> QED BY <2>1, <2>4, <3>1, RedirectDups
  <2> QED BY <2>2, <2>3, <2>4
<1>5. CASE Prompt
  <2>1. sys' = FDupReset(sys, Intact) /\ shell' = [shell EXCEPT !.pc = "prompt"] /\ prog' = prog
    BY <1>5 DEF Prompt, FreedIntact
  <2> PICK t : t = sys'
    OBVIOUS
  <2>2. ResetFrom(sys, t)
    BY <1>1, <2>1, FdsReset
  <2>3. /\ Core(t) /\ Used(t) = Used(sys) /\ Fares(sys, t)
        /\ t.slot = [fd \in Fds |-> IF fd \in Std THEN fd ELSE sys.slot[fd]]
    BY <2>2, ClosesFares DEF ResetFrom
  <2>4. /\ Slots(t) /\ t.slot[0] = 0 /\ t.slot[1] = 1
        /\ \A g \in Fds : g >= MinFreeFd => t.slot[g] = sys.slot[g]
    <3>1. \A fd \in Fds : fd >= MinFreeFd => sys.slot[fd] \in {NoFd, fd}
      BY <1>1 DEF Slots
    <3> QED BY <2>3, <3>1, SlotsReset
  <2>5. \A g : Spare(sys, g) => Spare(t, g)
    <3> SUFFICES ASSUME NEW g, Mine(sys, g) PROVE Spare(t, g)
      BY DEF Spare
    <3>1. g \in Fds /\ g >= MinFreeFd /\ sys.slot[g] = g /\ g # 0 /\ g # 1
      BY <1>1, SlotFacts
    <3> QED BY <3>1, <2>4 DEF Spare, Mine
  <2>6. \A r \in Programs : Closing(prog, r) => Spare(t, prog[r].fd)
    BY <1>1, <2>5 DEF ProgsOwn
  <2>7. shell' \in Shells /\ ~Duping(shell')
    <3>1. shell' \in Shells /\ shell'.pc = "prompt"
      BY <1>1, <2>1 DEF Shells
    <3> QED BY <3>1 DEF Duping
  <2>8. AtEnd(t, t.slot[1])
    BY <2>3, <2>4, TerminalAtEnd, CoreFacts
  <2>9. Good(t, shell', prog)
    BY <1>1, <2>3, <2>4, <2>6, <2>7, <2>8, ShellMoves
  <2> QED BY <2>1, <2>3, <2>9 DEF StepsTo
<1> QED BY <1>3, <1>4, <1>5

\* A program goes on after a call that moved no descriptor.
LEMMA ProgramSteps ==
  ASSUME FInv, NEW p \in Programs, NEW t, Core(t), Used(t) = Used(sys), Fares(sys, t),
         t.slot = sys.slot,
         \A n \in Fds : n = sys.slot[1] \/ (Duping(shell) /\ n = shell.fd)
                          => (AtEnd(sys, n) => AtEnd(t, n)),
         NEW q \in Progs, Ready(q), q.pc # "close"
  PROVE  StepsTo(t, shell, [prog EXCEPT ![p] = q])
<1>1. Good(sys, shell, prog) /\ Slots(sys)
  BY GoodFacts DEF FInv
<1>2. Keeps(sys, t)
  BY <1>1, SameSlots
<1>3. Ends(t, shell)
  BY <1>1, EndsStay
<1>4. Good(t, shell, [prog EXCEPT ![p] = q])
  BY <1>1, <1>2, <1>3, ProgramMoves
<1> QED BY <1>4 DEF StepsTo

LEMMA TouchOpenSteps ==
  ASSUME FInv, NEW p \in Programs, TouchOpen(p)
  PROVE  StepsTo(sys', shell', prog')
<1>1. /\ Good(sys, shell, prog) /\ Core(sys) /\ Slots(sys) /\ Ends(sys, shell)
      /\ ShellOwns(sys, shell) /\ prog[p] \in Progs /\ Typed(shell, prog)
      /\ sys.slot \in [Fds -> Fds \cup {NoFd}]
  BY GoodFacts DEF FInv
<1> PICK x : x = prog[p].name
  OBVIOUS
<1>2. x \in Names /\ prog[p].cmd = "touch" /\ shell' = shell
  BY <1>1 DEF TouchOpen, Typed, Ready
<1> PICK o : o = FOpen(sys, x, "append")
  OBVIOUS
<1> PICK t : t = o.sys
  OBVIOUS
<1> PICK fd : fd = o.fd
  OBVIOUS
<1>3. /\ sys' = t
      /\ prog' = [prog EXCEPT ![p] = IF fd = Failed THEN Idle
                                     ELSE [prog[p] EXCEPT !.pc = "close", !.fd = fd]]
  BY DEF TouchOpen
<1>4. OpenedTo(sys, x, "append", t, fd)
  BY <1>1, <1>2, FileIsOpened
<1>5. Core(t) /\ Used(t) = Used(sys) /\ Fares(sys, t)
  BY <1>4, OpenFares DEF OpenedTo
<1>6. CASE fd = Failed
  <2>1. t.slot = sys.slot /\ \A n \in Fds : AtEnd(sys, n) => AtEnd(t, n)
    BY <1>4, <1>6 DEF OpenedTo
  <2>2. StepsTo(t, shell, [prog EXCEPT ![p] = Idle])
    BY <1>5, <2>1, IdleIs, ProgramSteps
  <2> QED BY <1>2, <1>3, <1>6, <2>2
<1>7. CASE fd # Failed
  <2>1. /\ fd \in Fds /\ fd >= MinFreeFd /\ sys.slot[fd] = NoFd
        /\ t.slot = [sys.slot EXCEPT ![fd] = fd]
        /\ \A n \in Fds \ {fd} : AtEnd(sys, n) => AtEnd(t, n)
    BY <1>4, <1>7 DEF OpenedTo
  <2>2. OpenSlot(sys, fd, t)
    BY <1>1, <2>1, SlotOpened
  <2> PICK q : q = [prog[p] EXCEPT !.pc = "close", !.fd = fd]
    OBVIOUS
  <2>3. q \in Progs /\ q.fd = fd /\ q.pc = "close" /\ q.cmd = "touch" /\ q.name = x
    BY <1>1, <1>2, <2>1 DEF Progs
  <2>4. Ready(q)
    BY <1>2, <2>3 DEF Ready
  <2>5. sys.slot[1] # fd /\ (Duping(shell) => shell.fd # fd) /\ t.slot[1] = sys.slot[1]
    <3>1. sys.slot[1] = 1 \/ Mine(sys, sys.slot[1])
      BY <1>1 DEF Slots
    <3>2. fd # 1
      BY <2>1 DEF MinFreeFd
    <3> QED BY <1>1, <2>2, <3>1, <3>2 DEF OpenSlot, Keeps, ShellOwns, Spare
  <2>6. Ends(t, shell)
    BY <1>1, <2>1, <2>5, EndsStay
  <2>7. prog' = [prog EXCEPT ![p] = q]
    BY <1>3, <1>7
  <2>8. Good(t, shell, prog')
    BY <1>1, <1>5, <2>2, <2>3, <2>4, <2>6, <2>7, ProgramOpens
  <2> QED BY <1>2, <1>3, <1>5, <2>8 DEF StepsTo
<1> QED BY <1>6, <1>7

LEMMA TouchCloseSteps ==
  ASSUME FreedIntact, FInv, NEW p \in Programs, TouchClose(p)
  PROVE  StepsTo(sys', shell', prog')
<1>1. /\ Good(sys, shell, prog) /\ Core(sys) /\ Slots(sys) /\ ProgsOwn(sys, shell, prog)
      /\ sys.slot \in [Fds -> Fds \cup {NoFd}]
  BY GoodFacts DEF FInv
<1> PICK fd : fd = prog[p].fd
  OBVIOUS
<1>2. Closing(prog, p) /\ shell' = shell /\ prog' = [prog EXCEPT ![p] = Idle]
      /\ sys' = FClose(sys, fd, Intact)
  BY DEF TouchClose, Closing, FreedIntact
<1>3. Spare(sys, fd)
  BY <1>1, <1>2 DEF ProgsOwn
<1>4. fd \in Fds
  BY <1>3 DEF Spare, Mine
<1> PICK t : t = sys'
  OBVIOUS
<1>5. ClosedAs(sys, fd, t)
  BY <1>1, <1>2, <1>4, FileClosed
<1>6. /\ Core(t) /\ Used(t) = Used(sys) /\ t.slot = [sys.slot EXCEPT ![fd] = NoFd]
      /\ \A n \in Fds : AtEnd(sys, n) => AtEnd(t, n)
      /\ Fares(sys, t)
  BY <1>5, ClosesFares DEF ClosedAs
<1>7. CloseSlot(sys, fd, t)
  BY <1>1, <1>3, <1>6, SlotClosed
<1>8. t.slot[1] = sys.slot[1]
  BY <1>7 DEF CloseSlot
<1>9. Ends(t, shell)
  BY <1>1, <1>6, <1>8, EndsStay
<1>10. Good(t, shell, prog')
  BY <1>1, <1>2, <1>6, <1>7, <1>9, IdleIs, ProgramCloses
<1> QED BY <1>2, <1>6, <1>10 DEF StepsTo

LEMMA RmSteps ==
  ASSUME FreedIntact, FInv, NEW p \in Programs, Rm(p)
  PROVE  StepsTo(sys', shell', prog')
<1>1. /\ Core(sys) /\ prog[p] \in Progs /\ Typed(shell, prog)
  BY GoodFacts DEF FInv
<1> PICK x : x = prog[p].name
  OBVIOUS
<1>2. /\ x \in Names /\ shell' = shell /\ prog' = [prog EXCEPT ![p] = Idle]
      /\ sys' = FUnlink(sys, x, Intact)
  BY <1>1 DEF Rm, Typed, Ready, FreedIntact
<1> PICK t : t = sys'
  OBVIOUS
<1>3. Unmoved(sys, t)
  BY <1>1, <1>2, FileUnlinked
<1>4. StepsTo(t, shell, [prog EXCEPT ![p] = Idle])
  BY <1>3, IdleIs, ProgramSteps DEF Unmoved
<1> QED BY <1>2, <1>4

LEMMA ReadableIs ==
  ASSUME NEW s, Core(s), NEW fd \in Fds, s.slot[fd] \in Fds, FileOf(s, fd) # 0
  PROVE  Readable(s, fd) \in 0..BufferSize
<1> PICK f : f = s.files[FileOf(s, fd)]
  OBVIOUS
<1> PICK cursor : cursor = s.node[s.slot[fd]].cursor
  OBVIOUS
<1>1. /\ Len(s.files) \in Nat /\ Places(s) = 1..Len(s.files)
      /\ \A i \in Places(s) : s.files[i] \in File
      /\ s.node \in [Fds -> Node]
  BY CoreFacts
<1>2. f \in File
  BY <1>1, FindIs DEF FileOf
<1>3. f.size \in Nat
  BY <1>2 DEF File
<1>4. cursor \in Nat
  BY <1>1 DEF Node
<1> PICK left : left = f.size - cursor
  OBVIOUS
<1>5. left \in Int /\ BufferSize \in Nat
  BY <1>3, <1>4, SizeAssumption
<1>6. Readable(s, fd) = Min({BufferSize, Max({0, left})})
  BY DEF Readable
<1>7. Max({0, left}) = IF 0 >= left THEN 0 ELSE left
  BY <1>5, MaxOfTwo
<1> PICK m : m = Max({0, left})
  OBVIOUS
<1>8. m \in Nat
  BY <1>5, <1>7
<1>9. Min({BufferSize, m}) = IF BufferSize <= m THEN BufferSize ELSE m
  <2>1. BufferSize \in Int /\ m \in Int
    BY <1>5, <1>8
  <2> QED BY <2>1, MinOfTwo
<1>10. Min({BufferSize, m}) \in 0..BufferSize
  BY <1>5, <1>8, <1>9
<1> QED BY <1>6, <1>10

LEMMA CatReadSteps ==
  ASSUME FInv, NEW p \in Programs, CatRead(p)
  PROVE  StepsTo(sys', shell', prog')
<1>1. /\ Good(sys, shell, prog) /\ Core(sys) /\ Slots(sys) /\ ShellOwns(sys, shell)
      /\ prog[p] \in Progs /\ sys.slot[0] \in Fds
  BY GoodFacts DEF FInv
<1>2. PICK n \in IF FileOf(sys, 0) = 0 THEN {0} \cup Lengths ELSE {Readable(sys, 0)} :
         /\ sys' = IF FileOf(sys, 0) = 0 THEN sys ELSE Advance(sys, 0, n)
         /\ prog' = [prog EXCEPT ![p] = IF n = 0 THEN Idle
                                        ELSE [prog[p] EXCEPT !.pc = "write", !.buf = n]]
  BY DEF CatRead
<1>3. prog[p].cmd = "cat" /\ shell' = shell
  BY DEF CatRead
<1>4. 0 \in Fds
  BY FdsHold DEF FdsAre
<1>5. n \in 0..BufferSize
  <2>1. CASE FileOf(sys, 0) = 0
    BY <2>1, <1>2, SizeAssumption
  <2>2. CASE FileOf(sys, 0) # 0
    BY <2>2, <1>1, <1>2, <1>4, ReadableIs
  <2> QED BY <2>1, <2>2
<1> PICK t : t = sys'
  OBVIOUS
<1> PICK k : k = sys.slot[0]
  OBVIOUS
<1>6. MovesOne(sys, k, t)
  <2>1. CASE FileOf(sys, 0) = 0
    <3>1. t = sys
      BY <2>1, <1>2
    <3> QED BY <3>1, <1>1, ClosesNothing, ClosesFares DEF MovesOne
  <2>2. CASE FileOf(sys, 0) # 0
    <3>1. t = Advance(sys, 0, n) /\ n \in Nat
      BY <2>2, <1>2, <1>5
    <3> QED BY <3>1, <1>1, <1>4, Advanced
  <2> QED BY <2>1, <2>2
<1>7. /\ Core(t) /\ Used(t) = Used(sys) /\ Fares(sys, t) /\ t.slot = sys.slot
      /\ \A j \in Fds \ {k} : AtEnd(sys, j) => AtEnd(t, j)
  BY <1>6 DEF MovesOne
<1>8. k # sys.slot[1] /\ (Duping(shell) => k # shell.fd)
  BY <1>1 DEF Slots, ShellOwns, Spare
<1>9. \A j \in Fds : j = sys.slot[1] \/ (Duping(shell) /\ j = shell.fd) => (AtEnd(sys, j) => AtEnd(t, j))
  BY <1>7, <1>8
<1>10. CASE n = 0
  <2>1. prog' = [prog EXCEPT ![p] = Idle]
    BY <1>2, <1>10
  <2>2. StepsTo(t, shell, [prog EXCEPT ![p] = Idle])
    BY <1>7, <1>9, IdleIs, ProgramSteps
  <2> QED BY <1>3, <2>1, <2>2
<1>11. CASE n # 0
  <2> PICK q : q = [prog[p] EXCEPT !.pc = "write", !.buf = n]
    OBVIOUS
  <2>1. prog' = [prog EXCEPT ![p] = q]
    BY <1>2, <1>11
  <2>2. q \in Progs /\ q.pc = "write" /\ q.buf = n /\ q.cmd = "cat"
    BY <1>1, <1>3, <1>5 DEF Progs
  <2>3. Ready(q) /\ q.pc # "close"
    BY <1>5, <1>11, <2>2 DEF Ready
  <2>4. StepsTo(t, shell, [prog EXCEPT ![p] = q])
    BY <1>7, <1>9, <2>2, <2>3, ProgramSteps
  <2> QED BY <1>3, <2>1, <2>4
<1> QED BY <1>10, <1>11

\* What a write to stdout leaves, for the program that makes it.
LEMMA WriteSteps ==
  ASSUME FInv, NEW p \in Programs, NEW n \in Nat \ {0}, NEW t, t = FWrite(sys, 1, n).sys,
         NEW q \in Progs, Ready(q), q.pc # "close"
  PROVE  StepsTo(t, shell, [prog EXCEPT ![p] = q])
<1>1. /\ Good(sys, shell, prog) /\ Core(sys) /\ Slots(sys) /\ Ends(sys, shell)
      /\ sys.slot[1] \in Fds
  BY GoodFacts DEF FInv
<1> PICK k : k = sys.slot[1]
  OBVIOUS
<1>2. 1 \in Fds
  BY FdsHold DEF FdsAre
<1>3. AtEnd(sys, k)
  BY <1>1 DEF Ends
<1>4. WritesOne(sys, k, t)
  BY <1>1, <1>2, <1>3, FileAppended
<1>5. /\ Core(t) /\ Used(t) = Used(sys) /\ Fares(sys, t) /\ t.slot = sys.slot /\ AtEnd(t, k)
      /\ (sys.node[k].name = NoName => t = sys)
  BY <1>4 DEF WritesOne
<1>6. \A j \in Fds : j = sys.slot[1] \/ (Duping(shell) /\ j = shell.fd) => (AtEnd(sys, j) => AtEnd(t, j))
  <2>1. CASE Duping(shell)
    <3>1. k = 1
      BY <2>1, <1>1 DEF Ends, Duping
    <3>2. sys.node[1].name = NoName
      BY <1>1, TerminalAtEnd, CoreFacts
    <3> QED BY <3>1, <3>2, <1>5
  <2>2. CASE ~Duping(shell)
    BY <2>2, <1>5
  <2> QED BY <2>1, <2>2
<1> QED BY <1>5, <1>6, ProgramSteps

LEMMA CatWriteSteps ==
  ASSUME FInv, NEW p \in Programs, CatWrite(p)
  PROVE  StepsTo(sys', shell', prog')
<1>1. prog[p] \in Progs /\ Typed(shell, prog)
  BY GoodFacts DEF FInv
<1> PICK n : n = prog[p].buf
  OBVIOUS
<1> PICK w : w = FWrite(sys, 1, n)
  OBVIOUS
<1>2. /\ prog[p].cmd = "cat" /\ prog[p].pc = "write" /\ shell' = shell /\ sys' = w.sys
      /\ prog' = [prog EXCEPT ![p] = IF w.done = Failed THEN Idle
                                     ELSE [prog[p] EXCEPT !.pc = "start", !.buf = 0]]
  BY DEF CatWrite
<1>3. n \in Nat \ {0}
  <2>1. n \in 0..BufferSize /\ n >= 1
    BY <1>1, <1>2 DEF Progs, Typed, Ready
  <2> QED BY <2>1, SizeAssumption
<1> PICK t : t = w.sys
  OBVIOUS
<1>4. CASE w.done = Failed
  <2>1. StepsTo(t, shell, [prog EXCEPT ![p] = Idle])
    BY <1>3, IdleIs, WriteSteps
  <2> QED BY <2>1, <1>2, <1>4
<1>5. CASE w.done # Failed
  <2> PICK q : q = [prog[p] EXCEPT !.pc = "start", !.buf = 0]
    OBVIOUS
  <2>1. 0 \in 0..BufferSize
    BY SizeAssumption
  <2>2. q \in Progs /\ q.pc = "start" /\ q.cmd = "cat"
    BY <1>1, <1>2, <2>1 DEF Progs
  <2>3. Ready(q) /\ q.pc # "close"
    BY <2>2 DEF Ready
  <2>4. StepsTo(t, shell, [prog EXCEPT ![p] = q])
    BY <1>3, <2>2, <2>3, WriteSteps
  <2>5. prog' = [prog EXCEPT ![p] = q]
    BY <1>2, <1>5
  <2> QED BY <2>4, <2>5, <1>2
<1> QED BY <1>4, <1>5

LEMMA LsWriteSteps ==
  ASSUME FInv, NEW p \in Programs, LsWrite(p)
  PROVE  StepsTo(sys', shell', prog')
<1>1. prog[p] \in Progs /\ Typed(shell, prog) /\ prog \in [Programs -> Progs]
  BY GoodFacts DEF FInv
<1>2. PICK n \in Lengths : sys' = FWrite(sys, 1, n).sys
  BY DEF LsWrite
<1>3. /\ prog[p].cmd = "ls" /\ shell' = shell
      /\ prog' = prog \/ prog' = [prog EXCEPT ![p] = Idle]
  BY DEF LsWrite
<1>4. n \in Nat \ {0}
  BY SizeAssumption
<1> PICK t : t = sys'
  OBVIOUS
<1>5. StepsTo(t, shell, [prog EXCEPT ![p] = Idle])
  BY <1>2, <1>4, IdleIs, WriteSteps
<1> PICK q : q = prog[p]
  OBVIOUS
<1>6. q \in Progs /\ Ready(q)
  BY <1>1 DEF Typed
<1>7. q.pc # "close"
  BY <1>3, <1>6 DEF Ready
<1>8. StepsTo(t, shell, [prog EXCEPT ![p] = q])
  BY <1>2, <1>4, <1>6, <1>7, WriteSteps
<1>9. [prog EXCEPT ![p] = q] = prog
  BY <1>1
<1> QED BY <1>3, <1>5, <1>8, <1>9

LEMMA KillSteps ==
  ASSUME FInv, NEW p \in Programs, Kill(p)
  PROVE  StepsTo(sys', shell', prog')
<1>1. Core(sys)
  BY GoodFacts DEF FInv
<1>2. sys' = sys /\ shell' = shell /\ prog' = [prog EXCEPT ![p] = Idle]
  BY DEF Kill
<1>3. StepsTo(sys, shell, [prog EXCEPT ![p] = Idle])
  BY <1>1, IdleIs, ProgramSteps, NothingFares
<1> QED BY <1>2, <1>3

\* A table just initialized, the shell at its prompt and no program.
LEMMA FreshGood ==
  ASSUME NEW t, Core(t), t.slot = [fd \in Fds |-> IF fd \in Std THEN fd ELSE NoFd]
  PROVE  Good(t, AtPrompt, [p \in Programs |-> Idle])
<1> PICK slot : slot = [fd \in Fds |-> NoFd]
  OBVIOUS
<1>1. t.slot = [fd \in Fds |-> IF fd \in Std THEN fd ELSE slot[fd]]
  OBVIOUS
<1>2. Slots(t) /\ t.slot[0] = 0 /\ t.slot[1] = 1
  BY <1>1, SlotsReset
<1>3. AtEnd(t, 1)
  BY CoreFacts, TerminalAtEnd
<1> PICK pr : pr = [p \in Programs |-> Idle]
  OBVIOUS
<1>4. Typed(AtPrompt, pr)
  BY IdleIs DEF Typed
<1>5. \A p \in Programs : ~ Closing(pr, p)
  BY IdleIs DEF Closing
<1>6. ShellOwns(t, AtPrompt) /\ ProgsOwn(t, AtPrompt, pr)
  BY <1>5, IdleIs DEF ShellOwns, ProgsOwn
<1>7. Ends(t, AtPrompt)
  BY <1>2, <1>3, IdleIs DEF Ends
<1> QED BY <1>2, <1>4, <1>6, <1>7 DEF Good

LEMMA InitGood ==
  ASSUME Init
  PROVE  FInv
<1> PICK t : t = sys
  OBVIOUS
<1>1. t = Mounted(EmptyDisk) /\ shell = AtPrompt /\ prog = [p \in Programs |-> Idle]
  BY DEF Init
<1>2. Core(t) /\ t.slot = [fd \in Fds |-> IF fd \in Std THEN fd ELSE NoFd]
  BY <1>1, MadeAndMounted DEF FirstState
<1>3. Good(t, AtPrompt, [p \in Programs |-> Idle])
  BY <1>2, FreshGood
<1> QED BY <1>1, <1>3 DEF FInv

\* What every step gives: the invariant, no block of a recorded disk lost, and
\* the files as a call or a restart leaves them.
Steps(t, next, nextProg) ==
  /\ Good(t, next, nextProg)
  /\ Recorded(sys) => Used(t) = Used(sys)
  /\ Fares(sys, t) \/ t = Mounted(sys)

LEMMA RestartSteps ==
  ASSUME FInv, Restart
  PROVE  Steps(sys', shell', prog')
<1> PICK t : t = sys'
  OBVIOUS
<1>1. t = Mounted(sys) /\ shell' = AtPrompt /\ prog' = [p \in Programs |-> Idle]
  BY DEF Restart
<1>2. Core(sys)
  BY GoodFacts DEF FInv
<1>3. MountedCore(sys, t)
  BY <1>1, <1>2, RemountedCore
<1>4. /\ Core(t) /\ (Recorded(sys) => Used(t) = Used(sys))
      /\ t.slot = [fd \in Fds |-> IF fd \in Std THEN fd ELSE NoFd]
  BY <1>3 DEF MountedCore
<1>5. Good(t, AtPrompt, [p \in Programs |-> Idle])
  BY <1>4, FreshGood
<1> QED BY <1>1, <1>4, <1>5 DEF Steps

LEMMA NextGood ==
  ASSUME FreedIntact, FInv, [Next]_vars
  PROVE  Steps(sys', shell', prog')
<1>1. ASSUME StepsTo(sys', shell', prog')
      PROVE  Steps(sys', shell', prog')
  BY <1>1 DEF StepsTo, Steps
<1>2. ASSUME NEW p \in Programs, Spawn(p)
      PROVE  Steps(sys', shell', prog')
  BY <1>1, <1>2, SpawnSteps
<1>3. ASSUME NEW p \in Programs, ProgramStep(p)
      PROVE  Steps(sys', shell', prog')
  <2>1. CASE TouchOpen(p)
    BY <1>1, <2>1, TouchOpenSteps
  <2>2. CASE TouchClose(p)
    BY <1>1, <2>2, TouchCloseSteps
  <2>3. CASE Rm(p)
    BY <1>1, <2>3, RmSteps
  <2>4. CASE CatRead(p)
    BY <1>1, <2>4, CatReadSteps
  <2>5. CASE CatWrite(p)
    BY <1>1, <2>5, CatWriteSteps
  <2>6. CASE LsWrite(p)
    BY <1>1, <2>6, LsWriteSteps
  <2>7. CASE Kill(p)
    BY <1>1, <2>7, KillSteps
  <2> QED BY <1>3, <2>1, <2>2, <2>3, <2>4, <2>5, <2>6, <2>7 DEF ProgramStep
<1>4. CASE RedirectIn \/ RedirectOut \/ Prompt
  BY <1>1, <1>4, ShellSteps
<1>5. CASE Restart
  BY <1>5, RestartSteps
<1>6. CASE UNCHANGED vars
  <2>1. sys' = sys /\ shell' = shell /\ prog' = prog
    BY <1>6 DEF vars
  <2>2. Steps(sys, shell, prog)
    BY GoodFacts, NothingFares DEF FInv, Steps
  <2> QED BY <2>1, <2>2
<1> QED BY <1>2, <1>3, <1>4, <1>5, <1>6 DEF Next
-----------------------------------------------------------------------------
(***************************************************************************)
(* What the invariant says of the files, of the disk and of the            *)
(* descriptors.                                                            *)
(***************************************************************************)
LEMMA CoreHolds ==
  ASSUME FInv
  PROVE  Core(sys) /\ Body(sys, Starts(sys)) /\ Agrees(sys)
BY GoodFacts, CoreFacts DEF FInv, Sound

LEMMA TypesHold == FInv => FTypeOK
<1> SUFFICES ASSUME FInv PROVE FTypeOK
  OBVIOUS
<1>1. /\ sys \in Systems /\ sys.dirSize <= MaxDirSize /\ shell \in Shells
      /\ prog \in [Programs -> Progs] /\ \A i \in Places(sys) : sys.files[i] \in File
  BY CoreHolds, GoodFacts, CoreFacts DEF FInv, Agrees
<1>2. /\ sys.fat \in [Blocks -> Blocks] /\ sys.dirSize \in Nat
      /\ sys.slot \in [Fds -> Fds \cup {NoFd}] /\ sys.node \in [Fds -> Node]
  BY <1>1 DEF Systems, Fats
<1>3. sys.dirSize \in 0..MaxDirSize
  BY <1>1, <1>2, MaxDirSizeIs
<1>4. \A i \in Places(sys) :
         sys.files[i] \in [name : Names, size : Nat, open : Nat,
                           start : Blocks \ {DirBlock}, marked : BOOLEAN]
  BY <1>1 DEF File
<1>5. shell.fd \in Fds \cup {NoFd}
  BY <1>1 DEF Shells
<1>6. \A p \in Programs : prog[p].buf \in 0..BufferSize
  BY <1>1 DEF Progs
<1> QED BY <1>2, <1>3, <1>4, <1>5, <1>6 DEF FTypeOK, Node

LEMMA ChainsAreApart == FInv => ChainsApart
<1> SUFFICES ASSUME FInv PROVE ChainsApart
  OBVIOUS
<1> DEFINE S == Starts(sys)
<1>1. /\ Apart(sys.fat, S) /\ Distinct(sys.files) /\ Places(sys) = 1..Len(sys.files)
      /\ \A i \in Places(sys) : sys.files[i].start \in S \ {DirBlock}
  BY CoreHolds, BodyFacts
<1> HIDE DEF S
<1>2. DirBlock \in S /\ Chain(sys.fat, DirBlock) \cap FreeBlocks(sys.fat) = {}
      /\ \A s, t \in S : s # t => Chain(sys.fat, s) \cap Chain(sys.fat, t) = {}
  BY <1>1 DEF Apart
<1>3. \A s \in S : Chain(sys.fat, s) \cap FreeBlocks(sys.fat) = {}
  BY <1>1, NoneIsFree
<1>4. \A i \in Places(sys), j \in Places(sys) : i # j => sys.files[i].start # sys.files[j].start
  BY <1>1 DEF Distinct
<1> QED BY <1>1, <1>2, <1>3, <1>4 DEF ChainsApart, BlocksOf

LEMMA SizesAreHeld == FInv => ChainsHoldSize
BY CoreHolds DEF Body, Size, ChainsHoldSize, BlocksOf

LEMMA DiskIsRecorded == FInv => RecordedUnlessFull
<1> SUFFICES ASSUME FInv PROVE RecordedUnlessFull
  OBVIOUS
<1> PICK m : m = sys.dirSize \div EntrySize
  OBVIOUS
<1> PICK list : list = LoadFileList(sys)
  OBVIOUS
<1>1. Sound(sys) /\ Agrees(sys)
  BY CoreHolds DEF Sound
<1>2. \A i \in 1..m : /\ i \in Places(sys)
                      /\ list[i].name = sys.files[i].name /\ list[i].size = sys.files[i].size
                      /\ list[i].start = sys.files[i].start
  BY <1>1, Loaded
<1>3. \A i \in 1..m : i \in Places(sys) /\ OnDisk(list[i]) = OnDisk(sys.files[i])
  BY <1>2 DEF OnDisk
<1>4. Recorded(sys) \/ FreeBlocks(sys.fat) = {}
  BY <1>1 DEF Agrees
<1> QED BY <1>3, <1>4 DEF RecordedUnlessFull

LEMMA FilesAreHeld == FInv => OpenFilesStay
<1> SUFFICES ASSUME FInv, NEW n \in Fds, sys.node[n].live, sys.node[n].name # NoName
             PROVE  \E i \in Places(sys) :
                      /\ sys.files[i].name = sys.node[n].name
                      /\ Cardinality(Holders(sys, sys.node[n].name)) <= sys.files[i].open
  BY DEF OpenFilesStay
<1> PICK x : x = sys.node[n].name
  OBVIOUS
<1>1. Core(sys) /\ Held(sys) /\ sys.node \in [Fds -> Node] /\ Places(sys) = 1..Len(sys.files)
      /\ Len(sys.files) \in Nat
  BY CoreHolds, CoreFacts
<1>2. x \in Names
  BY <1>1 DEF Node
<1>3. Cardinality(Holders(sys, x)) <= Named(sys, x).open
  BY <1>1, <1>2 DEF Held
<1>4. n \in Holders(sys, x)
  BY DEF Holders
<1>5. Cardinality(Holders(sys, x)) >= 1
  BY <1>4, HoldersCount, FS_EmptySet
<1>6. Named(sys, x).open # 0
  BY <1>3, <1>5, HoldersCount
<1>7. FindFile(sys, x) # 0
  BY <1>6 DEF Named, NoFile
<1>8. FindFile(sys, x) \in Places(sys) /\ sys.files[FindFile(sys, x)].name = x
  BY <1>1, <1>7, FindIs
<1>9. Named(sys, x) = sys.files[FindFile(sys, x)]
  BY <1>7 DEF Named
<1> QED BY <1>3, <1>8, <1>9

LEMMA StdoutIsAtEnd == FInv => WritesAtEnd
<1> SUFFICES ASSUME FInv, FileOf(sys, 1) # 0
             PROVE  sys.node[sys.slot[1]].cursor = sys.files[FileOf(sys, 1)].size
  BY DEF WritesAtEnd
<1> PICK k : k = sys.slot[1]
  OBVIOUS
<1> PICK x : x = sys.node[k].name
  OBVIOUS
<1>1. /\ Core(sys) /\ AtEnd(sys, k) /\ Len(sys.files) \in Nat
      /\ Places(sys) = 1..Len(sys.files) /\ \A i \in Places(sys) : sys.files[i] \in File
  BY CoreHolds, CoreFacts, GoodFacts DEF FInv, Ends
<1>2. FileOf(sys, 1) = FindFile(sys, x)
  BY DEF FileOf
<1>3. FindFile(sys, x) \in Places(sys) /\ sys.files[FindFile(sys, x)].name = x
  BY <1>1, <1>2, FindIs
<1>4. x \in Names
  BY <1>1, <1>3 DEF File
<1>5. Named(sys, x) = sys.files[FindFile(sys, x)]
  BY <1>2 DEF Named
<1> QED BY <1>1, <1>2, <1>4, <1>5 DEF AtEnd

LEMMA NoBlockLost ==
  ASSUME FreedIntact, FInv, [Next]_vars
  PROVE  Recorded(sys) => Unowned(sys') \subseteq Unowned(sys)
<1> SUFFICES ASSUME Recorded(sys) PROVE Unowned(sys') \subseteq Unowned(sys)
  OBVIOUS
<1> PICK t : t = sys'
  OBVIOUS
<1>1. Used(t) = Used(sys)
  BY NextGood DEF Steps
<1>2. /\ \A b : b \in Unowned(sys) <=> b \in Blocks /\ b \notin Used(sys)
      /\ \A b : b \in Unowned(t) <=> b \in Blocks /\ b \notin Used(t)
  BY DEF Unowned, Used
<1> QED BY <1>1, <1>2
-----------------------------------------------------------------------------
(***************************************************************************)
(* What a file is and has on disk, as Files sees it.                       *)
(***************************************************************************)
SizeOf(s, x)  == IF Listed(s, x) THEN Length(s, x) ELSE Absent
SavedOf(s, x) == IF OnRecord(s, x) THEN Length(s, x) ELSE Absent

\* Of a list whose names are distinct, the file of a name is the one chosen.
LEMMA SizeIn ==
  ASSUME NEW list, NEW x \in Names
  PROVE  /\ \A i \in DOMAIN list :
               /\ list[i].name = x
               /\ \A j \in DOMAIN list : list[j].name = x => j = i
               => SizesIn(list)[x] = list[i].size
         /\ (\A i \in DOMAIN list : list[i].name # x) => SizesIn(list)[x] = Absent
BY DEF SizesIn

LEMMA SizesAre ==
  ASSUME NEW s, Core(s), NEW x \in Names
  PROVE  SizesIn(s.files)[x] = SizeOf(s, x)
<1> PICK list : list = s.files
  OBVIOUS
<1>1. /\ list \in Seq(File) /\ Distinct(list) /\ Places(s) = 1..Len(list) /\ Len(list) \in Nat
      /\ DOMAIN list = 1..Len(list)
  BY CoreFacts
<1>2. CASE Listed(s, x)
  <2> PICK i : i = FindFile(s, x)
    OBVIOUS
  <2>1. i \in DOMAIN list /\ list[i].name = x
    BY <1>1, <1>2, ListedPlace
  <2>2. \A j \in DOMAIN list : list[j].name = x => j = i
    BY <1>1, <2>1 DEF Distinct
  <2>3. Named(s, x) = list[i]
    BY <1>1, <2>1, ListedAt
  <2>4. SizesIn(list)[x] = list[i].size
    BY <2>1, <2>2, SizeIn
  <2> QED BY <1>2, <2>3, <2>4 DEF SizeOf, Length
<1>3. CASE ~Listed(s, x)
  <2>1. \A i \in DOMAIN list : list[i].name # x
    BY <1>1, <1>3, ListedAt
  <2> QED BY <1>3, <2>1, SizeIn DEF SizeOf
<1> QED BY <1>2, <1>3

LEMMA SavedAre ==
  ASSUME NEW s, Core(s), NEW x \in Names
  PROVE  SizesIn(LoadFileList(s))[x] = SavedOf(s, x)
<1> PICK list : list = LoadFileList(s)
  OBVIOUS
<1> PICK m : m = s.dirSize \div EntrySize
  OBVIOUS
<1>1. /\ m \in Nat /\ list \in Seq(File) /\ Len(list) = m
      /\ \A i \in 1..m : /\ i \in Places(s)
                         /\ list[i].name = s.files[i].name /\ list[i].size = s.files[i].size
      /\ 2 * m <= s.dirSize /\ s.dirSize <= 2 * m + 1 /\ s.dirSize \in Nat
  <2>1. Sound(s)
    BY CoreFacts
  <2> QED BY <2>1, Loaded
<1>2. DOMAIN list = 1..m
  BY <1>1
<1>3. Distinct(s.files) /\ Places(s) = 1..Len(s.files) /\ Len(s.files) \in Nat
  BY CoreFacts
<1>4. \A i \in Places(s) : EntrySize * i <= s.dirSize <=> i \in 1..m
  BY <1>1, <1>3 DEF EntrySize
<1>5. CASE OnRecord(s, x)
  <2>1. PICK i \in 1..m : s.files[i].name = x /\ i \in Places(s)
    BY <1>4, <1>5 DEF OnRecord
  <2>2. \A j \in 1..m : list[j].name = x => j = i
    BY <1>1, <1>3, <2>1 DEF Distinct
  <2>3. Named(s, x) = s.files[i]
    BY <2>1, ListedAt
  <2>4. SizesIn(list)[x] = list[i].size
    BY <1>1, <1>2, <2>1, <2>2, SizeIn
  <2> QED BY <1>1, <1>5, <2>1, <2>3, <2>4 DEF SavedOf, Length
<1>6. CASE ~OnRecord(s, x)
  <2>1. \A i \in 1..m : list[i].name # x
    BY <1>1, <1>4, <1>6 DEF OnRecord
  <2> QED BY <1>2, <1>6, <2>1, SizeIn DEF SavedOf
<1> QED BY <1>5, <1>6

\* Someone's file is marked to go.
LEMMA DoomedIs ==
  ASSUME NEW s, Core(s), NEW x \in Names
  PROVE  (\E i \in Places(s) : s.files[i].name = x /\ s.files[i].marked) <=> Marked(s, x)
<1>1. ASSUME NEW i \in Places(s), s.files[i].name = x, s.files[i].marked
      PROVE  Marked(s, x)
  BY <1>1, ListedAt DEF Marked
<1>2. ASSUME Marked(s, x)
      PROVE  \E i \in Places(s) : s.files[i].name = x /\ s.files[i].marked
  <2> PICK i : i = FindFile(s, x)
    OBVIOUS
  <2>1. i \in Places(s) /\ s.files[i].name = x
    BY <1>2, NotListed, ListedPlace
  <2>2. Named(s, x) = s.files[i]
    BY <2>1, ListedAt
  <2> QED BY <1>2, <2>1, <2>2 DEF Marked
<1> QED BY <1>1, <1>2

\* The mapping, for one file, before a step and after it.
LEMMA FileNow ==
  ASSUME Core(sys), NEW x \in Names
  PROVE  /\ sizes[x] = SizeOf(sys, x) /\ held[x] = Holds(sys, x)
         /\ (doomed[x] <=> Marked(sys, x)) /\ saved[x] = SavedOf(sys, x)
<1>1. sizes[x] = SizeOf(sys, x) /\ saved[x] = SavedOf(sys, x)
  BY SizesAre, SavedAre DEF sizes, saved
<1>2. doomed[x] <=> Marked(sys, x)
  BY DoomedIs DEF doomed
<1> QED BY <1>1, <1>2 DEF held, Holds

LEMMA FileNext ==
  ASSUME Core(sys'), NEW x \in Names
  PROVE  /\ sizes'[x] = SizeOf(sys', x) /\ held'[x] = Holds(sys', x)
         /\ (doomed'[x] <=> Marked(sys', x)) /\ saved'[x] = SavedOf(sys', x)
<1> PICK t : t = sys'
  OBVIOUS
<1>1. sizes' = SizesIn(t.files) /\ saved' = SizesIn(LoadFileList(t))
  BY DEF sizes, saved
<1>2. sizes'[x] = SizeOf(t, x) /\ saved'[x] = SavedOf(t, x)
  BY <1>1, SizesAre, SavedAre
<1>3. doomed'[x] <=> \E i \in Places(t) : t.files[i].name = x /\ t.files[i].marked
  BY DEF doomed
<1>4. doomed'[x] <=> Marked(t, x)
  BY <1>3, DoomedIs
<1>5. held'[x] = Holds(t, x)
  BY DEF held, Holds
<1> QED BY <1>2, <1>4, <1>5

\* What is true of each file is what Files lets a step do to it.
LEMMA FaresAsPromised ==
  ASSUME Core(sys), Core(sys'), Fares(sys, sys'), NEW x \in Names
  PROVE  \/ Promise!Rests(x) \/ Promise!Created(x) \/ Promise!Opened(x) \/ Promise!Written(x)
         \/ Promise!Closed(x) \/ Promise!Doomed(x) \/ Promise!Removed(x)
<1> PICK t : t = sys'
  OBVIOUS
<1>1. /\ sizes[x] = SizeOf(sys, x) /\ held[x] = Holds(sys, x) /\ (doomed[x] <=> Marked(sys, x))
      /\ sizes'[x] = SizeOf(t, x) /\ held'[x] = Holds(t, x) /\ (doomed'[x] <=> Marked(t, x))
  BY FileNow, FileNext
<1>2. /\ Length(sys, x) \in Nat /\ Length(t, x) \in Nat
      /\ Holds(sys, x) \in Nat /\ Holds(t, x) \in Nat
      /\ ~Listed(sys, x) => ~Marked(sys, x) /\ Length(sys, x) = 0 /\ Holds(sys, x) = 0
      /\ ~Listed(t, x) => ~Marked(t, x) /\ Length(t, x) = 0 /\ Holds(t, x) = 0
  BY NotListed, HoldsIs
<1>3. /\ IF Listed(sys, x) THEN sizes[x] = Length(sys, x) ELSE sizes[x] = Absent
      /\ IF Listed(t, x) THEN sizes'[x] = Length(t, x) ELSE sizes'[x] = Absent
  BY <1>1 DEF SizeOf
<1>4. Listed(sys, x) <=> Promise!Exists(x)
  BY <1>2, <1>3 DEF Promise!Exists, Absent
<1>5. doomed'[x] = doomed[x] <=> (Marked(t, x) <=> Marked(sys, x))
  BY <1>1 DEF doomed
<1>6. CASE Rests(sys, t, x)
  BY <1>1, <1>3, <1>5, <1>6 DEF Rests, Same, Promise!Rests
<1>7. CASE Makes(sys, t, x)
  BY <1>1, <1>3, <1>4, <1>7 DEF Makes, Promise!Created
<1>8. CASE Opens(sys, t, x)
  BY <1>1, <1>3, <1>4, <1>5, <1>8 DEF Opens, Same, Promise!Opened
<1>9. CASE Writes(sys, t, x)
  BY <1>1, <1>3, <1>4, <1>5, <1>9 DEF Writes, Same, Promise!Written
<1>10. CASE Dooms(sys, t, x)
  BY <1>1, <1>3, <1>4, <1>10 DEF Dooms, Promise!Doomed
<1>11. CASE Drops(sys, t, x)
  BY <1>1, <1>2, <1>3, <1>4, <1>11 DEF Drops, Promise!Removed
<1>12. CASE Listed(sys, x) /\ ~Listed(t, x) /\ Marked(sys, x)
  BY <1>1, <1>2, <1>3, <1>4, <1>12 DEF Promise!Removed
<1>13. CASE Same(sys, t, x) /\ Length(t, x) = Length(sys, x) /\ Holds(t, x) <= Holds(sys, x)
  <2>1. CASE Holds(t, x) = Holds(sys, x)
    BY <1>6, <1>13, <2>1 DEF Rests
  <2>2. CASE Holds(t, x) # Holds(sys, x)
    <3>1. Listed(sys, x) /\ Holds(t, x) \in 0..(Holds(sys, x) - 1)
      BY <1>2, <1>13, <2>2 DEF Same
    <3>2. sizes'[x] = sizes[x]
      BY <1>3, <1>13 DEF Same
    <3> QED BY <1>1, <1>4, <1>5, <1>13, <3>1, <3>2 DEF Same, Promise!Closed
  <2> QED BY <2>1, <2>2
<1> QED BY <1>6, <1>7, <1>8, <1>9, <1>10, <1>11, <1>12, <1>13 DEF Fares, Sheds

\* A file that is not on disk: the disk is full, and it was not there before.
LEMMA SavedAsPromised ==
  ASSUME Core(sys), Core(sys'), Saves(sys, sys'), NEW x \in Names
  PROVE  Promise!Saved(x)
<1> PICK t : t = sys'
  OBVIOUS
<1>1. saved[x] = SavedOf(sys, x) /\ saved'[x] = SavedOf(t, x) /\ sizes'[x] = SizeOf(t, x)
  BY FileNow, FileNext
<1>2. CASE OnRecord(t, x)
  BY <1>1, <1>2, RecordIsListed DEF SizeOf, SavedOf, Promise!Saved
<1>3. CASE ~OnRecord(t, x) /\ ~Listed(t, x)
  BY <1>1, <1>3 DEF SizeOf, SavedOf, Promise!Saved
<1>4. CASE ~OnRecord(t, x) /\ Listed(t, x)
  <2>1. ~OnRecord(sys, x)
    BY <1>4 DEF Saves
  <2>2. ~Recorded(t)
    BY <1>4, AllOnRecord
  <2>3. FreeBlocks(t.fat) = {}
    BY <2>2, CoreFacts DEF Sound, Agrees
  <2>4. full'
    BY <2>3 DEF full
  <2> QED BY <1>1, <1>4, <2>1, <2>4 DEF SavedOf, Promise!Saved
<1> QED BY <1>2, <1>3, <1>4

\* The next start finds what was saved, and nobody holds any of it.
LEMMA RestartAsPromised ==
  ASSUME Core(sys), sys' = Mounted(sys)
  PROVE  Promise!Restart
<1> PICK t : t = sys'
  OBVIOUS
<1>1. MountedFrom(sys, t) /\ MountedCore(sys, t)
  BY CoreFacts, MountedIs, RemountedCore
<1>2. /\ t.files = LoadFileList(sys) /\ t.dir = sys.dir /\ t.dirSize = sys.dirSize
      /\ t.fat = sys.fat /\ Core(t) /\ \A n \in Fds : t.node[n].name = NoName
  BY <1>1, FreshTable DEF MountedFrom, MountedCore
<1>3. sizes' = saved
  BY <1>2 DEF sizes, saved
<1>4. saved' = saved
  <2>1. LoadFileList(t) = LoadFileList(sys)
    BY <1>2 DEF LoadFileList
  <2> QED BY <2>1 DEF saved
<1>5. full' = full
  BY <1>2 DEF full
<1>6. held' = [x \in Names |-> 0]
  <2>1. ASSUME NEW x \in Names PROVE Cardinality(Holders(t, x)) = 0
    <3>1. Holders(t, x) = {}
      BY <1>2, NamesAssumption DEF Holders
    <3> QED BY <3>1, FS_EmptySet
  <2>2. held' = [x \in Names |-> Cardinality(Holders(t, x))]
    BY DEF held
  <2> QED BY <2>1, <2>2
<1>7. doomed' = [x \in Names |-> FALSE]
  <2>1. \A i \in Places(t) : ~t.files[i].marked
    <3> SUFFICES ASSUME NEW i \in Places(t) PROVE ~t.files[i].marked
      OBVIOUS
    <3>1. i \in 1..Len(t.files) /\ t.files \in Seq(File)
      BY <1>2, CoreFacts
    <3>2. i \in 1..(sys.dirSize \div EntrySize)
      BY <1>2, <3>1, Loaded, CoreFacts
    <3>3. PICK o : t.files[i] = NewFile(sys.dir[o].name, sys.dir[o + 1].size, sys.dir[o + 1].start)
      BY <1>2, <3>2 DEF LoadFileList
    <3> QED BY <3>3 DEF NewFile
  <2>2. doomed' = [x \in Names |-> \E i \in Places(t) : t.files[i].name = x /\ t.files[i].marked]
    BY DEF doomed
  <2>3. \A x \in Names : (\E i \in Places(t) : t.files[i].name = x /\ t.files[i].marked) = FALSE
    BY <2>1
  <2> QED BY <2>2, <2>3
<1> QED BY <1>3, <1>4, <1>5, <1>6, <1>7 DEF Promise!Restart

\* At first there are no files.
LEMMA NoFilesAtFirst ==
  ASSUME Init
  PROVE  Promise!Init
<1>1. /\ Core(sys) /\ sys.files = <<>> /\ sys.dirSize = 0 /\ sys.fat = [b \in Blocks |-> 0]
  BY MadeAndMounted DEF Init, FirstState
<1>2. ASSUME NEW x \in Names
      PROVE  sizes[x] = Absent /\ saved[x] = Absent /\ held[x] = 0 /\ doomed[x] = FALSE
  <2>1. Places(sys) = {}
    BY <1>1 DEF Places
  <2>2. ~OnRecord(sys, x)
    BY <2>1 DEF OnRecord
  <2>3. ~Listed(sys, x)
    BY <1>1, <2>1, ListedPlace
  <2>4. Holds(sys, x) = 0 /\ ~Marked(sys, x)
    BY <1>1, <2>3, NotListed
  <2> QED BY <1>1, <2>2, <2>3, <2>4, FileNow DEF SizeOf, SavedOf, doomed
<1>3. /\ sizes = [x \in Names |-> sizes[x]] /\ saved = [x \in Names |-> saved[x]]
      /\ held = [x \in Names |-> held[x]] /\ doomed = [x \in Names |-> doomed[x]]
  BY DEF sizes, saved, SizesIn, held, doomed
<1>4. full = FALSE
  <2>1. 1 \in Blocks /\ DirBlock = 0
    BY SizeAssumption DEF Blocks, DirBlock
  <2>2. 1 \in FreeBlocks(sys.fat)
    BY <1>1, <2>1 DEF FreeBlocks
  <2> QED BY <2>2 DEF full
<1>5. sizes = [x \in Names |-> Absent] /\ saved = [x \in Names |-> Absent]
      /\ held = [x \in Names |-> 0] /\ doomed = [x \in Names |-> FALSE]
  BY <1>2, <1>3
<1> QED BY <1>4, <1>5 DEF Promise!Init

LEMMA NextAsPromised ==
  ASSUME FreedIntact, FInv, [Next]_vars
  PROVE  Promise!Next
<1>1. Steps(sys', shell', prog')
  BY NextGood
<1>2. Core(sys) /\ Core(sys')
  BY <1>1, GoodFacts DEF FInv, Steps
<1>3. CASE Fares(sys, sys')
  BY <1>2, <1>3, FaresAsPromised, SavedAsPromised DEF Fares, Promise!Next
<1>4. CASE sys' = Mounted(sys)
  BY <1>2, <1>4, RestartAsPromised DEF Promise!Next
<1> QED BY <1>1, <1>3, <1>4 DEF Steps
-----------------------------------------------------------------------------
(***************************************************************************)
(* The theorems.                                                           *)
(***************************************************************************)
LEMMA FInvariance ==
  ASSUME FreedIntact
  PROVE  Spec => []FInv
<1>1. Init => FInv
  BY InitGood
<1>2. FInv /\ [Next]_vars => FInv'
  <2> SUFFICES ASSUME FInv, [Next]_vars PROVE FInv'
    OBVIOUS
  <2>1. Good(sys', shell', prog')
    BY NextGood DEF Steps
  <2> QED BY <2>1 DEF FInv
<1> QED BY <1>1, <1>2, PTL DEF Spec

\* The chain links, the directory, the list of files, the descriptor table and
\* what the shell and the programs hold keep their kinds: no link leaves the
\* FAT, no size, cursor or count goes below zero, and the directory never
\* outgrows its entries.
THEOREM FTypeCorrect ==
  ASSUME FreedIntact
  PROVE  Spec => []FTypeOK
BY FInvariance, TypesHold, PTL

\* find_free_block, write_to_file, truncate_file and free_blocks never let two
\* chains share a block, nor take for free a block that a chain holds.
THEOREM ChainsStayApart ==
  ASSUME FreedIntact
  PROVE  Spec => []ChainsApart
BY FInvariance, ChainsAreApart, PTL

\* However full the disk was when write_to_file ended, a file's blocks hold all
\* of its size.
THEOREM ChainsStayLong ==
  ASSUME FreedIntact
  PROVE  Spec => []ChainsHoldSize
BY FInvariance, SizesAreHeld, PTL

\* What the next load_file_list reads from the directory is the list of files
\* in memory, or its beginning when no block is free.
THEOREM DirectoryIsList ==
  ASSUME FreedIntact
  PROVE  Spec => []RecordedUnlessFull
BY FInvariance, DiskIsRecorded, PTL

\* Neither f_unlink nor the last f_close removes a file that a descriptor still
\* names.
THEOREM NamedFilesStay ==
  ASSUME FreedIntact
  PROVE  Spec => []OpenFilesStay
BY FInvariance, FilesAreHeld, PTL

\* Whatever the shell redirected and the programs opened, read and removed
\* meanwhile, a program's output goes to the end of the file behind stdout.
THEOREM OutputAppends ==
  ASSUME FreedIntact
  PROVE  Spec => []WritesAtEnd
BY FInvariance, StdoutIsAtEnd, PTL

\* A block of a recorded disk is still a file's, the directory's or free after
\* any call, and after a restart.
THEOREM BlocksAreKept ==
  ASSUME FreedIntact
  PROVE  Spec => NoBlockForgotten
<1>1. FInv /\ [Next]_vars => [Recorded(sys) => Unowned(sys') \subseteq Unowned(sys)]_vars
  BY NoBlockLost
<1> QED BY <1>1, FInvariance, PTL DEF Spec, NoBlockForgotten

\* The calls of fs/filesystem.c, whatever the shell and its programs interleave
\* them with, do to each file only what Files lets them: nothing takes a file
\* from its holders or shortens it behind their back, and save_dir leaves the
\* disk up to date or full.  The file system implements Files.
THEOREM FilesKeepPromise ==
  ASSUME FreedIntact
  PROVE  Spec => FilesAsPromised
<1>1. FInv /\ [Next]_vars => [Promise!Next]_(Promise!vars)
  BY NextAsPromised
<1>2. Init => Promise!Init
  BY NoFilesAtFirst
<1> QED BY <1>1, <1>2, FInvariance, PTL DEF Spec, FilesAsPromised, Promise!Spec
=============================================================================
