------------------------------ MODULE MmProofs ------------------------------
(***************************************************************************)
(* The theorems about Mm, for every size of the heap and of the first      *)
(* chunk, every set of block indices and of requests: the tags tile the    *)
(* heap, the free list is exact, no block is lost, the driver never        *)
(* complains, and mm.c implements Allocator.                               *)
(*                                                                         *)
(* TagsTile and FreeListExact are about walks. The invariant MmInv names   *)
(* instead what a walk would meet: P, the addresses where the blocks begin *)
(* (with the break, where the epilogue is), and F, the free ones of them.  *)
(* Of these, Shape says which word of the heap holds which tag or link:    *)
(* Nxt(P, b) is where the block at b ends, Nxt(F, f) the next free block.  *)
(* In Tidy no two free blocks are neighbours; Owned says that the others   *)
(* are the trace's and hold what it wrote.                                 *)
(*                                                                         *)
(* For each function of mm.c there is a predicate (ListedAs, MergedAs,     *)
(* SplitAs, CoalescedAs, MallocAs, ...) that says of its result r which P  *)
(* and F it has, and that the payloads of the allocated blocks are carried *)
(* over; and a lemma that the function has it. What a loop of mm.c finds   *)
(* follows from WalkStops: its pointer climbs, so it has stopped before    *)
(* MaxBlocks turns.                                                        *)
(***************************************************************************)
EXTENDS Mm, TLAPS, NaturalsInduction, WellFoundedInduction

-----------------------------------------------------------------------------
(* Least numbers and arithmetic.                                             *)

(* The order of the natural numbers as a relation. *)
Below == {p \in Nat \X Nat : p[1] < p[2]}

LEMMA BelowWellFounded == IsWellFoundedOn(Below, Nat)
<1>1. Below = OpToRel(<, Nat)
  BY DEF Below, OpToRel
<1>2. QED
  BY <1>1, NatLessThanWellFounded

(* Induction: what fails for some number fails for a least one. *)
LEMMA LeastNat ==
  ASSUME NEW S, S \subseteq Nat, S # {}
  PROVE  \E m \in S : \A k \in S : m <= k
<1>1. PICK m \in S : \A k \in S : ~ (<<k, m>> \in Below)
  BY BelowWellFounded, WFMin
<1>2. ASSUME NEW k \in S, k < m PROVE FALSE
  <2>1. <<k, m>> \in Below
    BY <1>2 DEF Below
  <2>2. QED
    BY <1>1, <2>1
<1>3. \A k \in S : m <= k
  BY <1>2
<1>4. QED
  BY <1>3

(* The largest number of a bounded set. *)
LEMMA GreatestNat ==
  ASSUME NEW M \in Nat, NEW S, S \subseteq 0..M, S # {}
  PROVE  \E m \in S : \A k \in S : k <= m
<1> DEFINE T == {n \in Nat : M - n \in S}
<1>1. \A k \in S : M - k \in T /\ k \in Int
  OBVIOUS
<1>2. PICK t \in T : \A k \in T : t <= k
  BY <1>1, LeastNat
<1>3. \A k \in S : k <= M - t
  BY <1>1, <1>2, SMTT(40)
<1>4. QED
  BY <1>2, <1>3

(* A tag is a multiple of 8 and one bit. *)
LEMMA TagSplits ==
  ASSUME NEW s \in Nat, s % 8 = 0, NEW a \in {0, 1}
  PROVE  (s + a) % 8 = a /\ (s + a) - ((s + a) % 8) = s /\ (s + a) % 2 = a
OBVIOUS

LEMMA EightsAdd ==
  ASSUME NEW a \in Int, NEW b \in Int, a % 8 = 0, b % 8 = 0
  PROVE  (a + b) % 8 = 0 /\ (a - b) % 8 = 0 /\ (a < b => a + 8 <= b)
OBVIOUS

(* Addresses of words. *)
LEMMA WordIs ==
  ASSUME NEW p \in Int, p % 4 = 0, 0 <= p, p + 4 <= MAX_HEAP
  PROVE  p \in Words
<1>1. p = 4 * (p \div 4) /\ p \div 4 \in 0..(MAX_HEAP \div 4 - 1)
  BY MmAssumption
<1>2. QED
  BY <1>1 DEF Words, WSIZE

LEMMA WordsAre == Words \subseteq Nat /\ \A p \in Words : p % 4 = 0 /\ p + 4 <= MAX_HEAP
BY MmAssumption DEF Words, WSIZE

LEMMA MaxBlocksIs == MaxBlocks \in Nat /\ 16 * MaxBlocks <= MAX_HEAP /\ MAX_HEAP < 16 * MaxBlocks + 16
BY MmAssumption DEF MaxBlocks

-----------------------------------------------------------------------------
(* Loops.                                                                    *)

(* A function that goes from turn to turn for n turns. *)
Runs(next, from, X, n) ==
  {w \in [0..n -> X] : w[0] = from /\ \A k \in 1..n : w[k] = next[w[k - 1]]}

LEMMA RunsExist ==
  ASSUME NEW X, NEW next, \A x \in X : next[x] \in X, NEW from \in X
  PROVE  \A n \in Nat : Runs(next, from, X, n) # {}
<1> DEFINE Bad == {n \in Nat : Runs(next, from, X, n) = {}}
<1> SUFFICES ASSUME Bad # {} PROVE FALSE
  OBVIOUS
<1>1. PICK n \in Bad : \A k \in Bad : n <= k
  BY LeastNat
<1>2. ASSUME n = 0 PROVE FALSE
  <2>1. [k \in 0..0 |-> from] \in Runs(next, from, X, 0)
    BY DEF Runs
  <2>2. QED
    BY <2>1, <1>2
<1>3. n \in Nat /\ n # 0 /\ n - 1 \in Nat /\ n - 1 \notin Bad
  BY <1>1, <1>2
<1>4. PICK w : w \in Runs(next, from, X, n - 1)
  BY <1>3
<1> DEFINE v == [k \in 0..n |-> IF k = n THEN next[w[n - 1]] ELSE w[k]]
<1>5. w \in [0..(n - 1) -> X] /\ w[0] = from /\ \A k \in 1..(n - 1) : w[k] = next[w[k - 1]]
  BY <1>4 DEF Runs
<1>6. v \in [0..n -> X]
  <2>1. ASSUME NEW k \in 0..n PROVE v[k] \in X
    <3>1. w[n - 1] \in X
      BY <1>5, <1>3
    <3>2. CASE k = n
      BY <3>2, <3>1
    <3>3. CASE k # n
      <4>1. k \in 0..(n - 1)
        BY <3>3, <1>3
      <4>2. QED
        BY <4>1, <1>5, <3>3
    <3>4. QED
      BY <3>2, <3>3
  <2>2. QED
    BY <2>1
<1>7. v[0] = from
  BY <1>5, <1>3
<1>8. ASSUME NEW k \in 1..n PROVE v[k] = next[v[k - 1]]
  <2>1. k - 1 \in 0..n /\ k - 1 # n /\ k \in 0..n
    BY <1>3
  <2>2. v[k - 1] = w[k - 1]
    BY <2>1
  <2>3. CASE k = n
    BY <2>1, <2>2, <2>3
  <2>4. CASE k # n
    <3>1. k \in 1..(n - 1)
      BY <2>4, <1>3
    <3>2. QED
      BY <3>1, <2>1, <2>2, <1>5, <2>4
  <2>5. QED
    BY <2>3, <2>4
<1>9. v \in Runs(next, from, X, n)
  BY <1>6, <1>7, <1>8 DEF Runs
<1>10. QED
  BY <1>9, <1>1

(* Walk is such a function. *)
LEMMA WalkIs ==
  ASSUME NEW X, NEW next, \A x \in X : next[x] \in X, NEW from \in X
  PROVE  Walk(next, from) \in Runs(next, from, X, MaxBlocks)
<1> DEFINE P(w) == w = [n \in 0..MaxBlocks |-> IF n = 0 THEN from ELSE next[w[n - 1]]]
<1>1. MaxBlocks \in Nat
  BY MaxBlocksIs
<1>2. PICK g : g \in Runs(next, from, X, MaxBlocks)
  BY <1>1, RunsExist
<1>3. P(g)
  BY <1>2, <1>1 DEF Runs
<1>4. Walk(next, from) = CHOOSE w : P(w)
  BY DEF Walk
<1>5. P(Walk(next, from))
  BY <1>3, <1>4
<1> DEFINE w == Walk(next, from)
<1>6. w[0] = from
  BY <1>5, <1>1
<1>7. \A n \in 1..MaxBlocks : w[n] = next[w[n - 1]]
  BY <1>5, <1>1
<1>8. \A n \in 0..MaxBlocks : w[n] \in X
  <2> DEFINE Bad == {n \in Nat : n <= MaxBlocks /\ w[n] \notin X}
  <2> SUFFICES ASSUME Bad # {} PROVE FALSE
    OBVIOUS
  <2>1. PICK n \in Bad : \A k \in Bad : n <= k
    BY LeastNat
  <2>2. n # 0
    BY <1>6, <2>1
  <2>3. n - 1 \in 0..MaxBlocks /\ n \in 1..MaxBlocks /\ ~ (n <= n - 1)
    BY <2>1, <2>2, <1>1
  <2>4. w[n - 1] \in X
    BY <2>1, <2>3
  <2>5. QED
    BY <2>4, <2>3, <1>7, <2>1
<1>9. w \in [0..MaxBlocks -> X]
  BY <1>5, <1>8
<1>10. QED
  BY <1>6, <1>7, <1>9 DEF Runs

(* The step of a loop: it stands still, or goes at least 16 bytes up, or is
   still afterwards. *)
Climbs(next, X) ==
  \A x \in X : next[x] \in X /\ (next[next[x]] = next[x] \/ next[x] >= x + 16)

(* Such a loop has stopped in time. *)
LEMMA WalkStops ==
  ASSUME NEW X, X \subseteq 0..MAX_HEAP, NEW next, Climbs(next, X), NEW from \in X, from >= 16 \/ next[from] = from
  PROVE  WalksTo(next, from) \in X /\ next[WalksTo(next, from)] = WalksTo(next, from)
<1> DEFINE w == Walk(next, from)
           Still(n) == next[w[n]] = w[n]
<1>1. \A x \in X : next[x] \in X
  BY DEF Climbs
<1>a. w \in Runs(next, from, X, MaxBlocks)
  BY <1>1, WalkIs
<1>2. w \in [0..MaxBlocks -> X] /\ w[0] = from /\ \A n \in 1..MaxBlocks : w[n] = next[w[n - 1]]
  BY <1>a DEF Runs
<1>3. MaxBlocks \in Nat /\ MAX_HEAP < 16 * MaxBlocks + 16
  BY MaxBlocksIs
<1> HIDE DEF w
<1>4. \A n \in 0..MaxBlocks : Still(n) \/ w[n] >= 16 + 16 * n
  <2> DEFINE Bad == {n \in Nat : n <= MaxBlocks /\ ~ (Still(n) \/ w[n] >= 16 + 16 * n)}
  <2> SUFFICES ASSUME Bad # {} PROVE FALSE
    OBVIOUS
  <2>1. PICK n \in Bad : \A k \in Bad : n <= k
    BY LeastNat
  <2>2. n # 0
    BY <1>2, <2>1
  <2>3. n - 1 \in 0..MaxBlocks /\ n \in 1..MaxBlocks /\ ~ (n <= n - 1)
    BY <2>1, <2>2, <1>3
  <2>4. w[n] = next[w[n - 1]] /\ w[n - 1] \in X /\ w[n] \in X
    BY <1>2, <2>3
  <2>5. Still(n - 1) \/ w[n - 1] >= 16 + 16 * (n - 1)
    BY <2>1, <2>3
  <2>6. CASE Still(n - 1)
    BY <2>6, <2>4, <2>1
  <2>7. CASE w[n - 1] >= 16 + 16 * (n - 1) /\ ~ Still(n - 1)
    <3>1. Still(n) \/ w[n] >= w[n - 1] + 16
      BY <2>4 DEF Climbs
    <3>a. X \subseteq Nat
      OBVIOUS
    <3>2. w[n] \in Nat /\ w[n - 1] \in Nat /\ n \in Nat
      BY <2>4, <2>1, <3>a
    <3>3. Still(n) \/ w[n] >= 16 + 16 * n
      BY <3>1, <3>2, <2>7
    <3>4. QED
      BY <3>3, <2>1
  <2>8. QED
    BY <2>5, <2>6, <2>7
<1>b. MaxBlocks \in 0..MaxBlocks
  BY <1>3
<1>5. w[MaxBlocks] \in X /\ w[MaxBlocks] \in 0..MAX_HEAP
  BY <1>2, <1>b
<1>6. Still(MaxBlocks)
  <2>1. Still(MaxBlocks) \/ w[MaxBlocks] >= 16 + 16 * MaxBlocks
    BY <1>4, <1>3
  <2>2. QED
    BY <2>1, <1>5, <1>3, MmAssumption
<1>7. QED
  BY <1>5, <1>6 DEF WalksTo, w

-----------------------------------------------------------------------------
(* Neighbours in a set of addresses.                                         *)

Places == 1..MAX_HEAP

(* The least of S above p and the largest below p; NULL when there is none. *)
Nxt(S, p) ==
  IF \E q \in S : q > p THEN CHOOSE q \in S : q > p /\ \A r \in S : r <= p \/ q <= r ELSE NULL
Prv(S, p) ==
  IF \E q \in S : q < p THEN CHOOSE q \in S : q < p /\ \A r \in S : p <= r \/ r <= q ELSE NULL

LEMMA NxtIs ==
  ASSUME NEW S, S \subseteq Places, NEW p \in Nat
  PROVE  \/ Nxt(S, p) = NULL /\ \A q \in S : q <= p
         \/ Nxt(S, p) \in S /\ Nxt(S, p) > p /\ \A r \in S : r <= p \/ Nxt(S, p) <= r
<1>1. CASE \E q \in S : q > p
  <2> DEFINE T == {q \in S : q > p}
  <2>0. S \subseteq Nat
    BY DEF Places
  <2>1. T \subseteq Nat /\ T # {}
    BY <1>1, <2>0
  <2>2. PICK m \in T : \A k \in T : m <= k
    BY <2>1, LeastNat
  <2>3. m \in S /\ m > p /\ \A r \in S : r <= p \/ m <= r
    BY <2>2, <2>0
  <2>4. QED
    BY <2>3, <1>1 DEF Nxt
<1>2. CASE ~ \E q \in S : q > p
  <2>1. S \subseteq Nat
    BY DEF Places
  <2>2. QED
    BY <1>2, <2>1 DEF Nxt
<1>3. QED
  BY <1>1, <1>2

LEMMA PrvIs ==
  ASSUME NEW S, S \subseteq Places, NEW p \in Nat
  PROVE  \/ Prv(S, p) = NULL /\ \A q \in S : p <= q
         \/ Prv(S, p) \in S /\ Prv(S, p) < p /\ \A r \in S : p <= r \/ r <= Prv(S, p)
<1>1. CASE \E q \in S : q < p
  <2> DEFINE T == {q \in S : q < p}
  <2>0. S \subseteq 0..MAX_HEAP
    BY DEF Places
  <2>1. T \subseteq 0..MAX_HEAP /\ T # {}
    BY <1>1, <2>0
  <2>2. PICK m \in T : \A k \in T : k <= m
    BY <2>1, GreatestNat, MmAssumption
  <2>3. m \in S /\ m < p /\ \A r \in S : p <= r \/ r <= m
    BY <2>2, <2>0
  <2>4. QED
    BY <2>3, <1>1 DEF Prv
<1>2. CASE ~ \E q \in S : q < p
  <2>1. S \subseteq Nat
    BY DEF Places
  <2>2. QED
    BY <1>2, <2>1 DEF Prv
<1>3. QED
  BY <1>1, <1>2

(* What looks like a neighbour is the neighbour. *)
LEMMA NxtOnly ==
  ASSUME NEW S, S \subseteq Places, NEW p \in Nat, NEW q \in S, q > p, \A r \in S : r <= p \/ q <= r
  PROVE  Nxt(S, p) = q
<1>1. S \subseteq Nat
  BY DEF Places
<1>2. \/ Nxt(S, p) = NULL /\ \A r \in S : r <= p
      \/ Nxt(S, p) \in S /\ Nxt(S, p) > p /\ \A r \in S : r <= p \/ Nxt(S, p) <= r
  BY NxtIs
<1>3. q \in Nat /\ ~ (q <= p)
  BY <1>1
<1>4. Nxt(S, p) \in S /\ Nxt(S, p) > p /\ Nxt(S, p) <= q
  BY <1>2, <1>3
<1>b. Nxt(S, p) \in Nat
  BY <1>4, <1>1
<1>a. ~ (Nxt(S, p) <= p)
  BY <1>4, <1>b
<1>5. Nxt(S, p) \in Nat /\ q <= Nxt(S, p)
  BY <1>4, <1>a, <1>b
<1>6. QED
  BY <1>3, <1>4, <1>5

LEMMA PrvOnly ==
  ASSUME NEW S, S \subseteq Places, NEW p \in Nat, NEW q \in S, q < p, \A r \in S : p <= r \/ r <= q
  PROVE  Prv(S, p) = q
<1>1. S \subseteq Nat
  BY DEF Places
<1>2. \/ Prv(S, p) = NULL /\ \A r \in S : p <= r
      \/ Prv(S, p) \in S /\ Prv(S, p) < p /\ \A r \in S : p <= r \/ r <= Prv(S, p)
  BY PrvIs
<1>3. q \in Nat /\ ~ (p <= q)
  BY <1>1
<1>4. Prv(S, p) \in S /\ Prv(S, p) < p /\ q <= Prv(S, p)
  BY <1>2, <1>3
<1>b. Prv(S, p) \in Nat
  BY <1>4, <1>1
<1>a. ~ (p <= Prv(S, p))
  BY <1>4, <1>b
<1>5. Prv(S, p) \in Nat /\ Prv(S, p) <= q
  BY <1>4, <1>a, <1>b
<1>6. QED
  BY <1>3, <1>4, <1>5

LEMMA NoNxt ==
  ASSUME NEW S, S \subseteq Places, NEW p \in Nat, \A q \in S : q <= p
  PROVE  Nxt(S, p) = NULL
<1>1. \/ Nxt(S, p) = NULL /\ \A q \in S : q <= p
      \/ Nxt(S, p) \in S /\ Nxt(S, p) > p /\ \A r \in S : r <= p \/ Nxt(S, p) <= r
  BY NxtIs
<1>2. S \subseteq Nat
  BY DEF Places
<1>3. ASSUME Nxt(S, p) \in S, Nxt(S, p) > p PROVE FALSE
  <2>1. Nxt(S, p) <= p /\ Nxt(S, p) \in Nat
    BY <1>2, <1>3
  <2>2. QED
    BY <2>1, <1>3
<1>4. QED
  BY <1>1, <1>3

LEMMA NoPrv ==
  ASSUME NEW S, S \subseteq Places, NEW p \in Nat, \A q \in S : p <= q
  PROVE  Prv(S, p) = NULL
<1>1. \/ Prv(S, p) = NULL /\ \A q \in S : p <= q
      \/ Prv(S, p) \in S /\ Prv(S, p) < p /\ \A r \in S : p <= r \/ r <= Prv(S, p)
  BY PrvIs
<1>2. S \subseteq Nat
  BY DEF Places
<1>3. ASSUME Prv(S, p) \in S, Prv(S, p) < p PROVE FALSE
  <2>1. p <= Prv(S, p) /\ Prv(S, p) \in Nat
    BY <1>2, <1>3
  <2>2. QED
    BY <2>1, <1>3
<1>4. QED
  BY <1>1, <1>3

(* Neighbours are in S or NULL, and point to each other. *)
LEMMA Mutual ==
  ASSUME NEW S, S \subseteq Places, NEW p \in S
  PROVE  /\ Nxt(S, p) \in S \cup {0} /\ Prv(S, p) \in S \cup {0}
         /\ Nxt(S, p) # 0 => Nxt(S, p) > p /\ Prv(S, Nxt(S, p)) = p
         /\ Prv(S, p) # 0 => Prv(S, p) < p /\ Nxt(S, Prv(S, p)) = p
         /\ Prv(S, p) = 0 => Nxt(S, 0) = p
<1>1. S \subseteq Nat /\ p \in Nat /\ 0 \notin S
  BY DEF Places
<1>2. Nxt(S, p) \in S \cup {0} /\ Prv(S, p) \in S \cup {0}
  BY <1>1, NxtIs, PrvIs DEF NULL
<1>3. ASSUME Nxt(S, p) # 0 PROVE Nxt(S, p) > p /\ Prv(S, Nxt(S, p)) = p
  <2>1. Nxt(S, p) \in S /\ Nxt(S, p) > p /\ \A r \in S : r <= p \/ Nxt(S, p) <= r
    BY <1>1, <1>3, NxtIs DEF NULL
  <2>2. \A r \in S : Nxt(S, p) <= r \/ r <= p
    BY <2>1, <1>1
  <2>3. QED
    BY <2>1, <2>2, <1>1, PrvOnly
<1>4. ASSUME Prv(S, p) # 0 PROVE Prv(S, p) < p /\ Nxt(S, Prv(S, p)) = p
  <2>1. Prv(S, p) \in S /\ Prv(S, p) < p /\ \A r \in S : p <= r \/ r <= Prv(S, p)
    BY <1>1, <1>4, PrvIs DEF NULL
  <2>2. \A r \in S : r <= Prv(S, p) \/ p <= r
    BY <2>1, <1>1
  <2>3. QED
    BY <2>1, <2>2, <1>1, NxtOnly
<1>5. ASSUME Prv(S, p) = 0 PROVE Nxt(S, 0) = p
  <2>1. \A r \in S : p <= r
    BY <1>1, <1>5, PrvIs DEF NULL
  <2>2. p > 0
    BY DEF Places
  <2>3. QED
    BY <2>1, <2>2, <1>1, NxtOnly
<1>6. QED
  BY <1>2, <1>3, <1>4, <1>5

(* A new element f comes between its neighbours; NULL is where the list starts. *)
LEMMA Inserted ==
  ASSUME NEW S, S \subseteq Places, NEW f \in Places, f \notin S
  PROVE  /\ \A p \in S \cup {0} : Nxt(S \cup {f}, p) = IF p = Prv(S, f) THEN f ELSE Nxt(S, p)
         /\ \A p \in S : Prv(S \cup {f}, p) = IF p = Nxt(S, f) THEN f ELSE Prv(S, p)
         /\ Nxt(S \cup {f}, f) = Nxt(S, f) /\ Prv(S \cup {f}, f) = Prv(S, f)
<1> DEFINE T == S \cup {f}
<1>1. S \subseteq Nat /\ f \in Nat /\ T \subseteq Places /\ T \subseteq Nat /\ 0 \notin S /\ f > 0
  BY DEF Places
<1>2. \/ Nxt(S, f) = 0 /\ \A q \in S : q <= f
      \/ Nxt(S, f) \in S /\ Nxt(S, f) > f /\ \A r \in S : r <= f \/ Nxt(S, f) <= r
  BY <1>1, NxtIs DEF NULL
<1>3. \/ Prv(S, f) = 0 /\ \A q \in S : f <= q
      \/ Prv(S, f) \in S /\ Prv(S, f) < f /\ \A r \in S : f <= r \/ r <= Prv(S, f)
  BY <1>1, PrvIs DEF NULL
<1>4. ASSUME NEW p \in S \cup {0}, p = Prv(S, f) PROVE Nxt(T, p) = f
  <2>1. p < f /\ \A r \in T : r <= p \/ f <= r
    BY <1>3, <1>4, <1>1
  <2>2. QED
    BY <2>1, <1>1, NxtOnly
<1>5. ASSUME NEW p \in S \cup {0}, p # Prv(S, f) PROVE Nxt(T, p) = Nxt(S, p)
  <2>1. p \in Nat /\ p # f
    BY <1>1
  <2>2. CASE Nxt(S, p) = 0
    <3>1. \A q \in S : q <= p
      BY <2>1, <2>2, NxtIs, <1>1 DEF NULL
    <3>2. f <= p
      <4>1. CASE Prv(S, f) = 0
        <5>1. p \in S
          BY <1>5, <4>1
        <5>2. QED
          BY <5>1, <4>1, <1>3, <1>1
      <4>2. CASE Prv(S, f) # 0
        <5>1. Prv(S, f) \in S /\ Prv(S, f) \in Nat /\ Prv(S, f) <= p /\ Prv(S, f) # 0
          BY <4>2, <1>3, <3>1, <1>1
        <5>2. p \in S
          BY <5>1, <2>1
        <5>3. f <= p \/ p <= Prv(S, f)
          BY <5>2, <4>2, <1>3
        <5>4. QED
          BY <5>1, <5>3, <1>5, <2>1
      <4>3. QED
        BY <4>1, <4>2
    <3>3. \A q \in T : q <= p
      BY <3>1, <3>2
    <3>4. QED
      BY <3>3, <2>1, <1>1, <2>2, NoNxt DEF NULL
  <2>3. CASE Nxt(S, p) # 0
    <3>1. Nxt(S, p) \in S /\ Nxt(S, p) > p /\ \A r \in S : r <= p \/ Nxt(S, p) <= r
      BY <2>1, <2>3, NxtIs, <1>1 DEF NULL
    <3>2. f <= p \/ Nxt(S, p) <= f
      <4>1. CASE Prv(S, f) = 0
        <5>1. p \in S
          BY <1>5, <4>1
        <5>2. QED
          BY <5>1, <4>1, <1>3, <1>1
      <4>2. CASE Prv(S, f) # 0
        <5>1. Prv(S, f) \in S /\ Prv(S, f) \in Nat /\ Prv(S, f) < f
          BY <4>2, <1>3, <1>1
        <5>2. Nxt(S, p) \in Nat /\ (Prv(S, f) <= p \/ Nxt(S, p) <= Prv(S, f))
          BY <3>1, <5>1, <1>1
        <5>3. f <= p \/ p <= Prv(S, f)
          BY <4>2, <1>3, <5>1, <2>1
        <5>4. QED
          BY <5>1, <5>2, <5>3, <1>5, <2>1, <1>1
      <4>3. QED
        BY <4>1, <4>2
    <3>3. \A r \in T : r <= p \/ Nxt(S, p) <= r
      BY <3>1, <3>2
    <3>4. QED
      BY <3>1, <3>3, <2>1, <1>1, NxtOnly
  <2>4. QED
    BY <2>2, <2>3
<1>6. ASSUME NEW p \in S, p = Nxt(S, f) PROVE Prv(T, p) = f
  <2>1. f < p /\ \A r \in T : p <= r \/ r <= f
    BY <1>2, <1>6, <1>1
  <2>2. QED
    BY <2>1, <1>1, PrvOnly
<1>7. ASSUME NEW p \in S, p # Nxt(S, f) PROVE Prv(T, p) = Prv(S, p)
  <2>1. p \in Nat /\ p # f
    BY <1>1
  <2>2. CASE Prv(S, p) = 0
    <3>1. \A q \in S : p <= q
      BY <2>1, <2>2, PrvIs, <1>1 DEF NULL
    <3>2. p <= f
      <4>1. CASE Nxt(S, f) = 0
        BY <4>1, <1>2, <1>1
      <4>2. CASE Nxt(S, f) # 0
        <5>1. Nxt(S, f) \in S /\ Nxt(S, f) \in Nat /\ p <= Nxt(S, f)
          BY <4>2, <1>2, <3>1, <1>1
        <5>3. p <= f \/ Nxt(S, f) <= p
          BY <4>2, <1>2
        <5>4. QED
          BY <5>1, <5>3, <1>7, <2>1
      <4>3. QED
        BY <4>1, <4>2
    <3>3. \A q \in T : p <= q
      BY <3>1, <3>2
    <3>4. QED
      BY <3>3, <2>1, <1>1, <2>2, NoPrv DEF NULL
  <2>3. CASE Prv(S, p) # 0
    <3>1. Prv(S, p) \in S /\ Prv(S, p) < p /\ \A r \in S : p <= r \/ r <= Prv(S, p)
      BY <2>1, <2>3, PrvIs, <1>1 DEF NULL
    <3>2. p <= f \/ f <= Prv(S, p)
      <4>1. CASE Nxt(S, f) = 0
        BY <4>1, <1>2, <1>1
      <4>2. CASE Nxt(S, f) # 0
        <5>1. Nxt(S, f) \in S /\ Nxt(S, f) \in Nat /\ f < Nxt(S, f)
          BY <4>2, <1>2, <1>1
        <5>2. Prv(S, p) \in Nat /\ (p <= Nxt(S, f) \/ Nxt(S, f) <= Prv(S, p))
          BY <3>1, <5>1, <1>1
        <5>3. p <= f \/ Nxt(S, f) <= p
          BY <4>2, <1>2
        <5>4. QED
          BY <5>1, <5>2, <5>3, <1>7, <2>1, <1>1
      <4>3. QED
        BY <4>1, <4>2
    <3>3. \A r \in T : p <= r \/ r <= Prv(S, p)
      BY <3>1, <3>2
    <3>4. QED
      BY <3>1, <3>3, <2>1, <1>1, PrvOnly
  <2>4. QED
    BY <2>2, <2>3
<1>8. Nxt(T, f) = Nxt(S, f)
  <2>1. CASE Nxt(S, f) = 0
    <3>1. \A q \in T : q <= f
      BY <1>2, <2>1, <1>1
    <3>2. QED
      BY <3>1, <2>1, <1>1, NoNxt DEF NULL
  <2>2. CASE Nxt(S, f) # 0
    <3>1. Nxt(S, f) \in T /\ Nxt(S, f) > f /\ \A r \in T : r <= f \/ Nxt(S, f) <= r
      BY <1>2, <2>2, <1>1
    <3>2. QED
      BY <3>1, <1>1, NxtOnly
  <2>3. QED
    BY <2>1, <2>2
<1>9. Prv(T, f) = Prv(S, f)
  <2>1. CASE Prv(S, f) = 0
    <3>1. \A q \in T : f <= q
      BY <1>3, <2>1, <1>1
    <3>2. QED
      BY <3>1, <2>1, <1>1, NoPrv DEF NULL
  <2>2. CASE Prv(S, f) # 0
    <3>1. Prv(S, f) \in T /\ Prv(S, f) < f /\ \A r \in T : f <= r \/ r <= Prv(S, f)
      BY <1>3, <2>2, <1>1
    <3>2. QED
      BY <3>1, <1>1, PrvOnly
  <2>3. QED
    BY <2>1, <2>2
<1>10. QED
  BY <1>4, <1>5, <1>6, <1>7, <1>8, <1>9

(* And when it goes, its neighbours meet. *)
LEMMA Removed ==
  ASSUME NEW S, S \subseteq Places, NEW f \in S
  PROVE  /\ \A p \in (S \ {f}) \cup {0} : Nxt(S \ {f}, p) = IF p = Prv(S, f) THEN Nxt(S, f) ELSE Nxt(S, p)
         /\ \A p \in S \ {f} : Prv(S \ {f}, p) = IF p = Nxt(S, f) THEN Prv(S, f) ELSE Prv(S, p)
<1> DEFINE R == S \ {f}
<1>1. R \subseteq Places /\ f \in Places /\ f \notin R /\ R \cup {f} = S /\ R \subseteq Nat /\ f \in Nat /\ 0 \notin R /\ f > 0
  BY DEF Places
<1>2. /\ \A p \in R \cup {0} : Nxt(S, p) = IF p = Prv(R, f) THEN f ELSE Nxt(R, p)
      /\ \A p \in R : Prv(S, p) = IF p = Nxt(R, f) THEN f ELSE Prv(R, p)
      /\ Nxt(S, f) = Nxt(R, f) /\ Prv(S, f) = Prv(R, f)
  <2> HIDE DEF R
  <2>1. /\ \A p \in R \cup {0} : Nxt(R \cup {f}, p) = IF p = Prv(R, f) THEN f ELSE Nxt(R, p)
        /\ \A p \in R : Prv(R \cup {f}, p) = IF p = Nxt(R, f) THEN f ELSE Prv(R, p)
        /\ Nxt(R \cup {f}, f) = Nxt(R, f) /\ Prv(R \cup {f}, f) = Prv(R, f)
    BY <1>1, Inserted
  <2>2. QED
    BY <2>1, <1>1
<1> HIDE DEF R
<1>3. \/ Nxt(R, f) = 0 /\ \A q \in R : q <= f
      \/ Nxt(R, f) \in R /\ Nxt(R, f) > f /\ \A r \in R : r <= f \/ Nxt(R, f) <= r
  BY <1>1, NxtIs DEF NULL
<1>4. \/ Prv(R, f) = 0 /\ \A q \in R : f <= q
      \/ Prv(R, f) \in R /\ Prv(R, f) < f /\ \A r \in R : f <= r \/ r <= Prv(R, f)
  BY <1>1, PrvIs DEF NULL
<1>5. ASSUME NEW p \in R \cup {0}, p = Prv(R, f) PROVE Nxt(R, p) = Nxt(R, f)
  <2>2. p \in Nat
    BY <1>1
  <2>3. CASE Nxt(R, f) = 0
    <3>1. \A q \in R : q <= p
      BY <2>3, <1>3, <1>4, <1>5, <1>1
    <3>2. QED
      BY <3>1, <2>2, <2>3, <1>1, NoNxt DEF NULL
  <2>4. CASE Nxt(R, f) # 0
    <3>a. Nxt(R, f) \in Nat /\ Nxt(R, f) > f /\ p < f /\ \A r \in R : r <= f \/ Nxt(R, f) <= r
      <4>1. Nxt(R, f) \in R /\ Nxt(R, f) > f /\ \A r \in R : r <= f \/ Nxt(R, f) <= r
        BY <2>4, <1>3
      <4>2. p < f
        BY <1>4, <1>5, <1>1
      <4>3. QED
        BY <4>1, <4>2, <1>1
    <3>b. \A r \in R : r \in Nat /\ (f <= r \/ r <= p)
      BY <1>1, <1>4, <1>5
    <3>c. f \notin R
      BY <1>1
    <3>d. ASSUME NEW r \in R PROVE r <= p \/ Nxt(R, f) <= r
      <4>1. r # f /\ r \in Nat /\ (f <= r \/ r <= p) /\ (r <= f \/ Nxt(R, f) <= r)
        BY <3>a, <3>b, <3>c
      <4>2. QED
        BY <4>1, <1>1
    <3>1. Nxt(R, f) > p /\ \A r \in R : r <= p \/ Nxt(R, f) <= r
      BY <3>a, <3>d, <2>2, <1>1
    <3>2. QED
      BY <3>1, <2>2, <2>4, <1>3, <1>1, NxtOnly
  <2>5. QED
    BY <2>3, <2>4
<1>6. ASSUME NEW p \in R, p = Nxt(R, f) PROVE Prv(R, p) = Prv(R, f)
  <2>1. p \in Nat /\ p > f
    BY <1>1, <1>3, <1>6
  <2>3. CASE Prv(R, f) = 0
    <3>1. \A q \in R : p <= q
      BY <2>3, <1>3, <1>4, <1>6, <1>1
    <3>2. QED
      BY <3>1, <2>1, <2>3, <1>1, NoPrv DEF NULL
  <2>4. CASE Prv(R, f) # 0
    <3>a. Prv(R, f) \in Nat /\ Prv(R, f) < f /\ p > f /\ \A r \in R : f <= r \/ r <= Prv(R, f)
      BY <2>4, <1>4, <1>1, <2>1
    <3>b. \A r \in R : r \in Nat /\ (r <= f \/ p <= r)
      BY <1>1, <1>3, <1>6, <2>1
    <3>c. f \notin R
      BY <1>1
    <3>d. ASSUME NEW r \in R PROVE p <= r \/ r <= Prv(R, f)
      <4>1. r # f /\ r \in Nat /\ (r <= f \/ p <= r) /\ (f <= r \/ r <= Prv(R, f))
        BY <3>a, <3>b, <3>c
      <4>2. QED
        BY <4>1, <1>1
    <3>1. Prv(R, f) < p /\ \A r \in R : p <= r \/ r <= Prv(R, f)
      BY <3>a, <3>d, <2>1, <1>1
    <3>2. QED
      BY <3>1, <2>1, <2>4, <1>4, <1>1, PrvOnly
  <2>5. QED
    BY <2>3, <2>4
<1>7. \A p \in R \cup {0} : Nxt(R, p) = IF p = Prv(S, f) THEN Nxt(S, f) ELSE Nxt(S, p)
  BY <1>2, <1>5
<1>8. \A p \in R : Prv(R, p) = IF p = Nxt(S, f) THEN Prv(S, f) ELSE Prv(S, p)
  BY <1>2, <1>6
<1>9. QED
  BY <1>7, <1>8 DEF R

-----------------------------------------------------------------------------
(* Heaps.                                                                    *)

Heaps == [mem : [Words -> Int], roots : [0..4 -> Nat], brk : Nat]

(* r is h with v at p. *)
PutAs(r, h, p, v) ==
  /\ r \in Heaps /\ r.roots = h.roots /\ r.brk = h.brk
  /\ \A q \in Words : r.mem[q] = IF q = p THEN v ELSE h.mem[q]

LEMMA PutIs ==
  ASSUME NEW h \in Heaps, NEW p \in Words, NEW v \in Int
  PROVE  PutAs(PUT(h, p, v), h, p, v)
BY DEF Heaps, PUT, PutAs

LEMMA GetIs ==
  ASSUME NEW h \in Heaps, NEW p \in Words
  PROVE  GET(h, p) = h.mem[p] /\ GET(h, p) \in Int
BY DEF Heaps, GET

(* P is where the blocks begin, and the break: they begin at multiples of 8, are
   at least 16 bytes long and follow each other without a gap. *)
Grid(P, brk) ==
  /\ brk <= MAX_HEAP /\ 16 \in P /\ brk \in P
  /\ \A p \in P : p \in Nat /\ p % 8 = 0 /\ 16 <= p /\ p <= brk
  /\ \A p, q \in P : p < q => p + 16 <= q

(* The tag of block b when the blocks of G are free. *)
Tag(P, G, b) == (Nxt(P, b) - b) + (IF b \in G THEN 0 ELSE 1)

(* The words that hold tags, and those that hold links of the free blocks F. *)
TagWords(P) == {4, 8} \cup {p - 4 : p \in P} \cup {p - 8 : p \in P}
LinkWords(F) == F \cup {f + 4 : f \in F}

(* Every block has its tag before it and at its end; the prologue and the
   epilogue, which are never free, stand at both ends. *)
Tagged(h, P, G) ==
  /\ \A b \in P \ {h.brk} : h.mem[b - 4] = Tag(P, G, b) /\ h.mem[Nxt(P, b) - 8] = Tag(P, G, b)
  /\ h.mem[4] = 9 /\ h.mem[8] = 9 /\ h.mem[h.brk - 4] = 1

(* The last list holds F, in address order and linked both ways. *)
Linked(h, F) ==
  /\ \A i \in 0..3 : h.roots[i] = 0
  /\ h.roots[4] = Nxt(F, 0)
  /\ \A f \in F : h.mem[f] = Nxt(F, f) /\ h.mem[f + 4] = Prv(F, f)

(* A heap with its blocks at P, of which G have free tags and F are listed. *)
Shape(h, P, G, F) ==
  /\ h \in Heaps /\ Grid(P, h.brk)
  /\ G \subseteq P \ {h.brk} /\ F \subseteq P \ {h.brk}
  /\ Tagged(h, P, G) /\ Linked(h, F)

(* The block that begins at b ends at the next one. *)
LEMMA GridNext ==
  ASSUME NEW P, NEW brk, Grid(P, brk)
  PROVE  /\ P \subseteq Places /\ brk \in Nat
         /\ \A b \in P \ {brk} : /\ Nxt(P, b) \in P /\ b + 16 <= Nxt(P, b)
                                 /\ Prv(P, Nxt(P, b)) = b
                                 /\ \A r \in P : r <= b \/ Nxt(P, b) <= r
         /\ \A b \in P \ {16} : /\ Prv(P, b) \in P /\ Prv(P, b) + 16 <= b
                                /\ Nxt(P, Prv(P, b)) = b /\ Prv(P, b) # brk
                                /\ \A r \in P : b <= r \/ r <= Prv(P, b)
<1>1. brk \in P /\ 16 \in P /\ \A p \in P : p \in Nat /\ 16 <= p /\ p <= brk
  BY DEF Grid
<1>2. P \subseteq Places /\ brk \in Nat
  BY <1>1, MmAssumption DEF Grid, Places
<1>3. ASSUME NEW b \in P \ {brk}
      PROVE  /\ Nxt(P, b) \in P /\ b + 16 <= Nxt(P, b) /\ Prv(P, Nxt(P, b)) = b
             /\ \A r \in P : r <= b \/ Nxt(P, b) <= r
  <2>1. b \in Nat /\ b \in P /\ b <= brk /\ b # brk
    BY <1>1
  <2>2. ~ \A q \in P : q <= b
    BY <2>1, <1>1, <1>2
  <2>3. \/ Nxt(P, b) = NULL /\ \A q \in P : q <= b
        \/ Nxt(P, b) \in P /\ Nxt(P, b) > b /\ \A r \in P : r <= b \/ Nxt(P, b) <= r
    BY <2>1, <1>2, NxtIs
  <2>4. Nxt(P, b) \in P /\ Nxt(P, b) > b /\ \A r \in P : r <= b \/ Nxt(P, b) <= r
    BY <2>2, <2>3
  <2>5. Nxt(P, b) # 0 /\ Nxt(P, b) \in Nat
    BY <2>4, <1>1
  <2>6. Prv(P, Nxt(P, b)) = b
    BY <2>5, <1>2, Mutual
  <2>7. b + 16 <= Nxt(P, b)
    BY <2>4, <2>1, <2>5 DEF Grid
  <2>8. QED
    BY <2>4, <2>6, <2>7
<1>4. ASSUME NEW b \in P \ {16}
      PROVE  /\ Prv(P, b) \in P /\ Prv(P, b) + 16 <= b /\ Nxt(P, Prv(P, b)) = b /\ Prv(P, b) # brk
             /\ \A r \in P : b <= r \/ r <= Prv(P, b)
  <2>1. b \in Nat /\ b \in P /\ 16 <= b /\ b # 16 /\ b <= brk
    BY <1>1
  <2>2. ~ \A q \in P : b <= q
    BY <2>1, <1>1
  <2>3. \/ Prv(P, b) = NULL /\ \A q \in P : b <= q
        \/ Prv(P, b) \in P /\ Prv(P, b) < b /\ \A r \in P : b <= r \/ r <= Prv(P, b)
    BY <2>1, <1>2, PrvIs
  <2>4. Prv(P, b) \in P /\ Prv(P, b) < b /\ \A r \in P : b <= r \/ r <= Prv(P, b)
    BY <2>2, <2>3
  <2>5. Prv(P, b) # 0 /\ Prv(P, b) \in Nat
    BY <2>4, <1>1
  <2>6. Nxt(P, Prv(P, b)) = b
    BY <2>5, <2>1, <1>2, Mutual
  <2>7. Prv(P, b) + 16 <= b
    BY <2>4, <2>1, <2>5 DEF Grid
  <2>8. Prv(P, b) # brk
    BY <2>4, <2>1, <1>2
  <2>9. QED
    BY <2>4, <2>6, <2>7, <2>8
<1>5. QED
  BY <1>2, <1>3, <1>4

(* Tags and links are words, and never the same. *)
LEMMA GridWords ==
  ASSUME NEW P, NEW brk, Grid(P, brk), NEW F, F \subseteq P \ {brk}
  PROVE  /\ TagWords(P) \subseteq Words /\ LinkWords(F) \subseteq Words
         /\ TagWords(P) \cap LinkWords(F) = {}
         /\ \A f, g \in F : f # g + 4
<1>1. brk \in P /\ 16 \in P /\ \A p \in P : p \in Nat /\ p % 8 = 0 /\ 16 <= p /\ p <= brk
  BY DEF Grid
<1>2. brk <= MAX_HEAP /\ MAX_HEAP \in Nat /\ brk \in Nat
  BY <1>1, MmAssumption DEF Grid
<1>3. \A f \in F : f \in P /\ f \in Nat /\ f + 16 <= brk
  BY <1>1, <1>2 DEF Grid
<1>4. \A p \in P : p - 4 \in Words /\ p - 8 \in Words
  <2>1. SUFFICES ASSUME NEW p \in P PROVE p - 4 \in Words /\ p - 8 \in Words
    OBVIOUS
  <2>2. p \in Nat /\ p % 8 = 0 /\ 16 <= p /\ p <= MAX_HEAP
    BY <1>1, <1>2
  <2>3. (p - 4) % 4 = 0 /\ (p - 8) % 4 = 0
    BY <2>2
  <2>4. QED
    BY <2>2, <2>3, <1>2, WordIs
<1>5. \A f \in F : f \in Words /\ f + 4 \in Words
  <2>1. SUFFICES ASSUME NEW f \in F PROVE f \in Words /\ f + 4 \in Words
    OBVIOUS
  <2>2. f \in Nat /\ f % 8 = 0 /\ f + 16 <= MAX_HEAP
    BY <1>1, <1>2, <1>3
  <2>3. f % 4 = 0 /\ (f + 4) % 4 = 0
    BY <2>2
  <2>4. QED
    BY <2>2, <2>3, <1>2, WordIs
<1>6. 4 \in Words /\ 8 \in Words
  BY <1>2, MmAssumption, WordIs
<1>7. \A f, g \in F : f # g + 4
  BY <1>1, <1>3
<1>8. ASSUME NEW f \in F, NEW p \in P PROVE f # p - 4 /\ f # p - 8 /\ f + 4 # p - 4 /\ f + 4 # p - 8
  <2>1. f \in Nat /\ p \in Nat /\ f % 8 = 0 /\ p % 8 = 0 /\ f \in P
    BY <1>1, <1>3
  <2>2. f < p => f + 16 <= p
    BY <2>1 DEF Grid
  <2>3. f # p - 4 /\ f + 4 # p - 8
    BY <2>1
  <2>4. QED
    BY <2>1, <2>2, <2>3
<1>9. ASSUME NEW f \in F PROVE f \notin {4, 8} /\ f + 4 \notin {4, 8}
  BY <1>1, <1>3
<1>10. TagWords(P) \cap LinkWords(F) = {}
  BY <1>8, <1>9 DEF TagWords, LinkWords
<1>11. QED
  BY <1>4, <1>5, <1>6, <1>7, <1>10 DEF TagWords, LinkWords

(* What the macros read at block b. *)
LEMMA BlockIs ==
  ASSUME NEW h, NEW P, NEW G, NEW F, Shape(h, P, G, F), NEW b \in P \ {h.brk}
  PROVE  /\ GET_SIZE(h, HDRP(b)) = Nxt(P, b) - b /\ (Nxt(P, b) - b) % 8 = 0
         /\ FreeAt(h, b) <=> b \in G
         /\ GET_ALLOC(h, HDRP(b)) = IF b \in G THEN 0 ELSE 1
         /\ NEXT_BLKP(h, b) = Nxt(P, b) /\ FTRP(h, b) = Nxt(P, b) - 8
         /\ h.mem[b - 4] = Tag(P, G, b) /\ h.mem[Nxt(P, b) - 8] = Tag(P, G, b)
<1>1. h \in Heaps /\ Grid(P, h.brk) /\ Tagged(h, P, G) /\ {} \subseteq P \ {h.brk}
  BY DEF Shape
<1>2. b \in Nat /\ b % 8 = 0 /\ b \in P
  BY <1>1 DEF Grid
<1>3. Nxt(P, b) \in P /\ b + 16 <= Nxt(P, b) /\ Nxt(P, b) \in Nat /\ Nxt(P, b) % 8 = 0
  BY <1>1, GridNext DEF Grid
<1> DEFINE s == Nxt(P, b) - b
           a == IF b \in G THEN 0 ELSE 1
<1>4. s \in Nat /\ s % 8 = 0 /\ a \in {0, 1}
  BY <1>2, <1>3, EightsAdd
<1>5. b - 4 \in TagWords(P) /\ TagWords(P) \subseteq Words
  BY <1>1, <1>2, GridWords DEF TagWords
<1>6. b - 4 \in Words
  BY <1>5
<1>7. h.mem[b - 4] = Tag(P, G, b) /\ h.mem[Nxt(P, b) - 8] = Tag(P, G, b)
  BY <1>1 DEF Tagged
<1>8. Tag(P, G, b) = s + a
  BY DEF Tag
<1>9. HDRP(b) = b - 4
  BY DEF HDRP, WSIZE
<1>10. GET(h, HDRP(b)) = s + a
  BY <1>1, <1>6, <1>7, <1>8, <1>9, GetIs
<1>11. (s + a) % 8 = a /\ (s + a) - ((s + a) % 8) = s /\ (s + a) % 2 = a
  <2> HIDE DEF s, a
  <2>1. QED
    BY <1>4, TagSplits
<1>12. GET_SIZE(h, HDRP(b)) = s /\ GET_ALLOC(h, HDRP(b)) = a
  BY <1>10, <1>11 DEF GET_SIZE, GET_ALLOC
<1>13. NEXT_BLKP(h, b) = Nxt(P, b) /\ FTRP(h, b) = Nxt(P, b) - 8
  BY <1>12, <1>2, <1>3 DEF NEXT_BLKP, FTRP, DSIZE
<1>14. QED
  BY <1>12, <1>13, <1>4, <1>7 DEF FreeAt

(* And at the break, where the epilogue stands for a block. *)
LEMMA EpilogueIs ==
  ASSUME NEW h, NEW P, NEW G, NEW F, Shape(h, P, G, F)
  PROVE  /\ GET(h, HDRP(h.brk)) = 1 /\ GET_SIZE(h, HDRP(h.brk)) = 0 /\ GET_ALLOC(h, HDRP(h.brk)) = 1
         /\ ~ FreeAt(h, h.brk) /\ NEXT_BLKP(h, h.brk) = h.brk
<1>1. h \in Heaps /\ Grid(P, h.brk) /\ Tagged(h, P, G) /\ {} \subseteq P \ {h.brk}
  BY DEF Shape
<1>2. h.brk \in P /\ h.brk \in Nat
  BY <1>1 DEF Grid
<1>3. h.brk - 4 \in TagWords(P) /\ TagWords(P) \subseteq Words
  BY <1>1, <1>2, GridWords DEF TagWords
<1>4. GET(h, h.brk - 4) = 1
  BY <1>1, <1>3, GetIs DEF Tagged
<1>5. HDRP(h.brk) = h.brk - 4
  BY DEF HDRP, WSIZE
<1>6. GET_SIZE(h, HDRP(h.brk)) = 0 /\ GET_ALLOC(h, HDRP(h.brk)) = 1
  BY <1>4, <1>5 DEF GET_SIZE, GET_ALLOC
<1>7. NEXT_BLKP(h, h.brk) = h.brk
  BY <1>6, <1>2 DEF NEXT_BLKP
<1>8. QED
  BY <1>4, <1>5, <1>6, <1>7 DEF FreeAt

(* The block before the one at b, or the prologue. *)
LEMMA PrevIs ==
  ASSUME NEW h, NEW P, NEW G, NEW F, Shape(h, P, G, F), NEW b \in P
  PROVE  /\ b # 16 => PREV_BLKP(h, b) = Prv(P, b) /\ Prv(P, b) \in P \ {h.brk}
         /\ b = 16 => PREV_BLKP(h, b) = 8 /\ ~ FreeAt(h, PREV_BLKP(h, b))
<1>1. h \in Heaps /\ Grid(P, h.brk) /\ Tagged(h, P, G) /\ {} \subseteq P \ {h.brk}
  BY DEF Shape
<1>2. b \in Nat /\ b % 8 = 0
  BY <1>1 DEF Grid
<1>3. TagWords(P) \subseteq Words /\ b - 8 \in TagWords(P) /\ 4 \in TagWords(P) /\ 8 \in TagWords(P)
  BY <1>1, <1>2, GridWords DEF TagWords
<1>4. GET(h, b - 8) = h.mem[b - 8] /\ GET(h, 4) = 9 /\ GET(h, 8) = 9
  <2>1. b - 8 \in Words /\ 4 \in Words /\ 8 \in Words /\ h.mem[4] = 9 /\ h.mem[8] = 9
    BY <1>1, <1>3 DEF Tagged
  <2>2. QED
    BY <2>1, <1>1, GetIs
<1>5. CASE b = 16
  <2>1. PREV_BLKP(h, b) = 8
    BY <1>4, <1>5 DEF PREV_BLKP, GET_SIZE, DSIZE
  <2>2. ~ FreeAt(h, 8)
    BY <1>4 DEF FreeAt, GET_ALLOC, HDRP, WSIZE
  <2>3. QED
    BY <2>1, <2>2, <1>5
<1>6. CASE b # 16
  <2> DEFINE c == Prv(P, b)
             s == b - c
             a == IF c \in G THEN 0 ELSE 1
  <2>1. c \in P \ {h.brk} /\ c + 16 <= b /\ Nxt(P, c) = b
    BY <1>1, <1>6, GridNext
  <2>2. c \in Nat /\ c % 8 = 0
    BY <2>1, <1>1 DEF Grid
  <2>3. h.mem[b - 8] = s + a
    <3>1. h.mem[Nxt(P, c) - 8] = Tag(P, G, c)
      BY <2>1, <1>1 DEF Tagged
    <3>2. QED
      BY <3>1, <2>1 DEF Tag
  <2>4. s \in Nat /\ s % 8 = 0 /\ a \in {0, 1}
    BY <2>1, <2>2, <1>2
  <2>5. (s + a) - ((s + a) % 8) = s
    <3> HIDE DEF s, a
    <3>1. QED
      BY <2>4, TagSplits
  <2>6. GET_SIZE(h, b - 8) = s
    BY <2>3, <2>5, <1>4 DEF GET_SIZE
  <2>7. PREV_BLKP(h, b) = c
    BY <2>6, <2>2, <1>2 DEF PREV_BLKP, DSIZE
  <2>8. QED
    BY <2>7, <2>1, <1>6
<1>7. QED
  BY <1>5, <1>6

(* A heap with the same tags and links has the same shape. *)
LEMMA Framed ==
  ASSUME NEW h, NEW P, NEW G, NEW F, Shape(h, P, G, F),
         NEW g \in Heaps, g.roots = h.roots, g.brk = h.brk,
         \A w \in TagWords(P) \cup LinkWords(F) : g.mem[w] = h.mem[w]
  PROVE  Shape(g, P, G, F)
<1>1. h \in Heaps /\ Grid(P, h.brk) /\ Tagged(h, P, G) /\ Linked(h, F) /\ F \subseteq P \ {h.brk} /\ G \subseteq P \ {h.brk}
  BY DEF Shape
<1>2. Linked(g, F)
  BY <1>1 DEF Linked, LinkWords
<1>3. \A b \in P \ {h.brk} : Nxt(P, b) \in P
  BY <1>1, GridNext
<1>4. h.brk \in P
  BY <1>1 DEF Grid
<1>5. \A p \in P : g.mem[p - 4] = h.mem[p - 4] /\ g.mem[p - 8] = h.mem[p - 8]
  BY DEF TagWords
<1>6. g.mem[4] = h.mem[4] /\ g.mem[8] = h.mem[8]
  BY DEF TagWords
<1>7. Tagged(g, P, G)
  BY <1>1, <1>3, <1>4, <1>5, <1>6 DEF Tagged
<1>8. QED
  BY <1>1, <1>2, <1>7 DEF Shape

-----------------------------------------------------------------------------
(* The free list.                                                            *)

(* r is h with x before y in its last list. *)
Joined(r, h, x, y) ==
  /\ r \in Heaps /\ r.brk = h.brk
  /\ r.roots = IF x = 0 THEN [h.roots EXCEPT ![4] = y] ELSE h.roots
  /\ \A w \in Words : r.mem[w] = IF x # 0 /\ w = x THEN y ELSE IF y # 0 /\ w = y + 4 THEN x ELSE h.mem[w]

LEMMA JoinIs ==
  ASSUME NEW h \in Heaps, NEW x \in Nat, NEW y \in Nat, x = 0 \/ x \in Words, y = 0 \/ y + 4 \in Words
  PROVE  Joined(Join(h, 4, x, y), h, x, y)
<1> DEFINE g == IF y # NULL THEN PUT(h, y + WSIZE, x) ELSE h
<1>1. /\ g \in Heaps /\ g.roots = h.roots /\ g.brk = h.brk
      /\ \A w \in Words : g.mem[w] = IF y # 0 /\ w = y + 4 THEN x ELSE h.mem[w]
  <2>1. CASE y = 0
    BY <2>1 DEF NULL
  <2>2. CASE y # 0
    <3>1. y + 4 \in Words /\ x \in Int
      BY <2>2
    <3>2. g = PUT(h, y + 4, x)
      BY <2>2 DEF NULL, WSIZE
    <3>3. PutAs(PUT(h, y + 4, x), h, y + 4, x)
      BY <3>1, PutIs
    <3>4. QED
      BY <3>2, <3>3, <2>2 DEF PutAs
  <2>3. QED
    BY <2>1, <2>2
<1> HIDE DEF g
<1>2. CASE x = 0
  <2>1. Join(h, 4, x, y) = [g EXCEPT !.roots[4] = y]
    BY <1>2 DEF Join, NULL, g
  <2>2. QED
    BY <2>1, <1>1, <1>2 DEF Heaps, Joined
<1>3. CASE x # 0
  <2>1. Join(h, 4, x, y) = PUT(g, x, y)
    BY <1>3 DEF Join, NULL, g
  <2>2. x \in Words /\ y \in Int
    BY <1>3
  <2>3. PutAs(PUT(g, x, y), g, x, y)
    BY <2>2, <1>1, PutIs
  <2>4. QED
    BY <2>1, <2>3, <1>1, <1>3 DEF Joined, PutAs
<1>4. QED
  BY <1>2, <1>3

(* The listed blocks: free blocks that are 16 bytes apart, each pointing to the
   next. *)
LEMMA ListIs ==
  ASSUME NEW h, NEW P, NEW G, NEW F, Shape(h, P, G, F)
  PROVE  /\ F \subseteq Places /\ F \subseteq Words
         /\ \A f \in F : f \in Nat /\ 16 <= f /\ f <= MAX_HEAP
         /\ \A f, g \in F : f < g => f + 16 <= g
         /\ \A f \in F : Next_free(h, f) = Nxt(F, f)
         /\ h.roots[4] = Nxt(F, 0) /\ h.roots[4] \in F \cup {0}
         /\ h.roots[4] = 0 => F = {}
         /\ h.roots[4] # 0 => \A f \in F : h.roots[4] <= f
<1>1. h \in Heaps /\ Grid(P, h.brk) /\ Linked(h, F) /\ F \subseteq P \ {h.brk}
  BY DEF Shape
<1>2. \A f \in F : f \in Nat /\ 16 <= f /\ f <= MAX_HEAP
  <2>1. \A p \in P : p \in Nat /\ 16 <= p /\ p <= h.brk /\ h.brk <= MAX_HEAP /\ h.brk \in Nat
    BY <1>1 DEF Grid
  <2>2. QED
    BY <2>1, <1>1, MmAssumption
<1>3. F \subseteq Places
  BY <1>2 DEF Places
<1>4. F \subseteq Words
  BY <1>1, GridWords DEF LinkWords
<1>5. \A f, g \in F : f < g => f + 16 <= g
  BY <1>1 DEF Grid
<1>6. \A f \in F : Next_free(h, f) = Nxt(F, f)
  BY <1>1, <1>4, GetIs DEF Linked, Next_free
<1>7. h.roots[4] = Nxt(F, 0)
  BY <1>1 DEF Linked
<1>8. \/ Nxt(F, 0) = 0 /\ \A q \in F : q <= 0
      \/ Nxt(F, 0) \in F /\ Nxt(F, 0) > 0 /\ \A r \in F : r <= 0 \/ Nxt(F, 0) <= r
  BY <1>3, NxtIs DEF NULL
<1>9. \A f \in F : f \in Nat /\ ~ (f <= 0)
  BY <1>2
<1>10. QED
  BY <1>2, <1>3, <1>4, <1>5, <1>6, <1>7, <1>8, <1>9

LEMMA BeforeIs ==
  ASSUME NEW h, NEW P, NEW G, NEW F, Shape(h, P, G, F), NEW bp \in Nat, bp \notin F
  PROVE  Before(h, 4, bp) = Prv(F, bp)
<1> DEFINE next == [p \in Int |-> IF Next_free(h, p) # NULL /\ bp > Next_free(h, p) THEN Next_free(h, p) ELSE p]
           X == {f \in F : f < bp}
<1>1. /\ F \subseteq Places /\ \A f \in F : f \in Nat /\ 16 <= f /\ f <= MAX_HEAP
      /\ \A f, g \in F : f < g => f + 16 <= g
      /\ \A f \in F : Next_free(h, f) = Nxt(F, f)
      /\ h.roots[4] = Nxt(F, 0) /\ h.roots[4] \in F \cup {0}
      /\ h.roots[4] = 0 => F = {}
      /\ h.roots[4] # 0 => \A f \in F : h.roots[4] <= f
  BY ListIs
<1>a. \A f \in F : f \in Nat /\ f >= 16
  BY <1>1
<1>2. \A f \in F : f \in Nat /\ f >= 16 /\ f # bp
  BY <1>a
<1>3. CASE h.roots[4] = NULL
  <2>1. Before(h, 4, bp) = NULL
    BY <1>3 DEF Before
  <2>2. \A q \in F : bp <= q
    BY <1>3, <1>1 DEF NULL
  <2>3. QED
    BY <2>1, <2>2, <1>1, NoPrv
<1>4. CASE h.roots[4] # NULL /\ bp < h.roots[4]
  <2>1. Before(h, 4, bp) = NULL
    BY <1>4 DEF Before
  <2>2. \A q \in F : bp <= q
    <3>1. h.roots[4] \in Nat /\ \A q \in F : h.roots[4] <= q /\ q \in Nat
      BY <1>4, <1>1, <1>2 DEF NULL
    <3>2. QED
      BY <3>1, <1>4
  <2>3. QED
    BY <2>1, <2>2, <1>1, NoPrv
<1>5. CASE h.roots[4] # NULL /\ ~ (bp < h.roots[4])
  <2>1. h.roots[4] \in X /\ h.roots[4] >= 16
    <3>1. h.roots[4] \in F
      BY <1>5, <1>1 DEF NULL
    <3>2. h.roots[4] \in Nat /\ h.roots[4] # bp /\ h.roots[4] >= 16
      BY <3>1, <1>2
    <3>3. QED
      BY <3>1, <3>2, <1>5
  <2>2. X \subseteq 0..MAX_HEAP
    BY <1>1, MmAssumption
  <2>3. \A x \in X : next[x] = IF Nxt(F, x) # 0 /\ bp > Nxt(F, x) THEN Nxt(F, x) ELSE x
    BY <1>1, <1>2 DEF NULL
  <2>4. \A x \in X : /\ Nxt(F, x) \in F \cup {0}
                     /\ Nxt(F, x) # 0 => Nxt(F, x) > x
    BY <1>1, Mutual
  <2>5. Climbs(next, X)
    <3> SUFFICES ASSUME NEW x \in X
                 PROVE  next[x] \in X /\ (next[next[x]] = next[x] \/ next[x] >= x + 16)
      BY DEF Climbs
    <3>1. CASE Nxt(F, x) # 0 /\ bp > Nxt(F, x)
      <4>1. next[x] = Nxt(F, x) /\ Nxt(F, x) \in F /\ Nxt(F, x) > x
        BY <3>1, <2>3, <2>4
      <4>2. Nxt(F, x) \in X /\ x + 16 <= Nxt(F, x)
        BY <4>1, <3>1, <1>1, <1>2
      <4>3. x \in Nat /\ Nxt(F, x) \in Nat
        BY <4>1, <1>2
      <4>4. QED
        BY <4>1, <4>2, <4>3
    <3>2. CASE ~ (Nxt(F, x) # 0 /\ bp > Nxt(F, x))
      BY <3>2, <2>3
    <3>3. QED
      BY <3>1, <3>2
  <2> DEFINE w == WalksTo(next, h.roots[4])
  <2>6. Before(h, 4, bp) = w
    BY <1>5 DEF Before
  <2> HIDE DEF next, X
  <2>7. w \in X /\ next[w] = w
    <3> DEFINE r == h.roots[4]
    <3>1. r \in X /\ (r >= 16 \/ next[r] = r)
      BY <2>1
    <3> HIDE DEF r
    <3>2. WalksTo(next, r) \in X /\ next[WalksTo(next, r)] = WalksTo(next, r)
      BY <3>1, <2>2, <2>5, WalkStops
    <3>3. QED
      BY <3>2 DEF r
  <2> HIDE DEF w
  <2>8. ~ (Nxt(F, w) # 0 /\ bp > Nxt(F, w))
    <3>1. ASSUME Nxt(F, w) # 0, bp > Nxt(F, w) PROVE FALSE
      <4>1. next[w] = Nxt(F, w) /\ Nxt(F, w) > w
        BY <3>1, <2>7, <2>3, <2>4
      <4>2. w \in Nat
        BY <2>7, <1>2 DEF X
      <4>3. QED
        BY <4>1, <4>2, <2>7
    <3>2. QED
      BY <3>1
  <2>9. w \in F /\ w < bp /\ w \in Nat
    BY <2>7, <1>2 DEF X
  <2>10. \/ Nxt(F, w) = 0 /\ \A q \in F : q <= w
         \/ Nxt(F, w) \in F /\ Nxt(F, w) > w /\ \A r \in F : r <= w \/ Nxt(F, w) <= r
    BY <2>9, <1>1, NxtIs DEF NULL
  <2>11. \A r \in F : bp <= r \/ r <= w
    BY <2>10, <2>8, <1>2
  <2>12. QED
    BY <2>6, <2>9, <2>11, <1>1, PrvOnly
<1>6. QED
  BY <1>3, <1>4, <1>5

LEMMA PointsToIs ==
  ASSUME NEW h, NEW P, NEW G, NEW F, Shape(h, P, G, F), NEW bp \in F
  PROVE  PointsTo(h, 4, bp) = Prv(F, bp)
<1> DEFINE next == [p \in Int |-> IF Next_free(h, p) # bp THEN Next_free(h, p) ELSE p]
           X == {f \in F : f < bp}
<1>1. /\ F \subseteq Places /\ \A f \in F : f \in Nat /\ 16 <= f /\ f <= MAX_HEAP
      /\ \A f, g \in F : f < g => f + 16 <= g
      /\ \A f \in F : Next_free(h, f) = Nxt(F, f)
      /\ h.roots[4] = Nxt(F, 0) /\ h.roots[4] \in F \cup {0}
      /\ h.roots[4] = 0 => F = {}
      /\ h.roots[4] # 0 => \A f \in F : h.roots[4] <= f
  BY ListIs
<1>2. \A f \in F : f \in Nat /\ f >= 16
  BY <1>1
<1>3. h.roots[4] # 0 /\ h.roots[4] <= bp /\ h.roots[4] \in F
  BY <1>1
<1>4. CASE h.roots[4] = bp
  <2>1. PointsTo(h, 4, bp) = NULL
    BY <1>4 DEF PointsTo
  <2>2. \A q \in F : bp <= q
    BY <1>4, <1>1, <1>3
  <2>3. QED
    BY <2>1, <2>2, <1>1, <1>2, NoPrv
<1>5. CASE h.roots[4] # bp
  <2>1. h.roots[4] \in X /\ h.roots[4] >= 16
    BY <1>5, <1>3, <1>2
  <2>2. X \subseteq 0..MAX_HEAP
    BY <1>1, MmAssumption
  <2>3. \A x \in X : next[x] = IF Nxt(F, x) # bp THEN Nxt(F, x) ELSE x
    BY <1>1, <1>2
  <2>4. \A x \in X : Nxt(F, x) \in F /\ Nxt(F, x) > x /\ Nxt(F, x) <= bp
    <3> SUFFICES ASSUME NEW x \in X PROVE Nxt(F, x) \in F /\ Nxt(F, x) > x /\ Nxt(F, x) <= bp
      OBVIOUS
    <3>1. x \in Nat /\ bp \in Nat /\ ~ (bp <= x)
      BY <1>2
    <3>2. \/ Nxt(F, x) = NULL /\ \A q \in F : q <= x
          \/ Nxt(F, x) \in F /\ Nxt(F, x) > x /\ \A r \in F : r <= x \/ Nxt(F, x) <= r
      BY <3>1, <1>1, NxtIs
    <3>3. QED
      BY <3>1, <3>2
  <2>5. Climbs(next, X)
    <3> SUFFICES ASSUME NEW x \in X
                 PROVE  next[x] \in X /\ (next[next[x]] = next[x] \/ next[x] >= x + 16)
      BY DEF Climbs
    <3>1. CASE Nxt(F, x) # bp
      <4>1. next[x] = Nxt(F, x) /\ Nxt(F, x) \in F /\ Nxt(F, x) > x /\ Nxt(F, x) < bp
        BY <3>1, <2>3, <2>4, <1>2
      <4>2. Nxt(F, x) \in X /\ x + 16 <= Nxt(F, x)
        BY <4>1, <1>1, <1>2
      <4>3. x \in Nat /\ Nxt(F, x) \in Nat
        BY <4>1, <1>2
      <4>4. QED
        BY <4>1, <4>2, <4>3
    <3>2. CASE Nxt(F, x) = bp
      BY <3>2, <2>3
    <3>3. QED
      BY <3>1, <3>2
  <2> DEFINE w == WalksTo(next, h.roots[4])
  <2>6. PointsTo(h, 4, bp) = w
    BY <1>5 DEF PointsTo
  <2> HIDE DEF next, X
  <2>7. w \in X /\ next[w] = w
    BY <2>1, <2>2, <2>5, WalkStops, ZenonT(40)
  <2> HIDE DEF w
  <2>8. w \in F /\ w < bp /\ w \in Nat
    BY <2>7, <1>2 DEF X
  <2>9. Nxt(F, w) = bp
    BY <2>7, <2>3, <2>4, <2>8
  <2>10. Prv(F, bp) = w
    <3>1. Nxt(F, w) # 0
      BY <2>9, <1>2
    <3>2. Prv(F, Nxt(F, w)) = w
      BY <3>1, <2>8, <1>1, Mutual
    <3>3. QED
      BY <3>2, <2>9
  <2>11. QED
    BY <2>6, <2>10
<1>6. QED
  BY <1>4, <1>5

(* A list is searched from its start: the first block of at least size bytes. *)
LEMMA FirstFitIs ==
  ASSUME NEW h, NEW P, NEW G, NEW F, Shape(h, P, G, F), NEW size \in Nat
  PROVE  \/ FirstFit(h, 4, size) = 0 /\ \A f \in F : Nxt(P, f) - f < size
         \/ FirstFit(h, 4, size) \in F /\ Nxt(P, FirstFit(h, 4, size)) - FirstFit(h, 4, size) >= size
<1> DEFINE next == [p \in Int |-> IF p # NULL /\ GET_SIZE(h, HDRP(p)) < size THEN Next_free(h, p) ELSE p]
           Small(f) == Nxt(P, f) - f < size
           X == {x \in F : \A g \in F : g < x => Small(g)} \cup {x \in {0} : \A g \in F : Small(g)}
<1>1. /\ F \subseteq Places /\ \A f \in F : f \in Nat /\ 16 <= f /\ f <= MAX_HEAP
      /\ \A f, g \in F : f < g => f + 16 <= g
      /\ \A f \in F : Next_free(h, f) = Nxt(F, f)
      /\ h.roots[4] \in F \cup {0}
      /\ h.roots[4] = 0 => F = {}
      /\ h.roots[4] # 0 => \A f \in F : h.roots[4] <= f
  BY ListIs
<1>2. \A f \in F : f \in Nat /\ f # 0
  BY <1>1
<1>3. \A f \in F : GET_SIZE(h, HDRP(f)) = Nxt(P, f) - f
  <2>1. F \subseteq P \ {h.brk}
    BY DEF Shape
  <2>2. QED
    BY <2>1, BlockIs
<1>4. \A f \in F : next[f] = IF Small(f) THEN Nxt(F, f) ELSE f
  BY <1>1, <1>2, <1>3 DEF NULL
<1>5. next[0] = 0
  BY DEF NULL
<1>6. h.roots[4] \in X /\ (h.roots[4] >= 16 \/ next[h.roots[4]] = h.roots[4])
  <2>1. CASE h.roots[4] = 0
    BY <2>1, <1>1, <1>5
  <2>2. CASE h.roots[4] # 0
    <3>1. h.roots[4] \in F /\ h.roots[4] >= 16 /\ h.roots[4] \in Nat
      BY <2>2, <1>1
    <3>2. \A g \in F : ~ (g < h.roots[4])
      BY <3>1, <2>2, <1>1
    <3>3. QED
      BY <3>1, <3>2
  <2>3. QED
    BY <2>1, <2>2
<1>7. X \subseteq 0..MAX_HEAP
  BY <1>1, MmAssumption
<1>8. ASSUME NEW x \in X PROVE next[x] \in X /\ (next[next[x]] = next[x] \/ next[x] >= x + 16)
  <2>1. CASE x \notin F
    <3>1. x = 0
      BY <2>1
    <3>2. QED
      BY <3>1, <1>5, <1>8
  <2>2. CASE x \in F /\ ~ Small(x)
    BY <2>2, <1>4, <1>8
  <2>3. CASE x \in F /\ Small(x)
    <3>1. next[x] = Nxt(F, x) /\ x \in Nat /\ x # 0
      BY <2>3, <1>4, <1>2
    <3>2. \A g \in F : g < x => Small(g)
      BY <1>8, <3>1
    <3>3. \A g \in F : g <= x => Small(g)
      BY <3>2, <2>3, <1>2, <3>1
    <3>4. \/ Nxt(F, x) = 0 /\ \A q \in F : q <= x
          \/ Nxt(F, x) \in F /\ Nxt(F, x) > x /\ \A r \in F : r <= x \/ Nxt(F, x) <= r
      BY <3>1, <1>1, NxtIs DEF NULL
    <3>5. CASE Nxt(F, x) = 0 /\ \A q \in F : q <= x
      <4>1. \A g \in F : Small(g)
        BY <3>5, <3>3
      <4>2. QED
        BY <4>1, <3>5, <3>1, <1>5
    <3>6. CASE Nxt(F, x) \in F /\ Nxt(F, x) > x /\ \A r \in F : r <= x \/ Nxt(F, x) <= r
      <4>1. Nxt(F, x) \in Nat
        BY <3>6, <1>2
      <4>2. \A g \in F : g < Nxt(F, x) => g <= x
        BY <3>6, <4>1, <1>2, <3>1
      <4>3. Nxt(F, x) \in X
        BY <4>2, <3>3, <3>6
      <4>4. Nxt(F, x) >= x + 16
        BY <3>6, <2>3, <1>1, <4>1, <3>1
      <4>5. QED
        BY <4>3, <4>4, <3>1
    <3>7. QED
      BY <3>4, <3>5, <3>6
  <2>4. QED
    BY <2>1, <2>2, <2>3
<1>9. Climbs(next, X)
  BY <1>8 DEF Climbs
<1> DEFINE w == WalksTo(next, h.roots[4])
<1>10. FirstFit(h, 4, size) = w
  BY DEF FirstFit
<1> HIDE DEF next, X
<1>11. w \in X /\ next[w] = w
  <2> DEFINE r == h.roots[4]
  <2>1. r \in X /\ (r >= 16 \/ next[r] = r)
    BY <1>6
  <2> HIDE DEF r
  <2>2. WalksTo(next, r) \in X /\ next[WalksTo(next, r)] = WalksTo(next, r)
    BY <2>1, <1>7, <1>9, WalkStops
  <2>3. QED
    BY <2>2 DEF r
<1> HIDE DEF w
<1>12. CASE w \in F
  <2>1. ~ Small(w)
    <3>1. ASSUME Small(w) PROVE FALSE
      <4>1. next[w] = Nxt(F, w)
        BY <3>1, <1>12, <1>4
      <4>2. Nxt(F, w) # w
        <5>1. w \in Nat /\ w # 0 /\ F \subseteq Places
          BY <1>12, <1>1, <1>2
        <5>2. Nxt(F, w) # 0 => Nxt(F, w) > w
          BY <5>1, <1>12, Mutual
        <5>3. QED
          BY <5>1, <5>2
      <4>3. QED
        BY <4>1, <4>2, <1>11
    <3>2. QED
      BY <3>1
  <2>2. Nxt(P, w) \in Int /\ w \in Int
    <3>1. F \subseteq P \ {h.brk} /\ Grid(P, h.brk)
      BY DEF Shape
    <3>2. Nxt(P, w) \in P
      BY <3>1, <1>12, GridNext
    <3>3. QED
      BY <3>1, <3>2, <1>12, <1>2 DEF Grid
  <2>3. QED
    BY <2>1, <2>2, <1>10, <1>12
<1>13. CASE w \notin F
  <2>1. w = 0 /\ \A g \in F : Small(g)
    BY <1>11, <1>13 DEF X
  <2>2. QED
    BY <2>1, <1>10
<1>14. QED
  BY <1>12, <1>13

LEMMA RootIs == \A size \in Nat : size >= 16 => get_root_index(size) = 4
BY DEF get_root_index

(* get_block finds a block that is large enough, if there is one. *)
LEMMA GetBlockIs ==
  ASSUME NEW h, NEW P, NEW G, NEW F, Shape(h, P, G, F), NEW size \in Nat, size >= 16
  PROVE  \/ get_block(h, size) = 0 /\ \A f \in F : Nxt(P, f) - f < size
         \/ get_block(h, size) \in F /\ Nxt(P, get_block(h, size)) - get_block(h, size) >= size
<1> DEFINE Lists == {i \in 4..4 : FirstFit(h, i, size) # NULL}
<1>1. get_block(h, size) = IF Lists = {} THEN NULL ELSE FirstFit(h, CHOOSE i \in Lists : \A j \in Lists : i <= j, size)
  BY RootIs DEF get_block
<1>2. CASE FirstFit(h, 4, size) = 0
  <2>1. Lists = {}
    BY <1>2 DEF NULL
  <2>2. \A f \in F : f \notin {0}
    BY ListIs
  <2>3. get_block(h, size) = 0
    BY <2>1, <1>1 DEF NULL
  <2>4. QED
    BY <2>2, <2>3, <1>2, FirstFitIs
<1>3. CASE FirstFit(h, 4, size) # 0
  <2>1. Lists = {4}
    BY <1>3 DEF NULL
  <2>2. (CHOOSE i \in Lists : \A j \in Lists : i <= j) = 4
    BY <2>1
  <2>3. get_block(h, size) = FirstFit(h, 4, size)
    BY <2>1, <2>2, <1>1
  <2>4. QED
    BY <2>3, <1>3, FirstFitIs
<1>4. QED
  BY <1>2, <1>3

(* r is h with F2 on its list; only links of L are written. *)
ListedAs(r, h, P, G, F2, L) ==
  /\ Shape(r, P, G, F2) /\ r.brk = h.brk
  /\ \A w \in Words \ LinkWords(L) : r.mem[w] = h.mem[w]

(* put_block lists bp. *)
LEMMA PutBlock ==
  ASSUME NEW h, NEW P, NEW G, NEW F, Shape(h, P, G, F), NEW bp \in P \ {h.brk}, bp \notin F
  PROVE  ListedAs(put_block(h, bp), h, P, G, F \cup {bp}, F \cup {bp})
<1> DEFINE E == F \cup {bp}
           x == Prv(F, bp)
           y == Nxt(F, bp)
           g == Join(h, 4, bp, y)
           r == Join(g, 4, x, bp)
<1>1. /\ h \in Heaps /\ Grid(P, h.brk) /\ Tagged(h, P, G) /\ Linked(h, F)
      /\ F \subseteq P \ {h.brk} /\ G \subseteq P \ {h.brk} /\ E \subseteq P \ {h.brk}
  BY DEF Shape
<1>2. /\ TagWords(P) \subseteq Words /\ LinkWords(E) \subseteq Words
      /\ TagWords(P) \cap LinkWords(E) = {} /\ \A a, b \in E : a # b + 4
  BY <1>1, GridWords
<1>3. E \subseteq Places /\ F \subseteq Places /\ bp \in Places /\ \A a \in E : a \in Nat /\ a # 0
  <2>1. P \subseteq Places
    BY <1>1, GridNext
  <2>2. QED
    BY <2>1, <1>1 DEF Places
<1>4. \A a \in E : a \in Words /\ a + 4 \in Words
  BY <1>2 DEF LinkWords
<1>5. /\ \A p \in F \cup {0} : Nxt(E, p) = IF p = x THEN bp ELSE Nxt(F, p)
      /\ \A p \in F : Prv(E, p) = IF p = y THEN bp ELSE Prv(F, p)
      /\ Nxt(E, bp) = y /\ Prv(E, bp) = x
  BY <1>3, Inserted
<1>6. x \in F \cup {0} /\ y \in F \cup {0}
  BY <1>3, NxtIs, PrvIs DEF NULL
<1>7. Nxt(F, x) = y
  <2>1. \A p \in (E \ {bp}) \cup {0} : Nxt(E \ {bp}, p) = IF p = Prv(E, bp) THEN Nxt(E, bp) ELSE Nxt(E, p)
    BY <1>3, Removed, ZenonT(40)
  <2>2. E \ {bp} = F
    OBVIOUS
  <2>3. QED
    BY <2>1, <2>2, <1>5, <1>6
<1>8. put_block(h, bp) = r
  <2>1. GET_SIZE(h, HDRP(bp)) = Nxt(P, bp) - bp
    BY BlockIs
  <2>2. Nxt(P, bp) - bp \in Nat /\ Nxt(P, bp) - bp >= 16
    <3>1. Nxt(P, bp) \in P /\ bp + 16 <= Nxt(P, bp) /\ bp \in P
      BY <1>1, GridNext
    <3>2. Nxt(P, bp) \in Nat /\ bp \in Nat
      BY <3>1, <1>1 DEF Grid
    <3>3. QED
      BY <3>1, <3>2
  <2>3. get_root_index(GET_SIZE(h, HDRP(bp))) = 4
    BY <2>1, <2>2, RootIs
  <2>4. Before(h, 4, bp) = x
    BY <1>3, BeforeIs
  <2>5. (IF x = NULL THEN h.roots[4] ELSE Next_free(h, x)) = y
    <3>1. h.roots[4] = Nxt(F, 0) /\ \A f \in F : Next_free(h, f) = Nxt(F, f)
      BY ListIs
    <3>2. QED
      BY <3>1, <1>6, <1>7 DEF NULL
  <2>6. QED
    BY <2>3, <2>4, <2>5 DEF put_block
<1>9. /\ g \in Heaps /\ g.brk = h.brk /\ g.roots = h.roots
      /\ \A w \in Words : g.mem[w] = IF w = bp THEN y ELSE IF y # 0 /\ w = y + 4 THEN bp ELSE h.mem[w]
  <2>1. bp \in Nat /\ y \in Nat /\ bp \in Words /\ (y = 0 \/ y + 4 \in Words) /\ bp # 0
    BY <1>3, <1>4, <1>6
  <2> HIDE DEF x, y, g, r, E
  <2>a. h \in Heaps
    BY <1>1
  <2>2. Joined(Join(h, 4, bp, y), h, bp, y)
    BY <2>1, <2>a, JoinIs
  <2>3. QED
    BY <2>1, <2>2 DEF g, Joined
<1>10. /\ r \in Heaps /\ r.brk = h.brk
       /\ r.roots = IF x = 0 THEN [h.roots EXCEPT ![4] = bp] ELSE h.roots
       /\ \A w \in Words : r.mem[w] = IF x # 0 /\ w = x THEN bp ELSE IF w = bp + 4 THEN x ELSE g.mem[w]
  <2>1. x \in Nat /\ bp \in Nat /\ (x = 0 \/ x \in Words) /\ bp + 4 \in Words /\ bp # 0
    BY <1>3, <1>4, <1>6
  <2> HIDE DEF g, x, y
  <2>2. Joined(Join(g, 4, x, bp), g, x, bp)
    BY <2>1, <1>9, JoinIs
  <2>3. QED
    BY <2>1, <2>2, <1>9 DEF r, Joined
<1> HIDE DEF E, x, y, g, r
<1>11. bp \in E /\ F \subseteq E /\ E \subseteq F \cup {bp}
  BY DEF E
<1>12. Linked(r, E)
  <2>1. \A i \in 0..3 : r.roots[i] = 0
    BY <1>10, <1>1 DEF Linked, Heaps
  <2>2. r.roots[4] = Nxt(E, 0)
    <3>1. h.roots[4] = Nxt(F, 0) /\ h.roots \in [0..4 -> Nat]
      BY <1>1 DEF Linked, Heaps
    <3>2. CASE x = 0
      BY <3>1, <3>2, <1>10, <1>5
    <3>3. CASE x # 0
      BY <3>1, <3>3, <1>10, <1>5
    <3>4. QED
      BY <3>2, <3>3
  <2>3. ASSUME NEW f \in E PROVE r.mem[f] = Nxt(E, f)
    <3>1. f \in Words /\ f # bp + 4 /\ (y # 0 => f # y + 4)
      BY <1>2, <1>4, <1>6, <1>11
    <3>2. CASE f = bp
      <4>1. x # bp
        BY <1>6, <1>3, <1>11
      <4>2. r.mem[f] = y
        BY <4>1, <3>1, <3>2, <1>9, <1>10
      <4>3. QED
        BY <4>2, <3>2, <1>5
    <3>3. CASE f # bp
      <4>1. f \in F
        BY <3>3, <1>11
      <4>2. h.mem[f] = Nxt(F, f)
        BY <4>1, <1>1 DEF Linked
      <4>3. r.mem[f] = IF f = x THEN bp ELSE h.mem[f]
        BY <3>1, <3>3, <1>9, <1>10, <1>3
      <4>4. QED
        BY <4>1, <4>2, <4>3, <1>5
    <3>4. QED
      BY <3>2, <3>3
  <2>4. ASSUME NEW f \in E PROVE r.mem[f + 4] = Prv(E, f)
    <3>1. f + 4 \in Words /\ (x # 0 => f + 4 # x) /\ f + 4 # bp /\ f \in Nat
      BY <1>2, <1>3, <1>4, <1>6, <1>11
    <3>2. CASE f = bp
      BY <3>1, <3>2, <1>10, <1>5
    <3>3. CASE f # bp
      <4>1. f \in F /\ f # 0
        BY <3>3, <1>11, <1>3
      <4>2. h.mem[f + 4] = Prv(F, f)
        BY <4>1, <1>1 DEF Linked
      <4>3. f + 4 # bp + 4 /\ (f + 4 = y + 4 <=> f = y)
        BY <3>3, <3>1, <1>3, <1>6, <1>11
      <4>4. r.mem[f + 4] = IF f = y THEN bp ELSE h.mem[f + 4]
        BY <4>1, <4>3, <3>1, <1>9, <1>10
      <4>5. QED
        BY <4>1, <4>2, <4>4, <1>5
    <3>4. QED
      BY <3>2, <3>3
  <2>5. QED
    BY <2>1, <2>2, <2>3, <2>4 DEF Linked
<1>13. \A w \in Words \ LinkWords(E) : r.mem[w] = h.mem[w]
  <2> SUFFICES ASSUME NEW w \in Words, w \notin LinkWords(E) PROVE r.mem[w] = h.mem[w]
    OBVIOUS
  <2>1. \A f \in E : w # f /\ w # f + 4
    BY DEF LinkWords
  <2>2. w # bp /\ w # bp + 4 /\ (x # 0 => w # x) /\ (y # 0 => w # y + 4)
    BY <2>1, <1>6, <1>11
  <2>3. QED
    BY <2>2, <1>9, <1>10
<1>14. Tagged(r, P, G)
  <2>1. \A b \in P \ {h.brk} : Nxt(P, b) \in P
    BY <1>1, GridNext
  <2>2. h.brk \in P
    BY <1>1 DEF Grid
  <2>3. \A w \in TagWords(P) : r.mem[w] = h.mem[w]
    BY <1>13, <1>2
  <2>4. \A p \in P : r.mem[p - 4] = h.mem[p - 4] /\ r.mem[p - 8] = h.mem[p - 8]
    BY <2>3 DEF TagWords
  <2>5. r.mem[4] = h.mem[4] /\ r.mem[8] = h.mem[8]
    BY <2>3 DEF TagWords
  <2>6. QED
    BY <2>1, <2>2, <2>4, <2>5, <1>1, <1>10 DEF Tagged
<1>15. Shape(r, P, G, E)
  BY <1>1, <1>10, <1>12, <1>14 DEF Shape
<1>16. QED
  BY <1>8, <1>10, <1>13, <1>15 DEF ListedAs, E

(* remove_block takes bp off the list. *)
LEMMA RemoveBlock ==
  ASSUME NEW h, NEW P, NEW G, NEW F, Shape(h, P, G, F), NEW bp \in F
  PROVE  ListedAs(remove_block(h, bp), h, P, G, F \ {bp}, F)
<1> DEFINE E == F \ {bp}
           x == Prv(F, bp)
           y == Nxt(F, bp)
           r == Join(h, 4, x, y)
<1>1. /\ h \in Heaps /\ Grid(P, h.brk) /\ Tagged(h, P, G) /\ Linked(h, F)
      /\ F \subseteq P \ {h.brk} /\ G \subseteq P \ {h.brk}
  BY DEF Shape
<1>2. /\ TagWords(P) \subseteq Words /\ LinkWords(F) \subseteq Words
      /\ TagWords(P) \cap LinkWords(F) = {} /\ \A a, b \in F : a # b + 4
  BY <1>1, GridWords
<1>3. F \subseteq Places /\ \A a \in F : a \in Nat /\ a # 0
  <2>1. P \subseteq Places
    BY <1>1, GridNext
  <2>2. QED
    BY <2>1, <1>1 DEF Places
<1>4. \A a \in F : a \in Words /\ a + 4 \in Words
  BY <1>2 DEF LinkWords
<1>5. /\ \A p \in E \cup {0} : Nxt(E, p) = IF p = x THEN y ELSE Nxt(F, p)
      /\ \A p \in E : Prv(E, p) = IF p = y THEN x ELSE Prv(F, p)
  BY <1>3, Removed
<1>6. /\ x \in F \cup {0} /\ y \in F \cup {0}
      /\ x # 0 => x < bp
      /\ y # 0 => y > bp
  BY <1>3, Mutual
<1>7. x # bp /\ y # bp /\ bp # 0
  BY <1>6, <1>3
<1>8. remove_block(h, bp) = r
  <2>0. bp \in P \ {h.brk}
    BY <1>1
  <2>1. GET_SIZE(h, HDRP(bp)) = Nxt(P, bp) - bp
    BY <2>0, BlockIs
  <2>2. Nxt(P, bp) - bp \in Nat /\ Nxt(P, bp) - bp >= 16
    <3>1. Nxt(P, bp) \in P /\ bp + 16 <= Nxt(P, bp) /\ bp \in P
      BY <1>1, <2>0, GridNext
    <3>2. Nxt(P, bp) \in Nat /\ bp \in Nat
      BY <3>1, <1>1 DEF Grid
    <3>3. QED
      BY <3>1, <3>2
  <2>3. get_root_index(GET_SIZE(h, HDRP(bp))) = 4
    BY <2>1, <2>2, RootIs
  <2>4. PointsTo(h, 4, bp) = x
    BY PointsToIs
  <2>5. Next_free(h, bp) = y
    BY ListIs
  <2>6. QED
    BY <2>3, <2>4, <2>5 DEF remove_block
<1>9. Joined(r, h, x, y)
  <2>1. x \in Nat /\ y \in Nat /\ (x = 0 \/ x \in Words) /\ (y = 0 \/ y + 4 \in Words)
    BY <1>3, <1>4, <1>6
  <2> HIDE DEF x, y
  <2>2. QED
    BY <2>1, <1>1, JoinIs
<1>10. /\ r \in Heaps /\ r.brk = h.brk
       /\ r.roots = IF x = 0 THEN [h.roots EXCEPT ![4] = y] ELSE h.roots
       /\ \A w \in Words : r.mem[w] = IF x # 0 /\ w = x THEN y ELSE IF y # 0 /\ w = y + 4 THEN x ELSE h.mem[w]
  BY <1>9 DEF Joined
<1> HIDE DEF E, x, y, r
<1>11. \A f \in E : f \in F /\ f # bp
  BY DEF E
<1>12. Linked(r, E)
  <2>0. h.roots[4] = Nxt(F, 0) /\ h.roots \in [0..4 -> Nat] /\ \A i \in 0..3 : h.roots[i] = 0
    BY <1>1 DEF Linked, Heaps
  <2>1. \A i \in 0..3 : r.roots[i] = 0
    BY <1>10, <2>0
  <2>2. r.roots[4] = Nxt(E, 0)
    <3>1. CASE x = 0
      BY <2>0, <3>1, <1>10, <1>5
    <3>2. CASE x # 0
      BY <2>0, <3>2, <1>10, <1>5
    <3>3. QED
      BY <3>1, <3>2
  <2>3. ASSUME NEW f \in E PROVE r.mem[f] = Nxt(E, f)
    <3>1. f \in Words /\ (y # 0 => f # y + 4) /\ f # 0 /\ f \in F
      BY <1>2, <1>3, <1>4, <1>6, <1>11
    <3>2. h.mem[f] = Nxt(F, f)
      BY <3>1, <1>1 DEF Linked
    <3>3. r.mem[f] = IF f = x THEN y ELSE h.mem[f]
      BY <3>1, <1>10
    <3>4. QED
      BY <3>2, <3>3, <1>5
  <2>4. ASSUME NEW f \in E PROVE r.mem[f + 4] = Prv(E, f)
    <3>1. f + 4 \in Words /\ (x # 0 => f + 4 # x) /\ f \in Nat /\ f # 0 /\ f \in F
      BY <1>2, <1>3, <1>4, <1>6, <1>11
    <3>2. h.mem[f + 4] = Prv(F, f)
      BY <3>1, <1>1 DEF Linked
    <3>3. f + 4 = y + 4 <=> f = y
      BY <3>1, <1>3, <1>6
    <3>4. r.mem[f + 4] = IF f = y THEN x ELSE h.mem[f + 4]
      BY <3>1, <3>3, <1>10
    <3>5. QED
      BY <3>2, <3>4, <1>5
  <2>5. QED
    BY <2>1, <2>2, <2>3, <2>4 DEF Linked
<1>13. \A w \in Words \ LinkWords(F) : r.mem[w] = h.mem[w]
  <2> SUFFICES ASSUME NEW w \in Words, w \notin LinkWords(F) PROVE r.mem[w] = h.mem[w]
    OBVIOUS
  <2>1. \A f \in F : w # f /\ w # f + 4
    BY DEF LinkWords
  <2>2. (x # 0 => w # x) /\ (y # 0 => w # y + 4)
    BY <2>1, <1>6
  <2>3. QED
    BY <2>2, <1>10
<1>14. Tagged(r, P, G)
  <2>1. \A b \in P \ {h.brk} : Nxt(P, b) \in P
    BY <1>1, GridNext
  <2>2. h.brk \in P
    BY <1>1 DEF Grid
  <2>3. \A w \in TagWords(P) : r.mem[w] = h.mem[w]
    BY <1>13, <1>2
  <2>4. \A p \in P : r.mem[p - 4] = h.mem[p - 4] /\ r.mem[p - 8] = h.mem[p - 8]
    BY <2>3 DEF TagWords
  <2>5. r.mem[4] = h.mem[4] /\ r.mem[8] = h.mem[8]
    BY <2>3 DEF TagWords
  <2>6. QED
    BY <2>1, <2>2, <2>4, <2>5, <1>1, <1>10 DEF Tagged
<1>15. E \subseteq P \ {h.brk}
  BY <1>1, <1>11
<1>16. Shape(r, P, G, E)
  BY <1>1, <1>10, <1>12, <1>14, <1>15 DEF Shape
<1>17. QED
  BY <1>8, <1>10, <1>13, <1>16 DEF ListedAs, E

-----------------------------------------------------------------------------
(* Tags.                                                                     *)

(* r is h with tag v at p and at q. *)
PackedAs(r, h, p, q, v) ==
  /\ r \in Heaps /\ r.brk = h.brk /\ r.roots = h.roots
  /\ \A w \in Words : r.mem[w] = IF w = p \/ w = q THEN v ELSE h.mem[w]

LEMMA PackIs ==
  ASSUME NEW h \in Heaps, NEW bp \in Int, NEW size \in Int, NEW alloc \in {0, 1},
         bp - 4 \in Words, bp + size - 8 \in Words
  PROVE  PackedAs(Pack(h, bp, size, alloc), h, bp - 4, bp + size - 8, size + alloc)
<1> DEFINE v == size + alloc
           p == bp - 4
           q == bp + size - 8
           g == PUT(h, p, v)
<1>1. Pack(h, bp, size, alloc) = PUT(g, q, v)
  BY DEF Pack, HDRP, WSIZE, DSIZE
<1>2. v \in Int /\ p \in Words /\ q \in Words
  OBVIOUS
<1> HIDE DEF v, p, q
<1>3. PutAs(g, h, p, v)
  BY <1>2, PutIs
<1> HIDE DEF g
<1>4. PutAs(PUT(g, q, v), g, q, v)
  BY <1>2, <1>3, PutIs DEF PutAs
<1>5. PackedAs(PUT(g, q, v), h, p, q, v)
  BY <1>3, <1>4 DEF PackedAs, PutAs
<1>6. QED
  BY <1>1, <1>5 DEF v, p, q

(* P without what is between b and e, and the free tags then. *)
Outside(P, b, e) == {p \in P : p <= b \/ e <= p}
FreeOutside(G, b, e, a) == {g \in G : g < b \/ e <= g} \cup {g \in {b} : a = 0}

(* r is h with one block from b to e, whose tag is e - b + a. *)
MergedAs(r, h, P, P2, G2, F, b, e, a) ==
  /\ Shape(r, P2, G2, F) /\ PackedAs(r, h, b - 4, e - 8, e - b + a)
  /\ Nxt(P2, b) = e /\ \A c \in P2 \ {b, h.brk} : Nxt(P2, c) = Nxt(P, c)

(* The blocks between b and e become one, or the one block there changes its
   tag. *)
LEMMA Merged ==
  ASSUME NEW h, NEW P, NEW G, NEW F, Shape(h, P, G, F),
         NEW b \in P, NEW e \in P, b < e, \A f \in F : f <= b \/ e <= f, NEW a \in {0, 1}
  PROVE  MergedAs(Pack(h, b, e - b, a), h, P, Outside(P, b, e), FreeOutside(G, b, e, a), F, b, e, a)
<1>0. PICK P2, G2 : P2 = {p \in P : p <= b \/ e <= p} /\ G2 = {g \in G : g < b \/ e <= g} \cup {g \in {b} : a = 0}
  OBVIOUS
<1> USE <1>0
<1> DEFINE r == Pack(h, b, e - b, a)
           v == e - b + a
<1>1. /\ h \in Heaps /\ Grid(P, h.brk) /\ Tagged(h, P, G) /\ Linked(h, F)
      /\ F \subseteq P \ {h.brk} /\ G \subseteq P \ {h.brk}
  BY DEF Shape
<1>2. /\ TagWords(P) \subseteq Words /\ LinkWords(F) \subseteq Words /\ TagWords(P) \cap LinkWords(F) = {}
  BY <1>1, GridWords
<1>3. /\ h.brk \in P /\ 16 \in P /\ P \subseteq Places
      /\ \A p \in P : p \in Nat /\ p % 8 = 0 /\ 16 <= p /\ p <= h.brk
      /\ \A p, q \in P : p < q => p + 16 <= q
  BY <1>1, GridNext DEF Grid
<1>4. b \in Nat /\ e \in Nat /\ b % 8 = 0 /\ e % 8 = 0 /\ b + 16 <= e /\ 16 <= b /\ e <= h.brk /\ h.brk \in Nat
  BY <1>3
<1>5. PackedAs(r, h, b - 4, e - 8, v)
  <2>1. b - 4 \in Words /\ e - 8 \in Words
    BY <1>2 DEF TagWords
  <2>2. b + (e - b) - 8 = e - 8 /\ e - b \in Int
    BY <1>4
  <2>3. PackedAs(r, h, b - 4, b + (e - b) - 8, v)
    BY <2>1, <2>2, <1>1, <1>4, PackIs
  <2>4. QED
    BY <2>2, <2>3
<1>6. /\ r \in Heaps /\ r.brk = h.brk /\ r.roots = h.roots
      /\ \A w \in Words : r.mem[w] = IF w = b - 4 \/ w = e - 8 THEN v ELSE h.mem[w]
  BY <1>5 DEF PackedAs
<1> HIDE DEF r
<1>7. Grid(P2, h.brk)
  <2>1. h.brk \in P2 /\ 16 \in P2 /\ P2 \subseteq P
    BY <1>3, <1>4
  <2>2. QED
    BY <2>1, <1>1 DEF Grid
<1>8. P2 \subseteq Places /\ b \in P2 /\ e \in P2 /\ b # h.brk
  <2>1. b <= b /\ e <= e /\ b # h.brk
    BY <1>4
  <2>2. QED
    BY <2>1, <1>3
<1>9. Nxt(P2, b) = e
  <2>1. \A s \in P2 : s <= b \/ e <= s
    OBVIOUS
  <2>2. QED
    BY <2>1, <1>8, <1>4, NxtOnly
<1>10. ASSUME NEW c \in P2 \ {b, h.brk}
       PROVE  Nxt(P2, c) = Nxt(P, c) /\ Nxt(P, c) \in P /\ Nxt(P, c) # e /\ (c \in G2 <=> c \in G)
  <2>1. c \in P /\ c \in Nat /\ (c < b \/ e <= c) /\ c # h.brk
    BY <1>3, <1>4
  <2>2. Nxt(P, c) \in P /\ c + 16 <= Nxt(P, c) /\ \A s \in P : s <= c \/ Nxt(P, c) <= s
    BY <2>1, <1>1, GridNext
  <2>3. Nxt(P, c) \in Nat
    BY <2>2, <1>3
  <2>4. Nxt(P, c) # e /\ Nxt(P, c) \in P2
    <3>1. CASE c < b
      <4>1. Nxt(P, c) <= b
        BY <3>1, <2>1, <2>2, <1>4
      <4>2. QED
        BY <4>1, <2>2, <2>3, <1>4
    <3>2. CASE e <= c
      BY <3>2, <2>1, <2>2, <2>3, <1>4
    <3>3. QED
      BY <2>1, <3>1, <3>2
  <2>5. \A s \in P2 : s <= c \/ Nxt(P, c) <= s
    BY <2>2
  <2>6. Nxt(P2, c) = Nxt(P, c)
    <3>1. Nxt(P, c) > c
      BY <2>1, <2>2, <2>3
    <3>2. QED
      BY <3>1, <2>1, <2>4, <2>5, <1>8, NxtOnly
  <2>7. c \in G2 <=> c \in G
    BY <2>1
  <2>8. QED
    BY <2>2, <2>4, <2>6, <2>7
<1>11. \A p \in P : p - 4 \in Words /\ p - 8 \in Words /\ p - 4 # e - 8 /\ p - 8 # b - 4
  <2> SUFFICES ASSUME NEW p \in P PROVE p - 4 \in Words /\ p - 8 \in Words /\ p - 4 # e - 8 /\ p - 8 # b - 4
    OBVIOUS
  <2>1. p - 4 \in Words /\ p - 8 \in Words
    BY <1>2 DEF TagWords
  <2>2. p \in Nat /\ p % 8 = 0
    BY <1>3
  <2>3. QED
    BY <2>1, <2>2, <1>4
<1>12. Tagged(r, P2, G2)
  <2>1. ASSUME NEW c \in P2 \ {h.brk}, c = b
        PROVE  r.mem[c - 4] = Tag(P2, G2, c) /\ r.mem[Nxt(P2, c) - 8] = Tag(P2, G2, c)
    <3>1. b \in G2 <=> a = 0
      BY <1>4
    <3>2. Tag(P2, G2, b) = v
      BY <3>1, <1>9, <1>4 DEF Tag
    <3>3. r.mem[b - 4] = v /\ r.mem[e - 8] = v
      BY <1>6, <1>11
    <3>4. QED
      BY <3>2, <3>3, <2>1, <1>9
  <2>2. ASSUME NEW c \in P2 \ {h.brk}, c # b
        PROVE  r.mem[c - 4] = Tag(P2, G2, c) /\ r.mem[Nxt(P2, c) - 8] = Tag(P2, G2, c)
    <3>1. Nxt(P2, c) = Nxt(P, c) /\ Nxt(P, c) \in P /\ Nxt(P, c) # e /\ (c \in G2 <=> c \in G) /\ c \in P \ {h.brk}
      BY <2>2, <1>10
    <3>2. Tag(P2, G2, c) = Tag(P, G, c)
      BY <3>1 DEF Tag
    <3>3. h.mem[c - 4] = Tag(P, G, c) /\ h.mem[Nxt(P, c) - 8] = Tag(P, G, c)
      BY <3>1, <1>1 DEF Tagged
    <3>4. Nxt(P, c) \in Nat /\ c \in Nat
      BY <3>1, <1>3
    <3>5. c - 4 # b - 4 /\ Nxt(P, c) - 8 # e - 8
      BY <3>1, <3>4, <2>2, <1>4
    <3>6. r.mem[c - 4] = h.mem[c - 4]
      BY <3>1, <3>5, <1>6, <1>11
    <3>7. r.mem[Nxt(P, c) - 8] = h.mem[Nxt(P, c) - 8]
      BY <3>1, <3>5, <1>6, <1>11
    <3>8. QED
      BY <3>1, <3>2, <3>3, <3>6, <3>7
  <2>3. 4 \in Words /\ 8 \in Words
    BY <1>2 DEF TagWords
  <2>4. r.mem[4] = 9 /\ r.mem[8] = 9
    BY <2>3, <1>1, <1>4, <1>6 DEF Tagged
  <2>5. r.mem[h.brk - 4] = 1
    <3>1. h.brk - 4 \in Words /\ h.brk - 4 # e - 8 /\ h.brk - 4 # b - 4
      BY <1>3, <1>4, <1>11
    <3>2. QED
      BY <3>1, <1>1, <1>6 DEF Tagged
  <2>6. QED
    BY <2>1, <2>2, <2>4, <2>5, <1>6 DEF Tagged
<1>13. Linked(r, F)
  <2>1. \A w \in LinkWords(F) : r.mem[w] = h.mem[w]
    <3>1. b - 4 \in TagWords(P) /\ e - 8 \in TagWords(P)
      BY DEF TagWords
    <3>2. QED
      BY <3>1, <1>2, <1>6
  <2>2. QED
    BY <2>1, <1>1, <1>6 DEF Linked, LinkWords
<1>14. F \subseteq P2 \ {h.brk} /\ G2 \subseteq P2 \ {h.brk}
  <2>1. \A g \in G2 : g \in P2 /\ g # h.brk
    BY <1>1, <1>3, <1>4, <1>8
  <2>2. \A f \in F : f \in P2 /\ f # h.brk
    BY <1>1
  <2>3. QED
    BY <2>1, <2>2
<1>15. Shape(r, P2, G2, F)
  BY <1>6, <1>7, <1>12, <1>13, <1>14 DEF Shape
<1>16. Shape(r, P2, G2, F) /\ Nxt(P2, b) = e /\ \A c \in P2 \ {b, h.brk} : Nxt(P2, c) = Nxt(P, c)
  BY <1>9, <1>10, <1>15
<1>17. P2 = Outside(P, b, e) /\ G2 = FreeOutside(G, b, e, a)
  BY DEF Outside, FreeOutside
<1>18. QED
  BY <1>5, <1>16, <1>17 DEF r, v, MergedAs

(* r is h with tags v and w at both ends of two blocks. *)
TwicePacked(r, h, p, q, v, s, t, u) ==
  /\ r \in Heaps /\ r.brk = h.brk /\ r.roots = h.roots
  /\ \A w \in Words : r.mem[w] = IF w = s \/ w = t THEN u ELSE IF w = p \/ w = q THEN v ELSE h.mem[w]

(* r is h with block b split in two at m. *)
SplitAs(r, h, P, G, F, b, m) ==
  /\ Shape(r, P \cup {m}, (G \ {b}) \cup {m}, F) /\ m \notin P
  /\ TwicePacked(r, h, b - 4, m - 8, m - b + 1, m - 4, Nxt(P, b) - 8, Nxt(P, b) - m)
  /\ Nxt(P \cup {m}, b) = m /\ Nxt(P \cup {m}, m) = Nxt(P, b)
  /\ \A c \in P \ {b} : Nxt(P \cup {m}, c) = Nxt(P, c)

(* The block at b becomes two: an allocated one up to m, and a free one. *)
LEMMA Split ==
  ASSUME NEW h, NEW P, NEW G, NEW F, Shape(h, P, G, F),
         NEW b \in P \ {h.brk}, b \notin F, NEW m \in Nat, m % 8 = 0, b + 16 <= m, m + 16 <= Nxt(P, b),
         NEW r, r = Pack(Pack(h, b, m - b, 1), m, Nxt(P, b) - m, 0)
  PROVE  SplitAs(r, h, P, G, F, b, m)
<1> DEFINE e == Nxt(P, b)
           P2 == P \cup {m}
           G2 == (G \ {b}) \cup {m}
           g == Pack(h, b, m - b, 1)
<1>1. /\ h \in Heaps /\ Grid(P, h.brk) /\ Tagged(h, P, G) /\ Linked(h, F)
      /\ F \subseteq P \ {h.brk} /\ G \subseteq P \ {h.brk}
  BY DEF Shape
<1>2. /\ h.brk \in P /\ 16 \in P /\ P \subseteq Places /\ h.brk <= MAX_HEAP
      /\ \A p \in P : p \in Nat /\ p % 8 = 0 /\ 16 <= p /\ p <= h.brk
      /\ \A p, q \in P : p < q => p + 16 <= q
  BY <1>1, GridNext DEF Grid
<1>3. /\ e \in P /\ b \in P /\ b + 16 <= e /\ Prv(P, e) = b /\ \A s \in P : s <= b \/ e <= s
  BY <1>1, GridNext
<1> HIDE DEF e
<1>4. e \in Nat /\ b \in Nat /\ e % 8 = 0 /\ b % 8 = 0 /\ e <= h.brk /\ m + 16 <= e /\ 16 <= b
  BY <1>2, <1>3 DEF e
<1>5. m \notin P /\ m \in Places
  <2>1. ~ (m <= b) /\ ~ (e <= m) /\ m > 0
    BY <1>4
  <2>2. m \notin P
    BY <2>1, <1>3
  <2>3. m <= MAX_HEAP
    <3>1. h.brk \in Nat /\ MAX_HEAP \in Nat /\ h.brk <= MAX_HEAP
      BY <1>2, MmAssumption
    <3>2. QED
      BY <3>1, <1>4
  <2>4. QED
    BY <2>1, <2>2, <2>3, MmAssumption DEF Places
<1>6. Prv(P, m) = b /\ Nxt(P, m) = e
  <2>1. \A s \in P : m <= s \/ s <= b
    BY <1>3, <1>2, <1>4
  <2>2. \A s \in P : s <= m \/ e <= s
    BY <1>3, <1>2, <1>4
  <2>3. b < m /\ e > m
    BY <1>4
  <2>4. QED
    BY <2>1, <2>2, <2>3, <1>2, <1>3, PrvOnly, NxtOnly
<1>7. /\ \A p \in P \cup {0} : Nxt(P2, p) = IF p = b THEN m ELSE Nxt(P, p)
      /\ Nxt(P2, m) = e
  <2>1. /\ \A p \in P \cup {0} : Nxt(P \cup {m}, p) = IF p = Prv(P, m) THEN m ELSE Nxt(P, p)
        /\ Nxt(P \cup {m}, m) = Nxt(P, m)
    BY <1>2, <1>5, Inserted
  <2>2. QED
    BY <2>1, <1>6
<1>8. Grid(P2, h.brk)
  <2>0. h.brk \in Nat
    BY <1>2
  <2>a. h.brk \in Nat /\ 16 <= m /\ m <= h.brk
    BY <2>0, <1>4
  <2>1. \A p \in P2 : p \in Nat /\ p % 8 = 0 /\ 16 <= p /\ p <= h.brk
    BY <1>2, <2>a
  <2>2. ASSUME NEW p \in P, p < m PROVE p + 16 <= m
    BY <2>2, <1>2, <1>3, <1>4
  <2>3. ASSUME NEW p \in P, m < p PROVE m + 16 <= p
    BY <2>3, <1>2, <1>3, <1>4
  <2>4. \A p, q \in P2 : p < q => p + 16 <= q
    BY <2>2, <2>3, <1>2
  <2>5. QED
    BY <2>1, <2>4, <1>2 DEF Grid
<1>9. /\ TagWords(P2) \subseteq Words /\ LinkWords(F) \subseteq Words /\ TagWords(P2) \cap LinkWords(F) = {}
  <2>1. F \subseteq P2 \ {h.brk}
    BY <1>1
  <2>2. QED
    BY <2>1, <1>8, GridWords
<1>10. \A p \in P2 : p - 4 \in Words /\ p - 8 \in Words /\ p \in Nat /\ p % 8 = 0
  BY <1>8, <1>9 DEF TagWords, Grid
<1>11. PackedAs(g, h, b - 4, m - 8, m - b + 1)
  <2>1. b - 4 \in Words /\ m - 8 \in Words
    BY <1>3, <1>10
  <2>2. b + (m - b) - 8 = m - 8 /\ m - b \in Int
    BY <1>4
  <2>3. PackedAs(g, h, b - 4, b + (m - b) - 8, m - b + 1)
    BY <2>1, <2>2, <1>1, <1>4, PackIs
  <2>4. QED
    BY <2>2, <2>3
<1>12. PackedAs(r, g, m - 4, e - 8, e - m)
  <2>1. m - 4 \in Words /\ e - 8 \in Words /\ g \in Heaps
    BY <1>3, <1>10, <1>11 DEF PackedAs
  <2>2. m + (e - m) - 8 = e - 8 /\ e - m \in Int /\ (e - m) + 0 = e - m
    BY <1>4
  <2>3. r = Pack(g, m, e - m, 0)
    BY DEF e
  <2> HIDE DEF g
  <2>4. PackedAs(Pack(g, m, e - m, 0), g, m - 4, m + (e - m) - 8, (e - m) + 0)
    BY <2>1, <2>2, PackIs
  <2>5. QED
    BY <2>2, <2>3, <2>4
<1> HIDE DEF g
<1>13. TwicePacked(r, h, b - 4, m - 8, m - b + 1, m - 4, e - 8, e - m)
  BY <1>11, <1>12 DEF PackedAs, TwicePacked
<1>14. /\ r \in Heaps /\ r.brk = h.brk /\ r.roots = h.roots
       /\ \A w \in Words : r.mem[w] = IF w = m - 4 \/ w = e - 8 THEN e - m
                                      ELSE IF w = b - 4 \/ w = m - 8 THEN m - b + 1 ELSE h.mem[w]
  BY <1>13 DEF TwicePacked
<1>15. Tagged(r, P2, G2)
  <2>1. ASSUME NEW c \in P, c # h.brk, c # b
        PROVE  r.mem[c - 4] = Tag(P2, G2, c) /\ r.mem[Nxt(P2, c) - 8] = Tag(P2, G2, c)
    <3>1. Nxt(P2, c) = Nxt(P, c) /\ Nxt(P, c) \in P /\ Prv(P, Nxt(P, c)) = c
      BY <2>1, <1>1, <1>7, GridNext
    <3>2. c # m /\ Nxt(P, c) # e /\ Nxt(P, c) # m
      BY <3>1, <2>1, <1>3, <1>5
    <3>3. Tag(P2, G2, c) = Tag(P, G, c)
      BY <3>1, <3>2, <2>1 DEF Tag
    <3>4. h.mem[c - 4] = Tag(P, G, c) /\ h.mem[Nxt(P, c) - 8] = Tag(P, G, c)
      BY <2>1, <1>1 DEF Tagged
    <3>5. c \in Nat /\ c % 8 = 0 /\ Nxt(P, c) \in Nat /\ Nxt(P, c) % 8 = 0
      BY <3>1, <1>2
    <3>6. c - 4 \notin {m - 4, e - 8, b - 4, m - 8}
      BY <3>2, <3>5, <2>1, <1>4
    <3>7. Nxt(P, c) - 8 \notin {m - 4, e - 8, b - 4, m - 8}
      BY <3>2, <3>5, <2>1, <1>4
    <3>8. c - 4 \in Words /\ Nxt(P, c) - 8 \in Words
      BY <3>1, <1>10
    <3>9. QED
      BY <3>1, <3>3, <3>4, <3>6, <3>7, <3>8, <1>14
  <2>2. r.mem[b - 4] = Tag(P2, G2, b) /\ r.mem[Nxt(P2, b) - 8] = Tag(P2, G2, b)
    <3>1. Nxt(P2, b) = m /\ b \notin G2
      BY <1>3, <1>5, <1>7
    <3>2. Tag(P2, G2, b) = m - b + 1
      BY <3>1 DEF Tag
    <3>3. b - 4 \in Words /\ m - 8 \in Words
      BY <1>3, <1>10
    <3>4. b - 4 # m - 4 /\ b - 4 # e - 8 /\ m - 8 # m - 4 /\ m - 8 # e - 8
      BY <1>4
    <3>5. QED
      BY <3>1, <3>2, <3>3, <3>4, <1>14
  <2>3. r.mem[m - 4] = Tag(P2, G2, m) /\ r.mem[Nxt(P2, m) - 8] = Tag(P2, G2, m)
    <3>1. Tag(P2, G2, m) = e - m
      BY <1>7, <1>4 DEF Tag
    <3>2. m - 4 \in Words /\ e - 8 \in Words
      BY <1>3, <1>10
    <3>3. QED
      BY <3>1, <3>2, <1>7, <1>14
  <2>4. r.mem[4] = 9 /\ r.mem[8] = 9
    <3>1. 4 \in Words /\ 8 \in Words
      BY <1>9 DEF TagWords
    <3>2. 4 \notin {m - 4, e - 8, b - 4, m - 8} /\ 8 \notin {m - 4, e - 8, b - 4, m - 8}
      BY <1>4
    <3>3. QED
      BY <3>1, <3>2, <1>1, <1>14 DEF Tagged
  <2>5. r.mem[h.brk - 4] = 1
    <3>1. h.brk \in Nat /\ h.brk % 8 = 0 /\ h.brk - 4 \in Words
      BY <1>2, <1>10
    <3>2. h.brk - 4 \notin {m - 4, e - 8, b - 4, m - 8}
      BY <3>1, <1>4
    <3>3. QED
      BY <3>1, <3>2, <1>1, <1>14 DEF Tagged
  <2>6. QED
    BY <2>1, <2>2, <2>3, <2>4, <2>5, <1>14 DEF Tagged
<1>16. Linked(r, F)
  <2>1. \A w \in LinkWords(F) : r.mem[w] = h.mem[w]
    <3>1. {m - 4, e - 8, b - 4, m - 8} \subseteq TagWords(P2)
      BY <1>3 DEF TagWords
    <3>2. \A w \in LinkWords(F) : w \in Words /\ w \notin {m - 4, e - 8, b - 4, m - 8}
      BY <3>1, <1>9
    <3>3. QED
      BY <3>2, <1>14
  <2>2. QED
    BY <2>1, <1>1, <1>14 DEF Linked, LinkWords
<1>17. Shape(r, P2, G2, F)
  <2>1. m # h.brk
    BY <1>2, <1>5
  <2>2. QED
    BY <2>1, <1>1, <1>8, <1>14, <1>15, <1>16 DEF Shape
<1>18. QED
  BY <1>5, <1>7, <1>13, <1>17, <1>3 DEF e, SplitAs

(* r is h, grown to break e: a free block and a new epilogue at the end. *)
GrownAs(r, h, e) ==
  /\ r \in Heaps /\ r.brk = e /\ r.roots = h.roots
  /\ \A w \in Words : r.mem[w] = IF w = h.brk - 4 \/ w = e - 8 THEN e - h.brk ELSE IF w = e - 4 THEN 1 ELSE h.mem[w]

LEMMA GrowIs ==
  ASSUME NEW h \in Heaps, NEW size \in Nat, NEW b \in Nat, b = h.brk, NEW e \in Nat, e = b + size,
         b - 4 \in Words, e - 8 \in Words, e - 4 \in Words
  PROVE  GrownAs(Pack(PUT([h EXCEPT !.brk = e], HDRP(e), 1), b, size, 0), h, e)
<1> DEFINE f == [h EXCEPT !.brk = e]
           g == PUT(f, e - 4, 1)
           r == Pack(g, b, size, 0)
<1>1. f \in Heaps /\ f.mem = h.mem /\ f.roots = h.roots /\ f.brk = e
  BY DEF Heaps
<1> HIDE DEF f
<1>3. PutAs(g, f, e - 4, 1)
  BY <1>1, PutIs
<1> HIDE DEF g
<1>4. PackedAs(r, g, b - 4, e - 8, size)
  <2>1. g \in Heaps
    BY <1>3 DEF PutAs
  <2>2. b + size - 8 = e - 8 /\ size \in Int /\ size + 0 = size /\ b \in Int
    OBVIOUS
  <2>3. PackedAs(Pack(g, b, size, 0), g, b - 4, b + size - 8, size + 0)
    BY <2>1, <2>2, PackIs
  <2>4. QED
    BY <2>2, <2>3
<1>5. e - b = size
  OBVIOUS
<1> HIDE DEF r
<1>6. GrownAs(r, h, e)
  BY <1>1, <1>3, <1>4, <1>5 DEF PutAs, PackedAs, GrownAs
<1>7. QED
  BY <1>6 DEF r, g, f, HDRP, WSIZE

(* r is h with one more block, a free one from b to e. *)
GrownTo(r, h, P, G, F, b, e) ==
  /\ Shape(r, P \cup {e}, G \cup {b}, F) /\ r.brk = e
  /\ \A w \in Words \ {b - 4, e - 8, e - 4} : r.mem[w] = h.mem[w]
  /\ Nxt(P \cup {e}, b) = e /\ \A c \in P \ {b} : Nxt(P \cup {e}, c) = Nxt(P, c)

(* The heap grows by one free block. *)
LEMMA Grown ==
  ASSUME NEW h, NEW P, NEW G, NEW F, Shape(h, P, G, F),
         NEW b, b = h.brk, NEW e \in Nat, e % 8 = 0, b + 16 <= e, e <= MAX_HEAP, NEW r, GrownAs(r, h, e)
  PROVE  GrownTo(r, h, P, G, F, b, e)
<1> DEFINE P2 == P \cup {e}
           G2 == G \cup {b}
<1>1. /\ h \in Heaps /\ Grid(P, b) /\ Tagged(h, P, G) /\ Linked(h, F)
      /\ F \subseteq P \ {b} /\ G \subseteq P \ {b}
  BY DEF Shape
<1>2. /\ b \in P /\ 16 \in P /\ P \subseteq Places /\ b \in Nat
      /\ \A p \in P : p \in Nat /\ p % 8 = 0 /\ 16 <= p /\ p <= b
      /\ \A p, q \in P : p < q => p + 16 <= q
  BY <1>1, GridNext DEF Grid
<1>3. e \in Nat /\ e % 8 = 0 /\ b + 16 <= e /\ e <= MAX_HEAP
  OBVIOUS
<1>4. e \notin P /\ e \in Places /\ b % 8 = 0 /\ 16 <= b
  <2>1. e > b /\ e > 0 /\ b % 8 = 0 /\ 16 <= b
    BY <1>2, <1>3
  <2>2. QED
    BY <2>1, <1>2, <1>3, MmAssumption DEF Places
<1>5. Prv(P, e) = b
  <2>1. b < e /\ \A s \in P : e <= s \/ s <= b
    BY <1>2, <1>3
  <2>2. QED
    BY <2>1, <1>2, <1>3, PrvOnly
<1>6. \A p \in P : Nxt(P2, p) = IF p = b THEN e ELSE Nxt(P, p)
  <2>0. P \subseteq Places /\ e \in Places /\ e \notin P
    BY <1>2, <1>4
  <2>1. \A p \in P \cup {0} : Nxt(P \cup {e}, p) = IF p = Prv(P, e) THEN e ELSE Nxt(P, p)
    BY <2>0, Inserted
  <2>2. QED
    BY <2>1, <1>5
<1>7. Grid(P2, e)
  <2>1. \A p \in P2 : p \in Nat /\ p % 8 = 0 /\ 16 <= p /\ p <= e
    BY <1>2, <1>3, <1>4
  <2>2. \A p, q \in P2 : p < q => p + 16 <= q
    <3> SUFFICES ASSUME NEW p \in P2, NEW q \in P2, p < q PROVE p + 16 <= q
      OBVIOUS
    <3>1. CASE q \in P
      <4>1. q \in Nat /\ q <= b /\ b \in Nat /\ e \in Nat /\ b + 16 <= e
        BY <3>1, <1>2, <1>3
      <4>2. p # e
        BY <4>1
      <4>3. p \in P
        BY <4>2
      <4>4. QED
        BY <4>3, <3>1, <1>2
    <3>2. CASE q = e /\ p \in P
      BY <3>2, <1>2, <1>3
    <3>3. CASE q = e /\ p = e
      BY <3>3, <1>3
    <3>4. QED
      BY <3>1, <3>2, <3>3
  <2>3. QED
    BY <2>1, <2>2, <1>2, <1>3 DEF Grid
<1>8. F \subseteq P2 \ {e} /\ G2 \subseteq P2 \ {e}
  BY <1>1, <1>2, <1>4
<1>9. /\ TagWords(P2) \subseteq Words /\ LinkWords(F) \subseteq Words /\ TagWords(P2) \cap LinkWords(F) = {}
  BY <1>7, <1>8, GridWords
<1>10. \A p \in P2 : p - 4 \in Words /\ p - 8 \in Words
  BY <1>9 DEF TagWords
<1>14. /\ r \in Heaps /\ r.brk = e /\ r.roots = h.roots
       /\ \A w \in Words : r.mem[w] = IF w = b - 4 \/ w = e - 8 THEN e - b ELSE IF w = e - 4 THEN 1 ELSE h.mem[w]
  BY DEF GrownAs
<1>15. Tagged(r, P2, G2)
  <2>1. ASSUME NEW c \in P, c # b
        PROVE  r.mem[c - 4] = Tag(P2, G2, c) /\ r.mem[Nxt(P2, c) - 8] = Tag(P2, G2, c)
    <3>1. Nxt(P2, c) = Nxt(P, c) /\ Nxt(P, c) \in P
      BY <2>1, <1>1, <1>6, GridNext
    <3>2. Nxt(P, c) # e
      BY <3>1, <1>4
    <3>3. Tag(P2, G2, c) = Tag(P, G, c)
      BY <3>1, <3>2, <2>1 DEF Tag
    <3>4. h.mem[c - 4] = Tag(P, G, c) /\ h.mem[Nxt(P, c) - 8] = Tag(P, G, c)
      BY <2>1, <1>1 DEF Tagged
    <3>5. c \in Nat /\ c % 8 = 0 /\ Nxt(P, c) \in Nat /\ Nxt(P, c) % 8 = 0 /\ c <= b /\ Nxt(P, c) <= b
      BY <3>1, <1>2
    <3>6. c - 4 \notin {e - 4, e - 8, b - 4}
      BY <3>2, <3>5, <2>1, <1>2, <1>3, <1>4
    <3>7. Nxt(P, c) - 8 \notin {e - 4, e - 8, b - 4}
      BY <3>2, <3>5, <2>1, <1>2, <1>3, <1>4
    <3>8. c - 4 \in Words /\ Nxt(P, c) - 8 \in Words
      BY <3>1, <1>10
    <3>9. QED
      BY <3>1, <3>3, <3>4, <3>6, <3>7, <3>8, <1>14
  <2>2. r.mem[b - 4] = Tag(P2, G2, b) /\ r.mem[Nxt(P2, b) - 8] = Tag(P2, G2, b)
    <3>1. Nxt(P2, b) = e /\ b \in G2
      BY <1>2, <1>6
    <3>2. Tag(P2, G2, b) = e - b
      BY <3>1, <1>2, <1>3 DEF Tag
    <3>3. b - 4 \in Words /\ e - 8 \in Words
      BY <1>2, <1>10
    <3>4. QED
      BY <3>1, <3>2, <3>3, <1>14
  <2>3. r.mem[4] = 9 /\ r.mem[8] = 9
    <3>1. 4 \in Words /\ 8 \in Words
      BY <1>9 DEF TagWords
    <3>2. 4 \notin {e - 4, e - 8, b - 4} /\ 8 \notin {e - 4, e - 8, b - 4}
      BY <1>2, <1>3, <1>4
    <3>3. QED
      BY <3>1, <3>2, <1>1, <1>14 DEF Tagged
  <2>4. r.mem[e - 4] = 1
    <3>1. e - 4 \in Words
      BY <1>10
    <3>2. b \in Nat
      BY <1>2
    <3>3. e - 4 # e - 8 /\ e - 4 # b - 4
      BY <3>2
    <3>4. QED
      BY <3>1, <3>3, <1>14
  <2>5. QED
    BY <2>1, <2>2, <2>3, <2>4, <1>14 DEF Tagged
<1>16. Linked(r, F)
  <2>1. \A w \in LinkWords(F) : r.mem[w] = h.mem[w]
    <3>1. {e - 4, e - 8, b - 4} \subseteq TagWords(P2)
      BY <1>2 DEF TagWords
    <3>2. \A w \in LinkWords(F) : w \in Words /\ w \notin {e - 4, e - 8, b - 4}
      BY <3>1, <1>9
    <3>3. QED
      BY <3>2, <1>14
  <2>2. QED
    BY <2>1, <1>1, <1>14 DEF Linked, LinkWords
<1>17. Shape(r, P2, G2, F)
  BY <1>1, <1>7, <1>8, <1>14, <1>15, <1>16 DEF Shape
<1>18. QED
  <2>1. \A w \in Words \ {b - 4, e - 8, e - 4} : r.mem[w] = h.mem[w]
    BY <1>14
  <2>2. Nxt(P2, b) = e /\ \A c \in P \ {b} : Nxt(P2, c) = Nxt(P, c)
    BY <1>2, <1>6
  <2>3. QED
    BY <2>1, <2>2, <1>14, <1>17 DEF GrownTo

-----------------------------------------------------------------------------
(* Allocated blocks.                                                         *)

Allocated(h, P, F) == {b \in P : b \notin F /\ b # h.brk}

(* The blocks of A are in both heaps, and have the same payloads. *)
Carried(h, P, g, P2, A) ==
  \A b \in A : /\ Nxt(P2, b) = Nxt(P, b)
               /\ \A w \in Words : b <= w /\ w < Nxt(P, b) - 8 => g.mem[w] = h.mem[w]

LEMMA CarriedTwice ==
  ASSUME NEW A, NEW h, NEW P, NEW g, NEW P2, NEW k, NEW P3, Carried(h, P, g, P2, A), Carried(g, P2, k, P3, A)
  PROVE  Carried(h, P, k, P3, A)
BY DEF Carried

LEMMA CarriedLess ==
  ASSUME NEW A, NEW h, NEW P, NEW g, NEW P2, Carried(h, P, g, P2, A), NEW B, B \subseteq A
  PROVE  Carried(h, P, g, P2, B)
BY DEF Carried

(* A payload holds no tag, and no link of another block. *)
LEMMA PayloadApart ==
  ASSUME NEW P, NEW brk, Grid(P, brk), NEW b \in P \ {brk}, NEW w \in Nat, b <= w, w < Nxt(P, b) - 8,
         NEW F, F \subseteq P \ {brk}, b \notin F
  PROVE  w \notin TagWords(P) /\ w \notin LinkWords(F)
<1> DEFINE e == Nxt(P, b)
<1>1. /\ \A p \in P : p \in Nat /\ p % 8 = 0 /\ 16 <= p
      /\ \A p, q \in P : p < q => p + 16 <= q
      /\ e \in P /\ \A r \in P : r <= b \/ e <= r
  BY GridNext DEF Grid
<1> HIDE DEF e
<1>2. e \in Nat /\ b \in Nat /\ b \in P /\ 16 <= b /\ w < e - 8
  BY <1>1 DEF e
<1>3. ASSUME NEW p \in P PROVE w # p - 4 /\ w # p - 8
  <2>1. p \in Nat /\ (p <= b \/ e <= p)
    BY <1>1
  <2>2. QED
    BY <2>1, <1>2
<1>4. w # 4 /\ w # 8
  BY <1>2
<1>5. ASSUME NEW f \in F PROVE w # f /\ w # f + 4
  <2>1. f \in P /\ f \in Nat /\ f # b /\ (f <= b \/ e <= f)
    BY <1>1
  <2>2. f < b => f + 16 <= b
    BY <2>1, <1>1, <1>2
  <2>3. QED
    BY <2>1, <2>2, <1>2
<1>6. QED
  BY <1>3, <1>4, <1>5 DEF TagWords, LinkWords

(* Writing links of blocks that are not in A keeps A. *)
LEMMA LinksCarry ==
  ASSUME NEW P, NEW brk, Grid(P, brk), NEW F, F \subseteq P \ {brk}, NEW A, A \subseteq P \ {brk}, A \cap F = {},
         NEW h, NEW g, \A w \in Words \ (TagWords(P) \cup LinkWords(F)) : g.mem[w] = h.mem[w]
  PROVE  Carried(h, P, g, P, A)
<1> SUFFICES ASSUME NEW b \in A, NEW w \in Words, b <= w, w < Nxt(P, b) - 8 PROVE g.mem[w] = h.mem[w]
  BY DEF Carried
<1>1. w \in Nat
  BY WordsAre
<1>2. b \in P \ {brk} /\ b \notin F
  OBVIOUS
<1>3. w \notin TagWords(P) /\ w \notin LinkWords(F)
  BY <1>1, <1>2, PayloadApart
<1>4. QED
  BY <1>3

(* r is h with one free block from first to end, and the same allocated blocks. *)
FusedAs(r, h, P, F, P2, F2, first, end) ==
  /\ Shape(r, P2, F2, F2) /\ r.brk = h.brk
  /\ Allocated(r, P2, F2) = Allocated(h, P, F) /\ Carried(h, P, r, P2, Allocated(h, P, F))
  /\ Nxt(P2, first) = end /\ \A c \in P2 \ {first, h.brk} : Nxt(P2, c) = Nxt(P, c)

(* A tag of h that is not one of the new block's is still in g and in r. *)
TagsStay(r, g, h, P, first, end) ==
  /\ g \in Heaps /\ r \in Heaps
  /\ \A w \in TagWords(P) : w # first - 4 /\ w # end - 8 => g.mem[w] = h.mem[w] /\ r.mem[w] = h.mem[w]

(* The free blocks from first to end become one; h1 is h with them off the
   list. *)
LEMMA Fused ==
  ASSUME NEW h, NEW P, NEW F, Shape(h, P, F, F), NEW first \in F, NEW end \in P, first < end,
         \A p \in P : first <= p /\ p < end => p \in F,
         NEW E, E = {f \in F : f < first \/ end <= f}, NEW h1, ListedAs(h1, h, P, F, E, F)
  PROVE  /\ FusedAs(put_block(Pack(h1, first, end - first, 0), first), h, P, F,
                    Outside(P, first, end), FreeOutside(F, first, end, 0), first, end)
         /\ TagsStay(put_block(Pack(h1, first, end - first, 0), first), Pack(h1, first, end - first, 0), h, P, first, end)
<1>0. PICK P2, F2, r : /\ P2 = {p \in P : p <= first \/ end <= p}
                      /\ F2 = {f \in F : f < first \/ end <= f} \cup {first}
                      /\ r = put_block(Pack(h1, first, end - first, 0), first)
  OBVIOUS
<1>a. h1.brk = h.brk /\ Shape(h1, P, F, E) /\ \A w \in Words \ LinkWords(F) : h1.mem[w] = h.mem[w]
  BY DEF ListedAs
<1> USE <1>0, <1>a
<1> DEFINE g == Pack(h1, first, end - first, 0)
           A == Allocated(h, P, F)
<1>1. /\ h \in Heaps /\ Grid(P, h.brk) /\ F \subseteq P \ {h.brk} /\ E \subseteq P \ {h.brk}
      /\ \A p \in P : p \in Nat /\ p <= h.brk
  BY DEF Shape, Grid
<1>2. first \in P /\ first \in Nat /\ end \in Nat /\ first # h.brk
  BY <1>1
<1>3. /\ Shape(g, P2, F2, E) /\ PackedAs(g, h1, first - 4, end - 8, end - first + 0)
      /\ Nxt(P2, first) = end /\ \A c \in P2 \ {first, h.brk} : Nxt(P2, c) = Nxt(P, c)
  <2>1. \A f \in E : f <= first \/ end <= f
    BY <1>1, <1>2
  <2>2. F2 = FreeOutside(F, first, end, 0) /\ P2 = Outside(P, first, end)
    BY DEF FreeOutside, Outside
  <2>4. MergedAs(g, h1, P, Outside(P, first, end), FreeOutside(F, first, end, 0), E, first, end, 0)
    BY <2>1, <1>2, Merged
  <2>5. QED
    BY <2>2, <2>4 DEF MergedAs
<1>4. g.brk = h.brk
  BY <1>3 DEF PackedAs
<1>5. first \in P2 \ {g.brk} /\ first \notin E /\ F2 = E \cup {first}
  BY <1>2, <1>4
<1>6. /\ Shape(r, P2, F2, F2) /\ r.brk = h.brk
      /\ \A w \in Words \ LinkWords(F2) : r.mem[w] = g.mem[w]
  <2> HIDE DEF g
  <2>1. ListedAs(put_block(g, first), g, P2, F2, E \cup {first}, E \cup {first})
    BY <1>3, <1>5, PutBlock
  <2>2. r = put_block(g, first)
    BY DEF g
  <2>3. QED
    BY <2>1, <2>2, <1>4, <1>5 DEF ListedAs
<1>7. Allocated(r, P2, F2) = A
  <2>1. ASSUME NEW b \in P, b \notin F PROVE b \in P2 /\ b \notin F2
    <3>1. b \in Nat /\ ~ (first <= b /\ b < end)
      BY <2>1, <1>1
    <3>2. b <= first \/ end <= b
      BY <3>1, <1>2
    <3>3. QED
      BY <3>2, <2>1
  <2>2. ASSUME NEW b \in P2, b \notin F2 PROVE b \in P /\ b \notin F
    <3>1. b \in P /\ b \in Nat /\ b # first /\ (b <= first \/ end <= b)
      BY <2>2, <1>1
    <3>2. b < first \/ end <= b
      BY <3>1, <1>2
    <3>3. QED
      BY <3>1, <3>2, <2>2
  <2>3. QED
    BY <2>1, <2>2, <1>6 DEF Allocated
<1>8. \A w \in Words \ (TagWords(P) \cup LinkWords(F)) : r.mem[w] = h.mem[w]
  <2> SUFFICES ASSUME NEW w \in Words, w \notin TagWords(P), w \notin LinkWords(F) PROVE r.mem[w] = h.mem[w]
    OBVIOUS
  <2>1. w \notin LinkWords(F2)
    BY DEF LinkWords
  <2>2. w # first - 4 /\ w # end - 8
    BY <1>2 DEF TagWords
  <2>3. g.mem[w] = h1.mem[w]
    BY <2>2, <1>3 DEF PackedAs
  <2>4. QED
    BY <2>1, <2>3, <1>6
<1>9. A \subseteq P \ {h.brk} /\ A \cap F = {}
  BY DEF Allocated
<1>10. Carried(h, P, r, P, A)
  BY <1>1, <1>8, <1>9, LinksCarry
<1>11. \A b \in A : Nxt(P2, b) = Nxt(P, b)
  <2>1. \A b \in A : b \in P2 /\ b # first /\ b # h.brk
    BY <1>7 DEF Allocated
  <2>2. QED
    BY <2>1, <1>3
<1>12. Carried(h, P, r, P2, A)
  BY <1>10, <1>11 DEF Carried
<1>13. FusedAs(r, h, P, F, P2, F2, first, end)
  BY <1>3, <1>6, <1>7, <1>12 DEF FusedAs
<1>14. P2 = Outside(P, first, end) /\ F2 = FreeOutside(F, first, end, 0)
  BY DEF Outside, FreeOutside
<1>15. TagsStay(r, g, h, P, first, end)
  <2>1. g \in Heaps /\ r \in Heaps
    BY <1>3, <1>6 DEF Shape
  <2>2. ASSUME NEW w \in TagWords(P), w # first - 4, w # end - 8
        PROVE  g.mem[w] = h.mem[w] /\ r.mem[w] = h.mem[w]
    <3>1. w \in Words /\ w \notin LinkWords(F)
      BY <1>1, GridWords
    <3>2. w \notin LinkWords(F2)
      BY <3>1 DEF LinkWords
    <3>3. g.mem[w] = h1.mem[w]
      BY <3>1, <2>2, <1>3 DEF PackedAs
    <3>4. h1.mem[w] = h.mem[w]
      BY <3>1
    <3>5. r.mem[w] = g.mem[w]
      BY <3>1, <3>2, <1>6
    <3>6. QED
      BY <3>3, <3>4, <3>5
  <2> HIDE DEF g
  <2>3. QED
    BY <2>1, <2>2 DEF TagsStay
<1>16. QED
  BY <1>13, <1>14, <1>15

(* Free blocks next to each other, but for those of B. *)
Spaced(P, F, B) == \A f \in F : Nxt(P, f) \in F => f \in B \/ Nxt(P, f) \in B

(* Between two calls: the listed blocks are the free ones, and no two of them are
   neighbours. *)
Tidy(h, P, F) == Shape(h, P, F, F) /\ Spaced(P, F, {})

(* The allocated blocks of h, and what they hold, are those of r. *)
Same(r, P2, F2, h, P, F) ==
  Allocated(r, P2, F2) = Allocated(h, P, F) /\ Carried(h, P, r, P2, Allocated(h, P, F))

LEMMA ListsCarry ==
  ASSUME NEW h, NEW P, NEW G, NEW F, Shape(h, P, F, G), NEW r, NEW F2, NEW L, L \subseteq F, ListedAs(r, h, P, F, F2, L)
  PROVE  Same(r, P, F, h, P, F)
<1>1. r.brk = h.brk /\ \A w \in Words \ LinkWords(L) : r.mem[w] = h.mem[w]
  BY DEF ListedAs
<1>2. Grid(P, h.brk) /\ L \subseteq P \ {h.brk}
  BY DEF Shape
<1> DEFINE A == Allocated(h, P, F)
<1>3. A \subseteq P \ {h.brk} /\ A \cap L = {}
  BY DEF Allocated
<1>4. Carried(h, P, r, P, A)
  <2> HIDE DEF A
  <2>1. QED
    BY <1>1, <1>2, <1>3, LinksCarry
<1>5. QED
  BY <1>1, <1>4 DEF Same, Allocated

LEMMA RemoveMore ==
  ASSUME NEW h, NEW P, NEW G, NEW F, NEW g, NEW E, E \subseteq F, ListedAs(g, h, P, G, E, F), NEW x \in E
  PROVE  ListedAs(remove_block(g, x), h, P, G, E \ {x}, F)
<1>1. Shape(g, P, G, E)
  BY DEF ListedAs
<1>2. ListedAs(remove_block(g, x), g, P, G, E \ {x}, E)
  BY <1>1, RemoveBlock
<1>3. LinkWords(E) \subseteq LinkWords(F)
  BY DEF LinkWords
<1>4. QED
  BY <1>2, <1>3 DEF ListedAs

(* What coalesce sees of the neighbours of free block bp. *)
LEMMA AroundIs ==
  ASSUME NEW h, NEW P, NEW F, Shape(h, P, F, F), NEW bp \in F
  PROVE  /\ NEXT_BLKP(h, bp) = Nxt(P, bp) /\ GET_SIZE(h, HDRP(bp)) = Nxt(P, bp) - bp
         /\ FreeAt(h, Nxt(P, bp)) <=> Nxt(P, bp) \in F
         /\ Adds(h, Nxt(P, bp)) = IF Nxt(P, bp) \in F THEN Nxt(P, Nxt(P, bp)) - Nxt(P, bp) ELSE 0
         /\ FreeAt(h, PREV_BLKP(h, bp)) <=> Prv(P, bp) \in F
         /\ Prv(P, bp) \in F => PREV_BLKP(h, bp) = Prv(P, bp) /\ Nxt(P, Prv(P, bp)) = bp
         /\ Adds(h, PREV_BLKP(h, bp)) = IF Prv(P, bp) \in F THEN bp - Prv(P, bp) ELSE 0
<1>1. Grid(P, h.brk) /\ F \subseteq P \ {h.brk} /\ bp \in P \ {h.brk} /\ P \subseteq Places
  <2>1. Grid(P, h.brk) /\ F \subseteq P \ {h.brk}
    BY DEF Shape
  <2>2. QED
    BY <2>1, GridNext
<1>2. NEXT_BLKP(h, bp) = Nxt(P, bp) /\ GET_SIZE(h, HDRP(bp)) = Nxt(P, bp) - bp /\ Nxt(P, bp) \in P
  BY <1>1, BlockIs, GridNext
<1> DEFINE y == Nxt(P, bp)
<1>3. (FreeAt(h, y) <=> y \in F) /\ (y \in F => GET_SIZE(h, HDRP(y)) = Nxt(P, y) - y)
  <2>1. CASE y = h.brk
    BY <2>1, <1>1, EpilogueIs
  <2>2. CASE y # h.brk
    <3>1. y \in P \ {h.brk}
      BY <2>2, <1>2
    <3> HIDE DEF y
    <3>2. QED
      BY <3>1, BlockIs
  <2>3. QED
    BY <2>1, <2>2
<1>4. Adds(h, y) = IF y \in F THEN Nxt(P, y) - y ELSE 0
  <2> HIDE DEF y
  <2>1. QED
    BY <1>3 DEF Adds
<1> DEFINE x == Prv(P, bp)
           v == PREV_BLKP(h, bp)
<1>5. (FreeAt(h, v) <=> x \in F) /\ (x \in F => v = x /\ Nxt(P, x) = bp /\ GET_SIZE(h, HDRP(v)) = bp - x)
  <2>1. CASE bp = 16
    <3>1. ~ FreeAt(h, v)
      BY <2>1, <1>1, PrevIs
    <3>2. x \notin F
      <4>1. \A p \in P : p \in Nat /\ 16 <= p
        BY <1>1 DEF Grid
      <4>2. x = 0
        BY <4>1, <2>1, <1>1, NoPrv DEF NULL
      <4>3. QED
        BY <4>1, <4>2, <1>1
    <3>3. QED
      BY <3>1, <3>2
  <2>2. CASE bp # 16
    <3>1. v = x /\ x \in P \ {h.brk}
      BY <2>2, <1>1, PrevIs
    <3>2. Nxt(P, x) = bp
      BY <2>2, <1>1, GridNext
    <3>3. (FreeAt(h, x) <=> x \in F) /\ GET_SIZE(h, HDRP(x)) = Nxt(P, x) - x
      <4> HIDE DEF x
      <4>1. QED
        BY <3>1, BlockIs
    <3>4. QED
      BY <3>1, <3>2, <3>3
  <2>3. QED
    BY <2>1, <2>2
<1>6. Adds(h, v) = IF x \in F THEN bp - x ELSE 0
  <2> HIDE DEF x, v
  <2>1. QED
    BY <1>5 DEF Adds
<1>7. QED
  BY <1>2, <1>3, <1>4, <1>5, <1>6

(* Where the free blocks around bp begin, where they end, and what is listed
   without them. *)
First(P, F, bp) == IF Prv(P, bp) \in F THEN Prv(P, bp) ELSE bp
End(P, F, bp) == IF Nxt(P, bp) \in F THEN Nxt(P, Nxt(P, bp)) ELSE Nxt(P, bp)
Others(P, F, bp) ==
  {f \in F : f # bp /\ (Prv(P, bp) \in F => f # Prv(P, bp)) /\ (Nxt(P, bp) \in F => f # Nxt(P, bp))}

(* They are all there is in between. *)
AreaIs(P, F, bp, first, end) ==
  /\ first \in F /\ end \in P /\ first <= bp /\ bp < end /\ Nxt(P, bp) <= end
  /\ \A p \in P : first <= p /\ p < end => p \in F
  /\ Others(P, F, bp) = {f \in F : f < first \/ end <= f}
  /\ end \notin F /\ \A f \in F : Nxt(P, f) # first

LEMMA Area ==
  ASSUME NEW P, NEW brk, Grid(P, brk), NEW F, F \subseteq P \ {brk}, NEW bp \in F, Spaced(P, F, {bp})
  PROVE  AreaIs(P, F, bp, First(P, F, bp), End(P, F, bp))
<1> DEFINE x == Prv(P, bp)
           y == Nxt(P, bp)
           z == Nxt(P, y)
<1>1. /\ \A p \in P : p \in Nat /\ 16 <= p
      /\ \A b \in P \ {brk} : Nxt(P, b) \in P /\ b + 16 <= Nxt(P, b) /\ \A r \in P : r <= b \/ Nxt(P, b) <= r
  BY GridNext DEF Grid
<1>2. bp \in P \ {brk} /\ bp \in P /\ bp \in Nat
  BY <1>1
<1>3. y \in P /\ y \in Nat /\ bp + 16 <= y /\ \A r \in P : r <= bp \/ y <= r
  BY <1>1, <1>2
<1>4. y \in F => z \in P /\ z \in Nat /\ y + 16 <= z /\ (\A r \in P : r <= y \/ z <= r) /\ z \notin F
  <2> SUFFICES ASSUME y \in F PROVE z \in P /\ z \in Nat /\ y + 16 <= z /\ (\A r \in P : r <= y \/ z <= r) /\ z \notin F
    OBVIOUS
  <2>1. y \in P \ {brk}
    OBVIOUS
  <2>2. z \in P /\ z \in Nat /\ y + 16 <= z /\ \A r \in P : r <= y \/ z <= r
    BY <2>1, <1>1
  <2>3. y # bp /\ z # bp
    BY <2>2, <1>2, <1>3
  <2>4. z \notin F
    BY <2>3 DEF Spaced
  <2>5. QED
    BY <2>2, <2>4
<1>5. \A r \in P : bp <= r \/ (x \in P /\ r <= x)
  <2>1. CASE bp = 16
    BY <2>1, <1>1
  <2>2. CASE bp # 16
    BY <2>2, <1>2, GridNext
  <2>3. QED
    BY <2>1, <2>2
<1>6. x \in F => x \in P /\ x \in Nat /\ x + 16 <= bp /\ Nxt(P, x) = bp /\ \A f \in F : Nxt(P, f) # x
  <2> SUFFICES ASSUME x \in F PROVE x \in P /\ x \in Nat /\ x + 16 <= bp /\ Nxt(P, x) = bp /\ \A f \in F : Nxt(P, f) # x
    OBVIOUS
  <2>1. x \in P /\ x \in Nat /\ 16 <= x
    BY <1>1
  <2>2. bp # 16
    <3>1. ASSUME bp = 16 PROVE FALSE
      <4>1. \A p \in P : bp <= p
        BY <3>1, <1>1
      <4>2. P \subseteq Places
        BY GridNext
      <4>3. x = 0
        BY <4>1, <4>2, <1>2, NoPrv DEF NULL
      <4>4. QED
        BY <4>3, <2>1
    <3>2. QED
      BY <3>1
  <2>3. x + 16 <= bp /\ Nxt(P, x) = bp
    BY <2>2, <1>2, GridNext
  <2>4. ASSUME NEW f \in F, Nxt(P, f) = x PROVE FALSE
    <3>1. f \in P \ {brk} /\ f \in Nat
      BY <1>1
    <3>2. f + 16 <= x
      BY <3>1, <2>4, <1>1
    <3>3. f # bp /\ x # bp
      BY <3>1, <3>2, <2>1, <2>3, <1>2
    <3>4. QED
      BY <3>3, <2>4 DEF Spaced
  <2>5. QED
    BY <2>1, <2>3, <2>4
<1> HIDE DEF x, y, z
<1> DEFINE first == IF x \in F THEN x ELSE bp
           end == IF y \in F THEN z ELSE y
<1>7. first \in F /\ end \in P /\ first \in Nat /\ end \in Nat /\ first <= bp /\ bp < end /\ y <= end
  BY <1>2, <1>3, <1>4, <1>6
<1>8. ASSUME NEW p \in P, first <= p, p < end PROVE p = bp \/ (p = x /\ x \in F) \/ (p = y /\ y \in F)
  <2>1. p \in Nat
    BY <1>1
  <2>2. CASE p < bp
    <3>1. x \in F
      BY <2>1, <2>2, <1>2, <1>8
    <3>2. x <= p /\ p <= x
      BY <3>1, <2>1, <2>2, <1>2, <1>5, <1>6, <1>8
    <3>3. QED
      BY <3>1, <3>2, <2>1, <1>6
  <2>3. CASE bp < p
    <3>1. y <= p
      BY <2>1, <2>3, <1>2, <1>3
    <3>2. y \in F
      BY <3>1, <2>1, <1>3, <1>8
    <3>3. p <= y
      BY <3>2, <2>1, <1>4, <1>8
    <3>4. QED
      BY <3>1, <3>2, <3>3, <2>1, <1>3
  <2>4. QED
    BY <2>1, <2>2, <2>3, <1>2
<1>9. \A p \in P : first <= p /\ p < end => p \in F
  BY <1>8
<1>10. Others(P, F, bp) = {f \in F : f < first \/ end <= f}
  <2>1. ASSUME NEW f \in F, f # bp, x \in F => f # x, y \in F => f # y PROVE f < first \/ end <= f
    <3>1. f \in P /\ f \in Nat
      BY <1>1
    <3>2. ~ (first <= f /\ f < end)
      BY <3>1, <2>1, <1>8
    <3>3. QED
      BY <3>1, <3>2, <1>7
  <2>2. ASSUME NEW f \in F, f < first \/ end <= f PROVE f # bp /\ (x \in F => f # x) /\ (y \in F => f # y)
    <3>1. f \in Nat
      BY <1>1
    <3>2. f # bp
      BY <3>1, <2>2, <1>7, <1>2
    <3>3. ASSUME x \in F PROVE f # x
      BY <3>1, <3>3, <2>2, <1>7, <1>6, <1>2
    <3>4. ASSUME y \in F PROVE f # y
      BY <3>1, <3>4, <2>2, <1>7, <1>3, <1>4, <1>2
    <3>5. QED
      BY <3>2, <3>3, <3>4
  <2> HIDE DEF first, end
  <2>3. QED
    BY <2>1, <2>2 DEF Others, x, y
<1>11. end \notin F
  BY <1>4
<1>12. \A f \in F : Nxt(P, f) # first
  <2>1. CASE x \in F
    BY <2>1, <1>6
  <2>2. CASE x \notin F
    <3>1. ASSUME NEW f \in F, Nxt(P, f) = bp PROVE FALSE
      <4>1. f \in P \ {brk} /\ bp # 0 /\ P \subseteq Places
        BY <1>1, <1>2, GridNext
      <4>2. Prv(P, Nxt(P, f)) = f
        BY <4>1, GridNext
      <4>3. f = x
        BY <4>2, <3>1 DEF x
      <4>4. QED
        BY <4>3, <2>2
    <3>2. QED
      BY <3>1, <2>2
  <2>3. QED
    BY <2>1, <2>2
<1>13. AreaIs(P, F, bp, first, end)
  <2>1. Nxt(P, bp) <= end
    BY <1>7 DEF y
  <2> HIDE DEF first, end
  <2>2. QED
    BY <2>1, <1>7, <1>9, <1>10, <1>11, <1>12 DEF AreaIs
<1>14. QED
  BY <1>13 DEF First, End, x, y, z

(* r is what is left of h when the free blocks around bp are one. *)
CoalescedAs(r, h, P, F, bp) ==
  \E P2, F2 : /\ Tidy(r.heap, P2, F2) /\ Same(r.heap, P2, F2, h, P, F) /\ r.heap.brk = h.brk
              /\ r.bp = First(P, F, bp) /\ r.bp \in F2 /\ Nxt(P, bp) <= Nxt(P2, r.bp)

LEMMA PrevStays ==
  ASSUME NEW h \in Heaps, NEW g \in Heaps, NEW bp, bp - 8 \in Words, g.mem[bp - 8] = h.mem[bp - 8]
  PROVE  PREV_BLKP(g, bp) = PREV_BLKP(h, bp)
<1>1. GET(g, bp - 8) = GET(h, bp - 8)
  BY GetIs
<1>2. QED
  BY <1>1 DEF PREV_BLKP, GET_SIZE, DSIZE

LEMMA CoalesceIs ==
  ASSUME NEW h, NEW P, NEW F, Shape(h, P, F, F), NEW bp \in F, Spaced(P, F, {bp})
  PROVE  CoalescedAs(coalesce(h, bp), h, P, F, bp)
<1> DEFINE x == Prv(P, bp)
           y == Nxt(P, bp)
           first == First(P, F, bp)
           end == End(P, F, bp)
           E == Others(P, F, bp)
           v == PREV_BLKP(h, bp)
           h1 == Leaves(h, h, v)
           h2 == remove_block(h1, bp)
           h3 == Leaves(h, h2, y)
<1>1. Grid(P, h.brk) /\ F \subseteq P \ {h.brk} /\ \A p \in P : p \in Nat
  BY DEF Shape, Grid
<1>2. /\ NEXT_BLKP(h, bp) = y /\ GET_SIZE(h, HDRP(bp)) = y - bp
      /\ FreeAt(h, y) <=> y \in F
      /\ Adds(h, y) = IF y \in F THEN Nxt(P, y) - y ELSE 0
      /\ FreeAt(h, v) <=> x \in F
      /\ x \in F => v = x /\ Nxt(P, x) = bp
      /\ Adds(h, v) = IF x \in F THEN bp - x ELSE 0
  BY AroundIs
<1>3. AreaIs(P, F, bp, first, end)
  BY <1>1, Area
<1>4. bp \in P \ {h.brk} /\ bp \in Nat /\ y \in P /\ y \in Nat /\ bp < y /\ x # bp /\ x # y
  <2>1. bp \in P \ {h.brk} /\ bp \in Nat
    BY <1>1
  <2>2. y \in P /\ bp + 16 <= y /\ y \in Nat
    BY <2>1, <1>1, GridNext
  <2>3. P \subseteq Places
    BY <1>1, GridNext
  <2>4. x = 0 \/ (x \in P /\ x < bp)
    <3>1. \/ Prv(P, bp) = NULL /\ \A q \in P : bp <= q
          \/ Prv(P, bp) \in P /\ Prv(P, bp) < bp /\ \A r \in P : bp <= r \/ r <= Prv(P, bp)
      BY <2>1, <2>3, PrvIs
    <3>2. QED
      BY <3>1 DEF NULL
  <2>5. 0 \notin P
    BY <2>3 DEF Places
  <2>6. QED
    BY <2>1, <2>2, <2>4, <2>5, <1>1
<1> HIDE DEF x, y
<1>5. CASE x \notin F /\ y \notin F
  <2>1. coalesce(h, bp) = Result(h, bp)
    BY <1>2, <1>5 DEF coalesce, v
  <2>2. first = bp /\ Nxt(P, bp) <= Nxt(P, bp)
    BY <1>4, <1>5 DEF First, x, y
  <2>3. Spaced(P, F, {})
    <3>1. ASSUME NEW f \in F, Nxt(P, f) \in F PROVE FALSE
      <4>1. f # bp
        BY <3>1, <1>5 DEF y
      <4>2. Nxt(P, f) = bp
        BY <4>1, <3>1 DEF Spaced
      <4>3. QED
        BY <4>2, <2>2, <1>3 DEF AreaIs
    <3>2. QED
      BY <3>1 DEF Spaced
  <2>4. Tidy(h, P, F) /\ Same(h, P, F, h, P, F)
    BY <2>3 DEF Tidy, Same, Carried
  <2>5. QED
    <3>1. Result(h, bp).heap = h /\ Result(h, bp).bp = bp
      BY DEF Result
    <3>2. CoalescedAs(Result(h, bp), h, P, F, bp)
      BY <3>1, <2>2, <2>4 DEF CoalescedAs
    <3>3. QED
      BY <3>2, <2>1
<1>6. CASE x \in F \/ y \in F
  <2>1. Adds(h, v) + GET_SIZE(h, HDRP(bp)) + Adds(h, y) = end - first /\ first = IF FreeAt(h, v) THEN v ELSE bp
    <3>1. x \in F => x \in Nat
      BY <1>1
    <3>2. y \in F => Nxt(P, y) \in Nat
      <4>1. y \in F => y \in P \ {h.brk}
        BY <1>1
      <4>2. QED
        BY <4>1, <1>1, GridNext
    <3>3. QED
      BY <3>1, <3>2, <1>2, <1>4 DEF First, End, x, y
  <2>2. /\ FreeAt(h, v) \/ FreeAt(h, y)
        /\ first = IF x \in F THEN x ELSE bp
    BY <1>2, <1>6 DEF First, x
  <2>3. ListedAs(h3, h, P, F, E, F)
    <3> DEFINE F1 == F \ {f \in {x} : x \in F}
               F2 == F1 \ {bp}
               F3 == F2 \ {f \in {y} : y \in F}
    <3>0. ListedAs(h, h, P, F, F, F)
      BY DEF ListedAs
    <3>1. ListedAs(h1, h, P, F, F1, F)
      <4>1. CASE x \in F
        <5>1. h1 = remove_block(h, x) /\ F1 = F \ {x}
          BY <4>1, <1>2 DEF Leaves
        <5>2. ListedAs(remove_block(h, x), h, P, F, F \ {x}, F)
          BY <3>0, <4>1, RemoveMore
        <5>3. QED
          BY <5>1, <5>2
      <4>2. CASE x \notin F
        <5>1. h1 = h /\ F1 = F
          BY <4>2, <1>2 DEF Leaves
        <5>2. QED
          BY <5>1, <3>0
      <4>3. QED
        BY <4>1, <4>2
    <3> HIDE DEF h1
    <3>2. ListedAs(h2, h, P, F, F2, F)
      <4>1. bp \in F1 /\ F1 \subseteq F
        BY <1>4
      <4> HIDE DEF F1
      <4>2. QED
        BY <3>1, <4>1, RemoveMore
    <3> HIDE DEF h2
    <3>3. ListedAs(h3, h, P, F, F3, F)
      <4>1. CASE y \in F
        <5>1. h3 = remove_block(h2, y) /\ F3 = F2 \ {y} /\ y \in F2 /\ F2 \subseteq F
          BY <4>1, <1>2, <1>4 DEF Leaves
        <5> HIDE DEF F2
        <5>2. ListedAs(remove_block(h2, y), h, P, F, F2 \ {y}, F)
          BY <5>1, <3>2, RemoveMore
        <5>3. QED
          BY <5>1, <5>2
      <4>2. CASE y \notin F
        <5>1. h3 = h2 /\ F3 = F2
          BY <4>2, <1>2 DEF Leaves
        <5>2. QED
          BY <5>1, <3>2
      <4>3. QED
        BY <4>1, <4>2
    <3>4. F3 = E
      BY DEF Others, x, y
    <3>5. QED
      BY <3>3, <3>4
  <2> HIDE DEF h3, first, end, E
  <2> DEFINE g == Pack(h3, first, end - first, 0)
             r == put_block(g, first)
             P2 == Outside(P, first, end)
             F2 == FreeOutside(F, first, end, 0)
  <2>4. /\ first \in F /\ end \in P /\ first <= bp /\ bp < end /\ y <= end
        /\ \A p \in P : first <= p /\ p < end => p \in F
        /\ E = {f \in F : f < first \/ end <= f}
        /\ end \notin F /\ \A f \in F : Nxt(P, f) # first
    BY <1>3 DEF AreaIs, E, y
  <2>5. first \in Nat /\ end \in Nat /\ first < end
    BY <2>4, <1>1, <1>4
  <2>6. FusedAs(r, h, P, F, P2, F2, first, end) /\ TagsStay(r, g, h, P, first, end)
    BY <2>3, <2>4, <2>5, Fused
  <2> HIDE DEF r, g
  <2>a. h \in Heaps /\ h3 \in Heaps /\ g \in Heaps /\ r \in Heaps
    BY <2>3, <2>6 DEF ListedAs, Shape, TagsStay
  <2>b. ASSUME NEW k \in Heaps, bp - 8 \in Words => k.mem[bp - 8] = h.mem[bp - 8] PROVE Begins(h, k, bp) = first
    <3>1. CASE x \in F
      <4>1. bp - 8 \in Words
        <5>1. TagWords(P) \subseteq Words
          BY <1>1, GridWords
        <5>2. QED
          BY <5>1, <1>4 DEF TagWords
      <4>2. PREV_BLKP(k, bp) = v /\ v = x /\ FreeAt(h, v)
        BY <4>1, <2>a, <2>b, <3>1, <1>2, PrevStays DEF v
      <4>3. QED
        BY <4>2, <3>1, <2>2 DEF Begins, v
    <3>2. CASE x \notin F
      BY <3>2, <1>2, <2>2 DEF Begins, v
    <3>3. QED
      BY <3>1, <3>2
  <2>c. bp - 8 \in TagWords(P) /\ bp - 8 # first - 4 /\ bp - 8 # end - 8 /\ bp - 8 \notin LinkWords(F)
    <3>1. bp - 8 \in TagWords(P)
      BY <1>4 DEF TagWords
    <3>2. bp % 8 = 0 /\ first % 8 = 0 /\ first \in P
      BY <1>1, <1>4, <2>4 DEF Grid
    <3>3. bp - 8 # first - 4 /\ bp - 8 # end - 8
      BY <3>2, <2>4, <2>5, <1>4
    <3>4. QED
      BY <3>1, <3>3, <1>1, GridWords
  <2>d. Begins(h, h3, bp) = first /\ Begins(h, g, bp) = first /\ Begins(h, r, bp) = first
    <3>1. bp - 8 \in Words => h3.mem[bp - 8] = h.mem[bp - 8]
      BY <2>3, <2>c DEF ListedAs
    <3>2. g.mem[bp - 8] = h.mem[bp - 8] /\ r.mem[bp - 8] = h.mem[bp - 8]
      BY <2>6, <2>c DEF TagsStay
    <3>3. QED
      BY <3>1, <3>2, <2>a, <2>b
  <2>e. coalesce(h, bp) = Result(r, first)
    <3> DEFINE size == Adds(h, v) + GET_SIZE(h, HDRP(bp)) + Adds(h, y)
               off == Leaves(h, remove_block(Leaves(h, h, v), bp), y)
               whole == Pack(off, Begins(h, off, bp), size, 0)
               listed == put_block(whole, Begins(h, whole, bp))
    <3>1. coalesce(h, bp) = IF ~ FreeAt(h, v) /\ ~ FreeAt(h, y) THEN Result(h, bp)
                            ELSE Result(listed, Begins(h, listed, bp))
      BY Zenon, <1>2 DEF coalesce, v
    <3>2. off = h3 /\ size = end - first
      BY <2>1 DEF h1, h2, h3
    <3> HIDE DEF off, size
    <3>3. whole = g
      BY <3>2, <2>d DEF g
    <3> HIDE DEF whole
    <3>4. listed = r
      BY <3>3, <2>d DEF r
    <3> HIDE DEF listed
    <3>5. QED
      BY <3>1, <3>4, <2>2, <2>d
  <2>7. /\ Shape(r, P2, F2, F2) /\ r.brk = h.brk /\ Same(r, P2, F2, h, P, F)
        /\ Nxt(P2, first) = end /\ \A c \in P2 \ {first, h.brk} : Nxt(P2, c) = Nxt(P, c)
    BY <2>6 DEF FusedAs, Same
  <2>8. first \in F2 /\ F2 \subseteq F /\ F2 \subseteq P2 /\ bp \notin F2 \ {first}
    <3>1. F2 \subseteq P2
      BY <2>7 DEF Shape
    <3>2. first \in F2 /\ F2 \subseteq F
      BY <2>4 DEF FreeOutside
    <3>3. bp \notin F2 \ {first}
      BY <2>4, <2>5, <1>4 DEF FreeOutside
    <3>4. QED
      BY <3>1, <3>2, <3>3
  <2> HIDE DEF P2, F2
  <2>9. Spaced(P2, F2, {})
    <3>1. ASSUME NEW f \in F2, Nxt(P2, f) \in F2 PROVE FALSE
      <4>1. f # first
        BY <3>1, <2>4, <2>7, <2>8
      <4>2. f \in F /\ f \in P2 /\ f # h.brk /\ f # bp
        BY <4>1, <2>8, <1>1
      <4>3. Nxt(P2, f) = Nxt(P, f)
        BY <4>1, <4>2, <2>7
      <4>4. Nxt(P, f) \in F /\ Nxt(P, f) # first
        BY <4>2, <4>3, <3>1, <2>4, <2>8
      <4>5. Nxt(P, f) # bp
        BY <4>3, <4>4, <3>1, <2>8
      <4>6. QED
        BY <4>2, <4>4, <4>5 DEF Spaced
    <3>2. QED
      BY <3>1 DEF Spaced
  <2>10. CoalescedAs(Result(r, first), h, P, F, bp)
    <3>1. Result(r, first).heap = r /\ Result(r, first).bp = first
      BY DEF Result
    <3>2. Tidy(r, P2, F2)
      BY <2>7, <2>9 DEF Tidy
    <3>3. Nxt(P, bp) <= Nxt(P2, first)
      BY <2>4, <2>7 DEF y
    <3>4. first = First(P, F, bp)
      BY DEF first
    <3>5. QED
      BY <3>1, <3>2, <3>3, <3>4, <2>7, <2>8 DEF CoalescedAs
  <2>11. QED
    BY <2>10, <2>e
<1>7. QED
  BY <1>5, <1>6

-----------------------------------------------------------------------------
(* The functions of mm.c.                                                    *)

(* The size of the last block, when it is free. *)
LastFree(P, F, brk) == IF Prv(P, brk) \in F THEN brk - Prv(P, brk) ELSE 0

(* r is the unchanged h and no block, or h grown by at least n free bytes. *)
ExtendedAs(r, h, P, F, n) ==
  \/ r.heap = h /\ r.bp = 0
  \/ \E P2, F2 : /\ Tidy(r.heap, P2, F2) /\ Same(r.heap, P2, F2, h, P, F)
                 /\ r.bp \in F2 /\ r.bp + n + LastFree(P, F, h.brk) <= Nxt(P2, r.bp)

LEMMA ExtendIs ==
  ASSUME NEW h, NEW P, NEW F, Tidy(h, P, F), NEW n \in Nat, n > 0, n % 8 = 0
  PROVE  ExtendedAs(extend_heap(h, n), h, P, F, n)
<1>1. PICK size \in Nat : size = IF n < 16 THEN 16 ELSE n
  OBVIOUS
<1>2. size >= 16 /\ size >= n /\ size % 8 = 0
  BY <1>1
<1>3. h \in Heaps /\ Grid(P, h.brk) /\ Shape(h, P, F, F) /\ F \subseteq P \ {h.brk} /\ Spaced(P, F, {})
  BY DEF Tidy, Shape
<1>4. PICK b \in Nat : b = h.brk
  BY <1>3 DEF Grid
<1>5. PICK e \in Nat : e = b + size
  OBVIOUS
<1>6. /\ b \in P /\ b % 8 = 0 /\ 16 <= b /\ P \subseteq Places
      /\ \A p \in P : p \in Nat /\ 16 <= p /\ p <= b
  BY <1>3, <1>4, GridNext DEF Grid
<1>7. b + 16 <= e /\ e % 8 = 0 /\ e - b = size /\ e \notin P
  <2>1. b + 16 <= e /\ e - b = size
    BY <1>2, <1>5
  <2>2. (b + size) % 8 = 0
    BY <1>2, <1>6
  <2>3. e \notin P
    BY <2>1, <1>6
  <2>4. QED
    BY <2>1, <2>2, <2>3, <1>5
<1> DEFINE r0 == Pack(PUT([h EXCEPT !.brk = e], HDRP(e), 1), b, size, 0)
           r == coalesce(put_block(r0, b), b)
<1>8. extend_heap(h, n) = IF e > MAX_HEAP THEN Result(h, 0) ELSE r
  <2>1. n = 4 * (n \div 4) /\ (n \div 4) % 2 = 0
    OBVIOUS
  <2> DEFINE even == IF (n \div 4) % 2 = 1 THEN (n \div 4 + 1) * 4 ELSE (n \div 4) * 4
  <2>2. even = n
    BY <2>1
  <2>3. size = IF even < 16 THEN 16 ELSE even
    BY <2>2, <1>1
  <2> HIDE DEF even
  <2>4. h.brk + size = e /\ b + size = e
    BY <1>4, <1>5
  <2>5. QED
    BY <2>3, <2>4, <1>4 DEF extend_heap, WSIZE, NULL, even
<1>9. CASE e > MAX_HEAP
  <2>1. Result(h, 0).heap = h /\ Result(h, 0).bp = 0
    BY DEF Result
  <2>2. ExtendedAs(Result(h, 0), h, P, F, n)
    BY <2>1 DEF ExtendedAs
  <2>3. QED
    BY <2>2, <1>8, <1>9
<1>10. CASE ~ (e > MAX_HEAP)
  <2> DEFINE P1 == P \cup {e}
             F1 == F \cup {b}
             g == put_block(r0, b)
             A == Allocated(h, P, F)
  <2>1. e <= MAX_HEAP
    BY <1>10, MmAssumption
  <2>2. GrownAs(r0, h, e)
    <3>1. (b - 4) % 4 = 0 /\ (e - 8) % 4 = 0 /\ (e - 4) % 4 = 0
      BY <1>6, <1>7
    <3>2. b - 4 \in Words /\ e - 8 \in Words /\ e - 4 \in Words
      BY <3>1, <2>1, <1>6, <1>7, WordIs, MmAssumption
    <3>3. QED
      BY <3>2, <1>3, <1>4, <1>5, GrowIs
  <2> HIDE DEF r0
  <2>3. GrownTo(r0, h, P, F, F, b, e)
    BY <2>1, <2>2, <1>3, <1>4, <1>7, Grown
  <2>4. /\ Shape(r0, P1, F1, F) /\ r0.brk = e /\ \A w \in Words \ {b - 4, e - 8, e - 4} : r0.mem[w] = h.mem[w]
        /\ Nxt(P1, b) = e /\ \A c \in P \ {b} : Nxt(P1, c) = Nxt(P, c)
    BY <2>3 DEF GrownTo
  <2>5. b \in P1 \ {e} /\ b \notin F /\ b \in F1
    BY <1>3, <1>4, <1>6, <1>7
  <2> HIDE DEF P1, F1
  <2>6. ListedAs(g, r0, P1, F1, F1, F1)
    <3>1. ListedAs(put_block(r0, b), r0, P1, F1, F \cup {b}, F \cup {b})
      BY <2>4, <2>5, PutBlock
    <3>2. QED
      BY <3>1 DEF F1
  <2> HIDE DEF g
  <2>7. /\ Shape(g, P1, F1, F1) /\ g.brk = e /\ \A w \in Words \ LinkWords(F1) : g.mem[w] = r0.mem[w]
        /\ Grid(P1, e) /\ F1 \subseteq P1 \ {e}
    <3>1. Shape(g, P1, F1, F1) /\ g.brk = e /\ \A w \in Words \ LinkWords(F1) : g.mem[w] = r0.mem[w]
      BY <2>4, <2>6 DEF ListedAs
    <3>2. QED
      BY <3>1 DEF Shape
  <2>8. Spaced(P1, F1, {b})
    <3>1. ASSUME NEW f \in F1, Nxt(P1, f) \in F1, f # b, Nxt(P1, f) # b PROVE FALSE
      <4>1. f \in F /\ f \in P /\ Nxt(P1, f) \in F
        BY <3>1, <1>3 DEF F1
      <4>2. Nxt(P1, f) = Nxt(P, f)
        BY <4>1, <3>1, <2>4
      <4>3. QED
        BY <4>1, <4>2, <1>3 DEF Spaced
    <3>2. QED
      BY <3>1 DEF Spaced
  <2>9. CoalescedAs(r, g, P1, F1, b)
    <3>1. r = coalesce(g, b)
      BY DEF g
    <3> HIDE DEF r
    <3>2. CoalescedAs(coalesce(g, b), g, P1, F1, b)
      BY <2>5, <2>7, <2>8, CoalesceIs
    <3>3. QED
      BY <3>1, <3>2
  <2> HIDE DEF r
  <2>10. Same(g, P1, F1, h, P, F)
    <3>1. Allocated(g, P1, F1) = A
      BY <2>7, <1>3, <1>4, <1>7, <2>5 DEF Allocated, P1, F1
    <3>2. \A w \in Words \ (TagWords(P1) \cup LinkWords(F1)) : g.mem[w] = h.mem[w]
      <4>1. {b - 4, e - 8, e - 4} \subseteq TagWords(P1)
        BY <2>5 DEF TagWords, P1
      <4>2. QED
        BY <4>1, <2>4, <2>7
    <3>3. A \subseteq P1 \ {e} /\ A \cap F1 = {}
      BY <3>1, <2>7 DEF Allocated
    <3>4. Carried(h, P1, g, P1, A)
      <4> HIDE DEF A
      <4>1. QED
        BY <3>2, <3>3, <2>7, LinksCarry
    <3>5. \A a \in A : Nxt(P1, a) = Nxt(P, a)
      BY <2>4, <1>4 DEF Allocated
    <3>6. Carried(h, P, g, P1, A)
      <4> HIDE DEF A
      <4>1. QED
        BY <3>4, <3>5 DEF Carried
    <3>7. QED
      BY <3>1, <3>6 DEF Same
  <2>11. Prv(P1, b) = Prv(P, b) /\ Prv(P, b) # b
    <3>0. P1 \subseteq Places
      BY <2>7, GridNext
    <3>1. \/ Prv(P, b) = 0 /\ \A q \in P : b <= q
          \/ Prv(P, b) \in P /\ Prv(P, b) < b /\ \A s \in P : b <= s \/ s <= Prv(P, b)
      BY <1>6, PrvIs DEF NULL
    <3>2. CASE Prv(P, b) = 0 /\ \A q \in P : b <= q
      <4>1. \A q \in P1 : b <= q
        BY <3>2, <1>7 DEF P1
      <4>2. QED
        <5>1. Prv(P1, b) = 0
          BY <4>1, <3>0, NoPrv DEF NULL
        <5>2. b # 0
          BY <1>6
        <5>3. QED
          BY <5>1, <5>2, <3>2
    <3>3. CASE Prv(P, b) \in P /\ Prv(P, b) < b /\ \A s \in P : b <= s \/ s <= Prv(P, b)
      <4>1. Prv(P, b) \in P1 /\ \A s \in P1 : b <= s \/ s <= Prv(P, b)
        BY <3>3, <1>7 DEF P1
      <4>2. Prv(P1, b) = Prv(P, b)
        BY <4>1, <3>0, <3>3, <1>6, PrvOnly
      <4>3. QED
        BY <4>2, <3>3, <1>6
    <3>4. QED
      BY <3>1, <3>2, <3>3
  <2>12. PICK P2, F2 : /\ Tidy(r.heap, P2, F2) /\ Same(r.heap, P2, F2, g, P1, F1)
                       /\ r.bp = First(P1, F1, b) /\ r.bp \in F2 /\ Nxt(P1, b) <= Nxt(P2, r.bp)
    BY <2>9 DEF CoalescedAs
  <2>13. Same(r.heap, P2, F2, h, P, F)
    <3>1. Carried(h, P, g, P1, A) /\ Carried(g, P1, r.heap, P2, A) /\ Allocated(r.heap, P2, F2) = A
      BY <2>10, <2>12 DEF Same
    <3> HIDE DEF A
    <3>2. Carried(h, P, r.heap, P2, A)
      BY <3>1, CarriedTwice
    <3>3. QED
      BY <3>1, <3>2 DEF Same, A
  <2>14. r.bp + n + LastFree(P, F, h.brk) <= Nxt(P2, r.bp)
    <3>1. Grid(P2, r.heap.brk) /\ F2 \subseteq P2 \ {r.heap.brk}
      BY <2>12 DEF Tidy, Shape
    <3>2. Nxt(P2, r.bp) \in Nat
      <4>1. Nxt(P2, r.bp) \in P2
        BY <3>1, <2>12, GridNext
      <4>2. QED
        BY <4>1, <3>1 DEF Grid
    <3>3. r.bp = IF Prv(P, b) \in F THEN Prv(P, b) ELSE b
      BY <2>11, <2>12 DEF First, F1
    <3>4. e <= Nxt(P2, r.bp)
      BY <2>4, <2>12
    <3>5. CASE Prv(P, b) \in F
      <4>1. Prv(P, b) \in Nat
        BY <3>5, <1>3, <1>6
      <4>2. QED
        BY <4>1, <3>2, <3>3, <3>4, <3>5, <1>2, <1>4, <1>5 DEF LastFree
    <3>6. CASE Prv(P, b) \notin F
      BY <3>2, <3>3, <3>4, <3>6, <1>2, <1>4, <1>5 DEF LastFree
    <3>7. QED
      BY <3>5, <3>6
  <2>15. ExtendedAs(r, h, P, F, n)
    BY <2>12, <2>13, <2>14 DEF ExtendedAs
  <2>16. QED
    BY <2>15, <1>8, <1>10 DEF r
<1>11. QED
  BY <1>9, <1>10

(* g is h with block bp allocated, of at least size bytes. *)
PlacedAs(g, h, P, F, bp, size) ==
  \E P2, F2 : /\ Tidy(g, P2, F2) /\ Allocated(g, P2, F2) = Allocated(h, P, F) \cup {bp}
              /\ Carried(h, P, g, P2, Allocated(h, P, F)) /\ bp + size <= Nxt(P2, bp)

LEMMA PlaceIs ==
  ASSUME NEW h, NEW P, NEW F, Tidy(h, P, F), NEW bp \in F, NEW size \in Nat, size % 8 = 0, size >= 16,
         bp + size <= Nxt(P, bp)
  PROVE  PlacedAs(place(h, bp, size), h, P, F, bp, size)
<1> DEFINE e == Nxt(P, bp)
           g == remove_block(h, bp)
           E == F \ {bp}
           A == Allocated(h, P, F)
<1>1. Shape(h, P, F, F) /\ Grid(P, h.brk) /\ F \subseteq P \ {h.brk} /\ Spaced(P, F, {})
  BY DEF Tidy, Shape
<1>2. /\ \A p \in P : p \in Nat /\ p % 8 = 0
      /\ bp \in P \ {h.brk} /\ bp \in P /\ bp \in Nat /\ bp % 8 = 0
      /\ e \in P /\ e \in Nat /\ e % 8 = 0 /\ bp < e /\ bp + size <= e /\ \A s \in P : s <= bp \/ e <= s
  <2>1. \A p \in P : p \in Nat /\ p % 8 = 0
    BY <1>1 DEF Grid
  <2>2. bp \in P \ {h.brk} /\ bp \in Nat
    BY <2>1, <1>1
  <2>3. e \in P /\ bp + 16 <= e /\ \A s \in P : s <= bp \/ e <= s
    BY <2>2, <1>1, GridNext
  <2>4. e \in Nat
    BY <2>1, <2>3
  <2> HIDE DEF e
  <2>5. bp < e
    BY <2>2, <2>3, <2>4
  <2>6. bp + size <= e
    BY DEF e
  <2>7. QED
    BY <2>1, <2>2, <2>3, <2>4, <2>5, <2>6
<1>3. GET_SIZE(h, HDRP(bp)) = e - bp
  BY <1>1, <1>2, BlockIs
<1>4. e \notin F
  BY <1>1 DEF Spaced
<1> HIDE DEF e
<1>5. ListedAs(g, h, P, F, E, F)
  BY <1>1, RemoveBlock
<1>6. Shape(g, P, F, E) /\ g.brk = h.brk
  BY <1>5 DEF ListedAs
<1>7. Carried(h, P, g, P, A)
  BY <1>1, <1>5, ListsCarry DEF Same
<1>8. A \subseteq P \ {h.brk} /\ A \cap F = {}
  BY DEF Allocated
<1> HIDE DEF g
<1>9. CASE e - bp - size < 16
  <2> DEFINE r == Pack(g, bp, e - bp, 1)
  <2>1. place(h, bp, size) = r
    BY <1>3, <1>9 DEF place, DSIZE, g
  <2>2. MergedAs(r, g, P, Outside(P, bp, e), FreeOutside(F, bp, e, 1), E, bp, e, 1)
    <3>1. \A f \in E : f <= bp \/ e <= f
      BY <1>1, <1>2
    <3>2. QED
      BY <3>1, <1>2, <1>6, Merged
  <2>3. Outside(P, bp, e) = P /\ FreeOutside(F, bp, e, 1) = E
    <3>1. Outside(P, bp, e) = P
      BY <1>2 DEF Outside
    <3>2. \A f \in F : f # bp => f < bp \/ e <= f
      BY <1>1, <1>2
    <3>3. ~ (bp < bp) /\ ~ (e <= bp)
      BY <1>2
    <3>4. FreeOutside(F, bp, e, 1) = E
      BY <3>2, <3>3 DEF FreeOutside
    <3>5. QED
      BY <3>1, <3>4
  <2> HIDE DEF r
  <2>4. Shape(r, P, E, E) /\ PackedAs(r, g, bp - 4, e - 8, e - bp + 1)
    BY <2>2, <2>3 DEF MergedAs
  <2>5. r.brk = h.brk
    BY <2>4, <1>6 DEF PackedAs
  <2>6. Spaced(P, E, {})
    BY <1>1 DEF Spaced
  <2>7. Allocated(r, P, E) = A \cup {bp}
    BY <2>5, <1>2 DEF Allocated
  <2>8. Carried(g, P, r, P, A)
    <3>1. bp - 4 \in TagWords(P) /\ e - 8 \in TagWords(P)
      BY <1>2 DEF TagWords
    <3>2. \A w \in Words \ (TagWords(P) \cup LinkWords({})) : r.mem[w] = g.mem[w]
      BY <3>1, <2>4 DEF PackedAs
    <3>3. {} \subseteq P \ {h.brk} /\ A \cap {} = {}
      OBVIOUS
    <3> HIDE DEF A
    <3>4. QED
      BY <3>2, <3>3, <1>1, <1>8, LinksCarry
  <2>9. Carried(h, P, r, P, A)
    <3> HIDE DEF A
    <3>1. QED
      BY <2>8, <1>7, CarriedTwice
  <2>10. bp + size <= Nxt(P, bp)
    OBVIOUS
  <2>11. PlacedAs(r, h, P, F, bp, size)
    <3>1. Tidy(r, P, E)
      BY <2>4, <2>6 DEF Tidy
    <3>2. QED
      BY <3>1, <2>7, <2>9, <2>10 DEF PlacedAs
  <2>12. QED
    BY <2>1, <2>11
<1>10. CASE ~ (e - bp - size < 16)
  <2>0. PICK m \in Nat : m = bp + size
    BY <1>2
  <2>a. m % 8 = 0 /\ bp + 16 <= m /\ m + 16 <= e /\ m - bp = size /\ e - m = e - bp - size
    <3>1. (bp + size) % 8 = 0
      BY <1>2
    <3>2. bp + 16 <= m /\ m + 16 <= e /\ m - bp = size /\ e - m = e - bp - size
      BY <2>0, <1>2, <1>10
    <3>3. QED
      BY <3>1, <3>2, <2>0
  <2> DEFINE r0 == Pack(Pack(g, bp, m - bp, 1), m, Nxt(P, bp) - m, 0)
             r == put_block(r0, m)
             P2 == P \cup {m}
             F2 == E \cup {m}
  <2>1. place(h, bp, size) = r
    <3>1. place(h, bp, size) = put_block(Pack(Pack(g, bp, size, 1), bp + size, e - bp - size, 0), bp + size)
      BY <1>3, <1>10 DEF place, DSIZE, g
    <3>2. r0 = Pack(Pack(g, bp, size, 1), bp + size, e - bp - size, 0)
      BY <2>0, <2>a DEF e
    <3>3. QED
      BY <3>1, <3>2, <2>0
  <2>2. SplitAs(r0, g, P, F, E, bp, m)
    <3>1. bp \in P \ {g.brk} /\ bp \notin E /\ m + 16 <= Nxt(P, bp)
      BY <1>2, <1>6, <2>a DEF e
    <3>2. QED
      BY <3>1, <2>a, <1>6, Split
  <2> HIDE DEF r0
  <2>3. /\ Shape(r0, P2, F2, E) /\ m \notin P
        /\ TwicePacked(r0, g, bp - 4, m - 8, m - bp + 1, m - 4, e - 8, e - m)
        /\ Nxt(P2, bp) = m /\ Nxt(P2, m) = e /\ \A c \in P \ {bp} : Nxt(P2, c) = Nxt(P, c)
    BY <2>2 DEF SplitAs, e
  <2>4. r0.brk = h.brk /\ m # h.brk /\ m # bp /\ m # e
    <3>1. r0.brk = h.brk
      BY <2>3, <1>6 DEF TwicePacked
    <3>2. h.brk \in P
      BY <1>1 DEF Grid
    <3>3. QED
      BY <3>1, <3>2, <2>3, <1>2
  <2>5. ListedAs(r, r0, P2, F2, F2, F2)
    <3>1. m \in P2 \ {r0.brk} /\ m \notin E
      BY <2>3, <2>4, <1>1
    <3> HIDE DEF P2
    <3>2. ListedAs(put_block(r0, m), r0, P2, F2, E \cup {m}, E \cup {m})
      <4> HIDE DEF F2, E
      <4>1. QED
        BY <3>1, <2>3, PutBlock
    <3>3. QED
      BY <3>2
  <2> HIDE DEF r
  <2>6. Shape(r, P2, F2, F2) /\ r.brk = h.brk /\ \A w \in Words \ LinkWords(F2) : r.mem[w] = r0.mem[w]
    BY <2>4, <2>5 DEF ListedAs
  <2>7. Spaced(P2, F2, {})
    <3>1. ASSUME NEW f \in F2, Nxt(P2, f) \in F2 PROVE FALSE
      <4>1. CASE f = m
        BY <4>1, <3>1, <2>3, <2>4, <1>4
      <4>2. CASE f # m
        <5>1. f \in F /\ f \in P /\ f # bp /\ Nxt(P2, f) = Nxt(P, f)
          BY <4>2, <2>3, <1>1
        <5>2. Nxt(P, f) \in P
          BY <5>1, <1>1, GridNext
        <5>3. Nxt(P, f) \in F
          BY <5>1, <5>2, <3>1, <2>3
        <5>4. QED
          BY <5>1, <5>3, <1>1 DEF Spaced
      <4>3. QED
        BY <4>1, <4>2
    <3>2. QED
      BY <3>1 DEF Spaced
  <2>8. Allocated(r, P2, F2) = A \cup {bp}
    BY <2>3, <2>4, <2>6, <1>2 DEF Allocated
  <2>9. Carried(h, P, r, P2, A)
    <3>1. {bp - 4, m - 8, m - 4, e - 8} \subseteq TagWords(P2)
      BY <1>2 DEF TagWords
    <3>2. \A w \in Words \ (TagWords(P2) \cup LinkWords(F2)) : r.mem[w] = g.mem[w]
      <4> SUFFICES ASSUME NEW w \in Words, w \notin TagWords(P2), w \notin LinkWords(F2) PROVE r.mem[w] = g.mem[w]
        OBVIOUS
      <4>1. w # bp - 4 /\ w # m - 8 /\ w # m - 4 /\ w # e - 8
        BY <3>1
      <4>2. r0.mem[w] = g.mem[w]
        BY <4>1, <2>3 DEF TwicePacked
      <4>3. QED
        BY <4>2, <2>6
    <3>3. Grid(P2, h.brk) /\ F2 \subseteq P2 \ {h.brk} /\ A \subseteq P2 \ {h.brk} /\ A \cap F2 = {}
      <4>1. Grid(P2, h.brk) /\ F2 \subseteq P2 \ {h.brk}
        BY <2>6 DEF Shape
      <4>2. A \subseteq P2 \ {h.brk} /\ A \cap F2 = {}
        BY <1>8, <2>3
      <4>3. QED
        BY <4>1, <4>2
    <3>4. \A a \in A : Nxt(P2, a) = Nxt(P, a)
      BY <2>3, <1>8
    <3> HIDE DEF A, P2, F2
    <3>5. Carried(g, P2, r, P2, A)
      BY <3>2, <3>3, LinksCarry
    <3>6. Carried(g, P, r, P2, A)
      BY <3>4, <3>5 DEF Carried
    <3>7. QED
      BY <3>6, <1>7, CarriedTwice
  <2>10. bp + size <= Nxt(P2, bp)
    BY <2>0, <2>3
  <2>11. PlacedAs(r, h, P, F, bp, size)
    <3>1. Tidy(r, P2, F2)
      BY <2>6, <2>7 DEF Tidy
    <3>2. QED
      BY <3>1, <2>8, <2>9, <2>10 DEF PlacedAs
  <2>12. QED
    BY <2>1, <2>11
<1>11. QED
  BY <1>9, <1>10

LEMMA AsizeIs ==
  ASSUME NEW size \in Nat, size > 0
  PROVE  asize(size) \in Nat /\ asize(size) % 8 = 0 /\ asize(size) >= 16 /\ asize(size) >= size + 8
<1>1. CASE size < 8
  BY <1>1 DEF asize, DSIZE
<1>2. CASE ~ (size < 8)
  <2>1. asize(size) = ((size + 15) \div 8) * 8
    BY <1>2 DEF asize, ALIGN, ALIGNMENT, DSIZE
  <2>2. ((size + 15) \div 8) * 8 \in Nat /\ (((size + 15) \div 8) * 8) % 8 = 0 /\ ((size + 15) \div 8) * 8 >= size + 8
    OBVIOUS
  <2>3. QED
    BY <2>1, <2>2, <1>2
<1>3. QED
  BY <1>1, <1>2

(* What mm_malloc sees of the last block. *)
LEMMA LastIs ==
  ASSUME NEW h, NEW P, NEW F, Tidy(h, P, F)
  PROVE  /\ (IF GET_ALLOC(h, HDRP(LastBlock(h))) = 1 THEN 0 ELSE GET_SIZE(h, HDRP(LastBlock(h)))) = LastFree(P, F, h.brk)
         /\ LastFree(P, F, h.brk) \in Nat /\ LastFree(P, F, h.brk) % 8 = 0
         /\ LastFree(P, F, h.brk) # 0 => \E f \in F : LastFree(P, F, h.brk) = Nxt(P, f) - f
<1>1. Shape(h, P, F, F) /\ Grid(P, h.brk) /\ F \subseteq P \ {h.brk} /\ h.brk \in P /\ h \in Heaps /\ Tagged(h, P, F)
  BY DEF Tidy, Shape, Grid
<1>2. \A p \in P : p \in Nat /\ p % 8 = 0 /\ 16 <= p
  BY <1>1 DEF Grid
<1> DEFINE c == Prv(P, h.brk)
           v == LastBlock(h)
<1>3. CASE h.brk = 16
  <2>1. v = 8
    BY <1>1, <1>3, PrevIs DEF LastBlock
  <2>2. 4 \in Words
    BY MmAssumption, WordIs
  <2>3. GET(h, 4) = 9
    BY <2>2, <1>1, GetIs DEF Tagged
  <2>4. GET_ALLOC(h, HDRP(v)) = 1
    BY <2>1, <2>3 DEF GET_ALLOC, HDRP, WSIZE
  <2>5. c \notin F
    <3>1. P \subseteq Places /\ \A p \in P : h.brk <= p
      BY <1>1, <1>2, <1>3, GridNext
    <3>2. c = 0
      BY <3>1, <1>3, NoPrv DEF NULL
    <3>3. QED
      BY <3>2, <1>1, <1>2
  <2>6. QED
    BY <2>4, <2>5 DEF LastFree
<1>4. CASE h.brk # 16
  <2>1. v = c /\ c \in P \ {h.brk}
    BY <1>1, <1>4, PrevIs DEF LastBlock
  <2>2. Nxt(P, c) = h.brk /\ c + 16 <= h.brk
    BY <1>1, <1>4, GridNext
  <2> HIDE DEF c
  <2>3. GET_SIZE(h, HDRP(c)) = h.brk - c /\ GET_ALLOC(h, HDRP(c)) = IF c \in F THEN 0 ELSE 1
    BY <2>1, <2>2, <1>1, BlockIs
  <2>4. c \in Nat /\ c % 8 = 0 /\ h.brk \in Nat /\ h.brk % 8 = 0
    BY <2>1, <1>1, <1>2
  <2>5. h.brk - c \in Nat /\ (h.brk - c) % 8 = 0
    BY <2>2, <2>4
  <2>6. CASE c \in F
    <3>1. LastFree(P, F, h.brk) = h.brk - c
      BY <2>6 DEF LastFree, c
    <3>2. QED
      BY <3>1, <2>1, <2>2, <2>3, <2>5, <2>6
  <2>7. CASE c \notin F
    <3>1. LastFree(P, F, h.brk) = 0
      BY <2>7 DEF LastFree, c
    <3>2. QED
      BY <3>1, <2>1, <2>3, <2>7
  <2>8. QED
    BY <2>6, <2>7
<1>5. QED
  BY <1>3, <1>4

(* r is h, perhaps grown, and a free block of at least size bytes. *)
FitAs(r, h, P, F, size) ==
  \/ r.bp = 0
  \/ \E P2, F2 : /\ Tidy(r.heap, P2, F2) /\ Same(r.heap, P2, F2, h, P, F)
                 /\ r.bp \in F2 /\ r.bp + size <= Nxt(P2, r.bp)

LEMMA FitIs ==
  ASSUME NEW h, NEW P, NEW F, Tidy(h, P, F), NEW size \in Nat, size % 8 = 0, size >= 16
  PROVE  FitAs(FitOrExtend(h, get_block(h, size), size), h, P, F, size)
<1>1. Shape(h, P, F, F) /\ Grid(P, h.brk) /\ F \subseteq P \ {h.brk}
  BY DEF Tidy, Shape
<1>2. \A f \in F : f \in Nat /\ f # 0 /\ Nxt(P, f) \in Nat
  <2>1. \A p \in P : p \in Nat /\ 16 <= p
    BY <1>1 DEF Grid
  <2>2. \A f \in F : Nxt(P, f) \in P
    BY <1>1, GridNext
  <2>3. QED
    BY <2>1, <2>2, <1>1
<1> DEFINE fit == get_block(h, size)
<1>3. \/ fit = 0 /\ \A f \in F : Nxt(P, f) - f < size
      \/ fit \in F /\ Nxt(P, fit) - fit >= size
  BY <1>1, GetBlockIs
<1> HIDE DEF fit
<1>4. CASE fit \in F /\ Nxt(P, fit) - fit >= size
  <2>1. FitOrExtend(h, fit, size) = Result(h, fit)
    BY <1>2, <1>4 DEF FitOrExtend, NULL
  <2>2. Result(h, fit).heap = h /\ Result(h, fit).bp = fit
    BY DEF Result
  <2>3. fit + size <= Nxt(P, fit)
    BY <1>2, <1>4
  <2>4. Same(h, P, F, h, P, F)
    BY DEF Same, Carried
  <2>5. FitAs(Result(h, fit), h, P, F, size)
    BY <2>2, <2>3, <2>4, <1>4 DEF FitAs
  <2>6. QED
    BY <2>1, <2>5 DEF fit
<1>5. CASE fit = 0 /\ \A f \in F : Nxt(P, f) - f < size
  <2> DEFINE last == LastFree(P, F, h.brk)
  <2>1. /\ (IF GET_ALLOC(h, HDRP(LastBlock(h))) = 1 THEN 0 ELSE GET_SIZE(h, HDRP(LastBlock(h)))) = last
        /\ last \in Nat /\ last % 8 = 0
        /\ last # 0 => \E f \in F : last = Nxt(P, f) - f
    BY LastIs
  <2> HIDE DEF last
  <2>2. last < size
    BY <2>1, <1>5
  <2>3. PICK n \in Nat : n = size - last
    BY <2>1, <2>2
  <2>4. n > 0 /\ n % 8 = 0 /\ n + last = size
    BY <2>1, <2>2, <2>3
  <2> DEFINE r == extend_heap(h, n)
  <2>5. FitOrExtend(h, fit, size) = r
    BY <2>1, <2>3, <1>5 DEF FitOrExtend, NULL
  <2>6. ExtendedAs(r, h, P, F, n)
    BY <2>4, ExtendIs
  <2> HIDE DEF r
  <2>7. FitAs(r, h, P, F, size)
    <3>1. CASE r.bp = 0
      BY <3>1 DEF FitAs
    <3>2. CASE r.bp # 0
      <4>1. PICK P2, F2 : /\ Tidy(r.heap, P2, F2) /\ Same(r.heap, P2, F2, h, P, F)
                          /\ r.bp \in F2 /\ r.bp + n + LastFree(P, F, h.brk) <= Nxt(P2, r.bp)
        BY <3>2, <2>6 DEF ExtendedAs
      <4>2. r.bp \in Nat
        BY <4>1 DEF Tidy, Shape, Grid
      <4>3. r.bp + n + last = r.bp + size
        BY <4>2, <2>1, <2>4
      <4>4. r.bp + size <= Nxt(P2, r.bp)
        BY <4>1, <4>3 DEF last
      <4>5. QED
        BY <4>1, <4>4 DEF FitAs
    <3>3. QED
      BY <3>1, <3>2
  <2>8. QED
    BY <2>5, <2>7 DEF fit
<1>6. QED
  BY <1>3, <1>4, <1>5

(* r is no block, or h with one more allocated block of at least size bytes. *)
MallocAs(r, h, P, F, size) ==
  \/ r.bp = 0
  \/ \E P2, F2 : /\ Tidy(r.heap, P2, F2)
                 /\ r.bp \notin Allocated(h, P, F) /\ Allocated(r.heap, P2, F2) = Allocated(h, P, F) \cup {r.bp}
                 /\ Carried(h, P, r.heap, P2, Allocated(h, P, F)) /\ r.bp + size + 8 <= Nxt(P2, r.bp)

LEMMA MallocIs ==
  ASSUME NEW h, NEW P, NEW F, Tidy(h, P, F), NEW size \in Nat, size > 0
  PROVE  MallocAs(mm_malloc(h, size), h, P, F, size)
<1> DEFINE a == asize(size)
           r == FitOrExtend(h, get_block(h, a), a)
           A == Allocated(h, P, F)
<1>1. a \in Nat /\ a % 8 = 0 /\ a >= 16 /\ a >= size + 8
  BY AsizeIs
<1> HIDE DEF a
<1>2. FitAs(r, h, P, F, a)
  BY <1>1, FitIs
<1> HIDE DEF r
<1>3. mm_malloc(h, size) = Placed(r, a)
  BY DEF mm_malloc, r, a
<1>4. CASE r.bp = 0
  <2>1. Placed(r, a) = r
    BY <1>4 DEF Placed, NULL
  <2>2. QED
    BY <2>1, <1>3, <1>4 DEF MallocAs
<1>5. CASE r.bp # 0
  <2>1. PICK P1, F1 : /\ Tidy(r.heap, P1, F1) /\ Same(r.heap, P1, F1, h, P, F)
                      /\ r.bp \in F1 /\ r.bp + a <= Nxt(P1, r.bp)
    BY <1>2, <1>5 DEF FitAs
  <2> DEFINE bp == r.bp
             g == place(r.heap, bp, a)
  <2>2. PlacedAs(g, r.heap, P1, F1, bp, a)
    BY <2>1, <1>1, PlaceIs
  <2> HIDE DEF g
  <2>3. Placed(r, a) = Result(g, bp)
    BY <1>5 DEF Placed, NULL, g
  <2>4. Result(g, bp).heap = g /\ Result(g, bp).bp = bp
    BY DEF Result
  <2>5. PICK P2, F2 : /\ Tidy(g, P2, F2) /\ Allocated(g, P2, F2) = Allocated(r.heap, P1, F1) \cup {bp}
                      /\ Carried(r.heap, P1, g, P2, Allocated(r.heap, P1, F1)) /\ bp + a <= Nxt(P2, bp)
    BY <2>2 DEF PlacedAs
  <2>6. Allocated(r.heap, P1, F1) = A /\ Carried(h, P, r.heap, P1, A)
    BY <2>1 DEF Same
  <2>7. bp \notin A
    BY <2>1, <2>6 DEF Allocated
  <2>8. Carried(h, P, g, P2, A)
    <3> HIDE DEF A
    <3>1. QED
      BY <2>5, <2>6, CarriedTwice
  <2>9. bp + size + 8 <= Nxt(P2, bp)
    <3>1. Grid(P2, g.brk) /\ bp \in P2 \ {g.brk}
      BY <2>5 DEF Tidy, Shape, Allocated
    <3>2. Nxt(P2, bp) \in P2
      BY <3>1, GridNext
    <3>3. bp \in Nat /\ Nxt(P2, bp) \in Nat
      BY <3>1, <3>2 DEF Grid
    <3> HIDE DEF bp
    <3>4. QED
      BY <3>3, <2>5, <1>1
  <2>10. MallocAs(Result(g, bp), h, P, F, size)
    BY <2>4, <2>5, <2>6, <2>7, <2>8, <2>9 DEF MallocAs
  <2>11. QED
    BY <2>3, <2>10, <1>3
<1>6. QED
  BY <1>4, <1>5

(* g is h without the allocated block bp. *)
FreedAs(g, h, P, F, bp) ==
  \E P2, F2 : /\ Tidy(g, P2, F2) /\ Allocated(g, P2, F2) = Allocated(h, P, F) \ {bp}
              /\ Carried(h, P, g, P2, Allocated(h, P, F) \ {bp})

LEMMA FreeIs ==
  ASSUME NEW h, NEW P, NEW F, Tidy(h, P, F), NEW bp \in Allocated(h, P, F)
  PROVE  FreedAs(mm_free(h, bp), h, P, F, bp)
<1> DEFINE e == Nxt(P, bp)
           h1 == Pack(h, bp, e - bp, 0)
           h2 == put_block(h1, bp)
           E == F \cup {bp}
           A == Allocated(h, P, F) \ {bp}
           r == coalesce(h2, bp)
<1>1. Shape(h, P, F, F) /\ Grid(P, h.brk) /\ F \subseteq P \ {h.brk} /\ Spaced(P, F, {})
  BY DEF Tidy, Shape
<1>2. \A p \in P : p \in Nat
  BY <1>1 DEF Grid
<1>3. bp \in P \ {h.brk} /\ bp \in P /\ bp \in Nat /\ bp \notin F
  BY <1>2 DEF Allocated
<1>4. e \in P /\ bp + 16 <= e /\ \A s \in P : s <= bp \/ e <= s
  BY <1>1, <1>3, GridNext
<1>5. GET_SIZE(h, HDRP(bp)) = e - bp
  BY <1>1, <1>3, BlockIs
<1> HIDE DEF e
<1>6. e \in Nat /\ bp < e
  BY <1>2, <1>3, <1>4
<1>7. mm_free(h, bp) = r.heap
  BY <1>5 DEF mm_free
<1>8. MergedAs(h1, h, P, Outside(P, bp, e), FreeOutside(F, bp, e, 0), F, bp, e, 0)
  <2>1. \A f \in F : f <= bp \/ e <= f
    BY <1>1, <1>4
  <2>2. QED
    BY <2>1, <1>1, <1>3, <1>4, <1>6, Merged
<1>9. Outside(P, bp, e) = P /\ FreeOutside(F, bp, e, 0) = E
  <2>1. Outside(P, bp, e) = P
    BY <1>4 DEF Outside
  <2>2. \A f \in F : f < bp \/ e <= f
    BY <1>1, <1>2, <1>3, <1>4
  <2>3. QED
    BY <2>1, <2>2 DEF FreeOutside
<1> HIDE DEF h1
<1>10. Shape(h1, P, E, F) /\ PackedAs(h1, h, bp - 4, e - 8, e - bp + 0)
  BY <1>8, <1>9 DEF MergedAs
<1>11. h1.brk = h.brk
  BY <1>10 DEF PackedAs
<1>12. ListedAs(h2, h1, P, E, E, E)
  BY <1>3, <1>10, <1>11, PutBlock
<1> HIDE DEF h2
<1>13. Shape(h2, P, E, E) /\ h2.brk = h.brk /\ \A w \in Words \ LinkWords(E) : h2.mem[w] = h1.mem[w]
  BY <1>11, <1>12 DEF ListedAs
<1>14. Spaced(P, E, {bp})
  BY <1>1 DEF Spaced
<1>15. CoalescedAs(r, h2, P, E, bp)
  <2>1. bp \in E
    OBVIOUS
  <2> HIDE DEF E
  <2>2. QED
    BY <2>1, <1>13, <1>14, CoalesceIs
<1> HIDE DEF r
<1>16. Allocated(h2, P, E) = A
  BY <1>13 DEF Allocated
<1>17. Carried(h, P, h2, P, A)
  <2>1. bp - 4 \in TagWords(P) /\ e - 8 \in TagWords(P)
    BY <1>3, <1>4 DEF TagWords
  <2>2. \A w \in Words \ (TagWords(P) \cup LinkWords(E)) : h2.mem[w] = h.mem[w]
    BY <2>1, <1>10, <1>13 DEF PackedAs
  <2>3. E \subseteq P \ {h.brk}
    BY <1>1, <1>3
  <2>4. A \subseteq P \ {h.brk} /\ A \cap E = {}
    BY DEF Allocated
  <2> HIDE DEF A, E
  <2>5. QED
    BY <2>2, <2>3, <2>4, <1>1, LinksCarry
<1>18. PICK P2, F2 : Tidy(r.heap, P2, F2) /\ Same(r.heap, P2, F2, h2, P, E)
  BY <1>15 DEF CoalescedAs
<1>19. Allocated(r.heap, P2, F2) = A /\ Carried(h2, P, r.heap, P2, A)
  BY <1>16, <1>18 DEF Same
<1>20. Carried(h, P, r.heap, P2, A)
  <2> HIDE DEF A
  <2>1. QED
    BY <1>17, <1>19, CarriedTwice
<1>21. QED
  BY <1>7, <1>18, <1>19, <1>20 DEF FreedAs

LEMMA SameTags ==
  ASSUME NEW h, NEW P, NEW F, Tidy(h, P, F), NEW g \in Heaps, g.roots = h.roots, g.brk = h.brk,
         \A w \in TagWords(P) \cup LinkWords(F) : g.mem[w] = h.mem[w]
  PROVE  Tidy(g, P, F)
<1>1. Shape(h, P, F, F)
  BY DEF Tidy
<1>2. Shape(g, P, F, F)
  BY <1>1, Framed
<1>3. QED
  BY <1>2 DEF Tidy

(* A heap that differs from h in the payload of block to only. *)
WrittenAs(g, h, P, F, to) ==
  Tidy(g, P, F) /\ g.brk = h.brk /\ Carried(h, P, g, P, Allocated(h, P, F) \ {to})

LEMMA PayloadWritten ==
  ASSUME NEW h, NEW P, NEW F, Tidy(h, P, F), NEW to \in Allocated(h, P, F), NEW n \in Nat, to + n + 8 <= Nxt(P, to),
         NEW g \in Heaps, g.roots = h.roots, g.brk = h.brk,
         \A w \in Words : (to <= w /\ w < to + n) \/ g.mem[w] = h.mem[w]
  PROVE  WrittenAs(g, h, P, F, to)
<1> DEFINE A == Allocated(h, P, F) \ {to}
<1>1. Grid(P, h.brk) /\ F \subseteq P \ {h.brk} /\ h \in Heaps
  BY DEF Tidy, Shape
<1>2. \A p \in P : p \in Nat
  BY <1>1 DEF Grid
<1>3. to \in P \ {h.brk} /\ to \in P /\ to \notin F
  BY DEF Allocated
<1>4. Nxt(P, to) \in Nat /\ \A s \in P : s <= to \/ Nxt(P, to) <= s
  <2>1. Nxt(P, to) \in P /\ \A s \in P : s <= to \/ Nxt(P, to) <= s
    BY <1>1, <1>3, GridNext
  <2>2. QED
    BY <2>1, <1>2
<1>5. to \in Nat
  BY <1>2, <1>3
<1>6. \A p \in Words : p \in Nat
  BY WordsAre
<1>11. TagWords(P) \subseteq Words /\ LinkWords(F) \subseteq Words
  BY <1>1, GridWords
<1>12. \A w \in TagWords(P) \cup LinkWords(F) : g.mem[w] = h.mem[w]
  <2> SUFFICES ASSUME NEW w \in Words, w \in TagWords(P) \cup LinkWords(F) PROVE g.mem[w] = h.mem[w]
    BY <1>11
  <2>1. ~ (to <= w /\ w < Nxt(P, to) - 8)
    BY <1>1, <1>3, <1>6, PayloadApart
  <2>2. ~ (to <= w /\ w < to + n)
    BY <2>1, <1>4, <1>5, <1>6
  <2>3. QED
    BY <2>2
<1>13. Tidy(g, P, F)
  BY <1>12, SameTags
<1>14. Carried(h, P, g, P, A)
  <2> SUFFICES ASSUME NEW b \in A, NEW w \in Words, b <= w, w < Nxt(P, b) - 8 PROVE g.mem[w] = h.mem[w]
    BY DEF Carried
  <2>1. b \in P \ {h.brk} /\ b \in P /\ b # to
    BY DEF Allocated
  <2>2. Nxt(P, b) \in P /\ \A s \in P : s <= b \/ Nxt(P, b) <= s
    BY <2>1, <1>1, GridNext
  <2>3. b \in Nat /\ Nxt(P, b) \in Nat /\ w \in Nat
    BY <2>1, <2>2, <1>2, <1>6
  <2>4. CASE b < to
    <3>1. Nxt(P, b) <= to
      BY <2>2, <2>3, <2>4, <1>3, <1>5
    <3>2. ~ (to <= w)
      BY <3>1, <2>3, <1>5
    <3>3. QED
      BY <3>2
  <2>5. CASE to < b
    <3>1. Nxt(P, to) <= b
      BY <2>1, <2>3, <2>5, <1>4, <1>5
    <3>2. ~ (w < to + n)
      BY <3>1, <2>3, <1>4, <1>5
    <3>3. QED
      BY <3>2
  <2>6. QED
    BY <2>1, <2>3, <2>4, <2>5, <1>5
<1>15. QED
  BY <1>13, <1>14 DEF WrittenAs

(* Copying into the payload of block to. *)
CopiedAs(g, h, P, F, to, from, n) ==
  /\ WrittenAs(g, h, P, F, to)
  /\ \A w \in Words : to <= w /\ w < to + n => g.mem[w] = h.mem[w - to + from]

LEMMA CopyIs ==
  ASSUME NEW h, NEW P, NEW F, Tidy(h, P, F), NEW to \in Allocated(h, P, F), NEW from \in Allocated(h, P, F),
         NEW n \in Nat, to + n + 8 <= Nxt(P, to), from + n + 8 <= Nxt(P, from)
  PROVE  CopiedAs(Copy(h, to, from, n), h, P, F, to, from, n)
<1> DEFINE g == Copy(h, to, from, n)
<1>1. Grid(P, h.brk) /\ F \subseteq P \ {h.brk} /\ h \in Heaps
  BY DEF Tidy, Shape
<1>2. \A p \in P : p \in Nat /\ p % 8 = 0 /\ 16 <= p /\ p <= MAX_HEAP
  <2>1. \A p \in P : p \in Nat /\ p % 8 = 0 /\ 16 <= p /\ p <= h.brk
    BY <1>1 DEF Grid
  <2>2. h.brk \in P /\ h.brk <= MAX_HEAP
    BY <1>1 DEF Grid
  <2>3. QED
    BY <2>1, <2>2, MmAssumption
<1>3. to \in P \ {h.brk} /\ to \in P /\ to \notin F /\ from \in P \ {h.brk} /\ from \in P
  BY DEF Allocated
<1>4. Nxt(P, to) \in Nat /\ Nxt(P, from) \in Nat /\ Nxt(P, from) <= MAX_HEAP /\ \A s \in P : s <= to \/ Nxt(P, to) <= s
  <2>1. Nxt(P, to) \in P /\ Nxt(P, from) \in P /\ \A s \in P : s <= to \/ Nxt(P, to) <= s
    BY <1>1, <1>3, GridNext
  <2>2. QED
    BY <2>1, <1>2
<1>5. to \in Nat /\ from \in Nat /\ to % 8 = 0 /\ from % 8 = 0
  BY <1>2, <1>3
<1>6. \A p \in Words : p \in Nat /\ p % 4 = 0
  BY WordsAre
<1>7. \A p \in Words : p \in to..(to + n - 1) <=> to <= p /\ p < to + n
  BY <1>5, <1>6
<1>8. ASSUME NEW p \in Words, p \in to..(to + n - 1)
      PROVE  GET(h, p - to + from) = h.mem[p - to + from] /\ h.mem[p - to + from] \in Int
  <2> DEFINE q == p - to + from
  <2>1. to <= p /\ p < to + n /\ p \in Nat /\ p % 4 = 0
    BY <1>6, <1>7, <1>8
  <2>2. q \in Int /\ 0 <= q /\ q + 8 <= Nxt(P, from)
    BY <2>1, <1>4, <1>5
  <2>3. q % 4 = 0
    BY <2>1, <1>5
  <2> HIDE DEF q
  <2>4. q + 4 <= MAX_HEAP
    BY <2>2, <1>4, MmAssumption
  <2>5. q \in Words
    BY <2>2, <2>3, <2>4, WordIs
  <2>6. GET(h, q) = h.mem[q] /\ h.mem[q] \in Int
    BY <2>5, <1>1 DEF GET, Heaps
  <2>7. QED
    BY <2>6 DEF q
<1>9. /\ g \in Heaps /\ g.roots = h.roots /\ g.brk = h.brk
      /\ \A p \in Words : g.mem[p] = IF p \in to..(to + n - 1) THEN GET(h, p - to + from) ELSE h.mem[p]
  <2> DEFINE m == [p \in Words |-> IF p \in to..(to + n - 1) THEN GET(h, p - to + from) ELSE h.mem[p]]
  <2>1. m \in [Words -> Int]
    <3>1. ASSUME NEW p \in Words PROVE m[p] \in Int
      <4>1. CASE p \in to..(to + n - 1)
        BY <4>1, <1>8
      <4>2. CASE p \notin to..(to + n - 1)
        BY <4>2, <1>1 DEF Heaps
      <4>3. QED
        BY <4>1, <4>2
    <3> HIDE DEF m
    <3>2. m = [p \in Words |-> m[p]]
      BY DEF m
    <3>3. QED
      BY <3>1, <3>2
  <2>2. \A p \in Words : m[p] = IF p \in to..(to + n - 1) THEN GET(h, p - to + from) ELSE h.mem[p]
    OBVIOUS
  <2>3. g = [h EXCEPT !.mem = m]
    BY DEF Copy
  <2> HIDE DEF m, g
  <2>4. g \in Heaps /\ g.roots = h.roots /\ g.brk = h.brk /\ g.mem = m
    BY <2>1, <2>3, <1>1 DEF Heaps
  <2>5. QED
    BY <2>2, <2>4
<1> HIDE DEF g
<1>10. \A w \in Words : to <= w /\ w < to + n => g.mem[w] = h.mem[w - to + from]
  BY <1>7, <1>8, <1>9
<1>11. WrittenAs(g, h, P, F, to)
  <2>1. \A w \in Words : (to <= w /\ w < to + n) \/ g.mem[w] = h.mem[w]
    BY <1>7, <1>9
  <2>2. QED
    BY <2>1, <1>9, PayloadWritten
<1>12. QED
  BY <1>10, <1>11 DEF CopiedAs, g

(* memset of the payload of block bp. *)
FilledAs(g, h, P, F, bp, n, v) ==
  /\ WrittenAs(g, h, P, F, bp)
  /\ \A w \in Words : bp <= w /\ w < bp + n => g.mem[w] = v

LEMMA FillIs ==
  ASSUME NEW h, NEW P, NEW F, Tidy(h, P, F), NEW bp \in Allocated(h, P, F),
         NEW n \in Nat, bp + n + 8 <= Nxt(P, bp), NEW v \in Int
  PROVE  FilledAs(Fill(h, bp, n, v), h, P, F, bp, n, v)
<1> DEFINE g == Fill(h, bp, n, v)
           m == [p \in Words |-> IF p \in bp..(bp + n - 1) THEN v ELSE h.mem[p]]
<1>1. h \in Heaps /\ bp \in Nat
  BY DEF Tidy, Shape, Grid, Allocated
<1>2. \A p \in Words : p \in bp..(bp + n - 1) <=> bp <= p /\ p < bp + n
  BY <1>1, WordsAre
<1>3. m \in [Words -> Int]
  BY <1>1 DEF Heaps
<1>4. \A p \in Words : m[p] = IF p \in bp..(bp + n - 1) THEN v ELSE h.mem[p]
  OBVIOUS
<1>5. g = [h EXCEPT !.mem = m]
  BY DEF Fill
<1> HIDE DEF m, g
<1>6. g \in Heaps /\ g.roots = h.roots /\ g.brk = h.brk /\ g.mem = m
  BY <1>1, <1>3, <1>5 DEF Heaps
<1>7. \A w \in Words : bp <= w /\ w < bp + n => g.mem[w] = v
  BY <1>2, <1>4, <1>6
<1>8. WrittenAs(g, h, P, F, bp)
  <2>1. \A w \in Words : (bp <= w /\ w < bp + n) \/ g.mem[w] = h.mem[w]
    BY <1>2, <1>4, <1>6
  <2>2. QED
    BY <2>1, <1>6, PayloadWritten
<1>9. QED
  BY <1>7, <1>8 DEF FilledAs, g

(* r is no block, or h with block r.bp instead of old, and as much of what old
   held as fits. *)
ReallocAs(r, h, P, F, old, size) ==
  \/ r.bp = 0
  \/ \E P2, F2 : /\ Tidy(r.heap, P2, F2) /\ r.bp \notin Allocated(h, P, F)
                 /\ Allocated(r.heap, P2, F2) = (Allocated(h, P, F) \ {old}) \cup {r.bp}
                 /\ Carried(h, P, r.heap, P2, Allocated(h, P, F) \ {old}) /\ r.bp + size + 8 <= Nxt(P2, r.bp)
                 /\ \A w \in Words : r.bp <= w /\ w < r.bp + size /\ w - r.bp + old < Nxt(P, old) - 8
                      => r.heap.mem[w] = h.mem[w - r.bp + old]

LEMMA ReallocIs ==
  ASSUME NEW h, NEW P, NEW F, Tidy(h, P, F), NEW size \in Nat, size > 0, NEW old \in Allocated(h, P, F)
  PROVE  ReallocAs(mm_realloc(h, old, size), h, P, F, old, size)
<1> DEFINE r == mm_malloc(h, size)
           to == r.bp
           n == copySize(r.heap, old, size)
           g == Copy(r.heap, to, old, n)
           f == mm_free(g, old)
           A == Allocated(h, P, F)
<1>1. MallocAs(r, h, P, F, size)
  BY MallocIs
<1> HIDE DEF r
<1>2. mm_realloc(h, old, size) = Move(r, old, size)
  BY DEF mm_realloc, r
<1>3. CASE r.bp = 0
  <2>1. Move(r, old, size) = r
    BY <1>3 DEF Move, NULL
  <2>2. QED
    BY <2>1, <1>2, <1>3 DEF ReallocAs
<1>4. CASE r.bp # 0
  <2>1. Move(r, old, size) = Result(f, to)
    BY <1>4 DEF Move, NULL
  <2>2. PICK P2, F2 : /\ Tidy(r.heap, P2, F2) /\ to \notin A /\ Allocated(r.heap, P2, F2) = A \cup {to}
                      /\ Carried(h, P, r.heap, P2, A) /\ to + size + 8 <= Nxt(P2, to)
    BY <1>1, <1>4 DEF MallocAs
  <2>3. Shape(r.heap, P2, F2, F2) /\ Grid(P2, r.heap.brk)
    BY <2>2 DEF Tidy, Shape
  <2>4. old \in A /\ old # to /\ old \in Allocated(r.heap, P2, F2) /\ to \in Allocated(r.heap, P2, F2)
    BY <2>2
  <2>5. Nxt(P2, old) = Nxt(P, old) /\ \A w \in Words : old <= w /\ w < Nxt(P, old) - 8 => r.heap.mem[w] = h.mem[w]
    BY <2>2, <2>4 DEF Carried
  <2> HIDE DEF A, to
  <2>6. old \in P2 \ {r.heap.brk} /\ to \in P2 \ {r.heap.brk}
    BY <2>4 DEF Allocated
  <2>7. /\ old \in Nat /\ to \in Nat /\ old % 8 = 0 /\ to % 8 = 0
        /\ Nxt(P2, old) \in Nat /\ Nxt(P2, to) \in Nat /\ old + 16 <= Nxt(P2, old) /\ Nxt(P2, old) <= MAX_HEAP
    <3>1. Nxt(P2, old) \in P2 /\ Nxt(P2, to) \in P2 /\ old + 16 <= Nxt(P2, old)
      BY <2>3, <2>6, GridNext
    <3>2. \A p \in P2 : p \in Nat /\ p % 8 = 0 /\ p <= r.heap.brk
      BY <2>3 DEF Grid
    <3>3. r.heap.brk \in Nat /\ r.heap.brk <= MAX_HEAP
      BY <2>3 DEF Grid
    <3>4. Nxt(P2, old) <= r.heap.brk /\ Nxt(P2, old) \in Nat
      BY <3>1, <3>2
    <3>5. Nxt(P2, old) <= MAX_HEAP
      BY <3>3, <3>4, MmAssumption
    <3>6. QED
      BY <3>1, <3>2, <3>5, <2>6
  <2>8. n = IF size < Nxt(P2, old) - old - 8 THEN size ELSE Nxt(P2, old) - old - 8
    <3>1. GET_SIZE(r.heap, HDRP(old)) = Nxt(P2, old) - old
      BY <2>3, <2>6, BlockIs
    <3>2. QED
      BY <3>1 DEF copySize, DSIZE
  <2> HIDE DEF n
  <2>9. n \in Nat /\ n <= size /\ to + n + 8 <= Nxt(P2, to) /\ old + n + 8 <= Nxt(P2, old)
    BY <2>2, <2>7, <2>8
  <2>10. CopiedAs(g, r.heap, P2, F2, to, old, n)
    BY <2>2, <2>4, <2>9, CopyIs
  <2> HIDE DEF g
  <2>11. /\ Tidy(g, P2, F2) /\ g.brk = r.heap.brk /\ Carried(r.heap, P2, g, P2, A)
         /\ \A w \in Words : to <= w /\ w < to + n => g.mem[w] = r.heap.mem[w - to + old]
    <3>1. (A \cup {to}) \ {to} = A
      BY <2>2
    <3>2. QED
      BY <2>2, <2>10, <3>1 DEF CopiedAs, WrittenAs
  <2>12. Allocated(g, P2, F2) = A \cup {to}
    BY <2>2, <2>11 DEF Allocated
  <2>13. FreedAs(f, g, P2, F2, old)
    BY <2>4, <2>11, <2>12, FreeIs
  <2> HIDE DEF f
  <2>14. PICK P3, F3 : /\ Tidy(f, P3, F3) /\ Allocated(f, P3, F3) = (A \cup {to}) \ {old}
                       /\ Carried(g, P2, f, P3, (A \cup {to}) \ {old})
    BY <2>12, <2>13 DEF FreedAs
  <2>15. (A \cup {to}) \ {old} = (A \ {old}) \cup {to}
    BY <2>4
  <2>16. Carried(h, P, f, P3, A \ {old})
    <3>1. A \ {old} \subseteq (A \cup {to}) \ {old} /\ A \ {old} \subseteq A
      OBVIOUS
    <3>2. Carried(h, P, r.heap, P2, A \ {old})
      BY <2>2, <3>1, CarriedLess
    <3>3. Carried(r.heap, P2, g, P2, A \ {old})
      BY <2>11, <3>1, CarriedLess
    <3>4. Carried(g, P2, f, P3, A \ {old})
      BY <2>14, <3>1, CarriedLess
    <3>5. Carried(h, P, g, P2, A \ {old})
      BY <3>2, <3>3, CarriedTwice
    <3>6. QED
      BY <3>4, <3>5, CarriedTwice
  <2>17. to \in (A \cup {to}) \ {old}
    BY <2>4
  <2>18. Nxt(P3, to) = Nxt(P2, to) /\ \A w \in Words : to <= w /\ w < Nxt(P2, to) - 8 => f.mem[w] = g.mem[w]
    BY <2>14, <2>17 DEF Carried
  <2>19. ASSUME NEW w \in Words, to <= w, w < to + size, w - to + old < Nxt(P, old) - 8
         PROVE  f.mem[w] = h.mem[w - to + old]
    <3> DEFINE q == w - to + old
    <3>1. w \in Nat /\ w % 4 = 0
      BY WordsAre
    <3>2. w < to + n
      BY <3>1, <2>5, <2>7, <2>8, <2>19
    <3>3. w < Nxt(P2, to) - 8
      BY <3>1, <2>2, <2>7, <2>19
    <3>4. q \in Int /\ old <= q /\ q < Nxt(P2, old) - 8
      BY <3>1, <2>5, <2>7, <2>19
    <3>5. q % 4 = 0
      BY <3>1, <2>7
    <3>6. f.mem[w] = g.mem[w] /\ g.mem[w] = r.heap.mem[q]
      BY <3>2, <3>3, <2>11, <2>18, <2>19
    <3> HIDE DEF q
    <3>7. q + 4 <= MAX_HEAP /\ 0 <= q
      BY <3>4, <2>7, MmAssumption
    <3>8. q \in Words
      BY <3>4, <3>5, <3>7, WordIs
    <3>9. r.heap.mem[q] = h.mem[q]
      BY <3>4, <3>8, <2>5
    <3>10. QED
      BY <3>6, <3>9 DEF q
  <2>20. Result(f, to).heap = f /\ Result(f, to).bp = to
    BY DEF Result
  <2>21. ReallocAs(Result(f, to), h, P, F, old, size)
    <3>1. Allocated(f, P3, F3) = (A \ {old}) \cup {to}
      BY <2>14, <2>15
    <3>2. to + size + 8 <= Nxt(P3, to)
      BY <2>2, <2>18
    <3>3. QED
      BY <2>2, <2>14, <2>16, <2>19, <2>20, <3>1, <3>2 DEF ReallocAs, A
  <2>22. QED
    BY <1>2, <2>1, <2>21
<1>5. QED
  BY <1>3, <1>4

-----------------------------------------------------------------------------
(* Walks over the whole heap.                                                *)

(* The walk of BlockAt begins a block at every address of P, and no other. *)
LEMMA BlocksAre ==
  ASSUME NEW h, NEW P, NEW G, NEW F, Shape(h, P, G, F)
  PROVE  BlocksOf(h) = P \ {h.brk} /\ BlockAt(h, MaxBlocks) = h.brk
<1> DEFINE next == [p \in Int |-> NEXT_BLKP(h, p)]
           w == Walk(next, 16)
<1>1. /\ Grid(P, h.brk) /\ 16 \in P /\ h.brk \in P /\ h.brk \in Nat
      /\ \A p \in P : p \in Nat /\ 16 <= p /\ p <= h.brk /\ p <= MAX_HEAP
      /\ \A b \in P \ {h.brk} : Nxt(P, b) \in P /\ b + 16 <= Nxt(P, b) /\ \A r \in P : r <= b \/ Nxt(P, b) <= r
  <2>1. Grid(P, h.brk)
    BY DEF Shape
  <2>2. 16 \in P /\ h.brk \in P /\ h.brk <= MAX_HEAP /\ \A p \in P : p \in Nat /\ 16 <= p /\ p <= h.brk
    BY <2>1 DEF Grid
  <2>3. \A p \in P : p <= MAX_HEAP
    BY <2>2, MmAssumption
  <2>4. QED
    BY <2>1, <2>2, <2>3, GridNext
<1>2. \A p \in P : p # h.brk => next[p] = Nxt(P, p)
  BY <1>1, BlockIs
<1>3. next[h.brk] = h.brk
  BY <1>1, EpilogueIs
<1>4. BlocksOf(h) = {w[n] : n \in 0..MaxBlocks} \ {h.brk} /\ BlockAt(h, MaxBlocks) = WalksTo(next, 16)
      /\ WalksTo(next, 16) = w[MaxBlocks]
  BY DEF BlocksOf, BlockAt, WalksTo
<1> HIDE DEF next
<1>5. \A p \in P : next[p] \in P
  BY <1>1, <1>2, <1>3
<1>6. Climbs(next, P)
  <2>1. ASSUME NEW p \in P PROVE next[p] \in P /\ (next[next[p]] = next[p] \/ next[p] >= p + 16)
    <3>1. CASE p = h.brk
      BY <3>1, <1>1, <1>3
    <3>2. CASE p # h.brk
      <4>1. next[p] = Nxt(P, p) /\ p + 16 <= Nxt(P, p) /\ p \in Nat
        BY <3>2, <1>1, <1>2
      <4>2. next[p] \in Nat
        BY <1>1, <1>5
      <4>3. next[p] >= p + 16
        BY <4>1, <4>2
      <4>4. QED
        BY <4>3, <1>5
    <3>3. QED
      BY <3>1, <3>2
  <2>2. QED
    BY <2>1 DEF Climbs
<1>7. WalksTo(next, 16) \in P /\ next[WalksTo(next, 16)] = WalksTo(next, 16)
  <2>1. P \subseteq 0..MAX_HEAP
    BY <1>1, MmAssumption
  <2>2. 16 \in P /\ 16 >= 16
    BY <1>1
  <2>3. QED
    BY <2>1, <2>2, <1>6, WalkStops
<1>8. w[MaxBlocks] = h.brk
  <2> DEFINE z == w[MaxBlocks]
  <2>1. z \in P /\ next[z] = z /\ z \in Nat
    BY <1>1, <1>4, <1>7
  <2> HIDE DEF z
  <2>2. ASSUME z # h.brk PROVE FALSE
    <3>1. z + 16 <= z
      BY <2>1, <2>2, <1>1, <1>2
    <3>2. QED
      BY <3>1, <2>1
  <2>3. QED
    BY <2>2 DEF z
<1>9. w \in Runs(next, 16, P, MaxBlocks)
  BY <1>1, <1>5, WalkIs
<1> HIDE DEF w
<1>10. w \in [0..MaxBlocks -> P] /\ w[0] = 16 /\ \A k \in 1..MaxBlocks : w[k] = next[w[k - 1]]
  BY <1>9 DEF Runs
<1>11. MaxBlocks \in Nat
  BY MaxBlocksIs
<1>12. ASSUME NEW p \in P PROVE \E k \in 0..MaxBlocks : w[k] = p
  <2> DEFINE S == {k \in 0..MaxBlocks : w[k] <= p}
  <2>0. S \subseteq 0..MaxBlocks /\ 0 \in S
    BY <1>1, <1>10, <1>11
  <2>1. PICK k \in S : \A j \in S : j <= k
    <3> HIDE DEF S
    <3>1. QED
      BY <2>0, <1>11, GreatestNat
  <2>2. k \in 0..MaxBlocks /\ w[k] <= p /\ w[k] \in P /\ w[k] \in Nat /\ p \in Nat
    BY <2>1, <1>1, <1>10
  <2>3. CASE k = MaxBlocks
    <3>1. p <= h.brk /\ h.brk <= p
      BY <2>2, <2>3, <1>1, <1>8
    <3>2. QED
      BY <3>1, <2>2, <2>3, <1>1, <1>8
  <2>4. CASE k # MaxBlocks
    <3>1. k + 1 \in 1..MaxBlocks /\ (k + 1) - 1 = k /\ ~ (k + 1 <= k)
      BY <2>2, <2>4, <1>11
    <3>2. w[k + 1] = next[w[k]] /\ ~ (w[k + 1] <= p) /\ w[k + 1] \in P
      BY <3>1, <2>1, <1>10, <1>11
    <3>3. w[k] # h.brk
      BY <3>2, <2>2, <1>3
    <3>4. p <= w[k]
      <4>1. p <= w[k] \/ Nxt(P, w[k]) <= p
        BY <3>3, <2>2, <1>1
      <4>2. w[k + 1] = Nxt(P, w[k])
        BY <3>2, <3>3, <2>2, <1>2
      <4>3. QED
        BY <4>1, <4>2, <3>2
    <3>5. QED
      BY <3>4, <2>2
  <2>5. QED
    BY <2>3, <2>4
<1>13. {w[n] : n \in 0..MaxBlocks} = P
  BY <1>10, <1>12
<1>14. QED
  BY <1>4, <1>8, <1>13 DEF w

(* The walk along the free list. *)
ListOf(h) == Walk([p \in Int |-> IF p = NULL THEN NULL ELSE Next_free(h, p)], h.roots[4])

LEMMA ListedAre ==
  ASSUME NEW h, NEW P, NEW G, NEW F, Shape(h, P, G, F)
  PROVE  /\ {ListOf(h)[n] : n \in 0..MaxBlocks} \ {NULL} = F
         /\ \A n \in 1..MaxBlocks : ListOf(h)[n] # NULL =>
              ListOf(h)[n - 1] < ListOf(h)[n] /\ GET(h, ListOf(h)[n] + WSIZE) = ListOf(h)[n - 1]
<1> DEFINE next == [p \in Int |-> IF p = NULL THEN NULL ELSE Next_free(h, p)]
           X == F \cup {0}
           root == h.roots[4]
           w == Walk(next, root)
<1>1. /\ F \subseteq Places /\ F \subseteq Words
      /\ \A f \in F : f \in Nat /\ 16 <= f /\ f <= MAX_HEAP
      /\ \A f, g \in F : f < g => f + 16 <= g
      /\ \A f \in F : Next_free(h, f) = Nxt(F, f)
      /\ root \in X
      /\ root = 0 => F = {}
      /\ root # 0 => \A f \in F : root <= f
  BY ListIs
<1>2. h \in Heaps /\ Linked(h, F) /\ LinkWords(F) \subseteq Words
  <2>1. h \in Heaps /\ Linked(h, F) /\ Grid(P, h.brk) /\ F \subseteq P \ {h.brk}
    BY DEF Shape
  <2>2. QED
    BY <2>1, GridWords
<1>3. next[0] = 0 /\ \A f \in F : next[f] = Nxt(F, f)
  <2>1. \A f \in F : f \in Int /\ f # 0
    BY <1>1
  <2>2. QED
    BY <2>1, <1>1 DEF NULL
<1>4. ListOf(h) = w
  BY DEF ListOf
<1> HIDE DEF next, root
<1>5. \A f \in F : \/ Nxt(F, f) = 0 /\ \A q \in F : q <= f
                   \/ Nxt(F, f) \in F /\ Nxt(F, f) > f /\ (\A r \in F : r <= f \/ Nxt(F, f) <= r)
  BY <1>1, NxtIs DEF NULL
<1>6. \A x \in X : next[x] \in X
  BY <1>3, <1>5
<1>7. Climbs(next, X)
  <2>1. ASSUME NEW x \in X PROVE next[next[x]] = next[x] \/ next[x] >= x + 16
    <3>1. CASE x = 0 \/ next[x] = 0
      BY <3>1, <1>3
    <3>2. CASE x # 0 /\ next[x] # 0
      <4>1. x \in F /\ next[x] = Nxt(F, x)
        BY <3>2, <1>3
      <4>2. next[x] \in F /\ next[x] > x
        BY <4>1, <3>2, <1>5
      <4>3. x \in Nat /\ next[x] \in Nat
        BY <4>1, <4>2, <1>1
      <4>4. x + 16 <= next[x]
        BY <4>1, <4>2, <4>3, <1>1
      <4>5. QED
        BY <4>3, <4>4
    <3>3. QED
      BY <3>1, <3>2
  <2>2. QED
    BY <2>1, <1>6 DEF Climbs
<1>8. WalksTo(next, root) \in X /\ next[WalksTo(next, root)] = WalksTo(next, root)
  <2>1. X \subseteq 0..MAX_HEAP
    BY <1>1, MmAssumption
  <2>2. root \in X /\ (root >= 16 \/ next[root] = root)
    BY <1>1, <1>3
  <2> HIDE DEF X
  <2>3. QED
    BY <2>1, <2>2, <1>7, WalkStops
<1>9. w \in Runs(next, root, X, MaxBlocks)
  <2> HIDE DEF X
  <2>1. QED
    BY <1>1, <1>6, WalkIs
<1>10. w[MaxBlocks] = 0
  <2> DEFINE z == WalksTo(next, root)
  <2>0. w[MaxBlocks] = z
    BY DEF WalksTo
  <2>1. z \in X /\ next[z] = z
    BY <1>8
  <2> HIDE DEF z
  <2>2. ASSUME z # 0 PROVE FALSE
    <3>1. z \in F /\ z \in Nat /\ z # 0 /\ Nxt(F, z) = z
      BY <2>1, <2>2, <1>1, <1>3
    <3>2. z > z
      BY <3>1, <1>5
    <3>3. QED
      BY <3>1, <3>2
  <2>3. QED
    BY <2>0, <2>2
<1> HIDE DEF w
<1>11. w \in [0..MaxBlocks -> X] /\ w[0] = root /\ \A k \in 1..MaxBlocks : w[k] = next[w[k - 1]]
  BY <1>9 DEF Runs
<1>12. MaxBlocks \in Nat
  BY MaxBlocksIs
<1>13. ASSUME NEW f \in F PROVE \E k \in 0..MaxBlocks : w[k] = f
  <2> DEFINE S == {k \in 0..MaxBlocks : w[k] # 0 /\ w[k] <= f}
  <2>0. S \subseteq 0..MaxBlocks /\ 0 \in S
    BY <1>1, <1>11, <1>12
  <2>1. PICK k \in S : \A j \in S : j <= k
    <3> HIDE DEF S
    <3>1. QED
      BY <2>0, <1>12, GreatestNat
  <2>2. k \in 0..MaxBlocks /\ w[k] <= f /\ w[k] \in F /\ w[k] \in Nat /\ f \in Nat
    BY <2>1, <1>1, <1>11
  <2>3. k # MaxBlocks
    BY <2>1, <1>10
  <2>4. k + 1 \in 1..MaxBlocks /\ (k + 1) - 1 = k /\ ~ (k + 1 <= k)
    BY <2>2, <2>3, <1>12
  <2>5. w[k + 1] = Nxt(F, w[k]) /\ (w[k + 1] = 0 \/ ~ (w[k + 1] <= f))
    <3>1. w[k + 1] = next[w[k]] /\ k + 1 \in 0..MaxBlocks
      BY <2>4, <1>11, <1>12
    <3>2. k + 1 \notin S
      BY <2>1, <2>4
    <3>3. QED
      BY <3>1, <3>2, <2>2, <1>3
  <2>6. f <= w[k]
    <3>1. CASE w[k + 1] = 0
      <4>1. Nxt(F, w[k]) \notin F
        BY <3>1, <2>5, <1>1
      <4>2. QED
        BY <4>1, <2>2, <1>5
    <3>2. CASE w[k + 1] # 0
      BY <3>2, <2>2, <2>5, <1>5
    <3>3. QED
      BY <3>1, <3>2
  <2>7. QED
    BY <2>2, <2>6
<1>14. {w[n] : n \in 0..MaxBlocks} \ {0} = F
  <2>1. ASSUME NEW n \in 0..MaxBlocks, w[n] # 0 PROVE w[n] \in F
    BY <2>1, <1>11
  <2>2. 0 \notin F
    BY <1>1
  <2>3. QED
    BY <2>1, <2>2, <1>13
<1>15. ASSUME NEW n \in 1..MaxBlocks, w[n] # 0
       PROVE  w[n - 1] < w[n] /\ GET(h, w[n] + 4) = w[n - 1]
  <2>1. n - 1 \in 0..MaxBlocks /\ n \in 0..MaxBlocks
    BY <1>12
  <2>2. w[n] = next[w[n - 1]] /\ w[n - 1] \in X
    BY <2>1, <1>11
  <2>3. w[n - 1] \in F
    BY <2>2, <1>3, <1>15
  <2>4. w[n] = Nxt(F, w[n - 1]) /\ w[n] \in F
    BY <2>1, <2>2, <2>3, <1>3, <1>11, <1>15
  <2>5. Prv(F, w[n]) = w[n - 1] /\ w[n - 1] < w[n]
    <3>1. Nxt(F, w[n - 1]) > w[n - 1] /\ Prv(F, Nxt(F, w[n - 1])) = w[n - 1]
      BY <2>3, <2>4, <1>1, <1>15, Mutual
    <3>2. w[n] \in Nat /\ w[n - 1] \in Nat
      BY <2>3, <2>4, <1>1
    <3>3. QED
      BY <3>1, <3>2, <2>4
  <2>6. w[n] + 4 \in Words
    BY <2>4, <1>2 DEF LinkWords
  <2>7. GET(h, w[n] + 4) = h.mem[w[n] + 4]
    BY <2>6, <1>2, GetIs
  <2>8. h.mem[w[n] + 4] = Prv(F, w[n])
    BY <2>4, <1>2 DEF Linked
  <2>9. QED
    BY <2>5, <2>7, <2>8
<1>16. QED
  BY <1>4, <1>14, <1>15 DEF NULL, WSIZE

-----------------------------------------------------------------------------
(* The trace's blocks.                                                       *)

(* The words Forget keeps hold every tag and every link. *)
LEMMA BlockTags ==
  ASSUME NEW h, NEW bp \in BlocksOf(h)
  PROVE  HDRP(bp) \in Tags(h) /\ FTRP(h, bp) \in Tags(h)
<1> DEFINE E == {{HDRP(b), FTRP(h, b)} : b \in BlocksOf(h)}
<1>1. {HDRP(bp), FTRP(h, bp)} \in E
  OBVIOUS
<1>2. UNION E \subseteq Tags(h)
  BY Zenon DEF Tags
<1> HIDE DEF E
<1>3. QED
  BY <1>1, <1>2

LEMMA LinkTags ==
  ASSUME NEW h, NEW bp \in BlocksOf(h), GET_ALLOC(h, HDRP(bp)) = 0
  PROVE  bp \in Tags(h) /\ bp + WSIZE \in Tags(h)
<1> DEFINE D == {b \in BlocksOf(h) : GET_ALLOC(h, HDRP(b)) = 0}
           E == {{b, b + WSIZE} : b \in D}
<1>1. {bp, bp + WSIZE} \in E
  OBVIOUS
<1>2. UNION E \subseteq Tags(h)
  BY SMT DEF Tags
<1> HIDE DEF E
<1>3. QED
  BY <1>1, <1>2

LEMMA TagsAre ==
  ASSUME NEW h, NEW P, NEW F, Tidy(h, P, F)
  PROVE  TagWords(P) \cup LinkWords(F) \subseteq Tags(h)
<1>1. Shape(h, P, F, F) /\ Grid(P, h.brk) /\ F \subseteq P \ {h.brk}
  BY DEF Tidy, Shape
<1>2. BlocksOf(h) = P \ {h.brk}
  BY <1>1, BlocksAre
<1>3. ASSUME NEW p \in P PROVE p - 4 \in Tags(h)
  <2>1. CASE p = h.brk
    BY <2>1 DEF Tags, HDRP, WSIZE
  <2>2. CASE p # h.brk
    <3>1. p \in BlocksOf(h)
      BY <2>2, <1>2
    <3>2. p - 4 = HDRP(p)
      BY DEF HDRP, WSIZE
    <3>3. QED
      BY <3>1, <3>2, BlockTags
  <2>3. QED
    BY <2>1, <2>2
<1>4. ASSUME NEW p \in P PROVE p - 8 \in Tags(h)
  <2>1. CASE p = 16
    <3>1. p - 8 = 8
      BY <2>1
    <3>2. QED
      BY <3>1 DEF Tags
  <2>2. CASE p # 16
    <3>1. PICK c \in P \ {h.brk} : Nxt(P, c) = p
      BY <2>2, <1>1, GridNext
    <3>2. FTRP(h, c) = p - 8 /\ c \in BlocksOf(h)
      BY <3>1, <1>1, <1>2, BlockIs
    <3>3. QED
      BY <3>2, BlockTags
  <2>3. QED
    BY <2>1, <2>2
<1>5. ASSUME NEW f \in F PROVE f \in Tags(h) /\ f + 4 \in Tags(h)
  <2>1. f \in P \ {h.brk} /\ f \in BlocksOf(h)
    BY <1>1, <1>2
  <2>2. GET_ALLOC(h, HDRP(f)) = 0
    BY <2>1, <1>1, BlockIs
  <2>3. QED
    BY <2>1, <2>2, LinkTags DEF WSIZE
<1>6. 4 \in Tags(h) /\ 8 \in Tags(h)
  BY DEF Tags
<1>7. QED
  BY <1>3, <1>4, <1>5, <1>6 DEF TagWords, LinkWords

Listed(bps) == {i \in Ids : bps[i] # 0}

(* What Forget keeps. *)
ForgottenAs(g, h, P, F, bps, sizes) ==
  /\ Tidy(g, P, F) /\ g.brk = h.brk
  /\ \A i \in Listed(bps), w \in Words : bps[i] <= w /\ w < bps[i] + sizes[i] => g.mem[w] = h.mem[w]

LEMMA ForgetIs ==
  ASSUME NEW h, NEW P, NEW F, Tidy(h, P, F), NEW bps \in [Ids -> Nat], NEW sizes \in [Ids -> Nat]
  PROVE  ForgottenAs(Forget(h, bps, sizes), h, P, F, bps, sizes)
<1> DEFINE g == Forget(h, bps, sizes)
           written == UNION {bps[i]..(bps[i] + sizes[i] - 1) : i \in {j \in Ids : bps[j] # NULL}}
           used == Tags(h) \cup written
           m == [p \in Words |-> IF p \in used THEN h.mem[p] ELSE Junk]
<1>1. h \in Heaps /\ Grid(P, h.brk) /\ F \subseteq P \ {h.brk}
  BY DEF Tidy, Shape
<1>2. g = [h EXCEPT !.mem = m]
  BY DEF Forget
<1>3. m \in [Words -> Int]
  BY <1>1 DEF Heaps, Junk
<1>4. \A w \in Words : w \in used => m[w] = h.mem[w]
  OBVIOUS
<1> HIDE DEF g, m
<1>5. g \in Heaps /\ g.roots = h.roots /\ g.brk = h.brk /\ g.mem = m
  BY <1>1, <1>2, <1>3 DEF Heaps
<1>6. Tidy(g, P, F)
  <2>1. \A w \in TagWords(P) \cup LinkWords(F) : w \in Words /\ w \in used
    BY <1>1, TagsAre, GridWords
  <2>2. \A w \in TagWords(P) \cup LinkWords(F) : g.mem[w] = h.mem[w]
    BY <2>1, <1>4, <1>5
  <2>3. QED
    BY <2>2, <1>5, SameTags
<1>7. ASSUME NEW i \in Listed(bps), NEW w \in Words, bps[i] <= w, w < bps[i] + sizes[i] PROVE g.mem[w] = h.mem[w]
  <2>1. i \in Ids /\ bps[i] # NULL /\ bps[i] \in Nat /\ sizes[i] \in Nat /\ w \in Nat
    BY WordsAre DEF Listed, NULL
  <2>2. w \in bps[i]..(bps[i] + sizes[i] - 1)
    BY <2>1, <1>7
  <2>3. w \in used
    BY <2>1, <2>2
  <2>4. QED
    BY <2>3, <1>4, <1>5
<1>8. QED
  BY <1>5, <1>6, <1>7 DEF ForgottenAs, g

(* The blocks of S have room for what the trace asked, and hold what it wrote. *)
Owns(h, P, bps, sizes, S) ==
  \A i \in S : /\ sizes[i] \in Sizes /\ bps[i] + sizes[i] + 8 <= Nxt(P, bps[i])
               /\ \A w \in Words : bps[i] <= w /\ w < bps[i] + sizes[i] => h.mem[w] = Data(i)

Apart(bps, S) == \A i, j \in S : bps[i] = bps[j] => i = j
At(bps, S) == {bps[i] : i \in S}

Sized(bps, sizes) ==
  bps \in [Ids -> Nat] /\ sizes \in [Ids -> Nat] /\ \A i \in Ids \ Listed(bps) : sizes[i] = 0

(* The allocated blocks are the trace's, one for each index. *)
Owned(h, P, F, bps, sizes) ==
  /\ Sized(bps, sizes)
  /\ Allocated(h, P, F) = At(bps, Listed(bps)) /\ Apart(bps, Listed(bps))
  /\ Owns(h, P, bps, sizes, Listed(bps))

LEMMA SizesAre == \A n \in Sizes : n \in Nat /\ n > 0
BY MmAssumption

LEMMA OwnsCarried ==
  ASSUME NEW h, NEW P, NEW brk, Grid(P, brk), NEW bps, NEW sizes, NEW S, Owns(h, P, bps, sizes, S),
         NEW A, A \subseteq P \ {brk}, At(bps, S) \subseteq A, NEW g, NEW P2, Carried(h, P, g, P2, A)
  PROVE  Owns(g, P2, bps, sizes, S)
<1> SUFFICES ASSUME NEW i \in S
    PROVE  /\ sizes[i] \in Sizes /\ bps[i] + sizes[i] + 8 <= Nxt(P2, bps[i])
           /\ \A w \in Words : bps[i] <= w /\ w < bps[i] + sizes[i] => g.mem[w] = Data(i)
  BY DEF Owns
<1>1. bps[i] \in A /\ bps[i] \in P \ {brk}
  BY DEF At
<1>2. Nxt(P, bps[i]) \in P /\ bps[i] \in Nat /\ \A p \in P : p \in Nat
  BY <1>1, GridNext DEF Grid
<1>3. sizes[i] \in Sizes /\ sizes[i] \in Nat /\ bps[i] + sizes[i] + 8 <= Nxt(P, bps[i])
  BY SizesAre DEF Owns
<1>4. Nxt(P2, bps[i]) = Nxt(P, bps[i]) /\ \A w \in Words : bps[i] <= w /\ w < Nxt(P, bps[i]) - 8 => g.mem[w] = h.mem[w]
  BY <1>1 DEF Carried
<1>5. ASSUME NEW w \in Words, bps[i] <= w, w < bps[i] + sizes[i] PROVE g.mem[w] = Data(i)
  <2>1. w < Nxt(P, bps[i]) - 8
    <3>1. w \in Nat /\ Nxt(P, bps[i]) \in Nat
      BY <1>2, WordsAre
    <3>2. QED
      BY <3>1, <1>2, <1>3, <1>5
  <2>2. h.mem[w] = Data(i)
    BY <1>5 DEF Owns
  <2>3. QED
    BY <2>1, <2>2, <1>4, <1>5
<1>6. QED
  BY <1>3, <1>4, <1>5

(* What the driver remembers of a block that mm_malloc or mm_realloc returned:
   the others are as they were, and this one holds new data. *)
RememberedAs(g, P, F, bps, sizes) == Tidy(g, P, F) /\ Owned(g, P, F, bps, sizes)

LEMMA RememberIs ==
  ASSUME NEW h, NEW P, NEW F, Tidy(h, P, F), NEW bps, NEW sizes, Sized(bps, sizes),
         NEW i \in Ids, NEW S, S = Listed(bps) \ {i}, Apart(bps, S), Owns(h, P, bps, sizes, S),
         NEW bp, bp \notin At(bps, S), Allocated(h, P, F) = At(bps, S) \cup {bp},
         NEW size \in Sizes, bp + size + 8 <= Nxt(P, bp),
         NEW bps2, bps2 = [bps EXCEPT ![i] = bp], NEW sizes2, sizes2 = [sizes EXCEPT ![i] = size]
  PROVE  RememberedAs(Forget(Fill(h, bp, size, Data(i)), bps2, sizes2), P, F, bps2, sizes2)
<1> DEFINE g == Fill(h, bp, size, Data(i))
           f == Forget(g, bps2, sizes2)
<1>0. bps \in [Ids -> Nat] /\ sizes \in [Ids -> Nat] /\ \A j \in Ids \ Listed(bps) : sizes[j] = 0
  BY DEF Sized
<1>1. size \in Nat /\ Data(i) \in Int
  BY SizesAre, MmAssumption DEF Data
<1>2. bp \in Allocated(h, P, F) /\ Grid(P, h.brk) /\ F \subseteq P \ {h.brk}
  BY DEF Tidy, Shape
<1>3. bp \in Nat /\ bp # 0
  BY <1>2 DEF Grid, Allocated
<1>4. FilledAs(g, h, P, F, bp, size, Data(i))
  BY <1>1, <1>2, FillIs
<1> HIDE DEF g
<1>5. /\ Tidy(g, P, F) /\ g.brk = h.brk /\ Carried(h, P, g, P, Allocated(h, P, F) \ {bp})
      /\ \A w \in Words : bp <= w /\ w < bp + size => g.mem[w] = Data(i)
  BY <1>4 DEF FilledAs, WrittenAs
<1>6. bps2 \in [Ids -> Nat] /\ sizes2 \in [Ids -> Nat]
  BY <1>0, <1>1, <1>3
<1>7. ForgottenAs(f, g, P, F, bps2, sizes2)
  BY <1>5, <1>6, ForgetIs
<1> HIDE DEF f
<1>8. /\ Tidy(f, P, F) /\ f.brk = h.brk
      /\ \A j \in Listed(bps2), w \in Words : bps2[j] <= w /\ w < bps2[j] + sizes2[j] => f.mem[w] = g.mem[w]
  BY <1>5, <1>7 DEF ForgottenAs
<1>9. /\ Listed(bps2) = S \cup {i} /\ i \notin S /\ bps2[i] = bp /\ sizes2[i] = size
      /\ \A j \in S : bps2[j] = bps[j] /\ sizes2[j] = sizes[j]
  BY <1>0, <1>3 DEF Listed
<1>10. Allocated(f, P, F) = At(bps2, Listed(bps2)) /\ Apart(bps2, Listed(bps2))
  <2>1. At(bps2, Listed(bps2)) = At(bps, S) \cup {bp}
    <3>1. ASSUME NEW j \in Listed(bps2) PROVE bps2[j] \in At(bps, S) \cup {bp}
      <4>1. j \in S \/ j = i
        BY <1>9
      <4>2. QED
        BY <4>1, <1>9 DEF At
    <3>2. ASSUME NEW j \in S PROVE bps[j] \in At(bps2, Listed(bps2))
      <4>1. j \in Listed(bps2) /\ bps2[j] = bps[j]
        BY <1>9
      <4>2. QED
        BY <4>1 DEF At
    <3>3. bp \in At(bps2, Listed(bps2))
      <4>1. i \in Listed(bps2) /\ bps2[i] = bp
        BY <1>9
      <4>2. QED
        BY <4>1 DEF At
    <3>4. ASSUME NEW z \in At(bps2, Listed(bps2)) PROVE z \in At(bps, S) \cup {bp}
      <4>1. PICK j \in Listed(bps2) : z = bps2[j]
        BY DEF At
      <4>2. QED
        BY <4>1, <3>1
    <3>5. ASSUME NEW z \in At(bps, S) PROVE z \in At(bps2, Listed(bps2))
      <4>1. PICK j \in S : z = bps[j]
        BY DEF At
      <4>2. QED
        BY <4>1, <3>2
    <3>6. QED
      BY <3>3, <3>4, <3>5
  <2>2. Apart(bps2, Listed(bps2))
    BY <1>9 DEF Apart, At
  <2>3. QED
    BY <2>1, <2>2, <1>8 DEF Allocated
<1>11. Owns(g, P, bps, sizes, S)
  <2>1. At(bps, S) \subseteq Allocated(h, P, F) \ {bp} /\ Allocated(h, P, F) \ {bp} \subseteq P \ {h.brk}
    BY DEF Allocated
  <2>2. QED
    BY <2>1, <1>2, <1>5, OwnsCarried
<1>12. Owns(f, P, bps2, sizes2, Listed(bps2))
  <2> SUFFICES ASSUME NEW j \in Listed(bps2)
      PROVE  /\ sizes2[j] \in Sizes /\ bps2[j] + sizes2[j] + 8 <= Nxt(P, bps2[j])
             /\ \A w \in Words : bps2[j] <= w /\ w < bps2[j] + sizes2[j] => f.mem[w] = Data(j)
    BY DEF Owns
  <2>1. CASE j = i
    BY <2>1, <1>5, <1>8, <1>9, ZenonT(40)
  <2>2. CASE j # i
    <3>1. j \in S /\ bps2[j] = bps[j] /\ sizes2[j] = sizes[j]
      BY <2>2, <1>9
    <3>2. /\ sizes[j] \in Sizes /\ bps[j] + sizes[j] + 8 <= Nxt(P, bps[j])
          /\ \A w \in Words : bps[j] <= w /\ w < bps[j] + sizes[j] => g.mem[w] = Data(j)
      BY <3>1, <1>11 DEF Owns
    <3>3. QED
      BY <3>1, <3>2, <1>8
  <2>3. QED
    BY <2>1, <2>2
<1>13. \A j \in Ids \ Listed(bps2) : sizes2[j] = 0
  BY <1>0, <1>9
<1>14. QED
  BY <1>6, <1>8, <1>10, <1>12, <1>13 DEF RememberedAs, Owned, Sized, f, g

(* mm_init makes a heap with nothing allocated. *)
LEMMA InitIs == \E P, F : Tidy(mm_init, P, F) /\ Allocated(mm_init, P, F) = {}
<1> DEFINE m == [p \in Words |-> IF p = 0 THEN 0 ELSE IF p \in {4, 8} THEN DSIZE + 1 ELSE IF p = 12 THEN 1 ELSE Junk]
           roots == [i \in 0..4 |-> NULL]
           empty == [mem |-> m, roots |-> roots, brk |-> 4 * WSIZE]
           P == {16}
           r == extend_heap(empty, CHUNKSIZE)
<1>1. Grid(P, 16)
  BY MmAssumption DEF Grid
<1>2. 4 \in Words /\ 8 \in Words /\ 12 \in Words
  <2>1. TagWords(P) \subseteq Words
    BY <1>1, GridWords
  <2>2. QED
    BY <2>1 DEF TagWords
<1>3. m \in [Words -> Int] /\ m[4] = 9 /\ m[8] = 9 /\ m[12] = 1
  BY <1>2 DEF DSIZE, Junk
<1>4. roots \in [0..4 -> Nat] /\ \A i \in 0..4 : roots[i] = 0
  BY DEF NULL
<1> HIDE DEF m, roots
<1>5. empty \in Heaps /\ empty.mem = m /\ empty.roots = roots /\ empty.brk = 16
  BY <1>3, <1>4 DEF Heaps, WSIZE
<1>6. mm_init = r.heap
  BY DEF mm_init, m, roots
<1> HIDE DEF empty
<1>7. Tidy(empty, P, {})
  <2>1. Tagged(empty, P, {})
    BY <1>3, <1>5 DEF Tagged
  <2>2. Nxt({}, 0) = 0
    BY DEF Nxt, NULL
  <2>3. Linked(empty, {})
    BY <1>4, <1>5, <2>2 DEF Linked
  <2>4. QED
    BY <1>1, <1>5, <2>1, <2>3 DEF Tidy, Shape, Spaced
<1>8. Allocated(empty, P, {}) = {}
  BY <1>5 DEF Allocated
<1> HIDE DEF P
<1>9. ExtendedAs(r, empty, P, {}, CHUNKSIZE)
  BY <1>7, MmAssumption, ExtendIs
<1> HIDE DEF r
<1>10. CASE r.heap = empty
  BY <1>10, <1>6, <1>7, <1>8
<1>11. CASE \E P2, F2 : Tidy(r.heap, P2, F2) /\ Same(r.heap, P2, F2, empty, P, {})
  <2>1. PICK P2, F2 : Tidy(r.heap, P2, F2) /\ Same(r.heap, P2, F2, empty, P, {})
    BY <1>11
  <2>2. Allocated(r.heap, P2, F2) = {}
    BY <2>1, <1>8 DEF Same
  <2>3. QED
    BY <2>1, <2>2, <1>6
<1>12. QED
  BY <1>9, <1>10, <1>11 DEF ExtendedAs

LEMMA DropIs ==
  ASSUME NEW h, NEW P, NEW F, Tidy(h, P, F), NEW bps, NEW sizes, Sized(bps, sizes),
         NEW i \in Ids, NEW S, S = Listed(bps) \ {i}, Apart(bps, S), Owns(h, P, bps, sizes, S),
         Allocated(h, P, F) = At(bps, S),
         NEW bps2, bps2 = [bps EXCEPT ![i] = 0], NEW sizes2, sizes2 = [sizes EXCEPT ![i] = 0]
  PROVE  RememberedAs(Forget(h, bps2, sizes2), P, F, bps2, sizes2)
<1> DEFINE f == Forget(h, bps2, sizes2)
<1>0. bps \in [Ids -> Nat] /\ sizes \in [Ids -> Nat] /\ \A j \in Ids \ Listed(bps) : sizes[j] = 0
  BY DEF Sized
<1>1. bps2 \in [Ids -> Nat] /\ sizes2 \in [Ids -> Nat]
  BY <1>0
<1>2. ForgottenAs(f, h, P, F, bps2, sizes2)
  BY <1>1, ForgetIs
<1> HIDE DEF f
<1>3. /\ Tidy(f, P, F) /\ f.brk = h.brk
      /\ \A j \in Listed(bps2), w \in Words : bps2[j] <= w /\ w < bps2[j] + sizes2[j] => f.mem[w] = h.mem[w]
  BY <1>2 DEF ForgottenAs
<1>4. Listed(bps2) = S /\ \A j \in S : bps2[j] = bps[j] /\ sizes2[j] = sizes[j]
  BY <1>0 DEF Listed
<1>5. Allocated(f, P, F) = At(bps2, Listed(bps2)) /\ Apart(bps2, Listed(bps2))
  <2>1. At(bps2, S) = At(bps, S)
    <3>1. \A j \in S : bps2[j] = bps[j]
      BY <1>4
    <3> HIDE <1>4
    <3>2. QED
      BY <3>1 DEF At
  <2>2. Apart(bps2, S)
    BY <1>4 DEF Apart
  <2>3. QED
    BY <2>1, <2>2, <1>3, <1>4 DEF Allocated
<1>6. Owns(f, P, bps2, sizes2, S)
  <2> SUFFICES ASSUME NEW j \in S
      PROVE  /\ sizes2[j] \in Sizes /\ bps2[j] + sizes2[j] + 8 <= Nxt(P, bps2[j])
             /\ \A w \in Words : bps2[j] <= w /\ w < bps2[j] + sizes2[j] => f.mem[w] = Data(j)
    BY DEF Owns
  <2>1. bps2[j] = bps[j] /\ sizes2[j] = sizes[j] /\ j \in Listed(bps2)
    BY <1>4
  <2>2. /\ sizes[j] \in Sizes /\ bps[j] + sizes[j] + 8 <= Nxt(P, bps[j])
        /\ \A w \in Words : bps[j] <= w /\ w < bps[j] + sizes[j] => h.mem[w] = Data(j)
    BY DEF Owns
  <2>3. QED
    BY <2>1, <2>2, <1>3
<1>7. \A j \in Ids \ Listed(bps2) : sizes2[j] = 0
  BY <1>0, <1>4
<1>8. QED
  BY <1>1, <1>3, <1>4, <1>5, <1>6, <1>7 DEF RememberedAs, Owned, Sized, f

LEMMA Without ==
  ASSUME NEW A, NEW bps, NEW L, A = At(bps, L), Apart(bps, L), NEW i \in L
  PROVE  bps[i] \in A /\ A \ {bps[i]} = At(bps, L \ {i}) /\ Apart(bps, L \ {i})
<1>1. bps[i] \in A
  BY DEF At
<1>2. ASSUME NEW z \in A \ {bps[i]} PROVE z \in At(bps, L \ {i})
  <2>1. PICK j \in L : z = bps[j]
    BY DEF At
  <2>2. j \in L \ {i}
    BY <2>1, <1>2
  <2>3. QED
    BY <2>1, <2>2 DEF At
<1>3. ASSUME NEW z \in At(bps, L \ {i}) PROVE z \in A \ {bps[i]}
  <2>1. PICK j \in L \ {i} : z = bps[j]
    BY DEF At
  <2>2. bps[j] # bps[i]
    BY DEF Apart
  <2>3. z \in A
    BY <2>1 DEF At
  <2>4. QED
    BY <2>1, <2>2, <2>3
<1>4. QED
  BY <1>1, <1>2, <1>3 DEF Apart

-----------------------------------------------------------------------------
(* The invariant.                                                            *)

(* A block with room for what was asked passes the driver's tests. *)
LEMMA RangeIs ==
  ASSUME NEW h, NEW P, NEW F, Tidy(h, P, F), NEW lo \in Allocated(h, P, F), NEW size \in Nat, size > 0,
         lo + size + 8 <= Nxt(P, lo), NEW S, Owns(h, P, blocks, block_sizes, S),
         At(blocks, S) \subseteq Allocated(h, P, F) \ {lo}
  PROVE  add_range(h, lo, size, S)
<1>1. Grid(P, h.brk) /\ lo \in P \ {h.brk}
  BY DEF Tidy, Shape, Allocated
<1>2. /\ \A p \in P : p \in Nat /\ p % 8 = 0 /\ 16 <= p /\ p <= h.brk
      /\ \A b \in P \ {h.brk} : Nxt(P, b) \in P /\ \A r \in P : r <= b \/ Nxt(P, b) <= r
      /\ h.brk \in Nat
  BY <1>1, GridNext DEF Grid
<1>3. PICK e \in Nat : e = Nxt(P, lo) /\ e <= h.brk /\ \A r \in P : r <= lo \/ e <= r
  BY <1>1, <1>2
<1>4. lo \in Nat /\ lo % 8 = 0 /\ lo + size + 8 <= e
  BY <1>1, <1>2, <1>3
<1>5. lo \in 0..(h.brk - 1) /\ lo + size - 1 \in 0..(h.brk - 1)
  BY <1>2, <1>3, <1>4
<1>6. ASSUME NEW j \in S
      PROVE  /\ lo \notin blocks[j]..(blocks[j] + block_sizes[j] - 1)
             /\ lo + size - 1 \notin blocks[j]..(blocks[j] + block_sizes[j] - 1)
  <2>1. PICK b : b = blocks[j]
    OBVIOUS
  <2>2. PICK n \in Nat : n = block_sizes[j] /\ n > 0 /\ b + n + 8 <= Nxt(P, b)
    BY <2>1, SizesAre DEF Owns
  <2>3. b \in P \ {h.brk} /\ b # lo
    BY <2>1 DEF At, Allocated
  <2>4. PICK c \in Nat : c = Nxt(P, b) /\ \A r \in P : r <= b \/ c <= r
    BY <2>3, <1>2
  <2>5. b \in Nat /\ b + n + 8 <= c /\ (lo <= b \/ c <= lo) /\ (b <= lo \/ e <= b)
    BY <1>1, <1>2, <1>3, <2>2, <2>3, <2>4
  <2>6. lo \notin b..(b + n - 1) /\ lo + size - 1 \notin b..(b + n - 1)
    BY <1>4, <2>3, <2>5
  <2>7. QED
    BY <2>1, <2>2, <2>6
<1>7. QED
  BY <1>4, <1>5, <1>6 DEF add_range, ALIGNMENT

(* The inductive invariant. *)
MmInv ==
  /\ verdict \in {"ok", "crashed"}
  /\ \E P, F : Tidy(heap, P, F) /\ Owned(heap, P, F, blocks, block_sizes)

LEMMA MmInvInit == Init => MmInv
<1> SUFFICES ASSUME Init PROVE MmInv
  OBVIOUS
<1>1. PICK P, F : Tidy(heap, P, F) /\ Allocated(heap, P, F) = {}
  BY InitIs DEF Init
<1>2. blocks = [i \in Ids |-> 0] /\ block_sizes = [i \in Ids |-> 0] /\ verdict = "ok"
  BY DEF Init, NULL
<1>3. Listed(blocks) = {}
  BY <1>2 DEF Listed
<1>4. Owned(heap, P, F, blocks, block_sizes)
  BY <1>1, <1>2, <1>3 DEF Owned, Sized, At, Apart, Owns
<1>5. QED
  BY <1>1, <1>2, <1>4 DEF MmInv

LEMMA LiveIs == Live = Listed(blocks)
BY DEF Live, Listed, NULL

(* Block i gets what mm_malloc or mm_realloc returned. *)
LEMMA Remembers ==
  ASSUME NEW i \in Ids, NEW size \in Sizes, NEW r, NEW P, NEW F, Tidy(r.heap, P, F),
         Sized(blocks, block_sizes),
         NEW S, S = Listed(blocks) \ {i}, Apart(blocks, S), Owns(r.heap, P, blocks, block_sizes, S),
         r.bp \notin At(blocks, S), Allocated(r.heap, P, F) = At(blocks, S) \cup {r.bp},
         r.bp + size + 8 <= Nxt(P, r.bp), Remember(i, r, size)
  PROVE  Tidy(heap', P, F) /\ Owned(heap', P, F, blocks', block_sizes')
<1>1. PICK bps2 : bps2 = [blocks EXCEPT ![i] = r.bp]
  OBVIOUS
<1>2. PICK sizes2 : sizes2 = [block_sizes EXCEPT ![i] = size]
  OBVIOUS
<1>3. PICK g : g = r.heap
  OBVIOUS
<1>4. PICK bp : bp = r.bp
  OBVIOUS
<1>5. /\ blocks' = bps2 /\ block_sizes' = sizes2
      /\ heap' = Forget(Fill(g, bp, size, Data(i)), bps2, sizes2)
  BY <1>1, <1>2, <1>3, <1>4 DEF Remember
<1>6. RememberedAs(Forget(Fill(g, bp, size, Data(i)), bps2, sizes2), P, F, bps2, sizes2)
  BY <1>1, <1>2, <1>3, <1>4, RememberIs
<1>7. QED
  BY <1>5, <1>6 DEF RememberedAs

LEMMA AllocKeeps ==
  ASSUME MmInv, NEW i \in Ids, NEW size \in Sizes, ALLOC(i, size)
  PROVE  MmInv'
<1>1. PICK P, F : Tidy(heap, P, F) /\ Owned(heap, P, F, blocks, block_sizes)
  BY DEF MmInv
<1> DEFINE A == Allocated(heap, P, F)
           S == Listed(blocks)
<1>2. /\ Sized(blocks, block_sizes)
      /\ A = At(blocks, S) /\ Apart(blocks, S) /\ Owns(heap, P, blocks, block_sizes, S)
  BY <1>1 DEF Owned
<1>3. PICK r \in {mm_malloc(heap, size)} :
        IF r.bp = NULL THEN Crash
        ELSE /\ Remember(i, r, size)
             /\ verdict' = IF add_range(r.heap, r.bp, size, Live) THEN "ok" ELSE "bad_range"
  BY DEF ALLOC
<1>4. S = Live /\ S = Listed(blocks) \ {i}
  BY LiveIs DEF ALLOC, Listed, NULL
<1>5. size \in Nat /\ size > 0
  BY SizesAre
<1>6. MallocAs(r, heap, P, F, size)
  BY <1>1, <1>3, <1>5, MallocIs
<1>7. CASE r.bp = 0
  <2>1. Crash
    BY <1>3, <1>7 DEF NULL
  <2>2. QED
    BY <2>1, <1>1 DEF Crash, MmInv
<1>8. CASE r.bp # 0
  <2>1. PICK P2, F2 : /\ Tidy(r.heap, P2, F2)
                      /\ r.bp \notin A /\ Allocated(r.heap, P2, F2) = A \cup {r.bp}
                      /\ Carried(heap, P, r.heap, P2, A) /\ r.bp + size + 8 <= Nxt(P2, r.bp)
    BY <1>6, <1>8 DEF MallocAs
  <2>2. Remember(i, r, size) /\ verdict' = IF add_range(r.heap, r.bp, size, S) THEN "ok" ELSE "bad_range"
    BY <1>3, <1>4, <1>8 DEF NULL
  <2>3. Grid(P, heap.brk) /\ A \subseteq P \ {heap.brk}
    BY <1>1 DEF Tidy, Shape, Allocated
  <2> HIDE DEF A, S
  <2>4. Owns(r.heap, P2, blocks, block_sizes, S)
    BY <1>2, <2>1, <2>3, OwnsCarried
  <2>5. r.bp \in Allocated(r.heap, P2, F2) /\ At(blocks, S) \subseteq Allocated(r.heap, P2, F2) \ {r.bp}
    BY <1>2, <2>1
  <2>6. add_range(r.heap, r.bp, size, S)
    BY <1>5, <2>1, <2>4, <2>5, RangeIs
  <2>7. Tidy(heap', P2, F2) /\ Owned(heap', P2, F2, blocks', block_sizes')
    <3>1. r.bp \notin At(blocks, S) /\ Allocated(r.heap, P2, F2) = At(blocks, S) \cup {r.bp}
      BY <1>2, <2>1
    <3>2. QED
      BY <1>2, <2>1, <2>2, <1>4, <2>4, <3>1, Remembers
  <2>8. verdict' = "ok"
    BY <2>2, <2>6
  <2>9. QED
    BY <2>7, <2>8 DEF MmInv
<1>9. QED
  BY <1>7, <1>8

LEMMA ReallocKeeps ==
  ASSUME MmInv, NEW i \in Ids, NEW size \in Sizes, REALLOC(i, size)
  PROVE  MmInv'
<1>1. PICK P, F : Tidy(heap, P, F) /\ Owned(heap, P, F, blocks, block_sizes)
  BY DEF MmInv
<1>2. PICK L : L = Listed(blocks)
  OBVIOUS
<1>3. PICK old : old = blocks[i]
  OBVIOUS
<1>4. PICK r \in {mm_realloc(heap, blocks[i], size)} :
        LET oldsize == IF size < block_sizes[i] THEN size ELSE block_sizes[i] IN
        IF r.bp = NULL THEN Crash
        ELSE /\ Remember(i, r, size)
             /\ verdict' = IF ~add_range(r.heap, r.bp, size, Live \ {i}) THEN "bad_range"
                           ELSE IF \A p \in Words \cap (r.bp..(r.bp + oldsize - 1)) : r.heap.mem[p] = Data(i)
                                THEN "ok" ELSE "data_lost"
  BY DEF REALLOC
<1> DEFINE A == Allocated(heap, P, F)
           S == L \ {i}
           oldsize == IF size < block_sizes[i] THEN size ELSE block_sizes[i]
           same == \A p \in Words \cap (r.bp..(r.bp + oldsize - 1)) : r.heap.mem[p] = Data(i)
<1>5. /\ Sized(blocks, block_sizes)
      /\ A = At(blocks, L) /\ Apart(blocks, L) /\ Owns(heap, P, blocks, block_sizes, L)
  BY <1>1, <1>2 DEF Owned
<1>6. i \in L /\ L = Live
  BY <1>2, LiveIs DEF REALLOC, Listed, NULL
<1>7. size \in Nat /\ size > 0
  BY SizesAre
<1> HIDE DEF A, S, oldsize, same
<1>8. old \in A /\ A \ {old} = At(blocks, S) /\ Apart(blocks, S) /\ S \subseteq L /\ S = Listed(blocks) \ {i}
  <2>1. old \in A /\ A \ {old} = At(blocks, L \ {i}) /\ Apart(blocks, L \ {i})
    BY <1>3, <1>5, <1>6, Without
  <2>2. QED
    BY <2>1, <1>2 DEF S
<1>9. ReallocAs(r, heap, P, F, old, size)
  BY <1>1, <1>3, <1>4, <1>7, <1>8, ReallocIs DEF A
<1>10. CASE r.bp = 0
  <2>1. Crash
    BY <1>4, <1>10 DEF NULL
  <2>2. QED
    BY <2>1, <1>1 DEF Crash, MmInv
<1>11. CASE r.bp # 0
  <2>1. PICK P2, F2 : /\ Tidy(r.heap, P2, F2) /\ r.bp \notin A
                      /\ Allocated(r.heap, P2, F2) = (A \ {old}) \cup {r.bp}
                      /\ Carried(heap, P, r.heap, P2, A \ {old}) /\ r.bp + size + 8 <= Nxt(P2, r.bp)
                      /\ \A w \in Words : r.bp <= w /\ w < r.bp + size /\ w - r.bp + old < Nxt(P, old) - 8
                           => r.heap.mem[w] = heap.mem[w - r.bp + old]
    BY <1>9, <1>11 DEF ReallocAs, A
  <2>2. /\ Remember(i, r, size)
        /\ verdict' = IF ~add_range(r.heap, r.bp, size, S) THEN "bad_range"
                      ELSE IF same THEN "ok" ELSE "data_lost"
    BY <1>4, <1>6, <1>11 DEF NULL, S, same, oldsize
  <2>3. Grid(P, heap.brk) /\ A \subseteq P \ {heap.brk} /\ Grid(P2, r.heap.brk)
    BY <1>1, <2>1 DEF Tidy, Shape, Allocated, A
  <2>4. Owns(heap, P, blocks, block_sizes, S)
    BY <1>5, <1>8 DEF Owns
  <2>5. Owns(r.heap, P2, blocks, block_sizes, S)
    <3>1. A \ {old} \subseteq P \ {heap.brk} /\ At(blocks, S) \subseteq A \ {old}
      BY <1>8, <2>3
    <3>2. QED
      BY <2>1, <2>3, <2>4, <3>1, OwnsCarried
  <2>6. /\ r.bp \in Allocated(r.heap, P2, F2) /\ At(blocks, S) \subseteq Allocated(r.heap, P2, F2) \ {r.bp}
        /\ r.bp \notin At(blocks, S) /\ Allocated(r.heap, P2, F2) = At(blocks, S) \cup {r.bp}
    BY <1>8, <2>1
  <2>7. add_range(r.heap, r.bp, size, S)
    BY <1>7, <2>1, <2>5, <2>6, RangeIs
  <2>8. Tidy(heap', P2, F2) /\ Owned(heap', P2, F2, blocks', block_sizes')
    BY <1>5, <1>8, <2>1, <2>2, <2>5, <2>6, Remembers
  <2>9. same
    <3> SUFFICES ASSUME NEW w \in Words, w \in r.bp..(r.bp + oldsize - 1) PROVE r.heap.mem[w] = Data(i)
      BY DEF same
    <3>1. PICK n \in Nat : n = block_sizes[i] /\ old + n + 8 <= Nxt(P, old)
                           /\ \A v \in Words : old <= v /\ v < old + n => heap.mem[v] = Data(i)
      BY <1>3, <1>5, <1>6, SizesAre DEF Owns
    <3>2. PICK to \in Nat : to = r.bp /\ to % 8 = 0
      BY <2>3, <2>6 DEF Grid, Allocated
    <3>3. old \in Nat /\ old % 8 = 0 /\ Nxt(P, old) \in Nat /\ Nxt(P, old) <= MAX_HEAP /\ heap.brk \in Nat
      <4>1. old \in P \ {heap.brk}
        BY <1>8, <2>3
      <4>2. Nxt(P, old) \in P
        BY <4>1, <2>3, GridNext
      <4>3. QED
        BY <4>1, <4>2, <2>3, MmAssumption DEF Grid
    <3>4. w \in Nat /\ w % 4 = 0 /\ to <= w /\ w < to + size /\ w < to + n
      BY <1>7, <3>1, <3>2, WordsAre DEF oldsize
    <3>5. PICK v \in Nat : v = w - to + old
      BY <3>2, <3>3, <3>4
    <3>6. old <= v /\ v < old + n /\ v < Nxt(P, old) - 8 /\ v % 4 = 0 /\ v + 4 <= MAX_HEAP
      BY <3>1, <3>2, <3>3, <3>4, <3>5, MmAssumption
    <3>7. v \in Words /\ heap.mem[v] = Data(i)
      BY <3>1, <3>6, WordIs
    <3>8. r.heap.mem[w] = heap.mem[v]
      BY <2>1, <3>2, <3>4, <3>5, <3>6
    <3>9. QED
      BY <3>7, <3>8
  <2>10. verdict' = "ok"
    BY <2>2, <2>7, <2>9
  <2>11. QED
    BY <2>8, <2>10 DEF MmInv
<1>12. QED
  BY <1>10, <1>11

LEMMA FreeKeeps ==
  ASSUME MmInv, NEW i \in Ids, FREE(i)
  PROVE  MmInv'
<1>1. PICK P, F : Tidy(heap, P, F) /\ Owned(heap, P, F, blocks, block_sizes)
  BY DEF MmInv
<1>2. PICK L : L = Listed(blocks)
  OBVIOUS
<1>3. PICK bp : bp = blocks[i]
  OBVIOUS
<1>4. PICK g : g = mm_free(heap, bp)
  OBVIOUS
<1>5. PICK bps2 : bps2 = [blocks EXCEPT ![i] = 0]
  OBVIOUS
<1>6. PICK sizes2 : sizes2 = [block_sizes EXCEPT ![i] = 0]
  OBVIOUS
<1> DEFINE A == Allocated(heap, P, F)
           S == L \ {i}
<1>7. /\ Sized(blocks, block_sizes)
      /\ A = At(blocks, L) /\ Apart(blocks, L) /\ Owns(heap, P, blocks, block_sizes, L)
  BY <1>1, <1>2 DEF Owned
<1>8. i \in L /\ blocks' = bps2 /\ block_sizes' = sizes2 /\ heap' = Forget(g, bps2, sizes2) /\ verdict' = verdict
  BY <1>2, <1>3, <1>4, <1>5, <1>6 DEF FREE, Listed, NULL
<1> HIDE DEF A, S
<1>9. bp \in A /\ A \ {bp} = At(blocks, S) /\ Apart(blocks, S) /\ S \subseteq L /\ S = Listed(blocks) \ {i}
  <2>1. bp \in A /\ A \ {bp} = At(blocks, L \ {i}) /\ Apart(blocks, L \ {i})
    BY <1>3, <1>7, <1>8, Without
  <2>2. QED
    BY <2>1, <1>2 DEF S
<1>10. FreedAs(g, heap, P, F, bp)
  BY <1>1, <1>4, <1>9, FreeIs DEF A
<1>11. PICK P2, F2 : Tidy(g, P2, F2) /\ Allocated(g, P2, F2) = A \ {bp} /\ Carried(heap, P, g, P2, A \ {bp})
  BY <1>10 DEF FreedAs, A
<1>12. Owns(g, P2, blocks, block_sizes, S)
  <2>1. Grid(P, heap.brk) /\ A \ {bp} \subseteq P \ {heap.brk} /\ At(blocks, S) \subseteq A \ {bp}
    BY <1>1, <1>9 DEF Tidy, Shape, Allocated, A
  <2>2. Owns(heap, P, blocks, block_sizes, S)
    BY <1>7, <1>9 DEF Owns
  <2>3. QED
    BY <1>11, <2>1, <2>2, OwnsCarried
<1>13. Allocated(g, P2, F2) = At(blocks, S)
  BY <1>9, <1>11
<1>14. RememberedAs(Forget(g, bps2, sizes2), P2, F2, bps2, sizes2)
  BY <1>5, <1>6, <1>7, <1>9, <1>11, <1>12, <1>13, DropIs
<1>15. Tidy(heap', P2, F2) /\ Owned(heap', P2, F2, blocks', block_sizes')
  BY <1>8, <1>14 DEF RememberedAs
<1>16. QED
  BY <1>8, <1>15 DEF MmInv

LEMMA RestartKeeps == Restart => MmInv'
<1> SUFFICES ASSUME Restart PROVE MmInv'
  OBVIOUS
<1>1. Init'
  BY DEF Restart, Init
<1>2. Init' => MmInv'
  BY MmInvInit, PTL
<1>3. QED
  BY <1>1, <1>2

LEMMA MmInvStep == MmInv /\ [Next]_vars => MmInv'
<1> SUFFICES ASSUME MmInv, [Next]_vars PROVE MmInv'
  OBVIOUS
<1>1. CASE \E i \in Ids, size \in Sizes : ALLOC(i, size)
  BY <1>1, AllocKeeps
<1>2. CASE \E i \in Ids, size \in Sizes : REALLOC(i, size)
  BY <1>2, ReallocKeeps
<1>3. CASE \E i \in Ids : FREE(i)
  BY <1>3, FreeKeeps
<1>4. CASE Restart
  BY <1>4, RestartKeeps
<1>5. CASE UNCHANGED vars
  BY <1>5 DEF vars, MmInv
<1>6. QED
  BY <1>1, <1>2, <1>3, <1>4, <1>5 DEF Next

LEMMA MmInvariant == Spec => []MmInv
<1>1. Init => MmInv
  BY MmInvInit
<1>2. QED
  BY <1>1, MmInvStep, PTL DEF Spec

-----------------------------------------------------------------------------
(* What the invariant says of a state.                                       *)

LEMMA PayloadsApart ==
  ASSUME NEW h, NEW P, NEW F, Tidy(h, P, F), NEW bps, NEW sizes, Owned(h, P, F, bps, sizes), NEW i \in Listed(bps)
  PROVE  /\ bps[i] \in 1..MAX_HEAP /\ bps[i] % 8 = 0 /\ sizes[i] \in Sizes /\ bps[i] + sizes[i] <= MAX_HEAP
         /\ \A j \in Listed(bps) : j = i \/ bps[i] + sizes[i] <= bps[j] \/ bps[j] + sizes[j] <= bps[i]
<1>1. Grid(P, h.brk)
  BY DEF Tidy, Shape
<1>2. /\ \A p \in P : p \in Nat /\ p % 8 = 0 /\ 16 <= p /\ p <= MAX_HEAP
      /\ \A b \in P \ {h.brk} : Nxt(P, b) \in P /\ \A r \in P : r <= b \/ Nxt(P, b) <= r
  <2>1. h.brk \in Nat /\ h.brk <= MAX_HEAP /\ \A p \in P : p \in Nat /\ p % 8 = 0 /\ 16 <= p /\ p <= h.brk
    BY <1>1 DEF Grid
  <2>2. QED
    BY <2>1, <1>1, GridNext, MmAssumption
<1>3. ASSUME NEW j \in Listed(bps)
      PROVE  /\ bps[j] \in P \ {h.brk} /\ bps[j] \in Nat /\ sizes[j] \in Sizes /\ sizes[j] \in Nat
             /\ Nxt(P, bps[j]) \in Nat /\ bps[j] + sizes[j] + 8 <= Nxt(P, bps[j])
  <2>1. bps[j] \in Allocated(h, P, F)
    BY DEF Owned, At
  <2>2. bps[j] \in P \ {h.brk}
    BY <2>1 DEF Allocated
  <2>3. sizes[j] \in Sizes /\ bps[j] + sizes[j] + 8 <= Nxt(P, bps[j])
    BY DEF Owned, Owns
  <2>4. QED
    BY <2>2, <2>3, <1>2, SizesAre
<1>4. ASSUME NEW j \in Listed(bps), j # i
      PROVE  bps[i] + sizes[i] <= bps[j] \/ bps[j] + sizes[j] <= bps[i]
  <2>1. bps[i] # bps[j]
    BY <1>4 DEF Owned, Apart
  <2>2. PICK b \in Nat, n \in Nat, e \in Nat : b = bps[i] /\ n = sizes[i] /\ e = Nxt(P, bps[i]) /\ b + n + 8 <= e
    BY <1>3
  <2>3. PICK c \in Nat, k \in Nat, f \in Nat : c = bps[j] /\ k = sizes[j] /\ f = Nxt(P, bps[j]) /\ c + k + 8 <= f
    BY <1>3
  <2>4. (c <= b \/ e <= c) /\ (b <= c \/ f <= b)
    BY <1>2, <1>3, <2>2, <2>3
  <2>5. b + n <= c \/ c + k <= b
    BY <2>1, <2>2, <2>3, <2>4
  <2>6. QED
    BY <2>2, <2>3, <2>5
<1>5. bps[i] \in 1..MAX_HEAP /\ bps[i] % 8 = 0 /\ sizes[i] \in Sizes /\ bps[i] + sizes[i] <= MAX_HEAP
  <2>1. PICK b \in Nat : b = bps[i] /\ b \in P \ {h.brk} /\ 16 <= b /\ b % 8 = 0 /\ b <= MAX_HEAP
    BY <1>2, <1>3
  <2>2. PICK n \in Nat : n = sizes[i] /\ b + n + 8 <= Nxt(P, b)
    BY <1>3, <2>1
  <2>3. Nxt(P, b) \in Nat /\ Nxt(P, b) <= MAX_HEAP
    BY <1>2, <2>1
  <2>4. b \in 1..MAX_HEAP /\ b + n <= MAX_HEAP
    BY <2>1, <2>2, <2>3, MmAssumption
  <2>5. QED
    BY <2>1, <2>2, <2>4, <1>3
<1>6. QED
  BY <1>4, <1>5

LEMMA InvType == MmInv => TypeOK
<1> SUFFICES ASSUME MmInv PROVE TypeOK
  OBVIOUS
<1>1. PICK P, F : Tidy(heap, P, F) /\ Owned(heap, P, F, blocks, block_sizes)
  BY DEF MmInv
<1>2. heap \in Heaps /\ Grid(P, heap.brk) /\ F \subseteq P \ {heap.brk} /\ Linked(heap, F)
  BY <1>1 DEF Tidy, Shape
<1>3. heap.mem \in [Words -> Int] /\ heap.roots \in [0..4 -> Nat] /\ heap.brk \in Nat
  BY <1>2 DEF Heaps
<1>4. heap.brk \in 16..MAX_HEAP /\ \A p \in P : p \in 0..MAX_HEAP
  <2>1. 16 <= heap.brk /\ heap.brk <= MAX_HEAP /\ \A p \in P : p \in Nat /\ p <= heap.brk
    BY <1>2 DEF Grid
  <2>2. QED
    BY <2>1, <1>3, MmAssumption
<1>5. heap.roots \in [0..4 -> 0..MAX_HEAP]
  <2>1. F \subseteq Places
    BY <1>2, GridNext
  <2>2. Nxt(F, 0) = 0 \/ Nxt(F, 0) \in F
    BY <2>1, NxtIs DEF NULL
  <2>3. Nxt(F, 0) \in 0..MAX_HEAP
    BY <2>2, <1>2, <1>4, MmAssumption
  <2>4. \A i \in 0..4 : heap.roots[i] \in 0..MAX_HEAP
    <3> SUFFICES ASSUME NEW i \in 0..4 PROVE heap.roots[i] \in 0..MAX_HEAP
      OBVIOUS
    <3>1. i \in 0..3 \/ i = 4
      OBVIOUS
    <3>2. QED
      BY <3>1, <2>3, <1>2, MmAssumption DEF Linked
  <2>5. QED
    BY <2>4, <1>3
<1>6. ASSUME NEW i \in Ids PROVE blocks[i] \in 0..MAX_HEAP /\ block_sizes[i] \in Sizes \cup {0}
  <2>1. CASE i \in Listed(blocks)
    BY <2>1, <1>1, PayloadsApart
  <2>2. CASE i \notin Listed(blocks)
    BY <2>2, <1>1, MmAssumption DEF Owned, Sized, Listed
  <2>3. QED
    BY <2>1, <2>2
<1>7. blocks \in [Ids -> 0..MAX_HEAP] /\ block_sizes \in [Ids -> Sizes \cup {0}]
  BY <1>1, <1>6 DEF Owned, Sized
<1>8. QED
  BY <1>3, <1>4, <1>5, <1>7 DEF TypeOK, MmInv

LEMMA InvTags == MmInv => TagsTile
<1> SUFFICES ASSUME MmInv PROVE TagsTile
  OBVIOUS
<1>1. PICK P, F : Tidy(heap, P, F)
  BY DEF MmInv
<1>2. /\ heap \in Heaps /\ Grid(P, heap.brk) /\ F \subseteq P \ {heap.brk} /\ Shape(heap, P, F, F)
      /\ \A f \in F : Nxt(P, f) \notin F
  BY <1>1 DEF Tidy, Shape, Spaced
<1>3. Blocks = P \ {heap.brk} /\ BlockAt(heap, MaxBlocks) = heap.brk
  BY <1>2, BlocksAre DEF Blocks
<1>4. GET(heap, HDRP(heap.brk)) = 1
  <2>1. TagWords(P) \subseteq Words /\ heap.brk \in P
    BY <1>2, GridWords DEF Grid
  <2>2. heap.brk - 4 \in Words
    BY <2>1 DEF TagWords
  <2>3. heap.mem[heap.brk - 4] = 1
    BY <1>2 DEF Shape, Tagged
  <2>4. QED
    BY <2>2, <2>3, <1>2, GetIs DEF HDRP, WSIZE
<1>5. ASSUME NEW bp \in Blocks
      PROVE  /\ bp % ALIGNMENT = 0 /\ GET_SIZE(heap, HDRP(bp)) >= 16
             /\ GET(heap, HDRP(bp)) = GET(heap, FTRP(heap, bp))
             /\ ~(IsFree(bp) /\ NEXT_BLKP(heap, bp) # heap.brk /\ IsFree(NEXT_BLKP(heap, bp)))
  <2>1. bp \in P \ {heap.brk}
    BY <1>3
  <2>2. PICK e \in Nat : e = Nxt(P, bp) /\ e \in P /\ bp + 16 <= e /\ bp \in Nat /\ bp % 8 = 0
    BY <2>1, <1>2, GridNext DEF Grid
  <2>3. /\ GET_SIZE(heap, HDRP(bp)) = e - bp /\ NEXT_BLKP(heap, bp) = e /\ FTRP(heap, bp) = e - 8
        /\ IsFree(bp) <=> bp \in F
        /\ heap.mem[bp - 4] = Tag(P, F, bp) /\ heap.mem[e - 8] = Tag(P, F, bp)
    BY <1>2, <2>1, <2>2, BlockIs DEF IsFree, FreeAt
  <2>4. GET(heap, HDRP(bp)) = GET(heap, FTRP(heap, bp))
    <3>0. TagWords(P) \subseteq Words
      BY <1>2, GridWords
    <3>1. bp - 4 \in Words /\ e - 8 \in Words
      BY <3>0, <2>1, <2>2 DEF TagWords
    <3>2. GET(heap, bp - 4) = GET(heap, e - 8)
      BY <3>1, <2>3, <1>2, GetIs
    <3>3. QED
      BY <3>2, <2>3 DEF HDRP, WSIZE
  <2>5. e = heap.brk \/ (IsFree(e) <=> e \in F)
    BY <1>2, <2>2, BlockIs DEF IsFree, FreeAt
  <2>6. QED
    BY <1>2, <2>2, <2>3, <2>4, <2>5 DEF ALIGNMENT
<1>6. QED
  BY <1>3, <1>4, <1>5 DEF TagsTile

LEMMA FreeBlocks ==
  ASSUME NEW P, NEW F, Tidy(heap, P, F)
  PROVE  /\ {bp \in Blocks : IsFree(bp)} = F
         /\ {bp \in Blocks : ~IsFree(bp)} = Allocated(heap, P, F)
<1>1. Shape(heap, P, F, F) /\ F \subseteq P \ {heap.brk}
  BY DEF Tidy, Shape
<1>2. Blocks = P \ {heap.brk}
  BY <1>1, BlocksAre DEF Blocks
<1>3. \A bp \in P \ {heap.brk} : IsFree(bp) <=> bp \in F
  BY <1>1, BlockIs DEF IsFree, FreeAt
<1>4. QED
  BY <1>1, <1>2, <1>3 DEF Allocated

LEMMA InvFree == MmInv => FreeListExact
<1> SUFFICES ASSUME MmInv PROVE FreeListExact
  OBVIOUS
<1>1. PICK P, F : Tidy(heap, P, F)
  BY DEF MmInv
<1>2. Shape(heap, P, F, F) /\ \A i \in 0..3 : heap.roots[i] = NULL
  BY <1>1 DEF Tidy, Shape, Linked, NULL
<1>3. FreeListed = ListOf(heap)
  BY DEF FreeListed, ListOf
<1>4. /\ {ListOf(heap)[n] : n \in 0..MaxBlocks} \ {NULL} = F
      /\ \A n \in 1..MaxBlocks : ListOf(heap)[n] # NULL =>
           ListOf(heap)[n - 1] < ListOf(heap)[n] /\ GET(heap, ListOf(heap)[n] + WSIZE) = ListOf(heap)[n - 1]
  BY <1>2, ListedAre
<1>5. {bp \in Blocks : IsFree(bp)} = F
  BY <1>1, FreeBlocks
<1>6. QED
  BY Zenon, <1>2, <1>3, <1>4, <1>5 DEF FreeListExact

LEMMA InvLost == MmInv => NothingLost
<1> SUFFICES ASSUME MmInv PROVE NothingLost
  OBVIOUS
<1>1. PICK P, F : Tidy(heap, P, F) /\ Owned(heap, P, F, blocks, block_sizes)
  BY DEF MmInv
<1>2. {bp \in Blocks : ~IsFree(bp)} = At(blocks, Live) /\ Apart(blocks, Live)
  BY <1>1, FreeBlocks, LiveIs DEF Owned
<1>3. QED
  BY <1>2 DEF NothingLost, At, Apart

-----------------------------------------------------------------------------
(* The allocator as its user sees it.                                        *)

LEMMA KeptIs == MmInv => Kept = Live
<1> SUFFICES ASSUME MmInv PROVE Kept = Live
  OBVIOUS
<1>1. PICK P, F : Tidy(heap, P, F) /\ Owned(heap, P, F, blocks, block_sizes)
  BY DEF MmInv
<1>2. ASSUME NEW i \in Live, NEW p \in Words, p \in blocks[i]..(blocks[i] + block_sizes[i] - 1)
      PROVE  heap.mem[p] = Data(i)
  <2>1. i \in Listed(blocks)
    BY LiveIs
  <2>2. PICK b \in Nat, n \in Nat : b = blocks[i] /\ n = block_sizes[i]
    BY <1>1, <2>1, PayloadsApart, SizesAre
  <2>3. b <= p /\ p < b + n
    BY <1>2, <2>2, WordsAre
  <2>4. QED
    BY <1>1, <2>1, <2>2, <2>3 DEF Owned, Owns
<1>3. QED
  BY <1>2 DEF Kept

LEMMA KeptNext == MmInv' => Kept' = Live'
<1>1. (MmInv => Kept = Live)'
  BY KeptIs, PTL
<1>2. QED
  BY <1>1

LEMMA StartsAbstract == Init => Abstract!Init
<1> SUFFICES ASSUME Init PROVE Abstract!Init
  OBVIOUS
<1>1. blocks = [i \in Ids |-> 0] /\ block_sizes = [i \in Ids |-> 0]
  BY DEF Init, NULL
<1>2. Kept = {}
  BY <1>1 DEF Kept, Live, NULL
<1>3. QED
  BY <1>1, <1>2 DEF Abstract!Init

(* Block i was given n bytes: they are apart from the others, which stay. *)
LEMMA GivesAbstract ==
  ASSUME MmInv, MmInv', NEW i \in Ids, NEW n \in Sizes, NEW r, Remember(i, r, n), r.bp # 0
  PROVE  Abstract!Give(i, n)
<1>1. PICK b : b = r.bp
  OBVIOUS
<1>2. /\ blocks' = [blocks EXCEPT ![i] = b] /\ block_sizes' = [block_sizes EXCEPT ![i] = n]
      /\ blocks \in [Ids -> Nat] /\ block_sizes \in [Ids -> Nat]
  BY <1>1 DEF Remember, MmInv, Owned, Sized
<1>3. /\ blocks'[i] = b /\ block_sizes'[i] = n
      /\ \A j \in Ids \ {i} : blocks'[j] = blocks[j] /\ block_sizes'[j] = block_sizes[j]
  BY <1>2
<1>4. i \in Listed(blocks') /\ Live \ {i} \subseteq Listed(blocks') /\ Listed(blocks') = Live \cup {i}
  BY <1>1, <1>3, LiveIs DEF Listed
<1>5. PICK P, F : Tidy(heap', P, F) /\ Owned(heap', P, F, blocks', block_sizes')
  BY DEF MmInv
<1>6. /\ b \in 1..MAX_HEAP /\ b % 8 = 0 /\ b + n <= MAX_HEAP
      /\ \A j \in Listed(blocks') : j = i \/ b + n <= blocks'[j] \/ blocks'[j] + block_sizes'[j] <= b
  BY <1>3, <1>4, <1>5, PayloadsApart
<1>7. \A j \in Live \ {i} : Abstract!Apart(b, n, j)
  <2> SUFFICES ASSUME NEW j \in Live \ {i} PROVE Abstract!Apart(b, n, j)
    OBVIOUS
  <2>1. j \in Ids \ {i} /\ j \in Listed(blocks')
    BY <1>4 DEF Live
  <2>2. QED
    BY <2>1, <1>3, <1>6 DEF Abstract!Apart
<1>8. Kept' = Kept \cup {i}
  <2>1. Kept = Live
    BY KeptIs
  <2>2. Kept' = Live'
    BY KeptNext
  <2>3. Live' = Listed(blocks')
    BY DEF Live, Listed, NULL
  <2>4. QED
    BY <2>1, <2>2, <2>3, <1>4
<1>9. Abstract!Live = Live
  BY DEF Abstract!Live, Live, NULL
<1>10. QED
  BY <1>2, <1>6, <1>7, <1>8, <1>9 DEF Abstract!Give, ALIGNMENT

LEMMA StepsAbstract == MmInv /\ MmInv' /\ [Next]_vars => [Abstract!Next]_Abstract!vars
<1> SUFFICES ASSUME MmInv, MmInv', [Next]_vars PROVE [Abstract!Next]_Abstract!vars
  OBVIOUS
<1>0. UNCHANGED <<heap, blocks, block_sizes>> => [Abstract!Next]_Abstract!vars
  BY DEF Abstract!vars, Kept, Live
<1>1. ASSUME NEW i \in Ids, NEW n \in Sizes, ALLOC(i, n) PROVE [Abstract!Next]_Abstract!vars
  <2>1. blocks[i] = 0
    BY <1>1 DEF ALLOC, NULL
  <2>2. PICK r : IF r.bp = NULL THEN Crash ELSE Remember(i, r, n)
    BY <1>1 DEF ALLOC
  <2>3. CASE r.bp = 0
    BY <2>2, <2>3, <1>0 DEF Crash, NULL
  <2>4. CASE r.bp # 0
    <3>1. Remember(i, r, n)
      BY <2>2, <2>4 DEF NULL
    <3>2. Abstract!Give(i, n)
      BY <2>4, <3>1, GivesAbstract
    <3>3. QED
      BY <2>1, <3>2 DEF Abstract!Next, Abstract!Malloc
  <2>5. QED
    BY <2>3, <2>4
<1>2. ASSUME NEW i \in Ids, NEW n \in Sizes, REALLOC(i, n) PROVE [Abstract!Next]_Abstract!vars
  <2>1. i \in Kept
    BY <1>2, KeptIs DEF REALLOC, Live
  <2>2. PICK r : IF r.bp = NULL THEN Crash ELSE Remember(i, r, n)
    BY <1>2 DEF REALLOC
  <2>3. CASE r.bp = 0
    BY <2>2, <2>3, <1>0 DEF Crash, NULL
  <2>4. CASE r.bp # 0
    <3>1. Remember(i, r, n)
      BY <2>2, <2>4 DEF NULL
    <3>2. Abstract!Give(i, n)
      BY <2>4, <3>1, GivesAbstract
    <3>3. QED
      BY <2>1, <3>2 DEF Abstract!Next, Abstract!Realloc
  <2>5. QED
    BY <2>3, <2>4
<1>3. ASSUME NEW i \in Ids, FREE(i) PROVE [Abstract!Next]_Abstract!vars
  <2>1. /\ blocks[i] # 0 /\ blocks' = [blocks EXCEPT ![i] = 0] /\ block_sizes' = [block_sizes EXCEPT ![i] = 0]
        /\ blocks \in [Ids -> Nat]
    BY <1>3 DEF FREE, NULL, MmInv, Owned, Sized
  <2>2. Live' = Live \ {i}
    BY <2>1 DEF Live, NULL
  <2>3. Kept' = Live'
    BY KeptNext
  <2>4. Kept' = Kept \ {i}
    BY <2>2, <2>3, KeptIs
  <2>5. QED
    BY <2>1, <2>4 DEF Abstract!Next, Abstract!Free
<1>4. CASE Restart
  <2>1. blocks' = [i \in Ids |-> 0] /\ block_sizes' = [i \in Ids |-> 0]
    BY <1>4 DEF Restart, NULL
  <2>2. Live' = {}
    BY <2>1 DEF Live, NULL
  <2>3. Kept' = Live'
    BY KeptNext
  <2>4. QED
    BY <2>1, <2>2, <2>3 DEF Abstract!Next, Abstract!Restart
<1>5. CASE UNCHANGED vars
  BY <1>0, <1>5 DEF vars
<1>6. QED
  BY <1>1, <1>2, <1>3, <1>4, <1>5 DEF Next

-----------------------------------------------------------------------------
(* The theorems.                                                             *)

(* The heap, its break and the driver's tables keep their types, and the break
   never passes the end of memlib's memory. *)
THEOREM MmTypeCorrect == Spec => []TypeOK
  BY MmInvariant, InvType, PTL

(* Whatever is split, merged, grown and given back, the headers tile the heap,
   footers agree with them, and no two neighbours are free. *)
THEOREM HeapIsTiled == Spec => []TagsTile
  BY MmInvariant, InvTags, PTL

(* The free lists hold exactly the free blocks, in address order, linked both
   ways. *)
THEOREM FreeListIsExact == Spec => []FreeListExact
  BY MmInvariant, InvFree, PTL

(* Every allocated block is one index's of the trace. *)
THEOREM NoBlockIsLost == Spec => []NothingLost
  BY MmInvariant, InvLost, PTL

(* eval_mm_valid never finds a range wrong, or data lost by realloc. *)
THEOREM DriverNeverComplains == Spec => []NoComplaint
<1>1. MmInv => NoComplaint
  BY DEF MmInv, NoComplaint
<1>2. QED
  BY <1>1, MmInvariant, PTL

(* mm.c is an allocator: each line of a trace is a step of the abstract one. *)
THEOREM AllocatorImplemented == Spec => ImplementsAllocator
<1>1. MmInv /\ MmInv' /\ [Next]_vars => [Abstract!Next]_Abstract!vars
  BY StepsAbstract
<1>2. QED
  BY <1>1, StartsAbstract, MmInvariant, PTL DEF Spec, ImplementsAllocator, Abstract!Spec
====
