---------------------------- MODULE QueueProofs ----------------------------
(***************************************************************************)
(* The theorems about Queue, for every set of cells and values: the list   *)
(* that queue.c keeps in its cells is one of distinct allocated cells from *)
(* head to tail, and the queue implements Deque.                           *)
(*                                                                         *)
(* What the recursive functions of Queue (the walk Nth, the loop Turn)     *)
(* compute is found in three steps: a function is shown to satisfy the     *)
(* recursion, the recursive definition is then known to satisfy it too,    *)
(* and two that satisfy it agree, because there is no least number where   *)
(* they differ (LeastNat).                                                 *)
(***************************************************************************)
EXTENDS Queue, TLAPS, NaturalsInduction, WellFoundedInduction, FiniteSetTheorems, SequenceTheorems

USE QueueAssumption

-----------------------------------------------------------------------------
(* Least numbers, walks and the sequences they follow.                       *)

(* The order of the natural numbers as a relation. *)
Below == {p \in Nat \X Nat : p[1] < p[2]}

LEMMA BelowWellFounded == IsWellFoundedOn(Below, Nat)
<1>1. Below = OpToRel(<, Nat)
  BY DEF Below, OpToRel
<1>2. QED
  BY <1>1, NatLessThanWellFounded

(* Induction: what fails for some number fails for a least one. *)
LEMMA LeastNat ==
  ASSUME NEW S, S \subseteq Nat, S # {}
  PROVE  \E m \in S : \A k \in S : m <= k
<1>1. PICK m \in S : \A k \in S : ~ (<<k, m>> \in Below)
  BY BelowWellFounded, WFMin
<1>2. ASSUME NEW k \in S, k < m PROVE FALSE
  <2>1. <<k, m>> \in Below
    BY <1>2 DEF Below
  <2>2. QED
    BY <1>1, <2>1
<1>3. \A k \in S : m <= k
  BY <1>2
<1>4. QED
  BY <1>3

(* s lists, in order, the cells that a walk from h along the next fields of c
   meets before NULL. *)
Listed(h, c, s) ==
  /\ s \in Seq(Cells)
  /\ h = IF s = <<>> THEN NULL ELSE s[1]
  /\ \A i \in 1..Len(s) : c[s[i]].next = IF i < Len(s) THEN s[i + 1] ELSE NULL
  /\ \A i, j \in 1..Len(s) : s[i] = s[j] => i = j

(* The cells of a list. *)
Elements(s) == {s[i] : i \in 1..Len(s)}

(* A list without repetitions is no longer than there are cells. *)
LEMMA ElementsCount ==
  ASSUME NEW s \in Seq(Cells), \A i, j \in 1..Len(s) : s[i] = s[j] => i = j
  PROVE  /\ Elements(s) \subseteq Cells /\ IsFiniteSet(Elements(s))
         /\ Cardinality(Elements(s)) = Len(s)
         /\ Len(s) <= Longest /\ Longest \in Nat
<1>1. Elements(s) \subseteq Cells /\ Len(s) \in Nat
  BY DEF Elements
<1>2. IsFiniteSet(Elements(s)) /\ Cardinality(Elements(s)) <= Longest /\ Longest \in Nat
  BY <1>1, FS_Subset, FS_CardinalityType DEF Longest
<1>3. s \in Bijection(1..Len(s), Elements(s))
  <2>1. s \in [1..Len(s) -> Elements(s)]
    BY LenProperties DEF Elements
  <2>2. s \in Injection(1..Len(s), Elements(s))
    BY <2>1 DEF Injection, IsInjective
  <2>3. s \in Surjection(1..Len(s), Elements(s))
    BY <2>1 DEF Surjection, Elements
  <2>4. QED
    BY <2>2, <2>3 DEF Bijection
<1>4. ExistsBijection(1..Len(s), Elements(s))
  BY <1>3 DEF ExistsBijection
<1>5. Cardinality(Elements(s)) = Len(s)
  BY <1>1, <1>4, FS_CountingElements
<1>6. QED
  BY <1>1, <1>2, <1>5

(* The pointer after n steps along a list. *)
Pointer(s, n) == IF n < Len(s) THEN s[n + 1] ELSE NULL

(* The recursion of Nth, from any head and through any cells. *)
Walk(h, c, g) == g = [n \in 0..Longest |->
    IF n = 0 THEN h ELSE IF g[n - 1] \in Cells THEN c[g[n - 1]].next ELSE g[n - 1]]

(* A walk along a list meets its elements in order and then NULL. *)
LEMMA WalkMeets ==
  ASSUME NEW h, NEW c, NEW s, Listed(h, c, s), NEW g, Walk(h, c, g)
  PROVE  \A n \in 0..Longest : g[n] = Pointer(s, n)
<1>0. Len(s) <= Longest /\ Longest \in Nat /\ Len(s) \in Nat
  BY ElementsCount DEF Listed
<1> DEFINE Wrong == {n \in 0..Longest : g[n] # Pointer(s, n)}
<1>1. ASSUME Wrong # {} PROVE FALSE
  <2>1. PICK m \in Wrong : \A k \in Wrong : m <= k
    <3>1. Wrong \subseteq Nat
      BY <1>0
    <3>2. QED
      BY <3>1, <1>1, LeastNat
  <2>2. m # 0
    <3>1. 0 \in 0..Longest
      BY <1>0
    <3>2. g[0] = h
      BY <3>1 DEF Walk
    <3>3. h = Pointer(s, 0)
      BY <1>0 DEF Listed, Pointer
    <3>4. g[m] # Pointer(s, m)
      BY <2>1
    <3>5. QED
      BY <3>2, <3>3, <3>4
  <2>3. m \in 1..Longest /\ m - 1 \in 0..Longest /\ m - 1 \notin Wrong
    BY <2>1, <2>2, <1>0
  <2>4. g[m - 1] = Pointer(s, m - 1)
    BY <2>3
  <2>5. g[m] = IF g[m - 1] \in Cells THEN c[g[m - 1]].next ELSE g[m - 1]
    BY <2>3, <1>0 DEF Walk
  <2>6. g[m] = Pointer(s, m)
    <3>1. CASE m - 1 < Len(s)
      <4>1. m \in 1..Len(s) /\ s[m] \in Cells
        BY <3>1, <2>3, <1>0 DEF Listed
      <4>2. g[m - 1] = s[m]
        BY <3>1, <2>4, <2>3 DEF Pointer
      <4>3. c[s[m]].next = Pointer(s, m)
        BY <4>1 DEF Listed, Pointer
      <4>4. QED
        BY <4>1, <4>2, <4>3, <2>5
    <3>2. CASE ~(m - 1 < Len(s))
      BY <3>2, <2>3, <2>4, <2>5, <1>0 DEF Pointer
    <3>3. QED
      BY <3>1, <3>2
  <2>7. QED
    BY <2>1, <2>6
<1>2. QED
  BY <1>1

(* So does Nth: the recursion has a solution, and the walk is one. *)
LEMMA NthIs ==
  ASSUME NEW s, Listed(head, cell, s)
  PROVE  \A n \in 0..Longest : Nth[n] = Pointer(s, n)
<1>0. Len(s) <= Longest /\ Longest \in Nat /\ Len(s) \in Nat /\ s \in Seq(Cells)
  BY ElementsCount DEF Listed
<1>1. Walk(head, cell, [n \in 0..Longest |-> Pointer(s, n)])
  <2> DEFINE g == [n \in 0..Longest |-> Pointer(s, n)]
  <2>1. g[0] = head
    BY <1>0 DEF Listed, Pointer
  <2>2. ASSUME NEW n \in 1..Longest
        PROVE  g[n] = IF g[n - 1] \in Cells THEN cell[g[n - 1]].next ELSE g[n - 1]
    <3>1. n - 1 \in 0..Longest /\ n \in 0..Longest
      BY <1>0
    <3>2. CASE n - 1 < Len(s)
      <4>1. n \in 1..Len(s) /\ s[n] \in Cells /\ g[n - 1] = s[n]
        BY <3>2, <3>1, <1>0 DEF Pointer
      <4>2. cell[s[n]].next = Pointer(s, n)
        BY <4>1 DEF Listed, Pointer
      <4>3. QED
        BY <4>1, <4>2, <3>1
    <3>3. CASE ~(n - 1 < Len(s))
      BY <3>3, <3>1, <1>0 DEF Pointer
    <3>4. QED
      BY <3>2, <3>3
  <2>3. \A n \in 0..Longest : Pointer(s, n) =
          IF n = 0 THEN head ELSE IF g[n - 1] \in Cells THEN cell[g[n - 1]].next ELSE g[n - 1]
    <3>1. \A n \in 0..Longest : g[n] = Pointer(s, n) /\ (n # 0 => n \in 1..Longest)
      BY <1>0
    <3>2. QED
      BY <2>1, <2>2, <3>1, <1>0
  <2>4. QED
    BY <2>3 DEF Walk
<1>2. Walk(head, cell, Nth)
  BY <1>1 DEF Nth, Walk
<1>3. QED
  BY <1>2, WalkMeets

-----------------------------------------------------------------------------
(* The loop of q_reverse. *)

(* What q_reverse has behind it when it stands at cell k. *)
Prev(s, k) == CHOOSE p : \E i \in 1..Len(s) : s[i] = k /\ p = IF i = 1 THEN NULL ELSE s[i - 1]

LEMMA PrevIs ==
  ASSUME NEW h, NEW c, NEW s, Listed(h, c, s), NEW i \in 1..Len(s)
  PROVE  Prev(s, s[i]) = IF i = 1 THEN NULL ELSE s[i - 1]
<1>1. \E p : \E j \in 1..Len(s) : s[j] = s[i] /\ p = IF j = 1 THEN NULL ELSE s[j - 1]
  OBVIOUS
<1>2. PICK j \in 1..Len(s) : s[j] = s[i] /\ Prev(s, s[i]) = IF j = 1 THEN NULL ELSE s[j - 1]
  BY <1>1 DEF Prev
<1>3. j = i
  BY <1>2 DEF Listed
<1>4. QED
  BY <1>2, <1>3

(* After m turns the first m + 2 elements are turned round; after Turns(s, n),
   n being the turns the loop is given, all that it may turn are. *)
Turned(s, c, m) ==
  [a |-> s[m + 1], b |-> s[m + 2], c |-> Pointer(s, m + 2),
   next |-> [k \in Cells |-> IF \E i \in 1..(m + 2) : k = s[i] THEN Prev(s, k) ELSE c[k].next]]

Turns(s, n) == IF n < Len(s) - 2 THEN n ELSE Len(s) - 2

(* The state of the loop of q_reverse before its first turn. *)
FirstTurn(h, c) ==
  LET x == c[h].next
      y == c[x].next
  IN  [a |-> h, b |-> x, c |-> y,
       next |-> [k \in Cells |-> IF k = h THEN NULL ELSE IF k = x THEN h ELSE c[k].next]]

NextTurn(t) ==
  IF t.c = NULL THEN t
  ELSE [a |-> t.b, b |-> t.c, c |-> t.next[t.c], next |-> [t.next EXCEPT ![t.c] = t.b]]

Loop(h, c, g) == g = [n \in 0..Longest |-> IF n = 0 THEN FirstTurn(h, c) ELSE NextTurn(g[n - 1])]

LEMMA FirstTurnIs ==
  ASSUME NEW h, NEW c, NEW s, Listed(h, c, s), Len(s) >= 2
  PROVE  FirstTurn(h, c) = Turned(s, c, 0)
<1>0. Len(s) \in Nat /\ s[1] \in Cells /\ s[2] \in Cells /\ h = s[1] /\ 1 \in 1..Len(s) /\ 2 \in 1..Len(s)
  BY DEF Listed
<1>1. c[s[1]].next = s[2]
  BY <1>0 DEF Listed
<1>2. c[s[2]].next = Pointer(s, 2)
  BY <1>0 DEF Listed, Pointer
<1>3. Prev(s, s[1]) = NULL /\ Prev(s, s[2]) = s[1]
  BY <1>0, PrevIs
<1>4. ASSUME NEW k \in Cells
      PROVE  (IF k = h THEN NULL ELSE IF k = s[2] THEN h ELSE c[k].next)
             = (IF \E i \in 1..(0 + 2) : k = s[i] THEN Prev(s, k) ELSE c[k].next)
  <2>1. 1..(0 + 2) = {1, 2}
    OBVIOUS
  <2>2. QED
    BY <2>1, <1>0, <1>3
<1>5. QED
  BY <1>0, <1>1, <1>2, <1>4 DEF FirstTurn, Turned

LEMMA NextTurnIs ==
  ASSUME NEW h, NEW c, NEW s, Listed(h, c, s), NEW m \in Nat, m + 2 <= Len(s)
  PROVE  NextTurn(Turned(s, c, m)) = Turned(s, c, IF m + 2 < Len(s) THEN m + 1 ELSE m)
<1>0. Len(s) \in Nat /\ s \in Seq(Cells)
  BY DEF Listed
<1> DEFINE t == Turned(s, c, m)
<1>1. CASE m + 2 = Len(s)
  <2>1. t.c = NULL
    BY <1>1 DEF Turned, Pointer
  <2>2. QED
    BY <2>1, <1>1 DEF NextTurn
<1>2. CASE m + 2 < Len(s)
  <2>0. m + 3 \in 1..Len(s) /\ m + 2 \in 1..Len(s) /\ m + 1 \in 1..Len(s) /\ s[m + 3] \in Cells /\ s[m + 2] \in Cells
    BY <1>2, <1>0
  <2>1. t.c = s[m + 3] /\ t.b = s[m + 2] /\ t.c # NULL /\ (m + 2) + 1 = m + 3
    BY <1>2, <2>0 DEF Turned, Pointer
  <2>2. ~ \E i \in 1..(m + 2) : s[m + 3] = s[i]
    BY <2>0, <1>0 DEF Listed
  <2>3. t.next[s[m + 3]] = Pointer(s, m + 3)
    <3>1. t.next[s[m + 3]] = c[s[m + 3]].next
      BY <2>0, <2>2 DEF Turned
    <3>2. QED
      BY <3>1, <2>0 DEF Listed, Pointer
  <2>4. Prev(s, s[m + 3]) = s[m + 2]
    <3>1. Prev(s, s[m + 3]) = IF m + 3 = 1 THEN NULL ELSE s[(m + 3) - 1]
      BY <2>0, PrevIs
    <3>2. m + 3 # 1 /\ (m + 3) - 1 = m + 2
      OBVIOUS
    <3>3. QED
      BY <3>1, <3>2
  <2>5. [t.next EXCEPT ![s[m + 3]] = s[m + 2]] = Turned(s, c, m + 1).next
    <3>1. ASSUME NEW k \in Cells
          PROVE  [t.next EXCEPT ![s[m + 3]] = s[m + 2]][k] = Turned(s, c, m + 1).next[k]
      <4>1. (\E i \in 1..((m + 1) + 2) : k = s[i]) <=> k = s[m + 3] \/ \E i \in 1..(m + 2) : k = s[i]
        <5>1. 1..((m + 1) + 2) = (1..(m + 2)) \cup {m + 3}
          OBVIOUS
        <5>2. QED
          BY <5>1
      <4>2. Turned(s, c, m + 1).next[k] =
              IF \E i \in 1..((m + 1) + 2) : k = s[i] THEN Prev(s, k) ELSE c[k].next
        BY DEF Turned
      <4>3. t.next[k] = IF \E i \in 1..(m + 2) : k = s[i] THEN Prev(s, k) ELSE c[k].next
        BY DEF Turned
      <4>4. [t.next EXCEPT ![s[m + 3]] = s[m + 2]][k] = IF k = s[m + 3] THEN s[m + 2] ELSE t.next[k]
        BY DEF Turned
      <4>5. QED
        BY <4>1, <4>2, <4>3, <4>4, <2>4
    <3>2. QED
      BY <3>1 DEF Turned
  <2>6. NextTurn(t) = [a |-> s[m + 2], b |-> s[m + 3], c |-> Pointer(s, m + 3),
                       next |-> Turned(s, c, m + 1).next]
    BY <2>1, <2>3, <2>5 DEF NextTurn
  <2>7. (m + 1) + 1 = m + 2 /\ (m + 1) + 2 = m + 3
    OBVIOUS
  <2>8. QED
    BY <2>6, <2>7, <1>2 DEF Turned
<1>3. QED
  BY <1>1, <1>2, <1>0

(* Longest turns are enough to turn all. *)
LEMMA TurnIs ==
  ASSUME NEW s, Listed(head, cell, s), Len(s) >= 2
  PROVE  Turn[Longest] = Turned(s, cell, Len(s) - 2)
<1>0. Len(s) <= Longest /\ Longest \in Nat /\ Len(s) \in Nat
  BY ElementsCount DEF Listed
<1> DEFINE g == [n \in 0..Longest |-> Turned(s, cell, Turns(s, n))]
<1>1. g[0] = FirstTurn(head, cell)
  BY <1>0, FirstTurnIs DEF Turns
<1>2. ASSUME NEW n \in 1..Longest
      PROVE  Turned(s, cell, Turns(s, n)) = NextTurn(Turned(s, cell, Turns(s, n - 1)))
  <2>1. Turns(s, n - 1) \in Nat /\ Turns(s, n - 1) + 2 <= Len(s)
    BY <1>0 DEF Turns
  <2>2. Turns(s, n) = IF Turns(s, n - 1) + 2 < Len(s) THEN Turns(s, n - 1) + 1 ELSE Turns(s, n - 1)
    BY <1>0 DEF Turns
  <2>3. QED
    BY <2>1, <2>2, NextTurnIs
<1>3. Loop(head, cell, g)
  <2>1. \A n \in 0..Longest : n # 0 => n \in 1..Longest /\ n - 1 \in 0..Longest
    BY <1>0
  <2>2. \A n \in 0..Longest : g[n] = IF n = 0 THEN FirstTurn(head, cell) ELSE NextTurn(g[n - 1])
    BY <2>1, <1>1, <1>2
  <2>3. QED
    BY <2>2 DEF Loop
<1>4. Loop(head, cell, Turn)
  BY <1>3, Zenon DEF Loop, Turn, FirstTurn, NextTurn
<1> DEFINE Wrong == {n \in 0..Longest : Turn[n] # g[n]}
<1>5. ASSUME Wrong # {} PROVE FALSE
  <2>1. Wrong \subseteq Nat
    BY <1>0
  <2>2. PICK m \in Wrong : \A k \in Wrong : m <= k
    BY <2>1, <1>5, LeastNat
  <2>3. m # 0
    <3>1. 0 \in 0..Longest
      BY <1>0
    <3>2. Turn[0] = g[0]
      BY <3>1, <1>1, <1>4 DEF Loop
    <3>3. QED
      BY <3>2, <2>2
  <2>4. m \in 1..Longest /\ m \in 0..Longest /\ m - 1 \in 0..Longest /\ m - 1 \notin Wrong
    BY <2>2, <2>3, <1>0
  <2>5. Turn[m - 1] = g[m - 1]
    BY <2>4
  <2>6. Turn[m] = NextTurn(Turn[m - 1]) /\ g[m] = NextTurn(g[m - 1])
    BY <2>4, <2>3, <1>4, <1>3 DEF Loop
  <2>7. QED
    BY <2>2, <2>5, <2>6
<1>6. Longest \in 0..Longest /\ Turns(s, Longest) = Len(s) - 2
  BY <1>0 DEF Turns
<1>7. QED
  BY <1>5, <1>6

-----------------------------------------------------------------------------
(* What the functions of queue.c make of the list. *)

CellType == [value : Values \cup {FILL}, next : Pointers \cup {FILL}]

LEMMA PushFront ==
  ASSUME NEW h, NEW c \in [Cells -> CellType], NEW s, Listed(h, c, s),
         NEW k \in Cells \ Elements(s), NEW v
  PROVE  Listed(k, [c EXCEPT ![k] = [value |-> v, next |-> h]], <<k>> \o s)
<1> DEFINE d == [c EXCEPT ![k] = [value |-> v, next |-> h]]
           t == <<k>> \o s
<1>0. s \in Seq(Cells) /\ Len(s) \in Nat /\ \A i \in 1..Len(s) : s[i] \in Cells /\ s[i] # k
  BY DEF Listed, Elements
<1>1. /\ t \in Seq(Cells) /\ Len(t) = Len(s) + 1 /\ t[1] = k /\ t # <<>>
      /\ \A i \in 1..Len(t) : i # 1 => i - 1 \in 1..Len(s) /\ t[i] = s[i - 1]
  BY <1>0
<1>2. ASSUME NEW i \in 1..Len(t)
      PROVE  d[t[i]].next = IF i < Len(t) THEN t[i + 1] ELSE NULL
  <2>1. CASE i = 1
    <3>1. d[t[i]].next = h
      BY <2>1, <1>1
    <3>2. Len(s) # 0 => t[2] = s[1] /\ s # <<>>
      BY <1>0, <1>1
    <3>3. Len(s) = 0 => s = <<>>
      BY <1>0
    <3>4. QED
      BY <3>1, <3>2, <3>3, <2>1, <1>0, <1>1 DEF Listed
  <2>2. CASE i # 1
    <3>1. i - 1 \in 1..Len(s) /\ t[i] = s[i - 1] /\ s[i - 1] # k /\ s[i - 1] \in Cells
      BY <2>2, <1>0, <1>1
    <3>2. d[t[i]].next = c[s[i - 1]].next
      BY <3>1
    <3>3. i < Len(t) => t[i + 1] = s[i]
      <4>1. i < Len(t) => i + 1 \in 1..Len(t) /\ i + 1 # 1 /\ (i + 1) - 1 = i
        BY <1>0, <1>1
      <4>2. QED
        BY <4>1, <1>1
    <3>4. c[s[i - 1]].next = IF i - 1 < Len(s) THEN s[(i - 1) + 1] ELSE NULL
      BY <3>1 DEF Listed
    <3>5. (i - 1) + 1 = i /\ (i - 1 < Len(s) <=> i < Len(t))
      BY <1>0, <1>1
    <3>6. QED
      BY <3>2, <3>3, <3>4, <3>5
  <2>3. QED
    BY <2>1, <2>2
<1>3. ASSUME NEW i \in 1..Len(t), NEW j \in 1..Len(t), t[i] = t[j] PROVE i = j
  BY <1>0, <1>1, <1>3 DEF Listed
<1>4. QED
  BY <1>1, <1>2, <1>3 DEF Listed

LEMMA PushBack ==
  ASSUME NEW h, NEW c \in [Cells -> CellType], NEW s, Listed(h, c, s), s # <<>>,
         NEW k \in Cells \ Elements(s), NEW v,
         NEW d, LET new == [c EXCEPT ![k] = [value |-> v, next |-> NULL]] IN
                d = [new EXCEPT ![s[Len(s)]] = [new[s[Len(s)]] EXCEPT !.next = k]]
  PROVE  Listed(h, d, Append(s, k))
<1> DEFINE t == Append(s, k)
<1>0. /\ s \in Seq(Cells) /\ Len(s) \in Nat \ {0} /\ h = s[1]
      /\ \A i \in 1..Len(s) : s[i] \in Cells /\ s[i] # k
  BY DEF Listed, Elements
<1>1. /\ t \in Seq(Cells) /\ Len(t) = Len(s) + 1 /\ t[Len(s) + 1] = k /\ t # <<>>
      /\ \A i \in 1..Len(s) : t[i] = s[i]
  BY <1>0
<1>2. ASSUME NEW i \in 1..Len(t)
      PROVE  d[t[i]].next = IF i < Len(t) THEN t[i + 1] ELSE NULL
  <2>0. s[Len(s)] # k /\ s[Len(s)] \in Cells
    BY <1>0
  <2>1. CASE i = Len(t)
    BY <2>0, <2>1, <1>0, <1>1
  <2>2. CASE i = Len(s)
    <3>1. d[s[Len(s)]].next = k
      BY <2>0
    <3>2. QED
      BY <3>1, <2>2, <1>0, <1>1
  <2>3. CASE i < Len(s)
    <3>1. i \in 1..Len(s) /\ i + 1 \in 1..Len(s) /\ Len(s) \in 1..Len(s)
      BY <2>3, <1>0
    <3>2. s[i] # s[Len(s)]
      BY <3>1, <2>3 DEF Listed
    <3>3. d[s[i]].next = c[s[i]].next
      BY <3>1, <3>2, <1>0
    <3>4. QED
      BY <3>1, <3>3, <2>3, <1>1, <1>0 DEF Listed
  <2>4. QED
    BY <2>1, <2>2, <2>3, <1>0, <1>1
<1>3. ASSUME NEW i \in 1..Len(t), NEW j \in 1..Len(t), t[i] = t[j] PROVE i = j
  BY <1>0, <1>1, <1>3 DEF Listed
<1>4. t[1] = h
  BY <1>0, <1>1
<1>5. QED
  BY <1>1, <1>2, <1>3, <1>4 DEF Listed

LEMMA PopFront ==
  ASSUME NEW h, NEW c \in [Cells -> CellType], NEW s, Listed(h, c, s), s # <<>>
  PROVE  /\ Listed(c[h].next, [c EXCEPT ![h] = Filled], Tail(s))
         /\ Elements(Tail(s)) = Elements(s) \ {h}
<1> DEFINE t == Tail(s)
<1>0. /\ s \in Seq(Cells) /\ Len(s) \in Nat \ {0} /\ h = s[1] /\ h \in Cells
      /\ \A i \in 1..Len(s) : s[i] \in Cells
  BY DEF Listed
<1>1. /\ t \in Seq(Cells) /\ Len(t) = Len(s) - 1
      /\ \A i \in 1..Len(t) : t[i] = s[i + 1] /\ i + 1 \in 1..Len(s)
  BY <1>0
<1>2. \A i \in 1..Len(t) : t[i] # h
  BY <1>0, <1>1 DEF Listed
<1>3. ASSUME NEW i \in 1..Len(t)
      PROVE  [c EXCEPT ![h] = Filled][t[i]].next = IF i < Len(t) THEN t[i + 1] ELSE NULL
  <2>1. [c EXCEPT ![h] = Filled][t[i]].next = c[s[i + 1]].next
    BY <1>0, <1>1, <1>2
  <2>2. c[s[i + 1]].next = IF i + 1 < Len(s) THEN s[(i + 1) + 1] ELSE NULL
    BY <1>1 DEF Listed
  <2>3. i < Len(t) => t[i + 1] = s[(i + 1) + 1]
    BY <1>0, <1>1
  <2>4. QED
    BY <2>1, <2>2, <2>3, <1>0, <1>1
<1>4. \A i, j \in 1..Len(t) : t[i] = t[j] => i = j
  BY <1>0, <1>1 DEF Listed
<1>5. c[h].next = IF t = <<>> THEN NULL ELSE t[1]
  <2>1. c[h].next = IF 1 < Len(s) THEN s[2] ELSE NULL
    BY <1>0 DEF Listed
  <2>2. t = <<>> <=> Len(s) = 1
    <3>1. t = <<>> <=> Len(t) = 0
      BY <1>1, EmptySeq
    <3>2. QED
      BY <3>1, <1>0, <1>1
  <2>3. t # <<>> => t[1] = s[2]
    <3>1. t # <<>> => 1 \in 1..Len(t)
      BY <1>1
    <3>2. 1 + 1 = 2
      OBVIOUS
    <3>3. QED
      BY <3>1, <3>2, <1>1
  <2>4. QED
    BY <2>1, <2>2, <2>3, <1>0
<1>6. Elements(t) = Elements(s) \ {h}
  <2>1. ASSUME NEW i \in 1..Len(s), s[i] # h PROVE i - 1 \in 1..Len(t) /\ t[i - 1] = s[i]
    <3>1. i # 1
      BY <2>1, <1>0
    <3>2. i - 1 \in 1..Len(t) /\ (i - 1) + 1 = i
      BY <3>1, <1>0, <1>1
    <3>3. QED
      BY <3>2, <1>1
  <2>2. Elements(s) \ {h} \subseteq Elements(t)
    BY <2>1 DEF Elements
  <2>3. Elements(t) \subseteq Elements(s) \ {h}
    BY <1>1, <1>2 DEF Elements
  <2>4. QED
    BY <2>2, <2>3
<1>7. QED
  BY <1>1, <1>3, <1>4, <1>5, <1>6 DEF Listed

Reversed(s) == [i \in 1..Len(s) |-> s[Len(s) + 1 - i]]

LEMMA TurnedRound ==
  ASSUME NEW h, NEW c \in [Cells -> CellType], NEW s, Listed(h, c, s), Len(s) >= 2,
         NEW d, \A k \in Cells : d[k].next = Turned(s, c, Len(s) - 2).next[k]
  PROVE  /\ Listed(s[Len(s)], d, Reversed(s)) /\ Len(Reversed(s)) = Len(s)
         /\ Reversed(s)[Len(s)] = h
         /\ Elements(Reversed(s)) = Elements(s)
<1> DEFINE t == Reversed(s)
<1>0. /\ s \in Seq(Cells) /\ Len(s) \in Nat \ {0} /\ h = s[1]
      /\ \A i \in 1..Len(s) : s[i] \in Cells
  BY DEF Listed
<1>1. /\ t \in Seq(Cells) /\ Len(t) = Len(s) /\ t # <<>>
      /\ \A i \in 1..Len(s) : t[i] = s[Len(s) + 1 - i] /\ Len(s) + 1 - i \in 1..Len(s)
  BY <1>0 DEF Reversed
<1>2. ASSUME NEW i \in 1..Len(s) PROVE d[s[i]].next = IF i = 1 THEN NULL ELSE s[i - 1]
  <2>1. i \in 1..((Len(s) - 2) + 2)
    BY <1>0
  <2>2. d[s[i]].next = Prev(s, s[i])
    BY <2>1, <1>0 DEF Turned
  <2>3. QED
    BY <2>2, PrevIs
<1>3. ASSUME NEW i \in 1..Len(t)
      PROVE  d[t[i]].next = IF i < Len(t) THEN t[i + 1] ELSE NULL
  <2> DEFINE j == Len(s) + 1 - i
  <2>1. j \in 1..Len(s) /\ t[i] = s[j]
    BY <1>1
  <2>2. d[s[j]].next = IF j = 1 THEN NULL ELSE s[j - 1]
    BY <2>1, <1>2
  <2>3. j = 1 <=> i = Len(t)
    BY <1>0, <1>1
  <2>4. i < Len(t) => t[i + 1] = s[Len(s) + 1 - (i + 1)] /\ Len(s) + 1 - (i + 1) = j - 1
    BY <1>0, <1>1
  <2>5. QED
    BY <2>1, <2>2, <2>3, <2>4, <1>0, <1>1, SMTT(40)
<1>4. \A i, j \in 1..Len(t) : t[i] = t[j] => i = j
  <2>1. TAKE i, j \in 1..Len(t)
  <2>2. HAVE t[i] = t[j]
  <2>3. Len(s) + 1 - i = Len(s) + 1 - j
    <3>1. i \in 1..Len(s) /\ j \in 1..Len(s)
      BY <1>1
    <3>2. s[Len(s) + 1 - i] = s[Len(s) + 1 - j]
      BY <3>1, <2>2, <1>1
    <3>3. Len(s) + 1 - i \in 1..Len(s) /\ Len(s) + 1 - j \in 1..Len(s)
      BY <3>1, <1>1
    <3>4. QED
      BY <3>2, <3>3 DEF Listed
  <2>4. QED
    BY <2>3, <1>0, <1>1
<1>5. t[1] = s[Len(s)] /\ t[Len(s)] = h
  <2>1. Len(s) + 1 - 1 = Len(s) /\ Len(s) + 1 - Len(s) = 1 /\ 1 \in 1..Len(s) /\ Len(s) \in 1..Len(s)
    BY <1>0
  <2>2. QED
    BY <2>1, <1>0, <1>1
<1>6. Elements(t) = Elements(s)
  <2>1. \A i \in 1..Len(s) : t[Len(s) + 1 - i] = s[i]
    <3>1. \A i \in 1..Len(s) : Len(s) + 1 - (Len(s) + 1 - i) = i /\ Len(s) + 1 - i \in 1..Len(s)
      BY <1>0
    <3>2. QED
      BY <3>1, <1>1
  <2>2. Elements(s) \subseteq Elements(t)
    <3>1. \A i \in 1..Len(s) : Len(s) + 1 - i \in 1..Len(t)
      BY <1>0, <1>1
    <3>2. QED
      BY <2>1, <3>1 DEF Elements
  <2>3. Elements(t) \subseteq Elements(s)
    <3>1. \A i \in 1..Len(t) : t[i] = s[Len(s) + 1 - i] /\ Len(s) + 1 - i \in 1..Len(s)
      BY <1>1
    <3>2. QED
      BY <3>1 DEF Elements
  <2>4. QED
    BY <2>2, <2>3
<1>7. QED
  BY <1>1, <1>3, <1>4, <1>5, <1>6 DEF Listed

-----------------------------------------------------------------------------
(* The invariant. *)

(* The queue is the list s: its fields agree with it, and its cells are all
   that is allocated. *)
Shape(s) ==
  /\ Listed(head, cell, s)
  /\ size = Len(s)
  /\ s # <<>> => tail = s[Len(s)]
  /\ allocated = Elements(s)
  /\ \A c \in allocated : cell[c].value \in Values
  /\ q \/ s = <<>>

(* The driver's count is right until the quit command has freed the queue. *)
Counted == quit_flag \/ qcnt = size

(* The inductive invariant. TypeOK alone allows lists that end in cells that
   are not allocated, or in a cycle; Shape rules them out, and both the walk
   of q_free and the driver's complaints depend on that. *)
QueueInv == TypeOK /\ NoFalseAlarm /\ Counted /\ \E s : Shape(s)

(* A walk from head sees just the list. *)
LEMMA ReachIs ==
  ASSUME NEW s, Shape(s)
  PROVE  /\ Reach = Elements(s) /\ Walkable
         /\ size = Cardinality(Reach) /\ size <= Longest
         /\ \A n \in 0..Longest : Nth[n] = Pointer(s, n)
<1>1. Listed(head, cell, s) /\ s \in Seq(Cells) /\ Len(s) \in Nat /\ \A i \in 1..Len(s) : s[i] \in Cells
  BY DEF Shape, Listed
<1>2. Len(s) <= Longest /\ Longest \in Nat /\ Cardinality(Elements(s)) = Len(s)
  BY <1>1, ElementsCount DEF Listed
<1>3. \A n \in 0..Longest : Nth[n] = Pointer(s, n)
  BY <1>1, NthIs
<1>4. Walkable
  BY <1>2, <1>3 DEF Walkable, Pointer
<1>5. Reach \subseteq Elements(s)
  <2>1. ASSUME NEW n \in 0..Longest, Nth[n] \in Cells PROVE Nth[n] \in Elements(s)
    <3>1. Nth[n] = Pointer(s, n) /\ n < Len(s)
      BY <2>1, <1>3, <1>1 DEF Pointer
    <3>2. n + 1 \in 1..Len(s)
      BY <3>1, <1>1
    <3>3. QED
      BY <3>1, <3>2 DEF Pointer, Elements
  <2>2. QED
    BY <2>1 DEF Reach
<1>6. Elements(s) \subseteq Reach
  <2>1. ASSUME NEW i \in 1..Len(s) PROVE i - 1 \in 0..Longest /\ Nth[i - 1] = s[i]
    <3>1. i - 1 \in 0..Longest /\ i - 1 < Len(s) /\ (i - 1) + 1 = i
      BY <1>1, <1>2
    <3>2. QED
      BY <3>1, <1>3 DEF Pointer
  <2>2. QED
    BY <2>1, <1>1 DEF Reach, Elements
<1>7. Reach = Elements(s)
  BY <1>5, <1>6
<1>8. QED
  BY <1>2, <1>3, <1>4, <1>7 DEF Shape

(* One lemma per function of queue.c: the list after it. *)
LEMMA FreeEmpties ==
  ASSUME NEW s, Shape(s), TypeOK, q_free
  PROVE  allocated' = {} /\ cell' \in [Cells -> CellType]
<1>1. Reach = Elements(s)
  BY ReachIs
<1>2. QED
  BY <1>1 DEF Shape, q_free, TypeOK, CellType, Filled

LEMMA NewIsEmpty ==
  ASSUME allocated' = {}, cell' \in [Cells -> CellType], NEW rval \in BOOLEAN, q_new(rval)
  PROVE  Shape(<<>>)' /\ size' = 0 /\ q' \in BOOLEAN /\ head' \in Pointers /\ tail' \in Pointers
<1>1. Elements(<<>>) = {}
  BY DEF Elements
<1>2. Listed(NULL, cell', <<>>)
  BY DEF Listed
<1>3. QED
  BY <1>1, <1>2 DEF Shape, q_new, Pointers

LEMMA InsertHeadPushes ==
  ASSUME NEW s, Shape(s), TypeOK, NEW v \in Values, q_insert_head(v, TRUE)
  PROVE  \E k \in Cells : /\ Shape(<<k>> \o s)' /\ k \notin Elements(s)
                          /\ cell'[k].value = v /\ \A c \in Elements(s) : cell'[c].value = cell[c].value
<1>0. s \in Seq(Cells) /\ Len(s) \in Nat /\ cell \in [Cells -> CellType]
  BY DEF Shape, Listed, TypeOK, CellType
<1>1. PICK k \in Cells \ allocated :
        /\ q
        /\ allocated' = allocated \cup {k}
        /\ cell' = [cell EXCEPT ![k] = [value |-> v, next |-> head]]
        /\ head' = k
        /\ tail' = IF size = 0 THEN k ELSE tail
        /\ size' = size + 1
        /\ UNCHANGED q
  BY DEF q_insert_head
<1> DEFINE t == <<k>> \o s
<1>2. k \notin Elements(s)
  BY <1>1 DEF Shape
<1>3. Listed(head', cell', t)
  BY <1>0, <1>1, <1>2, PushFront DEF Shape
<1>4. /\ t \in Seq(Cells) /\ Len(t) = Len(s) + 1 /\ t[1] = k /\ t # <<>>
      /\ \A i \in 1..Len(s) : t[i + 1] = s[i] /\ i + 1 \in 1..Len(t)
      /\ \A i \in 1..Len(t) : i # 1 => i - 1 \in 1..Len(s) /\ t[i] = s[i - 1]
  BY <1>0
<1>5. Elements(t) = Elements(s) \cup {k}
  <2>1. Elements(s) \cup {k} \subseteq Elements(t)
    <3>1. 1 \in 1..Len(t)
      BY <1>0, <1>4
    <3>2. k \in Elements(t)
      BY <3>1, <1>4 DEF Elements
    <3>3. \A i \in 1..Len(s) : s[i] \in Elements(t)
      BY <1>4 DEF Elements
    <3>4. QED
      BY <3>2, <3>3 DEF Elements
  <2>2. Elements(t) \subseteq Elements(s) \cup {k}
    BY <1>4 DEF Elements
  <2>3. QED
    BY <2>1, <2>2
<1>6. tail' = t[Len(t)]
  <2>1. CASE s = <<>>
    BY <2>1, <1>1, <1>4 DEF Shape
  <2>2. CASE s # <<>>
    <3>1. Len(s) \in 1..Len(s) /\ size # 0
      BY <2>2, <1>0 DEF Shape
    <3>2. QED
      BY <3>1, <2>2, <1>1, <1>4 DEF Shape
  <2>3. QED
    BY <2>1, <2>2
<1>7. \A c \in Elements(s) : cell'[c].value = cell[c].value
  BY <1>1, <1>2, <1>0 DEF Elements
<1>8. cell'[k].value = v
  BY <1>0, <1>1
<1>9. allocated' = Elements(t) /\ size' = Len(t) /\ q'
  BY <1>1, <1>4, <1>5 DEF Shape
<1>10. \A c \in allocated' : cell'[c].value \in Values
  BY <1>1, <1>7, <1>8 DEF Shape
<1>11. QED
  BY <1>2, <1>3, <1>6, <1>7, <1>8, <1>9, <1>10 DEF Shape

LEMMA InsertTailPushes ==
  ASSUME NEW s, Shape(s), TypeOK, NEW v \in Values, q_insert_tail(v, TRUE), size > 0 \/ tail = NULL
  PROVE  \E k \in Cells : /\ Shape(Append(s, k))' /\ k \notin Elements(s)
                          /\ cell'[k].value = v /\ \A c \in Elements(s) : cell'[c].value = cell[c].value
<1>0. /\ s \in Seq(Cells) /\ Len(s) \in Nat /\ cell \in [Cells -> CellType]
      /\ \A i \in 1..Len(s) : s[i] \in Cells
  BY DEF Shape, Listed, TypeOK, CellType
<1>1. PICK k \in Cells \ allocated :
        /\ q
        /\ allocated' = allocated \cup {k}
        /\ LET new == [cell EXCEPT ![k] = [value |-> v, next |-> NULL]] IN
           cell' = IF tail = NULL THEN new ELSE [new EXCEPT ![tail] = [new[tail] EXCEPT !.next = k]]
        /\ head' = IF tail = NULL THEN k ELSE head
        /\ tail' = k
        /\ size' = size + 1
        /\ UNCHANGED q
  BY DEF q_insert_tail
<1> DEFINE t == Append(s, k)
<1>2. k \notin Elements(s)
  BY <1>1 DEF Shape
<1>3. s = <<>> <=> tail = NULL
  <2>1. s # <<>> => s[Len(s)] \in Cells
    BY <1>0
  <2>2. s = <<>> => ~(size > 0)
    BY DEF Shape
  <2>3. QED
    BY <2>1, <2>2 DEF Shape
<1>4. /\ t \in Seq(Cells) /\ Len(t) = Len(s) + 1 /\ t[Len(s) + 1] = k /\ t # <<>>
      /\ \A i \in 1..Len(s) : t[i] = s[i] /\ i \in 1..Len(t)
      /\ \A i \in 1..Len(t) : i # Len(s) + 1 => i \in 1..Len(s)
  <2>1. t \in Seq(Cells) /\ Len(t) = Len(s) + 1 /\ t[Len(s) + 1] = k
    BY <1>0
  <2>2. \A i \in 1..Len(s) : t[i] = s[i] /\ i \in 1..Len(t)
    BY <1>0
  <2>3. t # <<>>
    BY <2>1, <1>0, EmptySeq
  <2>4. QED
    BY <2>1, <2>2, <2>3, <1>0
<1>5. Listed(head', cell', t)
  <2>1. CASE s = <<>>
    <3>1. head' = k /\ cell'[k].next = NULL /\ t = <<k>>
      BY <2>1, <1>0, <1>1, <1>3
    <3>2. QED
      BY <3>1 DEF Listed
  <2>2. CASE s # <<>>
    <3>1. tail = s[Len(s)] /\ head' = head
      BY <2>2, <1>1, <1>3 DEF Shape
    <3>2. LET new == [cell EXCEPT ![k] = [value |-> v, next |-> NULL]] IN
          cell' = [new EXCEPT ![s[Len(s)]] = [new[s[Len(s)]] EXCEPT !.next = k]]
      BY <2>2, <3>1, <1>1, <1>3
    <3>3. Listed(head, cell', t)
      BY <3>2, <2>2, <1>0, <1>2, <1>1, PushBack DEF Shape
    <3>4. QED
      BY <3>1, <3>3
  <2>3. QED
    BY <2>1, <2>2
<1>6. Elements(t) = Elements(s) \cup {k}
  <2>1. Elements(s) \cup {k} \subseteq Elements(t)
    <3>1. Len(s) + 1 \in 1..Len(t)
      BY <1>0, <1>4
    <3>2. QED
      BY <3>1, <1>4 DEF Elements
  <2>2. Elements(t) \subseteq Elements(s) \cup {k}
    BY <1>4 DEF Elements
  <2>3. QED
    BY <2>1, <2>2
<1>7. \A c \in Cells : c # k => cell'[c].value = cell[c].value
  BY <1>0, <1>1
<1>8. cell'[k].value = v
  <2>1. tail # NULL => tail # k
    <3>1. s # <<>> => s[Len(s)] \in Elements(s)
      BY <1>0 DEF Elements
    <3>2. QED
      BY <3>1, <1>2, <1>3 DEF Shape
  <2>2. QED
    BY <2>1, <1>0, <1>1
<1>9. allocated' = Elements(t) /\ size' = Len(t) /\ q' /\ tail' = t[Len(t)]
  BY <1>1, <1>4, <1>6 DEF Shape
<1>10. \A c \in Elements(s) : cell'[c].value = cell[c].value
  BY <1>0, <1>2, <1>7 DEF Elements
<1>11. \A c \in allocated' : cell'[c].value \in Values
  BY <1>1, <1>8, <1>10 DEF Shape
<1>12. QED
  BY <1>2, <1>5, <1>8, <1>9, <1>10, <1>11 DEF Shape

LEMMA RemovePops ==
  ASSUME NEW s, Shape(s), TypeOK, NEW vp \in BOOLEAN, q_remove_head(vp, TRUE)
  PROVE  /\ s # <<>> /\ Shape(Tail(s))' /\ size' = size - 1 /\ size > 0
         /\ removed' = IF vp THEN cell[s[1]].value ELSE removed
         /\ removed' \in Values
         /\ \A c \in Elements(s) : c # s[1] => cell'[c].value = cell[c].value
<1>0. /\ s \in Seq(Cells) /\ Len(s) \in Nat /\ cell \in [Cells -> CellType]
      /\ \A i \in 1..Len(s) : s[i] \in Cells
  BY DEF Shape, Listed, TypeOK, CellType
<1>1. /\ removed' = IF vp THEN cell[head].value ELSE removed
      /\ head' = cell[head].next
      /\ allocated' = allocated \ {head}
      /\ cell' = [cell EXCEPT ![head] = Filled]
      /\ size' = size - 1
      /\ UNCHANGED <<q, tail>>
      /\ q /\ head # NULL
  BY DEF q_remove_head
<1>2. s # <<>> /\ head = s[1] /\ Len(s) \in Nat \ {0} /\ 1 \in 1..Len(s)
  BY <1>0, <1>1 DEF Shape, Listed
<1>3. Listed(head', cell', Tail(s)) /\ Elements(Tail(s)) = Elements(s) \ {head}
  BY <1>0, <1>1, <1>2, PopFront DEF Shape
<1>4. Tail(s) # <<>> => Tail(s)[Len(Tail(s))] = s[Len(s)]
  BY <1>0, <1>2
<1>5. size' = Len(Tail(s)) /\ size > 0
  BY <1>0, <1>1, <1>2 DEF Shape
<1>6. head \in allocated
  BY <1>2 DEF Shape, Elements
<1>7. \A c \in Cells : c # head => cell'[c].value = cell[c].value
  BY <1>0, <1>1
<1>8. \A c \in allocated' : cell'[c].value \in Values
  <2>1. \A c \in allocated' : c \in Cells /\ c # head /\ c \in allocated
    BY <1>1 DEF TypeOK
  <2>2. QED
    BY <2>1, <1>7 DEF Shape
<1>9. tail' = tail /\ q'
  BY <1>1
<1>10. Shape(Tail(s))'
  BY <1>1, <1>2, <1>3, <1>4, <1>5, <1>8, <1>9 DEF Shape
<1>11. \A c \in Elements(s) : c \in Cells
  BY <1>0 DEF Elements
<1>12. removed' \in Values
  BY <1>1, <1>6 DEF Shape, TypeOK
<1>13. QED
  BY <1>1, <1>2, <1>5, <1>7, <1>10, <1>11, <1>12

LEMMA ReverseTurns ==
  ASSUME NEW s, Shape(s), TypeOK, q_reverse
  PROVE  /\ Shape(Reversed(s))'
         /\ \A c \in Cells : cell'[c].value = cell[c].value
         /\ cell' \in [Cells -> CellType]
         /\ size' = size /\ q' = q /\ head' \in Pointers /\ tail' \in Pointers
<1>0. /\ s \in Seq(Cells) /\ Len(s) \in Nat /\ cell \in [Cells -> CellType]
      /\ \A i \in 1..Len(s) : s[i] \in Cells
  BY DEF Shape, Listed, TypeOK, CellType
<1>a. Len(s) <= Longest /\ Longest \in Nat /\ \A n \in 0..Longest : Nth[n] = Pointer(s, n)
  BY ReachIs, <1>0, ElementsCount DEF Shape, Listed
<1>1. CASE q /\ head # NULL /\ Nth[1] # NULL
  <2>1. Len(s) >= 2
    <3>1. s # <<>>
      BY <1>1 DEF Shape, Listed
    <3>2. Len(s) >= 1
      BY <3>1, <1>0
    <3>3. 1 \in 0..Longest
      BY <3>2, <1>0, <1>a
    <3>4. Pointer(s, 1) # NULL
      BY <3>3, <1>1, <1>a
    <3>5. QED
      BY <3>4, <1>0 DEF Pointer
  <2>2. /\ cell' = [k \in Cells |-> [cell[k] EXCEPT !.next = Turn[Longest].next[k]]]
        /\ head' = tail /\ tail' = head
        /\ UNCHANGED <<q, size, allocated>>
    BY <1>1 DEF q_reverse
  <2>3. Turn[Longest] = Turned(s, cell, Len(s) - 2)
    BY <2>1, TurnIs DEF Shape
  <2>4. \A k \in Cells : cell'[k].next = Turned(s, cell, Len(s) - 2).next[k] /\ cell'[k].value = cell[k].value
    BY <2>2, <2>3, <1>0 DEF CellType
  <2>5. /\ Listed(s[Len(s)], cell', Reversed(s)) /\ Len(Reversed(s)) = Len(s)
        /\ Reversed(s)[Len(s)] = head
        /\ Elements(Reversed(s)) = Elements(s)
    BY <2>1, <2>4, <1>0, TurnedRound DEF Shape
  <2>6. s # <<>> /\ tail = s[Len(s)]
    BY <2>1 DEF Shape
  <2>7. ASSUME NEW k \in Cells PROVE cell'[k] \in CellType
    <3>1. Turned(s, cell, Len(s) - 2).next[k] \in Pointers \cup {FILL}
      <4>1. CASE \E i \in 1..((Len(s) - 2) + 2) : k = s[i]
        <5>1. PICK i \in 1..Len(s) : k = s[i]
          BY <4>1, <1>0
        <5>2. Prev(s, k) = IF i = 1 THEN NULL ELSE s[i - 1]
          BY <5>1, PrevIs DEF Shape
        <5>3. Prev(s, k) \in Pointers
          BY <5>1, <5>2, <1>0 DEF Pointers
        <5>4. QED
          BY <4>1, <5>3 DEF Turned
      <4>2. CASE ~ \E i \in 1..((Len(s) - 2) + 2) : k = s[i]
        BY <4>2, <1>0 DEF Turned, CellType
      <4>3. QED
        BY <4>1, <4>2
    <3>2. QED
      BY <3>1, <2>2, <2>3, <1>0 DEF CellType
  <2>8. cell' \in [Cells -> CellType]
    BY <2>2, <2>7
  <2>9. \A c \in allocated' : cell'[c].value \in Values
    BY <2>2, <2>4 DEF Shape, TypeOK
  <2>10. Shape(Reversed(s))'
    BY <2>2, <2>5, <2>6, <2>9, <1>1 DEF Shape
  <2>11. QED
    BY <2>2, <2>4, <2>8, <2>10 DEF TypeOK
<1>2. CASE ~(q /\ head # NULL /\ Nth[1] # NULL)
  <2>1. UNCHANGED <<queue, heap>>
    BY <1>2 DEF q_reverse
  <2>2. Len(s) < 2
    <3>1. SUFFICES ASSUME Len(s) >= 2 PROVE FALSE
      BY <1>0
    <3>2. s # <<>> /\ head = s[1] /\ q /\ 1 \in 0..Longest
      BY <3>1, <1>0, <1>a DEF Shape, Listed
    <3>3. head # NULL /\ s[2] \in Cells
      BY <3>1, <3>2, <1>0
    <3>4. Nth[1] = s[2]
      BY <3>1, <3>2, <1>a DEF Pointer
    <3>5. QED
      BY <3>2, <3>3, <3>4, <1>2
  <2>3. Reversed(s) = s
    BY <2>2, <1>0 DEF Reversed
  <2>4. QED
    BY <2>1, <2>3, <1>0 DEF queue, heap, Shape, TypeOK
<1>3. QED
  BY <1>1, <1>2

-----------------------------------------------------------------------------
(* The commands keep the invariant. *)

(* The driver's verdict. *)
LEMMA OutcomeTypes ==
  ASSUME TypeOK, NEW rval \in BOOLEAN, NEW n \in Int, NEW strict \in BOOLEAN, Outcome(rval, n, strict)
  PROVE  /\ fail_count' \in 0..FailLimit /\ report' \in {"none", "failed"}
         /\ qcnt' = IF rval THEN qcnt + n ELSE qcnt
<1>1. CASE rval
  BY <1>1 DEF Outcome, TypeOK
<1>2. CASE ~rval
  BY <1>2 DEF Outcome, TypeOK
<1>3. QED
  BY <1>1, <1>2

LEMMA ShapeTypes ==
  ASSUME NEW s, Shape(s)
  PROVE  /\ head \in Pointers /\ size \in Nat /\ allocated \subseteq Cells
         /\ s # <<>> => tail \in Cells
<1>1. s \in Seq(Cells) /\ Len(s) \in Nat /\ \A i \in 1..Len(s) : s[i] \in Cells
  BY DEF Shape, Listed
<1>2. QED
  BY <1>1 DEF Shape, Listed, Pointers, Elements

(* The same of the next state. *)
LEMMA ShapeTypesNext ==
  ASSUME NEW s, Shape(s)'
  PROVE  /\ head' \in Pointers /\ size' \in Nat /\ allocated' \subseteq Cells
         /\ s # <<>> => tail' \in Cells
<1>1. s \in Seq(Cells) /\ Len(s) \in Nat /\ \A i \in 1..Len(s) : s[i] \in Cells
  BY DEF Shape, Listed
<1>2. QED
  BY <1>1 DEF Shape, Listed, Pointers, Elements

LEMMA NothingToFree ==
  ASSUME NEW s, Shape(s), ~q
  PROVE  allocated = {} /\ s = <<>>
BY DEF Shape, Elements

LEMMA StartsRight == Init => QueueInv
<1>1. Listed(NULL, [c \in Cells |-> Filled], <<>>)
  BY DEF Listed
<1>2. Elements(<<>>) = {}
  BY DEF Elements
<1>3. Init => Shape(<<>>)
  BY <1>1, <1>2 DEF Init, Shape
<1>4. Filled \in [value : Values \cup {FILL}, next : Pointers \cup {FILL}]
  BY DEF Filled
<1>5. ASSUME Init PROVE TypeOK
  <2>1. q \in BOOLEAN /\ quit_flag \in BOOLEAN
    BY <1>5, Zenon DEF Init
  <2>2. head \in Pointers /\ tail \in Pointers /\ size \in Nat /\ qcnt \in Nat /\ fail_count \in 0..FailLimit
    BY <1>5 DEF Init, Pointers
  <2>3. cell \in [Cells -> [value : Values \cup {FILL}, next : Pointers \cup {FILL}]]
    BY <1>4, <1>5 DEF Init
  <2>4. allocated \subseteq Cells /\ removed \in Values /\ report \in Reports
    BY <1>5 DEF Init, Reports
  <2>5. QED
    BY <2>1, <2>2, <2>3, <2>4 DEF TypeOK
<1>6. Init => NoFalseAlarm /\ Counted
  BY DEF Init, NoFalseAlarm, Counted
<1>7. QED
  BY <1>3, <1>5, <1>6 DEF QueueInv

LEMMA EmptyStep ==
  ASSUME QueueInv, (IF q THEN q_free ELSE UNCHANGED heap)
  PROVE  allocated' = {} /\ cell' \in [Cells -> CellType]
<1>1. PICK s : Shape(s)
  BY DEF QueueInv
<1>2. CASE q
  BY <1>1, <1>2, FreeEmpties DEF QueueInv
<1>3. CASE ~q
  BY <1>1, <1>3, NothingToFree DEF QueueInv, TypeOK, CellType, heap
<1>4. QED
  BY <1>2, <1>3

LEMMA NewStep == ASSUME QueueInv, do_new PROVE QueueInv'
<1>1. PICK rval \in BOOLEAN : q_new(rval)
  BY DEF do_new
<1>2. allocated' = {} /\ cell' \in [Cells -> CellType]
  <2>1. IF q THEN q_free ELSE UNCHANGED heap
    BY DEF do_new
  <2>2. QED
    BY <2>1, EmptyStep
<1>3. Shape(<<>>)' /\ size' = 0 /\ q' \in BOOLEAN /\ head' \in Pointers /\ tail' \in Pointers
  BY <1>1, <1>2, NewIsEmpty
<1>4. report' = "none" /\ qcnt' = 0 /\ UNCHANGED <<removed, fail_count, quit_flag>>
  BY <1>2 DEF do_new, Leak
<1>5. QED
  BY <1>2, <1>3, <1>4 DEF QueueInv, TypeOK, CellType, NoFalseAlarm, Counted, Reports

LEMMA FreeStep == ASSUME QueueInv, do_free \/ queue_quit PROVE QueueInv'
<1>1. q_new(FALSE) /\ (IF q THEN q_free ELSE UNCHANGED heap)
  BY DEF do_free, queue_quit
<1>2. allocated' = {} /\ cell' \in [Cells -> CellType]
  BY <1>1, EmptyStep
<1>3. Shape(<<>>)' /\ size' = 0 /\ q' \in BOOLEAN /\ head' \in Pointers /\ tail' \in Pointers
  BY <1>1, <1>2, NewIsEmpty
<1>4. /\ report' = "none" /\ UNCHANGED <<removed, fail_count>>
      /\ \/ qcnt' = 0 /\ quit_flag' = quit_flag
         \/ qcnt' = qcnt /\ quit_flag' = TRUE
  BY <1>2 DEF do_free, queue_quit, Leak
<1>5. Counted'
  BY <1>3, <1>4 DEF Counted, do_free, queue_quit
<1>b. qcnt' = 0 \/ qcnt' = qcnt
  BY <1>4
<1>6. NoFalseAlarm' /\ qcnt' \in Nat
  <2>1. report' = "none"
    BY <1>4
  <2>2. qcnt' \in Nat
    BY <1>b DEF QueueInv, TypeOK
  <2>3. QED
    BY <2>1, <2>2 DEF NoFalseAlarm
<1>a. quit_flag' \in BOOLEAN
  BY <1>4, Zenon DEF QueueInv, TypeOK
<1>7. TypeOK'
  BY <1>2, <1>3, <1>4, <1>6, <1>a DEF QueueInv, TypeOK, CellType, Reports
<1>8. QED
  BY <1>3, <1>5, <1>6, <1>7 DEF QueueInv

LEMMA StillStep ==
  ASSUME QueueInv, UNCHANGED <<queue, heap, removed, quit_flag>>, qcnt' = qcnt,
         fail_count' \in 0..FailLimit, report' \in {"none", "failed", "mismatch"}
  PROVE  QueueInv'
<1>1. PICK s : Shape(s)
  BY DEF QueueInv
<1>2. Shape(s)'
  BY <1>1 DEF Shape, queue, heap
<1>3. TypeOK' /\ NoFalseAlarm' /\ Counted'
  BY DEF QueueInv, TypeOK, NoFalseAlarm, Counted, Reports, queue, heap
<1>4. QED
  BY <1>2, <1>3 DEF QueueInv

LEMMA InsertHeadStep ==
  ASSUME QueueInv, NEW v \in Values, do_insert_head(v)
  PROVE  QueueInv'
<1>1. PICK rval \in BOOLEAN : q_insert_head(v, rval) /\ Outcome(rval, 1, FALSE)
  BY DEF do_insert_head
<1>2. UNCHANGED <<removed, quit_flag>> /\ ~quit_flag
  BY DEF do_insert_head
<1>3. /\ fail_count' \in 0..FailLimit /\ report' \in {"none", "failed"}
      /\ qcnt' = IF rval THEN qcnt + 1 ELSE qcnt
  <2>1. 1 \in Int /\ FALSE \in BOOLEAN /\ TypeOK
    BY DEF QueueInv
  <2>2. QED
    BY <1>1, <2>1, OutcomeTypes
<1>4. CASE ~rval
  BY <1>1, <1>2, <1>3, <1>4, StillStep DEF q_insert_head
<1>5. CASE rval
  <2>1. PICK s : Shape(s)
    BY DEF QueueInv
  <2>2. q_insert_head(v, TRUE)
    BY <1>1, <1>5
  <2>3. PICK t : Shape(t)'
    BY <2>1, <2>2, InsertHeadPushes DEF QueueInv
  <2>4. head' \in Pointers /\ size' \in Nat /\ allocated' \subseteq Cells
    BY <2>3, ShapeTypesNext
  <2>5. /\ cell' \in [Cells -> CellType] /\ tail' \in Pointers /\ size' = size + 1 /\ q' = q
    <3>1. PICK k \in Cells \ allocated :
            /\ cell' = [cell EXCEPT ![k] = [value |-> v, next |-> head]]
            /\ tail' = IF size = 0 THEN k ELSE tail
            /\ size' = size + 1
            /\ UNCHANGED q
      BY <2>2 DEF q_insert_head
    <3>2. QED
      BY <3>1 DEF QueueInv, TypeOK, CellType, Pointers
  <2>6. QED
    BY <2>3, <2>4, <2>5, <1>2, <1>3, <1>5 DEF QueueInv, TypeOK, CellType, NoFalseAlarm, Counted, Reports
<1>6. QED
  BY <1>4, <1>5

LEMMA InsertTailStep ==
  ASSUME QueueInv, NEW v \in Values, size > 0 \/ tail = NULL, do_insert_tail(v)
  PROVE  QueueInv'
<1>1. PICK rval \in BOOLEAN : q_insert_tail(v, rval) /\ Outcome(rval, 1, FALSE)
  BY DEF do_insert_tail
<1>2. UNCHANGED <<removed, quit_flag>> /\ ~quit_flag
  BY DEF do_insert_tail
<1>3. /\ fail_count' \in 0..FailLimit /\ report' \in {"none", "failed"}
      /\ qcnt' = IF rval THEN qcnt + 1 ELSE qcnt
  <2>1. 1 \in Int /\ FALSE \in BOOLEAN /\ TypeOK
    BY DEF QueueInv
  <2>2. QED
    BY <1>1, <2>1, OutcomeTypes
<1>4. CASE ~rval
  BY <1>1, <1>2, <1>3, <1>4, StillStep DEF q_insert_tail
<1>5. CASE rval
  <2>1. PICK s : Shape(s)
    BY DEF QueueInv
  <2>2. q_insert_tail(v, TRUE)
    BY <1>1, <1>5
  <2>3. PICK t : Shape(t)'
    BY <2>1, <2>2, InsertTailPushes DEF QueueInv
  <2>4. head' \in Pointers /\ size' \in Nat /\ allocated' \subseteq Cells
    BY <2>3, ShapeTypesNext
  <2>5. /\ cell' \in [Cells -> CellType] /\ tail' \in Pointers /\ size' = size + 1 /\ q' = q
    <3>1. PICK k \in Cells \ allocated :
            /\ LET new == [cell EXCEPT ![k] = [value |-> v, next |-> NULL]] IN
               cell' = IF tail = NULL THEN new ELSE [new EXCEPT ![tail] = [new[tail] EXCEPT !.next = k]]
            /\ tail' = k
            /\ size' = size + 1
            /\ UNCHANGED q
      BY <2>2 DEF q_insert_tail
    <3> DEFINE new == [cell EXCEPT ![k] = [value |-> v, next |-> NULL]]
    <3>2. new \in [Cells -> CellType]
      BY DEF QueueInv, TypeOK, CellType, Pointers
    <3>3. \A c \in Cells : [new[c] EXCEPT !.next = k] \in CellType
      BY <3>2 DEF CellType, Pointers
    <3>4. \/ cell' = new
          \/ cell' = [new EXCEPT ![tail] = [new[tail] EXCEPT !.next = k]] /\ tail \in Cells
      BY <3>1 DEF QueueInv, TypeOK, Pointers
    <3>5. cell' \in [Cells -> CellType]
      BY <3>2, <3>3, <3>4
    <3>6. tail' = k /\ size' = size + 1 /\ q' = q
      BY <3>1
    <3>7. QED
      BY <3>5, <3>6 DEF Pointers
  <2>6. QED
    BY <2>3, <2>4, <2>5, <1>2, <1>3, <1>5 DEF QueueInv, TypeOK, CellType, NoFalseAlarm, Counted, Reports
<1>6. QED
  BY <1>4, <1>5

LEMMA RemoveStep ==
  ASSUME QueueInv, ~quit_flag, UNCHANGED quit_flag,
         NEW vp \in BOOLEAN, NEW rval \in BOOLEAN, q_remove_head(vp, rval),
         fail_count' \in 0..FailLimit, report' \in {"none", "failed", "mismatch"},
         qcnt' = IF rval THEN qcnt - 1 ELSE qcnt
  PROVE  QueueInv'
<1>1. CASE ~rval
  BY <1>1, StillStep DEF q_remove_head
<1>2. CASE rval
  <2>1. PICK s : Shape(s)
    BY DEF QueueInv
  <2>2. q_remove_head(vp, TRUE)
    BY <1>2
  <2>3. Shape(Tail(s))' /\ removed' \in Values /\ size' = size - 1 /\ size > 0
    BY <2>1, <2>2, RemovePops DEF QueueInv
  <2>4. head' \in Pointers /\ size' \in Nat /\ allocated' \subseteq Cells
    BY <2>3, ShapeTypesNext
  <2>5. cell' \in [Cells -> CellType] /\ tail' = tail /\ q' = q
    BY <2>2 DEF q_remove_head, QueueInv, TypeOK, CellType, Filled
  <2>6. qcnt' \in Nat /\ qcnt' = size'
    BY <2>3, <1>2 DEF QueueInv, Counted, TypeOK
  <2>7. QED
    BY <2>3, <2>4, <2>5, <2>6 DEF QueueInv, TypeOK, CellType, NoFalseAlarm, Counted, Reports
<1>3. QED
  BY <1>1, <1>2

LEMMA RemoveHeadStep ==
  ASSUME QueueInv, NEW v \in Values, NEW check \in BOOLEAN, do_remove_head(check, v)
  PROVE  QueueInv'
<1>1. PICK rval \in BOOLEAN :
         /\ q_remove_head(TRUE, rval)
         /\ IF rval /\ check /\ removed' # v
            THEN qcnt' = qcnt - 1 /\ report' = "mismatch" /\ UNCHANGED fail_count
            ELSE Outcome(rval, -1, check)
  BY DEF do_remove_head
<1>2. /\ fail_count' \in 0..FailLimit /\ report' \in {"none", "failed", "mismatch"}
      /\ qcnt' = IF rval THEN qcnt - 1 ELSE qcnt
  <2>1. CASE rval /\ check /\ removed' # v
    BY <1>1, <2>1 DEF QueueInv, TypeOK
  <2>2. CASE ~(rval /\ check /\ removed' # v)
    <3>1. Outcome(rval, -1, check)
      BY <1>1, <2>2
    <3>2. qcnt \in Nat /\ qcnt + (-1) = qcnt - 1 /\ -1 \in Int
      BY DEF QueueInv, TypeOK
    <3>3. QED
      BY <3>1, <3>2, OutcomeTypes DEF QueueInv
  <2>3. QED
    BY <2>1, <2>2
<1>3. QED
  BY <1>1, <1>2, RemoveStep DEF do_remove_head

LEMMA RemoveQuietStep == ASSUME QueueInv, do_remove_head_quiet PROVE QueueInv'
<1>1. PICK rval \in BOOLEAN : q_remove_head(FALSE, rval) /\ Outcome(rval, -1, FALSE)
  BY DEF do_remove_head_quiet
<1>2. qcnt \in Nat /\ qcnt + (-1) = qcnt - 1 /\ -1 \in Int
  BY DEF QueueInv, TypeOK
<1>3. /\ fail_count' \in 0..FailLimit /\ report' \in {"none", "failed"}
      /\ qcnt' = IF rval THEN qcnt - 1 ELSE qcnt
  BY <1>1, <1>2, OutcomeTypes DEF QueueInv
<1>4. QED
  BY <1>1, <1>3, RemoveStep DEF do_remove_head_quiet

LEMMA ReverseStep == ASSUME QueueInv, do_reverse PROVE QueueInv'
<1>1. PICK s : Shape(s)
  BY DEF QueueInv
<1>2. /\ Shape(Reversed(s))' /\ cell' \in [Cells -> CellType]
      /\ size' = size /\ q' = q /\ head' \in Pointers /\ tail' \in Pointers
  BY <1>1, ReverseTurns DEF QueueInv, do_reverse
<1>3. allocated' \subseteq Cells
  BY <1>2, ShapeTypesNext
<1>4. QED
  BY <1>2, <1>3 DEF do_reverse, QueueInv, TypeOK, CellType, NoFalseAlarm, Counted, Reports

LEMMA SizeStep == ASSUME QueueInv, do_size PROVE QueueInv'
<1>1. PICK s : Shape(s)
  BY DEF QueueInv
<1>2. qcnt = (IF q THEN size ELSE 0)
  BY <1>1 DEF QueueInv, Counted, do_size, Shape
<1>3. QED
  BY <1>2, StillStep DEF do_size, QueueInv, TypeOK

LEMMA ShowStep == ASSUME QueueInv, do_show PROVE QueueInv'
<1>1. PICK s : Shape(s)
  BY DEF QueueInv
<1>2. qcnt = Len(s) /\ Len(s) \in Nat
  BY <1>1 DEF QueueInv, Counted, do_show, Shape, Listed
<1>3. Len(s) <= Longest /\ Longest \in Nat
  BY <1>1, ElementsCount DEF Shape, Listed
<1>4. Nth[qcnt] = NULL
  BY <1>1, <1>2, <1>3, ReachIs DEF Pointer
<1>5. QED
  BY <1>4, StillStep DEF do_show, QueueInv, TypeOK

(* Every command keeps the invariant. *)
LEMMA QueueInvariant == CarefulSpec => []QueueInv
<1>1. ASSUME QueueInv, [CarefulNext]_vars PROVE QueueInv'
  <2>1. CASE do_new
    BY <1>1, <2>1, NewStep
  <2>2. CASE do_free \/ queue_quit
    BY <1>1, <2>2, FreeStep
  <2>3. ASSUME NEW v \in Values, do_insert_head(v) PROVE QueueInv'
    BY <1>1, <2>3, InsertHeadStep
  <2>4. ASSUME NEW v \in Values, NEW check \in BOOLEAN, do_remove_head(check, v) PROVE QueueInv'
    BY <1>1, <2>4, RemoveHeadStep
  <2>5. CASE do_remove_head_quiet
    BY <1>1, <2>5, RemoveQuietStep
  <2>6. CASE do_reverse
    BY <1>1, <2>6, ReverseStep
  <2>7. CASE do_size
    BY <1>1, <2>7, SizeStep
  <2>8. CASE do_show
    BY <1>1, <2>8, ShowStep
  <2>9. ASSUME NEW v \in Values, size > 0 \/ tail = NULL, do_insert_tail(v) PROVE QueueInv'
    BY <1>1, <2>9, InsertTailStep
  <2>10. CASE UNCHANGED vars
    BY <1>1, <2>10, StillStep DEF vars, QueueInv, TypeOK, NoFalseAlarm, Reports, Counted, Shape, queue, heap
  <2>11. QED
    BY <1>1, <2>1, <2>2, <2>3, <2>4, <2>5, <2>6, <2>7, <2>8, <2>9, <2>10 DEF CarefulNext, Other
<1>2. QED
  BY <1>1, StartsRight, PTL DEF CarefulSpec

(* Types of the driver's and the queue's fields, for every run in which no
   command writes through the tail of an emptied queue. *)
THEOREM QueueTypeCorrect == CarefulSpec => []TypeOK
<1>1. QueueInv => TypeOK
  BY DEF QueueInv
<1>2. QED
  BY <1>1, QueueInvariant, PTL

(* The driver of qtest.c, which follows the queue with a count of its own,
   never complains of a wrong size, value or list. *)
THEOREM DriverNeverBlames == CarefulSpec => []NoFalseAlarm
<1>1. QueueInv => NoFalseAlarm
  BY DEF QueueInv
<1>2. QED
  BY <1>1, QueueInvariant, PTL

(* Every element malloc returned and test_free has not seen is on the walk
   from head, and nothing else is: queue.c loses no cell and frees none twice. *)
THEOREM EveryBlockIsReached == CarefulSpec => []NothingLeaks
<1>1. ASSUME QueueInv PROVE NothingLeaks
  BY <1>1, ReachIs DEF QueueInv, NothingLeaks, Shape
<1>2. QED
  BY <1>1, QueueInvariant, PTL

(* The walk from head ends after size cells, and tail is the last of them. *)
THEOREM ListIsWellFormed == CarefulSpec => []SizeAndTail
<1>1. ASSUME QueueInv PROVE SizeAndTail
  <2>1. PICK s : Shape(s)
    BY <1>1 DEF QueueInv
  <2>2. Walkable /\ size = Cardinality(Reach) /\ size <= Longest /\ \A n \in 0..Longest : Nth[n] = Pointer(s, n)
    BY <2>1, ReachIs
  <2>3. ASSUME size > 0 PROVE Nth[size - 1] = tail
    <3>1. s \in Seq(Cells) /\ Len(s) = size /\ Len(s) \in Nat
      BY <2>1 DEF Shape, Listed
    <3>2. size - 1 \in 0..Longest /\ size - 1 < Len(s) /\ (size - 1) + 1 = Len(s) /\ s # <<>>
      <4>1. Longest \in Nat
        BY <2>1, ElementsCount DEF Shape, Listed
      <4>2. QED
        BY <4>1, <3>1, <2>3, <2>2
    <3>3. QED
      BY <3>2, <2>2, <2>1 DEF Pointer, Shape
  <2>4. QED
    BY <2>2, <2>3 DEF SizeAndTail
<1>2. QED
  BY <1>1, QueueInvariant, PTL

-----------------------------------------------------------------------------
(* The refinement of Deque. *)

(* The values of a list, which the refinement mapping Items reads by walking. *)
Vals(s) == [i \in 1..Len(s) |-> cell[s[i]].value]

LEMMA ItemsAre == \A s : Shape(s) => Items = Vals(s)
<1>1. SUFFICES ASSUME NEW s, Shape(s) PROVE Items = Vals(s)
  OBVIOUS
<1>2. s \in Seq(Cells) /\ Len(s) \in Nat /\ Len(s) <= Longest /\ Longest \in Nat
  BY <1>1, ElementsCount DEF Shape, Listed
<1>3. Cardinality(Reach) = Len(s) /\ \A n \in 0..Longest : Nth[n] = Pointer(s, n)
  BY <1>1, ReachIs DEF Shape
<1>4. \A n \in 1..Len(s) : Nth[n - 1] = s[n]
  <2>1. \A n \in 1..Len(s) : n - 1 \in 0..Longest /\ n - 1 < Len(s) /\ (n - 1) + 1 = n
    BY <1>2
  <2>2. QED
    BY <2>1, <1>3 DEF Pointer
<1>5. QED
  BY <1>3, <1>4 DEF Items, Vals

LEMMA ItemsAreNext == \A s : Shape(s)' => Items' = Vals(s)'
<1>1. (\A s : Shape(s) => Items = Vals(s))'
  BY ItemsAre, PTL
<1>2. QED
  BY <1>1

LEMMA ValsAre ==
  ASSUME NEW s, Shape(s), TypeOK
  PROVE  /\ Vals(s) \in Seq(Values) /\ Len(Vals(s)) = Len(s) /\ Len(s) \in Nat
         /\ \A i \in 1..Len(s) : Vals(s)[i] = cell[s[i]].value /\ s[i] \in Cells /\ s[i] \in Elements(s)
         /\ Vals(s) = <<>> <=> s = <<>>
<1>1. s \in Seq(Cells) /\ Len(s) \in Nat /\ \A i \in 1..Len(s) : s[i] \in Cells /\ s[i] \in allocated
  BY DEF Shape, Listed, Elements
<1>2. Vals(s) \in Seq(Values) /\ Len(Vals(s)) = Len(s)
  BY <1>1 DEF Vals, Shape
<1>3. Vals(s) = <<>> <=> s = <<>>
  BY <1>1, <1>2, EmptySeq
<1>4. QED
  BY <1>1, <1>2, <1>3 DEF Vals, Shape

LEMMA ValsAreAll ==
  \A t : Shape(t) /\ TypeOK =>
     /\ Vals(t) \in Seq(Values) /\ Len(Vals(t)) = Len(t) /\ Len(t) \in Nat
     /\ \A i \in 1..Len(t) : Vals(t)[i] = cell[t[i]].value
     /\ Vals(t) = <<>> <=> t = <<>>
BY ValsAre

LEMMA ValsAreNext ==
  ASSUME NEW s, Shape(s)', TypeOK'
  PROVE  /\ Items' \in Seq(Values) /\ Len(Items') = Len(s) /\ Len(s) \in Nat
         /\ \A i \in 1..Len(s) : Items'[i] = cell'[s[i]].value
         /\ Items' = <<>> <=> s = <<>>
<1>1. (\A t : Shape(t) /\ TypeOK =>
         /\ Vals(t) \in Seq(Values) /\ Len(Vals(t)) = Len(t) /\ Len(t) \in Nat
         /\ \A i \in 1..Len(t) : Vals(t)[i] = cell[t[i]].value
         /\ Vals(t) = <<>> <=> t = <<>>)'
  BY ValsAreAll, PTL
<1>2. QED
  BY <1>1, ItemsAreNext

LEMMA SameItems ==
  ASSUME UNCHANGED <<queue, heap>>
  PROVE  Items' = Items /\ q' = q
BY DEF queue, heap, Items, Nth, Reach

(* The initial states, and what each function does to the sequence. *)
LEMMA StartsAbstract == Init => Abstract!Init
<1>1. Listed(NULL, [c \in Cells |-> Filled], <<>>) /\ Elements(<<>>) = {}
  BY DEF Listed, Elements
<1>2. ASSUME Init PROVE Items = <<>>
  <2>1. Shape(<<>>)
    BY <1>1, <1>2 DEF Init, Shape
  <2>2. Items = Vals(<<>>) /\ Vals(<<>>) = <<>>
    BY <2>1, <1>2, ItemsAre, ValsAre, StartsRight DEF QueueInv
  <2>3. QED
    BY <2>2
<1>3. QED
  BY <1>2 DEF Init, Abstract!Init

LEMMA EmptiedItems ==
  ASSUME QueueInv, QueueInv', (IF q THEN q_free ELSE UNCHANGED heap), NEW rval \in BOOLEAN, q_new(rval)
  PROVE  Items' = <<>> /\ q' = rval
<1>1. allocated' = {} /\ cell' \in [Cells -> CellType]
  BY EmptyStep
<1>2. Shape(<<>>)'
  BY <1>1, NewIsEmpty
<1>3. QED
  BY <1>2, ValsAreNext DEF QueueInv, q_new

LEMMA PushedItems ==
  ASSUME NEW s, Shape(s), TypeOK, NEW v \in Values, NEW t, Shape(t)', TypeOK', NEW k \in Cells,
         t = <<k>> \o s, cell'[k].value = v, \A c \in Elements(s) : cell'[c].value = cell[c].value
  PROVE  Items' = <<v>> \o Items
<1>1. /\ Items = Vals(s) /\ Items \in Seq(Values) /\ Len(Items) = Len(s) /\ Len(s) \in Nat
      /\ \A i \in 1..Len(s) : Items[i] = cell[s[i]].value /\ s[i] \in Elements(s)
  BY ItemsAre, ValsAre
<1>2. /\ Items' \in Seq(Values) /\ Len(Items') = Len(t)
      /\ \A i \in 1..Len(t) : Items'[i] = cell'[t[i]].value
  BY ValsAreNext
<1>3. s \in Seq(Cells)
  BY DEF Shape, Listed
<1>4. /\ Len(t) = Len(s) + 1 /\ t[1] = k
      /\ \A i \in 1..Len(t) : i # 1 => i - 1 \in 1..Len(s) /\ t[i] = s[i - 1]
  BY <1>1, <1>3
<1> DEFINE new == <<v>> \o Items
<1>5. /\ new \in Seq(Values) /\ Len(new) = Len(s) + 1 /\ new[1] = v
      /\ \A i \in 1..Len(t) : i # 1 => new[i] = Items[i - 1]
  BY <1>1, <1>4
<1>6. ASSUME NEW i \in 1..Len(t) PROVE Items'[i] = new[i]
  <2>1. CASE i = 1
    BY <2>1, <1>2, <1>4, <1>5
  <2>2. CASE i # 1
    <3>1. i - 1 \in 1..Len(s) /\ t[i] = s[i - 1]
      BY <2>2, <1>4
    <3>2. Items[i - 1] = cell[s[i - 1]].value /\ s[i - 1] \in Elements(s)
      BY <3>1, <1>1
    <3>3. cell'[t[i]].value = cell[s[i - 1]].value
      BY <3>1, <3>2
    <3>4. new[i] = Items[i - 1]
      BY <2>2, <1>5
    <3>5. Items'[i] = cell'[t[i]].value
      BY <1>2
    <3>6. QED
      BY <3>2, <3>3, <3>4, <3>5
  <2>3. QED
    BY <2>1, <2>2
<1>7. QED
  BY <1>2, <1>4, <1>5, <1>6, SeqEqual

LEMMA AppendedItems ==
  ASSUME NEW s, Shape(s), TypeOK, NEW v \in Values, NEW t, Shape(t)', TypeOK', NEW k \in Cells,
         t = Append(s, k), cell'[k].value = v, \A c \in Elements(s) : cell'[c].value = cell[c].value
  PROVE  Items' = Append(Items, v)
<1>1. /\ Items = Vals(s) /\ Items \in Seq(Values) /\ Len(Items) = Len(s) /\ Len(s) \in Nat
      /\ \A i \in 1..Len(s) : Items[i] = cell[s[i]].value /\ s[i] \in Elements(s)
  BY ItemsAre, ValsAre
<1>2. /\ Items' \in Seq(Values) /\ Len(Items') = Len(t)
      /\ \A i \in 1..Len(t) : Items'[i] = cell'[t[i]].value
  BY ValsAreNext
<1>3. s \in Seq(Cells)
  BY DEF Shape, Listed
<1>4. Len(t) = Len(s) + 1 /\ t[Len(s) + 1] = k /\ \A i \in 1..Len(s) : t[i] = s[i]
  BY <1>1, <1>3
<1> DEFINE new == Append(Items, v)
<1>5. /\ new \in Seq(Values) /\ Len(new) = Len(s) + 1 /\ new[Len(s) + 1] = v
      /\ \A i \in 1..Len(s) : new[i] = Items[i]
  BY <1>1
<1>6. ASSUME NEW i \in 1..Len(t) PROVE Items'[i] = new[i]
  <2>1. CASE i = Len(s) + 1
    BY <2>1, <1>2, <1>4, <1>5
  <2>2. CASE i # Len(s) + 1
    <3>1. i \in 1..Len(s)
      BY <2>2, <1>1, <1>4
    <3>2. QED
      BY <3>1, <1>1, <1>2, <1>4, <1>5
  <2>3. QED
    BY <2>1, <2>2
<1>7. QED
  BY <1>2, <1>4, <1>5, <1>6, SeqEqual

LEMMA PoppedItems ==
  ASSUME QueueInv, QueueInv', NEW vp \in BOOLEAN, q_remove_head(vp, TRUE)
  PROVE  Abstract!RemoveHead
<1>1. PICK s : Shape(s)
  BY DEF QueueInv
<1>2. /\ s # <<>> /\ Shape(Tail(s))'
      /\ removed' = IF vp THEN cell[s[1]].value ELSE removed
      /\ \A c \in Elements(s) : c # s[1] => cell'[c].value = cell[c].value
  BY <1>1, RemovePops DEF QueueInv
<1> DEFINE t == Tail(s)
<1>3. /\ Items \in Seq(Values) /\ Len(Items) = Len(s) /\ Len(s) \in Nat \ {0} /\ Items # <<>>
      /\ \A i \in 1..Len(s) : Items[i] = cell[s[i]].value /\ s[i] \in Elements(s)
  BY <1>1, <1>2, ItemsAre, ValsAre DEF QueueInv
<1>4. /\ Items' \in Seq(Values) /\ Len(Items') = Len(t)
      /\ \A i \in 1..Len(t) : Items'[i] = cell'[t[i]].value
  BY <1>2, ValsAreNext DEF QueueInv
<1>5. s \in Seq(Cells) /\ \A i, j \in 1..Len(s) : s[i] = s[j] => i = j
  BY <1>1 DEF Shape, Listed
<1>6. Len(t) = Len(s) - 1 /\ \A i \in 1..Len(t) : t[i] = s[i + 1] /\ i + 1 \in 1..Len(s)
  BY <1>2, <1>3, <1>5
<1>7. /\ Tail(Items) \in Seq(Values) /\ Len(Tail(Items)) = Len(s) - 1
      /\ \A i \in 1..Len(t) : Tail(Items)[i] = Items[i + 1]
  BY <1>3, <1>6
<1>8. ASSUME NEW i \in 1..Len(t) PROVE Items'[i] = Tail(Items)[i]
  <2>1. i + 1 \in 1..Len(s) /\ i + 1 # 1 /\ 1 \in 1..Len(s)
    BY <1>3, <1>6
  <2>2. s[i + 1] # s[1] /\ s[i + 1] \in Elements(s)
    BY <2>1, <1>3, <1>5
  <2>3. QED
    BY <2>1, <2>2, <1>2, <1>3, <1>4, <1>6, <1>7
<1>9. Items' = Tail(Items)
  BY <1>4, <1>6, <1>7, <1>8, SeqEqual
<1>10. removed' \in {removed, Head(Items)}
  <2>1. 1 \in 1..Len(s) /\ Head(Items) = Items[1]
    BY <1>3
  <2>2. QED
    BY <2>1, <1>2, <1>3
<1>11. q' = q
  BY DEF q_remove_head
<1>12. QED
  BY <1>3, <1>9, <1>10, <1>11 DEF Abstract!RemoveHead

LEMMA ReversedItems ==
  ASSUME QueueInv, QueueInv', q_reverse, UNCHANGED removed
  PROVE  Abstract!Reverse
<1>1. PICK s : Shape(s)
  BY DEF QueueInv
<1>2. Shape(Reversed(s))' /\ q' = q /\ \A c \in Cells : cell'[c].value = cell[c].value
  BY <1>1, ReverseTurns DEF QueueInv
<1>3. /\ Items \in Seq(Values) /\ Len(Items) = Len(s) /\ Len(s) \in Nat
      /\ \A i \in 1..Len(s) : Items[i] = cell[s[i]].value /\ s[i] \in Cells
  BY <1>1, ItemsAre, ValsAre DEF QueueInv
<1>4. /\ Items' \in Seq(Values) /\ Len(Items') = Len(Reversed(s))
      /\ \A i \in 1..Len(Reversed(s)) : Items'[i] = cell'[Reversed(s)[i]].value
  BY <1>2, ValsAreNext DEF QueueInv
<1>5. Len(Reversed(s)) = Len(s) /\ \A i \in 1..Len(s) : Reversed(s)[i] = s[Len(s) + 1 - i] /\ Len(s) + 1 - i \in 1..Len(s)
  BY <1>3 DEF Reversed
<1> DEFINE new == [i \in 1..Len(Items) |-> Items[Len(Items) + 1 - i]]
<1>6. ASSUME NEW i \in 1..Len(s) PROVE Items'[i] = new[i]
  BY <1>2, <1>3, <1>4, <1>5
<1>7. new \in Seq(Values) /\ Len(new) = Len(s)
  BY <1>3, <1>5
<1>8. Items' = new
  BY <1>4, <1>5, <1>6, <1>7, SeqEqual
<1>9. QED
  BY <1>2, <1>8 DEF Abstract!Reverse

(* Every step is a step of Deque or a stutter. *)
LEMMA DequeSteps ==
  ASSUME QueueInv, QueueInv', [CarefulNext]_vars
  PROVE  [Abstract!Next]_Abstract!vars
<1>1. CASE do_new
  <2>1. PICK rval \in BOOLEAN : q_new(rval)
    BY <1>1 DEF do_new
  <2>2. (IF q THEN q_free ELSE UNCHANGED heap) /\ UNCHANGED removed
    BY <1>1 DEF do_new
  <2>3. Items' = <<>> /\ q' = rval
    BY <2>1, <2>2, EmptiedItems
  <2>4. rval = TRUE \/ rval = FALSE
    BY Zenon
  <2>5. CASE rval = TRUE
    BY <2>2, <2>3, <2>5 DEF Abstract!Next, Abstract!Create
  <2>6. CASE rval = FALSE
    BY <2>2, <2>3, <2>6 DEF Abstract!Next, Abstract!Destroy
  <2>7. QED
    BY <2>4, <2>5, <2>6
<1>2. CASE do_free \/ queue_quit
  <2>1. q_new(FALSE) /\ (IF q THEN q_free ELSE UNCHANGED heap) /\ UNCHANGED removed
    BY <1>2 DEF do_free, queue_quit
  <2>2. Items' = <<>> /\ q' = FALSE
    BY <2>1, EmptiedItems
  <2>3. QED
    BY <2>1, <2>2 DEF Abstract!Next, Abstract!Destroy
<1>3. ASSUME NEW v \in Values, do_insert_head(v) PROVE [Abstract!Next]_Abstract!vars
  <2>1. PICK rval \in BOOLEAN : q_insert_head(v, rval)
    BY <1>3 DEF do_insert_head
  <2>2. UNCHANGED removed
    BY <1>3 DEF do_insert_head
  <2>3. CASE ~rval
    <3>1. UNCHANGED <<queue, heap>>
      BY <2>1, <2>3 DEF q_insert_head
    <3>2. QED
      BY <3>1, <2>2, SameItems DEF Abstract!vars
  <2>4. CASE rval
    <3>1. PICK s : Shape(s)
      BY DEF QueueInv
    <3>2. q_insert_head(v, TRUE)
      BY <2>1, <2>4
    <3>3. PICK k \in Cells : /\ Shape(<<k>> \o s)' /\ cell'[k].value = v
                             /\ \A c \in Elements(s) : cell'[c].value = cell[c].value
      BY <3>1, <3>2, InsertHeadPushes DEF QueueInv
    <3>4. Items' = <<v>> \o Items
      BY <3>1, <3>3, PushedItems DEF QueueInv
    <3>5. q /\ q' = q
      BY <3>2 DEF q_insert_head
    <3>6. QED
      BY <3>4, <3>5, <2>2 DEF Abstract!Next, Abstract!InsertHead
  <2>5. QED
    BY <2>3, <2>4
<1>4. ASSUME NEW v \in Values, NEW check \in BOOLEAN, do_remove_head(check, v)
      PROVE  [Abstract!Next]_Abstract!vars
  <2>1. PICK rval \in BOOLEAN : q_remove_head(TRUE, rval)
    BY <1>4 DEF do_remove_head
  <2>2. CASE ~rval
    <3>1. UNCHANGED <<queue, heap, removed>>
      BY <2>1, <2>2 DEF q_remove_head
    <3>2. QED
      BY <3>1, SameItems DEF Abstract!vars
  <2>3. CASE rval
    <3>1. q_remove_head(TRUE, TRUE)
      BY <2>1, <2>3
    <3>2. QED
      BY <3>1, PoppedItems DEF Abstract!Next
  <2>4. QED
    BY <2>2, <2>3
<1>5. CASE do_remove_head_quiet
  <2>1. PICK rval \in BOOLEAN : q_remove_head(FALSE, rval)
    BY <1>5 DEF do_remove_head_quiet
  <2>2. CASE ~rval
    <3>1. UNCHANGED <<queue, heap, removed>>
      BY <2>1, <2>2 DEF q_remove_head
    <3>2. QED
      BY <3>1, SameItems DEF Abstract!vars
  <2>3. CASE rval
    <3>1. q_remove_head(FALSE, TRUE)
      BY <2>1, <2>3
    <3>2. QED
      BY <3>1, PoppedItems DEF Abstract!Next
  <2>4. QED
    BY <2>2, <2>3
<1>6. CASE do_reverse
  BY <1>6, ReversedItems DEF do_reverse, Abstract!Next
<1>7. CASE do_size \/ do_show \/ UNCHANGED vars
  <2>1. UNCHANGED <<queue, heap, removed>>
    BY <1>7 DEF do_size, do_show, vars
  <2>2. QED
    BY <2>1, SameItems DEF Abstract!vars
<1>8. ASSUME NEW v \in Values, size > 0 \/ tail = NULL, do_insert_tail(v)
      PROVE  [Abstract!Next]_Abstract!vars
  <2>1. PICK rval \in BOOLEAN : q_insert_tail(v, rval)
    BY <1>8 DEF do_insert_tail
  <2>2. UNCHANGED removed
    BY <1>8 DEF do_insert_tail
  <2>3. CASE ~rval
    <3>1. UNCHANGED <<queue, heap>>
      BY <2>1, <2>3 DEF q_insert_tail
    <3>2. QED
      BY <3>1, <2>2, SameItems DEF Abstract!vars
  <2>4. CASE rval
    <3>1. PICK s : Shape(s)
      BY DEF QueueInv
    <3>2. q_insert_tail(v, TRUE)
      BY <2>1, <2>4
    <3>3. PICK k \in Cells : /\ Shape(Append(s, k))' /\ cell'[k].value = v
                             /\ \A c \in Elements(s) : cell'[c].value = cell[c].value
      BY <3>1, <3>2, <1>8, InsertTailPushes DEF QueueInv
    <3>4. Items' = Append(Items, v)
      BY <3>1, <3>3, AppendedItems DEF QueueInv
    <3>5. q /\ q' = q
      BY <3>2 DEF q_insert_tail
    <3>6. QED
      BY <3>4, <3>5, <2>2 DEF Abstract!Next, Abstract!InsertTail
  <2>5. QED
    BY <2>3, <2>4
<1>9. QED
  BY <1>1, <1>2, <1>3, <1>4, <1>5, <1>6, <1>7, <1>8 DEF CarefulNext, Other

(* The pointer structure of queue.c does what queue.h promises: every command
   is a step of the two-ended sequence, or leaves it alone. *)
THEOREM DequeImplemented == CarefulSpec => ImplementsDeque
<1>1. QueueInv /\ QueueInv' /\ [CarefulNext]_vars => [Abstract!Next]_Abstract!vars
  BY DequeSteps
<1>2. QED
  BY <1>1, StartsAbstract, QueueInvariant, PTL DEF CarefulSpec, ImplementsDeque, Abstract!Spec
=============================================================================
