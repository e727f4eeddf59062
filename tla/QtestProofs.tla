---------------------------- MODULE QtestProofs ----------------------------
(***************************************************************************)
(* Proofs about Qtest: for files of any length, any limits, any number of  *)
(* descriptors and any number of time limits, each of them striking at any *)
(* step of any command.                                                    *)
(*                                                                         *)
(* A command is a sequence of steps that grows and shrinks as it runs, and *)
(* SIGALRM may drop any of its beginnings. So the invariant Inv speaks of  *)
(* run.todo itself. Its first part, Grammar, says which step may follow    *)
(* which, and which may never come again: it holds of every program of     *)
(* qtest.c, of what an operation of queue.c unfolds into, and of every     *)
(* rest of a sequence it holds of. The other parts say what the next step  *)
(* (hd) and those still to come (Has) tell about the modes (Modes), the    *)
(* count of blocks against their list (Difference), the list against the   *)
(* queue (Owned, Queue), a cut that the command must still notice (Cuts),  *)
(* and the memory of the console until the exit (Ends).                    *)
(***************************************************************************)
EXTENDS Qtest, TLAPS, NaturalsInduction, WellFoundedInduction, SequenceTheorems

-----------------------------------------------------------------------------
(* The steps, and the order in which a command may have them.                *)

Inner == {"q_new", "link", "linked", "header", "q_free", "unlink", "unlinked", "attach", "grow", "q_remove",
          "detach", "shrink", "q_size", "q_reverse", "turned", "repeat", "inserted", "counted", "walk"}
RH == {"rh", "rh_v"}

Show == {"show", "ready", "arm", "walk", "disarm", "unready", "end"}
Freeing == {"checked", "maybe_bold", "q_free", "unlink", "unlinked", "cautious", "dropped", "blocks"} \cup Show

(* The steps that a command is made of. *)
Steps(cmd) ==
    CASE cmd = "new" -> Freeing \cup {"uncalled", "q_new", "link", "linked", "header", "called_malloc"}
      [] cmd = "free" -> Freeing
      [] cmd = "ih" -> {"checked", "repeat", "link", "linked", "attach", "grow", "inserted"} \cup (Show \ {"end"})
      [] cmd \in RH -> {"checked", "q_remove", "detach", "unlink", "unlinked", "shrink", "removed"} \cup Show
      [] cmd = "reverse" -> {"checked", "noallocate_on", "q_reverse", "turned", "noallocate_off"} \cup Show
      [] cmd = "size" -> {"checked", "q_size", "counted", "sized"} \cup Show
      [] cmd = "show" -> {"showing", "shown"} \cup (Show \ {"show", "end"})
      [] cmd = "quit" -> {"maybe_bold", "ready", "arm", "q_free", "unlink", "unlinked", "disarm", "unready", "cautious", "blocks"}
      [] OTHER -> {}

(* b may be the next step after a. *)
Pair(cmd, a, b) ==
    /\ a = "ready" <=> b = "arm"
    /\ a = "disarm" <=> b = "unready"
    /\ a = "link" <=> b = "linked"
    /\ a = "unlink" <=> b = "unlinked"
    /\ a = "linked" <=> b \in {"header", "attach"}
    /\ b = "unlink" => a = IF cmd \in RH THEN "detach" ELSE "unlinked"
    /\ b = "checked" => a = "end"
    /\ a = "detach" => b = "unlink"
    /\ a = "q_free" => b = "disarm"
    /\ a = "end" => cmd = "new"
    /\ b \notin {"turned", "detach", "link"}
    /\ a \in Inner \cup {"arm"} => b \in Inner \cup {"disarm"}

(* a may be the last step. *)
Final(cmd, a) ==
    a \in CASE cmd = "ih" -> {"unready", "show"}
            [] cmd = "show" -> {"showing", "shown"}
            [] cmd = "quit" -> {"blocks"}
            [] OTHER -> {"end"}

Making == {"q_new", "link", "linked", "header"}

(* b may come later than a. *)
Apart(a, b) ==
    /\ a = b => a \notin {"counted", "dropped", "q_free"}
    /\ a \in Making => b \notin {"dropped", "q_free"}
    /\ a = "dropped" => b # "q_free"
    /\ a \in {"q_new", "header"} => b \notin Making
    /\ a = "called_malloc" => b \notin {"unready", "cautious", "dropped"}

(* b takes back what a did. *)
Undoes(a, b) == \/ a = "ready" /\ b = "unready"
                \/ a = "noallocate_on" /\ b = "noallocate_off"
                \/ a = "maybe_bold" /\ b = "cautious"
Undoing == {"unready", "noallocate_off", "cautious"}

(* t is what a command may have left to do. *)
Grammar(cmd, t) ==
    /\ t \in Seq(Steps(cmd))
    /\ \A i \in 1..Len(t) - 1 : Pair(cmd, t[i], t[i + 1])
    /\ t # <<>> => Final(cmd, t[Len(t)])
    /\ \A i, j \in 1..Len(t) : i < j => Apart(t[i], t[j])
    /\ \A i \in 1..Len(t), b \in Undoing : Undoes(t[i], b) => \E j \in i..Len(t) : t[j] = b

First(t) == IF t = <<>> THEN "none" ELSE t[1]
On(t) == {t[i] : i \in 1..Len(t)}

-----------------------------------------------------------------------------
(* Sequences.                                                                *)

(* The order of the natural numbers as a relation. *)
Below == {p \in Nat \X Nat : p[1] < p[2]}

(* It is well-founded, so that a set of numbers has a least one. *)
LEMMA BelowWellFounded == IsWellFoundedOn(Below, Nat)
<1>1. Below = OpToRel(<, Nat)
  BY DEF Below, OpToRel
<1>2. QED
  BY <1>1, NatLessThanWellFounded

(* What holds of some number holds of a least one. *)
LEMMA LeastNat ==
  ASSUME NEW S, S \subseteq Nat, S # {}
  PROVE  \E m \in S : \A k \in S : m <= k
<1>1. PICK m \in S : \A k \in S : ~ (<<k, m>> \in Below)
  BY BelowWellFounded, WFMin
<1>2. ASSUME NEW k \in S, k < m PROVE FALSE
  <2>1. <<k, m>> \in Below
    BY <1>2 DEF Below
  <2>2. QED
    BY <1>1, <2>1
<1>3. \A k \in S : m <= k
  BY <1>2
<1>4. QED
  BY <1>3

(* A suffix of what is left. *)
Suffix(t, n) == SubSeq(t, n, Len(t))

(* What is left of a sequence after a jump is as well-formed as the whole. *)
LEMMA SuffixIs ==
  ASSUME NEW cmd, NEW t, Grammar(cmd, t), NEW n \in 1..Len(t)
  PROVE  /\ Grammar(cmd, Suffix(t, n)) /\ Suffix(t, n) # <<>> /\ First(Suffix(t, n)) = t[n]
         /\ Len(Suffix(t, n)) = Len(t) - n + 1
         /\ \A i \in 1..Len(t) - n + 1 : Suffix(t, n)[i] = t[n + i - 1]
<1> DEFINE r == Suffix(t, n)
<1>1. t \in Seq(Steps(cmd)) /\ Len(t) \in Nat /\ \A i \in 1..Len(t) : t[i] \in Steps(cmd)
  BY LenProperties, ElementOfSeq DEF Grammar
<1>2. r \in Seq(Steps(cmd)) /\ Len(r) = Len(t) - n + 1 /\ \A i \in 1..Len(t) - n + 1 : r[i] = t[n + i - 1]
  BY <1>1, SubSeqProperties DEF Suffix
<1>3. r # <<>> /\ First(r) = t[n]
  BY <1>1, <1>2, EmptySeq DEF First
<1>4. \A i \in 1..Len(r) - 1 : Pair(cmd, r[i], r[i + 1])
  <2> TAKE i \in 1..Len(r) - 1
  <2>1. r[i] = t[n + i - 1] /\ r[i + 1] = t[n + i - 1 + 1] /\ n + i - 1 \in 1..Len(t) - 1
    BY <1>1, <1>2
  <2>2. QED
    BY <2>1 DEF Grammar
<1>5. Final(cmd, r[Len(r)])
  <2>1. r[Len(r)] = t[Len(t)] /\ t # <<>>
    BY <1>1, <1>2, EmptySeq
  <2>2. QED
    BY <2>1 DEF Grammar
<1>6. \A i, j \in 1..Len(r) : i < j => Apart(r[i], r[j])
  <2> TAKE i, j \in 1..Len(r)
  <2> HAVE i < j
  <2>1. r[i] = t[n + i - 1] /\ r[j] = t[n + j - 1] /\ n + i - 1 \in 1..Len(t) /\ n + j - 1 \in 1..Len(t) /\ n + i - 1 < n + j - 1
    BY <1>1, <1>2
  <2>2. QED
    BY <2>1 DEF Grammar
<1>7. \A i \in 1..Len(r), b \in Undoing : Undoes(r[i], b) => \E j \in i..Len(r) : r[j] = b
  <2> TAKE i \in 1..Len(r), b \in Undoing
  <2> HAVE Undoes(r[i], b)
  <2>1. r[i] = t[n + i - 1] /\ n + i - 1 \in 1..Len(t)
    BY <1>1, <1>2
  <2>2. PICK j \in n + i - 1..Len(t) : t[j] = b
    BY <2>1 DEF Grammar
  <2>3. j - n + 1 \in i..Len(r) /\ r[j - n + 1] = t[j]
    BY <1>1, <1>2
  <2>4. QED
    BY <2>2, <2>3
<1>8. QED
  BY <1>2, <1>3, <1>4, <1>5, <1>6, <1>7 DEF Grammar

(* Nothing left is a grammatical rest of every command. *)
LEMMA NothingLeft == \A cmd : Grammar(cmd, <<>>) /\ First(<<>>) = "none" /\ On(<<>>) = {}
<1>1. \A cmd : <<>> \in Seq(Steps(cmd)) /\ Len(<<>>) = 0
  BY EmptySeq
<1>2. QED
  BY <1>1 DEF Grammar, First, On

(* The step that comes first, a, was done, and r is left. *)
Following(cmd, t, a, r) ==
  /\ Grammar(cmd, r) /\ First(t) = a /\ a \in Steps(cmd) /\ a # "none"
  /\ On(t) = {a} \cup On(r) /\ On(r) \subseteq Steps(cmd)
  /\ r # <<>> => Pair(cmd, a, First(r)) /\ First(r) \in On(r)
  /\ r = <<>> => Final(cmd, a) /\ First(r) = "none" /\ On(r) = {}
  /\ \A b \in On(r) : Apart(a, b)
  /\ \A b \in Undoing : Undoes(a, b) => b \in On(r)

(* "none" is the name of no step. *)
LEMMA StepNames == \A cmd : "none" \notin Steps(cmd)
  BY DEF Steps, Freeing, Show

(* What a well-formed sequence says of its first step and the rest. *)
LEMMA TailFollows ==
  ASSUME NEW cmd, NEW t, Grammar(cmd, t), t # <<>>
  PROVE  /\ Following(cmd, t, t[1], Tail(t)) /\ Head(t) = t[1] /\ Len(t) \in Nat \ {0} /\ Len(Tail(t)) = Len(t) - 1
         /\ \A i \in 1..Len(t) - 1 : Tail(t)[i] = t[i + 1]
<1>1. t \in Seq(Steps(cmd)) /\ Len(t) \in Nat \ {0} /\ \A i \in 1..Len(t) : t[i] \in Steps(cmd)
  BY LenProperties, ElementOfSeq, EmptySeq DEF Grammar
<1>2. Tail(t) = SubSeq(t, 2, Len(t)) /\ Head(t) = t[1]
  BY <1>1, TailIsSubSeq, HeadTailProperties
<1>3. First(t) = t[1] /\ t[1] \in Steps(cmd) /\ t[1] # "none"
  BY <1>1, StepNames DEF First
<1>4. CASE Len(t) = 1
  <2>1. Tail(t) = <<>>
    BY <1>1, <1>2, <1>4, SubSeqEmpty
  <2>2. Final(cmd, t[1]) /\ On(t) = {t[1]}
    BY <1>4 DEF Grammar, On
  <2>3. \A b \in Undoing : ~Undoes(t[1], b)
    <3> SUFFICES ASSUME NEW b \in Undoing, Undoes(t[1], b) PROVE FALSE
      OBVIOUS
    <3>1. PICK j \in 1..1 : t[j] = b
      BY <1>4 DEF Grammar
    <3>2. QED
      BY <3>1 DEF Undoes
  <2>4. Grammar(cmd, Tail(t)) /\ On(Tail(t)) = {} /\ First(Tail(t)) = "none"
    BY <2>1, NothingLeft
  <2>5. Following(cmd, t, t[1], Tail(t))
    BY <1>3, <2>1, <2>2, <2>3, <2>4 DEF Following
  <2>6. Len(Tail(t)) = 0
    BY <2>1, EmptySeq
  <2>7. QED
    BY <1>1, <1>2, <1>4, <2>5, <2>6
<1>5. CASE Len(t) > 1
  <2> DEFINE r == Tail(t)
  <2>1. r = Suffix(t, 2) /\ 2 \in 1..Len(t)
    <3>1. 2 \in 1..Len(t)
      BY <1>1, <1>5
    <3>2. Tail(t) = Suffix(t, 2)
      BY <1>2 DEF Suffix
    <3>3. QED
      BY <3>1, <3>2
  <2>2. Grammar(cmd, r) /\ r # <<>> /\ First(r) = t[2] /\ Len(r) = Len(t) - 1 /\ \A i \in 1..Len(t) - 1 : r[i] = t[i + 1]
    <3>1. /\ Grammar(cmd, Suffix(t, 2)) /\ Suffix(t, 2) # <<>> /\ First(Suffix(t, 2)) = t[2]
          /\ Len(Suffix(t, 2)) = Len(t) - 2 + 1
          /\ \A i \in 1..Len(t) - 2 + 1 : Suffix(t, 2)[i] = t[2 + i - 1]
      BY <2>1, SuffixIs
    <3>2. Len(t) - 2 + 1 = Len(t) - 1 /\ \A i \in 1..Len(t) - 1 : 2 + i - 1 = i + 1
      BY <1>1
    <3>3. QED
      BY <2>1, <3>1, <3>2
  <2>3. \A b : b \in On(r) <=> \E j \in 2..Len(t) : t[j] = b
    <3>1. ASSUME NEW b, b \in On(r) PROVE \E j \in 2..Len(t) : t[j] = b
      <4>1. PICK i \in 1..Len(t) - 1 : b = r[i]
        BY <2>2, <3>1 DEF On
      <4>2. i + 1 \in 2..Len(t) /\ t[i + 1] = b
        BY <1>1, <2>2, <4>1
      <4>3. QED
        BY <4>2
    <3>2. ASSUME NEW b, NEW j \in 2..Len(t), t[j] = b PROVE b \in On(r)
      <4>1. j - 1 \in 1..Len(r) /\ r[j - 1] = b
        BY <1>1, <2>2, <3>2
      <4>2. QED
        BY <4>1 DEF On
    <3>3. QED
      BY <3>1, <3>2
  <2>4. On(t) = {t[1]} \cup On(r) /\ On(r) \subseteq Steps(cmd)
    <3>1. \A b : b \in On(t) <=> b = t[1] \/ b \in On(r)
      BY <1>1, <2>3 DEF On
    <3>2. QED
      BY <1>1, <2>3, <3>1
  <2>5. Pair(cmd, t[1], t[2]) /\ t[2] \in On(r)
    <3>1. 1 \in 1..Len(t) - 1 /\ 2 \in 2..Len(t) /\ 1 + 1 = 2
      BY <1>1, <1>5
    <3>2. Pair(cmd, t[1], t[1 + 1])
      BY <3>1 DEF Grammar
    <3>3. QED
      BY <2>3, <3>1, <3>2
  <2>6. \A b \in On(r) : Apart(t[1], b)
    BY <1>1, <2>3 DEF Grammar
  <2>7. \A b \in Undoing : Undoes(t[1], b) => b \in On(r)
    <3> SUFFICES ASSUME NEW b \in Undoing, Undoes(t[1], b) PROVE b \in On(r)
      OBVIOUS
    <3>1. PICK j \in 1..Len(t) : t[j] = b
      BY <1>1 DEF Grammar
    <3>2. j # 1
      BY <3>1 DEF Undoes
    <3>3. QED
      BY <1>1, <2>3, <3>1, <3>2
  <2>8. QED
    BY <1>1, <1>2, <1>3, <2>2, <2>4, <2>5, <2>6, <2>7 DEF Following
<1>6. Len(t) = 1 \/ Len(t) > 1
  <2>1. \A n \in Nat \ {0} : n = 1 \/ n > 1
    OBVIOUS
  <2>2. QED
    BY <1>1, <2>1, Zenon
<1>7. QED
  BY <1>4, <1>5, <1>6, Zenon

(* s may take the place of the step a. *)
Replaces(cmd, a, s) ==
  /\ s \in Seq(Steps(cmd)) /\ s # <<>>
  /\ \A i \in 1..Len(s) - 1 : Pair(cmd, s[i], s[i + 1])
  /\ \A b \in Steps(cmd) : Pair(cmd, a, b) => Pair(cmd, s[Len(s)], b)
  /\ Final(cmd, a) => Final(cmd, s[Len(s)])
  /\ \A i, j \in 1..Len(s) : i < j => Apart(s[i], s[j])
  /\ \A i \in 1..Len(s), b \in Steps(cmd) : Apart(a, b) => Apart(s[i], b)
  /\ \A i \in 1..Len(s), b \in Undoing : Undoes(s[i], b) => \E j \in i..Len(s) : s[j] = b

(* A step may be replaced by what it unfolds into. *)
LEMMA SpliceIs ==
  ASSUME NEW cmd, NEW t, Grammar(cmd, t), t # <<>>, NEW s, Replaces(cmd, t[1], s)
  PROVE  /\ Grammar(cmd, s \o Tail(t)) /\ s \o Tail(t) # <<>> /\ First(s \o Tail(t)) = s[1]
         /\ On(s \o Tail(t)) = On(s) \cup On(Tail(t))
         /\ Len(s) \in Nat \ {0} /\ Len(s \o Tail(t)) = Len(s) + Len(Tail(t))
         /\ \A i \in 1..Len(s) : (s \o Tail(t))[i] = s[i]
         /\ \A i \in 1..Len(Tail(t)) : (s \o Tail(t))[Len(s) + i] = Tail(t)[i]
<1>1. PICK r, a, w : r = Tail(t) /\ a = t[1] /\ w = s \o Tail(t)
  OBVIOUS
<1>2. Following(cmd, t, a, r)
  BY <1>1, TailFollows
<1>3. r \in Seq(Steps(cmd)) /\ s \in Seq(Steps(cmd))
  BY <1>1, <1>2 DEF Following, Grammar, Replaces
<1>4. PICK m, n : m = Len(s) /\ n = Len(r) /\ m \in Nat \ {0} /\ n \in Nat /\ (n = 0 <=> r = <<>>)
  <2>1. Len(s) \in Nat /\ Len(r) \in Nat /\ (Len(r) = 0 <=> r = <<>>) /\ (Len(s) = 0 <=> s = <<>>)
    BY <1>3, EmptySeq, LenProperties
  <2>2. s # <<>>
    BY DEF Replaces
  <2>3. QED
    BY <2>1, <2>2
<1>5. w \in Seq(Steps(cmd)) /\ Len(w) = m + n
  BY <1>1, <1>3, <1>4, ConcatProperties
<1>6. \A i \in 1..m : w[i] = s[i] /\ s[i] \in Steps(cmd)
  BY <1>1, <1>3, <1>4, ConcatProperties, ElementOfSeq
<1>7. \A i \in 1..n : w[m + i] = r[i] /\ r[i] \in On(r)
  <2> TAKE i \in 1..n
  <2>1. m + i \in 1..m + n /\ ~(m + i <= m) /\ m + i - m = i
    BY <1>4
  <2>2. w[m + i] = r[i]
    BY <1>1, <1>3, <1>4, <2>1, ConcatProperties
  <2>3. QED
    BY <1>4, <2>2 DEF On
<1>8. \A i \in 1..m + n : (i \in 1..m) \/ (\E k \in 1..n : i = m + k)
  <2> TAKE i \in 1..m + n
  <2>1. CASE i <= m
    BY <1>4, <2>1
  <2>2. CASE i > m
    <3>1. i - m \in 1..n /\ i = m + (i - m)
      BY <1>4, <2>2
    <3>2. QED
      BY <3>1
  <2>3. QED
    BY <1>4, <2>1, <2>2
<1>9. \A i \in 1..Len(w) - 1 : Pair(cmd, w[i], w[i + 1])
  <2> TAKE i \in 1..Len(w) - 1
  <2>1. CASE i < m
    <3>1. i \in 1..m - 1 /\ i \in 1..m /\ i + 1 \in 1..m
      BY <1>4, <1>5, <2>1
    <3>2. QED
      BY <1>4, <1>6, <3>1 DEF Replaces
  <2>2. CASE i = m
    <3>1. n # 0 /\ 1 \in 1..n /\ m \in 1..m /\ r # <<>>
      BY <1>4, <1>5, <2>2
    <3>2. w[i] = s[m] /\ w[i + 1] = r[1]
      BY <1>6, <1>7, <2>2, <3>1
    <3>3. Pair(cmd, a, r[1]) /\ r[1] \in Steps(cmd)
      BY <1>2, <3>1 DEF Following, First
    <3>4. QED
      BY <1>1, <1>4, <3>2, <3>3 DEF Replaces
  <2>3. CASE i > m
    <3>1. i - m \in 1..n - 1 /\ i - m \in 1..n /\ i - m + 1 \in 1..n /\ i = m + (i - m) /\ i + 1 = m + (i - m + 1)
      BY <1>4, <1>5, <2>3
    <3>2. w[i] = r[i - m] /\ w[i + 1] = r[i - m + 1]
      BY <1>7, <3>1
    <3>3. QED
      BY <1>2, <1>4, <3>1, <3>2 DEF Following, Grammar
  <2>4. QED
    BY <1>4, <1>5, <2>1, <2>2, <2>3
<1>10. Final(cmd, w[Len(w)])
  <2>1. CASE n = 0
    <3>1. Len(w) = m /\ m \in 1..m /\ r = <<>>
      BY <1>4, <1>5, <2>1
    <3>2. QED
      BY <1>1, <1>2, <1>4, <1>6, <3>1 DEF Following, Replaces
  <2>2. CASE n # 0
    <3>1. n \in 1..n /\ r # <<>>
      BY <1>4, <2>2
    <3>2. QED
      BY <1>2, <1>4, <1>5, <1>7, <3>1 DEF Following, Grammar
  <2>3. QED
    BY <2>1, <2>2
<1>11. \A i, j \in 1..Len(w) : i < j => Apart(w[i], w[j])
  <2> TAKE i, j \in 1..Len(w)
  <2> HAVE i < j
  <2>1. CASE j \in 1..m
    <3>1. i \in 1..m
      BY <1>4, <1>5, <2>1
    <3>2. QED
      BY <1>4, <1>6, <2>1, <3>1 DEF Replaces
  <2>2. ASSUME i \in 1..m, NEW k \in 1..n, j = m + k PROVE Apart(w[i], w[j])
    <3>1. r[k] \in On(r) /\ w[j] = r[k] /\ w[i] = s[i]
      BY <1>6, <1>7, <2>2
    <3>2. Apart(a, r[k]) /\ r[k] \in Steps(cmd)
      BY <1>2, <3>1 DEF Following
    <3>3. QED
      BY <1>1, <1>4, <2>2, <3>1, <3>2 DEF Replaces
  <2>3. ASSUME NEW l \in 1..n, i = m + l, NEW k \in 1..n, j = m + k PROVE Apart(w[i], w[j])
    <3>1. w[j] = r[k] /\ w[i] = r[l] /\ l < k
      BY <1>4, <1>7, <2>3
    <3>2. QED
      BY <1>2, <1>4, <3>1 DEF Following, Grammar
  <2>4. QED
    BY <1>5, <1>8, <2>1, <2>2, <2>3
<1>12. \A i \in 1..Len(w), b \in Undoing : Undoes(w[i], b) => \E j \in i..Len(w) : w[j] = b
  <2> TAKE i \in 1..Len(w), b \in Undoing
  <2> HAVE Undoes(w[i], b)
  <2>1. CASE i \in 1..m
    <3>1. PICK j \in i..m : s[j] = b
      BY <1>4, <1>6, <2>1 DEF Replaces
    <3>2. j \in 1..m /\ j \in i..Len(w)
      BY <1>4, <1>5, <2>1
    <3>3. QED
      BY <1>6, <3>1, <3>2
  <2>2. ASSUME NEW l \in 1..n, i = m + l PROVE \E j \in i..Len(w) : w[j] = b
    <3>1. PICK j \in l..n : r[j] = b
      BY <1>2, <1>4, <1>7, <2>2 DEF Following, Grammar
    <3>2. j \in 1..n /\ m + j \in i..Len(w)
      BY <1>4, <1>5, <2>2
    <3>3. QED
      BY <1>7, <3>1, <3>2
  <2>3. QED
    BY <1>5, <1>8, <2>1, <2>2
<1>13. w # <<>> /\ First(w) = s[1]
  <2>1. 1 \in 1..m /\ Len(w) # 0
    BY <1>4, <1>5
  <2>2. w # <<>>
    BY <2>1, EmptySeq
  <2>3. QED
    BY <1>6, <2>1, <2>2 DEF First
<1>14. On(w) = On(s) \cup On(r)
  <2>1. ASSUME NEW b \in On(w) PROVE b \in On(s) \cup On(r)
    <3>1. PICK i \in 1..m + n : b = w[i]
      BY <1>5 DEF On
    <3>2. CASE i \in 1..m
      BY <1>4, <1>6, <3>1, <3>2 DEF On
    <3>3. ASSUME NEW k \in 1..n, i = m + k PROVE b \in On(r)
      BY <1>7, <3>1, <3>3
    <3>4. QED
      BY <1>8, <3>2, <3>3
  <2>2. ASSUME NEW i \in 1..m PROVE s[i] \in On(w)
    <3>1. i \in 1..Len(w) /\ s[i] = w[i]
      BY <1>4, <1>5, <1>6
    <3>2. QED
      BY <3>1 DEF On
  <2>3. ASSUME NEW i \in 1..n PROVE r[i] \in On(w)
    <3>1. m + i \in 1..Len(w) /\ r[i] = w[m + i]
      BY <1>4, <1>5, <1>7
    <3>2. QED
      BY <3>1 DEF On
  <2>4. On(s) \cup On(r) \subseteq On(w)
    BY <1>4, <2>2, <2>3 DEF On
  <2>5. QED
    BY <2>1, <2>4
<1>15. Grammar(cmd, w)
  BY <1>5, <1>9, <1>10, <1>11, <1>12, <1>13 DEF Grammar
<1>16. QED
  BY <1>1, <1>4, <1>5, <1>6, <1>7, <1>13, <1>14, <1>15

-----------------------------------------------------------------------------
(* What the operations of queue.c and the walks of show unfold into.         *)

(* The walk of show_queue, guarded by the time limit. *)
LEMMA WalkReplaces ==
  \A cmd : "show" \in Steps(cmd) => Replaces(cmd, "show", <<"ready", "arm", "walk", "disarm", "unready">>)
<1> SUFFICES ASSUME NEW cmd, "show" \in Steps(cmd)
             PROVE  Replaces(cmd, "show", <<"ready", "arm", "walk", "disarm", "unready">>)
  OBVIOUS
<1> DEFINE s == <<"ready", "arm", "walk", "disarm", "unready">>
<1>1. s \in Seq(Steps(cmd))
  <2>1. {"ready", "arm", "walk", "disarm", "unready"} \subseteq Steps(cmd)
    <3>1. cmd \in {"new", "free", "ih", "reverse", "size"} \cup RH
      BY DEF Steps, Show
    <3>2. QED
      BY <3>1 DEF Steps, Show, Freeing, RH
  <2>2. QED
    BY <2>1
<1>2. Len(s) = 5 /\ s # <<>> /\ s[1] = "ready" /\ s[2] = "arm" /\ s[3] = "walk" /\ s[4] = "disarm" /\ s[5] = "unready"
  OBVIOUS
<1>3. \A i \in 1..Len(s) - 1 : Pair(cmd, s[i], s[i + 1])
  BY <1>2 DEF Pair, Inner
<1>4. \A b \in Steps(cmd) : Pair(cmd, "show", b) => Pair(cmd, s[Len(s)], b)
  BY <1>2 DEF Pair, Inner
<1>5. Final(cmd, "show") => Final(cmd, s[Len(s)])
  BY <1>2 DEF Final
<1>6. \A i, j \in 1..Len(s) : i < j => Apart(s[i], s[j])
  BY <1>2 DEF Apart, Making
<1>7. \A i \in 1..Len(s), b \in Steps(cmd) : Apart("show", b) => Apart(s[i], b)
  BY <1>2 DEF Apart, Making
<1>8. \A i \in 1..Len(s), b \in Undoing : Undoes(s[i], b) => \E j \in i..Len(s) : s[j] = b
  BY <1>2 DEF Undoing, Undoes
<1>9. QED
  BY <1>1, <1>2, <1>3, <1>4, <1>5, <1>6, <1>7, <1>8 DEF Replaces

(* q_new: malloc in two steps, then the header. *)
LEMMA QNewReplaces ==
  \A cmd : "q_new" \in Steps(cmd) => Replaces(cmd, "q_new", <<"link", "linked", "header">>)
<1> SUFFICES ASSUME NEW cmd, "q_new" \in Steps(cmd)
             PROVE  Replaces(cmd, "q_new", <<"link", "linked", "header">>)
  OBVIOUS
<1> DEFINE s == <<"link", "linked", "header">>
<1>1. s \in Seq(Steps(cmd))
  <2>1. {"link", "linked", "header"} \subseteq Steps(cmd)
    BY DEF Steps, Show, Freeing, RH
  <2>2. QED
    BY <2>1
<1>2. Len(s) = 3 /\ s # <<>> /\ s[1] = "link" /\ s[2] = "linked" /\ s[3] = "header"
  OBVIOUS
<1>3. /\ \A i \in 1..Len(s) - 1 : Pair(cmd, s[i], s[i + 1])
      /\ \A b \in Steps(cmd) : Pair(cmd, "q_new", b) => Pair(cmd, s[Len(s)], b)
  BY <1>2 DEF Pair, Inner
<1>4. Final(cmd, "q_new") => Final(cmd, s[Len(s)])
  BY <1>2 DEF Final
<1>5. /\ \A i, j \in 1..Len(s) : i < j => Apart(s[i], s[j])
      /\ \A i \in 1..Len(s), b \in Steps(cmd) : Apart("q_new", b) => Apart(s[i], b)
  BY <1>2 DEF Apart, Making
<1>6. \A i \in 1..Len(s), b \in Undoing : Undoes(s[i], b) => \E j \in i..Len(s) : s[j] = b
  BY <1>2 DEF Undoing, Undoes
<1>7. QED
  BY <1>1, <1>2, <1>3, <1>4, <1>5, <1>6 DEF Replaces

(* One turn of the loop of do_insert_head. *)
LEMMA InsertReplaces ==
  \A cmd : "repeat" \in Steps(cmd) => Replaces(cmd, "repeat", <<"link", "linked", "attach", "grow", "inserted", "repeat">>)
<1> SUFFICES ASSUME NEW cmd, "repeat" \in Steps(cmd)
             PROVE  Replaces(cmd, "repeat", <<"link", "linked", "attach", "grow", "inserted", "repeat">>)
  OBVIOUS
<1> DEFINE s == <<"link", "linked", "attach", "grow", "inserted", "repeat">>
<1>1. s \in Seq(Steps(cmd))
  <2>1. {"link", "linked", "attach", "grow", "inserted", "repeat"} \subseteq Steps(cmd)
    BY DEF Steps, Show, Freeing, RH
  <2>2. QED
    BY <2>1
<1>2. Len(s) = 6 /\ s # <<>> /\ s[1] = "link" /\ s[2] = "linked" /\ s[3] = "attach" /\ s[4] = "grow" /\ s[5] = "inserted" /\ s[6] = "repeat"
  OBVIOUS
<1>3. /\ \A i \in 1..Len(s) - 1 : Pair(cmd, s[i], s[i + 1])
      /\ \A b \in Steps(cmd) : Pair(cmd, "repeat", b) => Pair(cmd, s[Len(s)], b)
  BY <1>2 DEF Pair, Inner
<1>4. Final(cmd, "repeat") => Final(cmd, s[Len(s)])
  BY <1>2 DEF Final
<1>5. /\ \A i, j \in 1..Len(s) : i < j => Apart(s[i], s[j])
      /\ \A i \in 1..Len(s), b \in Steps(cmd) : Apart("repeat", b) => Apart(s[i], b)
  <2>1. "dropped" \notin Steps(cmd) /\ "q_free" \notin Steps(cmd)
    BY DEF Steps, Show, Freeing, RH
  <2>2. QED
    BY <1>2, <2>1 DEF Apart, Making
<1>6. \A i \in 1..Len(s), b \in Undoing : Undoes(s[i], b) => \E j \in i..Len(s) : s[j] = b
  BY <1>2 DEF Undoing, Undoes
<1>7. QED
  BY <1>1, <1>2, <1>3, <1>4, <1>5, <1>6 DEF Replaces

(* The loop of do_insert_head goes on. *)
LEMMA InsertedReplaces ==
  \A cmd : "repeat" \in Steps(cmd) => Replaces(cmd, "repeat", <<"inserted", "repeat">>)
<1> SUFFICES ASSUME NEW cmd, "repeat" \in Steps(cmd)
             PROVE  Replaces(cmd, "repeat", <<"inserted", "repeat">>)
  OBVIOUS
<1> DEFINE s == <<"inserted", "repeat">>
<1>1. s \in Seq(Steps(cmd))
  <2>1. {"inserted", "repeat"} \subseteq Steps(cmd)
    BY DEF Steps, Show, Freeing, RH
  <2>2. QED
    BY <2>1
<1>2. Len(s) = 2 /\ s # <<>> /\ s[1] = "inserted" /\ s[2] = "repeat"
  OBVIOUS
<1>3. /\ \A i \in 1..Len(s) - 1 : Pair(cmd, s[i], s[i + 1])
      /\ \A b \in Steps(cmd) : Pair(cmd, "repeat", b) => Pair(cmd, s[Len(s)], b)
  BY <1>2 DEF Pair, Inner
<1>4. Final(cmd, "repeat") => Final(cmd, s[Len(s)])
  BY <1>2 DEF Final
<1>5. /\ \A i, j \in 1..Len(s) : i < j => Apart(s[i], s[j])
      /\ \A i \in 1..Len(s), b \in Steps(cmd) : Apart("repeat", b) => Apart(s[i], b)
  BY <1>2 DEF Apart, Making
<1>6. \A i \in 1..Len(s), b \in Undoing : Undoes(s[i], b) => \E j \in i..Len(s) : s[j] = b
  BY <1>2 DEF Undoing, Undoes
<1>7. QED
  BY <1>1, <1>2, <1>3, <1>4, <1>5, <1>6 DEF Replaces

(* q_remove_head: the cell is taken off and freed in two steps. *)
LEMMA QRemoveReplaces ==
  \A cmd : "q_remove" \in Steps(cmd) => Replaces(cmd, "q_remove", <<"detach", "unlink", "unlinked", "shrink">>)
<1> SUFFICES ASSUME NEW cmd, "q_remove" \in Steps(cmd)
             PROVE  Replaces(cmd, "q_remove", <<"detach", "unlink", "unlinked", "shrink">>)
  OBVIOUS
<1> DEFINE s == <<"detach", "unlink", "unlinked", "shrink">>
<1>1. s \in Seq(Steps(cmd))
  <2>1. {"detach", "unlink", "unlinked", "shrink"} \subseteq Steps(cmd)
    BY DEF Steps, Show, Freeing, RH
  <2>2. QED
    BY <2>1
<1>2. Len(s) = 4 /\ s # <<>> /\ s[1] = "detach" /\ s[2] = "unlink" /\ s[3] = "unlinked" /\ s[4] = "shrink"
  OBVIOUS
<1>3. /\ \A i \in 1..Len(s) - 1 : Pair(cmd, s[i], s[i + 1])
      /\ \A b \in Steps(cmd) : Pair(cmd, "q_remove", b) => Pair(cmd, s[Len(s)], b)
  <2>1. cmd \in RH
    BY DEF Steps, Show, Freeing
  <2>2. QED
    BY <1>2, <2>1 DEF Pair, Inner
<1>4. Final(cmd, "q_remove") => Final(cmd, s[Len(s)])
  BY <1>2 DEF Final
<1>5. /\ \A i, j \in 1..Len(s) : i < j => Apart(s[i], s[j])
      /\ \A i \in 1..Len(s), b \in Steps(cmd) : Apart("q_remove", b) => Apart(s[i], b)
  BY <1>2 DEF Apart, Making
<1>6. \A i \in 1..Len(s), b \in Undoing : Undoes(s[i], b) => \E j \in i..Len(s) : s[j] = b
  BY <1>2 DEF Undoing, Undoes
<1>7. QED
  BY <1>1, <1>2, <1>3, <1>4, <1>5, <1>6 DEF Replaces

(* q_reverse on more than one cell. *)
LEMMA QReverseReplaces ==
  \A cmd : "q_reverse" \in Steps(cmd) => Replaces(cmd, "q_reverse", <<"turned">>)
<1> SUFFICES ASSUME NEW cmd, "q_reverse" \in Steps(cmd)
             PROVE  Replaces(cmd, "q_reverse", <<"turned">>)
  OBVIOUS
<1> DEFINE s == <<"turned">>
<1>1. s \in Seq(Steps(cmd))
  <2>1. {"turned"} \subseteq Steps(cmd)
    BY DEF Steps, Show, Freeing, RH
  <2>2. QED
    BY <2>1
<1>2. Len(s) = 1 /\ s # <<>> /\ s[1] = "turned"
  OBVIOUS
<1>3. /\ \A i \in 1..Len(s) - 1 : Pair(cmd, s[i], s[i + 1])
      /\ \A b \in Steps(cmd) : Pair(cmd, "q_reverse", b) => Pair(cmd, s[Len(s)], b)
  BY <1>2 DEF Pair, Inner
<1>4. Final(cmd, "q_reverse") => Final(cmd, s[Len(s)])
  BY <1>2 DEF Final
<1>5. /\ \A i, j \in 1..Len(s) : i < j => Apart(s[i], s[j])
      /\ \A i \in 1..Len(s), b \in Steps(cmd) : Apart("q_reverse", b) => Apart(s[i], b)
  BY <1>2 DEF Apart, Making
<1>6. \A i \in 1..Len(s), b \in Undoing : Undoes(s[i], b) => \E j \in i..Len(s) : s[j] = b
  BY <1>2 DEF Undoing, Undoes
<1>7. QED
  BY <1>1, <1>2, <1>3, <1>4, <1>5, <1>6 DEF Replaces

(* The command show on a queue. *)
LEMMA ShowingReplaces ==
  \A cmd : "showing" \in Steps(cmd) => Replaces(cmd, "showing", <<"ready", "arm", "walk", "disarm", "unready", "shown">>)
<1> SUFFICES ASSUME NEW cmd, "showing" \in Steps(cmd)
             PROVE  Replaces(cmd, "showing", <<"ready", "arm", "walk", "disarm", "unready", "shown">>)
  OBVIOUS
<1> DEFINE s == <<"ready", "arm", "walk", "disarm", "unready", "shown">>
<1>1. s \in Seq(Steps(cmd))
  <2>1. {"ready", "arm", "walk", "disarm", "unready", "shown"} \subseteq Steps(cmd)
    BY DEF Steps, Show, Freeing, RH
  <2>2. QED
    BY <2>1
<1>2. Len(s) = 6 /\ s # <<>> /\ s[1] = "ready" /\ s[2] = "arm" /\ s[3] = "walk" /\ s[4] = "disarm" /\ s[5] = "unready" /\ s[6] = "shown"
  OBVIOUS
<1>3. /\ \A i \in 1..Len(s) - 1 : Pair(cmd, s[i], s[i + 1])
      /\ \A b \in Steps(cmd) : Pair(cmd, "showing", b) => Pair(cmd, s[Len(s)], b)
  BY <1>2 DEF Pair, Inner
<1>4. Final(cmd, "showing") => Final(cmd, s[Len(s)])
  BY <1>2 DEF Final
<1>5. /\ \A i, j \in 1..Len(s) : i < j => Apart(s[i], s[j])
      /\ \A i \in 1..Len(s), b \in Steps(cmd) : Apart("showing", b) => Apart(s[i], b)
  BY <1>2 DEF Apart, Making
<1>6. \A i \in 1..Len(s), b \in Undoing : Undoes(s[i], b) => \E j \in i..Len(s) : s[j] = b
  BY <1>2 DEF Undoing, Undoes
<1>7. QED
  BY <1>1, <1>2, <1>3, <1>4, <1>5, <1>6 DEF Replaces

(* The steps of n calls of free, one after the other. *)
LEMMA FreesIs ==
  ASSUME NEW n \in Nat
  PROVE  /\ Len(Frees(n)) = 2 * n /\ DOMAIN Frees(n) = 1..2 * n
         /\ \A i \in 1..n : Frees(n)[2 * i - 1] = "unlink" /\ Frees(n)[2 * i] = "unlinked"
         /\ \A i \in 1..2 * n : \/ Frees(n)[i] = "unlink" /\ (i < 2 * n => Frees(n)[i + 1] = "unlinked") /\ i # 2 * n
                                \/ Frees(n)[i] = "unlinked" /\ (i < 2 * n => Frees(n)[i + 1] = "unlink")
         /\ Frees(n) \in Seq({"unlink", "unlinked"})
<1>1. \A i \in 1..2 * n : Frees(n)[i] = IF i % 2 = 1 THEN "unlink" ELSE "unlinked"
  BY DEF Frees
<1>2. 2 * n \in Nat
  OBVIOUS
<1>3. Frees(n) \in Seq({"unlink", "unlinked"}) /\ Len(Frees(n)) = 2 * n /\ DOMAIN Frees(n) = 1..2 * n
  <2>1. Frees(n) \in [1..2 * n -> {"unlink", "unlinked"}]
    BY DEF Frees
  <2>2. QED
    BY <1>2, <2>1, SeqDef, LenProperties
<1>4. \A i \in 1..n : Frees(n)[2 * i - 1] = "unlink" /\ Frees(n)[2 * i] = "unlinked"
  <2> TAKE i \in 1..n
  <2>1. 2 * i - 1 \in 1..2 * n /\ 2 * i \in 1..2 * n /\ (2 * i - 1) % 2 = 1 /\ (2 * i) % 2 = 0
    OBVIOUS
  <2>2. QED
    BY <1>1, <2>1
<1>5. ASSUME NEW i \in 1..2 * n
      PROVE  \/ Frees(n)[i] = "unlink" /\ (i < 2 * n => Frees(n)[i + 1] = "unlinked") /\ i # 2 * n
             \/ Frees(n)[i] = "unlinked" /\ (i < 2 * n => Frees(n)[i + 1] = "unlink")
  <2>1. CASE i % 2 = 1
    <3>1. (i + 1) % 2 # 1 /\ i # 2 * n
      BY <2>1
    <3>2. QED
      BY <1>1, <2>1, <3>1
  <2>2. CASE i % 2 # 1
    <3>1. (i + 1) % 2 = 1
      BY <2>2
    <3>2. QED
      BY <1>1, <2>2, <3>1
  <2>3. QED
    BY <2>1, <2>2
<1>6. QED
  BY <1>3, <1>4, <1>5

(* q_free on a queue of any length. *)
LEMMA FreesReplaces ==
  ASSUME NEW cmd, "q_free" \in Steps(cmd), NEW n \in Nat \ {0}
  PROVE  Replaces(cmd, "q_free", Frees(n))
<1> DEFINE s == Frees(n)
<1>1. n \in Nat /\ Len(s) = 2 * n /\ 2 * n \in Nat \ {0}
  BY FreesIs
<1>2. {"unlink", "unlinked"} \subseteq Steps(cmd) /\ cmd \notin RH
  BY DEF Steps, Show, Freeing, RH
<1>3. s \in Seq(Steps(cmd)) /\ s # <<>>
  <2>1. s \in Seq({"unlink", "unlinked"})
    BY <1>1, FreesIs
  <2>2. \A i \in 1..Len(s) : s[i] \in {"unlink", "unlinked"}
    BY <2>1, ElementOfSeq
  <2>3. s \in Seq(Steps(cmd))
    BY <1>2, <2>1, <2>2, SeqMonotonic
  <2>4. QED
    BY <1>1, <2>3, EmptySeq
<1>4. \A i \in 1..2 * n : \/ s[i] = "unlink" /\ (i < 2 * n => s[i + 1] = "unlinked") /\ i # 2 * n
                          \/ s[i] = "unlinked" /\ (i < 2 * n => s[i + 1] = "unlink")
  BY <1>1, FreesIs
<1>5. \A i \in 1..Len(s) - 1 : Pair(cmd, s[i], s[i + 1])
  <2> TAKE i \in 1..Len(s) - 1
  <2>1. \/ s[i] = "unlink" /\ s[i + 1] = "unlinked"
        \/ s[i] = "unlinked" /\ s[i + 1] = "unlink"
    BY <1>1, <1>4
  <2>2. QED
    BY <1>2, <2>1 DEF Pair, Inner
<1>6. s[Len(s)] = "unlinked"
  BY <1>1, <1>4
<1>7. \A b \in Steps(cmd) : Pair(cmd, "q_free", b) => Pair(cmd, "unlinked", b)
  BY <1>2 DEF Pair, Inner
<1>8. Final(cmd, "q_free") => Final(cmd, "unlinked")
  BY DEF Final
<1>9. /\ \A i, j \in 1..Len(s) : i < j => Apart(s[i], s[j])
      /\ \A i \in 1..Len(s), b \in Steps(cmd) : Apart("q_free", b) => Apart(s[i], b)
      /\ \A i \in 1..Len(s), b \in Undoing : Undoes(s[i], b) => \E j \in i..Len(s) : s[j] = b
  <2>1. \A i \in 1..Len(s) : s[i] \in {"unlink", "unlinked"}
    BY <1>1, <1>4
  <2>2. QED
    BY <2>1 DEF Apart, Making, Undoes
<1>10. QED
  BY <1>3, <1>5, <1>6, <1>7, <1>8, <1>9 DEF Replaces

-----------------------------------------------------------------------------
(* The invariant.                                                            *)

AllSteps == Inner \cup Freeing \cup {"uncalled", "called_malloc", "removed", "noallocate_on", "noallocate_off",
                                     "sized", "showing", "shown"}

File == [fd : Descriptors, left : Nat, buf : Nat]
ConType == [stack : Seq(File), fds : SUBSET Descriptors, log : {"none", "open", "closed", "stale"},
            logfd : Descriptors, held : Nat, quit : BOOLEAN, err_cnt : Nat, err_limit : Nat, fail : BOOLEAN, verbose : BOOLEAN]
HarType == [list : Nat, count : Int, called_malloc : BOOLEAN, error_occurred : BOOLEAN,
            cautious : BOOLEAN, noallocate : BOOLEAN, jmp_ready : BOOLEAN, alarm : BOOLEAN]
QueType == [q : BOOLEAN, chain : Nat, size : Int, qcnt : Int, fail_count : Nat, broken : BOOLEAN]
RunType == [cmd : Commands \cup {"none"}, ok : BOOLEAN, rval : BOOLEAN, reps : Nat, cnt : Int,
            todo : Seq(AllSteps), cut : BOOLEAN]

Types ==
    /\ con \in ConType /\ har \in HarType /\ que \in QueType /\ run \in RunType
    /\ phase \in {"run", "finish", "exit", "spin"} /\ status \in {0, 1} /\ helped \in BOOLEAN
    /\ cuts \in Nat /\ lost \subseteq Commands

hd == First(run.todo)
Has(a) == a \in On(run.todo)

(* Every mode that is on will be put off; the alarm only rings over the
   operations and the walk. *)
Modes ==
    /\ har.alarm => har.jmp_ready /\ hd \in Inner \cup {"disarm"}
    /\ hd = "arm" => har.jmp_ready /\ ~har.alarm
    /\ hd = "unready" => ~har.alarm
    /\ har.jmp_ready => Has("unready")
    /\ har.noallocate => Has("noallocate_off")
    /\ ~har.cautious => Has("cautious")

(* Between the two steps of malloc or free the count is behind the list. *)
Behind == IF hd = "linked" THEN 1 ELSE IF hd = "unlinked" THEN -1 ELSE 0
Difference == har.count - har.list + Behind \in -cuts..cuts

(* k is 1 in the middle of a free; n more blocks are then to be freed. *)
FreesLeft(t, k, n) ==
    /\ 2 * n + k < Len(t) /\ t[2 * n + k + 1] = "disarm"
    /\ \A i \in 1..n : t[2 * i + k - 1] = "unlink" /\ t[2 * i + k] = "unlinked"

(* The blocks that must be on the list, and are the only ones before a cut:
   those of the queue; in a free, those still to be freed. *)
AtLeast(n) == har.list >= n /\ (cuts = 0 => har.list = n)
Freed == (run.cmd = "quit" \/ Has("dropped")) /\ ~Has("q_free")
Freer == {"unlink", "unlinked"}
Extra == IF hd \in {"linked", "header", "attach"} \/ (hd = "unlink" /\ run.cmd \in RH) THEN 1 ELSE 0
Chain == IF hd = "turned" THEN run.cnt + 1 ELSE IF que.q THEN que.chain + 1 ELSE 0
Gone == run.cmd = "none" /\ helped
Owned ==
    /\ Has("q_free") => run.cmd = "quit" \/ Has("dropped")
    /\ hd \in Freer => Freed \/ run.cmd \in RH
    /\ ~Freed /\ ~Gone => AtLeast(Extra + Chain)
    /\ Gone \/ (Freed /\ hd \notin Freer) => AtLeast(0)
    /\ Freed /\ hd = "unlink" => \E n \in Nat : FreesLeft(run.todo, 0, n) /\ AtLeast(n)
    /\ Freed /\ hd = "unlinked" => \E n \in Nat : FreesLeft(run.todo, 1, n) /\ AtLeast(n)

(* A queue that is dropped is not shown before. *)
Waits(t) == \A i \in 1..Len(t) : t[i] \in {"show", "walk"} => \E j \in 1..i : t[j] = "dropped"
Queue ==
    /\ ~que.q => que.chain = 0
    /\ hd = "detach" => que.chain > 0
    /\ hd = "turned" => run.cnt > 1 /\ que.chain = 1 /\ que.q
    /\ Has("attach") => que.q
    /\ Has("q_new") \/ Has("header") => ~que.q \/ Has("dropped")
    /\ run.cmd \in {"new", "free"} => que.chain = 0 \/ Waits(run.todo)
    /\ Has("walk") => con.verbose \/ run.cmd = "show"

(* The commands that a cut makes fail. *)
Showy == {"rh", "rh_v", "reverse", "size"}
Sure == {"new", "free"} \cup IF con.verbose THEN {} ELSE Showy
Caught == \/ ~run.ok /\ ~Has("counted") /\ ~Has("removed")
          \/ har.error_occurred /\ Has("end") /\ hd # "checked"
Cuts ==
    /\ run.cut /\ run.cmd \in Sure => Caught
    /\ run.cut => cuts > 0
    /\ lost \subseteq {"ih", "show", "quit"} \cup (IF con.verbose THEN Showy ELSE {})
    /\ cuts > 0 => run.cut \/ con.err_cnt > 0 \/ lost # {} \/ (phase = "exit" /\ status = 1)
    /\ "quit" \in lost => har.count = 0 /\ helped /\ run.cmd = "none"

(* The memory of the console, and the way to the end. *)
Lined == IF run.cmd # "none" /\ phase = "run" THEN 1 ELSE 0
Ends ==
    /\ con.held = Lined + IF helped THEN 0 ELSE Lists + Len(con.stack)
    /\ helped => con.stack = <<>>
    /\ con.quit => (helped \/ con.err_cnt > 0) /\ run.cmd = "none"
    /\ helped /\ phase = "run" => run.cmd = "quit" \/ con.quit
    /\ run.cmd = "quit" => helped
    /\ phase = "finish" => run.cmd = "quit" /\ con.err_cnt = 0
    /\ phase \in {"exit", "spin"} => run.cmd = "none"
    /\ phase = "spin" => ~helped
    /\ run.cmd = "quit" /\ run.todo = <<>> /\ run.ok => har.count = 0
    /\ helped /\ run.cmd = "none" /\ con.err_cnt = 0 /\ phase = "run" => har.count = 0
    /\ phase = "exit" /\ status = 0 => helped /\ har.count = 0 /\ con.err_cnt = 0
    /\ run.cmd = "none" => run = Idle

Inv == Types /\ Grammar(run.cmd, run.todo) /\ Modes /\ Difference /\ Owned /\ Queue /\ Cuts /\ Ends

-----------------------------------------------------------------------------
(* One step of a command: a is done, and s takes its place.                  *)

Moved(a, s) ==
    /\ run.cmd \in Commands /\ run'.cmd = run.cmd /\ run'.cut = run.cut /\ run' \in RunType
    /\ Following(run.cmd, run.todo, a, Tail(run.todo)) /\ run.todo # <<>>
    /\ run'.todo = s \o Tail(run.todo) /\ Grammar(run.cmd, run'.todo)
    /\ On(run'.todo) = On(s) \cup On(Tail(run.todo)) /\ (s # <<>> => run'.todo # <<>>)
    /\ hd = a /\ hd' = IF s = <<>> THEN First(Tail(run.todo)) ELSE s[1]

(* Only commands have steps. *)
LEMMA StepsAre == \A cmd : Steps(cmd) \subseteq AllSteps /\ (Steps(cmd) # {} => cmd \in Commands)
<1>1. \A cmd : Steps(cmd) # {} => cmd \in Commands
  BY DEF Steps, Commands, RH
<1>2. ASSUME NEW cmd \in Commands PROVE Steps(cmd) \subseteq AllSteps
  BY <1>2 DEF Commands, Steps, RH, AllSteps, Inner, Freeing, Show
<1>3. QED
  BY <1>1, <1>2

(* The fields of run' when only some are set. *)
LEMMA RunSet ==
  ASSUME run \in RunType, NEW w, NEW ok, NEW rval, NEW reps, NEW cnt, NEW new,
         new = [run EXCEPT !.todo = w, !.ok = ok, !.rval = rval, !.reps = reps, !.cnt = cnt]
  PROVE  new = [cmd |-> run.cmd, ok |-> ok, rval |-> rval, reps |-> reps, cnt |-> cnt, todo |-> w, cut |-> run.cut]
  BY DEF RunType

(* A step that only sets locals of the command and unfolds into s. *)
LEMMA MovedIs ==
  ASSUME Inv, NEW a, NEW s, s = <<>> \/ Replaces(run.cmd, a, s), run.todo # <<>>, Head(run.todo) = a,
         NEW ok \in BOOLEAN, NEW rval \in BOOLEAN, NEW reps \in Nat, NEW cnt \in Int,
         run' = [cmd |-> run.cmd, ok |-> ok, rval |-> rval, reps |-> reps, cnt |-> cnt,
                 todo |-> s \o Tail(run.todo), cut |-> run.cut]
  PROVE  Moved(a, s)
<1>1. PICK cmd, t, r : cmd = run.cmd /\ t = run.todo /\ r = Tail(t)
  OBVIOUS
<1>2. Grammar(cmd, t) /\ run \in RunType
  BY <1>1 DEF Inv, Types
<1>3. Following(cmd, t, a, r) /\ t[1] = a
  BY <1>1, <1>2, TailFollows
<1>4. cmd \in Commands /\ Grammar(cmd, r) /\ First(t) = a
  BY <1>3, StepsAre DEF Following
<1>5. CASE s = <<>>
  <2>1. s \o r = r /\ On(s) = {}
    BY <1>4, <1>5, ConcatEmptySeq, NothingLeft DEF Grammar
  <2>2. r \in Seq(AllSteps)
    <3>1. r \in Seq(Steps(cmd)) /\ Steps(cmd) \subseteq AllSteps
      BY <1>4, StepsAre DEF Grammar
    <3>2. QED
      BY <3>1, SeqMonotonic, ElementOfSeq
  <2>3. run' \in RunType
    BY <1>1, <1>2, <2>1, <2>2 DEF RunType
  <2>4. QED
    BY <1>1, <1>3, <1>4, <1>5, <2>1, <2>3 DEF Moved, hd
<1>6. CASE s # <<>>
  <2>1. Replaces(cmd, t[1], s)
    BY <1>1, <1>3, <1>6
  <2>2. Grammar(cmd, s \o r) /\ First(s \o r) = s[1] /\ On(s \o r) = On(s) \cup On(r) /\ s \o r # <<>>
    BY <1>1, <1>2, <2>1, SpliceIs
  <2>3. s \o r \in Seq(AllSteps)
    <3>1. s \o r \in Seq(Steps(cmd)) /\ Steps(cmd) \subseteq AllSteps
      BY <2>2, StepsAre DEF Grammar
    <3>2. QED
      BY <3>1, SeqMonotonic, ElementOfSeq
  <2>4. run' \in RunType
    BY <1>1, <1>2, <2>3 DEF RunType
  <2>5. QED
    BY <1>1, <1>3, <1>4, <1>6, <2>2, <2>4 DEF Moved, hd
<1>7. QED
  BY <1>5, <1>6

(* What most steps leave alone. *)
Framed == /\ UNCHANGED <<phase, status, helped, cuts, lost>> /\ con' \in ConType
          /\ con'.verbose = con.verbose /\ con'.held = con.held /\ con'.stack = con.stack
          /\ con'.quit = con.quit /\ con'.err_cnt = con.err_cnt
SameModes == /\ har'.jmp_ready = har.jmp_ready /\ har'.alarm = har.alarm
             /\ har'.noallocate = har.noallocate /\ har'.cautious = har.cautious
SameBlocks == har'.list = har.list /\ har'.count = har.count
SameQueue == que'.q = que.q /\ que'.chain = que.chain

ModeSteps == {"ready", "arm", "disarm", "unready", "noallocate_on", "noallocate_off", "maybe_bold", "cautious"}

(* A step that sets no mode keeps Modes, if what it unfolds into stays under the alarm. *)
LEMMA ModesKept ==
  ASSUME Inv, NEW a, NEW s, Moved(a, s), SameModes, a \notin ModeSteps,
         s # <<>> => s[1] \in (IF a \in Inner THEN Inner ELSE {"ready"})
  PROVE  Modes'
<1>1. Modes /\ hd = a
  BY DEF Inv, Moved
<1>2. PICK r : r = Tail(run.todo) /\ Following(run.cmd, run.todo, a, r)
  BY DEF Moved
<1>3. On(run.todo) \ {a} \subseteq On(run'.todo)
  BY <1>2 DEF Moved, Following
<1>4. \A b \in Undoing : Has(b) => Has(b)'
  BY <1>3 DEF Has, Undoing, ModeSteps
<1>5. /\ hd' # "arm" /\ hd' # "unready"
      /\ a \in Inner => hd' \in Inner \cup {"disarm"}
  <2>1. CASE s = <<>> /\ r # <<>>
    BY <1>2, <2>1 DEF Moved, Following, Pair, ModeSteps
  <2>2. CASE s = <<>> /\ r = <<>>
    <3>1. hd' = "none" /\ Final(run.cmd, a)
      BY <1>2, <2>2 DEF Moved, Following
    <3>2. a \notin Inner
      BY <3>1 DEF Final, Inner, ModeSteps
    <3>3. QED
      BY <3>1, <3>2
  <2>3. CASE s # <<>>
    BY <2>3 DEF Moved, Inner
  <2>4. QED
    BY <2>1, <2>2, <2>3
<1>6. har.alarm => a \in Inner
  BY <1>1 DEF Modes, ModeSteps
<1>7. QED
  BY <1>1, <1>4, <1>5, <1>6 DEF Modes, SameModes, Undoing

(* Where a step leads. *)
LEMMA Leads ==
  ASSUME NEW a, NEW s, Moved(a, s)
  PROVE  /\ s = <<>> => \/ run'.todo # <<>> /\ Pair(run.cmd, a, hd')
                        \/ run'.todo = <<>> /\ Final(run.cmd, a) /\ hd' = "none"
         /\ s # <<>> => hd' = s[1]
         /\ run'.todo = <<>> <=> hd' = "none"
         /\ hd' # "none" => hd' \in On(run'.todo)
<1>1. PICK r : r = Tail(run.todo) /\ Following(run.cmd, run.todo, a, r)
  BY DEF Moved
<1>2. CASE s = <<>>
  <2>1. run'.todo = r
    BY <1>1, <1>2, ConcatEmptySeq DEF Moved, Following, Grammar
  <2>2. "none" \notin On(r)
    BY <1>1, StepNames DEF Following
  <2>3. QED
    BY <1>1, <1>2, <2>1, <2>2 DEF Moved, Following
<1>3. CASE s # <<>>
  <2>1. hd' = s[1]
    BY <1>3 DEF Moved
  <2>2. Grammar(run.cmd, run'.todo) /\ run'.todo # <<>> => run'.todo[1] \in On(run'.todo) /\ run'.todo[1] \in Steps(run.cmd)
    <3>1. SUFFICES ASSUME Grammar(run.cmd, run'.todo), run'.todo # <<>>
                   PROVE  run'.todo[1] \in On(run'.todo) /\ run'.todo[1] \in Steps(run.cmd)
      OBVIOUS
    <3>2. 1 \in 1..Len(run'.todo)
      BY <3>1, LenProperties, EmptySeq DEF Grammar
    <3>3. QED
      BY <3>1, <3>2, ElementOfSeq DEF On, Grammar
  <2>3. QED
    <3>1. run'.todo # <<>> /\ Grammar(run.cmd, run'.todo)
      BY <1>3 DEF Moved
    <3>2. hd' = run'.todo[1]
      BY <3>1 DEF hd, First
    <3>3. hd' \in On(run'.todo) /\ hd' # "none"
      BY <2>2, <3>1, <3>2, StepNames
    <3>4. QED
      BY <1>3, <2>1, <3>1, <3>3
<1>4. QED
  BY <1>2, <1>3

(* What a step must do to the count and the list to keep Difference. *)
LEMMA DifferenceKept ==
  ASSUME Inv, NEW a, NEW s, Moved(a, s), Framed, SameBlocks, a \notin {"link", "linked", "unlink", "unlinked"},
         s # <<>> => s[1] \notin {"linked", "unlinked"}
  PROVE  Difference'
<1>1. Difference /\ hd = a /\ cuts' = cuts
  BY DEF Inv, Moved, Framed
<1>2. hd' \notin {"linked", "unlinked"}
  BY Leads DEF Pair
<1>3. Behind' = Behind
  BY <1>1, <1>2 DEF Behind
<1>4. QED
  BY <1>1, <1>3 DEF Difference, SameBlocks

Owners == {"linked", "header", "attach", "turned"} \cup Freer

(* What a step must do to the list and the queue to keep Owned. *)
LEMMA OwnedKept ==
  ASSUME Inv, NEW a, NEW s, Moved(a, s), Framed, SameBlocks, SameQueue,
         a \notin {"link", "detach", "dropped", "q_free"} \cup Owners,
         s # <<>> => s[1] \notin Owners, On(s) \cap {"dropped", "q_free"} = {}
  PROVE  Owned'
<1>1. Owned /\ hd = a /\ cuts' = cuts /\ run.cmd # "none" /\ run'.cmd = run.cmd
  BY DEF Inv, Moved, Framed, Commands
<1>2. hd' \notin Owners
  BY Leads DEF Pair, Owners, Freer
<1>3. Extra' = 0 /\ Extra = 0 /\ Chain' = Chain
  BY <1>1, <1>2 DEF Extra, Chain, SameQueue, Owners, Freer
<1>4. \A b \in {"dropped", "q_free"} : Has(b)' <=> Has(b)
  BY DEF Moved, Following, Has
<1>5. Freed' <=> Freed
  BY <1>1, <1>4 DEF Freed
<1>6. \A n : AtLeast(n)' <=> AtLeast(n)
  BY <1>1 DEF AtLeast, SameBlocks
<1>7. ~Gone /\ ~Gone'
  BY <1>1 DEF Gone
<1>8. ~Freed => AtLeast(Extra + Chain)'
  BY <1>1, <1>3, <1>6, <1>7 DEF Owned
<1>9. Freed => AtLeast(0)'
  BY <1>1, <1>6 DEF Owned, Owners, Freer
<1>10. Has("q_free")' => run'.cmd = "quit" \/ Has("dropped")'
  BY <1>1, <1>4 DEF Owned
<1>11. QED
  BY <1>2, <1>5, <1>7, <1>8, <1>9, <1>10 DEF Owned, Owners, Freer

(* A step that forgets neither a verdict nor an error keeps Cuts. *)
LEMMA CutsKept ==
  ASSUME Inv, NEW a, NEW s, Moved(a, s), Framed, ~run.ok => ~run'.ok, har.error_occurred => har'.error_occurred,
         a \notin {"checked", "end"}, On(s) \cap {"counted", "removed", "checked"} = {},
         s # <<>> => s[1] \in On(s)
  PROVE  Cuts'
<1>1. Cuts /\ hd = a /\ run'.cmd = run.cmd /\ run.cmd # "none" /\ run'.cut = run.cut
  BY DEF Inv, Moved, Commands
<1>2. /\ Has("counted")' => Has("counted")
      /\ Has("removed")' => Has("removed")
      /\ Has("end") => Has("end")'
  BY DEF Moved, Following, Has
<1>3. hd' # "checked"
  BY Leads DEF Pair
<1>4. Caught => Caught'
  BY <1>2, <1>3 DEF Caught
<1>5. QED
  BY <1>1, <1>4 DEF Cuts, Framed, Sure

(* No show before the queue is dropped. *)
LEMMA WaitsTail ==
  ASSUME NEW cmd, NEW t, Grammar(cmd, t), t # <<>>, Waits(t), t[1] # "dropped"
  PROVE  Waits(Tail(t)) /\ t[1] \notin {"show", "walk"}
<1>1. /\ Len(t) \in Nat \ {0} /\ Len(Tail(t)) = Len(t) - 1
      /\ \A i \in 1..Len(t) - 1 : Tail(t)[i] = t[i + 1]
  BY TailFollows
<1>2. ASSUME NEW i \in 1..Len(Tail(t)), Tail(t)[i] \in {"show", "walk"}
      PROVE  \E j \in 1..i : Tail(t)[j] = "dropped"
  <2>1. i + 1 \in 1..Len(t) /\ t[i + 1] \in {"show", "walk"} /\ i \in 1..Len(t) - 1
    BY <1>1, <1>2
  <2>2. PICK j \in 1..i + 1 : t[j] = "dropped"
    BY <2>1 DEF Waits
  <2>3. j - 1 \in 1..i /\ j - 1 \in 1..Len(t) - 1 /\ j - 1 + 1 = j
    BY <2>1, <2>2
  <2>4. Tail(t)[j - 1] = "dropped"
    BY <1>1, <2>2, <2>3
  <2>5. QED
    BY <2>3, <2>4
<1>3. ASSUME t[1] \in {"show", "walk"} PROVE FALSE
  <2>1. PICK j \in 1..1 : t[j] = "dropped"
    BY <1>1, <1>3 DEF Waits
  <2>2. QED
    BY <2>1
<1>4. QED
  BY <1>2, <1>3 DEF Waits

(* A step may unfold without showing a dropped queue early. *)
LEMMA WaitsSplice ==
  ASSUME NEW cmd, NEW t, Grammar(cmd, t), t # <<>>, Waits(t), t[1] # "dropped",
         NEW s, Replaces(cmd, t[1], s), On(s) \cap {"show", "walk"} = {}
  PROVE  Waits(s \o Tail(t))
<1>1. PICK r, w, m, n : r = Tail(t) /\ w = s \o Tail(t) /\ m = Len(s) /\ n = Len(r)
  OBVIOUS
<1>2. /\ m \in Nat /\ n \in Nat /\ Len(w) = m + n
      /\ \A i \in 1..m : w[i] = s[i]
      /\ \A i \in 1..n : w[m + i] = r[i]
  BY <1>1, SpliceIs, TailFollows
<1>3. Waits(r)
  BY <1>1, WaitsTail
<1>4. ASSUME NEW i \in 1..Len(w), w[i] \in {"show", "walk"}
      PROVE  \E j \in 1..i : w[j] = "dropped"
  <2>1. ~(i \in 1..m)
    BY <1>1, <1>2, <1>4 DEF On
  <2>2. i - m \in 1..n /\ i = m + (i - m)
    BY <1>2, <2>1
  <2>3. r[i - m] \in {"show", "walk"}
    BY <1>2, <1>4, <2>2
  <2>4. PICK j \in 1..i - m : r[j] = "dropped"
    BY <1>1, <1>3, <2>2, <2>3 DEF Waits
  <2>5. m + j \in 1..i /\ j \in 1..n
    BY <1>2, <2>2
  <2>6. w[m + j] = "dropped"
    BY <1>2, <2>4, <2>5
  <2>7. QED
    BY <2>5, <2>6
<1>5. QED
  BY <1>1, <1>4 DEF Waits

(* What a step must do to the queue to keep Queue. *)
LEMMA QueueKept ==
  ASSUME Inv, NEW a, NEW s, Moved(a, s), Framed, SameQueue, a # "dropped",
         s = <<>> \/ Replaces(run.cmd, a, s),
         "attach" \in On(s) => que.q, "header" \in On(s) => ~que.q, "q_new" \notin On(s),
         "walk" \in On(s) => con.verbose \/ run.cmd = "show",
         On(s) \cap {"walk", "show"} = {} \/ que.chain = 0 \/ run.cmd \notin {"new", "free"},
         s # <<>> /\ s[1] = "detach" => que.chain > 0,
         s # <<>> /\ s[1] = "turned" => FALSE
  PROVE  Queue'
<1>1. Queue /\ hd = a /\ run'.cmd = run.cmd
  BY DEF Inv, Moved
<1>2. (hd' = "detach" => que.chain > 0) /\ hd' # "turned"
  BY Leads DEF Pair
<1>3. /\ \A b \in {"attach", "q_new", "header", "walk"} : Has(b)' => Has(b) \/ b \in On(s)
      /\ Has("dropped") => Has("dropped")'
  BY DEF Moved, Following, Has
<1>4. run.cmd \in {"new", "free"} => que.chain = 0 \/ Waits(run'.todo)
  <2> SUFFICES ASSUME run.cmd \in {"new", "free"}, que.chain # 0 PROVE Waits(run'.todo)
    OBVIOUS
  <2>1. /\ Grammar(run.cmd, run.todo) /\ run.todo # <<>> /\ run.todo[1] = a /\ run'.todo = s \o Tail(run.todo)
        /\ Waits(run.todo)
    BY <1>1 DEF Inv, Moved, hd, First, Queue
  <2>2. CASE s = <<>>
    <3>1. run'.todo = Tail(run.todo)
      BY <2>1, <2>2, ConcatEmptySeq DEF Moved, Following, Grammar
    <3>2. QED
      BY <2>1, <3>1, WaitsTail
  <2>3. CASE s # <<>>
    BY <2>1, <2>3, WaitsSplice
  <2>4. QED
    BY <2>2, <2>3
<1>5. QED
  BY <1>1, <1>2, <1>3, <1>4 DEF Queue, SameQueue, Framed

(* A step of a command leaves the console as it was, so it keeps Ends. *)
LEMMA EndsKept ==
  ASSUME Inv, NEW a, NEW s, Moved(a, s), Framed,
         a = "blocks" /\ run'.ok => har'.count = 0
  PROVE  Ends'
<1>1. Ends /\ run'.cmd = run.cmd /\ run.cmd # "none"
  BY DEF Inv, Moved, Commands
<1>2. run.cmd = "quit" /\ run'.todo = <<>> => a = "blocks"
  BY Leads DEF Final, Moved
<1>3. Lined' = Lined
  BY <1>1 DEF Lined, Framed
<1>4. QED
  BY <1>1, <1>2, <1>3 DEF Ends, Framed

-----------------------------------------------------------------------------
(* The steps of the harness.                                                 *)

(* The record that Becomes makes, field by field. *)
LEMMA DoneIs ==
  ASSUME run \in RunType, NEW s
  PROVE  Becomes(s) = [cmd |-> run.cmd, ok |-> run.ok, rval |-> run.rval, reps |-> run.reps, cnt |-> run.cnt,
                       todo |-> s \o Tail(run.todo), cut |-> run.cut]
<1>1. PICK w : w = s \o Tail(run.todo)
  OBVIOUS
<1>2. Becomes(s) = [run EXCEPT !.todo = w]
  BY <1>1 DEF Becomes
<1>3. QED
  BY <1>1, <1>2 DEF RunType

(* A step that only is done. *)
LEMMA DoneMoves ==
  ASSUME Inv, NEW a, At(a), NEW s, s = <<>> \/ Replaces(run.cmd, a, s), run' = Becomes(s)
  PROVE  Moved(a, s) /\ run'.ok = run.ok /\ run'.rval = run.rval /\ run'.cnt = run.cnt /\ run'.reps = run.reps
<1>1. run \in RunType /\ run.todo # <<>> /\ Head(run.todo) = a
  BY DEF Inv, Types, At
<1>2. run' = [cmd |-> run.cmd, ok |-> run.ok, rval |-> run.rval, reps |-> run.reps, cnt |-> run.cnt,
              todo |-> s \o Tail(run.todo), cut |-> run.cut]
  BY <1>1, DoneIs
<1>3. run.ok \in BOOLEAN /\ run.rval \in BOOLEAN /\ run.cnt \in Int /\ run.reps \in Nat
  BY <1>1 DEF RunType
<1>4. Moved(a, s)
  BY <1>1, <1>2, <1>3, MovedIs
<1>5. QED
  BY <1>2, <1>4

Others == UNCHANGED <<phase, status, helped, cuts, lost>>

(* The types after a step, but for what it made of the harness. *)
LEMMA TypesKept ==
  ASSUME Inv, NEW a, NEW s, Moved(a, s), Framed, har' \in HarType, que' \in QueType
  PROVE  Types' /\ Grammar(run'.cmd, run'.todo)
  BY DEF Inv, Types, Moved, Framed

(* A step that does not touch the console leaves it framed. *)
LEMMA ConSame == ASSUME Inv, Others, con' = con PROVE Framed
  BY DEF Inv, Types, Others, Framed

(* "ready" to "cautious": a mode goes on, or off. *)
LEMMA ModeStepKeeps ==
  ASSUME Inv, NEW a \in ModeSteps, At(a), har' = Effect(a), run' = Done, UNCHANGED <<con, que>>, Others
  PROVE  Inv'
<1>1. Moved(a, <<>>) /\ run'.ok = run.ok /\ Framed /\ SameQueue
  BY DoneMoves, ConSame DEF Done, SameQueue
<1>2. har' \in HarType /\ SameBlocks /\ har'.error_occurred = har.error_occurred
  <2>1. har \in HarType
    BY DEF Inv, Types
  <2>2. QED
    BY <2>1, ZenonT(40) DEF ModeSteps, Effect, HarType, SameBlocks, ready, arm, disarm, unready, set_noallocate_mode, set_cautious_mode
<1>3. Modes'
  <2>1. Modes /\ hd = a /\ har \in HarType
    BY <1>1 DEF Inv, Types, Moved
  <2>2. PICK r : r = Tail(run.todo) /\ Following(run.cmd, run.todo, a, r) /\ On(run'.todo) = On(r)
    BY <1>1, NothingLeft DEF Moved
  <2>3. /\ \A b \in Undoing : Has(b) /\ b # a => Has(b)'
        /\ \A b \in Undoing : Undoes(a, b) => Has(b)'
    BY <2>2 DEF Following, Has
  <2>4. /\ hd' = "arm" => a = "ready"
        /\ hd' = "unready" => a = "disarm"
        /\ a = "arm" => hd' \in Inner \cup {"disarm"}
        /\ a = "ready" => hd' = "arm"
    BY <1>1, Leads DEF Pair, Final
  <2>5. QED
    BY <1>1, <2>1, <2>3, <2>4, ZenonT(40) DEF Modes, Undoing, Undoes, ModeSteps, Effect, HarType, Inner,
       ready, arm, disarm, unready, set_noallocate_mode, set_cautious_mode
<1>4. Difference' /\ Owned' /\ Queue' /\ Cuts' /\ Ends'
  <2>1. On(<<>>) = {} /\ a \notin {"link", "detach", "dropped", "q_free", "checked", "end", "blocks"} \cup Owners
    BY NothingLeft DEF ModeSteps, Owners, Freer
  <2>2. QED
    BY <1>1, <1>2, <2>1, DifferenceKept, OwnedKept, QueueKept, CutsKept, EndsKept DEF Owners, Freer
<1>5. que' \in QueType
  BY DEF Inv, Types
<1>6. Types' /\ Grammar(run'.cmd, run'.todo)
  BY <1>1, <1>2, <1>5, TypesKept
<1>7. QED
  BY <1>3, <1>4, <1>6 DEF Inv

(* error_check before the operation, and called_malloc put back. *)
LEMMA CheckedKeeps ==
  ASSUME Inv, NEW a \in {"checked", "uncalled"}, At(a), har' = Effect(a), run' = Done, UNCHANGED <<con, que>>, Others
  PROVE  Inv'
<1>1. Moved(a, <<>>) /\ run'.ok = run.ok /\ Framed /\ SameQueue /\ On(<<>>) = {}
  BY DoneMoves, ConSame, NothingLeft DEF Done, SameQueue
<1>2. har' \in HarType /\ SameBlocks /\ SameModes /\ (a # "checked" => har'.error_occurred = har.error_occurred)
  <2>1. har \in HarType
    BY DEF Inv, Types
  <2>2. QED
    BY <2>1 DEF Effect, HarType, SameBlocks, SameModes, error_check, clear_called_malloc
<1>3. Cuts'
  <2>1. CASE a = "uncalled"
    BY <1>1, <1>2, <2>1, CutsKept
  <2>2. CASE a = "checked"
    <3>1. Cuts /\ hd = a /\ run'.cmd = run.cmd /\ run.cmd # "none" /\ run'.cut = run.cut
      BY <1>1 DEF Inv, Moved, Commands
    <3>2. (Has("counted")' => Has("counted")) /\ (Has("removed")' => Has("removed"))
      BY <1>1 DEF Moved, Following, Has
    <3>3. Caught => Caught'
      BY <1>1, <2>2, <3>1, <3>2 DEF Caught
    <3>4. QED
      BY <1>1, <3>1, <3>3 DEF Cuts, Framed, Sure
  <2>3. QED
    BY <2>1, <2>2
<1>4. Modes' /\ Difference' /\ Owned' /\ Queue' /\ Ends'
  <2>1. a \notin {"link", "detach", "dropped", "q_free", "end", "blocks"} \cup Owners \cup ModeSteps
    BY DEF ModeSteps, Owners, Freer
  <2>2. QED
    BY <1>1, <1>2, <2>1, ModesKept, DifferenceKept, OwnedKept, QueueKept, EndsKept DEF Owners, Freer
<1>5. que' \in QueType
  BY DEF Inv, Types
<1>6. Types' /\ Grammar(run'.cmd, run'.todo)
  BY <1>1, <1>2, <1>5, TypesKept
<1>7. QED
  BY <1>3, <1>4, <1>6 DEF Inv

(* allocate_memory: the block is linked, then counted. *)
LEMMA LinkKeeps ==
  ASSUME Inv, NEW a \in {"link", "linked"}, At(a), har' = Effect(a), run' = Done, UNCHANGED <<con, que>>, Others
  PROVE  Inv'
<1>1. Moved(a, <<>>) /\ run'.ok = run.ok /\ Framed /\ SameQueue /\ On(<<>>) = {}
  BY DoneMoves, ConSame, NothingLeft DEF Done, SameQueue
<1>2. /\ har' \in HarType /\ SameModes /\ har'.error_occurred = har.error_occurred
      /\ har'.list = (IF a = "link" THEN har.list + 1 ELSE har.list)
      /\ har'.count = (IF a = "linked" THEN har.count + 1 ELSE har.count)
      /\ har.list \in Nat /\ har.count \in Int
  <2>1. har \in HarType
    BY DEF Inv, Types
  <2>2. har' = IF a = "link" THEN [har EXCEPT !.list = har.list + 1] ELSE [har EXCEPT !.count = har.count + 1]
    BY DEF Effect, link, linked
  <2>3. CASE a = "link"
    BY <2>1, <2>2, <2>3 DEF HarType, SameModes
  <2>4. CASE a = "linked"
    BY <2>1, <2>2, <2>4 DEF HarType, SameModes
  <2>5. QED
    BY <2>3, <2>4
<1>3. /\ hd = a /\ cuts' = cuts /\ cuts \in Nat /\ run'.cmd = run.cmd /\ run.cmd # "none" /\ Difference /\ Owned
  BY <1>1 DEF Inv, Types, Moved, Framed, Commands
<1>4. /\ hd' = "linked" <=> a = "link"
      /\ hd' \in {"header", "attach"} <=> a = "linked"
      /\ hd' \notin {"turned"} \cup Freer
  BY <1>1, Leads DEF Pair, Final, Freer
<1>5. Difference'
  <2>1. Behind' = (IF a = "link" THEN 1 ELSE 0) /\ Behind = (IF a = "linked" THEN 1 ELSE 0)
    BY <1>3, <1>4 DEF Behind, Freer
  <2>2. QED
    BY <1>2, <1>3, <2>1 DEF Difference
<1>6. Owned'
  <2>1. ~Freed /\ ~Freed' /\ ~Has("q_free")'
    <3>1. "dropped" \notin On(run.todo) /\ On(run'.todo) \subseteq On(run.todo) /\ "q_free" \notin On(run.todo)
      BY <1>1 DEF Moved, Following, Apart, Making
    <3>2. run.cmd # "quit"
      BY <1>1 DEF Moved, Following, Steps, RH
    <3>3. QED
      BY <1>3, <3>1, <3>2 DEF Freed, Has
  <2>2. ~Gone /\ ~Gone'
    BY <1>3 DEF Gone
  <2>3. Extra' = 1 /\ Extra = (IF a = "link" THEN 0 ELSE 1) /\ Chain' = Chain /\ Chain \in Int
    <3>1. que.chain \in Nat
      BY DEF Inv, Types, QueType
    <3>2. Chain' = Chain /\ Chain \in Int
      BY <1>1, <1>3, <1>4, <3>1 DEF Chain, SameQueue
    <3>3. QED
      BY <1>3, <1>4, <3>2 DEF Extra, Freer
  <2>4. AtLeast(Extra + Chain)
    BY <1>3, <2>1, <2>2 DEF Owned
  <2>5. AtLeast(Extra + Chain)'
    BY <1>2, <1>3, <2>3, <2>4 DEF AtLeast
  <2>6. QED
    BY <1>4, <2>1, <2>2, <2>5 DEF Owned, Freer
<1>7. Modes' /\ Queue' /\ Cuts' /\ Ends'
  BY <1>1, <1>2, ModesKept, QueueKept, CutsKept, EndsKept DEF ModeSteps
<1>8. que' \in QueType
  BY DEF Inv, Types
<1>9. Types' /\ Grammar(run'.cmd, run'.todo)
  BY <1>1, <1>2, <1>8, TypesKept
<1>10. QED
  BY <1>5, <1>6, <1>7, <1>9 DEF Inv

(* One more step of the frees. *)
LEMMA FreesTail ==
  ASSUME NEW cmd, NEW t, Grammar(cmd, t), t # <<>>, NEW n \in Nat
  PROVE  /\ FreesLeft(t, 0, n) /\ t[1] = "unlink" => n # 0 /\ FreesLeft(Tail(t), 1, n - 1)
         /\ FreesLeft(t, 1, n) => FreesLeft(Tail(t), 0, n) /\ (n = 0 => Tail(t)[1] = "disarm") /\ (n # 0 => Tail(t)[1] = "unlink")
<1>1. /\ Len(t) \in Nat \ {0} /\ Len(Tail(t)) = Len(t) - 1
      /\ \A i \in 1..Len(t) - 1 : Tail(t)[i] = t[i + 1]
  BY TailFollows
<1>2. ASSUME FreesLeft(t, 0, n), t[1] = "unlink" PROVE n # 0 /\ FreesLeft(Tail(t), 1, n - 1)
  <2>1. /\ 2 * n + 0 < Len(t) /\ t[2 * n + 0 + 1] = "disarm"
        /\ \A i \in 1..n : t[2 * i + 0 - 1] = "unlink" /\ t[2 * i + 0] = "unlinked"
    BY <1>2 DEF FreesLeft
  <2>2. n # 0
    BY <1>2, <2>1
  <2>3. 2 * (n - 1) + 1 < Len(Tail(t)) /\ Tail(t)[2 * (n - 1) + 1 + 1] = "disarm"
    <3>1. /\ 2 * (n - 1) + 1 + 1 = 2 * n /\ 2 * n \in 1..Len(t) - 1 /\ 2 * (n - 1) + 1 < Len(t) - 1
          /\ 2 * n + 0 + 1 = 2 * n + 1
      BY <1>1, <2>1, <2>2
    <3>2. QED
      BY <1>1, <2>1, <3>1
  <2>4. ASSUME NEW i \in 1..n - 1 PROVE Tail(t)[2 * i + 1 - 1] = "unlink" /\ Tail(t)[2 * i + 1] = "unlinked"
    <3>1. /\ i + 1 \in 1..n /\ 2 * (i + 1) + 0 - 1 = 2 * i + 1 - 1 + 1 /\ 2 * (i + 1) + 0 = 2 * i + 1 + 1
          /\ 2 * i + 1 - 1 \in 1..Len(t) - 1 /\ 2 * i + 1 \in 1..Len(t) - 1
      BY <1>1, <2>1, <2>2
    <3>2. t[2 * i + 1 - 1 + 1] = "unlink" /\ t[2 * i + 1 + 1] = "unlinked"
      BY <2>1, <3>1
    <3>3. QED
      BY <1>1, <3>1, <3>2
  <2>5. QED
    BY <2>2, <2>3, <2>4 DEF FreesLeft
<1>3. ASSUME FreesLeft(t, 1, n)
      PROVE  FreesLeft(Tail(t), 0, n) /\ (n = 0 => Tail(t)[1] = "disarm") /\ (n # 0 => Tail(t)[1] = "unlink")
  <2>1. /\ 2 * n + 1 < Len(t) /\ t[2 * n + 1 + 1] = "disarm"
        /\ \A i \in 1..n : t[2 * i + 1 - 1] = "unlink" /\ t[2 * i + 1] = "unlinked"
    BY <1>3 DEF FreesLeft
  <2>2. 2 * n + 0 < Len(Tail(t)) /\ Tail(t)[2 * n + 0 + 1] = "disarm"
    <3>1. 2 * n + 0 + 1 \in 1..Len(t) - 1 /\ 2 * n + 0 + 1 + 1 = 2 * n + 1 + 1 /\ 2 * n + 0 < Len(t) - 1
      BY <1>1, <2>1
    <3>2. QED
      BY <1>1, <2>1, <3>1
  <2>3. ASSUME NEW i \in 1..n PROVE Tail(t)[2 * i + 0 - 1] = "unlink" /\ Tail(t)[2 * i + 0] = "unlinked"
    <3>1. /\ 2 * i + 0 - 1 + 1 = 2 * i + 1 - 1 /\ 2 * i + 0 + 1 = 2 * i + 1
          /\ 2 * i + 0 - 1 \in 1..Len(t) - 1 /\ 2 * i + 0 \in 1..Len(t) - 1
      BY <1>1, <2>1
    <3>2. QED
      BY <1>1, <2>1, <3>1
  <2>4. n = 0 => Tail(t)[1] = "disarm"
    BY <2>2
  <2>5. n # 0 => Tail(t)[1] = "unlink"
    <3>1. n # 0 => 1 \in 1..n /\ 2 * 1 + 0 - 1 = 1
      OBVIOUS
    <3>2. QED
      BY <2>3, <3>1
  <2>6. QED
    BY <2>2, <2>3, <2>4, <2>5 DEF FreesLeft
<1>4. QED
  BY <1>2, <1>3

(* test_free: the block leaves the list, then the count. *)
LEMMA UnlinkKeeps ==
  ASSUME Inv, NEW a \in Freer, At(a), har' = Effect(a), run' = Done, UNCHANGED <<con, que>>, Others
  PROVE  Inv'
<1>1. Moved(a, <<>>) /\ run'.ok = run.ok /\ Framed /\ SameQueue /\ On(<<>>) = {}
  BY DoneMoves, ConSame, NothingLeft DEF Done, SameQueue
<1>2. /\ hd = a /\ cuts' = cuts /\ cuts \in Nat /\ run'.cmd = run.cmd /\ run.cmd # "none" /\ Difference /\ Owned
      /\ har \in HarType /\ que.chain \in Nat
  BY <1>1 DEF Inv, Types, Moved, Framed, Commands, QueType
<1>3. /\ hd' = "unlinked" <=> a = "unlink"
      /\ hd' \notin {"linked", "header", "attach", "turned"}
      /\ hd' = "unlink" => run.cmd \notin RH
  BY <1>1, Leads DEF Pair, Final, Freer
<1>4. (Has("dropped")' <=> Has("dropped")) /\ (Has("q_free")' <=> Has("q_free")) /\ ~Gone /\ ~Gone' /\ (Freed' <=> Freed)
  <2>1. (Has("dropped")' <=> Has("dropped")) /\ (Has("q_free")' <=> Has("q_free"))
    BY <1>1 DEF Moved, Following, Has, Freer
  <2>2. QED
    BY <1>2, <2>1 DEF Gone, Freed
<1>5. Chain' = Chain /\ Chain \in Nat
  <2>1. Chain' = Chain
    BY <1>1, <1>2, <1>3 DEF Chain, SameQueue, Freer
  <2>2. Chain \in Nat
    BY <1>2 DEF Chain, Freer
  <2>3. QED
    BY <2>1, <2>2
<1>6. CASE a = "unlink"
  <2>1. \/ Freed /\ \E n \in Nat : FreesLeft(run.todo, 0, n) /\ AtLeast(n)
        \/ ~Freed /\ run.cmd \in RH /\ AtLeast(1 + Chain)
    <3>1. Extra = IF run.cmd \in RH THEN 1 ELSE 0
      BY <1>2, <1>6 DEF Extra
    <3>2. QED
      BY <1>2, <1>4, <1>6, <3>1 DEF Owned, Freer
  <2>2. har.list \in Nat /\ har.list # 0
    <3>1. Grammar(run.cmd, run.todo) /\ run.todo # <<>> /\ run.todo[1] = "unlink"
      BY <1>1, <1>6 DEF Inv, Moved, hd, First
    <3>2. QED
      BY <1>2, <1>5, <2>1, <3>1, FreesTail DEF AtLeast, HarType
  <2>3. /\ har' \in HarType /\ har'.list = har.list - 1 /\ har'.count = har.count
        /\ SameModes /\ har'.error_occurred = har.error_occurred
    <3>1. har' = [har EXCEPT !.list = har.list - 1]
      BY <1>6 DEF Effect, unlink
    <3>2. QED
      BY <1>2, <2>2, <3>1 DEF HarType, SameModes
  <2>4. Difference'
    <3>1. Behind' = -1 /\ Behind = 0 /\ har.count \in Int
      BY <1>2, <1>3, <1>6 DEF Behind, HarType
    <3>2. QED
      BY <1>2, <2>2, <2>3, <3>1 DEF Difference
  <2>5. Owned'
    <3>1. CASE Freed
      <4>1. PICK n \in Nat : FreesLeft(run.todo, 0, n) /\ AtLeast(n)
        BY <2>1, <3>1
      <4>2. n # 0 /\ FreesLeft(run'.todo, 1, n - 1)
        <5>1. Grammar(run.cmd, run.todo) /\ run.todo # <<>> /\ run.todo[1] = "unlink"
          BY <1>1, <1>6 DEF Inv, Moved, hd, First
        <5>2. run'.todo = Tail(run.todo)
          BY <1>1, ConcatEmptySeq DEF Moved, Following, Grammar
        <5>3. QED
          BY <4>1, <5>1, <5>2, FreesTail
      <4>3. n - 1 \in Nat /\ AtLeast(n - 1)'
        BY <1>2, <2>2, <2>3, <4>1, <4>2 DEF AtLeast
      <4>4. \E m \in Nat : FreesLeft(run'.todo, 1, m) /\ AtLeast(m)'
        BY <4>2, <4>3
      <4>5. QED
        BY <1>2, <1>3, <1>4, <1>6, <3>1, <4>4 DEF Owned, Freer
    <3>2. CASE ~Freed
      <4>1. Extra' = 0
        BY <1>3, <1>6 DEF Extra
      <4>2. AtLeast(Extra + Chain)'
        BY <1>2, <1>5, <2>1, <2>2, <2>3, <3>2, <4>1 DEF AtLeast
      <4>3. QED
        BY <1>2, <1>3, <1>4, <1>6, <2>1, <3>2, <4>2 DEF Owned, Freer
    <3>3. QED
      BY <3>1, <3>2
  <2>6. Modes' /\ Queue' /\ Cuts' /\ Ends'
    BY <1>1, <1>6, <2>3, ModesKept, QueueKept, CutsKept, EndsKept DEF ModeSteps
  <2>7. Types' /\ Grammar(run'.cmd, run'.todo)
    <3>1. que' \in QueType
      BY DEF Inv, Types
    <3>2. QED
      BY <1>1, <2>3, <3>1, TypesKept
  <2>8. QED
    BY <2>4, <2>5, <2>6, <2>7 DEF Inv
<1>7. CASE a = "unlinked"
  <2>1. /\ har' \in HarType /\ har'.list = har.list /\ har'.count = har.count - 1 /\ har.list \in Nat /\ har.count \in Int
        /\ SameModes /\ har'.error_occurred = har.error_occurred
    <3>1. har' = [har EXCEPT !.count = har.count - 1]
      BY <1>7 DEF Effect, unlinked
    <3>2. QED
      BY <1>2, <3>1 DEF HarType, SameModes
  <2>2. Difference'
    <3>1. Behind' = 0 /\ Behind = -1
      BY <1>2, <1>3, <1>7 DEF Behind
    <3>2. QED
      BY <1>2, <2>1, <3>1 DEF Difference
  <2>3. Owned'
    <3>1. CASE Freed
      <4>1. PICK n \in Nat : FreesLeft(run.todo, 1, n) /\ AtLeast(n)
        BY <1>2, <1>7, <3>1 DEF Owned
      <4>2. Grammar(run.cmd, run.todo) /\ run.todo # <<>> /\ run'.todo = Tail(run.todo)
        BY <1>1, ConcatEmptySeq DEF Inv, Moved, Following, Grammar
      <4>3. /\ FreesLeft(run'.todo, 0, n) /\ (n = 0 => run'.todo[1] = "disarm") /\ (n # 0 => run'.todo[1] = "unlink")
            /\ AtLeast(n)'
        BY <1>2, <2>1, <4>1, <4>2, FreesTail DEF AtLeast
      <4>4. run'.todo # <<>>
        BY <1>1, <1>7, Leads DEF Final
      <4>5. (n = 0 => hd' = "disarm") /\ (n # 0 => hd' = "unlink")
        BY <4>3, <4>4 DEF hd, First
      <4>6. (hd' = "unlink" => \E m \in Nat : FreesLeft(run'.todo, 0, m) /\ AtLeast(m)')
            /\ (hd' # "unlink" => AtLeast(0)')
        BY <4>3, <4>5
      <4>7. QED
        BY <1>2, <1>3, <1>4, <1>7, <3>1, <4>6 DEF Owned, Freer
    <3>2. CASE ~Freed
      <4>1. run.cmd \in RH /\ hd' # "unlink" /\ Extra' = 0 /\ Extra = 0
        BY <1>2, <1>3, <1>7, <3>2 DEF Extra, Owned, Freer
      <4>2. AtLeast(Extra + Chain)'
        BY <1>2, <1>4, <1>5, <2>1, <3>2, <4>1 DEF AtLeast, Owned
      <4>3. QED
        BY <1>2, <1>3, <1>4, <1>7, <3>2, <4>1, <4>2 DEF Owned, Freer
    <3>3. QED
      BY <3>1, <3>2
  <2>4. Modes' /\ Queue' /\ Cuts' /\ Ends'
    BY <1>1, <1>7, <2>1, ModesKept, QueueKept, CutsKept, EndsKept DEF ModeSteps
  <2>5. Types' /\ Grammar(run'.cmd, run'.todo)
    <3>1. que' \in QueType
      BY DEF Inv, Types
    <3>2. QED
      BY <1>1, <2>1, <3>1, TypesKept
  <2>6. QED
    BY <2>2, <2>3, <2>4, <2>5 DEF Inv
<1>8. QED
  BY <1>6, <1>7 DEF Freer

-----------------------------------------------------------------------------
(* The steps of queue.c and of the driver.                                   *)

(* malloc's warning only concerns the log. *)
LEMMA WarnedFrame == ASSUME Inv, Others, NEW null, con' = Warned(null) PROVE Framed
<1>1. con \in ConType
  BY DEF Inv, Types
<1>2. CASE con' = con
  BY <1>2, ConSame
<1>3. CASE con' = [con EXCEPT !.log = "closed", !.fds = con.fds \ {con.logfd}]
  BY <1>1, <1>3, ZenonT(40) DEF Framed, Others, ConType
<1>4. CASE con' = [con EXCEPT !.log = "stale"]
  BY <1>1, <1>4 DEF Framed, Others, ConType
<1>5. QED
  BY <1>2, <1>3, <1>4 DEF Warned, report_event, report

(* q_new. *)
LEMMA QNewKeeps == ASSUME Inv, q_new, Others PROVE Inv'
<1>1. PICK null \in Null : /\ run' = Becomes(IF null THEN <<>> ELSE <<"link", "linked", "header">>)
                           /\ con' = Warned(null)
  BY DEF q_new
<1> DEFINE s == IF null THEN <<>> ELSE <<"link", "linked", "header">>
<1>2. At("q_new") /\ har' = called(har) /\ que' = que /\ Framed
  BY <1>1, WarnedFrame DEF q_new
<1>3. "q_new" \in Steps(run.cmd) /\ (s = <<>> \/ Replaces(run.cmd, "q_new", s))
  <2>1. run.todo # <<>> /\ Head(run.todo) = "q_new" /\ Grammar(run.cmd, run.todo)
    BY <1>2 DEF At, Inv
  <2>2. "q_new" \in Steps(run.cmd)
    BY <2>1, TailFollows DEF Following
  <2>3. QED
    BY <2>2, QNewReplaces
<1>4. Moved("q_new", s) /\ run'.ok = run.ok
  BY <1>1, <1>2, <1>3, DoneMoves
<1>5. On(s) \subseteq {"link", "linked", "header"} /\ (s # <<>> => s[1] = "link" /\ s[1] \in On(s))
  BY DEF On
<1>6. har' \in HarType /\ SameBlocks /\ SameModes /\ har'.error_occurred = har.error_occurred
  <2>1. har \in HarType
    BY DEF Inv, Types
  <2>2. QED
    BY <1>2, <2>1 DEF HarType, SameBlocks, SameModes, called
<1>7. ~que.q
  <2>1. Queue /\ Has("q_new") /\ ~Has("dropped")
    BY <1>4 DEF Inv, Moved, Following, Has, Apart, Making
  <2>2. QED
    BY <2>1 DEF Queue
<1>8. SameQueue
  BY <1>2 DEF SameQueue
<1>9. Modes' /\ Difference' /\ Owned' /\ Queue' /\ Cuts' /\ Ends'
  BY <1>2, <1>3, <1>4, <1>5, <1>6, <1>7, <1>8, ModesKept, DifferenceKept, OwnedKept, QueueKept, CutsKept, EndsKept
     DEF ModeSteps, Owners, Freer, Inner
<1>10. Types' /\ Grammar(run'.cmd, run'.todo)
  <2>1. que' \in QueType
    BY <1>2 DEF Inv, Types
  <2>2. QED
    BY <1>2, <1>4, <1>6, <2>1, TypesKept
<1>11. QED
  BY <1>9, <1>10 DEF Inv

(* A command that need not fail for a cut. *)
LEMMA CutsFree ==
  ASSUME Inv, NEW a, NEW s, Moved(a, s), Framed, run.cmd \notin Sure
  PROVE  Cuts'
<1>1. Cuts /\ run'.cmd = run.cmd /\ run.cmd # "none" /\ run'.cut = run.cut
  BY DEF Inv, Moved, Commands
<1>2. QED
  BY <1>1 DEF Cuts, Framed, Sure

(* The steps that touch neither modes nor blocks nor pointers. *)
Plain(a) == a \notin ModeSteps \cup Owners \cup {"link", "detach", "dropped", "q_free", "blocks"}

(* A step that changes neither a mode nor a block nor the queue. *)
LEMMA PlainKeeps ==
  ASSUME Inv, NEW a, Moved(a, <<>>), Plain(a), Framed, har' \in HarType, que' \in QueType,
         SameModes, SameBlocks, SameQueue, Cuts'
  PROVE  Inv'
<1>1. On(<<>>) = {}
  BY NothingLeft
<1>2. Modes' /\ Difference' /\ Owned' /\ Queue' /\ Ends'
  BY <1>1, ModesKept, DifferenceKept, OwnedKept, QueueKept, EndsKept DEF Plain, ModeSteps, Owners, Freer
<1>3. Types' /\ Grammar(run'.cmd, run'.todo)
  BY TypesKept
<1>4. QED
  BY <1>2, <1>3 DEF Inv

(* A step that only sets fields of the command. *)
SetTo(s, ok, rval, reps, cnt) ==
  /\ run' = [cmd |-> run.cmd, ok |-> ok, rval |-> rval, reps |-> reps, cnt |-> cnt,
             todo |-> s \o Tail(run.todo), cut |-> run.cut]
  /\ ok \in BOOLEAN /\ rval \in BOOLEAN /\ reps \in Nat /\ cnt \in Int

(* A step that sets some of the locals of the command. *)
LEMMA SetMoves ==
  ASSUME Inv, NEW a, At(a), NEW s, s = <<>> \/ Replaces(run.cmd, a, s),
         NEW ok, NEW rval, NEW reps, NEW cnt, SetTo(s, ok, rval, reps, cnt)
  PROVE  Moved(a, s) /\ run'.ok = ok /\ run'.rval = rval /\ run'.reps = reps /\ run'.cnt = cnt
<1>1. run.todo # <<>> /\ Head(run.todo) = a
  BY DEF At
<1>2. QED
  BY <1>1, MovedIs DEF SetTo

(* The fields of the command and of the queue. *)
LEMMA RunFields ==
  ASSUME Inv
  PROVE  /\ run.ok \in BOOLEAN /\ run.rval \in BOOLEAN /\ run.reps \in Nat /\ run.cnt \in Int
         /\ run.cmd \in Commands \cup {"none"} /\ que.chain \in Nat /\ que.size \in Int /\ que.qcnt \in Int
         /\ que.q \in BOOLEAN /\ que.fail_count \in Nat
         /\ run \in RunType /\ que \in QueType /\ har \in HarType /\ con \in ConType
  BY DEF Inv, Types, RunType, QueType

(* What the queue counts. *)
LEMMA Counted ==
  ASSUME Inv, Others, con' = con, har' = har \/ har' = error_check(har),
         que' = que \/ (\E n \in Int : que' = [que EXCEPT !.size = n])
           \/ (\E n \in Int : que' = [que EXCEPT !.qcnt = n]) \/ (\E n \in Nat : que' = [que EXCEPT !.fail_count = n])
  PROVE  /\ Framed /\ har' \in HarType /\ que' \in QueType /\ SameModes /\ SameBlocks /\ SameQueue
         /\ har' = har => har'.error_occurred = har.error_occurred
<1>1. que \in QueType /\ har \in HarType
  BY DEF Inv, Types
<1>2. que' \in QueType /\ SameQueue
  BY <1>1 DEF QueType, SameQueue
<1>3. har' \in HarType /\ SameModes /\ SameBlocks
  BY <1>1 DEF HarType, SameModes, SameBlocks, error_check
<1>4. QED
  BY <1>2, <1>3, ConSame

(* What each form of EXCEPT in the steps sets. *)
LEMMA Sets ==
  ASSUME Inv, NEW s, NEW d, d = Becomes(s), NEW v, NEW u
  PROVE  /\ run' = [d EXCEPT !.ok = v] /\ v \in BOOLEAN => SetTo(s, v, run.rval, run.reps, run.cnt)
         /\ run' = [d EXCEPT !.rval = v] /\ v \in BOOLEAN => SetTo(s, run.ok, v, run.reps, run.cnt)
         /\ run' = [d EXCEPT !.cnt = v] /\ v \in Int => SetTo(s, run.ok, run.rval, run.reps, v)
         /\ run' = [d EXCEPT !.rval = v, !.cnt = u] /\ v \in BOOLEAN /\ u \in Int => SetTo(s, run.ok, v, run.reps, u)
         /\ run' = [d EXCEPT !.reps = u, !.rval = v] /\ v \in BOOLEAN /\ u \in Nat => SetTo(s, run.ok, v, u, run.cnt)
<1>1. PICK w, c, o, r, p, n, k, e :
         /\ w = s \o Tail(run.todo) /\ c = run.cmd /\ o = run.ok /\ r = run.rval /\ p = run.reps /\ n = run.cnt
         /\ k = run.cut /\ e = run'
  OBVIOUS
<1>2. d = [cmd |-> c, ok |-> o, rval |-> r, reps |-> p, cnt |-> n, todo |-> w, cut |-> k]
  BY <1>1, RunFields, DoneIs
<1>3. o \in BOOLEAN /\ r \in BOOLEAN /\ p \in Nat /\ n \in Int
  BY <1>1, RunFields
<1>4. ASSUME e = [d EXCEPT !.ok = v], v \in BOOLEAN PROVE SetTo(s, v, r, p, n)
  <2>1. e = [cmd |-> c, ok |-> v, rval |-> r, reps |-> p, cnt |-> n, todo |-> w, cut |-> k]
    BY <1>2, <1>4
  <2>2. QED
    BY <1>1, <1>3, <1>4, <2>1 DEF SetTo
<1>5. ASSUME e = [d EXCEPT !.rval = v], v \in BOOLEAN PROVE SetTo(s, o, v, p, n)
  <2>1. e = [cmd |-> c, ok |-> o, rval |-> v, reps |-> p, cnt |-> n, todo |-> w, cut |-> k]
    BY <1>2, <1>5
  <2>2. QED
    BY <1>1, <1>3, <1>5, <2>1 DEF SetTo
<1>6. ASSUME e = [d EXCEPT !.cnt = v], v \in Int PROVE SetTo(s, o, r, p, v)
  <2>1. e = [cmd |-> c, ok |-> o, rval |-> r, reps |-> p, cnt |-> v, todo |-> w, cut |-> k]
    BY <1>2, <1>6
  <2>2. QED
    BY <1>1, <1>3, <1>6, <2>1 DEF SetTo
<1>7. ASSUME e = [d EXCEPT !.rval = v, !.cnt = u] PROVE v \in BOOLEAN /\ u \in Int => SetTo(s, o, v, p, u)
  <2>1. PICK g : g = [d EXCEPT !.rval = v] /\ e = [g EXCEPT !.cnt = u]
    BY <1>7
  <2>2. g = [cmd |-> c, ok |-> o, rval |-> v, reps |-> p, cnt |-> n, todo |-> w, cut |-> k]
    BY <1>2, <2>1
  <2>3. e = [g EXCEPT !.cnt = u]
    BY <2>1
  <2>4. e = [cmd |-> c, ok |-> o, rval |-> v, reps |-> p, cnt |-> u, todo |-> w, cut |-> k]
    BY <2>2, <2>3
  <2>9. QED
    BY <1>1, <1>3, <1>7, <2>4 DEF SetTo
<1>8. ASSUME e = [d EXCEPT !.reps = u, !.rval = v] PROVE v \in BOOLEAN /\ u \in Nat => SetTo(s, o, v, u, n)
  <2>1. PICK g : g = [d EXCEPT !.reps = u] /\ e = [g EXCEPT !.rval = v]
    BY <1>8
  <2>2. g = [cmd |-> c, ok |-> o, rval |-> r, reps |-> u, cnt |-> n, todo |-> w, cut |-> k]
    BY <1>2, <2>1
  <2>3. e = [g EXCEPT !.rval = v]
    BY <2>1
  <2>4. e = [cmd |-> c, ok |-> o, rval |-> v, reps |-> u, cnt |-> n, todo |-> w, cut |-> k]
    BY <2>2, <2>3
  <2>9. QED
    BY <1>1, <1>3, <1>8, <2>4 DEF SetTo
<1>9. QED
  BY <1>1, <1>4, <1>5, <1>6, <1>7, <1>8

(* A step that sets the verdict. *)
LEMMA OkMoves ==
  ASSUME Inv, NEW a, At(a), NEW d, d = Becomes(<<>>), NEW v \in BOOLEAN, run' = [d EXCEPT !.ok = v]
  PROVE  /\ Moved(a, <<>>) /\ run'.ok = v
         /\ run'.rval = run.rval /\ run'.reps = run.reps /\ run'.cnt = run.cnt
<1>1. SetTo(<<>>, v, run.rval, run.reps, run.cnt)
  BY Sets
<1>2. QED
  BY <1>1, SetMoves

(* A step that sets the result of the operation. *)
LEMMA RvalMoves ==
  ASSUME Inv, NEW a, At(a), NEW d, d = Becomes(<<>>), NEW v \in BOOLEAN, run' = [d EXCEPT !.rval = v]
  PROVE  /\ Moved(a, <<>>) /\ run'.rval = v
         /\ run'.ok = run.ok /\ run'.reps = run.reps /\ run'.cnt = run.cnt
<1>1. SetTo(<<>>, run.ok, v, run.reps, run.cnt)
  BY Sets
<1>2. QED
  BY <1>1, SetMoves

(* A step that sets the counter. *)
LEMMA CntMoves ==
  ASSUME Inv, NEW a, At(a), NEW d, d = Becomes(<<>>), NEW v \in Int, run' = [d EXCEPT !.cnt = v]
  PROVE  /\ Moved(a, <<>>) /\ run'.cnt = v
         /\ run'.ok = run.ok /\ run'.rval = run.rval /\ run'.reps = run.reps
<1>1. SetTo(<<>>, run.ok, run.rval, run.reps, v)
  BY Sets
<1>2. QED
  BY <1>1, SetMoves

(* q->size++. *)
LEMMA GrowKeeps == ASSUME Inv, grow, Others PROVE Inv'
<1>1. At("grow") /\ con' = con /\ har' = har
  BY DEF grow
<1>2. PICK d, v : d = Becomes(<<>>) /\ v = TRUE /\ run' = [d EXCEPT !.rval = v]
  BY DEF grow, Done
<1>3. Moved("grow", <<>>) /\ run'.ok = run.ok
  BY <1>1, <1>2, RvalMoves
<1>4. \E n \in Int : que' = [que EXCEPT !.size = n]
  <2>1. que.size \in Int
    BY RunFields
  <2>2. QED
    BY <2>1 DEF grow
<1>5. /\ Framed /\ har' \in HarType /\ que' \in QueType /\ SameModes /\ SameBlocks /\ SameQueue
      /\ har'.error_occurred = har.error_occurred
  BY <1>1, <1>4, Counted
<1>6. Cuts'
  BY <1>3, <1>5, CutsKept, NothingLeft
<1>7. QED
  BY <1>3, <1>5, <1>6, PlainKeeps DEF Plain, ModeSteps, Owners, Freer

(* q->size--. *)
LEMMA ShrinkKeeps == ASSUME Inv, shrink, Others PROVE Inv'
<1>1. At("shrink") /\ con' = con /\ har' = har
  BY DEF shrink
<1>2. PICK d, v : d = Becomes(<<>>) /\ v = TRUE /\ run' = [d EXCEPT !.rval = v]
  BY DEF shrink, Done
<1>3. Moved("shrink", <<>>) /\ run'.ok = run.ok
  BY <1>1, <1>2, RvalMoves
<1>4. \E n \in Int : que' = [que EXCEPT !.size = n]
  <2>1. que.size \in Int
    BY RunFields
  <2>2. QED
    BY <2>1 DEF shrink
<1>5. /\ Framed /\ har' \in HarType /\ que' \in QueType /\ SameModes /\ SameBlocks /\ SameQueue
      /\ har'.error_occurred = har.error_occurred
  BY <1>1, <1>4, Counted
<1>6. Cuts'
  BY <1>3, <1>5, CutsKept, NothingLeft
<1>7. QED
  BY <1>3, <1>5, <1>6, PlainKeeps DEF Plain, ModeSteps, Owners, Freer

(* q_size. *)
LEMMA QSizeKeeps == ASSUME Inv, q_size, Others PROVE Inv'
<1>1. At("q_size") /\ con' = con /\ har' = har /\ que' = que
  BY DEF q_size
<1>2. PICK d, n : d = Becomes(<<>>) /\ n = (IF que.q THEN que.size ELSE 0) /\ run' = [d EXCEPT !.cnt = n]
  BY DEF q_size, Done
<1>3. n \in Int
  BY <1>2, RunFields
<1>4. Moved("q_size", <<>>) /\ run'.ok = run.ok
  BY <1>1, <1>2, <1>3, CntMoves
<1>5. /\ Framed /\ har' \in HarType /\ que' \in QueType /\ SameModes /\ SameBlocks /\ SameQueue
      /\ har'.error_occurred = har.error_occurred
  BY <1>1, Counted
<1>6. Cuts'
  BY <1>4, <1>5, CutsKept, NothingLeft
<1>7. QED
  BY <1>4, <1>5, <1>6, PlainKeeps DEF Plain, ModeSteps, Owners, Freer

(* do_size judges the result. *)
LEMMA SizedKeeps == ASSUME Inv, sized, Others PROVE Inv'
<1>1. At("sized") /\ con' = con /\ har' = har /\ que' = que
  BY DEF sized
<1>2. PICK d, v : d = Becomes(<<>>) /\ v = (d.ok /\ run.cnt = que.qcnt) /\ run' = [d EXCEPT !.ok = v]
  BY DEF sized, Done
<1>3. v \in BOOLEAN /\ (~run.ok => ~v)
  BY <1>2, RunFields, DoneIs
<1>4. Moved("sized", <<>>) /\ run'.ok = v
  BY <1>1, <1>2, <1>3, OkMoves
<1>5. /\ Framed /\ har' \in HarType /\ que' \in QueType /\ SameModes /\ SameBlocks /\ SameQueue
      /\ har'.error_occurred = har.error_occurred
  BY <1>1, Counted
<1>6. Cuts'
  BY <1>3, <1>4, <1>5, CutsKept, NothingLeft
<1>7. QED
  BY <1>4, <1>5, <1>6, PlainKeeps DEF Plain, ModeSteps, Owners, Freer

(* do_show judges the walk. *)
LEMMA ShownKeeps == ASSUME Inv, shown, Others PROVE Inv'
<1>1. At("shown") /\ con' = con /\ har' = har /\ que' = que
  BY DEF shown
<1>2. PICK d, v : d = Becomes(<<>>) /\ v = (run.rval /\ run.cnt = que.chain) /\ run' = [d EXCEPT !.ok = v]
  BY DEF shown, Done
<1>3. v \in BOOLEAN
  BY <1>2
<1>4. Moved("shown", <<>>)
  BY <1>1, <1>2, <1>3, OkMoves
<1>5. Framed /\ har' \in HarType /\ que' \in QueType /\ SameModes /\ SameBlocks /\ SameQueue
  BY <1>1, Counted
<1>6. Cuts'
  <2>1. "shown" \in Steps(run.cmd)
    BY <1>4 DEF Moved, Following
  <2>2. run.cmd = "show"
    BY <2>1 DEF Steps, Freeing, Show, RH
  <2>3. QED
    BY <1>4, <1>5, <2>2, CutsFree DEF Sure, Showy
<1>7. QED
  BY <1>4, <1>5, <1>6, PlainKeeps DEF Plain, ModeSteps, Owners, Freer

(* The driver counts the blocks that are left. *)
LEMMA BlocksKeeps == ASSUME Inv, blocks, Others PROVE Inv'
<1>1. At("blocks") /\ con' = con /\ har' = har /\ que' = que
  BY DEF blocks
<1>2. PICK d, v : d = Becomes(<<>>) /\ v = (d.ok /\ allocation_check(har) = 0) /\ run' = [d EXCEPT !.ok = v]
  BY DEF blocks, Done
<1>3. v \in BOOLEAN /\ (~run.ok => ~v) /\ (v => har.count = 0)
  <2>1. d.ok = run.ok /\ run.ok \in BOOLEAN
    BY <1>2, RunFields, DoneIs
  <2>2. QED
    BY <1>2, <2>1 DEF allocation_check
<1>4. Moved("blocks", <<>>) /\ run'.ok = v
  BY <1>1, <1>2, <1>3, OkMoves
<1>5. /\ Framed /\ har' \in HarType /\ que' \in QueType /\ SameModes /\ SameBlocks /\ SameQueue
      /\ har'.error_occurred = har.error_occurred
  BY <1>1, Counted
<1>6. Modes' /\ Difference' /\ Owned' /\ Queue' /\ Cuts' /\ Ends'
  BY <1>1, <1>3, <1>4, <1>5, NothingLeft, ModesKept, DifferenceKept, OwnedKept, QueueKept, CutsKept, EndsKept
     DEF ModeSteps, Owners, Freer
<1>7. Types' /\ Grammar(run'.cmd, run'.todo)
  BY <1>4, <1>5, TypesKept
<1>8. QED
  BY <1>6, <1>7 DEF Inv

(* A step that only changes the queue. *)
LEMMA QueueStep ==
  ASSUME Inv, NEW a, At(a), run' = Done, UNCHANGED <<con, har>>, Others, que' \in QueType,
         a \notin ModeSteps \cup {"link", "linked", "unlink", "unlinked", "checked", "end", "blocks"},
         Owned', Queue'
  PROVE  Inv'
<1>1. Moved(a, <<>>) /\ run'.ok = run.ok /\ Framed /\ On(<<>>) = {}
  BY DoneMoves, ConSame, NothingLeft DEF Done
<1>2. har' \in HarType /\ SameModes /\ SameBlocks /\ har'.error_occurred = har.error_occurred
  BY RunFields DEF SameModes, SameBlocks
<1>3. Modes' /\ Difference' /\ Cuts' /\ Ends'
  BY <1>1, <1>2, ModesKept, DifferenceKept, CutsKept, EndsKept
<1>4. Types' /\ Grammar(run'.cmd, run'.todo)
  BY <1>1, <1>2, TypesKept
<1>5. QED
  BY <1>3, <1>4 DEF Inv

(* Where it leads. *)
LEMMA QueueLeads ==
  ASSUME Inv, NEW a, At(a), run' = Done, UNCHANGED <<con, har>>, Others
  PROVE  /\ Moved(a, <<>>) /\ hd = a /\ run'.cmd = run.cmd /\ run.cmd # "none" /\ ~Gone /\ ~Gone'
         /\ Owned /\ Queue /\ a \in Steps(run.cmd) /\ a \in On(run.todo)
         /\ \A b : Has(b) <=> b = a \/ Has(b)'
         /\ \A b : Has(b)' => Apart(a, b)
         /\ \A n : AtLeast(n)' <=> AtLeast(n)
         /\ hd' \notin {"detach", "turned", "link"}
         /\ hd' = "unlink" => a = IF run.cmd \in RH THEN "detach" ELSE "unlinked"
         /\ hd' = "linked" <=> a = "link"
         /\ hd' = "unlinked" <=> a = "unlink"
         /\ hd' \in {"header", "attach"} <=> a = "linked"
         /\ a = "detach" => hd' = "unlink"
<1>1. Moved(a, <<>>) /\ Framed
  BY DoneMoves, ConSame DEF Done
<1>2. hd = a /\ run'.cmd = run.cmd /\ run.cmd # "none" /\ Owned /\ Queue /\ a \in Steps(run.cmd)
  BY <1>1 DEF Moved, Inv, Following, Commands
<1>3. ~Gone /\ ~Gone'
  BY <1>2 DEF Gone
<1>4. /\ \A b : Has(b) <=> b = a \/ Has(b)'
      /\ \A b : Has(b)' => Apart(a, b)
      /\ a \in On(run.todo)
  BY <1>1, NothingLeft DEF Moved, Following, Has
<1>5. \A n : AtLeast(n)' <=> AtLeast(n)
  BY DEF AtLeast, Others
<1>6. /\ hd' \notin {"detach", "turned", "link"}
      /\ hd' = "unlink" => a = IF run.cmd \in RH THEN "detach" ELSE "unlinked"
      /\ hd' = "linked" <=> a = "link"
      /\ hd' = "unlinked" <=> a = "unlink"
      /\ hd' \in {"header", "attach"} <=> a = "linked"
      /\ a = "detach" => hd' = "unlink"
  BY <1>1, Leads DEF Pair, Final
<1>7. QED
  BY <1>1, <1>2, <1>3, <1>4, <1>5, <1>6

(* The block of the new queue becomes its header. *)
LEMMA HeaderKeeps == ASSUME Inv, header, Others PROVE Inv'
<1>1. At("header") /\ run' = Done /\ UNCHANGED <<con, har>>
  BY DEF header
<1>2. que' \in QueType /\ que'.q = TRUE /\ que'.chain = 0
  <2>1. que \in QueType
    BY RunFields
  <2>2. PICK t, n : t = TRUE /\ n = 0 /\ que' = [que EXCEPT !.q = t, !.chain = n, !.size = n]
    BY DEF header
  <2>3. t \in BOOLEAN /\ n \in Nat /\ n \in Int
    BY <2>2
  <2>4. que' = [que EXCEPT !.q = t, !.chain = n, !.size = n]
    BY <2>2
  <2>5. que' \in QueType /\ que'.q = t /\ que'.chain = n
    BY <2>1, <2>3, <2>4, Zenon DEF QueType
  <2>6. QED
    BY <2>2, <2>5
<1>3. hd = "header" /\ run'.cmd = run.cmd /\ Owned /\ Queue /\ ~Gone /\ ~Gone'
  BY <1>1, QueueLeads
<1>4. run.cmd = "new" /\ ~Freed /\ ~Freed' /\ ~Has("q_free")' /\ ~Has("q_new")' /\ ~Has("header")'
  <2>1. run.cmd = "new"
    BY <1>1, QueueLeads DEF Steps, Freeing, Show, RH
  <2>2. ~Has("dropped") /\ ~Has("dropped")' /\ ~Has("q_free")' /\ ~Has("q_new")' /\ ~Has("header")'
    BY <1>1, QueueLeads DEF Apart, Making
  <2>3. QED
    BY <1>3, <2>1, <2>2 DEF Freed
<1>5. hd' \notin {"linked", "header", "attach", "unlink", "unlinked", "turned", "detach"}
  BY <1>1, <1>4, QueueLeads DEF RH
<1>6. Owned'
  <2>1. Extra = 1 /\ Chain = 0
    <3>1. Has("header") /\ ~Has("dropped")
      BY <1>1, QueueLeads DEF Apart, Making
    <3>2. ~que.q
      BY <1>3, <3>1 DEF Queue
    <3>3. QED
      BY <1>3, <3>2 DEF Extra, Chain
  <2>2. Extra' = 0 /\ Chain' = 1
    BY <1>2, <1>5 DEF Extra, Chain
  <2>3. AtLeast(1)'
    <3>1. AtLeast(Extra + Chain)
      BY <1>3, <1>4 DEF Owned
    <3>2. AtLeast(1)
      BY <2>1, <3>1
    <3>3. QED
      BY <1>1, <3>2, QueueLeads
  <2>4. QED
    BY <1>3, <1>4, <1>5, <2>2, <2>3 DEF Owned, Freer
<1>7. Queue'
  <2>1. Has("walk")' => con'.verbose \/ run'.cmd = "show"
    BY <1>1, <1>3, QueueLeads DEF Queue
  <2>2. QED
    BY <1>2, <1>4, <1>5, <2>1 DEF Queue
<1>8. QED
  BY <1>1, <1>2, <1>6, <1>7, QueueStep DEF ModeSteps

(* The driver drops the queue. *)
LEMMA DroppedKeeps == ASSUME Inv, dropped, Others PROVE Inv'
<1>1. At("dropped") /\ run' = Done /\ UNCHANGED <<con, har>>
  BY DEF dropped
<1>2. que' \in QueType /\ que'.q = FALSE /\ que'.chain = 0
  <2>1. que \in QueType
    BY RunFields
  <2>2. PICK t \in BOOLEAN, n \in Nat : t = FALSE /\ n = 0
    OBVIOUS
  <2>3. t \in BOOLEAN /\ n \in Nat /\ n \in Int
    OBVIOUS
  <2>4. que' = [que EXCEPT !.q = t, !.chain = n, !.size = n, !.qcnt = n, !.broken = t]
    BY <2>2 DEF dropped
  <2>5. que' \in QueType /\ que'.q = t /\ que'.chain = n
    BY <2>1, <2>3, <2>4, Zenon DEF QueType
  <2>6. QED
    BY <2>2, <2>5
<1>3. hd = "dropped" /\ run'.cmd = run.cmd /\ Owned /\ Queue /\ ~Gone /\ ~Gone'
  BY <1>1, QueueLeads
<1>4. run.cmd \in {"new", "free"} /\ Freed /\ ~Freed' /\ ~Has("q_free")'
  <2>1. run.cmd \in {"new", "free"}
    BY <1>1, QueueLeads DEF Steps, Freeing, Show, RH
  <2>2. Has("dropped") /\ ~Has("dropped")' /\ ~Has("q_free")' /\ ~Has("q_free")
    BY <1>1, QueueLeads DEF Apart, Making
  <2>3. QED
    BY <1>3, <2>1, <2>2 DEF Freed
<1>5. hd' \notin {"linked", "header", "attach", "unlink", "unlinked", "turned", "detach"}
  BY <1>1, <1>4, QueueLeads DEF RH
<1>6. Owned'
  <2>1. Extra' = 0 /\ Chain' = 0
    BY <1>2, <1>5 DEF Extra, Chain
  <2>2. AtLeast(0)'
    <3>1. AtLeast(0)
      BY <1>3, <1>4 DEF Owned, Freer
    <3>2. QED
      BY <1>1, <3>1, QueueLeads
  <2>3. QED
    BY <1>3, <1>4, <1>5, <2>1, <2>2 DEF Owned, Freer
<1>7. Queue'
  <2>1. Has("walk")' => con'.verbose \/ run'.cmd = "show"
    BY <1>1, <1>3, QueueLeads DEF Queue
  <2>2. ~Has("attach")'
    <3>1. ~Has("attach")
      <4>1. On(run.todo) \subseteq Steps(run.cmd)
        BY <1>1, QueueLeads DEF Moved, Following
      <4>2. QED
        BY <1>4, <4>1 DEF Steps, Freeing, Show, Has
    <3>2. QED
      BY <1>1, <3>1, QueueLeads
  <2>3. QED
    BY <1>2, <1>5, <2>1, <2>2 DEF Queue
<1>8. QED
  BY <1>1, <1>2, <1>6, <1>7, QueueStep DEF ModeSteps

(* The block of the new element is put on the list. *)
LEMMA AttachKeeps == ASSUME Inv, attach, Others PROVE Inv'
<1>1. At("attach") /\ run' = Done /\ UNCHANGED <<con, har>>
  BY DEF attach
<1>2. que' \in QueType /\ que'.q = que.q /\ que'.chain = que.chain + 1 /\ que.chain \in Nat
  <2>1. que' = [que EXCEPT !.chain = que.chain + 1]
    BY DEF attach
  <2>2. QED
    BY <2>1, RunFields DEF QueType
<1>3. hd = "attach" /\ run'.cmd = run.cmd /\ Owned /\ Queue /\ ~Gone /\ ~Gone' /\ On(run.todo) \subseteq Steps(run.cmd)
  BY <1>1, QueueLeads DEF Moved, Following
<1>4. run.cmd = "ih" /\ ~Freed /\ ~Freed' /\ ~Has("q_free")' /\ ~Has("q_new")' /\ ~Has("header")' /\ que.q
  <2>1. run.cmd = "ih"
    BY <1>1, QueueLeads DEF Steps, Freeing, Show, RH
  <2>2. \A b \in {"q_free", "dropped", "q_new", "header"} : ~Has(b) /\ ~Has(b)'
    <3>1. \A b \in {"q_free", "dropped", "q_new", "header"} : b \notin Steps("ih")
      BY DEF Steps, Freeing, Show, RH
    <3>2. \A b \in {"q_free", "dropped", "q_new", "header"} : ~Has(b)
      BY <1>3, <2>1, <3>1 DEF Has
    <3>3. QED
      BY <1>1, <3>2, QueueLeads
  <2>3. que.q
    BY <1>1, <1>3, QueueLeads DEF Queue
  <2>4. QED
    BY <1>3, <2>1, <2>2, <2>3 DEF Freed
<1>5. hd' \notin {"linked", "header", "attach", "unlink", "unlinked", "turned", "detach"}
  BY <1>1, <1>4, QueueLeads DEF RH
<1>6. Owned'
  <2>1. PICK n : n = que.chain + 2
    OBVIOUS
  <2>2. Extra + Chain = n /\ Extra' + Chain' = n
    BY <1>2, <1>3, <1>4, <1>5, <2>1 DEF Extra, Chain
  <2>3. AtLeast(n)
    BY <1>3, <1>4, <2>2 DEF Owned
  <2>4. AtLeast(n)'
    BY <1>1, <2>3, QueueLeads
  <2>5. QED
    BY <1>3, <1>4, <1>5, <2>2, <2>4 DEF Owned, Freer
<1>7. Queue'
  <2>1. Has("walk")' => con'.verbose \/ run'.cmd = "show"
    BY <1>1, <1>3, QueueLeads DEF Queue
  <2>2. QED
    BY <1>2, <1>3, <1>4, <1>5, <2>1 DEF Queue
<1>8. QED
  BY <1>1, <1>2, <1>6, <1>7, QueueStep DEF ModeSteps

(* The first element leaves the list, and its block is next. *)
LEMMA DetachKeeps == ASSUME Inv, detach, Others PROVE Inv'
<1>1. At("detach") /\ run' = Done /\ UNCHANGED <<con, har>>
  BY DEF detach
<1>2. hd = "detach" /\ run'.cmd = run.cmd /\ Owned /\ Queue /\ ~Gone /\ ~Gone' /\ On(run.todo) \subseteq Steps(run.cmd)
  BY <1>1, QueueLeads DEF Moved, Following
<1>3. que.chain \in Nat /\ que.chain > 0 /\ que.q
  BY <1>2, RunFields DEF Queue
<1>4. que' \in QueType /\ que'.q = que.q /\ que'.chain = que.chain - 1
  <2>1. PICK n \in Nat : n = que.chain - 1
    BY <1>3
  <2>2. que' = [que EXCEPT !.chain = n]
    BY <2>1 DEF detach
  <2>3. que' \in QueType /\ que'.q = que.q /\ que'.chain = n
    BY <2>2, RunFields DEF QueType
  <2>4. QED
    BY <2>1, <2>3
<1>5. run.cmd \in RH /\ ~Freed /\ ~Freed' /\ ~Has("q_free")' /\ ~Has("q_new")' /\ ~Has("header")'
  <2>1. run.cmd \in RH
    BY <1>1, QueueLeads DEF Steps, Freeing, Show
  <2>2. \A b \in {"q_free", "dropped", "q_new", "header"} : ~Has(b) /\ ~Has(b)'
    <3>1. \A b \in {"q_free", "dropped", "q_new", "header"} : b \notin Steps(run.cmd)
      BY <2>1 DEF Steps, Freeing, Show, RH
    <3>2. \A b \in {"q_free", "dropped", "q_new", "header"} : ~Has(b)
      BY <1>2, <3>1 DEF Has
    <3>3. QED
      BY <1>1, <3>2, QueueLeads
  <2>3. QED
    BY <1>2, <2>1, <2>2 DEF Freed, RH
<1>6. hd' = "unlink"
  BY <1>1, QueueLeads
<1>7. Owned'
  <2>1. PICK n : n = que.chain + 1
    OBVIOUS
  <2>2. Extra + Chain = n /\ Extra' + Chain' = n
    BY <1>2, <1>3, <1>4, <1>5, <1>6, <2>1 DEF Extra, Chain
  <2>3. AtLeast(n)
    BY <1>2, <1>5, <2>2 DEF Owned
  <2>4. AtLeast(n)'
    BY <1>1, <2>3, QueueLeads
  <2>5. QED
    BY <1>2, <1>5, <1>6, <2>2, <2>4 DEF Owned, Freer
<1>8. Queue'
  <2>1. (Has("walk")' => con'.verbose \/ run'.cmd = "show") /\ (Has("attach")' => que'.q)
    BY <1>1, <1>2, <1>3, <1>4, QueueLeads DEF Queue
  <2>2. QED
    BY <1>2, <1>3, <1>4, <1>5, <1>6, <2>1 DEF Queue, RH
<1>9. QED
  BY <1>1, <1>4, <1>7, <1>8, QueueStep DEF ModeSteps

(* The last pointer of the reversed list is set. *)
LEMMA TurnedKeeps == ASSUME Inv, turned, Others PROVE Inv'
<1>1. At("turned") /\ run' = Done /\ UNCHANGED <<con, har>>
  BY DEF turned
<1>2. hd = "turned" /\ run'.cmd = run.cmd /\ Owned /\ Queue /\ ~Gone /\ ~Gone' /\ On(run.todo) \subseteq Steps(run.cmd)
  BY <1>1, QueueLeads DEF Moved, Following
<1>3. run.cnt \in Nat /\ que.q
  BY <1>2, RunFields DEF Queue
<1>4. que' \in QueType /\ que'.q = que.q /\ que'.chain = run.cnt
  <2>1. que' = [que EXCEPT !.chain = run.cnt]
    BY DEF turned
  <2>2. QED
    BY <1>3, <2>1, RunFields DEF QueType
<1>5. run.cmd = "reverse" /\ ~Freed /\ ~Freed' /\ ~Has("q_free")' /\ ~Has("q_new")' /\ ~Has("header")'
  <2>1. run.cmd = "reverse"
    BY <1>1, QueueLeads DEF Steps, Freeing, Show, RH
  <2>2. \A b \in {"q_free", "dropped", "q_new", "header"} : ~Has(b) /\ ~Has(b)'
    <3>1. \A b \in {"q_free", "dropped", "q_new", "header"} : b \notin Steps(run.cmd)
      BY <2>1 DEF Steps, Freeing, Show, RH
    <3>2. \A b \in {"q_free", "dropped", "q_new", "header"} : ~Has(b)
      BY <1>2, <3>1 DEF Has
    <3>3. QED
      BY <1>1, <3>2, QueueLeads
  <2>3. QED
    BY <1>2, <2>1, <2>2 DEF Freed
<1>6. hd' \notin {"linked", "header", "attach", "unlink", "unlinked", "turned", "detach"}
  BY <1>1, <1>5, QueueLeads DEF RH
<1>7. Owned'
  <2>1. PICK n : n = run.cnt + 1
    OBVIOUS
  <2>2. Extra + Chain = n /\ Extra' + Chain' = n
    BY <1>2, <1>3, <1>4, <1>5, <1>6, <2>1 DEF Extra, Chain
  <2>3. AtLeast(n)
    BY <1>2, <1>5, <2>2 DEF Owned
  <2>4. AtLeast(n)'
    BY <1>1, <2>3, QueueLeads
  <2>5. QED
    BY <1>2, <1>5, <1>6, <2>2, <2>4 DEF Owned, Freer
<1>8. Queue'
  <2>1. (Has("walk")' => con'.verbose \/ run'.cmd = "show") /\ (Has("attach")' => que'.q)
    BY <1>1, <1>2, <1>3, <1>4, QueueLeads DEF Queue
  <2>2. QED
    BY <1>2, <1>3, <1>4, <1>5, <1>6, <2>1 DEF Queue
<1>9. QED
  BY <1>1, <1>4, <1>7, <1>8, QueueStep DEF ModeSteps

(* The loop begins: only the old head is on the list, until it ends. *)
LEMMA QReverseKeeps == ASSUME Inv, q_reverse, Others PROVE Inv'
<1>1. At("q_reverse") /\ con' = con /\ har' = har
  BY DEF q_reverse
<1>2. Owned /\ Queue /\ run.cmd # "none" /\ Grammar(run.cmd, run.todo) /\ run.todo # <<>> /\ Head(run.todo) = "q_reverse"
      /\ que.chain \in Nat
  BY <1>1, RunFields, TailFollows, StepsAre DEF Inv, At, Following, Commands
<1>3. "q_reverse" \in Steps(run.cmd) /\ hd = "q_reverse"
  <2>1. Following(run.cmd, run.todo, "q_reverse", Tail(run.todo))
    BY <1>2, TailFollows
  <2>2. QED
    BY <2>1 DEF Following, hd
<1>4. run.cmd = "reverse"
  BY <1>3 DEF Steps, Freeing, Show, RH
<1>5. CASE ~(que.q /\ que.chain >= 2)
  <2>1. run' = Done /\ que' = que
    BY <1>5 DEF q_reverse
  <2>2. Moved("q_reverse", <<>>) /\ run'.ok = run.ok
    BY <1>1, <2>1, DoneMoves DEF Done
  <2>3. /\ Framed /\ har' \in HarType /\ que' \in QueType /\ SameModes /\ SameBlocks /\ SameQueue
        /\ har'.error_occurred = har.error_occurred
    BY <1>1, <2>1, Counted
  <2>4. Cuts'
    BY <2>2, <2>3, CutsKept, NothingLeft
  <2>5. QED
    BY <2>2, <2>3, <2>4, PlainKeeps DEF Plain, ModeSteps, Owners, Freer
<1>6. CASE que.q /\ que.chain >= 2
  <2>1. PICK d, n : d = Becomes(<<"turned">>) /\ n = que.chain /\ run' = [d EXCEPT !.cnt = n]
    BY <1>6 DEF q_reverse
  <2>2. Replaces(run.cmd, "q_reverse", <<"turned">>) /\ <<"turned">> # <<>> /\ <<"turned">>[1] = "turned"
        /\ On(<<"turned">>) = {"turned"}
    BY <1>3, QReverseReplaces DEF On
  <2>3. SetTo(<<"turned">>, run.ok, run.rval, run.reps, n)
    <3>1. n \in Int /\ d = Becomes(<<"turned">>) /\ run' = [d EXCEPT !.cnt = n]
      BY <1>2, <2>1
    <3>2. QED
      BY <3>1, Sets
  <2>4. Moved("q_reverse", <<"turned">>) /\ run'.ok = run.ok /\ run'.cnt = n
    BY <1>1, <2>2, <2>3, SetMoves
  <2>5. que' \in QueType /\ que'.q = que.q /\ que'.chain = 1
    <3>1. que' = [que EXCEPT !.chain = 1]
      BY <1>6 DEF q_reverse
    <3>2. QED
      BY <3>1, RunFields DEF QueType
  <2>6. Framed /\ har' \in HarType /\ SameModes /\ SameBlocks
    BY <1>1, RunFields, ConSame DEF SameModes, SameBlocks
  <2>7. hd' = "turned" /\ run'.cmd = run.cmd
    BY <2>2, <2>4, Leads DEF Moved
  <2>8. \A b \in {"q_free", "dropped", "q_new", "header", "attach"} : ~Has(b) /\ ~Has(b)'
    <3>1. \A b \in {"q_free", "dropped", "q_new", "header", "attach"} : b \notin Steps(run.cmd)
      BY <1>4 DEF Steps, Freeing, Show, RH
    <3>2. On(run.todo) \subseteq Steps(run.cmd) /\ On(run'.todo) \subseteq On(run.todo) \cup {"turned"}
      BY <2>2, <2>4 DEF Moved, Following
    <3>3. QED
      BY <3>1, <3>2 DEF Has
  <2>9. Owned'
    <3>1. PICK m : m = que.chain + 1
      OBVIOUS
    <3>2. Extra + Chain = m /\ Extra' + Chain' = m
      BY <1>3, <1>2, <1>4, <1>6, <2>1, <2>4, <2>5, <2>7, <3>1 DEF Extra, Chain, Freer
    <3>3. ~Freed /\ ~Freed' /\ ~Gone /\ ~Gone'
      BY <1>4, <2>7, <2>8 DEF Freed, Gone
    <3>4. AtLeast(m)
      BY <1>2, <3>2, <3>3 DEF Owned
    <3>5. AtLeast(m)'
      BY <1>1, <3>4 DEF AtLeast, Others
    <3>6. QED
      BY <2>7, <2>8, <3>2, <3>3, <3>5 DEF Owned, Freer
  <2>10. Queue'
    <3>1. Has("walk")' => Has("walk")
      BY <2>2, <2>4 DEF Moved, Following, Has
    <3>2. QED
      BY <1>1, <1>2, <1>4, <1>6, <2>1, <2>4, <2>5, <2>7, <2>8, <3>1 DEF Queue
  <2>11. Modes' /\ Difference' /\ Cuts' /\ Ends'
    BY <1>1, <2>2, <2>4, <2>6, ModesKept, DifferenceKept, CutsKept, EndsKept DEF ModeSteps, Inner
  <2>12. Types' /\ Grammar(run'.cmd, run'.todo)
    BY <2>4, <2>5, <2>6, TypesKept
  <2>13. QED
    BY <2>9, <2>10, <2>11, <2>12 DEF Inv
<1>7. QED
  BY <1>5, <1>6

(* What is first is what is at hand. *)
LEMMA AtIs ==
  ASSUME Inv, NEW a, At(a)
  PROVE  /\ Following(run.cmd, run.todo, a, Tail(run.todo)) /\ run.todo # <<>> /\ run.todo[1] = a /\ hd = a
         /\ Grammar(run.cmd, run.todo) /\ a \in Steps(run.cmd) /\ run.cmd \in Commands /\ run.cmd # "none"
         /\ Has(a) /\ On(run.todo) \subseteq Steps(run.cmd)
<1>1. Grammar(run.cmd, run.todo) /\ run.todo # <<>> /\ Head(run.todo) = a
  BY DEF Inv, At
<1>2. Following(run.cmd, run.todo, a, Tail(run.todo)) /\ run.todo[1] = a
  BY <1>1, TailFollows
<1>3. hd = a /\ a \in Steps(run.cmd) /\ Has(a) /\ On(run.todo) \subseteq Steps(run.cmd)
  BY <1>2 DEF Following, hd, Has
<1>4. run.cmd \in Commands /\ run.cmd # "none"
  BY <1>3, StepsAre DEF Commands
<1>5. QED
  BY <1>1, <1>2, <1>3, <1>4

(* What is left to free once q_free began. *)
LEMMA FreesBegin ==
  ASSUME NEW cmd, NEW t, Grammar(cmd, t), t # <<>>, t[1] = "q_free", NEW n \in Nat \ {0}
  PROVE  FreesLeft(Frees(n) \o Tail(t), 0, n)
<1>1. PICK s, r, w : s = Frees(n) /\ r = Tail(t) /\ w = Frees(n) \o Tail(t)
  OBVIOUS
<1>2. Following(cmd, t, "q_free", r) /\ Len(r) \in Nat
  BY <1>1, TailFollows
<1>3. r # <<>> /\ First(r) = "disarm"
  BY <1>2 DEF Following, Final, Pair
<1>4. r[1] = "disarm" /\ Len(r) # 0
  BY <1>2, <1>3, EmptySeq DEF First, Following, Grammar
<1>5. n \in Nat /\ Len(s) = 2 * n /\ \A i \in 1..n : s[2 * i - 1] = "unlink" /\ s[2 * i] = "unlinked"
  <2>1. n \in Nat
    OBVIOUS
  <2>2. Len(Frees(n)) = 2 * n /\ \A i \in 1..n : Frees(n)[2 * i - 1] = "unlink" /\ Frees(n)[2 * i] = "unlinked"
    BY <2>1, FreesIs
  <2>3. QED
    BY <1>1, <2>1, <2>2
<1>6. /\ Len(w) = Len(s) + Len(r)
      /\ \A i \in 1..Len(s) : w[i] = s[i]
      /\ \A i \in 1..Len(r) : w[Len(s) + i] = r[i]
  <2>1. "q_free" \in Steps(cmd)
    BY <1>2 DEF Following
  <2>2. Replaces(cmd, t[1], s)
    BY <1>1, <2>1, FreesReplaces
  <2>3. QED
    BY <1>1, <2>2, SpliceIs
<1>7. 2 * n + 0 < Len(w) /\ w[2 * n + 0 + 1] = "disarm"
  <2>1. 1 \in 1..Len(r) /\ Len(s) + 1 = 2 * n + 0 + 1
    BY <1>2, <1>4, <1>5
  <2>2. w[2 * n + 0 + 1] = r[1]
    BY <1>6, <2>1
  <2>3. QED
    BY <1>2, <1>4, <1>5, <1>6, <2>2
<1>8. ASSUME NEW i \in 1..n PROVE w[2 * i + 0 - 1] = "unlink" /\ w[2 * i + 0] = "unlinked"
  <2>1. 2 * i + 0 - 1 \in 1..Len(s) /\ 2 * i + 0 \in 1..Len(s) /\ 2 * i + 0 - 1 = 2 * i - 1 /\ 2 * i + 0 = 2 * i
    BY <1>5
  <2>2. QED
    BY <1>5, <1>6, <2>1
<1>9. QED
  BY <1>1, <1>7, <1>8 DEF FreesLeft

(* q_free: from here on the blocks to be freed are spelled out in run.todo. *)
LEMMA QFreeKeeps == ASSUME Inv, q_free, Others PROVE Inv'
<1>1. At("q_free") /\ con' = con /\ har' = har /\ que' = que
  BY DEF q_free
<1>2. /\ Owned /\ Queue /\ run.cmd # "none" /\ Grammar(run.cmd, run.todo) /\ run.todo # <<>> /\ run.todo[1] = "q_free"
      /\ "q_free" \in Steps(run.cmd) /\ hd = "q_free" /\ Has("q_free")
  BY <1>1, AtIs DEF Inv
<1>3. PICK s, n : n = que.chain + 1 /\ s = (IF que.q THEN Frees(n) ELSE <<>>) /\ run' = Becomes(s)
  BY DEF q_free
<1>4. n \in Nat \ {0}
  BY <1>3, RunFields
<1>5. s = <<>> \/ Replaces(run.cmd, "q_free", s)
  BY <1>2, <1>3, <1>4, FreesReplaces
<1>6. Moved("q_free", s) /\ run'.ok = run.ok
  BY <1>1, <1>3, <1>5, DoneMoves
<1>7. /\ Framed /\ har' \in HarType /\ que' \in QueType /\ SameModes /\ SameBlocks /\ SameQueue
      /\ har'.error_occurred = har.error_occurred
  BY <1>1, Counted
<1>8. On(s) \subseteq Freer /\ (s # <<>> => que.q /\ s[1] = "unlink" /\ s[1] \in On(s))
  <2>1. CASE s = <<>>
    BY <2>1, NothingLeft
  <2>2. CASE s # <<>>
    <3>1. que.q /\ s = Frees(n)
      BY <1>3, <2>2
    <3>2. Len(s) = 2 * n /\ \A i \in 1..n : s[2 * i - 1] = "unlink"
      BY <1>4, <3>1, FreesIs
    <3>3. \A i \in 1..Len(s) : s[i] \in Freer
      BY <1>4, <3>1, <3>2, FreesIs DEF Freer
    <3>4. s[1] = "unlink" /\ 1 \in 1..Len(s)
      <4>1. 1 \in 1..n /\ 2 * 1 - 1 = 1 /\ 1 \in 1..2 * n
        BY <1>4
      <4>2. QED
        BY <3>2, <4>1
    <3>5. QED
      BY <3>1, <3>3, <3>4 DEF On
  <2>3. QED
    BY <2>1, <2>2
<1>9. hd' = (IF que.q THEN "unlink" ELSE "disarm") /\ run'.cmd = run.cmd
  <2>1. CASE que.q
    <3>1. s = Frees(n) /\ Replaces(run.cmd, "q_free", Frees(n))
      BY <1>2, <1>3, <1>4, <2>1, FreesReplaces
    <3>2. s # <<>>
      BY <3>1 DEF Replaces
    <3>3. QED
      BY <1>6, <1>8, <2>1, <3>2, Leads DEF Moved
  <2>2. CASE ~que.q
    <3>1. s = <<>>
      BY <1>3, <2>2
    <3>2. ~Final(run.cmd, "q_free")
      BY <1>2, AtIs DEF Final
    <3>3. hd' = "disarm" /\ run'.cmd = run.cmd
      BY <1>6, <3>1, <3>2, Leads DEF Moved, Pair
    <3>4. QED
      BY <2>2, <3>3
  <2>3. QED
    BY <2>1, <2>2
<1>10. ~Freed /\ Freed' /\ ~Has("q_free")'
  <2>1. ~Has("q_free")' /\ (Has("dropped")' <=> Has("dropped"))
    BY <1>6, <1>8 DEF Moved, Following, Has, Apart, Freer
  <2>2. run.cmd = "quit" \/ Has("dropped")
    BY <1>2 DEF Owned
  <2>3. QED
    BY <1>2, <1>9, <2>1, <2>2 DEF Freed
<1>11. Owned'
  <2>1. ~Gone /\ ~Gone'
    BY <1>2, <1>9 DEF Gone
  <2>2. Extra + Chain = (IF que.q THEN n ELSE 0)
    BY <1>2, <1>3, <1>4 DEF Extra, Chain
  <2>3. AtLeast(Extra + Chain)
    BY <1>2, <1>10, <2>1 DEF Owned
  <2>4. \A m : AtLeast(m)' <=> AtLeast(m)
    BY <1>1 DEF AtLeast, Others
  <2>5. CASE que.q
    <3>1. AtLeast(n)'
      BY <2>2, <2>3, <2>4, <2>5
    <3>2. FreesLeft(run'.todo, 0, n)
      <4>1. run'.todo = Frees(n) \o Tail(run.todo)
        BY <1>3, <1>6, <2>5 DEF Moved
      <4>2. QED
        BY <1>2, <1>4, <4>1, FreesBegin
    <3>3. \E m \in Nat : FreesLeft(run'.todo, 0, m) /\ AtLeast(m)'
      BY <1>4, <3>1, <3>2
    <3>4. QED
      BY <1>9, <1>10, <2>1, <2>5, <3>3 DEF Owned, Freer
  <2>6. CASE ~que.q
    <3>1. AtLeast(0)'
      BY <2>2, <2>3, <2>4, <2>6
    <3>2. QED
      BY <1>9, <1>10, <2>1, <2>6, <3>1 DEF Owned, Freer
  <2>7. QED
    BY <2>5, <2>6
<1>12. Modes' /\ Difference' /\ Queue' /\ Cuts' /\ Ends'
  BY <1>5, <1>6, <1>7, <1>8, ModesKept, DifferenceKept, QueueKept, CutsKept, EndsKept DEF ModeSteps, Freer, Inner
<1>13. Types' /\ Grammar(run'.cmd, run'.todo)
  BY <1>6, <1>7, TypesKept
<1>14. QED
  BY <1>11, <1>12, <1>13 DEF Inv

(* do_new goes on, or returns at once: no time limit is set then. *)
LEMMA CalledMallocKeeps == ASSUME Inv, called_malloc, Others PROVE Inv'
<1>1. At("called_malloc") /\ con' = con /\ har' = clear_called_malloc(har)
  BY DEF called_malloc
<1>2. /\ Inv /\ Following(run.cmd, run.todo, "called_malloc", Tail(run.todo)) /\ hd = "called_malloc"
      /\ "called_malloc" \in Steps(run.cmd) /\ Has("called_malloc") /\ On(run.todo) \subseteq Steps(run.cmd)
  BY <1>1, AtIs
<1>3. run.cmd = "new"
  BY <1>2 DEF Steps, Freeing, Show, RH
<1>4. /\ har' \in HarType /\ SameModes /\ SameBlocks /\ har'.error_occurred = har.error_occurred
  <2>1. har \in HarType
    BY RunFields
  <2>2. QED
    BY <1>1, <2>1 DEF HarType, SameModes, SameBlocks, clear_called_malloc
<1>5. Framed
  BY <1>1, ConSame
<1>6. CASE har.called_malloc
  <2>1. run' = Becomes(<<>>) /\ que' = [que EXCEPT !.qcnt = 0]
    BY <1>6 DEF called_malloc, Done
  <2>2. que' \in QueType /\ SameQueue
    BY <2>1, RunFields DEF QueType, SameQueue
  <2>3. Moved("called_malloc", <<>>) /\ run'.ok = run.ok
    BY <1>1, <2>1, DoneMoves
  <2>4. Cuts'
    BY <1>4, <1>5, <2>3, CutsKept, NothingLeft
  <2>5. QED
    BY <1>4, <1>5, <2>2, <2>3, <2>4, PlainKeeps DEF Plain, ModeSteps, Owners, Freer
<1>7. CASE ~har.called_malloc
  <2>1. que' = que /\ run' = [run EXCEPT !.ok = FALSE, !.todo = <<>>]
    BY <1>7 DEF called_malloc
  <2>2. /\ run'.cmd = run.cmd /\ run'.cut = run.cut /\ run'.todo = <<>> /\ ~run'.ok /\ run' \in RunType
    <3>1. run \in RunType /\ <<>> \in Seq(AllSteps)
      BY RunFields, EmptySeq
    <3>2. QED
      BY <2>1, <3>1 DEF RunType
  <2>3. hd' = "none" /\ (\A b : ~Has(b)') /\ Grammar(run'.cmd, run'.todo)
    BY <2>2, NothingLeft DEF hd, Has
  <2>4. \A b \in {"unready", "cautious", "dropped", "noallocate_off"} : ~Has(b)
    <3>1. "noallocate_off" \notin Steps(run.cmd)
      BY <1>3 DEF Steps, Freeing, Show, RH
    <3>2. \A b \in {"unready", "cautious", "dropped"} : ~Has(b)
      BY <1>2 DEF Following, Has, Apart
    <3>3. QED
      BY <1>2, <3>1, <3>2 DEF Has
  <2>5. ~har.alarm /\ ~har.jmp_ready /\ ~har.noallocate /\ har.cautious
    BY <1>2, <2>4 DEF Inv, Modes, Inner
  <2>6. Modes'
    BY <1>4, <2>3, <2>5 DEF Modes, SameModes
  <2>7. Difference'
    <3>1. Behind = 0 /\ Behind' = 0 /\ Difference
      BY <1>2, <2>3 DEF Behind, Inv
    <3>2. QED
      BY <1>4, <3>1 DEF Difference, SameBlocks, Others
  <2>8. Owned'
    <3>1. ~Freed /\ ~Freed' /\ ~Gone /\ ~Gone' /\ Owned
      BY <1>2, <1>3, <2>2, <2>3, <2>4 DEF Freed, Gone, Inv
    <3>2. Extra = 0 /\ Extra' = 0 /\ Chain' = Chain
      BY <1>2, <2>1, <2>3 DEF Extra, Chain
    <3>3. AtLeast(Extra + Chain)
      BY <3>1 DEF Owned
    <3>4. AtLeast(Extra + Chain)'
      BY <1>4, <3>2, <3>3 DEF AtLeast, SameBlocks, Others
    <3>5. QED
      BY <2>3, <3>1, <3>4 DEF Owned, Freer
  <2>9. Queue'
    <3>1. Len(<<>>) = 0
      BY EmptySeq
    <3>2. Waits(run'.todo)
      BY <2>2, <3>1 DEF Waits
    <3>3. Queue
      BY DEF Inv
    <3>4. QED
      BY <2>1, <2>3, <3>2, <3>3 DEF Queue
  <2>10. Cuts'
    <3>1. Cuts /\ run.cmd # "none"
      BY <1>3 DEF Inv
    <3>2. Caught'
      BY <2>2, <2>3 DEF Caught
    <3>3. QED
      BY <1>3, <1>5, <2>2, <3>1, <3>2 DEF Cuts, Framed
  <2>11. Ends'
    BY <1>3, <1>5, <2>2 DEF Inv, Ends, Framed, Lined
  <2>12. Types'
    BY <1>4, <1>5, <2>1, <2>2, RunFields DEF Inv, Types, Framed
  <2>13. QED
    BY <2>3, <2>6, <2>7, <2>8, <2>9, <2>10, <2>11, <2>12 DEF Inv
<1>8. QED
  BY <1>6, <1>7

(* The literal sequences put together. *)
LEMMA ConcatIs ==
  ASSUME NEW S, NEW s \in Seq(S), NEW t \in Seq(S), NEW u \in Seq(S), Len(u) = Len(s) + Len(t),
         \A i \in 1..Len(s) : u[i] = s[i], \A i \in 1..Len(t) : u[Len(s) + i] = t[i]
  PROVE  s \o t = u
<1>1. /\ s \o t \in Seq(S)
      /\ Len(s \o t) = Len(u)
      /\ \A i \in 1..Len(s) + Len(t) : (s \o t)[i] = IF i <= Len(s) THEN s[i] ELSE t[i - Len(s)]
  BY ConcatProperties
<1>2. Len(s) \in Nat /\ Len(t) \in Nat /\ Len(u) \in Nat
  BY LenProperties
<1>3. \A i \in 1..Len(u) : (s \o t)[i] = u[i]
  <2> TAKE i \in 1..Len(u)
  <2>1. CASE i <= Len(s)
    BY <1>1, <1>2, <2>1
  <2>2. CASE ~(i <= Len(s))
    <3>1. i - Len(s) \in 1..Len(t) /\ Len(s) + (i - Len(s)) = i
      BY <1>2, <2>2
    <3>2. QED
      BY <1>1, <1>2, <2>2, <3>1
  <2>3. QED
    BY <2>1, <2>2
<1>4. QED
  BY <1>1, <1>3, SeqEqual

(* The sequences that the guarded commands are put together from. *)
LEMMA Concat42 == \A a, b, c, d, e, f : <<a, b, c, d>> \o <<e, f>> = <<a, b, c, d, e, f>>
<1> SUFFICES ASSUME NEW a, NEW b, NEW c, NEW d, NEW e, NEW f PROVE <<a, b, c, d>> \o <<e, f>> = <<a, b, c, d, e, f>>
  OBVIOUS
<1>1. PICK S, s, t, u : S = {a, b, c, d, e, f} /\ s = <<a, b, c, d>> /\ t = <<e, f>> /\ u = <<a, b, c, d, e, f>>
  OBVIOUS
<1>2. s \in Seq(S) /\ Len(s) = 4 /\ s[1] = a /\ s[2] = b /\ s[3] = c /\ s[4] = d
  BY <1>1
<1>3. t \in Seq(S) /\ Len(t) = 2 /\ t[1] = e /\ t[2] = f
  BY <1>1
<1>4. u \in Seq(S) /\ Len(u) = 6 /\ u[1] = a /\ u[2] = b /\ u[3] = c /\ u[4] = d /\ u[5] = e /\ u[6] = f
  BY <1>1
<1>5. \A i \in 1..Len(s) : u[i] = s[i]
  BY <1>2, <1>4
<1>6. \A i \in 1..Len(t) : u[Len(s) + i] = t[i]
  BY <1>2, <1>3, <1>4
<1>7. Len(u) = Len(s) + Len(t) /\ s \in Seq(S) /\ t \in Seq(S) /\ u \in Seq(S)
  BY <1>2, <1>3, <1>4
<1>8. s \o t = u
  BY <1>5, <1>6, <1>7, ConcatIs
<1>9. QED
  BY <1>1, <1>8

(* One guarded step. *)
LEMMA GuardedIs == \A x : <<"ready", "arm">> \o <<x>> \o <<"disarm", "unready">> = <<"ready", "arm", x, "disarm", "unready">>
<1> SUFFICES ASSUME NEW x PROVE <<"ready", "arm">> \o <<x>> \o <<"disarm", "unready">> = <<"ready", "arm", x, "disarm", "unready">>
  OBVIOUS
<1>1. PICK S, s, t, u, v, w : S = {"ready", "arm", "disarm", "unready", x} /\ s = <<"ready", "arm">> /\ t = <<x>>
     /\ u = <<"ready", "arm", x>> /\ v = <<"disarm", "unready">> /\ w = <<"ready", "arm", x, "disarm", "unready">>
  OBVIOUS
<1>2. s \in Seq(S) /\ Len(s) = 2 /\ s[1] = "ready" /\ s[2] = "arm"
  BY <1>1
<1>3. t \in Seq(S) /\ Len(t) = 1 /\ t[1] = x
  BY <1>1
<1>4. u \in Seq(S) /\ Len(u) = 3 /\ u[1] = "ready" /\ u[2] = "arm" /\ u[3] = x
  BY <1>1
<1>5. v \in Seq(S) /\ Len(v) = 2 /\ v[1] = "disarm" /\ v[2] = "unready"
  BY <1>1
<1>6. w \in Seq(S) /\ Len(w) = 5 /\ w[1] = "ready" /\ w[2] = "arm" /\ w[3] = x /\ w[4] = "disarm" /\ w[5] = "unready"
  BY <1>1
<1>7. s \o t = u
  <2>1. (\A i \in 1..Len(s) : u[i] = s[i]) /\ (\A i \in 1..Len(t) : u[Len(s) + i] = t[i])
    BY <1>2, <1>3, <1>4
  <2>2. Len(u) = Len(s) + Len(t) /\ s \in Seq(S) /\ t \in Seq(S) /\ u \in Seq(S)
    BY <1>2, <1>3, <1>4
  <2>3. QED
    BY <2>1, <2>2, ConcatIs
<1>8. u \o v = w
  <2>1. (\A i \in 1..Len(u) : w[i] = u[i]) /\ (\A i \in 1..Len(v) : w[Len(u) + i] = v[i])
    BY <1>4, <1>5, <1>6
  <2>2. Len(w) = Len(u) + Len(v) /\ u \in Seq(S) /\ v \in Seq(S) /\ w \in Seq(S)
    BY <1>4, <1>5, <1>6
  <2>3. QED
    BY <2>1, <2>2, ConcatIs
<1>9. QED
  BY <1>1, <1>7, <1>8

(* do_insert_head calls q_insert_head once more. *)
LEMMA RepeatKeeps == ASSUME Inv, repeat, Others PROVE Inv'
<1>1. At("repeat") /\ que' = que
  BY DEF repeat
<1>2. "repeat" \in Steps(run.cmd) /\ run.cmd \notin Sure /\ run.reps \in Nat
  <2>1. "repeat" \in Steps(run.cmd)
    BY <1>1, AtIs
  <2>2. run.cmd = "ih"
    BY <2>1 DEF Steps, Freeing, Show, RH
  <2>3. QED
    BY <2>1, <2>2, RunFields DEF Sure, Showy
<1>3. CASE ~(run.ok /\ run.reps > 0)
  <2>1. run' = Becomes(<<>>) /\ con' = con /\ har' = har
    BY <1>3 DEF repeat, Done
  <2>2. Moved("repeat", <<>>)
    BY <1>1, <2>1, DoneMoves
  <2>3. Framed /\ har' \in HarType /\ que' \in QueType /\ SameModes /\ SameBlocks /\ SameQueue
    BY <1>1, <2>1, Counted
  <2>4. Cuts'
    BY <1>2, <2>2, <2>3, CutsFree
  <2>5. QED
    BY <2>2, <2>3, <2>4, PlainKeeps DEF Plain, ModeSteps, Owners, Freer
<1>4. CASE run.ok /\ run.reps > 0
  <2>1. PICK null \in Null :
          LET inserts == que.q /\ ~null IN
          /\ run' = [Becomes((IF inserts THEN <<"link", "linked", "attach", "grow">> ELSE <<>>) \o <<"inserted", "repeat">>)
                       EXCEPT !.reps = @ - 1, !.rval = FALSE]
          /\ con' = Warned(que.q /\ null)
          /\ har' = IF que.q THEN called(har) ELSE har
    BY <1>4 DEF repeat
  <2>2. PICK s : s = (IF que.q /\ ~null THEN <<"link", "linked", "attach", "grow">> ELSE <<>>) \o <<"inserted", "repeat">>
    OBVIOUS
  <2>3. PICK d, v, u : d = Becomes(s) /\ u = d.reps - 1 /\ v = FALSE /\ run' = [d EXCEPT !.reps = u, !.rval = v]
    BY <2>1, <2>2
  <2>4. \/ s = <<"link", "linked", "attach", "grow", "inserted", "repeat">> /\ que.q
        \/ s = <<"inserted", "repeat">>
    <3>1. CASE que.q /\ ~null
      <4>1. s = <<"link", "linked", "attach", "grow">> \o <<"inserted", "repeat">>
        BY <2>2, <3>1
      <4>2. QED
        BY <3>1, <4>1, Concat42
    <3>2. CASE ~(que.q /\ ~null)
      <4>1. s = <<>> \o <<"inserted", "repeat">>
        BY <2>2, <3>2
      <4>2. QED
        BY <4>1
    <3>3. QED
      BY <3>1, <3>2
  <2>5. Replaces(run.cmd, "repeat", s)
    BY <1>2, <2>4, InsertReplaces, InsertedReplaces
  <2>6. On(s) \subseteq {"link", "linked", "attach", "grow", "inserted", "repeat"} /\ s[1] \in {"link", "inserted"} /\ s # <<>>
        /\ ("attach" \in On(s) => que.q)
    BY <2>4 DEF On
  <2>7. Moved("repeat", s)
    <3>1. u \in Nat
      <4>1. d.reps = run.reps
        BY <2>3, RunFields, DoneIs
      <4>2. QED
        BY <1>2, <1>4, <2>3, <4>1
    <3>2. v \in BOOLEAN
      BY <2>3
    <3>3. d = Becomes(s) /\ run' = [d EXCEPT !.reps = u, !.rval = v]
      BY <2>3
    <3>4. SetTo(s, run.ok, v, u, run.cnt)
      BY <3>1, <3>2, <3>3, Sets
    <3>5. QED
      BY <1>1, <2>5, <3>4, SetMoves
  <2>8. Framed
    BY <2>1, WarnedFrame
  <2>9. har' \in HarType /\ SameModes /\ SameBlocks
    <3>1. har \in HarType /\ (har' = har \/ har' = [har EXCEPT !.called_malloc = TRUE])
      BY <2>1, RunFields DEF called
    <3>2. QED
      BY <3>1 DEF HarType, SameModes, SameBlocks
  <2>10. SameQueue /\ que' \in QueType
    BY <1>1, RunFields DEF SameQueue
  <2>11. Modes' /\ Difference' /\ Owned' /\ Queue' /\ Cuts' /\ Ends'
    BY <1>2, <2>5, <2>6, <2>7, <2>8, <2>9, <2>10, ModesKept, DifferenceKept, OwnedKept, QueueKept, CutsFree, EndsKept
       DEF ModeSteps, Owners, Freer, Inner
  <2>12. Types' /\ Grammar(run'.cmd, run'.todo)
    BY <2>7, <2>8, <2>9, <2>10, TypesKept
  <2>13. QED
    BY <2>11, <2>12 DEF Inv
<1>5. QED
  BY <1>3, <1>4

(* fail_count after one more failure. *)
LEMMA FailedIs == ASSUME Inv PROVE Failed \in Nat
<1>1. que.fail_count \in Nat /\ FailLimit \in Nat
  BY RunFields, QtestAssumption
<1>2. QED
  BY <1>1 DEF Failed

(* do_insert_head after one q_insert_head. *)
LEMMA InsertedKeeps == ASSUME Inv, inserted, Others PROVE Inv'
<1>1. At("inserted") /\ con' = con
  BY DEF inserted
<1>2. har' = har \/ har' = error_check(har)
  BY DEF inserted
<1>3. (\E n \in Int : que' = [que EXCEPT !.qcnt = n]) \/ (\E n \in Nat : que' = [que EXCEPT !.fail_count = n])
  <2>1. que.qcnt + 1 \in Int /\ Failed \in Nat
    BY RunFields, FailedIs
  <2>2. QED
    BY <2>1 DEF inserted
<1>4. PICK d, v : d = Becomes(<<>>) /\ v = ((run.rval \/ Failed < FailLimit) /\ ~har.error_occurred) /\ run' = [d EXCEPT !.ok = v]
  BY DEF inserted, Done
<1>5. v \in BOOLEAN
  BY <1>4
<1>6. Moved("inserted", <<>>)
  BY <1>1, <1>4, <1>5, OkMoves
<1>7. Framed /\ har' \in HarType /\ que' \in QueType /\ SameModes /\ SameBlocks /\ SameQueue
  BY <1>1, <1>2, <1>3, Counted
<1>8. Cuts'
  <2>1. "inserted" \in Steps(run.cmd)
    BY <1>1, AtIs
  <2>2. run.cmd = "ih"
    BY <2>1 DEF Steps, Freeing, Show, RH
  <2>3. QED
    BY <1>6, <1>7, <2>2, CutsFree DEF Sure, Showy
<1>9. QED
  BY <1>6, <1>7, <1>8, PlainKeeps DEF Plain, ModeSteps, Owners, Freer

(* q_remove_head, on an empty queue too. *)
LEMMA QRemoveKeeps == ASSUME Inv, q_remove_head, Others PROVE Inv'
<1>1. At("q_remove") /\ con' = con /\ har' = har /\ que' = que
  BY DEF q_remove_head
<1>2. PICK s : /\ s = (IF que.q /\ que.chain > 0 THEN <<"detach", "unlink", "unlinked", "shrink">> ELSE <<>>)
               /\ run' = Becomes(s)
  BY DEF q_remove_head
<1>3. s = <<>> \/ Replaces(run.cmd, "q_remove", s)
  BY <1>1, <1>2, AtIs, QRemoveReplaces
<1>4. On(s) \subseteq {"detach", "unlink", "unlinked", "shrink"} /\ (s # <<>> => s[1] = "detach" /\ s[1] \in On(s) /\ que.chain > 0)
  BY <1>2 DEF On
<1>5. Moved("q_remove", s) /\ run'.ok = run.ok
  BY <1>1, <1>2, <1>3, DoneMoves
<1>6. /\ Framed /\ har' \in HarType /\ que' \in QueType /\ SameModes /\ SameBlocks /\ SameQueue
      /\ har'.error_occurred = har.error_occurred
  BY <1>1, Counted
<1>7. Modes' /\ Difference' /\ Owned' /\ Queue' /\ Cuts' /\ Ends'
  BY <1>3, <1>4, <1>5, <1>6, ModesKept, DifferenceKept, OwnedKept, QueueKept, CutsKept, EndsKept
     DEF ModeSteps, Owners, Freer, Inner
<1>8. Types' /\ Grammar(run'.cmd, run'.todo)
  BY <1>5, <1>6, TypesKept
<1>9. QED
  BY <1>7, <1>8 DEF Inv

(* What the driver makes of an element, or of none. The error is still there. *)
LEMMA RemovedKeeps == ASSUME Inv, removed, Others PROVE Inv'
<1>1. At("removed") /\ con' = con /\ har' = har
  BY DEF removed
<1>2. (\E n \in Int : que' = [que EXCEPT !.qcnt = n]) \/ (\E n \in Nat : que' = [que EXCEPT !.fail_count = n])
  <2>1. que.qcnt - 1 \in Int /\ Failed \in Nat
    BY RunFields, FailedIs
  <2>2. QED
    BY <2>1 DEF removed
<1>3. PICK same \in BOOLEAN : run' = [Done EXCEPT !.ok = IF run.rval THEN same ELSE run.cmd = "rh" /\ Failed < FailLimit]
  BY DEF removed
<1>4. PICK d, v : /\ d = Becomes(<<>>) /\ v = (IF run.rval THEN same ELSE run.cmd = "rh" /\ Failed < FailLimit)
                  /\ run' = [d EXCEPT !.ok = v]
  BY <1>3 DEF Done
<1>5. v \in BOOLEAN
  BY <1>4
<1>6. Moved("removed", <<>>)
  BY <1>1, <1>4, <1>5, OkMoves
<1>7. /\ Framed /\ har' \in HarType /\ que' \in QueType /\ SameModes /\ SameBlocks /\ SameQueue
      /\ har'.error_occurred = har.error_occurred
  BY <1>1, <1>2, Counted
<1>8. Cuts'
  <2>1. Cuts /\ run'.cmd = run.cmd /\ run.cmd # "none" /\ run'.cut = run.cut /\ Has("removed")
    BY <1>1, <1>6, AtIs DEF Inv, Moved
  <2>2. Has("end") => Has("end")'
    BY <1>6 DEF Moved, Following, Has
  <2>3. hd' # "checked"
    BY <1>6, Leads DEF Pair
  <2>4. Caught => Caught'
    BY <1>7, <2>1, <2>2, <2>3 DEF Caught
  <2>5. QED
    BY <1>7, <2>1, <2>4 DEF Cuts, Framed, Sure
<1>9. QED
  BY <1>6, <1>7, <1>8, PlainKeeps DEF Plain, ModeSteps, Owners, Freer

(* do_size asks for errors. *)
LEMMA CountedKeeps == ASSUME Inv, counted, Others PROVE Inv'
<1>1. At("counted") /\ con' = con /\ har' = error_check(har) /\ que' = que
  BY DEF counted
<1>2. PICK d, v : d = Becomes(<<>>) /\ v = (~har.error_occurred) /\ run' = [d EXCEPT !.ok = v]
  BY DEF counted, Done
<1>3. v \in BOOLEAN /\ (har.error_occurred => ~v)
  BY <1>2
<1>4. Moved("counted", <<>>) /\ run'.ok = v
  BY <1>1, <1>2, <1>3, OkMoves
<1>5. Framed /\ har' \in HarType /\ que' \in QueType /\ SameModes /\ SameBlocks /\ SameQueue
  BY <1>1, Counted
<1>6. Cuts'
  <2>1. Cuts /\ run'.cmd = run.cmd /\ run.cmd # "none" /\ run'.cut = run.cut /\ Has("counted") /\ "counted" \in Steps(run.cmd)
    BY <1>1, <1>4, AtIs DEF Inv, Moved
  <2>2. run.cmd = "size"
    BY <2>1 DEF Steps, Freeing, Show, RH
  <2>3. ~Has("counted")' /\ ~Has("removed")'
    <3>1. "removed" \notin Steps(run.cmd)
      BY <2>2 DEF Steps, Freeing, Show, RH
    <3>2. QED
      BY <1>4, <3>1, NothingLeft DEF Moved, Following, Has, Apart
  <2>4. Caught => Caught'
    BY <1>3, <1>4, <2>1, <2>3 DEF Caught
  <2>5. QED
    BY <1>5, <2>1, <2>4 DEF Cuts, Framed, Sure
<1>7. QED
  BY <1>4, <1>5, <1>6, PlainKeeps DEF Plain, ModeSteps, Owners, Freer

(* The same, as Guarded writes it. *)
LEMMA GuardedWalk == \A x : Guarded(<<x>>) = <<"ready", "arm", x, "disarm", "unready">>
  BY GuardedIs DEF Guarded, exception_setup, exception_cancel

(* And one more step after it. *)
LEMMA Concat51 == \A a, b, c, d, e, f : <<a, b, c, d, e>> \o <<f>> = <<a, b, c, d, e, f>>
<1> SUFFICES ASSUME NEW a, NEW b, NEW c, NEW d, NEW e, NEW f PROVE <<a, b, c, d, e>> \o <<f>> = <<a, b, c, d, e, f>>
  OBVIOUS
<1>1. PICK S, s, t, u : S = {a, b, c, d, e, f} /\ s = <<a, b, c, d, e>> /\ t = <<f>> /\ u = <<a, b, c, d, e, f>>
  OBVIOUS
<1>2. s \in Seq(S) /\ Len(s) = 5 /\ s[1] = a /\ s[2] = b /\ s[3] = c /\ s[4] = d /\ s[5] = e
  BY <1>1
<1>3. t \in Seq(S) /\ Len(t) = 1 /\ t[1] = f
  BY <1>1
<1>4. u \in Seq(S) /\ Len(u) = 6 /\ u[1] = a /\ u[2] = b /\ u[3] = c /\ u[4] = d /\ u[5] = e /\ u[6] = f
  BY <1>1
<1>5. \A i \in 1..Len(s) : u[i] = s[i]
  BY <1>2, <1>4
<1>6. \A i \in 1..Len(t) : u[Len(s) + i] = t[i]
  BY <1>2, <1>3, <1>4
<1>7. Len(u) = Len(s) + Len(t) /\ s \in Seq(S) /\ t \in Seq(S) /\ u \in Seq(S)
  BY <1>2, <1>3, <1>4
<1>8. s \o t = u
  BY <1>5, <1>6, <1>7, ConcatIs
<1>9. QED
  BY <1>1, <1>8

(* After a command the queue is shown. *)
LEMMA ShowKeeps == ASSUME Inv, show, Others PROVE Inv'
<1>1. At("show") /\ con' = con /\ har' = har /\ que' = que
  BY DEF show
<1>2. PICK s : s = (IF con.verbose /\ que.q THEN Guarded(<<"walk">>) ELSE <<>>) /\ run' = Becomes(s)
  BY DEF show
<1>3. \/ s = <<"ready", "arm", "walk", "disarm", "unready">> /\ con.verbose
      \/ s = <<>>
  BY <1>2, GuardedWalk
<1>4. s = <<>> \/ Replaces(run.cmd, "show", s)
  BY <1>1, <1>3, AtIs, WalkReplaces
<1>5. /\ On(s) \subseteq {"ready", "arm", "walk", "disarm", "unready"} /\ (s # <<>> => s[1] = "ready" /\ s[1] \in On(s))
      /\ "walk" \in On(s) => con.verbose
  BY <1>3 DEF On
<1>6. Moved("show", s) /\ run'.ok = run.ok
  BY <1>1, <1>2, <1>4, DoneMoves
<1>7. /\ Framed /\ har' \in HarType /\ que' \in QueType /\ SameModes /\ SameBlocks /\ SameQueue
      /\ har'.error_occurred = har.error_occurred
  BY <1>1, Counted
<1>8. que.chain = 0 \/ run.cmd \notin {"new", "free"}
  <2>1. Grammar(run.cmd, run.todo) /\ run.todo # <<>> /\ run.todo[1] = "show" /\ Queue
    BY <1>1, AtIs DEF Inv
  <2>2. ~Waits(run.todo)
    BY <2>1, WaitsTail
  <2>3. QED
    BY <2>1, <2>2 DEF Queue
<1>9. Modes' /\ Difference' /\ Owned' /\ Queue' /\ Cuts' /\ Ends'
  BY <1>4, <1>5, <1>6, <1>7, <1>8, ModesKept, DifferenceKept, OwnedKept, QueueKept, CutsKept, EndsKept
     DEF ModeSteps, Owners, Freer, Inner
<1>10. Types' /\ Grammar(run'.cmd, run'.todo)
  BY <1>6, <1>7, TypesKept
<1>11. QED
  BY <1>9, <1>10 DEF Inv

(* do_show. *)
LEMMA ShowingKeeps == ASSUME Inv, showing, Others PROVE Inv'
<1>1. At("showing") /\ con' = con /\ har' = har /\ que' = que
  BY DEF showing
<1>2. Framed /\ har' \in HarType /\ que' \in QueType /\ SameModes /\ SameBlocks /\ SameQueue
  BY <1>1, Counted
<1>3. "showing" \in Steps(run.cmd) /\ run.cmd = "show" /\ run.cmd \notin Sure
  <2>1. "showing" \in Steps(run.cmd)
    BY <1>1, AtIs
  <2>2. run.cmd = "show"
    BY <2>1 DEF Steps, Freeing, Show, RH
  <2>3. QED
    BY <2>1, <2>2 DEF Sure, Showy
<1>4. CASE ~que.q
  <2>1. run' = Becomes(<<>>)
    BY <1>4 DEF showing, Done
  <2>2. Moved("showing", <<>>)
    BY <1>1, <2>1, DoneMoves
  <2>3. Cuts'
    BY <1>2, <1>3, <2>2, CutsFree
  <2>4. QED
    BY <1>2, <2>2, <2>3, PlainKeeps DEF Plain, ModeSteps, Owners, Freer
<1>5. CASE que.q
  <2>1. PICK s, v : s = Guarded(<<"walk">>) \o <<"shown">> /\ v = TRUE
    OBVIOUS
  <2>2. PICK d : d = Becomes(s) /\ run' = [d EXCEPT !.rval = v]
    BY <1>5, <2>1 DEF showing
  <2>3. s = <<"ready", "arm", "walk", "disarm", "unready", "shown">>
    BY <2>1, GuardedWalk, Concat51, ZenonT(40)
  <2>4. Replaces(run.cmd, "showing", s)
    BY <1>3, <2>3, ShowingReplaces
  <2>5. On(s) \subseteq {"ready", "arm", "walk", "disarm", "unready", "shown"} /\ s[1] = "ready"
    BY <2>3 DEF On
  <2>6. Moved("showing", s)
    <3>1. v \in BOOLEAN
      BY <2>1
    <3>2. SetTo(s, run.ok, v, run.reps, run.cnt)
      BY <2>2, <3>1, Sets
    <3>3. QED
      BY <1>1, <2>4, <3>2, SetMoves
  <2>7. Modes' /\ Difference' /\ Owned' /\ Queue' /\ Cuts' /\ Ends'
    BY <1>2, <1>3, <2>4, <2>5, <2>6, ModesKept, DifferenceKept, OwnedKept, QueueKept, CutsFree, EndsKept
       DEF ModeSteps, Owners, Freer, Inner
  <2>8. Types' /\ Grammar(run'.cmd, run'.todo)
    BY <1>2, <2>6, TypesKept
  <2>9. QED
    BY <2>7, <2>8 DEF Inv
<1>6. QED
  BY <1>4, <1>5

(* The walk clears the flag only if there is something to show: not in a new or a free. *)
LEMMA WalkKeeps == ASSUME Inv, walk, Others PROVE Inv'
<1>1. At("walk") /\ con' = con /\ que' = que /\ (har' = IF Walks THEN error_check(har) ELSE har)
  BY DEF walk
<1>2. har' = har \/ har' = error_check(har)
  BY <1>1
<1>3. PICK d, v, n : /\ d = Becomes(<<>>) /\ v = (d.rval /\ (Walks => ~har.error_occurred))
                     /\ n = (IF MoreThan(que.chain) THEN que.chain ELSE que.qcnt)
                     /\ run' = [d EXCEPT !.rval = v, !.cnt = n]
  BY DEF walk, Done
<1>4. Moved("walk", <<>>) /\ run'.ok = run.ok
  <2>1. v \in BOOLEAN
    BY <1>3
  <2>2. n \in Int
    BY <1>3, RunFields
  <2>3. d = Becomes(<<>>) /\ run' = [d EXCEPT !.rval = v, !.cnt = n]
    BY <1>3
  <2>4. SetTo(<<>>, run.ok, v, run.reps, n)
    BY <2>1, <2>2, <2>3, Sets
  <2>5. QED
    BY <1>1, <2>4, SetMoves
<1>5. /\ Framed /\ har' \in HarType /\ que' \in QueType /\ SameModes /\ SameBlocks /\ SameQueue
      /\ har' = har => har'.error_occurred = har.error_occurred
  BY <1>1, <1>2, Counted
<1>6. Cuts'
  <2>1. Grammar(run.cmd, run.todo) /\ run.todo # <<>> /\ run.todo[1] = "walk" /\ Queue /\ Has("walk")
    BY <1>1, AtIs DEF Inv
  <2>2. ~Waits(run.todo)
    BY <2>1, WaitsTail
  <2>3. CASE ~Walks
    BY <1>1, <1>4, <1>5, <2>3, CutsKept, NothingLeft
  <2>4. CASE Walks
    <3>1. run.cmd \notin {"new", "free"} /\ (con.verbose \/ run.cmd = "show")
      BY <2>1, <2>2, <2>4 DEF Queue, Walks
    <3>2. run.cmd \notin Sure
      BY <3>1 DEF Sure, Showy
    <3>3. QED
      BY <1>4, <1>5, <3>2, CutsFree
  <2>5. QED
    BY <2>3, <2>4
<1>7. QED
  BY <1>4, <1>5, <1>6, PlainKeeps DEF Plain, ModeSteps, Owners, Freer

(* ok && !error_check() *)
LEMMA EndKeeps == ASSUME Inv, end, Others PROVE Inv'
<1>1. At("end") /\ con' = con /\ que' = que /\ (har' = har \/ har' = error_check(har))
  BY DEF end
<1>2. PICK d, v : d = Becomes(<<>>) /\ v = (d.ok /\ ~har.error_occurred) /\ run' = [d EXCEPT !.ok = v]
  BY DEF end, Done
<1>3. v \in BOOLEAN /\ (~run.ok \/ har.error_occurred => ~v)
  <2>1. d.ok = run.ok
    BY <1>2, RunFields, DoneIs
  <2>2. QED
    BY <1>2, <2>1
<1>4. Moved("end", <<>>) /\ run'.ok = v
  BY <1>1, <1>2, <1>3, OkMoves
<1>5. Framed /\ har' \in HarType /\ que' \in QueType /\ SameModes /\ SameBlocks /\ SameQueue
  BY <1>1, Counted
<1>6. Cuts'
  <2>1. Cuts /\ run'.cmd = run.cmd /\ run.cmd # "none" /\ run'.cut = run.cut
    BY <1>4 DEF Inv, Moved, Commands
  <2>2. ~Has("counted")' /\ ~Has("removed")'
    <3>1. CASE run'.todo = <<>>
      BY <3>1, NothingLeft DEF Has
    <3>2. CASE run'.todo # <<>>
      <4>1. run.cmd = "new"
        BY <1>4, <3>2, Leads DEF Pair
      <4>2. "counted" \notin Steps(run.cmd) /\ "removed" \notin Steps(run.cmd)
        BY <4>1 DEF Steps, Freeing, Show, RH
      <4>3. QED
        BY <1>4, <4>2, NothingLeft DEF Moved, Following, Has
    <3>3. QED
      BY <3>1, <3>2
  <2>3. Caught => Caught'
    BY <1>3, <1>4, <2>2 DEF Caught
  <2>4. QED
    BY <1>5, <2>1, <2>3 DEF Cuts, Framed, Sure
<1>7. QED
  BY <1>4, <1>5, <1>6, PlainKeeps DEF Plain, ModeSteps, Owners, Freer

(* A step of the command that runs. *)
LEMMA StepKeeps == ASSUME Inv, Step PROVE Inv'
<1>1. Others
  BY DEF Step, Others
<1>2. CASE harness_step
  <2>1. PICK a \in HarnessSteps : At(a) /\ har' = Effect(a)
    BY <1>2 DEF harness_step
  <2>2. run' = Done /\ UNCHANGED <<con, que>>
    BY <1>2 DEF harness_step
  <2>3. \/ a \in ModeSteps
        \/ a \in {"checked", "uncalled"}
        \/ a \in {"link", "linked"}
        \/ a \in Freer
    BY DEF HarnessSteps, ModeSteps, Freer
  <2>4. CASE a \in ModeSteps
    BY <1>1, <2>1, <2>2, <2>4, ModeStepKeeps
  <2>5. CASE a \in {"checked", "uncalled"}
    BY <1>1, <2>1, <2>2, <2>5, CheckedKeeps
  <2>6. CASE a \in {"link", "linked"}
    BY <1>1, <2>1, <2>2, <2>6, LinkKeeps
  <2>7. CASE a \in Freer
    BY <1>1, <2>1, <2>2, <2>7, UnlinkKeeps
  <2>8. QED
    BY <2>3, <2>4, <2>5, <2>6, <2>7
<1>3. \/ harness_step
      \/ q_new \/ header \/ called_malloc
      \/ q_free \/ dropped \/ blocks
      \/ repeat \/ attach \/ grow \/ inserted
      \/ q_remove_head \/ detach \/ shrink \/ removed
      \/ q_reverse \/ turned
      \/ q_size \/ counted \/ sized
      \/ show \/ showing \/ walk \/ shown \/ end
  BY DEF Step
<1>4. CASE q_new \/ header \/ called_malloc \/ q_free \/ dropped \/ blocks
  BY <1>1, <1>4, QNewKeeps, HeaderKeeps, CalledMallocKeeps, QFreeKeeps, DroppedKeeps, BlocksKeeps
<1>5. CASE repeat \/ attach \/ grow \/ inserted
  BY <1>1, <1>5, RepeatKeeps, AttachKeeps, GrowKeeps, InsertedKeeps
<1>6. CASE q_remove_head \/ detach \/ shrink \/ removed
  BY <1>1, <1>6, QRemoveKeeps, DetachKeeps, ShrinkKeeps, RemovedKeeps
<1>7. CASE q_reverse \/ turned \/ q_size \/ counted \/ sized
  BY <1>1, <1>7, QReverseKeeps, TurnedKeeps, QSizeKeeps, CountedKeeps, SizedKeeps
<1>8. CASE show \/ showing \/ walk \/ shown \/ end
  BY <1>1, <1>8, ShowKeeps, ShowingKeeps, WalkKeeps, ShownKeeps, EndKeeps
<1>9. QED
  BY <1>2, <1>3, <1>4, <1>5, <1>6, <1>7, <1>8

-----------------------------------------------------------------------------
(* The commands begin with what the grammar allows.                          *)

Back(s) == s[Len(s)]

(* A part of a command; open is what a later part still takes back. *)
Piece(cmd, s, open) ==
  /\ s \in Seq(Steps(cmd)) /\ s # <<>>
  /\ \A i \in 1..Len(s) - 1 : Pair(cmd, s[i], s[i + 1])
  /\ \A i, j \in 1..Len(s) : i < j => Apart(s[i], s[j])
  /\ \A i \in 1..Len(s), b \in Undoing : Undoes(s[i], b) => (\E j \in i..Len(s) : s[j] = b) \/ b \in open

(* Two pieces may be put one after the other. *)
LEMMA Join ==
  ASSUME NEW cmd, NEW s, NEW t, NEW o, NEW p, Piece(cmd, s, o), Piece(cmd, t, p),
         Pair(cmd, Back(s), t[1]), \A a \in On(s), b \in On(t) : Apart(a, b), \A b \in o : b \in On(t) \/ b \in p
  PROVE  /\ Piece(cmd, s \o t, p) /\ (s \o t)[1] = s[1] /\ Back(s \o t) = Back(t)
         /\ On(s \o t) = On(s) \cup On(t)
         /\ Waits(s) /\ (Waits(t) \/ "dropped" \in On(s)) => Waits(s \o t)
<1>1. PICK m, n, w : m = Len(s) /\ n = Len(t) /\ w = s \o t
  OBVIOUS
<1>2. s \in Seq(Steps(cmd)) /\ t \in Seq(Steps(cmd)) /\ s # <<>> /\ t # <<>>
  BY DEF Piece
<1>3. m \in Nat \ {0} /\ n \in Nat \ {0}
  BY <1>1, <1>2, EmptySeq
<1>4. /\ w \in Seq(Steps(cmd)) /\ Len(w) = m + n /\ w # <<>>
      /\ \A i \in 1..m + n : w[i] = IF i <= m THEN s[i] ELSE t[i - m]
  <2>1. /\ w \in Seq(Steps(cmd)) /\ Len(w) = m + n
        /\ \A i \in 1..m + n : w[i] = IF i <= m THEN s[i] ELSE t[i - m]
    BY <1>1, <1>2, ConcatProperties
  <2>2. w # <<>>
    BY <1>3, <2>1, EmptySeq
  <2>3. QED
    BY <2>1, <2>2
<1>5. \A i \in 1..m : w[i] = s[i] /\ i \in 1..Len(w) /\ s[i] \in On(s)
  BY <1>1, <1>3, <1>4 DEF On
<1>6. \A i \in 1..n : w[m + i] = t[i] /\ m + i \in 1..Len(w) /\ t[i] \in On(t)
  <2> TAKE i \in 1..n
  <2>1. m + i \in 1..m + n /\ ~(m + i <= m) /\ m + i - m = i
    BY <1>3
  <2>2. QED
    BY <1>1, <1>4, <2>1 DEF On
<1>7. \A i \in 1..m + n : i \in 1..m \/ \E k \in 1..n : i = m + k
  <2> TAKE i \in 1..m + n
  <2>1. CASE i <= m
    BY <1>3, <2>1
  <2>2. CASE ~(i <= m)
    <3>1. i - m \in 1..n /\ i = m + (i - m)
      BY <1>3, <2>2
    <3>2. QED
      BY <3>1
  <2>3. QED
    BY <2>1, <2>2
<1>8. \A i \in 1..Len(w) - 1 : Pair(cmd, w[i], w[i + 1])
  <2> TAKE i \in 1..Len(w) - 1
  <2>1. CASE i < m
    <3>1. i \in 1..m - 1 /\ i \in 1..m /\ i + 1 \in 1..m
      BY <1>3, <1>4, <2>1
    <3>2. QED
      BY <1>1, <1>5, <3>1 DEF Piece
  <2>2. CASE i = m
    <3>1. m \in 1..m /\ 1 \in 1..n
      BY <1>3
    <3>2. w[i] = Back(s) /\ w[i + 1] = t[1]
      BY <1>1, <1>5, <1>6, <2>2, <3>1 DEF Back
    <3>3. QED
      BY <3>2
  <2>3. CASE i > m
    <3>1. i - m \in 1..n - 1 /\ i - m \in 1..n /\ i - m + 1 \in 1..n /\ i = m + (i - m) /\ i + 1 = m + (i - m + 1)
      BY <1>3, <1>4, <2>3
    <3>2. w[i] = t[i - m] /\ w[i + 1] = t[i - m + 1]
      BY <1>6, <3>1
    <3>3. QED
      BY <1>1, <3>1, <3>2 DEF Piece
  <2>4. QED
    BY <1>3, <1>4, <2>1, <2>2, <2>3
<1>9. \A i, j \in 1..Len(w) : i < j => Apart(w[i], w[j])
  <2> TAKE i, j \in 1..Len(w)
  <2> HAVE i < j
  <2>1. CASE j \in 1..m
    <3>1. i \in 1..m
      BY <1>3, <1>4, <2>1
    <3>2. QED
      BY <1>1, <1>5, <2>1, <3>1 DEF Piece
  <2>2. ASSUME i \in 1..m, NEW k \in 1..n, j = m + k PROVE Apart(w[i], w[j])
    BY <1>5, <1>6, <2>2
  <2>3. ASSUME NEW l \in 1..n, i = m + l, NEW k \in 1..n, j = m + k PROVE Apart(w[i], w[j])
    <3>1. w[j] = t[k] /\ w[i] = t[l] /\ l < k
      BY <1>3, <1>6, <2>3
    <3>2. QED
      BY <1>1, <3>1 DEF Piece
  <2>4. QED
    BY <1>4, <1>7, <2>1, <2>2, <2>3
<1>10. \A i \in 1..Len(w), b \in Undoing : Undoes(w[i], b) => (\E j \in i..Len(w) : w[j] = b) \/ b \in p
  <2> TAKE i \in 1..Len(w), b \in Undoing
  <2> HAVE Undoes(w[i], b)
  <2>1. ASSUME i \in 1..m PROVE (\E j \in i..Len(w) : w[j] = b) \/ b \in p
    <3>1. (\E j \in i..m : s[j] = b) \/ b \in On(t) \/ b \in p
      BY <1>1, <1>5, <2>1 DEF Piece
    <3>2. CASE \E j \in i..m : s[j] = b
      <4>1. PICK j \in i..m : s[j] = b
        BY <3>2
      <4>2. j \in 1..m /\ j \in i..Len(w)
        BY <1>3, <1>4, <2>1
      <4>3. QED
        BY <1>5, <4>1, <4>2
    <3>3. CASE b \in On(t)
      <4>1. PICK j \in 1..n : t[j] = b
        BY <1>1, <3>3 DEF On
      <4>2. m + j \in i..Len(w)
        BY <1>3, <1>4, <2>1
      <4>3. QED
        BY <1>6, <4>1, <4>2
    <3>4. QED
      BY <3>1, <3>2, <3>3
  <2>2. ASSUME NEW l \in 1..n, i = m + l PROVE (\E j \in i..Len(w) : w[j] = b) \/ b \in p
    <3>1. (\E j \in l..n : t[j] = b) \/ b \in p
      BY <1>1, <1>6, <2>2 DEF Piece
    <3>2. ASSUME NEW j \in l..n, t[j] = b PROVE \E k \in i..Len(w) : w[k] = b
      <4>1. j \in 1..n /\ m + j \in i..Len(w)
        BY <1>3, <1>4, <2>2
      <4>2. QED
        BY <1>6, <3>2, <4>1
    <3>3. QED
      BY <3>1, <3>2
  <2>3. QED
    BY <1>4, <1>7, <2>1, <2>2
<1>11. w[1] = s[1] /\ Back(w) = Back(t)
  <2>1. 1 \in 1..m /\ n \in 1..n
    BY <1>3
  <2>2. QED
    BY <1>1, <1>4, <1>5, <1>6, <2>1 DEF Back
<1>12. On(w) = On(s) \cup On(t)
  <2>1. ASSUME NEW b \in On(w) PROVE b \in On(s) \cup On(t)
    <3>1. PICK i \in 1..m + n : b = w[i]
      BY <1>4 DEF On
    <3>2. QED
      BY <1>5, <1>6, <1>7, <3>1
  <2>2. ASSUME NEW b \in On(s) PROVE b \in On(w)
    <3>1. PICK i \in 1..m : b = s[i]
      BY <1>1 DEF On
    <3>2. QED
      BY <1>5, <3>1 DEF On
  <2>3. ASSUME NEW b \in On(t) PROVE b \in On(w)
    <3>1. PICK i \in 1..n : b = t[i]
      BY <1>1 DEF On
    <3>2. QED
      BY <1>6, <3>1 DEF On
  <2>4. QED
    BY <2>1, <2>2, <2>3
<1>13. ASSUME Waits(s), Waits(t) \/ "dropped" \in On(s) PROVE Waits(w)
  <2>1. ASSUME NEW i \in 1..Len(w), w[i] \in {"show", "walk"} PROVE \E j \in 1..i : w[j] = "dropped"
    <3>1. CASE i \in 1..m
      <4>1. PICK j \in 1..i : s[j] = "dropped"
        BY <1>1, <1>5, <1>13, <2>1, <3>1 DEF Waits
      <4>2. j \in 1..m
        BY <1>3, <3>1
      <4>3. QED
        BY <1>5, <4>1, <4>2
    <3>2. ASSUME NEW k \in 1..n, i = m + k, Waits(t) PROVE \E j \in 1..i : w[j] = "dropped"
      <4>1. t[k] \in {"show", "walk"}
        BY <1>6, <2>1, <3>2
      <4>2. PICK j \in 1..k : t[j] = "dropped"
        BY <1>1, <3>2, <4>1 DEF Waits
      <4>3. j \in 1..n /\ m + j \in 1..i
        BY <1>3, <3>2
      <4>4. QED
        BY <1>6, <4>2, <4>3
    <3>3. ASSUME NEW k \in 1..n, i = m + k, "dropped" \in On(s) PROVE \E j \in 1..i : w[j] = "dropped"
      <4>1. PICK j \in 1..m : s[j] = "dropped"
        BY <1>1, <3>3 DEF On
      <4>2. j \in 1..i
        BY <1>3, <3>3
      <4>3. QED
        BY <1>5, <4>1, <4>2
    <3>4. QED
      BY <1>4, <1>7, <1>13, <3>1, <3>2, <3>3
  <2>2. QED
    BY <2>1 DEF Waits
<1>14. Piece(cmd, w, p)
  BY <1>4, <1>8, <1>9, <1>10 DEF Piece
<1>15. QED
  BY <1>1, <1>11, <1>12, <1>13, <1>14

(* A whole command. *)
LEMMA Whole ==
  ASSUME NEW cmd, NEW s, Piece(cmd, s, {}), Final(cmd, Back(s))
  PROVE  Grammar(cmd, s) /\ s # <<>> /\ First(s) = s[1]
  BY DEF Piece, Grammar, Back, First

(* A part with its first and last steps and what is on it. *)
Part(cmd, s, o, a, b, S) == Piece(cmd, s, o) /\ s[1] = a /\ Back(s) = b /\ On(s) = S

(* One step is a piece. *)
LEMMA Part1 ==
  ASSUME NEW cmd, NEW o, NEW a \in Steps(cmd), \A u \in Undoing : Undoes(a, u) => u \in o
  PROVE  Part(cmd, <<a>>, o, a, a, {a})
<1>1. PICK s : s = <<a>>
  OBVIOUS
<1>2. s \in Seq(Steps(cmd)) /\ Len(s) = 1 /\ s # <<>> /\ s[1] = a
  BY <1>1
<1>3. Piece(cmd, s, o)
  BY <1>2 DEF Piece
<1>4. On(s) = {a}
  BY <1>2 DEF On
<1>5. QED
  BY <1>1, <1>2, <1>3, <1>4 DEF Part, Back

(* Two steps are a piece. *)
LEMMA Part2 ==
  ASSUME NEW cmd, NEW o, NEW a \in Steps(cmd), NEW b \in Steps(cmd), Pair(cmd, a, b), Apart(a, b),
         \A u \in Undoing : (Undoes(a, u) => u \in o) /\ (Undoes(b, u) => u \in o)
  PROVE  Part(cmd, <<a, b>>, o, a, b, {a, b})
<1>1. PICK s : s = <<a, b>>
  OBVIOUS
<1>2. s \in Seq(Steps(cmd)) /\ Len(s) = 2 /\ s # <<>> /\ s[1] = a /\ s[2] = b
  BY <1>1
<1>3. \A i \in 1..Len(s) - 1 : Pair(cmd, s[i], s[i + 1])
  BY <1>2
<1>4. \A i, j \in 1..Len(s) : i < j => Apart(s[i], s[j])
  BY <1>2
<1>5. \A i \in 1..Len(s), u \in Undoing : Undoes(s[i], u) => u \in o
  BY <1>2
<1>6. Piece(cmd, s, o)
  BY <1>2, <1>3, <1>4, <1>5 DEF Piece
<1>7. On(s) = {a, b}
  BY <1>2 DEF On
<1>8. QED
  BY <1>1, <1>2, <1>6, <1>7 DEF Part, Back

(* Join, for pieces whose ends and steps are known. *)
LEMMA JoinParts ==
  ASSUME NEW cmd, NEW s, NEW o, NEW a, NEW b, NEW S, Part(cmd, s, o, a, b, S),
         NEW t, NEW p, NEW c, NEW d, NEW T, Part(cmd, t, p, c, d, T),
         Pair(cmd, b, c), \A x \in S, y \in T : Apart(x, y), o \subseteq T \cup p
  PROVE  /\ Part(cmd, s \o t, p, a, d, S \cup T)
         /\ Waits(s) /\ (Waits(t) \/ "dropped" \in S) => Waits(s \o t)
<1>1. /\ Piece(cmd, s, o) /\ Piece(cmd, t, p) /\ Pair(cmd, Back(s), t[1])
      /\ \A x \in On(s), y \in On(t) : Apart(x, y)
      /\ \A x \in o : x \in On(t) \/ x \in p
  BY DEF Part
<1>2. /\ Piece(cmd, s \o t, p) /\ (s \o t)[1] = s[1] /\ Back(s \o t) = Back(t)
      /\ On(s \o t) = On(s) \cup On(t)
      /\ Waits(s) /\ (Waits(t) \/ "dropped" \in On(s)) => Waits(s \o t)
  BY <1>1, Join
<1>3. QED
  BY <1>2 DEF Part

(* Three steps are a piece. *)
LEMMA Part3 ==
  ASSUME NEW cmd, NEW a \in Steps(cmd), NEW b \in Steps(cmd), NEW c \in Steps(cmd),
         Pair(cmd, a, b), Pair(cmd, b, c), Apart(a, b), Apart(a, c), Apart(b, c),
         \A x \in {a, b, c}, u \in Undoing : ~Undoes(x, u)
  PROVE  Part(cmd, <<a, b, c>>, {}, a, c, {a, b, c})
<1>1. PICK s : s = <<a, b, c>>
  OBVIOUS
<1>2. s \in Seq(Steps(cmd)) /\ Len(s) = 3 /\ s # <<>> /\ s[1] = a /\ s[2] = b /\ s[3] = c
  BY <1>1
<1>3. \A i \in 1..Len(s) - 1 : Pair(cmd, s[i], s[i + 1])
  BY <1>2
<1>4. \A i, j \in 1..Len(s) : i < j => Apart(s[i], s[j])
  BY <1>2
<1>5. \A i \in 1..Len(s), u \in Undoing : ~Undoes(s[i], u)
  BY <1>2
<1>6. Piece(cmd, s, {})
  BY <1>2, <1>3, <1>4, <1>5 DEF Piece
<1>7. On(s) = {a, b, c}
  BY <1>2 DEF On
<1>8. QED
  BY <1>1, <1>2, <1>6, <1>7 DEF Part, Back

(* What follows the frees of do_free. *)
LEMMA AfterFree ==
  ASSUME NEW cmd \in {"new", "free"}
  PROVE  /\ Part(cmd, <<"cautious", "dropped", "show", "blocks", "end">>, {}, "cautious", "end",
                 {"cautious", "dropped", "show", "blocks", "end"})
         /\ Waits(<<"cautious", "dropped", "show", "blocks", "end">>)
<1>1. PICK s : s = <<"cautious", "dropped", "show", "blocks", "end">>
  OBVIOUS
<1>2. {"cautious", "dropped", "show", "blocks", "end"} \subseteq Steps(cmd)
  <2>1. cmd = "new" \/ cmd = "free"
    OBVIOUS
  <2>2. QED
    BY <2>1 DEF Steps, Freeing, Show, RH
<1>3. /\ s \in Seq(Steps(cmd)) /\ Len(s) = 5 /\ s # <<>>
      /\ s[1] = "cautious" /\ s[2] = "dropped" /\ s[3] = "show" /\ s[4] = "blocks" /\ s[5] = "end"
  BY <1>1, <1>2
<1>4. \A i \in 1..Len(s) - 1 : Pair(cmd, s[i], s[i + 1])
  BY <1>3 DEF Pair, Inner
<1>5. \A i, j \in 1..Len(s) : i < j => Apart(s[i], s[j])
  BY <1>3 DEF Apart, Making
<1>6. \A i \in 1..Len(s), u \in Undoing : ~Undoes(s[i], u)
  BY <1>3 DEF Undoes
<1>7. Piece(cmd, s, {})
  BY <1>3, <1>4, <1>5, <1>6 DEF Piece
<1>8. On(s) = {"cautious", "dropped", "show", "blocks", "end"}
  BY <1>3 DEF On
<1>9. Waits(s)
  BY <1>3 DEF Waits
<1>10. QED
  BY <1>1, <1>3, <1>7, <1>8, <1>9 DEF Part, Back

(* A piece that shows nothing does not show early. *)
LEMMA QuietWaits ==
  ASSUME NEW cmd, NEW s, NEW o, NEW a, NEW b, NEW S, Part(cmd, s, o, a, b, S), {"show", "walk"} \cap S = {}
  PROVE  Waits(s)
<1>1. \A i \in 1..Len(s) : s[i] \in S
  BY DEF Part, On
<1>2. QED
  BY <1>1 DEF Waits

(* What may be guarded, and what may stand around a guarded part. *)
Around == {"ready", "arm", "disarm", "unready"}

(* A guarded piece is a piece. *)
LEMMA GuardedPart ==
  ASSUME NEW cmd, Around \subseteq Steps(cmd), NEW body, NEW c, NEW d, NEW S, Part(cmd, body, {}, c, d, S),
         Pair(cmd, "arm", c), Pair(cmd, d, "disarm"), S \cap (Around \cup {"called_malloc"}) = {}
  PROVE  /\ Part(cmd, Guarded(body), {}, "ready", "unready", S \cup Around)
         /\ S \cap {"show", "walk"} = {} => Waits(Guarded(body))
<1>1. PICK s, t, T : s = exception_setup /\ t = exception_cancel /\ T = {"disarm", "unready"}
  OBVIOUS
<1>2. Part(cmd, s, {"unready"}, "ready", "arm", {"ready", "arm"})
  <2>1. "ready" \in Steps(cmd) /\ "arm" \in Steps(cmd)
    BY DEF Around
  <2>2. Pair(cmd, "ready", "arm") /\ Apart("ready", "arm")
    BY DEF Pair, Apart, Making, Inner
  <2>3. \A u \in Undoing : (Undoes("ready", u) => u \in {"unready"}) /\ (Undoes("arm", u) => u \in {"unready"})
    BY DEF Undoes
  <2>4. Part(cmd, <<"ready", "arm">>, {"unready"}, "ready", "arm", {"ready", "arm"})
    BY <2>1, <2>2, <2>3, Part2
  <2>5. QED
    BY <1>1, <2>4 DEF exception_setup
<1>3. Part(cmd, t, {}, "disarm", "unready", T)
  <2>1. "disarm" \in Steps(cmd) /\ "unready" \in Steps(cmd)
    BY DEF Around
  <2>2. Pair(cmd, "disarm", "unready") /\ Apart("disarm", "unready")
    BY DEF Pair, Apart, Making, Inner
  <2>3. \A u \in Undoing : (Undoes("disarm", u) => u \in {}) /\ (Undoes("unready", u) => u \in {})
    BY DEF Undoes
  <2>4. Part(cmd, <<"disarm", "unready">>, {}, "disarm", "unready", {"disarm", "unready"})
    BY <2>1, <2>2, <2>3, Part2
  <2>5. QED
    BY <1>1, <2>4 DEF exception_cancel
<1>4. /\ Part(cmd, s \o body, {"unready"}, "ready", d, {"ready", "arm"} \cup S)
      /\ Waits(s) /\ (Waits(body) \/ "dropped" \in {"ready", "arm"}) => Waits(s \o body)
  <2>1. \A x \in {"ready", "arm"}, y \in S : Apart(x, y)
    BY DEF Apart, Making, Around
  <2>2. {"unready"} \subseteq S \cup {"unready"}
    OBVIOUS
  <2>3. Part(cmd, body, {"unready"}, c, d, S)
    BY DEF Part, Piece
  <2>4. QED
    BY <1>2, <2>1, <2>2, <2>3, JoinParts
<1>5. PICK V, w : V = {"ready", "arm"} \cup S /\ w = s \o body
  OBVIOUS
<1>6. /\ Part(cmd, w \o t, {}, "ready", "unready", V \cup T)
      /\ Waits(w) /\ (Waits(t) \/ "dropped" \in V) => Waits(w \o t)
  <2>1. \A x \in V, y \in T : Apart(x, y)
    BY <1>1, <1>5 DEF Apart, Making, Around
  <2>2. {"unready"} \subseteq T \cup {} /\ Pair(cmd, d, "disarm")
    BY <1>1
  <2>3. Part(cmd, w, {"unready"}, "ready", d, V)
    BY <1>4, <1>5
  <2>4. QED
    BY <1>3, <2>1, <2>2, <2>3, JoinParts
<1>7. w \o t = Guarded(body) /\ V \cup T = S \cup Around
  BY <1>1, <1>5 DEF Guarded, Around
<1>8. Waits(s) /\ Waits(t)
  <2>1. {"show", "walk"} \cap {"ready", "arm"} = {} /\ {"show", "walk"} \cap T = {}
    BY <1>1
  <2>2. Waits(s)
    BY <1>2, <2>1, QuietWaits
  <2>3. Waits(t)
    BY <1>3, <2>1, QuietWaits
  <2>4. QED
    BY <2>2, <2>3
<1>9. ASSUME S \cap {"show", "walk"} = {} PROVE Waits(body)
  BY <1>9, QuietWaits
<1>10. QED
  BY <1>4, <1>5, <1>6, <1>7, <1>8, <1>9

(* A guarded operation between what a command does before and after it. *)
LEMMA Sandwich ==
  ASSUME NEW cmd, Around \subseteq Steps(cmd), NEW body, NEW x, NEW y, NEW S, Part(cmd, body, {}, x, y, S),
         Pair(cmd, "arm", x), Pair(cmd, y, "disarm"), S \cap (Around \cup {"called_malloc"}) = {},
         NEW s, NEW o, NEW a, NEW b, NEW A, Part(cmd, s, o, a, b, A), Pair(cmd, b, "ready"),
         NEW t, NEW c, NEW d, NEW T, Part(cmd, t, {}, c, d, T), Pair(cmd, "unready", c),
         \A i \in A, j \in S \cup Around : Apart(i, j), \A i \in A \cup S \cup Around, j \in T : Apart(i, j),
         o \subseteq T
  PROVE  /\ Part(cmd, s \o Guarded(body) \o t, {}, a, d, A \cup S \cup Around \cup T)
         /\ (A \cup S) \cap {"show", "walk"} = {} /\ Waits(t) => Waits(s \o Guarded(body) \o t)
<1>1. PICK g, G, h, H : g = Guarded(body) /\ G = S \cup Around /\ h = s \o g /\ H = A \cup G
  OBVIOUS
<1>2. Part(cmd, g, {}, "ready", "unready", G) /\ (S \cap {"show", "walk"} = {} => Waits(g))
  BY <1>1, GuardedPart
<1>3. Part(cmd, h, o, a, "unready", H) /\ (Waits(s) /\ Waits(g) => Waits(h))
  <2>1. \A i \in A, j \in G : Apart(i, j)
    BY <1>1
  <2>2. o \subseteq G \cup o
    OBVIOUS
  <2>3. Part(cmd, g, o, "ready", "unready", G)
    BY <1>2 DEF Part, Piece
  <2>4. Part(cmd, s \o g, o, a, "unready", A \cup G) /\ (Waits(s) /\ (Waits(g) \/ "dropped" \in A) => Waits(s \o g))
    BY <2>1, <2>2, <2>3, JoinParts
  <2>5. QED
    BY <1>1, <2>4
<1>4. Part(cmd, h \o t, {}, a, d, H \cup T) /\ (Waits(h) /\ Waits(t) => Waits(h \o t))
  <2>1. \A i \in H, j \in T : Apart(i, j)
    BY <1>1
  <2>2. o \subseteq T \cup {}
    OBVIOUS
  <2>3. Part(cmd, h \o t, {}, a, d, H \cup T) /\ (Waits(h) /\ (Waits(t) \/ "dropped" \in H) => Waits(h \o t))
    BY <1>3, <2>1, <2>2, JoinParts
  <2>4. QED
    BY <2>3
<1>5. A \cap {"show", "walk"} = {} => Waits(s)
  BY QuietWaits
<1>6. h \o t = s \o Guarded(body) \o t /\ H \cup T = A \cup S \cup Around \cup T
  BY <1>1
<1>7. QED
  BY <1>2, <1>3, <1>4, <1>5, <1>6

(* What do_free and do_new begin with. *)
FreeSteps == {"checked", "maybe_bold", "q_free", "cautious", "dropped", "show", "blocks", "end"} \cup Around

(* The program of free. *)
LEMMA DoFreeIs ==
  ASSUME NEW cmd \in {"new", "free"}
  PROVE  Part(cmd, do_free, {}, "checked", "end", FreeSteps) /\ Waits(do_free)
<1>1. cmd = "new" \/ cmd = "free"
  OBVIOUS
<1>2. Freeing \subseteq Steps(cmd)
  BY <1>1 DEF Steps, RH
<1>3. PICK s, b, t, A, S, T :
         /\ s = <<"checked", "maybe_bold">> /\ b = <<"q_free">> /\ t = <<"cautious", "dropped", "show", "blocks", "end">>
         /\ A = {"checked", "maybe_bold"} /\ S = {"q_free"} /\ T = {"cautious", "dropped", "show", "blocks", "end"}
  OBVIOUS
<1>4. Part(cmd, s, {"cautious"}, "checked", "maybe_bold", A)
  <2>1. "checked" \in Steps(cmd) /\ "maybe_bold" \in Steps(cmd)
    BY <1>2 DEF Freeing
  <2>2. Pair(cmd, "checked", "maybe_bold") /\ Apart("checked", "maybe_bold")
    BY DEF Pair, Apart, Making, Inner
  <2>3. \A u \in Undoing : (Undoes("checked", u) => u \in {"cautious"}) /\ (Undoes("maybe_bold", u) => u \in {"cautious"})
    BY DEF Undoes
  <2>4. QED
    BY <1>3, <2>1, <2>2, <2>3, Part2
<1>5. Part(cmd, b, {}, "q_free", "q_free", S)
  <2>1. "q_free" \in Steps(cmd) /\ \A u \in Undoing : Undoes("q_free", u) => u \in {}
    BY <1>2 DEF Freeing, Undoes
  <2>2. QED
    BY <1>3, <2>1, Part1
<1>6. Part(cmd, t, {}, "cautious", "end", T) /\ Waits(t)
  BY <1>3, AfterFree
<1>7. Around \subseteq Steps(cmd)
  BY <1>2 DEF Freeing, Show, Around
<1>8. Pair(cmd, "arm", "q_free") /\ Pair(cmd, "q_free", "disarm") /\ Pair(cmd, "maybe_bold", "ready") /\ Pair(cmd, "unready", "cautious")
  BY DEF Pair, Inner
<1>9. S \cap (Around \cup {"called_malloc"}) = {} /\ {"cautious"} \subseteq T /\ (A \cup S) \cap {"show", "walk"} = {}
  BY <1>3 DEF Around
<1>10. (\A i \in A, j \in S \cup Around : Apart(i, j)) /\ (\A i \in A \cup S \cup Around, j \in T : Apart(i, j))
  BY <1>3 DEF Apart, Making, Around
<1>11. Part(cmd, s \o Guarded(b) \o t, {}, "checked", "end", A \cup S \cup Around \cup T) /\ Waits(s \o Guarded(b) \o t)
  BY <1>4, <1>5, <1>6, <1>7, <1>8, <1>9, <1>10, Sandwich
<1>12. A \cup S \cup Around \cup T = FreeSteps /\ do_free = s \o Guarded(b) \o t
  BY <1>3 DEF FreeSteps, Around, do_free
<1>13. QED
  BY <1>11, <1>12

(* The program of reverse. *)
LEMMA DoReverseIs ==
  ASSUME NEW cmd, cmd = "reverse"
  PROVE  Part(cmd, do_reverse, {}, "checked", "end", {"checked", "noallocate_on", "q_reverse", "noallocate_off", "show", "end"} \cup Around)
<1>1. cmd = "reverse"
  OBVIOUS
<1>2. {"checked", "noallocate_on", "q_reverse", "noallocate_off", "show", "end", "ready", "arm", "disarm", "unready"} \subseteq Steps(cmd)
  BY <1>1 DEF Steps, RH, Freeing, Show
<1>3. PICK s, b, t, A, S, T : /\ s = <<"checked", "noallocate_on">> /\ b = <<"q_reverse">> /\ t = <<"noallocate_off", "show", "end">>
                              /\ A = {"checked", "noallocate_on"} /\ S = {"q_reverse"} /\ T = {"noallocate_off", "show", "end"}
  OBVIOUS
<1>4. Part(cmd, s, {"noallocate_off"}, "checked", "noallocate_on", A)
  <2>1. "checked" \in Steps(cmd) /\ "noallocate_on" \in Steps(cmd)
    BY <1>2
  <2>2. Pair(cmd, "checked", "noallocate_on") /\ Apart("checked", "noallocate_on")
    BY DEF Pair, Apart, Making, Inner
  <2>3. \A u \in Undoing : (Undoes("checked", u) => u \in {"noallocate_off"}) /\ (Undoes("noallocate_on", u) => u \in {"noallocate_off"})
    BY DEF Undoes
  <2>4. QED
    BY <1>3, <2>1, <2>2, <2>3, Part2
<1>5. Part(cmd, b, {}, "q_reverse", "q_reverse", S)
  <2>1. "q_reverse" \in Steps(cmd)
    BY <1>2
  <2>2. \A u \in Undoing : (Undoes("q_reverse", u) => u \in {})
    BY DEF Undoes
  <2>3. QED
    BY <1>3, <2>1, <2>2, Part1
<1>6. Part(cmd, t, {}, "noallocate_off", "end", T)
  <2>1. "noallocate_off" \in Steps(cmd) /\ "show" \in Steps(cmd) /\ "end" \in Steps(cmd)
    BY <1>2
  <2>2. Pair(cmd, "noallocate_off", "show") /\ Pair(cmd, "show", "end")
    BY <1>1 DEF Pair, Inner
  <2>3. Apart("noallocate_off", "show") /\ Apart("noallocate_off", "end") /\ Apart("show", "end")
    BY DEF Apart, Making
  <2>4. \A z \in {"noallocate_off", "show", "end"}, u \in Undoing : ~Undoes(z, u)
    BY DEF Undoes
  <2>5. QED
    BY <1>3, <2>1, <2>2, <2>3, <2>4, Part3
<1>7. Around \subseteq Steps(cmd)
  BY <1>2 DEF Around
<1>8. Pair(cmd, "arm", "q_reverse") /\ Pair(cmd, "q_reverse", "disarm") /\ Pair(cmd, "noallocate_on", "ready") /\ Pair(cmd, "unready", "noallocate_off")
  BY <1>1 DEF Pair, Inner
<1>9. S \cap (Around \cup {"called_malloc"}) = {} /\ {"noallocate_off"} \subseteq T
  BY <1>3 DEF Around
<1>10. (\A i \in A, j \in S \cup Around : Apart(i, j)) /\ (\A i \in A \cup S \cup Around, j \in T : Apart(i, j))
  BY <1>3 DEF Apart, Making, Around
<1>11. Part(cmd, s \o Guarded(b) \o t, {}, "checked", "end", A \cup S \cup Around \cup T)
  BY <1>4, <1>5, <1>6, <1>7, <1>8, <1>9, <1>10, Sandwich
<1>12. A \cup S \cup Around \cup T = {"checked", "noallocate_on", "q_reverse", "noallocate_off", "show", "end"} \cup Around /\ do_reverse = s \o Guarded(b) \o t
  BY <1>3 DEF Around, do_reverse
<1>13. QED
  BY <1>11, <1>12

(* The program of ih. *)
LEMMA DoInsertIs ==
  ASSUME NEW cmd, cmd = "ih"
  PROVE  Part(cmd, do_insert_head, {}, "checked", "show", {"checked", "repeat", "show"} \cup Around)
<1>1. cmd = "ih"
  OBVIOUS
<1>2. {"checked", "repeat", "show", "ready", "arm", "disarm", "unready"} \subseteq Steps(cmd)
  BY <1>1 DEF Steps, RH, Freeing, Show
<1>3. PICK s, b, t, A, S, T : /\ s = <<"checked">> /\ b = <<"repeat">> /\ t = <<"show">>
                              /\ A = {"checked"} /\ S = {"repeat"} /\ T = {"show"}
  OBVIOUS
<1>4. Part(cmd, s, {}, "checked", "checked", A)
  <2>1. "checked" \in Steps(cmd)
    BY <1>2
  <2>2. \A u \in Undoing : (Undoes("checked", u) => u \in {})
    BY DEF Undoes
  <2>3. QED
    BY <1>3, <2>1, <2>2, Part1
<1>5. Part(cmd, b, {}, "repeat", "repeat", S)
  <2>1. "repeat" \in Steps(cmd)
    BY <1>2
  <2>2. \A u \in Undoing : (Undoes("repeat", u) => u \in {})
    BY DEF Undoes
  <2>3. QED
    BY <1>3, <2>1, <2>2, Part1
<1>6. Part(cmd, t, {}, "show", "show", T)
  <2>1. "show" \in Steps(cmd)
    BY <1>2
  <2>2. \A u \in Undoing : (Undoes("show", u) => u \in {})
    BY DEF Undoes
  <2>3. QED
    BY <1>3, <2>1, <2>2, Part1
<1>7. Around \subseteq Steps(cmd)
  BY <1>2 DEF Around
<1>8. Pair(cmd, "arm", "repeat") /\ Pair(cmd, "repeat", "disarm") /\ Pair(cmd, "checked", "ready") /\ Pair(cmd, "unready", "show")
  BY <1>1 DEF Pair, Inner
<1>9. S \cap (Around \cup {"called_malloc"}) = {} /\ {} \subseteq T
  BY <1>3 DEF Around
<1>10. (\A i \in A, j \in S \cup Around : Apart(i, j)) /\ (\A i \in A \cup S \cup Around, j \in T : Apart(i, j))
  BY <1>3 DEF Apart, Making, Around
<1>11. Part(cmd, s \o Guarded(b) \o t, {}, "checked", "show", A \cup S \cup Around \cup T)
  BY <1>4, <1>5, <1>6, <1>7, <1>8, <1>9, <1>10, Sandwich
<1>12. A \cup S \cup Around \cup T = {"checked", "repeat", "show"} \cup Around /\ do_insert_head = s \o Guarded(b) \o t
  BY <1>3 DEF Around, do_insert_head
<1>13. QED
  BY <1>11, <1>12

(* The program of rh. *)
LEMMA DoRemoveIs ==
  ASSUME NEW cmd \in RH
  PROVE  Part(cmd, do_remove_head, {}, "checked", "end", {"checked", "q_remove", "removed", "show", "end"} \cup Around)
<1>1. cmd = "rh" \/ cmd = "rh_v"
  BY DEF RH
<1>2. {"checked", "q_remove", "removed", "show", "end", "ready", "arm", "disarm", "unready"} \subseteq Steps(cmd)
  BY <1>1 DEF Steps, RH, Freeing, Show
<1>3. PICK s, b, t, A, S, T : /\ s = <<"checked">> /\ b = <<"q_remove">> /\ t = <<"removed", "show", "end">>
                              /\ A = {"checked"} /\ S = {"q_remove"} /\ T = {"removed", "show", "end"}
  OBVIOUS
<1>4. Part(cmd, s, {}, "checked", "checked", A)
  <2>1. "checked" \in Steps(cmd)
    BY <1>2
  <2>2. \A u \in Undoing : (Undoes("checked", u) => u \in {})
    BY DEF Undoes
  <2>3. QED
    BY <1>3, <2>1, <2>2, Part1
<1>5. Part(cmd, b, {}, "q_remove", "q_remove", S)
  <2>1. "q_remove" \in Steps(cmd)
    BY <1>2
  <2>2. \A u \in Undoing : (Undoes("q_remove", u) => u \in {})
    BY DEF Undoes
  <2>3. QED
    BY <1>3, <2>1, <2>2, Part1
<1>6. Part(cmd, t, {}, "removed", "end", T)
  <2>1. "removed" \in Steps(cmd) /\ "show" \in Steps(cmd) /\ "end" \in Steps(cmd)
    BY <1>2
  <2>2. Pair(cmd, "removed", "show") /\ Pair(cmd, "show", "end")
    BY <1>1 DEF Pair, Inner
  <2>3. Apart("removed", "show") /\ Apart("removed", "end") /\ Apart("show", "end")
    BY DEF Apart, Making
  <2>4. \A z \in {"removed", "show", "end"}, u \in Undoing : ~Undoes(z, u)
    BY DEF Undoes
  <2>5. QED
    BY <1>3, <2>1, <2>2, <2>3, <2>4, Part3
<1>7. Around \subseteq Steps(cmd)
  BY <1>2 DEF Around
<1>8. Pair(cmd, "arm", "q_remove") /\ Pair(cmd, "q_remove", "disarm") /\ Pair(cmd, "checked", "ready") /\ Pair(cmd, "unready", "removed")
  BY <1>1 DEF Pair, Inner
<1>9. S \cap (Around \cup {"called_malloc"}) = {} /\ {} \subseteq T
  BY <1>3 DEF Around
<1>10. (\A i \in A, j \in S \cup Around : Apart(i, j)) /\ (\A i \in A \cup S \cup Around, j \in T : Apart(i, j))
  BY <1>3 DEF Apart, Making, Around
<1>11. Part(cmd, s \o Guarded(b) \o t, {}, "checked", "end", A \cup S \cup Around \cup T)
  BY <1>4, <1>5, <1>6, <1>7, <1>8, <1>9, <1>10, Sandwich
<1>12. A \cup S \cup Around \cup T = {"checked", "q_remove", "removed", "show", "end"} \cup Around /\ do_remove_head = s \o Guarded(b) \o t
  BY <1>3 DEF Around, do_remove_head
<1>13. QED
  BY <1>11, <1>12

(* The program of size. *)
LEMMA DoSizeIs ==
  ASSUME NEW cmd, cmd = "size"
  PROVE  Part(cmd, do_size, {}, "checked", "end", {"checked", "q_size", "counted", "sized", "show", "end"} \cup Around)
<1>1. cmd = "size"
  OBVIOUS
<1>2. {"checked", "q_size", "counted", "sized", "show", "end", "ready", "arm", "disarm", "unready"} \subseteq Steps(cmd)
  BY <1>1 DEF Steps, RH, Freeing, Show
<1>3. PICK s, b, t, A, S, T : /\ s = <<"checked">> /\ b = <<"q_size", "counted">> /\ t = <<"sized", "show", "end">>
                              /\ A = {"checked"} /\ S = {"q_size", "counted"} /\ T = {"sized", "show", "end"}
  OBVIOUS
<1>4. Part(cmd, s, {}, "checked", "checked", A)
  <2>1. "checked" \in Steps(cmd)
    BY <1>2
  <2>2. \A u \in Undoing : (Undoes("checked", u) => u \in {})
    BY DEF Undoes
  <2>3. QED
    BY <1>3, <2>1, <2>2, Part1
<1>5. Part(cmd, b, {}, "q_size", "counted", S)
  <2>1. "q_size" \in Steps(cmd) /\ "counted" \in Steps(cmd)
    BY <1>2
  <2>2. Pair(cmd, "q_size", "counted") /\ Apart("q_size", "counted")
    BY DEF Pair, Apart, Making, Inner
  <2>3. \A u \in Undoing : (Undoes("q_size", u) => u \in {}) /\ (Undoes("counted", u) => u \in {})
    BY DEF Undoes
  <2>4. QED
    BY <1>3, <2>1, <2>2, <2>3, Part2
<1>6. Part(cmd, t, {}, "sized", "end", T)
  <2>1. "sized" \in Steps(cmd) /\ "show" \in Steps(cmd) /\ "end" \in Steps(cmd)
    BY <1>2
  <2>2. Pair(cmd, "sized", "show") /\ Pair(cmd, "show", "end")
    BY <1>1 DEF Pair, Inner
  <2>3. Apart("sized", "show") /\ Apart("sized", "end") /\ Apart("show", "end")
    BY DEF Apart, Making
  <2>4. \A z \in {"sized", "show", "end"}, u \in Undoing : ~Undoes(z, u)
    BY DEF Undoes
  <2>5. QED
    BY <1>3, <2>1, <2>2, <2>3, <2>4, Part3
<1>7. Around \subseteq Steps(cmd)
  BY <1>2 DEF Around
<1>8. Pair(cmd, "arm", "q_size") /\ Pair(cmd, "counted", "disarm") /\ Pair(cmd, "checked", "ready") /\ Pair(cmd, "unready", "sized")
  BY <1>1 DEF Pair, Inner
<1>9. S \cap (Around \cup {"called_malloc"}) = {} /\ {} \subseteq T
  BY <1>3 DEF Around
<1>10. (\A i \in A, j \in S \cup Around : Apart(i, j)) /\ (\A i \in A \cup S \cup Around, j \in T : Apart(i, j))
  BY <1>3 DEF Apart, Making, Around
<1>11. Part(cmd, s \o Guarded(b) \o t, {}, "checked", "end", A \cup S \cup Around \cup T)
  BY <1>4, <1>5, <1>6, <1>7, <1>8, <1>9, <1>10, Sandwich
<1>12. A \cup S \cup Around \cup T = {"checked", "q_size", "counted", "sized", "show", "end"} \cup Around /\ do_size = s \o Guarded(b) \o t
  BY <1>3 DEF Around, do_size
<1>13. QED
  BY <1>11, <1>12

(* The program of quit. *)
LEMMA QueueQuitIs ==
  ASSUME NEW cmd, cmd = "quit"
  PROVE  Part(cmd, queue_quit, {}, "maybe_bold", "blocks", {"maybe_bold", "q_free", "cautious", "blocks"} \cup Around)
<1>1. cmd = "quit"
  OBVIOUS
<1>2. {"maybe_bold", "q_free", "cautious", "blocks", "ready", "arm", "disarm", "unready"} \subseteq Steps(cmd)
  BY <1>1 DEF Steps, RH, Freeing, Show
<1>3. PICK s, b, t, A, S, T : /\ s = <<"maybe_bold">> /\ b = <<"q_free">> /\ t = <<"cautious", "blocks">>
                              /\ A = {"maybe_bold"} /\ S = {"q_free"} /\ T = {"cautious", "blocks"}
  OBVIOUS
<1>4. Part(cmd, s, {"cautious"}, "maybe_bold", "maybe_bold", A)
  <2>1. "maybe_bold" \in Steps(cmd)
    BY <1>2
  <2>2. \A u \in Undoing : (Undoes("maybe_bold", u) => u \in {"cautious"})
    BY DEF Undoes
  <2>3. QED
    BY <1>3, <2>1, <2>2, Part1
<1>5. Part(cmd, b, {}, "q_free", "q_free", S)
  <2>1. "q_free" \in Steps(cmd)
    BY <1>2
  <2>2. \A u \in Undoing : (Undoes("q_free", u) => u \in {})
    BY DEF Undoes
  <2>3. QED
    BY <1>3, <2>1, <2>2, Part1
<1>6. Part(cmd, t, {}, "cautious", "blocks", T)
  <2>1. "cautious" \in Steps(cmd) /\ "blocks" \in Steps(cmd)
    BY <1>2
  <2>2. Pair(cmd, "cautious", "blocks") /\ Apart("cautious", "blocks")
    BY DEF Pair, Apart, Making, Inner
  <2>3. \A u \in Undoing : (Undoes("cautious", u) => u \in {}) /\ (Undoes("blocks", u) => u \in {})
    BY DEF Undoes
  <2>4. QED
    BY <1>3, <2>1, <2>2, <2>3, Part2
<1>7. Around \subseteq Steps(cmd)
  BY <1>2 DEF Around
<1>8. Pair(cmd, "arm", "q_free") /\ Pair(cmd, "q_free", "disarm") /\ Pair(cmd, "maybe_bold", "ready") /\ Pair(cmd, "unready", "cautious")
  BY <1>1 DEF Pair, Inner
<1>9. S \cap (Around \cup {"called_malloc"}) = {} /\ {"cautious"} \subseteq T
  BY <1>3 DEF Around
<1>10. (\A i \in A, j \in S \cup Around : Apart(i, j)) /\ (\A i \in A \cup S \cup Around, j \in T : Apart(i, j))
  BY <1>3 DEF Apart, Making, Around
<1>11. Part(cmd, s \o Guarded(b) \o t, {}, "maybe_bold", "blocks", A \cup S \cup Around \cup T)
  BY <1>4, <1>5, <1>6, <1>7, <1>8, <1>9, <1>10, Sandwich
<1>12. A \cup S \cup Around \cup T = {"maybe_bold", "q_free", "cautious", "blocks"} \cup Around /\ queue_quit = s \o Guarded(b) \o t
  BY <1>3 DEF Around, queue_quit
<1>13. QED
  BY <1>11, <1>12

NewSteps == {"checked", "uncalled", "q_new", "called_malloc", "show", "end"} \cup Around

(* The program of new, which begins with that of free. *)
LEMMA DoNewIs ==
  ASSUME NEW cmd, cmd = "new"
  PROVE  /\ que.q => Part(cmd, do_new, {}, "checked", "end", FreeSteps \cup NewSteps) /\ Waits(do_new)
         /\ ~que.q => Part(cmd, do_new, {}, "checked", "end", NewSteps)
<1>1. {"checked", "uncalled", "q_new", "called_malloc", "show", "end"} \cup Around \subseteq Steps(cmd)
  BY DEF Steps, RH, Freeing, Show, Around
<1>2. PICK f, s, b, t, A, S, T : /\ f = do_free /\ s = <<"checked", "uncalled">> /\ b = <<"q_new">>
                                 /\ t = <<"called_malloc", "show", "end">>
                                 /\ A = {"checked", "uncalled"} /\ S = {"q_new"} /\ T = {"called_malloc", "show", "end"}
  OBVIOUS
<1>3. Part(cmd, s, {}, "checked", "uncalled", A)
  <2>1. "checked" \in Steps(cmd) /\ "uncalled" \in Steps(cmd)
    BY <1>1
  <2>2. Pair(cmd, "checked", "uncalled") /\ Apart("checked", "uncalled")
    BY DEF Pair, Apart, Making, Inner
  <2>3. \A u \in Undoing : (Undoes("checked", u) => u \in {}) /\ (Undoes("uncalled", u) => u \in {})
    BY DEF Undoes
  <2>4. QED
    BY <1>2, <2>1, <2>2, <2>3, Part2
<1>4. Part(cmd, b, {}, "q_new", "q_new", S)
  <2>1. "q_new" \in Steps(cmd) /\ \A u \in Undoing : Undoes("q_new", u) => u \in {}
    BY <1>1 DEF Undoes
  <2>2. QED
    BY <1>2, <2>1, Part1
<1>5. Part(cmd, t, {}, "called_malloc", "end", T)
  <2>1. "called_malloc" \in Steps(cmd) /\ "show" \in Steps(cmd) /\ "end" \in Steps(cmd)
    BY <1>1
  <2>2. Pair(cmd, "called_malloc", "show") /\ Pair(cmd, "show", "end")
    BY DEF Pair, Inner
  <2>3. Apart("called_malloc", "show") /\ Apart("called_malloc", "end") /\ Apart("show", "end")
    BY DEF Apart, Making
  <2>4. \A z \in {"called_malloc", "show", "end"}, u \in Undoing : ~Undoes(z, u)
    BY DEF Undoes
  <2>5. QED
    BY <1>2, <2>1, <2>2, <2>3, <2>4, Part3
<1>6. Around \subseteq Steps(cmd)
  BY <1>1
<1>7. Pair(cmd, "arm", "q_new") /\ Pair(cmd, "q_new", "disarm") /\ Pair(cmd, "uncalled", "ready") /\ Pair(cmd, "unready", "called_malloc")
  BY DEF Pair, Inner
<1>8. S \cap (Around \cup {"called_malloc"}) = {} /\ {} \subseteq T
  BY <1>2 DEF Around
<1>9. ASSUME ~que.q PROVE Part(cmd, do_new, {}, "checked", "end", NewSteps)
  <2>1. (\A i \in A, j \in S \cup Around : Apart(i, j)) /\ (\A i \in A \cup S \cup Around, j \in T : Apart(i, j))
    BY <1>2 DEF Apart, Making, Around
  <2>2. Part(cmd, s \o Guarded(b) \o t, {}, "checked", "end", A \cup S \cup Around \cup T)
    BY <1>3, <1>4, <1>5, <1>6, <1>7, <1>8, <2>1, Sandwich
  <2>3. <<>> \o s = s
    BY <1>3, ConcatEmptySeq DEF Part, Piece
  <2>4. A \cup S \cup Around \cup T = NewSteps /\ do_new = s \o Guarded(b) \o t
    BY <1>2, <1>9, <2>3 DEF NewSteps, Around, do_new
  <2>5. QED
    BY <2>2, <2>4
<1>10. ASSUME que.q PROVE Part(cmd, do_new, {}, "checked", "end", FreeSteps \cup NewSteps) /\ Waits(do_new)
  <2>1. PICK h, H : h = f \o s /\ H = FreeSteps \cup A
    OBVIOUS
  <2>2. Part(cmd, f, {}, "checked", "end", FreeSteps) /\ Waits(f)
    BY <1>2, DoFreeIs
  <2>3. Part(cmd, h, {}, "checked", "uncalled", H) /\ Waits(h)
    <3>1. \A i \in FreeSteps, j \in A : Apart(i, j)
      BY <1>2 DEF FreeSteps, Apart, Making, Around
    <3>2. Pair(cmd, "end", "checked") /\ {} \subseteq A \cup {}
      BY DEF Pair, Inner
    <3>3. Part(cmd, f \o s, {}, "checked", "uncalled", FreeSteps \cup A) /\ (Waits(f) /\ (Waits(s) \/ "dropped" \in FreeSteps) => Waits(f \o s))
      BY <1>3, <2>2, <3>1, <3>2, JoinParts
    <3>4. QED
      BY <2>1, <2>2, <3>3 DEF FreeSteps
  <2>4. PICK g, G, k, K : g = Guarded(b) /\ G = S \cup Around /\ k = h \o g /\ K = H \cup G
    OBVIOUS
  <2>5. Part(cmd, g, {}, "ready", "unready", G)
    BY <1>4, <1>6, <1>7, <1>8, <2>4, GuardedPart
  <2>6. Part(cmd, k, {}, "checked", "unready", K) /\ Waits(k)
    <3>1. \A i \in H, j \in G : Apart(i, j)
      BY <1>2, <2>1, <2>4 DEF FreeSteps, Apart, Making, Around
    <3>2. {} \subseteq G \cup {} /\ "dropped" \in H
      BY <2>1 DEF FreeSteps
    <3>3. Part(cmd, h \o g, {}, "checked", "unready", H \cup G) /\ (Waits(h) /\ (Waits(g) \/ "dropped" \in H) => Waits(h \o g))
      BY <1>7, <2>3, <2>5, <3>1, <3>2, JoinParts
    <3>4. QED
      BY <2>3, <2>4, <3>2, <3>3
  <2>7. Part(cmd, k \o t, {}, "checked", "end", K \cup T) /\ Waits(k \o t)
    <3>1. \A i \in K, j \in T : Apart(i, j)
      BY <1>2, <2>1, <2>4 DEF FreeSteps, Apart, Making, Around
    <3>2. {} \subseteq T \cup {} /\ "dropped" \in K
      BY <2>1, <2>4 DEF FreeSteps
    <3>3. Part(cmd, k \o t, {}, "checked", "end", K \cup T) /\ (Waits(k) /\ (Waits(t) \/ "dropped" \in K) => Waits(k \o t))
      BY <1>5, <1>7, <2>6, <3>1, <3>2, JoinParts
    <3>4. QED
      BY <2>6, <3>2, <3>3
  <2>8. K \cup T = FreeSteps \cup NewSteps
    BY <1>2, <2>1, <2>4 DEF NewSteps
  <2>9. do_new = k \o t
    BY <1>2, <1>10, <2>1, <2>4 DEF do_new
  <2>10. QED
    BY <2>7, <2>8, <2>9
<1>11. QED
  BY <1>9, <1>10

(* What a command has to do when it begins. *)
Begins(cmd, t) ==
  /\ Grammar(cmd, t) /\ t # <<>> /\ First(t) \in {"checked", "maybe_bold", "showing"}
  /\ On(t) \cap {"link", "linked", "header", "attach", "unlink", "unlinked", "detach", "turned", "walk"} = {}
  /\ "q_free" \in On(t) <=> cmd = "quit" \/ "dropped" \in On(t)
  /\ "q_new" \in On(t) => ~que.q \/ "dropped" \in On(t)
  /\ cmd \in {"new", "free"} => ~que.q \/ Waits(t)

(* A piece on its own is a program a command may begin with. *)
LEMMA PartBegins ==
  ASSUME NEW cmd, NEW s, NEW a \in {"checked", "maybe_bold", "showing"}, NEW b, NEW S, Part(cmd, s, {}, a, b, S), Final(cmd, b),
         S \cap {"link", "linked", "header", "attach", "unlink", "unlinked", "detach", "turned", "walk"} = {},
         "q_free" \in S <=> cmd = "quit" \/ "dropped" \in S, "q_new" \in S => ~que.q \/ "dropped" \in S,
         cmd \in {"new", "free"} => ~que.q \/ Waits(s)
  PROVE  Begins(cmd, s)
<1>1. Grammar(cmd, s) /\ s # <<>> /\ First(s) = a
  BY Whole DEF Part
<1>2. QED
  BY <1>1 DEF Begins, Part

(* Every command of qtest.c begins as the invariant wants. *)
LEMMA ProgramBegins == \A cmd \in Commands : Begins(cmd, Program(cmd))
<1> SUFFICES ASSUME NEW cmd \in Commands PROVE Begins(cmd, Program(cmd))
  OBVIOUS
<1>1. CASE cmd = "new" /\ que.q
  <2>1. PICK s, S : s = do_new /\ S = FreeSteps \cup NewSteps
    OBVIOUS
  <2>2. Part(cmd, s, {}, "checked", "end", S) /\ Waits(s)
    BY <1>1, <2>1, DoNewIs
  <2>3. /\ S \cap {"link", "linked", "header", "attach", "unlink", "unlinked", "detach", "turned", "walk"} = {}
        /\ "q_free" \in S /\ "dropped" \in S
    BY <2>1 DEF FreeSteps, NewSteps, Around
  <2>4. Final(cmd, "end")
    BY <1>1 DEF Final
  <2>5. Program(cmd) = s
    BY <1>1, <2>1 DEF Program
  <2>6. QED
    BY <2>2, <2>3, <2>4, <2>5, PartBegins
<1>2. CASE cmd = "new" /\ ~que.q
  <2>1. PICK s, S : s = do_new /\ S = NewSteps
    OBVIOUS
  <2>2. Part(cmd, s, {}, "checked", "end", S)
    BY <1>2, <2>1, DoNewIs
  <2>3. /\ S \cap {"link", "linked", "header", "attach", "unlink", "unlinked", "detach", "turned", "walk"} = {}
        /\ "q_free" \notin S /\ "dropped" \notin S
    BY <2>1 DEF NewSteps, Around
  <2>4. Final(cmd, "end")
    BY <1>2 DEF Final
  <2>5. Program(cmd) = s
    BY <1>2, <2>1 DEF Program
  <2>6. QED
    BY <1>2, <2>2, <2>3, <2>4, <2>5, PartBegins
<1>3. CASE cmd = "free"
  <2>1. PICK s, S : s = do_free /\ S = FreeSteps
    OBVIOUS
  <2>2. Part(cmd, s, {}, "checked", "end", S) /\ Waits(s)
    BY <1>3, <2>1, DoFreeIs
  <2>3. /\ S \cap {"link", "linked", "header", "attach", "unlink", "unlinked", "detach", "turned", "walk"} = {}
        /\ "q_free" \in S /\ "dropped" \in S
    BY <2>1 DEF FreeSteps, Around
  <2>4. Final(cmd, "end")
    BY <1>3 DEF Final
  <2>5. Program(cmd) = s
    BY <1>3, <2>1 DEF Program
  <2>6. QED
    BY <2>2, <2>3, <2>4, <2>5, PartBegins
<1>4. CASE cmd = "reverse"
  <2>1. PICK s, S : s = do_reverse /\ S = {"checked", "noallocate_on", "q_reverse", "noallocate_off", "show", "end"} \cup Around
    OBVIOUS
  <2>2. Part(cmd, s, {}, "checked", "end", S)
    BY <1>4, <2>1, DoReverseIs
  <2>3. /\ S \cap {"link", "linked", "header", "attach", "unlink", "unlinked", "detach", "turned", "walk"} = {}
        /\ "dropped" \notin S /\ ("q_free" \in S <=> cmd = "quit") /\ "q_new" \notin S
    BY <1>4, <2>1 DEF Around, RH
  <2>4. Final(cmd, "end")
    BY <1>4 DEF Final, RH
  <2>5. Program(cmd) = s
    BY <1>4, <2>1 DEF Program, RH
  <2>6. cmd \notin {"new", "free"}
    BY <1>4 DEF RH
  <2>7. QED
    BY <2>2, <2>3, <2>4, <2>5, <2>6, PartBegins
<1>5. CASE cmd = "ih"
  <2>1. PICK s, S : s = do_insert_head /\ S = {"checked", "repeat", "show"} \cup Around
    OBVIOUS
  <2>2. Part(cmd, s, {}, "checked", "show", S)
    BY <1>5, <2>1, DoInsertIs
  <2>3. /\ S \cap {"link", "linked", "header", "attach", "unlink", "unlinked", "detach", "turned", "walk"} = {}
        /\ "dropped" \notin S /\ ("q_free" \in S <=> cmd = "quit") /\ "q_new" \notin S
    BY <1>5, <2>1 DEF Around, RH
  <2>4. Final(cmd, "show")
    BY <1>5 DEF Final, RH
  <2>5. Program(cmd) = s
    BY <1>5, <2>1 DEF Program, RH
  <2>6. cmd \notin {"new", "free"}
    BY <1>5 DEF RH
  <2>7. QED
    BY <2>2, <2>3, <2>4, <2>5, <2>6, PartBegins
<1>6. CASE cmd \in RH
  <2>1. PICK s, S : s = do_remove_head /\ S = {"checked", "q_remove", "removed", "show", "end"} \cup Around
    OBVIOUS
  <2>2. Part(cmd, s, {}, "checked", "end", S)
    BY <1>6, <2>1, DoRemoveIs
  <2>3. /\ S \cap {"link", "linked", "header", "attach", "unlink", "unlinked", "detach", "turned", "walk"} = {}
        /\ "dropped" \notin S /\ ("q_free" \in S <=> cmd = "quit") /\ "q_new" \notin S
    BY <1>6, <2>1 DEF Around, RH
  <2>4. Final(cmd, "end")
    BY <1>6 DEF Final, RH
  <2>5. Program(cmd) = s
    BY <1>6, <2>1 DEF Program, RH
  <2>6. cmd \notin {"new", "free"}
    BY <1>6 DEF RH
  <2>7. QED
    BY <2>2, <2>3, <2>4, <2>5, <2>6, PartBegins
<1>7. CASE cmd = "size"
  <2>1. PICK s, S : s = do_size /\ S = {"checked", "q_size", "counted", "sized", "show", "end"} \cup Around
    OBVIOUS
  <2>2. Part(cmd, s, {}, "checked", "end", S)
    BY <1>7, <2>1, DoSizeIs
  <2>3. /\ S \cap {"link", "linked", "header", "attach", "unlink", "unlinked", "detach", "turned", "walk"} = {}
        /\ "dropped" \notin S /\ ("q_free" \in S <=> cmd = "quit") /\ "q_new" \notin S
    BY <1>7, <2>1 DEF Around, RH
  <2>4. Final(cmd, "end")
    BY <1>7 DEF Final, RH
  <2>5. Program(cmd) = s
    BY <1>7, <2>1 DEF Program, RH
  <2>6. cmd \notin {"new", "free"}
    BY <1>7 DEF RH
  <2>7. QED
    BY <2>2, <2>3, <2>4, <2>5, <2>6, PartBegins
<1>8. CASE cmd = "quit"
  <2>1. PICK s, S : s = queue_quit /\ S = {"maybe_bold", "q_free", "cautious", "blocks"} \cup Around
    OBVIOUS
  <2>2. Part(cmd, s, {}, "maybe_bold", "blocks", S)
    BY <1>8, <2>1, QueueQuitIs
  <2>3. /\ S \cap {"link", "linked", "header", "attach", "unlink", "unlinked", "detach", "turned", "walk"} = {}
        /\ "dropped" \notin S /\ ("q_free" \in S <=> cmd = "quit") /\ "q_new" \notin S
    BY <1>8, <2>1 DEF Around, RH
  <2>4. Final(cmd, "blocks")
    BY <1>8 DEF Final, RH
  <2>5. Program(cmd) = s
    BY <1>8, <2>1 DEF Program, RH
  <2>6. cmd \notin {"new", "free"}
    BY <1>8 DEF RH
  <2>7. QED
    BY <2>2, <2>3, <2>4, <2>5, <2>6, PartBegins
<1>9. CASE cmd = "show"
  <2>1. PICK s, S : s = <<"showing">> /\ S = {"showing"}
    OBVIOUS
  <2>2. Part(cmd, s, {}, "showing", "showing", S)
    <3>1. "showing" \in Steps(cmd) /\ \A u \in Undoing : Undoes("showing", u) => u \in {}
      BY <1>9 DEF Steps, RH, Undoes
    <3>2. QED
      BY <2>1, <3>1, Part1
  <2>3. /\ S \cap {"link", "linked", "header", "attach", "unlink", "unlinked", "detach", "turned", "walk"} = {}
        /\ "q_free" \notin S /\ "dropped" \notin S /\ "q_new" \notin S
    BY <2>1
  <2>4. Final(cmd, "showing")
    BY <1>9 DEF Final, RH
  <2>5. Program(cmd) = s
    BY <1>9, <2>1 DEF Program, do_show
  <2>6. QED
    BY <1>9, <2>2, <2>3, <2>4, <2>5, PartBegins
<1>10. QED
  BY <1>1, <1>2, <1>3, <1>4, <1>5, <1>6, <1>7, <1>8, <1>9 DEF Commands, RH

-----------------------------------------------------------------------------
(* The console at the prompt: k lines are being interpreted.                 *)

Fits(c, k) ==
  /\ c \in ConType /\ k \in Int /\ k + Lists >= 0 /\ c.held = k + Lists + Len(c.stack)
  /\ c.verbose = con.verbose /\ (con.err_cnt > 0 => c.err_cnt > 0)
  /\ c.quit => c.err_cnt > 0

(* The fields of the console. *)
LEMMA ConFields ==
  ASSUME NEW c \in ConType
  PROVE  /\ c.stack \in Seq(File) /\ c.fds \in SUBSET Descriptors /\ c.log \in {"none", "open", "closed", "stale"}
         /\ c.logfd \in Descriptors /\ c.held \in Nat /\ c.quit \in BOOLEAN /\ c.err_cnt \in Nat /\ c.err_limit \in Nat
         /\ c.fail \in BOOLEAN /\ c.verbose \in BOOLEAN /\ Len(c.stack) \in Nat
<1>1. c.stack \in Seq(File)
  BY DEF ConType
<1>2. Len(c.stack) \in Nat
  BY <1>1, LenProperties
<1>3. QED
  BY <1>1, <1>2 DEF ConType

(* report_event. *)
LEMMA ReportFits ==
  ASSUME NEW c, NEW k, Fits(c, k)
  PROVE  Fits(report(c), k) /\ report(c).stack = c.stack /\ report(c).err_cnt = c.err_cnt /\ report(c).err_limit = c.err_limit
         /\ report(c).quit = c.quit
<1>1. c \in ConType
  BY DEF Fits
<1>2. PICK v : v = "stale"
  OBVIOUS
<1>3. v \in {"none", "open", "closed", "stale"}
  BY <1>2
<1>4. PICK d : d = [c EXCEPT !.log = v]
  OBVIOUS
<1>5. /\ d \in ConType /\ d.held = c.held /\ d.stack = c.stack /\ d.verbose = c.verbose /\ d.quit = c.quit
      /\ d.err_cnt = c.err_cnt /\ d.err_limit = c.err_limit
  BY <1>1, <1>3, <1>4 DEF ConType
<1>6. Fits(d, k)
  BY <1>5 DEF Fits
<1>7. report(c) = d \/ report(c) = c
  BY <1>2, <1>4 DEF report
<1>8. QED
  BY <1>5, <1>6, <1>7

(* The echo of a line. *)
LEMMA EchoedFits ==
  ASSUME NEW c, NEW k, Fits(c, k)
  PROVE  Fits(Echoed(c), k) /\ Echoed(c).stack = c.stack /\ Echoed(c).quit = c.quit
  BY ReportFits DEF Echoed

(* malloc_or_fail of report.c. *)
LEMMA MallocFits ==
  ASSUME NEW c, NEW k, Fits(c, k)
  PROVE  Fits(malloc_or_fail(c), k + 1) /\ malloc_or_fail(c).stack = c.stack /\ malloc_or_fail(c).quit = c.quit
<1>1. c \in ConType /\ k \in Int /\ k + Lists >= 0
  BY DEF Fits
<1>2. PICK d, n : n = c.held + 1 /\ d = [c EXCEPT !.held = n] /\ d = malloc_or_fail(c)
  BY DEF malloc_or_fail
<1>3. n \in Nat
  BY <1>1, <1>2, ConFields
<1>4. /\ d \in ConType /\ d.held = n /\ d.stack = c.stack /\ d.verbose = c.verbose /\ d.quit = c.quit
      /\ d.err_cnt = c.err_cnt
  BY <1>1, <1>2, <1>3 DEF ConType
<1>5. n = k + 1 + Lists + Len(c.stack)
  <2>1. Len(c.stack) \in Nat /\ c.held = k + Lists + Len(c.stack) /\ k \in Int /\ k + Lists >= 0
    BY <1>1, ConFields DEF Fits
  <2>2. QED
    BY <1>2, <2>1 DEF Lists
<1>6. QED
  BY <1>1, <1>2, <1>4, <1>5 DEF Fits, Lists

(* free_block of report.c. *)
LEMMA FreeFits ==
  ASSUME NEW c, NEW k \in Int, k + Lists >= 0, Fits(c, k + 1)
  PROVE  Fits(free_block(c), k) /\ free_block(c).stack = c.stack /\ free_block(c).err_cnt = c.err_cnt
<1>1. c \in ConType
  BY DEF Fits
<1>2. PICK d, n : n = c.held - 1 /\ d = [c EXCEPT !.held = n] /\ d = free_block(c)
  BY DEF free_block
<1>3. n = k + Lists + Len(c.stack) /\ n \in Nat
  <2>1. Len(c.stack) \in Nat /\ c.held = k + 1 + Lists + Len(c.stack)
    BY <1>1, ConFields DEF Fits
  <2>2. QED
    BY <1>2, <2>1 DEF Lists
<1>4. /\ d \in ConType /\ d.held = n /\ d.stack = c.stack /\ d.verbose = c.verbose /\ d.quit = c.quit
      /\ d.err_cnt = c.err_cnt
  BY <1>1, <1>2, <1>3 DEF ConType
<1>5. QED
  BY <1>1, <1>2, <1>3, <1>4 DEF Fits

(* record_error: beyond the limit it sets quit. *)
LEMMA ErrorFits ==
  ASSUME NEW c, NEW k, Fits(c, k)
  PROVE  Fits(record_error(c), k) /\ record_error(c).err_cnt > 0 /\ record_error(c).stack = c.stack
<1>1. PICK e : e = report(c)
  OBVIOUS
<1>2. Fits(e, k) /\ e.err_cnt = c.err_cnt /\ e.err_limit = c.err_limit /\ e.stack = c.stack
  BY <1>1, ReportFits
<1>3. e \in ConType /\ c \in ConType
  BY <1>2 DEF Fits
<1>4. PICK n, b, f, d : /\ n = e.err_cnt + 1 /\ b = (c.quit \/ c.err_cnt + 1 >= c.err_limit)
                        /\ f = [e EXCEPT !.err_cnt = n] /\ d = [f EXCEPT !.quit = b] /\ d = record_error(c)
  BY <1>1 DEF record_error
<1>5. n \in Nat /\ n > 0 /\ n > e.err_cnt /\ b \in BOOLEAN
  BY <1>3, <1>4, ConFields
<1>6. /\ f \in ConType /\ f.held = e.held /\ f.stack = e.stack /\ f.verbose = e.verbose /\ f.err_cnt = n
  BY <1>3, <1>4, <1>5 DEF ConType
<1>7. /\ d \in ConType /\ d.held = e.held /\ d.stack = e.stack /\ d.verbose = e.verbose /\ d.err_cnt = n
  BY <1>4, <1>5, <1>6 DEF ConType
<1>8. Fits(d, k)
  BY <1>2, <1>5, <1>7 DEF Fits
<1>9. QED
  BY <1>2, <1>4, <1>5, <1>7, <1>8

(* The end of interpret_cmd. *)
LEMMA InterpretedFits ==
  ASSUME NEW c, NEW k \in Int, k + Lists >= 0, Fits(c, k + 1), NEW ok
  PROVE  /\ Fits(Interpreted(c, ok), k) /\ Interpreted(c, ok).stack = c.stack
         /\ ~ok => Interpreted(c, ok).err_cnt > 0
<1>1. PICK d : d = (IF ok THEN c ELSE record_error(c)) /\ Interpreted(c, ok) = free_block(d)
  BY DEF Interpreted
<1>2. Fits(d, k + 1) /\ d.stack = c.stack /\ (~ok => d.err_cnt > 0)
  BY <1>1, ErrorFits
<1>3. QED
  BY <1>1, <1>2, FreeFits

(* Descriptors are numbers, the standard streams and one file among them. *)
LEMMA DescriptorsAre == Descriptors \subseteq Nat /\ {0, 1, 2, 3} \subseteq Descriptors
<1>1. PICK n : n = Cardinality(Descriptors) - 1
  OBVIOUS
<1>2. Descriptors = 0..n /\ 0..3 \subseteq Descriptors
  BY <1>1, QtestAssumption
<1>3. Descriptors \subseteq Nat
  BY <1>2
<1>4. {0, 1, 2, 3} \subseteq 0..3
  OBVIOUS
<1>5. QED
  BY <1>2, <1>3, <1>4

(* open takes the lowest free descriptor. *)
LEMMA LowestIs ==
  ASSUME NEW c, c \in ConType, Free(c) # {}
  PROVE  LowestFree(c) \in Descriptors \ c.fds
<1>1. Free(c) \subseteq Nat /\ Free(c) = Descriptors \ c.fds
  BY DescriptorsAre DEF Free
<1>2. \E d \in Free(c) : \A e \in Free(c) : d <= e
  BY <1>1, LeastNat
<1>3. LowestFree(c) \in Free(c)
  BY <1>2 DEF LowestFree
<1>4. QED
  BY <1>1, <1>3

(* push_file. *)
LEMMA PushIs ==
  ASSUME NEW c \in ConType, NEW fd \in Descriptors, NEW n \in Nat, NEW p, p = push_file(c, fd, n)
  PROVE  /\ p \in ConType /\ p.held = c.held + 1 /\ Len(p.stack) = Len(c.stack) + 1
         /\ p.verbose = c.verbose /\ p.quit = c.quit /\ p.err_cnt = c.err_cnt
<1>1. c \in ConType /\ c.stack \in Seq(File) /\ Len(c.stack) \in Nat
  BY ConFields
<1>2. PICK f, z, s, x, m, d, e, g :
         /\ z = 0 /\ f = [fd |-> fd, left |-> n, buf |-> z] /\ s = <<f>> \o c.stack /\ x = c.fds \cup {fd}
         /\ d = [c EXCEPT !.stack = s] /\ e = [d EXCEPT !.fds = x] /\ m = e.held + 1
         /\ g = [e EXCEPT !.held = m] /\ g = p
  BY DEF push_file, malloc_or_fail
<1>3. s \in Seq(File) /\ Len(s) = Len(c.stack) + 1
  <2>1. z \in Nat /\ f \in File
    BY <1>2 DEF File
  <2>2. PICK u : u = <<f>>
    OBVIOUS
  <2>3. u \in Seq(File) /\ Len(u) = 1
    BY <2>1, <2>2
  <2>4. u \o c.stack \in Seq(File) /\ Len(u \o c.stack) = 1 + Len(c.stack)
    <3>1. PICK t : t = c.stack
      OBVIOUS
    <3>2. u \in Seq(File) /\ t \in Seq(File)
      BY <1>1, <2>3, <3>1
    <3>3. u \o t \in Seq(File) /\ Len(u \o t) = Len(u) + Len(t)
      BY <3>2, ConcatProperties
    <3>4. QED
      BY <2>3, <3>1, <3>3
  <2>5. QED
    BY <1>1, <1>2, <2>2, <2>4
<1>4. x \in SUBSET Descriptors
  BY <1>1, <1>2, ConFields
<1>5. /\ d \in ConType /\ d.held = c.held /\ d.stack = s /\ d.verbose = c.verbose /\ d.quit = c.quit /\ d.err_cnt = c.err_cnt
  BY <1>1, <1>2, <1>3 DEF ConType
<1>6. /\ e \in ConType /\ e.held = c.held /\ e.stack = s /\ e.verbose = c.verbose /\ e.quit = c.quit /\ e.err_cnt = c.err_cnt
  BY <1>2, <1>4, <1>5 DEF ConType
<1>7. m \in Nat /\ m = c.held + 1
  <2>1. c.held \in Nat
    BY <1>1, ConFields
  <2>2. QED
    BY <1>2, <1>6, <2>1
<1>8. /\ g \in ConType /\ g.held = m /\ g.stack = s /\ g.verbose = c.verbose /\ g.quit = c.quit /\ g.err_cnt = c.err_cnt
  BY <1>2, <1>6, <1>7, ZenonT(40) DEF ConType
<1>9. QED
  BY <1>2, <1>3, <1>7, <1>8

(* source pushes one more file. *)
LEMMA PushFits ==
  ASSUME NEW c, NEW k, Fits(c, k), NEW fd \in Descriptors, NEW n \in Nat
  PROVE  Fits(push_file(c, fd, n), k)
<1>1. c \in ConType /\ Len(c.stack) \in Nat /\ c.held = k + Lists + Len(c.stack) /\ k \in Int
  BY ConFields DEF Fits
<1>2. PICK p : p = push_file(c, fd, n)
  OBVIOUS
<1>3. /\ p \in ConType /\ p.held = c.held + 1 /\ Len(p.stack) = Len(c.stack) + 1
      /\ p.verbose = c.verbose /\ p.quit = c.quit /\ p.err_cnt = c.err_cnt
  BY <1>1, <1>2, PushIs
<1>4. p.held = k + Lists + Len(p.stack)
  <2>1. PICK a, b, x, y : a = c.held /\ b = p.held /\ x = Len(c.stack) /\ y = Len(p.stack)
    OBVIOUS
  <2>2. x \in Nat /\ k \in Int /\ a = k + 2 + x /\ b = a + 1 /\ y = x + 1
    BY <1>1, <1>3, <2>1 DEF Lists
  <2>3. b = k + 2 + y
    BY <2>2
  <2>4. QED
    BY <2>1, <2>3 DEF Lists
<1>5. Fits(p, k)
  BY <1>3, <1>4 DEF Fits
<1>6. QED
  BY <1>2, <1>5

(* pop_file at the end of a file. *)
LEMMA PopFits ==
  ASSUME NEW c, NEW k, Fits(c, k), c.stack # <<>>
  PROVE  Fits(pop_file(c), k) /\ pop_file(c).quit = c.quit
<1>1. c \in ConType /\ c.stack \in Seq(File) /\ Len(c.stack) \in Nat /\ k \in Int /\ k + Lists >= 0
  BY ConFields DEF Fits
<1>2. PICK s, x, m, d, e, g :
         /\ s = Tail(c.stack) /\ x = c.fds \ {Head(c.stack).fd}
         /\ d = [c EXCEPT !.stack = s] /\ e = [d EXCEPT !.fds = x] /\ m = e.held - 1
         /\ g = [e EXCEPT !.held = m] /\ g = pop_file(c)
  BY DEF pop_file, free_block
<1>3. s \in Seq(File) /\ Len(s) = Len(c.stack) - 1 /\ Len(s) \in Nat
  BY <1>1, <1>2, HeadTailProperties, LenProperties
<1>4. x \in SUBSET Descriptors
  BY <1>1, <1>2, ConFields
<1>5. /\ d \in ConType /\ d.held = c.held /\ d.stack = s /\ d.verbose = c.verbose /\ d.quit = c.quit /\ d.err_cnt = c.err_cnt
  BY <1>1, <1>2, <1>3 DEF ConType
<1>6. /\ e \in ConType /\ e.held = c.held /\ e.stack = s /\ e.verbose = c.verbose /\ e.quit = c.quit /\ e.err_cnt = c.err_cnt
  BY <1>2, <1>4, <1>5 DEF ConType
<1>7. m \in Nat /\ m = k + Lists + Len(s)
  <2>1. c.held \in Nat /\ c.held = k + Lists + Len(c.stack)
    BY <1>1, ConFields DEF Fits
  <2>2. QED
    BY <1>1, <1>2, <1>3, <1>6, <2>1 DEF Lists
<1>8. /\ g \in ConType /\ g.held = m /\ g.stack = s /\ g.verbose = c.verbose /\ g.quit = c.quit /\ g.err_cnt = c.err_cnt
  BY <1>2, <1>6, <1>7 DEF ConType
<1>9. Fits(g, k)
  BY <1>7, <1>8 DEF Fits
<1>10. QED
  BY <1>2, <1>8, <1>9

(* The file on top is read. *)
LEMMA TopFits ==
  ASSUME NEW c, NEW k, Fits(c, k), c.stack # <<>>, NEW f \in File, NEW d, d = [c EXCEPT !.stack[1] = f]
  PROVE  Fits(d, k) /\ d.quit = c.quit
<1>1. c \in ConType /\ c.stack \in Seq(File)
  BY ConFields DEF Fits
<1>2. PICK s : s = [c.stack EXCEPT ![1] = f]
  OBVIOUS
<1>3. s \in Seq(File) /\ Len(s) = Len(c.stack)
  BY <1>1, <1>2, ExceptSeq, EmptySeq
<1>4. d = [c EXCEPT !.stack = s]
  BY <1>2
<1>5. /\ d \in ConType /\ d.held = c.held /\ d.stack = s /\ d.verbose = c.verbose /\ d.quit = c.quit /\ d.err_cnt = c.err_cnt
  BY <1>1, <1>3, <1>4 DEF ConType
<1>6. QED
  BY <1>3, <1>5 DEF Fits

(* A read into the buffer of the top file. *)
LEMMA BufferedFits ==
  ASSUME NEW c, NEW k, Fits(c, k), read_ready(c)
  PROVE  Fits(Buffered(c), k) /\ Buffered(c).quit = c.quit
<1>1. c \in ConType /\ c.stack \in Seq(File) /\ c.stack # <<>> /\ Head(c.stack).buf > 0
  BY ConFields DEF Fits, read_ready
<1>2. c.stack[1] \in File /\ Head(c.stack) = c.stack[1]
  BY <1>1, ElementOfSeq, EmptySeq, HeadTailProperties
<1>3. PICK f, g, n : g = c.stack[1] /\ n = g.buf - 1 /\ f = [g EXCEPT !.buf = n]
  OBVIOUS
<1>4. n \in Nat
  BY <1>1, <1>2, <1>3 DEF File
<1>5. f \in File
  BY <1>2, <1>3, <1>4 DEF File
<1>6. Buffered(c) = [c EXCEPT !.stack[1] = f]
  BY <1>3 DEF Buffered
<1>7. QED
  BY <1>1, <1>5, <1>6, TopFits

(* One line is taken out of the buffer. *)
LEMMA FetchedFits ==
  ASSUME NEW c, NEW k, Fits(c, k), c.stack # <<>>, NEW d \in Fetched(c)
  PROVE  Fits(d, k) /\ d.quit = c.quit
<1>1. c \in ConType /\ c.stack \in Seq(File)
  BY ConFields DEF Fits
<1>2. c.stack[1] \in File /\ Head(c.stack) = c.stack[1]
  BY <1>1, ElementOfSeq, EmptySeq, HeadTailProperties
<1>3. PICK g : g = Head(c.stack)
  OBVIOUS
<1>4. g \in File /\ g.left \in Nat /\ g.buf \in Nat
  BY <1>2, <1>3 DEF File
<1>5. \/ \E n \in 1..g.left : d = [c EXCEPT !.stack[1] = [g EXCEPT !.left = g.left - n, !.buf = n - 1]]
      \/ d = pop_file(c)
  BY <1>3 DEF Fetched
<1>6. ASSUME NEW n \in 1..g.left, d = [c EXCEPT !.stack[1] = [g EXCEPT !.left = g.left - n, !.buf = n - 1]]
      PROVE  Fits(d, k) /\ d.quit = c.quit
  <2>1. PICK a, b, e, f : a = g.left - n /\ b = n - 1 /\ e = [g EXCEPT !.left = a] /\ f = [e EXCEPT !.buf = b] /\ d = [c EXCEPT !.stack[1] = f]
    BY <1>6
  <2>2. a \in Nat /\ b \in Nat
    BY <1>4, <2>1
  <2>3. e \in File
    BY <1>4, <2>1, <2>2 DEF File
  <2>4. f \in File
    BY <2>1, <2>2, <2>3 DEF File
  <2>5. QED
    BY <2>1, <2>4, TopFits
<1>7. CASE d = pop_file(c)
  BY <1>7, PopFits
<1>8. QED
  BY <1>5, <1>6, <1>7

(* set_logfile. *)
LEMMA LogFits ==
  ASSUME NEW c, NEW k, Fits(c, k), NEW opens, opens => Free(c) # {}
  PROVE  Fits(set_logfile(c, opens), k)
<1>1. c \in ConType
  BY DEF Fits
<1>2. CASE opens
  <2>1. PICK l, v, x, d, e, g :
           /\ l = LowestFree(c) /\ v = "open" /\ x = c.fds \cup {l} /\ d = [c EXCEPT !.log = v]
           /\ e = [d EXCEPT !.logfd = l] /\ g = [e EXCEPT !.fds = x] /\ g = set_logfile(c, opens)
    BY <1>2 DEF set_logfile
  <2>2. l \in Descriptors /\ x \in SUBSET Descriptors /\ v \in {"none", "open", "closed", "stale"}
    BY <1>1, <1>2, <2>1, LowestIs, ConFields
  <2>3. /\ d \in ConType /\ d.held = c.held /\ d.stack = c.stack /\ d.verbose = c.verbose /\ d.quit = c.quit /\ d.err_cnt = c.err_cnt
    BY <1>1, <2>1, <2>2 DEF ConType
  <2>4. /\ e \in ConType /\ e.held = c.held /\ e.stack = c.stack /\ e.verbose = c.verbose /\ e.quit = c.quit /\ e.err_cnt = c.err_cnt
    BY <2>1, <2>2, <2>3 DEF ConType
  <2>5. /\ g \in ConType /\ g.held = c.held /\ g.stack = c.stack /\ g.verbose = c.verbose /\ g.quit = c.quit /\ g.err_cnt = c.err_cnt
    BY <2>1, <2>2, <2>4 DEF ConType
  <2>6. Fits(g, k)
    BY <2>5 DEF Fits
  <2>7. QED
    BY <2>1, <2>6
<1>3. CASE ~opens
  <2>1. PICK v, d : v = "none" /\ d = [c EXCEPT !.log = v] /\ d = set_logfile(c, opens)
    BY <1>3 DEF set_logfile
  <2>2. v \in {"none", "open", "closed", "stale"}
    BY <2>1
  <2>3. /\ d \in ConType /\ d.held = c.held /\ d.stack = c.stack /\ d.verbose = c.verbose /\ d.quit = c.quit /\ d.err_cnt = c.err_cnt
    BY <1>1, <2>1, <2>2 DEF ConType
  <2>4. Fits(d, k)
    BY <2>3 DEF Fits
  <2>5. QED
    BY <2>1, <2>4
<1>4. QED
  BY <1>2, <1>3

(* The first of a pair. *)
LEMMA FirstOf == \A x, y : <<x, y>>[1] = x
  OBVIOUS

(* do_option_cmd. *)
LEMMA OptionFits ==
  ASSUME NEW c, NEW k, Fits(c, k), NEW o \in do_option_cmd(c)
  PROVE  Fits(o[1], k)
<1>1. c \in ConType
  BY DEF Fits
<1>2. PICK v, n, d, e : v = TRUE /\ n = 1 /\ d = [c EXCEPT !.fail = v] /\ e = [c EXCEPT !.err_limit = n]
  OBVIOUS
<1>3. v \in BOOLEAN /\ n \in Nat
  BY <1>2
<1>4. /\ d \in ConType /\ d.held = c.held /\ d.stack = c.stack /\ d.verbose = c.verbose /\ d.quit = c.quit /\ d.err_cnt = c.err_cnt
  BY <1>1, <1>2, <1>3 DEF ConType
<1>5. /\ e \in ConType /\ e.held = c.held /\ e.stack = c.stack /\ e.verbose = c.verbose /\ e.quit = c.quit /\ e.err_cnt = c.err_cnt
  BY <1>1, <1>2, <1>3 DEF ConType
<1>6. o[1] = d \/ o[1] = e
  <2>1. d = [c EXCEPT !.fail = TRUE] /\ e = [c EXCEPT !.err_limit = 1]
    BY <1>2
  <2>2. o \in {<<d, TRUE>>, <<e, TRUE>>, <<e, FALSE>>}
    BY <2>1, Zenon DEF do_option_cmd
  <2>3. QED
    BY <2>2, FirstOf, Zenon
<1>7. QED
  BY <1>4, <1>5, <1>6 DEF Fits

(* A built-in command is interpreted. *)
LEMMA BuiltinFits ==
  ASSUME NEW c, Fits(c, 0), NEW cmd \in Builtins, NEW d \in interpret_cmd(c, cmd)
  PROVE  Fits(d, 0)
<1>1. PICK m : m = malloc_or_fail(c)
  OBVIOUS
<1>2. Fits(m, 1) /\ m \in ConType
  <2>1. Fits(m, 0 + 1)
    BY <1>1, MallocFits
  <2>2. QED
    BY <2>1 DEF Fits
<1>3. PICK o \in Outcomes(m, cmd) : d = Interpreted(o[1], o[2])
  BY <1>1 DEF interpret_cmd
<1>4. Fits(o[1], 1)
  <2>1. CASE cmd = "comment" \/ cmd = "unknown"
    <3>1. o \in {<<m, TRUE>>, <<m, FALSE>>}
      BY <1>3, <2>1, Zenon DEF Outcomes
    <3>2. o[1] = m
      BY <3>1, FirstOf, Zenon
    <3>3. QED
      BY <1>2, <3>2
  <2>2. CASE cmd = "option"
    <3>1. o \in do_option_cmd(m)
      BY <1>3, <2>2 DEF Outcomes
    <3>2. QED
      BY <1>2, <3>1, OptionFits
  <2>3. CASE cmd = "source"
    <3>1. \/ o[1] = m
          \/ Free(m) # {} /\ \E n \in 0..SourceLines : o[1] = push_file(m, LowestFree(m), n)
      <4>1. o \in {<<m, FALSE>>} \cup {<<push_file(m, LowestFree(m), n), TRUE>> : n \in IF Free(m) = {} THEN {} ELSE 0..SourceLines}
        BY <1>3, <2>3, Zenon DEF Outcomes, do_source_cmd
      <4>2. CASE o = <<m, FALSE>>
        BY <4>2
      <4>3. ASSUME NEW n \in IF Free(m) = {} THEN {} ELSE 0..SourceLines, o = <<push_file(m, LowestFree(m), n), TRUE>>
            PROVE  Free(m) # {} /\ n \in 0..SourceLines /\ o[1] = push_file(m, LowestFree(m), n)
        BY <4>3
      <4>4. QED
        BY <4>1, <4>2, <4>3
    <3>2. ASSUME Free(m) # {}, NEW n \in 0..SourceLines, o[1] = push_file(m, LowestFree(m), n) PROVE Fits(o[1], 1)
      <4>1. LowestFree(m) \in Descriptors /\ n \in Nat
        BY <1>2, <3>2, LowestIs, QtestAssumption
      <4>2. QED
        BY <1>2, <3>2, <4>1, PushFits
    <3>3. QED
      BY <1>2, <3>1, <3>2
  <2>4. CASE cmd = "log"
    <3>1. PICK opens \in {FALSE, Free(m) # {}} : o = <<set_logfile(m, opens), opens>>
      BY <1>3, <2>4 DEF Outcomes, do_log_cmd
    <3>2. opens => Free(m) # {}
      BY <3>1
    <3>3. Fits(set_logfile(m, opens), 1)
      BY <1>2, <3>2, LogFits
    <3>4. QED
      BY <3>1, <3>3
  <2>5. QED
    BY <2>1, <2>2, <2>3, <2>4 DEF Builtins
<1>5. 0 \in Int /\ 0 + Lists >= 0 /\ Fits(o[1], 0 + 1)
  BY <1>4 DEF Lists
<1>6. QED
  BY <1>3, <1>5, InterpretedFits

(* do_quit_cmd gives back everything but the line it is in. *)
LEMMA QuitFits ==
  ASSUME NEW c, NEW k \in Nat, Fits(c, k), NEW d, d = do_quit_cmd(c)
  PROVE  /\ d \in ConType /\ d.held = k /\ d.stack = <<>> /\ d.verbose = c.verbose /\ d.err_cnt = c.err_cnt /\ d.quit = c.quit
<1>1. c \in ConType /\ Len(c.stack) \in Nat /\ k \in Int /\ k + Lists >= 0 /\ c.held \in Nat
  BY ConFields DEF Fits
<1>2. PICK m, s, x, e, g : /\ m = c.held - Lists - Len(c.stack) /\ s = <<>> /\ x = c.fds \ {c.stack[n].fd : n \in 1..Len(c.stack)}
                           /\ e = [c EXCEPT !.held = m] /\ g = [e EXCEPT !.stack = s] /\ d = [g EXCEPT !.fds = x]
  BY DEF do_quit_cmd
<1>3. m = k /\ m \in Nat /\ s \in Seq(File) /\ x \in SUBSET Descriptors
  <2>1. c.held = k + Lists + Len(c.stack)
    BY DEF Fits
  <2>2. m = k
    BY <1>1, <1>2, <2>1 DEF Lists
  <2>3. QED
    BY <1>1, <1>2, <2>2, ConFields
<1>4. /\ e \in ConType /\ e.held = m /\ e.stack = c.stack /\ e.verbose = c.verbose /\ e.quit = c.quit /\ e.err_cnt = c.err_cnt
  BY <1>1, <1>2, <1>3 DEF ConType
<1>5. /\ g \in ConType /\ g.held = m /\ g.stack = s /\ g.verbose = c.verbose /\ g.quit = c.quit /\ g.err_cnt = c.err_cnt
  BY <1>2, <1>3, <1>4 DEF ConType
<1>6. /\ d \in ConType /\ d.held = m /\ d.stack = s /\ d.verbose = c.verbose /\ d.quit = c.quit /\ d.err_cnt = c.err_cnt
  BY <1>2, <1>3, <1>5 DEF ConType
<1>7. QED
  BY <1>2, <1>3, <1>6

-----------------------------------------------------------------------------
(* The prompt.                                                               *)

(* What the invariant says at the prompt. *)
LEMMA PromptIs ==
  ASSUME Inv, run.cmd = "none", phase = "run"
  PROVE  /\ run = Idle /\ run.todo = <<>> /\ hd = "none" /\ On(run.todo) = {}
         /\ ~har.alarm /\ ~har.jmp_ready /\ ~har.noallocate /\ har.cautious
         /\ ~helped => Fits(con, 0) /\ AtLeast(Chain) /\ Chain = IF que.q THEN que.chain + 1 ELSE 0
         /\ helped => con.quit /\ con.stack = <<>>
<1>1. run = Idle /\ run.todo = <<>> /\ run.cmd = "none"
  BY DEF Inv, Ends, Idle
<1>2. hd = "none" /\ On(run.todo) = {}
  BY <1>1, NothingLeft DEF hd
<1>3. ~har.alarm /\ ~har.jmp_ready /\ ~har.noallocate /\ har.cautious
  BY <1>2 DEF Inv, Modes, Has, Inner
<1>4. ASSUME ~helped PROVE Fits(con, 0)
  <2>1. Lined = 0
    BY DEF Lined
  <2>2. con.held = 0 + Lists + Len(con.stack) /\ con \in ConType
    <3>1. con.held = Lined + IF helped THEN 0 ELSE Lists + Len(con.stack)
      BY DEF Inv, Ends
    <3>2. con \in ConType
      BY DEF Inv, Types
    <3>3. Len(con.stack) \in Nat
      BY <3>2, ConFields
    <3>4. QED
      BY <1>4, <2>1, <3>1, <3>2, <3>3 DEF Lists
  <2>3. con.quit => con.err_cnt > 0
    BY <1>4 DEF Inv, Ends
  <2>4. QED
    BY <2>2, <2>3 DEF Fits, Lists
<1>5. ASSUME ~helped PROVE AtLeast(Chain) /\ Chain = IF que.q THEN que.chain + 1 ELSE 0
  <2>1. Chain = IF que.q THEN que.chain + 1 ELSE 0
    BY <1>2 DEF Chain
  <2>2. Chain \in Nat /\ Extra = 0
    BY <1>2, <2>1, RunFields DEF Extra
  <2>3. Extra + Chain = Chain
    BY <2>2
  <2>4. ~Freed /\ ~Gone
    BY <1>2, <1>5 DEF Freed, Gone, Has
  <2>5. AtLeast(Extra + Chain)
    BY <2>4 DEF Inv, Owned
  <2>6. QED
    BY <2>1, <2>3, <2>5
<1>6. helped => con.quit /\ con.stack = <<>>
  BY <1>1 DEF Inv, Ends
<1>7. QED
  BY <1>1, <1>2, <1>3, <1>4, <1>5, <1>6

(* A line without a command that runs. *)
LEMMA PromptKeeps ==
  ASSUME Inv, run.cmd = "none", phase = "run", ~helped, Fits(con', 0),
         UNCHANGED <<har, que, run, phase, status, helped, cuts, lost>>
  PROVE  Inv'
<1>1. /\ con' \in ConType /\ con'.verbose = con.verbose /\ (con.err_cnt > 0 => con'.err_cnt > 0)
      /\ con'.quit => con'.err_cnt > 0
  BY DEF Fits
<1>2. Types' /\ Grammar(run.cmd, run.todo)'
  BY <1>1 DEF Inv, Types
<1>3. Modes' /\ Difference' /\ Owned'
  <2>1. Modes /\ Difference /\ Owned /\ har' = har /\ que' = que /\ run' = run /\ cuts' = cuts /\ helped' = helped
    BY DEF Inv
  <2>2. Modes'
    BY <2>1 DEF Modes, hd, Has
  <2>3. Difference'
    BY <2>1 DEF Difference, Behind, hd
  <2>4. Owned'
    BY <2>1 DEF Owned, Has, hd, Freed, Freer, Gone, AtLeast, Extra, Chain
  <2>5. QED
    BY <2>2, <2>3, <2>4
<1>4. Queue'
  <2>1. run = Idle /\ run.cmd = "none" /\ On(run.todo) = {} /\ hd = "none"
    BY PromptIs
  <2>2. QED
    BY <2>1 DEF Inv, Queue, Has, hd
<1>5. Cuts'
  <2>1. ~run.cut /\ run'.cut = run.cut /\ run'.cmd = "none" /\ Cuts
    BY PromptIs DEF Inv, Idle
  <2>2. QED
    BY <1>1, <2>1 DEF Cuts
<1>6. Ends'
  <2>1. Lined' = 0
    BY DEF Lined
  <2>2. con'.held = 0 + Lists + Len(con'.stack) /\ Len(con'.stack) \in Nat
    <3>1. PICK c : c = con'
      OBVIOUS
    <3>2. c \in ConType /\ c.held = 0 + Lists + Len(c.stack)
      BY <3>1 DEF Fits
    <3>3. Len(c.stack) \in Nat
      BY <3>2, ConFields
    <3>4. QED
      BY <3>1, <3>2, <3>3
  <2>3. con'.held = Lined' + IF helped' THEN 0 ELSE Lists + Len(con'.stack)
    BY <2>1, <2>2 DEF Lists
  <2>4. QED
    BY <1>1, <2>3 DEF Inv, Ends
<1>7. QED
  BY <1>2, <1>3, <1>4, <1>5, <1>6 DEF Inv

(* A command starts. *)
LEMMA StartIs ==
  ASSUME NEW cmd \in Commands, Start(cmd)
  PROVE  /\ run'.cmd = cmd /\ run'.todo = Program(cmd) /\ ~run'.cut /\ run' \in RunType
         /\ Begins(cmd, run'.todo)
<1>1. PICK n : n \in Nat /\ run' = [Idle EXCEPT !.cmd = cmd, !.reps = n, !.todo = Program(cmd)]
  <2>1. Reps \subseteq Nat
    BY QtestAssumption
  <2>2. QED
    BY <2>1 DEF Start
<1>2. PICK w : w = Program(cmd)
  OBVIOUS
<1>3. Begins(cmd, w)
  BY <1>2, ProgramBegins
<1>4. w \in Seq(AllSteps)
  <2>1. w \in Seq(Steps(cmd)) /\ Steps(cmd) \subseteq AllSteps
    BY <1>3, StepsAre DEF Begins, Grammar
  <2>2. QED
    BY <2>1, SeqMonotonic, ElementOfSeq
<1>5. PICK a, b, c, e : a \in BOOLEAN /\ b \in BOOLEAN /\ ~e /\ e \in BOOLEAN /\ c \in Int
                        /\ Idle = [cmd |-> "none", ok |-> a, rval |-> b, reps |-> 0, cnt |-> c, todo |-> <<>>, cut |-> e]
  <2>1. TRUE \in BOOLEAN /\ FALSE \in BOOLEAN /\ ~FALSE /\ 0 \in Int
    OBVIOUS
  <2>2. QED
    BY <2>1, Zenon DEF Idle
<1>6. run' = [cmd |-> cmd, ok |-> a, rval |-> b, reps |-> n, cnt |-> c, todo |-> w, cut |-> e]
  BY <1>1, <1>2, <1>5
<1>7. run' \in RunType
  BY <1>1, <1>4, <1>5, <1>6 DEF RunType
<1>8. QED
  BY <1>2, <1>3, <1>5, <1>6, <1>7

(* A command begins. *)
LEMMA StartKeeps ==
  ASSUME Inv, run.cmd = "none", phase = "run", ~helped, NEW cmd \in Commands, Start(cmd),
         UNCHANGED <<har, que, status, cuts, lost>>, helped' = (cmd = "quit"),
         con' \in ConType, con'.verbose = con.verbose, con.err_cnt > 0 => con'.err_cnt > 0, ~con'.quit,
         con'.held = Lined' + IF helped' THEN 0 ELSE Lists + Len(con'.stack), helped' => con'.stack = <<>>,
         phase' = "run" \/ (phase' = "finish" /\ cmd = "quit" /\ con'.err_cnt = 0)
  PROVE  Inv'
<1>1. PICK t : t = run'.todo
  OBVIOUS
<1>2. run'.cmd = cmd /\ ~run'.cut /\ run' \in RunType /\ Begins(cmd, t)
  BY <1>1, StartIs
<1>3. hd' \in {"checked", "maybe_bold", "showing"} /\ \A b : Has(b)' <=> b \in On(t)
  BY <1>1, <1>2 DEF Begins, hd, Has
<1>4. cmd # "none"
  BY DEF Commands
<1>5. Types' /\ Grammar(run'.cmd, run'.todo)
  BY <1>1, <1>2 DEF Inv, Types, Begins
<1>6. ~har.alarm /\ ~har.jmp_ready /\ ~har.noallocate /\ har.cautious
  BY PromptIs
<1>7. Modes'
  BY <1>3, <1>6 DEF Modes
<1>8. Difference'
  <2>1. Behind = 0 /\ Behind' = 0
    BY <1>3, PromptIs DEF Behind
  <2>2. QED
    BY <2>1 DEF Inv, Difference
<1>9. Owned'
  <2>1. Extra' = 0 /\ Chain' = Chain /\ Chain \in Nat
    BY <1>3, PromptIs, RunFields DEF Extra, Chain
  <2>2. (Extra + Chain)' = Chain
    BY <2>1
  <2>3. AtLeast(Extra + Chain)'
    BY <2>2, PromptIs DEF AtLeast
  <2>4. ~Freed' /\ ~Gone' /\ hd' \notin Freer /\ (Has("q_free")' => cmd = "quit" \/ Has("dropped")')
    BY <1>2, <1>3, <1>4 DEF Freed, Gone, Freer, Begins
  <2>5. QED
    BY <1>2, <1>3, <2>3, <2>4 DEF Owned
<1>10. Queue'
  <2>1. ~que.q => que.chain = 0
    BY DEF Inv, Queue
  <2>2. {"attach", "header", "walk"} \cap On(t) = {}
    BY <1>2 DEF Begins
  <2>3. cmd \in {"new", "free"} => ~que.q \/ Waits(t)
    BY <1>2 DEF Begins
  <2>4. "q_new" \in On(t) => ~que.q \/ "dropped" \in On(t)
    BY <1>2 DEF Begins
  <2>5. QED
    BY <1>1, <1>2, <1>3, <2>1, <2>2, <2>3, <2>4 DEF Queue
<1>11. Cuts'
  <2>1. Cuts /\ ~run.cut /\ ~helped
    BY PromptIs DEF Inv, Idle
  <2>2. QED
    BY <1>2, <2>1 DEF Cuts
<1>12. Ends'
  <2>1. t # <<>>
    BY <1>2 DEF Begins
  <2>2. QED
    BY <1>1, <1>2, <1>4, <2>1 DEF Ends
<1>13. QED
  BY <1>2, <1>5, <1>7, <1>8, <1>9, <1>10, <1>11, <1>12 DEF Inv

(* A line is interpreted: a built-in command, an unknown one, or the start of one of qtest.c. *)
LEMMA LineKeeps ==
  ASSUME Inv, AtPrompt, ~helped, NEW c, Fits(c, 0), ~c.quit, Line(c),
         UNCHANGED <<har, que, phase, status, cuts, lost>>
  PROVE  Inv'
<1>1. run.cmd = "none" /\ phase = "run"
  BY DEF AtPrompt
<1>2. PICK e : e = Echoed(c) /\ Fits(e, 0) /\ ~e.quit
  BY EchoedFits
<1>3. \/ /\ \E cmd \in Builtins : con' \in interpret_cmd(e, cmd)
         /\ UNCHANGED <<run, helped>>
      \/ \E cmd \in Commands :
            /\ Start(cmd) /\ helped' = (cmd = "quit")
            /\ con' = IF cmd = "quit" THEN do_quit_cmd(malloc_or_fail(e)) ELSE malloc_or_fail(e)
  BY <1>2 DEF Line
<1>4. ASSUME NEW cmd \in Builtins, con' \in interpret_cmd(e, cmd), UNCHANGED <<run, helped>> PROVE Inv'
  <2>1. Fits(con', 0)
    BY <1>2, <1>4, BuiltinFits
  <2>2. QED
    BY <1>1, <1>4, <2>1, PromptKeeps
<1>5. ASSUME NEW cmd \in Commands, Start(cmd), helped' = (cmd = "quit"),
             con' = IF cmd = "quit" THEN do_quit_cmd(malloc_or_fail(e)) ELSE malloc_or_fail(e)
      PROVE  Inv'
  <2>1. PICK m : m = malloc_or_fail(e) /\ Fits(m, 1) /\ ~m.quit
    <3>1. Fits(malloc_or_fail(e), 0 + 1) /\ ~malloc_or_fail(e).quit
      BY <1>2, MallocFits
    <3>2. QED
      BY <3>1
  <2>2. m \in ConType /\ m.held = 1 + Lists + Len(m.stack) /\ m.verbose = con.verbose /\ (con.err_cnt > 0 => m.err_cnt > 0)
        /\ Len(m.stack) \in Nat
    BY <2>1, ConFields DEF Fits
  <2>3. Lined' = 1
    <3>1. run'.cmd = cmd /\ cmd # "none"
      BY <1>5, StartIs DEF Commands
    <3>2. QED
      BY <1>1, <3>1 DEF Lined
  <2>4. CASE cmd = "quit"
    <3>1. PICK d : d = con' /\ d = do_quit_cmd(m)
      BY <1>5, <2>1, <2>4
    <3>2. d \in ConType /\ d.held = 1 /\ d.stack = <<>> /\ d.verbose = m.verbose /\ d.err_cnt = m.err_cnt /\ d.quit = m.quit
      BY <2>1, <3>1, QuitFits
    <3>3. helped' /\ con'.held = Lined' + IF helped' THEN 0 ELSE Lists + Len(con'.stack)
      <4>1. helped'
        BY <1>5, <2>4, Zenon
      <4>2. con'.held = 1
        BY <3>1, <3>2
      <4>3. QED
        BY <2>3, <4>1, <4>2
    <3>4. QED
      BY <1>1, <1>5, <2>1, <2>2, <2>4, <3>1, <3>2, <3>3, StartKeeps
  <2>5. CASE cmd # "quit"
    <3>1. con' = m
      BY <1>5, <2>1, <2>5
    <3>2. ~helped' /\ con'.held = Lined' + IF helped' THEN 0 ELSE Lists + Len(con'.stack)
      <4>1. ~helped'
        BY <1>5, <2>5, Zenon
      <4>2. con'.held = 1 + Lists + Len(con'.stack) /\ Len(con'.stack) \in Nat
        BY <2>2, <3>1
      <4>3. QED
        BY <2>3, <4>1, <4>2 DEF Lists
    <3>3. QED
      BY <1>1, <1>5, <2>1, <2>2, <3>1, <3>2, StartKeeps
  <2>6. QED
    BY <2>4, <2>5
<1>6. QED
  BY <1>3, <1>4, <1>5

(* cmd_select. *)
LEMMA SelectKeeps == ASSUME Inv, cmd_select PROVE Inv'
<1>1. AtPrompt /\ run.cmd = "none" /\ phase = "run" /\ UNCHANGED <<har, que, phase, status, cuts, lost>>
  BY DEF cmd_select, AtPrompt
<1>2. con.stack # <<>> /\ ~helped /\ Fits(con, 0)
  <2>1. con.stack # <<>>
    BY DEF cmd_select, read_ready, cmd_done
  <2>2. ~helped
    BY <1>1, <2>1, PromptIs
  <2>3. QED
    BY <1>1, <2>1, <2>2, PromptIs
<1>3. \/ read_ready(con) /\ con.quit /\ con' = Echoed(Buffered(con)) /\ UNCHANGED <<run, helped>>
      \/ read_ready(con) /\ ~con.quit /\ Line(Buffered(con))
      \/ /\ ~cmd_done(con)
         /\ \/ \E c \in Fetched(con) : Line(c)
            \/ AtEof(con) /\ con' = EndOfFile(con) /\ UNCHANGED <<run, helped>>
  BY DEF cmd_select
<1>4. CASE read_ready(con) /\ con.quit /\ con' = Echoed(Buffered(con)) /\ UNCHANGED <<run, helped>>
  <2>1. PICK b : b = Buffered(con) /\ Fits(b, 0)
    BY <1>2, <1>4, BufferedFits
  <2>2. Fits(con', 0)
    BY <1>4, <2>1, EchoedFits
  <2>3. QED
    BY <1>1, <1>2, <1>4, <2>2, PromptKeeps
<1>5. CASE read_ready(con) /\ ~con.quit /\ Line(Buffered(con))
  <2>1. PICK b : b = Buffered(con) /\ Fits(b, 0) /\ ~b.quit
    BY <1>2, <1>5, BufferedFits
  <2>2. QED
    BY <1>1, <1>2, <1>5, <2>1, LineKeeps
<1>6. ASSUME ~cmd_done(con), NEW c \in Fetched(con), Line(c) PROVE Inv'
  <2>1. Fits(c, 0) /\ c.quit = con.quit /\ ~con.quit
    BY <1>2, <1>6, FetchedFits DEF cmd_done
  <2>2. QED
    BY <1>1, <1>2, <1>6, <2>1, LineKeeps
<1>7. CASE con' = EndOfFile(con) /\ UNCHANGED <<run, helped>>
  <2>1. Fits(con', 0)
    BY <1>2, <1>7, PopFits DEF EndOfFile
  <2>2. QED
    BY <1>1, <1>2, <1>7, <2>1, PromptKeeps
<1>8. QED
  BY <1>3, <1>4, <1>5, <1>6, <1>7

(* select fails on a stale descriptor. *)
LEMMA SelectFailsKeeps == ASSUME Inv, select_fails PROVE Inv'
<1>1. AtPrompt /\ run.cmd = "none" /\ phase = "run" /\ UNCHANGED <<con, har, que, run, status, helped, cuts, lost>> /\ phase' = "spin"
  BY DEF select_fails, AtPrompt
<1>2. con.stack # <<>> /\ ~helped
  <2>1. con.stack # <<>>
    BY DEF select_fails, cmd_done
  <2>2. QED
    BY <1>1, <2>1, PromptIs
<1>3. run.cut = FALSE /\ ~run.cut
  BY <1>1, PromptIs DEF Idle
<1>4. Types' /\ Grammar(run.cmd, run.todo)'
  BY <1>1 DEF Inv, Types
<1>5. Modes' /\ Difference' /\ Queue'
  BY <1>1 DEF Inv, Modes, Difference, Queue, hd, Has, Behind, Waits
<1>6. Owned'
  BY <1>1 DEF Inv, Owned, Has, hd, Freed, Freer, Gone, AtLeast, Extra, Chain
<1>7. Cuts'
  BY <1>1, <1>3 DEF Inv, Cuts
<1>8. Ends'
  BY <1>1, <1>2 DEF Inv, Ends, Lined
<1>9. QED
  BY <1>4, <1>5, <1>6, <1>7, <1>8 DEF Inv

(* finish_cmd, which runs quit or ends the program. *)
LEMMA FinishKeeps == ASSUME Inv, finish_cmd PROVE Inv'
<1>1. AtPrompt /\ run.cmd = "none" /\ phase = "run" /\ cmd_done(con) /\ UNCHANGED <<har, que, cuts, lost>>
  BY DEF finish_cmd, AtPrompt
<1>2. CASE con.err_cnt = 0 /\ ~con.quit
  <2>1. con' = do_quit_cmd(con) /\ Start("quit") /\ phase' = "finish" /\ helped' = TRUE /\ status' = status
    BY <1>2 DEF finish_cmd
  <2>2. ~helped /\ Fits(con, 0)
    BY <1>1, <1>2, PromptIs
  <2>3. PICK d, cmd : d = con' /\ cmd = "quit" /\ cmd \in Commands
    BY DEF Commands
  <2>4. d \in ConType /\ d.held = 0 /\ d.stack = <<>> /\ d.verbose = con.verbose /\ d.err_cnt = con.err_cnt /\ d.quit = con.quit
    BY <2>1, <2>2, <2>3, QuitFits
  <2>5. helped' = (cmd = "quit") /\ helped'
    BY <2>1, <2>3
  <2>6. Lined' = 0
    BY <2>1 DEF Lined
  <2>7. con'.held = Lined' + IF helped' THEN 0 ELSE Lists + Len(con'.stack)
    BY <2>3, <2>4, <2>5, <2>6
  <2>8. QED
    BY <1>1, <1>2, <2>1, <2>2, <2>3, <2>4, <2>5, <2>7, StartKeeps
<1>3. CASE ~(con.err_cnt = 0 /\ ~con.quit)
  <2>1. phase' = "exit" /\ status' = (IF con.err_cnt = 0 THEN 0 ELSE 1) /\ UNCHANGED <<con, run, helped>>
    BY <1>3 DEF finish_cmd
  <2>2. Types' /\ Grammar(run.cmd, run.todo)'
    BY <1>1, <2>1 DEF Inv, Types
  <2>3. Modes' /\ Difference' /\ Queue'
    BY <1>1, <2>1 DEF Inv, Modes, Difference, Queue, hd, Has, Behind, Waits
  <2>4. Owned'
    BY <1>1, <2>1 DEF Inv, Owned, Has, hd, Freed, Freer, Gone, AtLeast, Extra, Chain
  <2>5. con.err_cnt \in Nat
    BY ConFields DEF Inv, Types
  <2>6. ~run.cut
    BY <1>1, PromptIs DEF Idle
  <2>7. Cuts'
    BY <1>1, <2>1, <2>5, <2>6 DEF Inv, Cuts
  <2>8. Ends'
    BY <1>1, <1>3, <2>1, <2>5 DEF Inv, Ends, Lined
  <2>9. QED
    BY <2>2, <2>3, <2>4, <2>7, <2>8 DEF Inv
<1>4. QED
  BY <1>2, <1>3

-----------------------------------------------------------------------------
(* The command returned.                                                     *)

(* What the invariant says when a command returns. *)
LEMMA ReturnIs ==
  ASSUME Inv, interpreted
  PROVE  /\ run.cmd \in Commands /\ run.todo = <<>> /\ hd = "none" /\ On(run.todo) = {} /\ phase \in {"run", "finish"}
         /\ ~con.quit /\ (helped <=> run.cmd = "quit") /\ run' = Idle /\ run'.cmd = "none" /\ run'.todo = <<>> /\ ~run'.cut
         /\ run.cut /\ run.ok => run.cmd \notin Sure
         /\ run.cmd = "quit" /\ run.ok => har.count = 0
         /\ "quit" \notin lost
<1>1. run.cmd # "none" /\ run.todo = <<>> /\ run' = Idle
  BY DEF interpreted
<1>2. run.cmd \in Commands
  BY <1>1, RunFields
<1>3. hd = "none" /\ On(run.todo) = {}
  BY <1>1, NothingLeft DEF hd
<1>4. phase \in {"run", "finish"} /\ ~con.quit /\ (helped <=> run.cmd = "quit")
  BY <1>1 DEF Inv, Ends, Types
<1>5. run'.cmd = "none" /\ run'.todo = <<>> /\ ~run'.cut
  BY <1>1 DEF Idle
<1>6. run.cut /\ run.ok => run.cmd \notin Sure
  BY <1>3 DEF Inv, Cuts, Caught, Has
<1>7. (run.cmd = "quit" /\ run.ok => har.count = 0) /\ "quit" \notin lost
  BY <1>1 DEF Inv, Ends, Cuts
<1>8. QED
  BY <1>1, <1>2, <1>3, <1>4, <1>5, <1>6, <1>7

(* What the end of interpret_cmd makes of the console. *)
LEMMA ReturnFits ==
  ASSUME Inv, interpreted, phase = "run"
  PROVE  /\ con' \in ConType /\ con'.verbose = con.verbose /\ con'.stack = con.stack
         /\ con.err_cnt > 0 => con'.err_cnt > 0
         /\ ~run.ok => con'.err_cnt > 0
         /\ con'.quit => con'.err_cnt > 0 \/ run.cmd = "quit"
         /\ run.cmd = "quit" => con'.quit
         /\ con'.held = IF helped THEN 0 ELSE Lists + Len(con'.stack)
         /\ UNCHANGED <<phase, status>>
<1>1. con' = [Interpreted(con, run.ok) EXCEPT !.quit = @ \/ run.cmd = "quit"] /\ UNCHANGED <<phase, status>>
  BY DEF interpreted
<1>2. PICK k : k = IF helped THEN -1 - 1 ELSE 0
  OBVIOUS
<1>3. k \in Int /\ k + Lists >= 0 /\ k + 1 + Lists >= 0
  BY <1>2 DEF Lists
<1>4. con \in ConType /\ Len(con.stack) \in Nat /\ (helped => Len(con.stack) = 0)
  <2>1. con \in ConType /\ Len(con.stack) \in Nat
    BY ConFields DEF Inv, Types
  <2>2. helped => Len(con.stack) = 0
    BY EmptySeq DEF Inv, Ends
  <2>3. QED
    BY <2>1, <2>2
<1>5. con.held = k + 1 + Lists + Len(con.stack)
  <2>1. Lined = 1
    BY ReturnIs DEF Lined, Commands
  <2>2. con.held = 1 + IF helped THEN 0 ELSE Lists + Len(con.stack)
    BY <2>1 DEF Inv, Ends
  <2>3. CASE helped
    BY <1>2, <1>4, <2>2, <2>3 DEF Lists
  <2>4. CASE ~helped
    BY <1>2, <1>4, <2>2, <2>4 DEF Lists
  <2>5. QED
    BY <2>3, <2>4
<1>6. Fits(con, k + 1)
  BY <1>3, <1>4, <1>5, ReturnIs DEF Fits
<1>7. PICK d : d = Interpreted(con, run.ok)
  OBVIOUS
<1>8. Fits(d, k) /\ d.stack = con.stack /\ (~run.ok => d.err_cnt > 0)
  BY <1>3, <1>6, <1>7, InterpretedFits
<1>9. PICK b : b = (d.quit \/ run.cmd = "quit") /\ con' = [d EXCEPT !.quit = b]
  BY <1>1, <1>7
<1>10. b \in BOOLEAN /\ d \in ConType
  BY <1>8, <1>9 DEF Fits
<1>11. /\ con' \in ConType /\ con'.held = d.held /\ con'.stack = d.stack /\ con'.verbose = d.verbose /\ con'.err_cnt = d.err_cnt
       /\ con'.quit = b
  BY <1>9, <1>10 DEF ConType
<1>12. con'.held = IF helped THEN 0 ELSE Lists + Len(con'.stack)
  <2>1. d.held = k + Lists + Len(con.stack)
    BY <1>8 DEF Fits
  <2>2. con'.held = k + Lists + Len(con.stack) /\ con'.stack = con.stack
    BY <1>8, <1>11, <2>1
  <2>3. CASE helped
    <3>1. k = -2 /\ Len(con.stack) = 0
      BY <1>2, <1>4, <2>3
    <3>2. QED
      BY <2>2, <2>3, <3>1 DEF Lists
  <2>4. CASE ~helped
    <3>1. k = 0
      BY <1>2, <2>4
    <3>2. con'.held = Lists + Len(con'.stack)
      BY <1>4, <2>2, <3>1 DEF Lists
    <3>3. QED
      BY <2>4, <3>2
  <2>5. QED
    BY <2>3, <2>4
<1>13. d.verbose = con.verbose /\ (con.err_cnt > 0 => d.err_cnt > 0) /\ (d.quit => d.err_cnt > 0)
  BY <1>8 DEF Fits
<1>14. QED
  BY <1>1, <1>8, <1>9, <1>11, <1>12, <1>13

(* The command returns to the prompt, or to the end. *)
LEMMA ReturnKeeps == ASSUME Inv, interpreted PROVE Inv'
<1>1. /\ UNCHANGED <<har, que, helped, cuts>>
      /\ lost' = IF run.cut /\ run.ok THEN lost \cup {run.cmd} ELSE lost
  BY DEF interpreted
<1>2. hd' = "none" /\ (\A a : ~Has(a)') /\ run'.cmd = "none" /\ run'.todo = <<>> /\ ~run'.cut /\ run' = Idle
  BY ReturnIs, NothingLeft DEF hd, Has
<1>3. hd = "none" /\ (\A a : ~Has(a)) /\ run.cmd \in Commands /\ run.cmd # "none"
  BY ReturnIs DEF Has, Commands
<1>4. /\ con' \in ConType /\ con'.verbose = con.verbose /\ con'.stack = con.stack
      /\ con.err_cnt > 0 => con'.err_cnt > 0
  <2>1. CASE phase = "run"
    BY <2>1, ReturnFits
  <2>2. CASE phase # "run"
    BY <2>2, ReturnIs DEF interpreted, Inv, Types
  <2>3. QED
    BY <2>1, <2>2
<1>5. phase = "finish" => phase' = "exit" /\ status' = (IF run.ok THEN 0 ELSE 1) /\ con' = con
  BY DEF interpreted
<1>6. phase = "run" => UNCHANGED <<phase, status>>
  BY ReturnFits
<1>7. Types' /\ Grammar(run'.cmd, run'.todo)
  <2>1. run' \in RunType
    <3>1. Idle \in RunType
      <4>1. PICK t, n, m : t = <<>> /\ n = 0 /\ m = "none"
        OBVIOUS
      <4>2. t \in Seq(AllSteps) /\ n \in Nat /\ n \in Int /\ m \in Commands \cup {"none"}
        BY <4>1, EmptySeq
      <4>3. Idle = [cmd |-> m, ok |-> TRUE, rval |-> FALSE, reps |-> n, cnt |-> n, todo |-> t, cut |-> FALSE]
        BY <4>1, Zenon DEF Idle
      <4>4. TRUE \in BOOLEAN /\ FALSE \in BOOLEAN
        OBVIOUS
      <4>5. [cmd |-> m, ok |-> TRUE, rval |-> FALSE, reps |-> n, cnt |-> n, todo |-> t, cut |-> FALSE] \in RunType
        BY <4>2, <4>4, Zenon DEF RunType
      <4>6. QED
        BY <4>3, <4>5, Zenon
    <3>2. QED
      BY <1>2, <3>1
  <2>2. lost' \subseteq Commands
    BY <1>1, <1>3 DEF Inv, Types
  <2>3. phase' \in {"run", "finish", "exit", "spin"} /\ status' \in {0, 1}
    BY <1>5, <1>6, ReturnIs DEF Inv, Types
  <2>4. Grammar(run'.cmd, run'.todo)
    BY <1>2, NothingLeft
  <2>5. QED
    BY <1>1, <1>4, <2>1, <2>2, <2>3, <2>4 DEF Inv, Types
<1>8. Modes'
  BY <1>1, <1>2, <1>3 DEF Inv, Modes, Inner
<1>9. Difference'
  BY <1>1, <1>2, <1>3 DEF Inv, Difference, Behind
<1>10. Owned'
  <2>1. Extra = 0 /\ Extra' = 0 /\ Chain' = Chain /\ Chain \in Nat
    BY <1>1, <1>2, <1>3, RunFields DEF Extra, Chain
  <2>2. Extra + Chain = Chain /\ (Extra + Chain)' = Chain
    BY <2>1
  <2>3. (Freed <=> helped) /\ ~Freed' /\ (Gone' <=> helped) /\ ~Gone /\ hd \notin Freer /\ hd' \notin Freer
    BY <1>1, <1>2, <1>3, ReturnIs DEF Freed, Gone, Freer
  <2>4. ~helped => AtLeast(Extra + Chain)'
    BY <1>1, <2>2, <2>3 DEF Inv, Owned, AtLeast
  <2>5. helped => AtLeast(0)'
    BY <1>1, <2>3 DEF Inv, Owned, AtLeast
  <2>6. QED
    BY <1>1, <1>2, <2>3, <2>4, <2>5 DEF Owned, Freer
<1>11. Queue'
  BY <1>1, <1>2 DEF Inv, Queue
<1>12. Cuts'
  <2>1. lost' \subseteq {"ih", "show", "quit"} \cup (IF con'.verbose THEN Showy ELSE {})
    <3>1. run.cut /\ run.ok => run.cmd \in {"ih", "show", "quit"} \cup (IF con.verbose THEN Showy ELSE {})
      BY <1>3, ReturnIs DEF Sure, Showy, Commands
    <3>2. QED
      BY <1>1, <1>4, <3>1 DEF Inv, Cuts
  <2>2. cuts > 0 => con'.err_cnt > 0 \/ lost' # {} \/ (phase' = "exit" /\ status' = 1)
    <3>1. cuts > 0 => run.cut \/ con.err_cnt > 0 \/ lost # {}
      BY ReturnIs DEF Inv, Cuts
    <3>2. run.cut /\ run.ok => lost' # {}
      BY <1>1
    <3>3. ~run.ok => con'.err_cnt > 0 \/ (phase' = "exit" /\ status' = 1)
      BY <1>5, ReturnIs, ReturnFits
    <3>4. lost # {} => lost' # {}
      BY <1>1
    <3>5. QED
      BY <1>4, <3>1, <3>2, <3>3, <3>4
  <2>3. "quit" \in lost' => har'.count = 0 /\ helped' /\ run'.cmd = "none"
    BY <1>1, <1>2, ReturnIs
  <2>4. QED
    BY <1>1, <1>2, <2>1, <2>2, <2>3 DEF Cuts
<1>13. Ends'
  <2>1. CASE phase = "run"
    <3>1. Lined' = 0 /\ phase' = "run" /\ status' = status
      BY <1>2, <1>6, <2>1 DEF Lined
    <3>2. con'.held = Lined' + IF helped' THEN 0 ELSE Lists + Len(con'.stack)
      <4>1. Len(con'.stack) \in Nat
        BY <1>4, ConFields DEF Inv, Types
      <4>2. con'.held = IF helped' THEN 0 ELSE Lists + Len(con'.stack)
        BY <1>1, <2>1, ReturnFits
      <4>3. QED
        BY <3>1, <4>1, <4>2 DEF Lists
    <3>3. /\ helped' => con'.stack = <<>> /\ con'.quit
          /\ con'.quit => helped' \/ con'.err_cnt > 0
      BY <1>1, <1>4, <2>1, ReturnIs, ReturnFits DEF Inv, Ends
    <3>4. helped' /\ con'.err_cnt = 0 => har'.count = 0
      BY <1>1, <2>1, ReturnIs, ReturnFits
    <3>5. QED
      BY <1>2, <3>1, <3>2, <3>3, <3>4 DEF Ends
  <2>2. CASE phase = "finish"
    <3>1. phase' = "exit" /\ status' = (IF run.ok THEN 0 ELSE 1) /\ con' = con /\ helped' = helped /\ har' = har
      BY <1>1, <1>5, <2>2
    <3>2. run.cmd = "quit" /\ helped /\ con.err_cnt = 0 /\ con.held = Lined + 0 /\ con.stack = <<>> /\ ~con.quit /\ Lined = 0
      BY <2>2, ReturnIs DEF Inv, Ends, Lined
    <3>3. Lined' = 0
      BY <1>2 DEF Lined
    <3>4. status' = 0 => run.ok
      BY <3>1
    <3>5. status' = 0 => har.count = 0
      BY <3>2, <3>4, ReturnIs
    <3>6. QED
      BY <1>2, <3>1, <3>2, <3>3, <3>5 DEF Ends
  <2>3. QED
    BY <2>1, <2>2, ReturnIs
<1>14. QED
  BY <1>7, <1>8, <1>9, <1>10, <1>11, <1>12, <1>13 DEF Inv

-----------------------------------------------------------------------------
(* SIGALRM.                                                                  *)

Landings == {"disarm", "inserted", "counted", "walk"}

(* Before the first step that is not of the operation comes only "disarm". *)
LEMMA FirstDisarm ==
  ASSUME NEW cmd, NEW t, Grammar(cmd, t), t # <<>>, t[1] \in Inner \cup {"disarm"}
  PROVE  \E d \in 1..Len(t) : t[d] = "disarm" /\ \A i \in 1..d - 1 : t[i] \in Inner
<1>1. t \in Seq(Steps(cmd)) /\ Len(t) \in Nat \ {0}
  BY EmptySeq, LenProperties DEF Grammar
<1>2. PICK D : D = {n \in 1..Len(t) : t[n] \notin Inner}
  OBVIOUS
<1>3. Len(t) \in D
  <2>1. Final(cmd, t[Len(t)])
    BY DEF Grammar
  <2>2. t[Len(t)] \notin Inner
    BY <2>1 DEF Final, Inner
  <2>3. QED
    BY <1>1, <1>2, <2>2
<1>4. PICK d \in D : \A n \in D : d <= n
  <2>1. D \subseteq Nat
    BY <1>1, <1>2
  <2>2. QED
    BY <1>3, <2>1, LeastNat
<1>5. d \in 1..Len(t) /\ t[d] \notin Inner /\ \A i \in 1..d - 1 : t[i] \in Inner
  <2>1. d \in 1..Len(t) /\ t[d] \notin Inner
    BY <1>2
  <2>2. ASSUME NEW i \in 1..d - 1 PROVE t[i] \in Inner
    <3>1. i \in 1..Len(t) /\ ~(d <= i)
      BY <1>1, <2>1
    <3>2. QED
      BY <1>2, <1>4, <3>1
  <2>3. QED
    BY <2>1, <2>2
<1>6. t[d] = "disarm"
  <2>1. CASE d = 1
    BY <1>5, <2>1
  <2>2. CASE d # 1
    <3>1. d - 1 \in 1..Len(t) - 1 /\ d - 1 \in 1..d - 1 /\ d - 1 + 1 = d
      BY <1>1, <1>5, <2>2
    <3>2. Pair(cmd, t[d - 1], t[d - 1 + 1]) /\ t[d - 1] \in Inner
      BY <1>5, <3>1 DEF Grammar
    <3>3. QED
      BY <1>5, <3>1, <3>2 DEF Pair
  <2>3. QED
    BY <2>1, <2>2
<1>7. QED
  BY <1>5, <1>6

(* From skips steps of the operation only. *)
LEMMA FromIs ==
  ASSUME Inv, run.todo # <<>>, hd \in Inner \cup {"disarm"}, NEW stops, "disarm" \in stops, stops \subseteq Landings
  PROVE  \E n \in 1..Len(run.todo) : /\ From(stops) = Suffix(run.todo, n) /\ run.todo[n] \in Landings
                                     /\ \A i \in 1..n - 1 : run.todo[i] \in Inner
<1>1. PICK t : t = run.todo
  OBVIOUS
<1>2. Grammar(run.cmd, t) /\ t # <<>> /\ t[1] \in Inner \cup {"disarm"}
  BY <1>1 DEF Inv, hd, First
<1>3. PICK d \in 1..Len(t) : t[d] = "disarm" /\ \A i \in 1..d - 1 : t[i] \in Inner
  BY <1>2, FirstDisarm
<1>4. PICK here : here = {n \in 1..Len(t) : t[n] \in stops}
  OBVIOUS
<1>5. d \in here /\ here \subseteq Nat /\ Len(t) \in Nat
  <2>1. Len(t) \in Nat
    BY <1>2, LenProperties DEF Grammar
  <2>2. QED
    BY <1>3, <1>4, <2>1
<1>6. \E n \in here : \A m \in here : n <= m
  BY <1>5, LeastNat
<1>7. PICK n : n = CHOOSE k \in here : \A m \in here : k <= m
  OBVIOUS
<1>8. n \in here /\ n <= d
  BY <1>5, <1>6, <1>7
<1>9. From(stops) = Suffix(t, n)
  BY <1>1, <1>4, <1>7 DEF From, Suffix
<1>10. n \in 1..Len(t) /\ t[n] \in Landings
  BY <1>4, <1>8
<1>11. \A i \in 1..n - 1 : t[i] \in Inner
  <2> TAKE i \in 1..n - 1
  <2>1. i \in 1..d - 1
    BY <1>3, <1>5, <1>8, <1>10
  <2>2. QED
    BY <1>3, <2>1
<1>12. QED
  BY <1>1, <1>9, <1>10, <1>11

(* A jump drops steps of the operation it cut, and no others. *)
LEMMA JumpsAre ==
  ASSUME Inv, run.todo # <<>>, hd \in Inner \cup {"disarm"}, NEW w \in Jumps
  PROVE  \E n \in 1..Len(run.todo) : /\ w = Suffix(run.todo, n) /\ run.todo[n] \in Landings
                                     /\ \A i \in 1..n - 1 : run.todo[i] \in Inner
<1>1. w = From({"disarm"}) \/ w = From({"inserted", "counted", "disarm"}) \/ (At("walk") /\ w = run.todo)
  BY DEF Jumps
<1>2. CASE w = From({"disarm"})
  <2>1. "disarm" \in {"disarm"} /\ {"disarm"} \subseteq Landings
    BY DEF Landings
  <2>2. QED
    BY <1>2, <2>1, FromIs
<1>3. CASE w = From({"inserted", "counted", "disarm"})
  <2>1. "disarm" \in {"inserted", "counted", "disarm"} /\ {"inserted", "counted", "disarm"} \subseteq Landings
    BY DEF Landings
  <2>2. QED
    BY <1>3, <2>1, FromIs
<1>4. CASE At("walk") /\ w = run.todo
  <2>1. PICK t : t = run.todo
    OBVIOUS
  <2>2. t \in Seq(Steps(run.cmd)) /\ t[1] = "walk" /\ Grammar(run.cmd, t) /\ t # <<>>
    BY <1>4, <2>1, AtIs DEF Grammar
  <2>3. Len(t) \in Nat /\ 1 \in 1..Len(t)
    BY <2>2, LenProperties, EmptySeq
  <2>4. /\ Grammar(run.cmd, Suffix(t, 1)) /\ Len(Suffix(t, 1)) = Len(t) - 1 + 1
        /\ \A i \in 1..Len(t) - 1 + 1 : Suffix(t, 1)[i] = t[1 + i - 1]
    BY <2>2, <2>3, SuffixIs
  <2>5. Len(Suffix(t, 1)) = Len(t) /\ \A i \in 1..Len(t) : Suffix(t, 1)[i] = t[i]
    BY <2>3, <2>4
  <2>6. Suffix(t, 1) \in Seq(Steps(run.cmd))
    BY <2>4 DEF Grammar
  <2>7. Suffix(t, 1) = t
    BY <2>2, <2>5, <2>6, SeqEqual
  <2>8. QED
    BY <1>4, <2>1, <2>2, <2>3, <2>7 DEF Landings
<1>5. QED
  BY <1>1, <1>2, <1>3, <1>4

Skips(t, n) == \A i \in 1..n - 1 : t[i] \in Inner

(* What is left after the jump. *)
LEMMA LandsOn ==
  ASSUME NEW cmd, NEW t, Grammar(cmd, t), NEW n \in 1..Len(t), t[n] \in Landings, Skips(t, n)
  PROVE  /\ Grammar(cmd, Suffix(t, n)) /\ Suffix(t, n) # <<>> /\ First(Suffix(t, n)) \in Landings
         /\ On(Suffix(t, n)) \subseteq On(t)
         /\ \A b \in On(t) : b \notin Inner => b \in On(Suffix(t, n))
         /\ Waits(t) => Waits(Suffix(t, n))
<1>0. /\ Grammar(cmd, Suffix(t, n)) /\ Suffix(t, n) # <<>> /\ First(Suffix(t, n)) = t[n]
      /\ Len(Suffix(t, n)) = Len(t) - n + 1
      /\ \A i \in 1..Len(t) - n + 1 : Suffix(t, n)[i] = t[n + i - 1]
  BY SuffixIs
<1> DEFINE r == Suffix(t, n)
<1>1. /\ Grammar(cmd, r) /\ r # <<>> /\ First(r) = t[n]
      /\ Len(r) = Len(t) - n + 1
      /\ \A i \in 1..Len(t) - n + 1 : r[i] = t[n + i - 1]
  BY <1>0
<1> HIDE DEF r
<1>2. Len(t) \in Nat
  BY LenProperties DEF Grammar
<1>3. ASSUME NEW i \in 1..Len(r) PROVE n + i - 1 \in 1..Len(t) /\ r[i] = t[n + i - 1]
  BY <1>1, <1>2
<1>4. ASSUME NEW i \in n..Len(t) PROVE i - n + 1 \in 1..Len(r) /\ r[i - n + 1] = t[i]
  BY <1>1, <1>2
<1>5. On(r) \subseteq On(t)
  BY <1>3 DEF On
<1>6. ASSUME NEW b \in On(t), b \notin Inner PROVE b \in On(r)
  <2>1. PICK i \in 1..Len(t) : b = t[i]
    BY DEF On
  <2>2. i \in n..Len(t)
    <3>1. ~(i \in 1..n - 1)
      BY <1>6, <2>1 DEF Skips
    <3>2. QED
      BY <1>2, <2>1, <3>1
  <2>3. QED
    BY <1>4, <2>1, <2>2 DEF On
<1>7. ASSUME Waits(t) PROVE Waits(r)
  <2>1. ASSUME NEW i \in 1..Len(r), r[i] \in {"show", "walk"} PROVE \E j \in 1..i : r[j] = "dropped"
    <3>1. n + i - 1 \in 1..Len(t) /\ t[n + i - 1] \in {"show", "walk"}
      BY <1>3, <2>1
    <3>2. PICK j \in 1..n + i - 1 : t[j] = "dropped"
      BY <1>7, <3>1 DEF Waits
    <3>3. ~(j \in 1..n - 1)
      BY <3>2 DEF Inner, Skips
    <3>4. j \in n..Len(t) /\ j - n + 1 \in 1..i
      BY <1>2, <3>1, <3>2, <3>3
    <3>5. QED
      BY <1>4, <3>2, <3>4
  <2>2. QED
    BY <2>1 DEF Waits
<1>8. QED
  BY <1>1, <1>5, <1>6, <1>7 DEF r

(* report_event on what concerns the invariant. *)
LEMMA EventIs ==
  ASSUME NEW c \in ConType, NEW d, d = report_event(c)
  PROVE  /\ d \in ConType /\ d.held = c.held /\ d.stack = c.stack /\ d.verbose = c.verbose /\ d.quit = c.quit
         /\ d.err_cnt = c.err_cnt
<1>1. PICK v, u, x : v = "closed" /\ u = "stale" /\ x = c.fds \ {c.logfd}
  OBVIOUS
<1>2. v \in {"none", "open", "closed", "stale"} /\ u \in {"none", "open", "closed", "stale"} /\ x \in SUBSET Descriptors
  BY <1>1, ConFields
<1>3. PICK e, f, g : e = [c EXCEPT !.log = v] /\ f = [e EXCEPT !.fds = x] /\ g = [c EXCEPT !.log = u]
  OBVIOUS
<1>4. /\ e \in ConType /\ e.held = c.held /\ e.stack = c.stack /\ e.verbose = c.verbose /\ e.quit = c.quit
      /\ e.err_cnt = c.err_cnt
  BY <1>2, <1>3 DEF ConType
<1>5. /\ f \in ConType /\ f.held = c.held /\ f.stack = c.stack /\ f.verbose = c.verbose /\ f.quit = c.quit
      /\ f.err_cnt = c.err_cnt
  BY <1>2, <1>3, <1>4 DEF ConType
<1>6. /\ g \in ConType /\ g.held = c.held /\ g.stack = c.stack /\ g.verbose = c.verbose /\ g.quit = c.quit
      /\ g.err_cnt = c.err_cnt
  BY <1>2, <1>3 DEF ConType
<1>7. d = f \/ d = g \/ d = c
  BY <1>1, <1>3 DEF report_event, report
<1>8. QED
  BY <1>4, <1>5, <1>6, <1>7

(* The command goes on where the jump lands. *)
LEMMA AlarmIs ==
  ASSUME Inv, sigalrmhandler
  PROVE  /\ run.todo # <<>> /\ run.cmd \in Commands /\ run.cmd # "none"
         /\ har' = trigger_exception(har) /\ con' = report_event(con) /\ UNCHANGED <<phase, status, helped, lost>>
         /\ que' = [que EXCEPT !.broken = TRUE] /\ cuts' = cuts + 1
         /\ \E n \in 1..Len(run.todo) :
              /\ run.todo[n] \in Landings /\ Skips(run.todo, n)
              /\ run' = [run EXCEPT !.todo = Suffix(run.todo, n), !.cut = TRUE]
<1>1. har.alarm /\ run.todo # <<>>
  BY DEF sigalrmhandler
<1>2. har.jmp_ready /\ hd \in Inner \cup {"disarm"}
  BY <1>1 DEF Inv, Modes
<1>3. PICK w \in Jumps : run' = [run EXCEPT !.todo = w, !.cut = TRUE]
  BY <1>2 DEF sigalrmhandler
<1>4. PICK n \in 1..Len(run.todo) : /\ w = Suffix(run.todo, n) /\ run.todo[n] \in Landings
                                    /\ \A i \in 1..n - 1 : run.todo[i] \in Inner
  BY <1>1, <1>2, <1>3, JumpsAre
<1>5. run.cmd \in Commands /\ run.cmd # "none"
  <2>1. run.cmd # "none"
    BY <1>1 DEF Inv, Ends, Idle
  <2>2. QED
    BY <2>1, RunFields
<1>6. Skips(run.todo, n) /\ run' = [run EXCEPT !.todo = Suffix(run.todo, n), !.cut = TRUE]
  BY <1>3, <1>4 DEF Skips
<1>7. /\ har' = trigger_exception(har) /\ con' = report_event(con) /\ UNCHANGED <<phase, status, helped, lost>>
      /\ que' = [que EXCEPT !.broken = TRUE] /\ cuts' = cuts + 1
  BY <1>2 DEF sigalrmhandler
<1>8. QED
  BY <1>1, <1>4, <1>5, <1>6, <1>7

(* SIGALRM at any step under the alarm. *)
LEMMA AlarmKeeps == ASSUME Inv, sigalrmhandler PROVE Inv'
<1>1. /\ run.todo # <<>> /\ run.cmd \in Commands /\ run.cmd # "none"
      /\ har' = trigger_exception(har) /\ con' = report_event(con) /\ UNCHANGED <<phase, status, helped, lost>>
      /\ que' = [que EXCEPT !.broken = TRUE] /\ cuts' = cuts + 1
  BY AlarmIs
<1>2. PICK n \in 1..Len(run.todo) : /\ run.todo[n] \in Landings /\ Skips(run.todo, n)
                                    /\ run' = [run EXCEPT !.todo = Suffix(run.todo, n), !.cut = TRUE]
  BY AlarmIs
<1>3. PICK t, w : t = run.todo /\ w = Suffix(t, n)
  OBVIOUS
<1>4. /\ Grammar(run.cmd, w) /\ w # <<>> /\ First(w) \in Landings /\ On(w) \subseteq On(t)
      /\ \A b \in On(t) : b \notin Inner => b \in On(w)
      /\ Waits(t) => Waits(w)
  <2>1. Grammar(run.cmd, t) /\ n \in 1..Len(t) /\ t[n] \in Landings /\ Skips(t, n)
    BY <1>2, <1>3 DEF Inv
  <2>2. QED
    BY <1>3, <2>1, LandsOn
<1>5. w \in Seq(AllSteps)
  <2>1. w \in Seq(Steps(run.cmd)) /\ Steps(run.cmd) \subseteq AllSteps
    BY <1>1, <1>4, StepsAre DEF Grammar
  <2>2. QED
    BY <2>1, SeqMonotonic, ElementOfSeq
<1>6. run' \in RunType /\ run'.cmd = run.cmd /\ run'.cut /\ run'.todo = w /\ run'.ok = run.ok
  <2>1. PICK v, d : v \in BOOLEAN /\ v /\ d = [run EXCEPT !.todo = w] /\ run' = [d EXCEPT !.cut = v]
    <3>1. TRUE \in BOOLEAN /\ run' = [[run EXCEPT !.todo = w] EXCEPT !.cut = TRUE]
      BY <1>2, <1>3
    <3>2. QED
      BY <3>1, Zenon
  <2>2. d \in RunType /\ d.cmd = run.cmd /\ d.todo = w /\ d.ok = run.ok
    BY <1>5, <2>1, RunFields DEF RunType
  <2>3. QED
    BY <2>1, <2>2 DEF RunType
<1>7. /\ con' \in ConType /\ con'.held = con.held /\ con'.stack = con.stack /\ con'.verbose = con.verbose /\ con'.quit = con.quit
      /\ con'.err_cnt = con.err_cnt
  BY <1>1, RunFields, EventIs
<1>8. /\ har' \in HarType /\ har'.list = har.list /\ har'.count = har.count /\ har'.error_occurred
      /\ ~har'.alarm /\ ~har'.jmp_ready /\ har'.noallocate = har.noallocate /\ har'.cautious = har.cautious
  BY <1>1, RunFields DEF HarType, trigger_exception
<1>9. que' \in QueType /\ que'.q = que.q /\ que'.chain = que.chain
  BY <1>1, RunFields DEF QueType
<1>10. /\ \A b : Has(b)' <=> b \in On(w)
       /\ \A b : Has(b) <=> b \in On(t)
       /\ hd' \in Landings
  BY <1>3, <1>4, <1>6 DEF Has, hd
<1>11. /\ \A b : Has(b)' => Has(b)
       /\ \A b : Has(b) /\ b \notin Inner => Has(b)'
  BY <1>4, <1>10
<1>12. cuts \in Nat /\ cuts' \in Nat /\ cuts' > 0
  <2>1. cuts \in Nat
    BY DEF Inv, Types
  <2>2. QED
    BY <1>1, <2>1
<1>13. Types' /\ Grammar(run'.cmd, run'.todo)
  BY <1>1, <1>4, <1>6, <1>7, <1>8, <1>9, <1>12 DEF Inv, Types
<1>14. Modes'
  BY <1>8, <1>10, <1>11 DEF Inv, Modes, Landings, Inner
<1>15. Difference'
  <2>1. Behind' = 0 /\ Behind \in {0, 1, -1}
    BY <1>10 DEF Behind, Landings
  <2>2. har.count \in Int /\ har.list \in Nat /\ har.count - har.list + Behind \in -cuts..cuts
    BY RunFields DEF Inv, Difference, HarType
  <2>3. har.count - har.list + 0 \in -(cuts + 1)..cuts + 1
    BY <1>12, <2>1, <2>2, SMTT(40)
  <2>4. QED
    BY <1>1, <1>8, <2>1, <2>3 DEF Difference
<1>16. Owned'
  <2>1. Extra' = 0 /\ hd' \notin Freer
    BY <1>10 DEF Extra, Landings, Freer
  <2>2. ~Gone /\ ~Gone' /\ (Freed => Freed')
    BY <1>1, <1>6, <1>11 DEF Gone, Freed, Inner
  <2>3. Chain' = IF que.q THEN que.chain + 1 ELSE 0
    BY <1>9, <1>10 DEF Chain, Landings
  <2>4. Chain \in Nat /\ Chain' \in Nat /\ Chain >= Chain' /\ Extra \in Nat
    <3>1. CASE hd = "turned"
      <4>1. run.cnt > 1 /\ que.chain = 1 /\ que.q /\ run.cnt \in Int
        BY <3>1, RunFields DEF Inv, Queue
      <4>2. Chain = run.cnt + 1 /\ Chain' = que.chain + 1
        BY <2>3, <3>1, <4>1 DEF Chain
      <4>3. Extra \in Nat
        BY DEF Extra
      <4>4. QED
        BY <4>1, <4>2, <4>3
    <3>2. CASE hd # "turned"
      <4>1. Chain = Chain' /\ Chain' \in Nat
        BY <2>3, <3>2, RunFields DEF Chain
      <4>2. Extra \in Nat
        BY DEF Extra
      <4>3. QED
        BY <4>1, <4>2
    <3>3. QED
      BY <3>1, <3>2
  <2>5. ~Freed' => har.list >= Extra + Chain
    BY <2>2 DEF Inv, Owned, AtLeast
  <2>6. har.list \in Nat
    BY RunFields DEF HarType
  <2>7. ~Freed' => AtLeast(Extra + Chain)'
    <3>1. PICK k : k = Chain'
      OBVIOUS
    <3>2. (Extra + Chain)' = k /\ k \in Nat /\ Chain >= k
      <4>1. Extra' = 0 /\ Chain' = k /\ k \in Nat
        BY <2>1, <2>4, <3>1
      <4>2. Chain >= k
        BY <2>4, <3>1
      <4>3. (Extra + Chain)' = k
        BY <4>1
      <4>4. QED
        BY <4>1, <4>2, <4>3
    <3>3. ~Freed' => har'.list >= k
      BY <1>8, <2>4, <2>5, <2>6, <3>2
    <3>4. QED
      BY <1>12, <3>2, <3>3 DEF AtLeast
  <2>8. AtLeast(0)'
    BY <1>8, <1>12, <2>6 DEF AtLeast
  <2>9. Has("q_free")' => run'.cmd = "quit" \/ Has("dropped")'
    BY <1>6, <1>11 DEF Inv, Owned, Inner
  <2>10. QED
    BY <2>1, <2>2, <2>7, <2>8, <2>9 DEF Owned, Freer
<1>17. Queue'
  <2>1. Queue
    BY DEF Inv
  <2>2. Has("dropped") => Has("dropped")'
    BY <1>11 DEF Inner
  <2>3. hd' # "detach" /\ hd' # "turned"
    BY <1>10 DEF Landings
  <2>4. run'.cmd \in {"new", "free"} => que'.chain = 0 \/ Waits(run'.todo)
    BY <1>3, <1>4, <1>6, <1>9, <2>1 DEF Queue
  <2>5. QED
    BY <1>6, <1>7, <1>9, <1>11, <2>1, <2>2, <2>3, <2>4 DEF Queue
<1>18. Cuts'
  <2>1. run'.cmd \in Sure' => Has("end")'
    <3>1. ASSUME run.cmd \in Sure' PROVE "end" \in On(w)
      <4>1. Final(run.cmd, w[Len(w)])
        BY <1>4 DEF Grammar
      <4>2. run.cmd \in {"new", "free", "rh", "rh_v", "reverse", "size"}
        BY <3>1 DEF Sure, Showy
      <4>3. w[Len(w)] = "end"
        BY <4>1, <4>2 DEF Final
      <4>4. Len(w) \in 1..Len(w)
        BY <1>4, <1>5, EmptySeq, LenProperties
      <4>5. QED
        BY <4>3, <4>4 DEF On
    <3>2. QED
      BY <1>6, <1>10, <3>1
  <2>2. run'.cmd \in Sure' => Caught'
    BY <1>8, <1>10, <2>1 DEF Caught, Landings
  <2>3. lost' = lost /\ "quit" \notin lost
    BY <1>1 DEF Inv, Cuts
  <2>4. lost' \subseteq {"ih", "show", "quit"} \cup (IF con'.verbose THEN Showy ELSE {})
    BY <1>1, <1>7 DEF Inv, Cuts
  <2>5. QED
    BY <1>6, <1>12, <2>2, <2>3, <2>4 DEF Cuts
<1>19. Ends'
  <2>1. Lined' = Lined
    BY <1>1, <1>6 DEF Lined
  <2>2. run'.todo # <<>>
    BY <1>4, <1>6
  <2>3. QED
    BY <1>1, <1>6, <1>7, <2>1, <2>2 DEF Inv, Ends
<1>20. QED
  BY <1>13, <1>14, <1>15, <1>16, <1>17, <1>18, <1>19 DEF Inv

-----------------------------------------------------------------------------
(* The beginning, and every step.                                            *)

(* The console when main enters its loop. *)
LEMMA InitConsole ==
  ASSUME Init
  PROVE  /\ con \in ConType /\ ~con.quit /\ con.err_cnt = 0 /\ con.held = Lists + Len(con.stack)
<1>1. PICK v \in BOOLEAN, n \in 0..Lines, fd \in {STDIN, 3} : con = push_file(init_cmd(v), fd, n)
  BY DEF Init
<1>2. PICK c : c = init_cmd(v)
  OBVIOUS
<1>3. PICK s, x, l, z, h, q, m : /\ s = <<>> /\ x = StdStreams /\ l = "none" /\ z = 0 /\ h = Lists /\ q \in BOOLEAN /\ ~q /\ m = ErrLimit
                                 /\ c = [stack |-> s, fds |-> x, log |-> l, logfd |-> z, held |-> h, quit |-> q,
                                         err_cnt |-> z, err_limit |-> m, fail |-> q, verbose |-> v]
  <2>1. FALSE \in BOOLEAN /\ ~FALSE
    OBVIOUS
  <2>2. QED
    BY <1>2, <2>1, Zenon DEF init_cmd
<1>4. s \in Seq(File) /\ x \in SUBSET Descriptors /\ l \in {"none", "open", "closed", "stale"} /\ z \in Nat /\ z \in Descriptors /\ h \in Nat /\ m \in Nat
  <2>1. x \in SUBSET Descriptors
    <3>1. \A i \in 0..2 : i \in 0..3
      OBVIOUS
    <3>2. QED
      BY <1>3, <3>1, QtestAssumption DEF StdStreams
  <2>2. m \in Nat
    BY <1>3, QtestAssumption
  <2>3. QED
    BY <1>3, <2>1, <2>2, DescriptorsAre, EmptySeq DEF Lists
<1>5. c \in ConType /\ c.held = h /\ c.stack = s /\ ~c.quit /\ c.err_cnt = z
  BY <1>3, <1>4 DEF ConType
<1>6. fd \in Descriptors /\ n \in Nat
  BY DescriptorsAre, QtestAssumption DEF STDIN
<1>7. /\ con \in ConType /\ con.held = c.held + 1 /\ Len(con.stack) = Len(c.stack) + 1
      /\ con.quit = c.quit /\ con.err_cnt = c.err_cnt
  BY <1>1, <1>2, <1>5, <1>6, PushIs
<1>8. Len(c.stack) = 0
  BY <1>3, <1>5
<1>9. con.held = Lists + Len(con.stack)
  BY <1>3, <1>5, <1>7, <1>8 DEF Lists
<1>10. QED
  BY <1>3, <1>5, <1>7, <1>9

(* No command runs. *)
LEMMA IdleIs == Idle \in RunType /\ Idle.cmd = "none" /\ Idle.todo = <<>> /\ ~Idle.cut
<1>1. PICK t, n, m : t = <<>> /\ n = 0 /\ m = "none"
  OBVIOUS
<1>2. t \in Seq(AllSteps) /\ n \in Nat /\ n \in Int /\ m \in Commands \cup {"none"}
  BY <1>1, EmptySeq
<1>3. Idle = [cmd |-> m, ok |-> TRUE, rval |-> FALSE, reps |-> n, cnt |-> n, todo |-> t, cut |-> FALSE]
  BY <1>1, Zenon DEF Idle
<1>4. TRUE \in BOOLEAN /\ FALSE \in BOOLEAN
  OBVIOUS
<1>5. [cmd |-> m, ok |-> TRUE, rval |-> FALSE, reps |-> n, cnt |-> n, todo |-> t, cut |-> FALSE] \in RunType
  BY <1>2, <1>4, Zenon DEF RunType
<1>6. Idle \in RunType
  BY <1>3, <1>5, Zenon
<1>7. QED
  BY <1>6 DEF Idle

(* The invariant holds at the start. *)
LEMMA InitHolds == Init => Inv
<1> SUFFICES ASSUME Init PROVE Inv
  OBVIOUS
<1>1. /\ har = HarnessInit /\ run = Idle /\ phase = "run" /\ status = 0 /\ ~helped /\ helped = FALSE /\ cuts = 0 /\ lost = {}
      /\ que = [q |-> FALSE, chain |-> 0, size |-> 0, qcnt |-> 0, fail_count |-> 0, broken |-> FALSE]
  BY DEF Init
<1>2. run \in RunType /\ run.cmd = "none" /\ run.todo = <<>> /\ ~run.cut
  BY <1>1, IdleIs
<1>3. hd = "none" /\ \A a : ~Has(a)
  BY <1>2, NothingLeft DEF hd, Has
<1>4. /\ har \in HarType /\ har.list = 0 /\ har.count = 0 /\ har.cautious /\ ~har.noallocate /\ ~har.jmp_ready /\ ~har.alarm
  <2>1. PICK b, e, z : b \in BOOLEAN /\ ~b /\ e \in BOOLEAN /\ e /\ z = 0
          /\ har = [list |-> z, count |-> z, called_malloc |-> b, error_occurred |-> b,
                    cautious |-> e, noallocate |-> b, jmp_ready |-> b, alarm |-> b]
    <3>1. FALSE \in BOOLEAN /\ ~FALSE /\ TRUE \in BOOLEAN
      OBVIOUS
    <3>2. QED
      BY <1>1, <3>1, Zenon DEF HarnessInit
  <2>2. QED
    BY <2>1 DEF HarType
<1>5. que \in QueType /\ ~que.q /\ que.chain = 0
  <2>1. PICK b, z : b \in BOOLEAN /\ ~b /\ z = 0
          /\ que = [q |-> b, chain |-> z, size |-> z, qcnt |-> z, fail_count |-> z, broken |-> b]
    <3>1. FALSE \in BOOLEAN /\ ~FALSE
      OBVIOUS
    <3>2. QED
      BY <1>1, <3>1, Zenon
  <2>2. QED
    BY <2>1 DEF QueType
<1>6. /\ con \in ConType /\ ~con.quit /\ con.err_cnt = 0 /\ con.held = Lists + Len(con.stack) /\ Len(con.stack) \in Nat
  BY InitConsole, ConFields
<1>7. Types /\ Grammar(run.cmd, run.todo)
  BY <1>1, <1>2, <1>4, <1>5, <1>6, NothingLeft DEF Types
<1>8. Modes
  BY <1>3, <1>4 DEF Modes, Inner
<1>9. Difference
  BY <1>1, <1>3, <1>4 DEF Difference, Behind
<1>10. Owned
  <2>1. ~Freed /\ ~Gone /\ Extra = 0 /\ Chain = 0
    BY <1>1, <1>2, <1>3, <1>5 DEF Freed, Gone, Extra, Chain
  <2>2. AtLeast(Extra + Chain)
    BY <1>4, <2>1 DEF AtLeast
  <2>3. QED
    BY <1>3, <2>1, <2>2 DEF Owned, Freer
<1>11. Queue
  BY <1>2, <1>3, <1>5 DEF Queue
<1>12. Cuts
  BY <1>1, <1>2 DEF Cuts
<1>13. Ends
  <2>1. Lined = 0
    BY <1>2 DEF Lined
  <2>2. con.held = Lined + IF helped THEN 0 ELSE Lists + Len(con.stack)
    BY <1>1, <1>6, <2>1 DEF Lists
  <2>3. QED
    BY <1>1, <1>2, <1>6, <2>2 DEF Ends
<1>14. QED
  BY <1>7, <1>8, <1>9, <1>10, <1>11, <1>12, <1>13 DEF Inv

(* And when nothing happens. *)
LEMMA StutterKeeps == ASSUME Inv, UNCHANGED vars PROVE Inv'
<1>1. con' = con /\ har' = har /\ que' = que /\ run' = run /\ phase' = phase /\ status' = status /\ helped' = helped
      /\ cuts' = cuts /\ lost' = lost
  BY DEF vars
<1>2. hd' = hd /\ \A a : Has(a)' <=> Has(a)
  BY <1>1 DEF hd, Has
<1>3. Types' /\ Grammar(run.cmd, run.todo)' /\ Modes' /\ Difference'
  BY <1>1, <1>2 DEF Inv, Types, Modes, Difference, Behind
<1>4. Owned'
  BY <1>1, <1>2 DEF Inv, Owned, Freed, Freer, Gone, AtLeast, Extra, Chain
<1>5. Queue'
  BY <1>1, <1>2 DEF Inv, Queue
<1>6. Cuts'
  BY <1>1, <1>2 DEF Inv, Cuts, Sure, Caught
<1>7. Ends'
  BY <1>1 DEF Inv, Ends, Lined
<1>8. QED
  BY <1>3, <1>4, <1>5, <1>6, <1>7 DEF Inv

(* The invariant holds in every session, whatever SIGALRM cuts: one lemma for
   each function of qtest.c, queue.c and console.c that may run next. *)
THEOREM InvHolds == Spec => []Inv
<1>1. Init => Inv
  BY InitHolds
<1>2. ASSUME Inv, [Next]_vars PROVE Inv'
  <2>1. CASE cmd_select
    BY <1>2, <2>1, SelectKeeps
  <2>2. CASE select_fails
    BY <1>2, <2>2, SelectFailsKeeps
  <2>3. CASE finish_cmd
    BY <1>2, <2>3, FinishKeeps
  <2>4. CASE Step
    BY <1>2, <2>4, StepKeeps
  <2>5. CASE interpreted
    BY <1>2, <2>5, ReturnKeeps
  <2>6. CASE sigalrmhandler
    BY <1>2, <2>6, AlarmKeeps
  <2>7. CASE UNCHANGED vars
    BY <1>2, <2>7, StutterKeeps
  <2>8. QED
    BY <1>2, <2>1, <2>2, <2>3, <2>4, <2>5, <2>6, <2>7 DEF Next
<1>3. QED
  BY <1>1, <1>2, PTL DEF Spec

-----------------------------------------------------------------------------
(* What the runs check.                                                       *)

(* The records of console.c, harness.c and qtest.c keep their types: the
   lengths of the harness's list and of the queue and the console's count of
   its memory never drop below zero, for a block is only freed while one is
   there, and the descriptors stay among those the process has. *)
THEOREM QtestTypeCorrect == Spec => []TypeOK
<1>1. Inv => TypeOK
  <2> SUFFICES ASSUME Inv PROVE TypeOK
    OBVIOUS
  <2>1. /\ con.fds \subseteq Descriptors /\ con.held \in Nat /\ con.err_cnt \in Nat
        /\ con.log \in {"none", "open", "closed", "stale"} /\ con.stack \in Seq(File)
    BY ConFields DEF Inv, Types
  <2>2. \A n \in 1..Len(con.stack) : con.stack[n] \in [fd : Descriptors, left : Nat, buf : Nat]
    BY <2>1, ElementOfSeq DEF File
  <2>3. har.list \in Nat /\ har.count \in Int /\ que.chain \in Nat /\ que.size \in Int /\ que.qcnt \in Int /\ run.cmd \in Commands \cup {"none"}
    BY RunFields DEF HarType
  <2>4. phase \in {"run", "finish", "exit", "spin"} /\ status \in {0, 1} /\ lost \subseteq Commands
    BY DEF Inv, Types
  <2>5. QED
    BY <2>1, <2>2, <2>3, <2>4 DEF TypeOK
<1>2. QED
  BY <1>1, InvHolds, PTL

(* The flags of harness.c are back at their defaults when a command has
   returned, whatever a time limit cut (exception_cancel and the calls of
   set_noallocate_mode and set_cautious_mode in qtest.c), and the alarm never
   rings without a place to jump to. *)
THEOREM ModesAreProtected == Spec => []Protected
<1>1. Inv => Protected
  <2> SUFFICES ASSUME Inv PROVE Protected
    OBVIOUS
  <2>1. run.cmd = "none" => hd = "none" /\ \A a : ~Has(a)
    BY NothingLeft DEF Inv, Ends, Idle, hd, Has
  <2>2. QED
    BY <2>1 DEF Inv, Modes, Protected, Inner
<1>2. QED
  BY <1>1, InvHolds, PTL

(* Between two commands allocated_count differs from the length of the list
   of harness.c by no more than the number of the time limits that struck; if
   none did, the list holds just the blocks of the queue. *)
THEOREM BlocksAreCounted == Spec => []BlocksCounted
<1>1. Inv => BlocksCounted
  <2> SUFFICES ASSUME Inv, run.cmd = "none"
               PROVE  /\ har.count - har.list \in -cuts..cuts
                      /\ cuts = 0 => har.list = (IF que.q /\ ~helped THEN que.chain + 1 ELSE 0)
    BY DEF BlocksCounted
  <2>1. hd = "none" /\ \A a : ~Has(a)
    BY NothingLeft DEF Inv, Ends, Idle, hd, Has
  <2>2. har.count - har.list \in -cuts..cuts
    <3>1. Behind = 0 /\ har.count \in Int /\ har.list \in Nat
      BY <2>1, RunFields DEF Behind, HarType
    <3>2. QED
      BY <3>1 DEF Inv, Difference
  <2>3. ASSUME cuts = 0 PROVE har.list = (IF que.q /\ ~helped THEN que.chain + 1 ELSE 0)
    <3>1. ~Freed /\ (Gone <=> helped) /\ Extra = 0 /\ Chain = (IF que.q THEN que.chain + 1 ELSE 0)
      BY <2>1 DEF Freed, Gone, Extra, Chain
    <3>2. Chain \in Nat
      BY <3>1, RunFields
    <3>3. CASE helped
      BY <2>3, <3>1, <3>3 DEF Inv, Owned, AtLeast
    <3>4. CASE ~helped
      BY <2>3, <3>1, <3>2, <3>4 DEF Inv, Owned, AtLeast
    <3>5. QED
      BY <3>3, <3>4
  <2>4. QED
    BY <2>2, <2>3
<1>2. QED
  BY <1>1, InvHolds, PTL

(* A command that a time limit cut fails, but for the functions of qtest.c
   that do not ask error_check afterwards, or ask too late. *)
THEOREM CutsAreNoticed == Spec => []TimeLimitsFail
<1>1. Inv => TimeLimitsFail
  BY DEF Inv, Cuts, TimeLimitsFail, Showy
<1>2. QED
  BY <1>1, InvHolds, PTL

(* qtest exits with status 0 only when queue_quit and the quit of console.c
   have given back what the harness and the console counted, and, when no cut
   went unnoticed, every block on the list. *)
THEOREM ExitIsHonest == Spec => []CleanExit
<1>1. Inv => CleanExit
  <2> SUFFICES ASSUME Inv, phase = "exit"
               PROVE  /\ helped <=> con.held = 0
                      /\ status = 0 => helped /\ har.count = 0
                      /\ status = 0 /\ lost = {} => har.list = 0
    BY DEF CleanExit
  <2>1. run.cmd = "none" /\ run = Idle
    BY DEF Inv, Ends
  <2>2. hd = "none" /\ \A a : ~Has(a)
    BY <2>1, NothingLeft DEF Idle, hd, Has
  <2>3. helped <=> con.held = 0
    <3>1. con.held = 0 + IF helped THEN 0 ELSE Lists + Len(con.stack)
      BY <2>1 DEF Inv, Ends, Lined
    <3>2. Len(con.stack) \in Nat
      BY ConFields DEF Inv, Types
    <3>3. QED
      BY <3>1, <3>2 DEF Lists
  <2>4. status = 0 => helped /\ har.count = 0
    BY DEF Inv, Ends
  <2>5. ASSUME status = 0, lost = {} PROVE har.list = 0
    <3>1. cuts = 0
      BY <2>1, <2>5 DEF Inv, Ends, Cuts, Types, Idle
    <3>2. Behind = 0 /\ har.count \in Int /\ har.list \in Nat
      BY <2>2, RunFields DEF Behind, HarType
    <3>3. har.count - har.list + 0 \in -0..0 /\ har.count = 0
      BY <2>4, <2>5, <3>1, <3>2 DEF Inv, Difference
    <3>4. QED
      BY <3>2, <3>3
  <2>6. QED
    BY <2>3, <2>4, <2>5
<1>2. QED
  BY <1>1, InvHolds, PTL
=============================================================================
