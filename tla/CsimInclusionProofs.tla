----------------------- MODULE CsimInclusionProofs -----------------------
(***************************************************************************)
(* LRU has the inclusion property, in csim.c too: for every geometry and   *)
(* every trace shorter than IntMax lines, one more line in every set never *)
(* loses a hit.                                                            *)
(***************************************************************************)
EXTENDS CsimInclusion, CsimProofs

USE CsimAssumption

(* The lemmas about one cache, for the wide one. *)
W == INSTANCE CsimProofs WITH E <- E + 1, cache <- cache2, dest <- dest2

LEMMA WideAssumption ==
  /\ NumSets \in Nat \ {0} /\ BlockSize \in Nat \ {0} /\ E + 1 \in Nat \ {0}
  /\ Addrs \subseteq Nat /\ IntMax \in Nat
  BY CsimAssumption

LEMMA WideIsWider ==
  /\ Wider!Init => W!Init
  /\ \A addr, type : Wider!run(addr, type) => W!run(addr, type)
  /\ W!Resident = Wider!Resident
<1>1. Wider!Init => W!Init
  BY DEF W!Init, Wider!Init, W!cache_init, Wider!cache_init, W!Sets, Wider!Sets, W!Ways,
         Wider!Ways, W!Empty, Wider!Empty
<1>2. ASSUME NEW addr, NEW type, Wider!run(addr, type) PROVE W!run(addr, type)
  BY <1>2 DEF W!run, Wider!run, W!access_mem, Wider!access_mem, W!HitWays, Wider!HitWays,
         W!EmptyWays, Wider!EmptyWays, W!FirstEmpty, Wider!FirstEmpty, W!LruPos, Wider!LruPos,
         W!Put, Wider!Put, W!Ways, Wider!Ways, W!get_set, W!get_tag, Wider!get_set, Wider!get_tag
<1>3. W!Resident = Wider!Resident
  BY DEF W!Resident, Wider!Resident, W!ValidLines, Wider!ValidLines, W!Sets, W!Ways,
         Wider!Sets, Wider!Ways, W!BlockAt, Wider!BlockAt
<1>4. QED
  BY <1>1, <1>2, <1>3

-----------------------------------------------------------------------------
(* The narrow cache holds the blocks of each set that were used last. *)

Extra == W!Resident \ Resident

Nested ==
  /\ Resident \subseteq W!Resident
  /\ \A c \in Resident : W!LastUse(c) = LastUse(c)
  /\ \A c \in Extra : EmptyWays(c % NumSets) = {}
  /\ \A c \in Extra : \A b \in PeersIn(c % NumSets) : W!LastUse(c) < LastUse(b)

Ahead == dest.hits \in Nat /\ dest2.hits \in Nat /\ dest2.hits >= dest.hits

Caches == Sane /\ BlocksKnown /\ W!Sane /\ W!BlocksKnown

(* With nothing extra in a set, the wide cache has room whenever the narrow one
   has. *)
LEMMA RoomInBoth ==
  ASSUME Sane, W!Sane, Nested, NEW k \in Sets, EmptyWays(k) # {}
  PROVE  W!EmptyWays(k) # {}
<1>1. W!PeersIn(k) = PeersIn(k)
  BY DEF Nested, Extra, PeersIn, W!PeersIn
<1>2. Cardinality(PeersIn(k)) < E
  BY PeersAndEmptyWays
<1>3. Cardinality(PeersIn(k)) \in Nat
  <2>1. IsFiniteSet(Full(k))
    BY WaysAndSets, FS_Subset DEF Full
  <2>2. QED
    BY <2>1, PeersCount, FS_CardinalityType
<1>4. k \in W!Sets
  BY DEF Sets, W!Sets
<1>5. W!EmptyWays(k) = {} => W!Cardinality(W!PeersIn(k)) = E + 1
  BY <1>4, WideAssumption, W!PeersAndEmptyWays
<1>6. W!Cardinality(W!PeersIn(k)) = Cardinality(PeersIn(k))
  BY <1>1 DEF W!Cardinality, Cardinality
<1>7. QED
  BY <1>2, <1>3, <1>5, <1>6

(* What the wide cache does with a block, in the words of the narrow one. *)
WideLeaves(out, blk) ==
  /\ W!Resident' = (W!Resident \ out) \cup {blk}
  /\ \A c \in W!Resident' : W!LastUse(c)' = IF c = blk THEN time ELSE W!LastUse(c)
  /\ \/ out = {} /\ (blk \in W!Resident \/ W!EmptyWays(blk % NumSets) # {})
     \/ /\ blk \notin W!Resident /\ W!EmptyWays(blk % NumSets) = {}
        /\ \E v \in W!Resident :
             /\ out = {v} /\ (v % NumSets) = (blk % NumSets)
             /\ \A c \in W!Resident \ {v} :
                  (c % NumSets) = (blk % NumSets) => W!LastUse(v) < W!LastUse(c)

LEMMA WideRunLeaves ==
  ASSUME W!Sane, W!Sane', W!BlocksKnown,
         NEW addr \in Addrs, NEW type \in {"L", "S", "M"}, W!run(addr, type)
  PROVE  /\ \E out \in SUBSET W!Resident : WideLeaves(out, addr \div BlockSize)
         /\ dest2'.hits = dest2.hits + (IF addr \div BlockSize \in W!Resident THEN 1 ELSE 0)
                                     + (IF type = "M" THEN 1 ELSE 0)
<1>1. /\ \E out \in SUBSET W!Resident : W!Leaves(out, addr \div BlockSize)
      /\ dest2'.hits = dest2.hits + (IF addr \div BlockSize \in W!Resident THEN 1 ELSE 0)
                                  + (IF type = "M" THEN 1 ELSE 0)
  BY WideAssumption, W!RunLeaves
<1>2. ASSUME NEW out, NEW blk, W!Leaves(out, blk) PROVE WideLeaves(out, blk)
  BY <1>2 DEF W!Leaves, WideLeaves, W!PeersIn
<1>3. QED
  BY <1>1, <1>2

(* A block that is used: inclusion survives whatever each cache evicts. *)
LEMMA NestedStays ==
  ASSUME Sane, W!Sane, Nested, NEW blk,
         NEW out \in SUBSET Resident, Leaves(out, blk),
         NEW wout \in SUBSET W!Resident, WideLeaves(wout, blk)
  PROVE  Nested'
<1> DEFINE k == blk % NumSets
<1>1. /\ k \in Sets
      /\ Resident' = (Resident \ out) \cup {blk}
      /\ W!Resident' = (W!Resident \ wout) \cup {blk}
      /\ \A c \in Resident' : LastUse(c)' = IF c = blk THEN time ELSE LastUse(c)
      /\ \A c \in W!Resident' : W!LastUse(c)' = IF c = blk THEN time ELSE W!LastUse(c)
      /\ \A l \in Sets : EmptyWays(l) = {} => EmptyWays(l)' = {}
  BY DEF Leaves, WideLeaves
<1>2. /\ Resident \subseteq W!Resident
      /\ \A c \in Resident : W!LastUse(c) = LastUse(c)
  BY DEF Nested
<1>3. \A c \in Resident : LastUse(c) \in Nat /\ LastUse(c) < time /\ (c % NumSets) \in Sets
  BY UsedBefore
<1>4. \A c \in W!Resident : W!LastUse(c) \in Nat /\ W!LastUse(c) < time /\ (c % NumSets) \in Sets
  BY WideAssumption, W!UsedBefore DEF W!Sets, Sets
<1> HIDE DEF k
(* What leaves the narrow cache is the oldest of its set, which was full. *)
<1>5. ASSUME NEW v \in out
      PROVE  /\ (v % NumSets) = k /\ EmptyWays(k) = {} /\ blk \notin Resident
             /\ \A b \in Resident \ out : (b % NumSets) = k => LastUse(v) < LastUse(b)
  BY <1>5 DEF Leaves, PeersIn, k
(* What leaves the wide cache is not in the narrow one, or leaves it too. *)
<1>6. ASSUME NEW v \in wout PROVE v \notin Resident \ out
  <2> SUFFICES ASSUME v \in Resident, v \notin out PROVE FALSE
    OBVIOUS
  <2>1. /\ (v % NumSets) = k /\ blk \notin W!Resident /\ W!EmptyWays(k) = {}
        /\ \A c \in W!Resident \ {v} : (c % NumSets) = k => W!LastUse(v) < W!LastUse(c)
    BY <1>6 DEF WideLeaves, k
  <2>2. EmptyWays(k) = {}
    BY <1>1, <2>1, RoomInBoth
  <2>3. blk \notin Resident
    BY <1>2, <2>1
  <2>4. PICK u \in out : u \in PeersIn(k) /\ \A c \in PeersIn(k) \ {u} : LastUse(u) < LastUse(c)
    BY <2>2, <2>3 DEF Leaves, k
  <2>5. u \in Resident /\ (u % NumSets) = k /\ u # v
    BY <2>4 DEF PeersIn
  <2>6. LastUse(u) < LastUse(v)
    BY <2>1, <2>4, <2>5 DEF PeersIn
  <2>7. W!LastUse(v) < W!LastUse(u)
    BY <1>2, <2>1, <2>5
  <2>8. QED
    BY <1>2, <1>3, <2>5, <2>6, <2>7
<1>7. Resident' \subseteq W!Resident'
  BY <1>1, <1>2, <1>6
<1>8. \A c \in Resident' : W!LastUse(c)' = LastUse(c)'
  BY <1>1, <1>2, <1>7
(* What is extra now was extra, or has just been evicted. *)
<1>9. ASSUME NEW c \in Extra'
      PROVE  /\ c # blk /\ c \in W!Resident /\ W!LastUse(c)' = W!LastUse(c)
             /\ c \in Extra \/ c \in out
  <2>1. c \in W!Resident' /\ c \notin Resident'
    BY <1>9 DEF Extra
  <2>2. c # blk /\ c \in W!Resident /\ (c \notin Resident \/ c \in out)
    BY <1>1, <2>1
  <2>3. QED
    BY <1>1, <2>1, <2>2 DEF Extra
<1>10. ASSUME NEW c \in Extra' PROVE EmptyWays(c % NumSets)' = {}
  <2>1. (c % NumSets) \in Sets
    BY <1>4, <1>9
  <2>2. EmptyWays(c % NumSets) = {}
    BY <1>5, <1>9 DEF Nested
  <2>3. QED
    BY <1>1, <2>1, <2>2
<1>11. ASSUME NEW c \in Extra', NEW b \in Resident', (b % NumSets) = (c % NumSets)
       PROVE  W!LastUse(c)' < LastUse(b)'
  <2>1. CASE b = blk
    BY <1>1, <1>4, <1>9, <2>1
  <2>2. CASE b # blk
    <3>1. b \in Resident \ out /\ LastUse(b)' = LastUse(b)
      BY <1>1, <2>2
    <3>2. CASE c \in Extra
      BY <1>9, <1>11, <3>1, <3>2 DEF Nested, PeersIn
    <3>3. CASE c \in out
      BY <1>2, <1>5, <1>9, <1>11, <3>1, <3>3
    <3>4. QED
      BY <1>9, <3>2, <3>3
  <2>3. QED
    BY <2>1, <2>2
<1>12. QED
  BY <1>7, <1>8, <1>10, <1>11 DEF Nested, PeersIn

LEMMA CachesStay == BothSpec => []Caches
<1>1. BothSpec => Spec /\ W!Spec
  <2>1. BothInit => Init /\ W!Init
    BY WideIsWider DEF BothInit
  <2>2. [BothNext]_<<vars, cache2, dest2>> => [Next]_vars /\ [W!Next]_(W!vars)
    <3>1. BothNext => Next /\ W!Next
      BY WideIsWider DEF BothNext, Next, W!Next
    <3>2. UNCHANGED <<vars, cache2, dest2>> => UNCHANGED vars /\ UNCHANGED W!vars
      BY DEF vars, W!vars
    <3>3. QED
      BY <3>1, <3>2
  <2>3. QED
    BY <2>1, <2>2, PTL DEF BothSpec, Spec, W!Spec
<1>2. Spec => [](Sane /\ BlocksKnown)
  BY CacheSane, PTL
<1>3. W!Spec => [](W!Sane /\ W!BlocksKnown)
  BY WideAssumption, W!CacheSane, PTL
<1>4. QED
  BY <1>1, <1>2, <1>3, PTL DEF Caches

(* Inclusion: what csim -E n holds csim -E n+1 holds too, and it never has
   fewer hits, for every geometry and trace. *)
THEOREM WiderNeverLoses == BothSpec => []Inclusion
<1>1. BothInit => Nested /\ Ahead
  <2> SUFFICES ASSUME BothInit PROVE Nested /\ Ahead
    OBVIOUS
  <2>1. Init /\ W!Init /\ Wider!Init
    BY WideIsWider DEF BothInit
  <2>2. Resident = {}
    BY <2>1 DEF Init, cache_init, Empty, Resident, ValidLines
  <2>3. W!Resident = {}
    BY <2>1 DEF W!Init, W!cache_init, W!Empty, W!Resident, W!ValidLines
  <2>4. Ahead
    BY <2>1 DEF Init, W!Init, Ahead
  <2>5. QED
    BY <2>2, <2>3, <2>4 DEF Nested, Extra
<1>2. Caches /\ Caches' /\ Nested /\ Ahead /\ [BothNext]_<<vars, cache2, dest2>>
        => (Nested /\ Ahead)'
  <2> SUFFICES ASSUME Caches, Caches', Nested, Ahead, [BothNext]_<<vars, cache2, dest2>>
               PROVE  Nested' /\ Ahead'
    OBVIOUS
  <2>1. ASSUME NEW addr \in Addrs, NEW type \in {"L", "S", "M"},
               run(addr, type), Wider!run(addr, type)
        PROVE  Nested' /\ Ahead'
    <3> DEFINE blk == addr \div BlockSize
    <3>1. /\ \E out \in SUBSET Resident : Leaves(out, blk)
          /\ dest'.hits = dest.hits + (IF blk \in Resident THEN 1 ELSE 0)
                                    + (IF type = "M" THEN 1 ELSE 0)
      BY <2>1, RunLeaves DEF Caches
    <3>2. W!run(addr, type)
      BY <2>1, WideIsWider
    <3>3. /\ \E out \in SUBSET W!Resident : WideLeaves(out, blk)
          /\ dest2'.hits = dest2.hits + (IF blk \in W!Resident THEN 1 ELSE 0)
                                      + (IF type = "M" THEN 1 ELSE 0)
      BY <3>2, WideRunLeaves DEF Caches
    <3> HIDE DEF blk
    <3>4. Nested'
      BY <3>1, <3>3, NestedStays DEF Caches
    <3>5. blk \in Resident => blk \in W!Resident
      BY DEF Nested
    <3>6. Ahead'
      BY <3>1, <3>3, <3>5 DEF Ahead
    <3>7. QED
      BY <3>4, <3>6
  <2>2. CASE UNCHANGED <<vars, cache2, dest2>>
    <3>1. UNCHANGED <<cache, time, dest, cache2, dest2>>
      BY <2>2 DEF vars
    <3>2. /\ Resident' = Resident /\ W!Resident' = W!Resident
          /\ \A c : LastUse(c)' = LastUse(c) /\ W!LastUse(c)' = W!LastUse(c)
          /\ \A k : EmptyWays(k)' = EmptyWays(k)
      BY <3>1 DEF Resident, ValidLines, BlockAt, LastUse, EmptyWays,
           W!Resident, W!ValidLines, W!BlockAt, W!LastUse
    <3>3. QED
      BY <3>1, <3>2 DEF Nested, Extra, PeersIn, Ahead
  <2>3. QED
    BY <2>1, <2>2 DEF BothNext
<1>3. Nested /\ Ahead => Inclusion
  BY WideIsWider DEF Nested, Ahead, Inclusion
<1>4. QED
  BY <1>1, <1>2, <1>3, CachesStay, PTL DEF BothSpec
=============================================================================
