---------------------------- MODULE CsimProofs ----------------------------
(***************************************************************************)
(* Proofs about Csim for every geometry of the cache and every trace       *)
(* shorter than IntMax lines: its invariants, and then that it implements  *)
(* Lru. CsimInclusionProofs uses the same lemmas of two caches.            *)
(***************************************************************************)
EXTENDS Csim, FiniteSetTheorems, TLAPS

USE CsimAssumption

(* The set index and the tag of an address. *)
LEMMA GetSetType == ASSUME NEW addr \in Addrs PROVE get_set(addr) \in Sets
<1>1. addr \div BlockSize \in Nat
  OBVIOUS
<1>2. \A n \in Nat : n % NumSets \in 0..(NumSets - 1)
  OBVIOUS
<1>3. QED
  BY <1>1, <1>2 DEF get_set, Sets

LEMMA GetTagType == ASSUME NEW addr \in Addrs PROVE get_tag(addr) \in Nat
<1>1. BlockSize * NumSets \in Nat \ {0}
  OBVIOUS
<1>2. \A n \in Nat, d \in Nat \ {0} : n \div d \in Nat
  OBVIOUS
<1>3. QED
  BY <1>1, <1>2 DEF get_tag

LEMMA WaysAndSets == Ways \subseteq Nat /\ Sets \subseteq Nat /\ IsFiniteSet(Ways) /\ IsFiniteSet(Sets)
  BY FS_Interval DEF Ways, Sets

(* What Put leaves in every line. *)
LEMMA PutEffect ==
  ASSUME TypeOK, NEW k \in Sets, NEW i \in Ways, NEW t \in Nat, Put(k, i, t)
  PROVE  /\ cache' \in [Sets -> [Ways -> Line]]
         /\ cache'[k][i] = [valid |-> TRUE, tag |-> t, time_updated |-> time]
         /\ \A l \in Sets, j \in Ways : <<l, j>> # <<k, i>> => cache'[l][j] = cache[l][j]
<1> DEFINE new == [valid |-> TRUE, tag |-> t, time_updated |-> time]
<1>1. new \in Line
  BY DEF Line, TypeOK
<1>2. cache \in [Sets -> [Ways -> Line]]
  BY DEF TypeOK
<1>3. cache' = [cache EXCEPT ![k] = [cache[k] EXCEPT ![i] = new]]
  BY DEF Put
<1>4. QED
  BY <1>1, <1>2, <1>3

(* access_mem is one Put; its result tells the line put in. *)
LEMMA AccessPuts ==
  ASSUME NEW addr \in Addrs, NEW r \in 0..2, access_mem(addr, r)
  PROVE  \E i \in Ways :
            /\ Put(get_set(addr), i, get_tag(addr))
            /\ r = 0 => i \in HitWays(get_set(addr), get_tag(addr))
            /\ r = 1 => i \in EmptyWays(get_set(addr))
            /\ r = 2 => EmptyWays(get_set(addr)) = {}
            /\ r # 0 => HitWays(get_set(addr), get_tag(addr)) = {}
  BY DEF access_mem, HitWays, EmptyWays, FirstEmpty

THEOREM CsimTypeCorrect == Spec => []TypeOK
<1>1. Init => TypeOK
  BY DEF Init, cache_init, TypeOK, Line, Empty
<1>2. TypeOK /\ [Next]_vars => TypeOK'
  <2> SUFFICES ASSUME TypeOK, [Next]_vars PROVE TypeOK'
    OBVIOUS
  <2>1. ASSUME NEW addr \in Addrs, NEW type \in {"L", "S", "M"}, run(addr, type)
        PROVE  TypeOK'
    <3>1. PICK r \in 0..2 : access_mem(addr, r) /\ dest' =
            [hits |-> dest.hits + (IF r = 0 THEN 1 ELSE 0) + (IF type = "M" THEN 1 ELSE 0),
             misses |-> dest.misses + (IF r # 0 THEN 1 ELSE 0),
             evictions |-> dest.evictions + (IF r = 2 THEN 1 ELSE 0)]
      BY <2>1 DEF run
    <3>2. cache' \in [Sets -> [Ways -> Line]]
      BY <3>1, AccessPuts, PutEffect, GetSetType, GetTagType
    <3>3. dest' \in [hits : Nat, misses : Nat, evictions : Nat]
      BY <3>1 DEF TypeOK
    <3>4. time' \in 0..IntMax
      BY <2>1 DEF run, TypeOK
    <3>5. QED
      BY <3>2, <3>3, <3>4 DEF TypeOK
  <2>2. CASE UNCHANGED vars
    BY <2>2 DEF TypeOK, vars
  <2>3. QED
    BY <2>1, <2>2 DEF Next
<1>3. QED
  BY <1>1, <1>2, PTL DEF Spec

(* A line that is filled gets a tag that no valid line of the set has, and a
   time that no valid line has: LinesDistinct is inductive by itself. *)
THEOREM LinesStayDistinct == Spec => []LinesDistinct
<1>1. Init => LinesDistinct
  BY DEF Init, cache_init, LinesDistinct, Empty
<1>2. TypeOK /\ LinesDistinct /\ [Next]_vars => LinesDistinct'
  <2> SUFFICES ASSUME TypeOK, LinesDistinct, [Next]_vars PROVE LinesDistinct'
    OBVIOUS
  <2>1. ASSUME NEW addr \in Addrs, NEW type \in {"L", "S", "M"}, run(addr, type)
        PROVE  LinesDistinct'
    <3> DEFINE k == get_set(addr)
               t == get_tag(addr)
    <3>1. k \in Sets /\ t \in Nat /\ time \in Nat /\ time' = time + 1
      BY <2>1, GetSetType, GetTagType DEF run, TypeOK
    <3>2. PICK r \in 0..2 : access_mem(addr, r)
      BY <2>1 DEF run
    <3>3. PICK i \in Ways : Put(k, i, t) /\ (r = 0 => i \in HitWays(k, t))
                            /\ (r # 0 => HitWays(k, t) = {})
      BY <3>2, AccessPuts
    <3> HIDE DEF k, t
    <3>4. /\ cache'[k][i] = [valid |-> TRUE, tag |-> t, time_updated |-> time]
          /\ \A l \in Sets, j \in Ways : <<l, j>> # <<k, i>> => cache'[l][j] = cache[l][j]
      BY <3>1, <3>3, PutEffect
    <3>5. ASSUME NEW j \in Ways, j # i, cache[k][j].valid
          PROVE  cache[k][j].tag # t /\ cache[k][j].time_updated < time
      <4>1. cache[k][j].time_updated < time
        BY <3>1, <3>5 DEF LinesDistinct
      <4>2. CASE r = 0
        <5>1. cache[k][i].tag = t /\ cache[k][i].valid
          BY <3>3, <4>2 DEF HitWays
        <5>2. QED
          BY <3>1, <3>5, <4>1, <5>1 DEF LinesDistinct
      <4>3. CASE r # 0
        BY <3>3, <3>5, <4>1, <4>3 DEF HitWays
      <4>4. QED
        BY <4>2, <4>3
    <3>6. \A l \in Sets, j \in Ways : cache[l][j].time_updated \in Nat
      BY DEF TypeOK, Line
    <3>7. ASSUME NEW l \in Sets, NEW j \in Ways, cache'[l][j].valid
          PROVE  cache'[l][j].time_updated < time'
      <4>1. CASE <<l, j>> = <<k, i>>
        BY <3>1, <3>4, <4>1
      <4>2. CASE <<l, j>> # <<k, i>>
        BY <3>1, <3>4, <3>6, <3>7, <4>2 DEF LinesDistinct
      <4>3. QED
        BY <4>1, <4>2
    <3>8. ASSUME NEW l \in Sets, NEW j \in Ways, NEW m \in Ways, j # m,
                 cache'[l][j].valid, cache'[l][m].valid
          PROVE  /\ cache'[l][j].tag # cache'[l][m].tag
                 /\ cache'[l][j].time_updated # cache'[l][m].time_updated
      <4>1. CASE l = k /\ j = i
        BY <3>1, <3>4, <3>5, <3>6, <3>8, <4>1
      <4>2. CASE l = k /\ m = i
        BY <3>1, <3>4, <3>5, <3>6, <3>8, <4>2
      <4>3. CASE l # k \/ (j # i /\ m # i)
        <5>1. cache'[l][j] = cache[l][j] /\ cache'[l][m] = cache[l][m]
          BY <3>4, <4>3
        <5>2. QED
          BY <3>8, <5>1 DEF LinesDistinct
      <4>4. QED
        BY <4>1, <4>2, <4>3
    <3>9. QED
      BY <3>7, <3>8 DEF LinesDistinct
  <2>2. CASE UNCHANGED vars
    BY <2>2 DEF LinesDistinct, vars
  <2>3. QED
    BY <2>1, <2>2 DEF Next
<1>3. QED
  BY <1>1, <1>2, CsimTypeCorrect, PTL DEF Spec

(* A miss either fills, and there is one valid line more, or evicts, and
   there are as many as before. *)
THEOREM MissesAreAccountedFor == Spec => []MissesAccountForLines
<1>1. Init => MissesAccountForLines
  <2>1. Init => ValidLines = {}
    BY DEF Init, cache_init, Empty, ValidLines
  <2>2. QED
    BY <2>1, FS_EmptySet DEF Init, MissesAccountForLines
<1>2. TypeOK /\ MissesAccountForLines /\ [Next]_vars => MissesAccountForLines'
  <2> SUFFICES ASSUME TypeOK, MissesAccountForLines, [Next]_vars PROVE MissesAccountForLines'
    OBVIOUS
  <2>0. IsFiniteSet(ValidLines) /\ Cardinality(ValidLines) \in Nat
    <3>1. IsFiniteSet(Sets \X Ways)
      BY WaysAndSets, FS_Product
    <3>2. ValidLines \subseteq Sets \X Ways
      BY DEF ValidLines
    <3>3. QED
      BY <3>1, <3>2, FS_Subset, FS_CardinalityType
  <2>1. ASSUME NEW addr \in Addrs, NEW type \in {"L", "S", "M"}, run(addr, type)
        PROVE  MissesAccountForLines'
    <3> DEFINE k == get_set(addr)
               t == get_tag(addr)
    <3>1. PICK r \in 0..2 : access_mem(addr, r) /\ dest' =
            [hits |-> dest.hits + (IF r = 0 THEN 1 ELSE 0) + (IF type = "M" THEN 1 ELSE 0),
             misses |-> dest.misses + (IF r # 0 THEN 1 ELSE 0),
             evictions |-> dest.evictions + (IF r = 2 THEN 1 ELSE 0)]
      BY <2>1 DEF run
    <3>2. PICK i \in Ways : /\ Put(k, i, t)
                            /\ r = 0 => i \in HitWays(k, t)
                            /\ r = 1 => i \in EmptyWays(k)
                            /\ r = 2 => EmptyWays(k) = {}
      BY <3>1, AccessPuts
    <3>3. k \in Sets /\ t \in Nat
      BY GetSetType, GetTagType
    <3> HIDE DEF k, t
    <3>4. /\ cache'[k][i] = [valid |-> TRUE, tag |-> t, time_updated |-> time]
          /\ \A l \in Sets, j \in Ways : <<l, j>> # <<k, i>> => cache'[l][j] = cache[l][j]
      BY <3>2, <3>3, PutEffect
    <3>5. ValidLines' = ValidLines \cup {<<k, i>>}
      <4>1. ASSUME NEW ln \in Sets \X Ways
            PROVE  cache'[ln[1]][ln[2]].valid <=> cache[ln[1]][ln[2]].valid \/ ln = <<k, i>>
        <5>1. ln[1] \in Sets /\ ln[2] \in Ways /\ ln = <<ln[1], ln[2]>>
          OBVIOUS
        <5>2. CASE ln = <<k, i>>
          BY <3>4, <5>2
        <5>3. CASE ln # <<k, i>>
          BY <3>4, <5>1, <5>3
        <5>4. QED
          BY <5>2, <5>3
      <4>2. <<k, i>> \in Sets \X Ways
        BY <3>3
      <4>3. QED
        BY <4>1, <4>2 DEF ValidLines
    <3>6. <<k, i>> \in ValidLines <=> r # 1
      <4>1. <<k, i>> \in ValidLines <=> cache[k][i].valid
        BY <3>3 DEF ValidLines
      <4>2. QED
        BY <3>2, <4>1 DEF HitWays, EmptyWays
    <3>7. CASE r = 1
      <4>1. Cardinality(ValidLines') = Cardinality(ValidLines) + 1
        BY <2>0, <3>5, <3>6, <3>7, FS_AddElement
      <4>2. QED
        BY <2>0, <3>1, <3>7, <4>1 DEF MissesAccountForLines, TypeOK
    <3>8. CASE r # 1
      <4>1. ValidLines' = ValidLines
        BY <3>5, <3>6, <3>8
      <4>2. QED
        BY <2>0, <3>1, <3>8, <4>1 DEF MissesAccountForLines, TypeOK
    <3>9. QED
      BY <3>7, <3>8
  <2>2. CASE UNCHANGED vars
    BY <2>2 DEF MissesAccountForLines, ValidLines, vars
  <2>3. QED
    BY <2>1, <2>2 DEF Next
<1>3. QED
  BY <1>1, <1>2, CsimTypeCorrect, PTL DEF Spec

-----------------------------------------------------------------------------
(* Quotient and remainder.                                                   *)

LEMMA DivMod ==
  ASSUME NEW a \in Nat, NEW d \in Nat \ {0}
  PROVE  /\ a \div d \in Nat /\ (a % d) \in 0..(d - 1)
         /\ a = d * (a \div d) + (a % d)
  OBVIOUS

LEMMA MultiplesApart ==
  ASSUME NEW d \in Nat \ {0}, NEW p \in Nat, NEW q \in Nat, p < q
  PROVE  d * p + d <= d * q
<1>1. PICK e \in Nat : q = p + 1 + e
  <2>1. q - p - 1 \in Nat /\ q = p + 1 + (q - p - 1)
    OBVIOUS
  <2>2. QED
    BY <2>1
<1>2. d * (p + 1 + e) = d * p + d + d * e
  OBVIOUS
<1>3. d * e \in Nat /\ d * p \in Nat
  OBVIOUS
<1>4. QED
  BY <1>1, <1>2, <1>3

LEMMA DivModUnique ==
  ASSUME NEW a \in Nat, NEW d \in Nat \ {0}, NEW p \in Nat, NEW r \in 0..(d - 1), a = d * p + r
  PROVE  a \div d = p /\ (a % d) = r
<1>1. PICK q \in Nat, s \in 0..(d - 1) : q = a \div d /\ s = (a % d) /\ a = d * q + s
  BY DivMod
<1>2. PICK dp \in Nat, dq \in Nat : dp = d * p /\ dq = d * q
  OBVIOUS
<1>3. (p < q => dp + d <= dq) /\ (q < p => dq + d <= dp)
  BY <1>2, MultiplesApart
<1>4. dp + r = dq + s
  BY <1>1, <1>2
<1>5. p = q
  BY <1>3, <1>4
<1>6. QED
  BY <1>1, <1>2, <1>4, <1>5

-----------------------------------------------------------------------------
(* Blocks, sets and tags.                                                    *)

BlockNumber(k, t) == t * NumSets + k

(* A set and a tag can be read off the block number. *)
LEMMA BlockParts ==
  ASSUME NEW k \in Sets, NEW t \in Nat
  PROVE  /\ BlockNumber(k, t) \in Nat
         /\ (BlockNumber(k, t) % NumSets) = k
         /\ BlockNumber(k, t) \div NumSets = t
<1>1. t * NumSets \in Nat /\ t * NumSets = NumSets * t /\ k \in Nat
  BY DEF Sets
<1>2. BlockNumber(k, t) \in Nat /\ BlockNumber(k, t) = NumSets * t + k
  BY <1>1 DEF BlockNumber
<1>3. QED
  BY <1>2, DivModUnique DEF Sets

LEMMA BlockNumberInjective ==
  ASSUME NEW k \in Sets, NEW t \in Nat, NEW l \in Sets, NEW u \in Nat,
         BlockNumber(k, t) = BlockNumber(l, u)
  PROVE  k = l /\ t = u
  BY BlockParts

(* The set and the tag that csim takes from an address are those of the
   address's block: the shifts of get_tag and get_set agree. *)
LEMMA BlockOfAddress ==
  ASSUME NEW addr \in Addrs
  PROVE  addr \div BlockSize = BlockNumber(get_set(addr), get_tag(addr))
<1>0. addr \in Nat /\ BlockSize \in Nat \ {0} /\ NumSets \in Nat \ {0}
  OBVIOUS
<1>1. PICK q \in Nat, r \in 0..(BlockSize - 1) : q = addr \div BlockSize /\ addr = BlockSize * q + r
  <2>1. /\ addr \div BlockSize \in Nat /\ (addr % BlockSize) \in 0..(BlockSize - 1)
        /\ addr = BlockSize * (addr \div BlockSize) + (addr % BlockSize)
    BY <1>0, DivMod
  <2>2. QED
    BY <2>1
<1>2. PICK p \in Nat, s \in 0..(NumSets - 1) : p = q \div NumSets /\ s = (q % NumSets) /\ q = NumSets * p + s
  BY DivMod
<1>3. PICK d \in Nat \ {0} : d = BlockSize * NumSets
  OBVIOUS
<1>4. PICK bs \in Nat, dp \in Nat : bs = BlockSize * s /\ dp = d * p
  OBVIOUS
<1>5. BlockSize * q = dp + bs
  <2>1. BlockSize * (NumSets * p + s) = BlockSize * NumSets * p + BlockSize * s
    OBVIOUS
  <2>2. QED
    BY <1>2, <1>3, <1>4, <2>1
<1>6. bs + BlockSize <= d
  BY <1>3, <1>4, MultiplesApart
<1>7. bs + r \in 0..(d - 1)
  BY <1>6
<1>8. addr = d * p + (bs + r)
  BY <1>1, <1>4, <1>5
<1>9. addr \div d = p
  BY <1>7, <1>8, DivModUnique
<1>10. QED
  BY <1>1, <1>2, <1>3, <1>9 DEF BlockNumber, get_set, get_tag

-----------------------------------------------------------------------------
(* What the mapping to Lru says of a cache.                                  *)

Sane == TypeOK /\ LinesDistinct

LEMMA LineTypes ==
  ASSUME TypeOK, NEW k \in Sets, NEW i \in Ways
  PROVE  /\ cache[k][i].tag \in Nat /\ cache[k][i].time_updated \in Nat
         /\ cache[k][i].valid \in BOOLEAN
         /\ BlockAt(k, i) = BlockNumber(k, cache[k][i].tag)
  BY DEF TypeOK, Line, BlockAt, BlockNumber

LEMMA ResidentIs ==
  ASSUME NEW c
  PROVE  c \in Resident <=> \E k \in Sets, i \in Ways : cache[k][i].valid /\ c = BlockAt(k, i)
<1>1. ASSUME c \in Resident
      PROVE  \E k \in Sets, i \in Ways : cache[k][i].valid /\ c = BlockAt(k, i)
  BY <1>1 DEF Resident, ValidLines
<1>2. ASSUME NEW k \in Sets, NEW i \in Ways, cache[k][i].valid, c = BlockAt(k, i)
      PROVE  c \in Resident
  <2>1. <<k, i>> \in ValidLines
    BY <1>2 DEF ValidLines
  <2>2. QED
    BY <1>2, <2>1 DEF Resident
<1>3. QED
  BY <1>1, <1>2

(* A block is in one line only. *)
LEMMA OneLine ==
  ASSUME Sane, NEW k \in Sets, NEW i \in Ways, NEW l \in Sets, NEW j \in Ways,
         cache[k][i].valid, cache[l][j].valid, BlockAt(k, i) = BlockAt(l, j)
  PROVE  k = l /\ i = j
<1>1. k = l /\ cache[k][i].tag = cache[l][j].tag
  BY LineTypes, BlockNumberInjective DEF Sane
<1>2. QED
  BY <1>1 DEF Sane, LinesDistinct

LEMMA LastUseIs ==
  ASSUME Sane, NEW k \in Sets, NEW i \in Ways, cache[k][i].valid
  PROVE  LastUse(BlockAt(k, i)) = cache[k][i].time_updated
<1>1. (BlockAt(k, i) % NumSets) = k
  BY LineTypes, BlockParts DEF Sane
<1>2. \A w \in Ways : cache[k][w].valid /\ BlockAt(k, w) = BlockAt(k, i) <=> w = i
  BY OneLine
<1>3. (CHOOSE w \in Ways : cache[k][w].valid /\ BlockAt(k, w) = BlockAt(k, i)) = i
  BY <1>2
<1>4. QED
  BY <1>1, <1>3 DEF LastUse

(* The three facts as one predicate, to be used of the next state as well. *)
Readable ==
  /\ \A c : c \in Resident <=>
            \E k \in Sets, i \in Ways : cache[k][i].valid /\ c = BlockAt(k, i)
  /\ \A k, l \in Sets, i, j \in Ways :
       cache[k][i].valid /\ cache[l][j].valid /\ BlockAt(k, i) = BlockAt(l, j) => k = l /\ i = j
  /\ \A k \in Sets, i \in Ways :
       cache[k][i].valid => LastUse(BlockAt(k, i)) = cache[k][i].time_updated

LEMMA SaneIsReadable == Sane => Readable
  BY ResidentIs, OneLine, LastUseIs DEF Readable

(* The blocks of set k that are resident are as many as its valid lines. *)
Full(k) == {i \in Ways : cache[k][i].valid}
PeersIn(k) == {c \in Resident : (c % NumSets) = k}

LEMMA PeersCount ==
  ASSUME Sane, NEW k \in Sets
  PROVE  Cardinality(PeersIn(k)) = Cardinality(Full(k))
<1> DEFINE f == [i \in Full(k) |-> BlockAt(k, i)]
<1>1. \A i \in Full(k) : f[i] \in PeersIn(k)
  BY LineTypes, BlockParts, ResidentIs DEF Full, PeersIn, Sane
<1>2. \A i, j \in Full(k) : f[i] = f[j] => i = j
  BY OneLine DEF Full
<1>3. ASSUME NEW c \in PeersIn(k) PROVE \E i \in Full(k) : f[i] = c
  <2>1. PICK l \in Sets, i \in Ways : cache[l][i].valid /\ c = BlockAt(l, i)
    BY ResidentIs DEF PeersIn
  <2>2. l = k
    BY <2>1, LineTypes, BlockParts DEF PeersIn, Sane
  <2>3. QED
    BY <2>1, <2>2 DEF Full
<1>4. f \in Bijection(Full(k), PeersIn(k))
  BY <1>1, <1>2, <1>3 DEF Bijection, Injection, Surjection, IsInjective
<1>5. IsFiniteSet(Full(k))
  BY WaysAndSets, FS_Subset DEF Full
<1>6. QED
  BY <1>4, <1>5, FS_Bijection DEF ExistsBijection

(* Fewer than E blocks as long as there is an empty way, and E when not. *)
LEMMA PeersAndEmptyWays ==
  ASSUME Sane, NEW k \in Sets
  PROVE  /\ EmptyWays(k) # {} => Cardinality(PeersIn(k)) < E
         /\ EmptyWays(k) = {} => Cardinality(PeersIn(k)) = E
<1>1. IsFiniteSet(Ways) /\ Cardinality(Ways) = E
  BY FS_Interval DEF Ways
<1>2. Full(k) \subseteq Ways /\ (EmptyWays(k) = {} <=> Full(k) = Ways)
  BY DEF Full, EmptyWays
<1>3. /\ Cardinality(Full(k)) <= E /\ Cardinality(Full(k)) \in Nat
      /\ Cardinality(Full(k)) = E => Full(k) = Ways
  BY <1>1, <1>2, FS_Subset, FS_CardinalityType
<1>4. QED
  BY <1>1, <1>2, <1>3, PeersCount

-----------------------------------------------------------------------------
(* What an access does to the blocks and their last uses: the block is used   *)
(* now, and the one that was in its line is gone.                            *)

LEMMA AccessUses ==
  ASSUME Sane, Sane', time' = time + 1,
         NEW k \in Sets, NEW t \in Nat, NEW i \in Ways, Put(k, i, t)
  PROVE  LET blk == BlockNumber(k, t)
             old == IF cache[k][i].valid THEN {BlockAt(k, i)} ELSE {}
         IN  /\ Resident' = (Resident \ old) \cup {blk}
             /\ \A c \in Resident' : LastUse(c)' = IF c = blk THEN time ELSE LastUse(c)
<1> DEFINE blk == BlockNumber(k, t)
           old == IF cache[k][i].valid THEN {BlockAt(k, i)} ELSE {}
<1>1. /\ cache'[k][i] = [valid |-> TRUE, tag |-> t, time_updated |-> time]
      /\ \A l \in Sets, j \in Ways : <<l, j>> # <<k, i>> => cache'[l][j] = cache[l][j]
  BY PutEffect DEF Sane
<1>2. BlockAt(k, i)' = blk /\ cache'[k][i].valid
  BY <1>1 DEF BlockAt, BlockNumber
<1>3. \A l \in Sets, j \in Ways : <<l, j>> # <<k, i>> => BlockAt(l, j)' = BlockAt(l, j)
  BY <1>1 DEF BlockAt
<1> HIDE DEF blk
<1>4. Readable /\ Readable'
  <2>1. (Sane => Readable)'
    BY SaneIsReadable, PTL
  <2>2. QED
    BY <2>1, SaneIsReadable
<1>5. blk \in Resident' /\ LastUse(blk)' = time
  <2>1. LastUse(BlockAt(k, i))' = time /\ BlockAt(k, i)' \in Resident'
    BY <1>1, <1>4 DEF Readable
  <2>2. LastUse(BlockAt(k, i))' = LastUse(blk)'
    BY <1>2 DEF LastUse
  <2>3. QED
    BY <1>2, <2>1, <2>2
<1>6. ASSUME NEW c \in Resident', c # blk
      PROVE  c \in Resident \ old /\ LastUse(c)' = LastUse(c)
  <2>1. PICK l \in Sets, j \in Ways : cache'[l][j].valid /\ c = BlockAt(l, j)'
    BY <1>4 DEF Readable
  <2>2. <<l, j>> # <<k, i>>
    BY <1>2, <1>6, <2>1
  <2>3. cache[l][j].valid /\ c = BlockAt(l, j) /\ cache'[l][j] = cache[l][j]
    BY <1>1, <1>3, <2>1, <2>2
  <2>4. c \in Resident
    BY <1>4, <2>3 DEF Readable
  <2>5. c \notin old
    BY <1>4, <2>2, <2>3 DEF Readable
  <2>6. LastUse(BlockAt(l, j))' = cache'[l][j].time_updated
    BY <1>4, <2>1 DEF Readable
  <2>7. LastUse(BlockAt(l, j)) = cache[l][j].time_updated
    BY <1>4, <2>3 DEF Readable
  <2>8. LastUse(BlockAt(l, j))' = LastUse(c)'
    BY <2>1 DEF LastUse
  <2>9. QED
    BY <2>3, <2>4, <2>5, <2>6, <2>7, <2>8
<1>7. ASSUME NEW c \in Resident \ old
      PROVE  c \in Resident'
  <2>1. PICK l \in Sets, j \in Ways : cache[l][j].valid /\ c = BlockAt(l, j)
    BY <1>4 DEF Readable
  <2>2. <<l, j>> # <<k, i>>
    BY <1>7, <2>1
  <2>3. cache'[l][j].valid /\ c = BlockAt(l, j)'
    BY <1>1, <1>3, <2>1, <2>2
  <2>4. QED
    BY <1>4, <2>3 DEF Readable
<1>8. Resident' = (Resident \ old) \cup {blk}
  BY <1>5, <1>6, <1>7
<1>9. \A c \in Resident' : LastUse(c)' = IF c = blk THEN time ELSE LastUse(c)
  BY <1>5, <1>6
<1>10. QED
  BY <1>8, <1>9 DEF blk

-----------------------------------------------------------------------------
(* The steps of the two specifications.                                      *)

BlocksKnown == Resident \subseteq AllBlocks

(* One line of the trace, in terms of blocks: the line that was put in, and
   what the mapping to Lru makes of it. *)
LEMMA RunUses ==
  ASSUME Sane, Sane', BlocksKnown,
         NEW addr \in Addrs, NEW type \in {"L", "S", "M"}, run(addr, type)
  PROVE  \E r \in 0..2, i \in Ways :
           LET k == get_set(addr)
               t == get_tag(addr)
               blk == addr \div BlockSize
           IN  /\ access_mem(addr, r) /\ Put(k, i, t)
               /\ k \in Sets /\ t \in Nat /\ blk \in AllBlocks /\ (blk % NumSets) = k
               /\ r = 0 => blk \in Resident /\ BlockAt(k, i) = blk /\ cache[k][i].valid
               /\ r # 0 => blk \notin Resident
               /\ r = 1 => ~cache[k][i].valid /\ EmptyWays(k) # {}
               /\ r = 2 => cache[k][i].valid /\ EmptyWays(k) = {} /\ LruPos(k, i)
               /\ Resident' = (Resident \ (IF cache[k][i].valid THEN {BlockAt(k, i)} ELSE {})) \cup {blk}
               /\ \A c \in Resident' : LastUse(c)' = IF c = blk THEN time ELSE LastUse(c)
               /\ time' = time + 1
               /\ dest' = [hits |-> dest.hits + (IF r = 0 THEN 1 ELSE 0) + (IF type = "M" THEN 1 ELSE 0),
                            misses |-> dest.misses + (IF r # 0 THEN 1 ELSE 0),
                            evictions |-> dest.evictions + (IF r = 2 THEN 1 ELSE 0)]
<1> DEFINE k == get_set(addr)
           t == get_tag(addr)
           blk == addr \div BlockSize
<1>1. /\ k \in Sets /\ t \in Nat /\ blk \in AllBlocks
      /\ blk = BlockNumber(k, t) /\ (blk % NumSets) = k
  BY GetSetType, GetTagType, BlockOfAddress, BlockParts DEF AllBlocks
<1>2. PICK r \in 0..2 : access_mem(addr, r) /\ dest' =
        [hits |-> dest.hits + (IF r = 0 THEN 1 ELSE 0) + (IF type = "M" THEN 1 ELSE 0),
         misses |-> dest.misses + (IF r # 0 THEN 1 ELSE 0),
         evictions |-> dest.evictions + (IF r = 2 THEN 1 ELSE 0)]
  BY DEF run
<1>3. time' = time + 1
  BY DEF run
<1>4. PICK i \in Ways : /\ Put(k, i, t)
                        /\ r = 0 => i \in HitWays(k, t)
                        /\ r = 1 => i \in EmptyWays(k)
                        /\ r = 2 => EmptyWays(k) = {} /\ LruPos(k, i)
                        /\ r # 0 => HitWays(k, t) = {}
  BY <1>2 DEF access_mem, HitWays, EmptyWays, FirstEmpty
<1> HIDE DEF k, t, blk
<1>5. r = 0 => blk \in Resident /\ BlockAt(k, i) = blk /\ cache[k][i].valid
  <2> SUFFICES ASSUME r = 0 PROVE blk \in Resident /\ BlockAt(k, i) = blk /\ cache[k][i].valid
    OBVIOUS
  <2>1. cache[k][i].valid /\ cache[k][i].tag = t
    BY <1>4 DEF HitWays
  <2>2. BlockAt(k, i) = blk
    BY <1>1, <2>1 DEF BlockAt, BlockNumber
  <2>3. QED
    BY <1>1, <2>1, <2>2, ResidentIs
<1>6. r # 0 => blk \notin Resident
  <2> SUFFICES ASSUME r # 0, blk \in Resident PROVE FALSE
    OBVIOUS
  <2>1. PICK l \in Sets, j \in Ways : cache[l][j].valid /\ blk = BlockAt(l, j)
    BY ResidentIs
  <2>2. cache[l][j].tag \in Nat /\ BlockNumber(k, t) = BlockNumber(l, cache[l][j].tag)
    BY <1>1, <2>1, LineTypes DEF Sane
  <2>3. l = k /\ cache[l][j].tag = t
    BY <1>1, <2>2, BlockNumberInjective
  <2>4. QED
    BY <1>4, <2>1, <2>3 DEF HitWays
<1>7. r = 1 => ~cache[k][i].valid /\ EmptyWays(k) # {}
  BY <1>4 DEF EmptyWays
<1>8. r = 2 => cache[k][i].valid /\ EmptyWays(k) = {} /\ LruPos(k, i)
  BY <1>4 DEF EmptyWays
<1>9. /\ Resident' = (Resident \ (IF cache[k][i].valid THEN {BlockAt(k, i)} ELSE {})) \cup {blk}
      /\ \A c \in Resident' : LastUse(c)' = IF c = blk THEN time ELSE LastUse(c)
  BY <1>1, <1>3, <1>4, AccessUses
<1>10. QED
  BY <1>1, <1>2, <1>3, <1>4, <1>5, <1>6, <1>7, <1>8, <1>9 DEF k, t, blk

LEMMA BlocksStayKnown ==
  ASSUME Sane, Sane', BlocksKnown, [Next]_vars
  PROVE  BlocksKnown'
<1>1. ASSUME NEW addr \in Addrs, NEW type \in {"L", "S", "M"}, run(addr, type)
      PROVE  BlocksKnown'
  <2>1. PICK k \in Sets, i \in Ways :
          Resident' = (Resident \ (IF cache[k][i].valid THEN {BlockAt(k, i)} ELSE {}))
                        \cup {addr \div BlockSize}
    BY <1>1, RunUses
  <2>2. AllBlocks' = AllBlocks /\ addr \div BlockSize \in AllBlocks
    BY DEF AllBlocks
  <2>3. QED
    BY <2>1, <2>2 DEF BlocksKnown
<1>2. CASE UNCHANGED vars
  BY <1>2 DEF vars, BlocksKnown, Resident, ValidLines, BlockAt, AllBlocks
<1>3. QED
  BY <1>1, <1>2 DEF Next

LEMMA RunSteps ==
  ASSUME Sane, Sane', BlocksKnown, BlocksKnown',
         NEW addr \in Addrs, NEW type \in {"L", "S", "M"}, run(addr, type)
  PROVE  Abstract!Next
<1> DEFINE blk == addr \div BlockSize
           k == get_set(addr)
           again == IF type = "M" THEN 1 ELSE 0
           U == [c \in Resident |-> LastUse(c)]
<1>1. PICK r \in 0..2, i \in Ways :
        /\ k \in Sets /\ blk \in AllBlocks /\ (blk % NumSets) = k
        /\ r = 0 => blk \in Resident /\ BlockAt(k, i) = blk /\ cache[k][i].valid
        /\ r # 0 => blk \notin Resident
        /\ r = 1 => ~cache[k][i].valid /\ EmptyWays(k) # {}
        /\ r = 2 => cache[k][i].valid /\ EmptyWays(k) = {} /\ LruPos(k, i)
        /\ Resident' = (Resident \ (IF cache[k][i].valid THEN {BlockAt(k, i)} ELSE {})) \cup {blk}
        /\ \A c \in Resident' : LastUse(c)' = IF c = blk THEN time ELSE LastUse(c)
        /\ time' = time + 1
        /\ dest' = [hits |-> dest.hits + (IF r = 0 THEN 1 ELSE 0) + (IF type = "M" THEN 1 ELSE 0),
                     misses |-> dest.misses + (IF r # 0 THEN 1 ELSE 0),
                     evictions |-> dest.evictions + (IF r = 2 THEN 1 ELSE 0)]
  BY RunUses
<1> HIDE DEF blk, k
<1>2. [c \in Resident |-> LastUse(c)]' = [c \in Resident' |-> IF c = blk THEN time ELSE LastUse(c)]
  BY <1>1
<1>3. DOMAIN U = Resident /\ \A c \in Resident : U[c] = LastUse(c)
  OBVIOUS
<1>4. again \in {0, 1} /\ dest.hits \in Nat /\ dest.misses \in Nat /\ dest.evictions \in Nat
  BY DEF Sane, TypeOK
<1>5. /\ Abstract!Peers(blk) = PeersIn(k)
      /\ Abstract!Cardinality(Abstract!Peers(blk)) = Cardinality(PeersIn(k))
  <2>1. Abstract!Peers(blk) = PeersIn(k)
    BY <1>1 DEF Abstract!Peers, PeersIn, BlocksKnown
  <2>2. QED
    BY <2>1 DEF Abstract!Cardinality, Cardinality
<1> DEFINE Used(S) == [c \in S \cup {blk} |-> IF c = blk THEN time ELSE U[c]]
<1>6. ASSUME NEW S, S \subseteq Resident, Resident' = S \cup {blk}
      PROVE  Abstract!Use(blk, S)
  <2>1. [c \in Resident' |-> IF c = blk THEN time ELSE LastUse(c)] = Used(S)
    BY <1>3, <1>6
  <2>2. QED
    BY <1>1, <1>2, <2>1 DEF Abstract!Use
<1>7. CASE r = 0
  <2>1. Resident' = Resident \cup {blk} /\ blk \in Resident
    BY <1>1, <1>7
  <2>2. Abstract!Use(blk, DOMAIN U)
    BY <1>3, <1>6, <2>1
  <2>3. Abstract!Hit(blk, again)
    BY <1>1, <1>3, <1>4, <1>7, <2>1, <2>2 DEF Abstract!Hit
  <2>4. QED
    BY <1>1, <1>4, <2>3 DEF Abstract!Next
<1>8. CASE r = 1
  <2>1. Resident' = Resident \cup {blk} /\ blk \notin Resident
    BY <1>1, <1>8
  <2>2. Abstract!Use(blk, DOMAIN U)
    BY <1>3, <1>6, <2>1
  <2>3. Cardinality(PeersIn(k)) < E
    BY <1>1, <1>8, PeersAndEmptyWays
  <2>4. Abstract!Fill(blk, again)
    BY <1>1, <1>3, <1>4, <1>5, <1>8, <2>1, <2>2, <2>3 DEF Abstract!Fill
  <2>5. QED
    BY <1>1, <1>4, <2>4 DEF Abstract!Next
<1>9. CASE r = 2
  <2> DEFINE victim == BlockAt(k, i)
  <2>1. Resident' = (Resident \ {victim}) \cup {blk} /\ blk \notin Resident
    BY <1>1, <1>9
  <2>2. Abstract!Use(blk, DOMAIN U \ {victim})
    BY <1>3, <1>6, <2>1
  <2>3. Cardinality(PeersIn(k)) = E
    BY <1>1, <1>9, PeersAndEmptyWays
  <2>4. victim \in PeersIn(k) /\ U[victim] = cache[k][i].time_updated
    <3>1. victim \in Resident
      BY <1>1, <1>9, ResidentIs
    <3>2. (victim % NumSets) = k
      BY <1>1, LineTypes, BlockParts DEF Sane
    <3>3. LastUse(victim) = cache[k][i].time_updated
      BY <1>1, <1>9, LastUseIs
    <3>4. QED
      BY <3>1, <3>2, <3>3 DEF PeersIn
  <2>5. ASSUME NEW c \in PeersIn(k)
        PROVE  U[victim] <= U[c]
    <3>1. PICK l \in Sets, j \in Ways : cache[l][j].valid /\ c = BlockAt(l, j)
      BY ResidentIs DEF PeersIn
    <3>2. l = k
      BY <3>1, LineTypes, BlockParts DEF PeersIn, Sane
    <3>3. U[c] = cache[k][j].time_updated
      BY <1>1, <3>1, <3>2, LastUseIs DEF PeersIn
    <3>4. cache[k][i].time_updated \in Nat /\ cache[k][j].time_updated \in Nat
      BY <1>1, LineTypes DEF Sane
    <3>5. cache[k][i].time_updated <= cache[k][j].time_updated
      BY <1>1, <1>9, <3>4 DEF LruPos
    <3>6. QED
      BY <2>4, <3>3, <3>5
  <2>6. Abstract!Evict(blk, again)
    <3>1. blk \notin DOMAIN U /\ Abstract!Cardinality(Abstract!Peers(blk)) >= E
      BY <1>3, <1>5, <2>1, <2>3
    <3>2. victim \in Abstract!Peers(blk) /\ \A c \in Abstract!Peers(blk) : U[victim] <= U[c]
      BY <1>5, <2>4, <2>5
    <3>3. /\ dest'.hits = dest.hits + again
          /\ dest'.misses = dest.misses + 1
          /\ dest'.evictions = dest.evictions + 1
      BY <1>1, <1>4, <1>9
    <3>4. QED
      BY <2>2, <3>1, <3>2, <3>3 DEF Abstract!Evict
  <2>7. QED
    BY <1>1, <1>4, <2>6 DEF Abstract!Next
<1>10. QED
  BY <1>7, <1>8, <1>9

(* A resident block was used before, and belongs to a set. *)
LEMMA UsedBefore ==
  ASSUME Sane, NEW c \in Resident
  PROVE  LastUse(c) \in Nat /\ LastUse(c) < time /\ (c % NumSets) \in Sets
<1>1. PICK k \in Sets, i \in Ways : cache[k][i].valid /\ c = BlockAt(k, i)
  BY ResidentIs
<1>2. (c % NumSets) = k
  BY <1>1, LineTypes, BlockParts DEF Sane
<1>3. LastUse(c) = cache[k][i].time_updated
  BY <1>1, LastUseIs
<1>4. QED
  BY <1>1, <1>2, <1>3, LineTypes DEF Sane, LinesDistinct

(* The block that is evicted was used before every other block of its set. *)
LEMMA VictimIsOldest ==
  ASSUME Sane, NEW k \in Sets, NEW i \in Ways, cache[k][i].valid, LruPos(k, i)
  PROVE  /\ BlockAt(k, i) \in PeersIn(k)
         /\ \A c \in PeersIn(k) \ {BlockAt(k, i)} : LastUse(BlockAt(k, i)) < LastUse(c)
<1>1. BlockAt(k, i) \in PeersIn(k)
  BY LineTypes, BlockParts, ResidentIs DEF Sane, PeersIn
<1>2. ASSUME NEW c \in PeersIn(k), c # BlockAt(k, i)
      PROVE  LastUse(BlockAt(k, i)) < LastUse(c)
  <2>1. PICK l \in Sets, j \in Ways : cache[l][j].valid /\ c = BlockAt(l, j)
    BY ResidentIs DEF PeersIn
  <2>2. l = k
    BY <2>1, LineTypes, BlockParts DEF PeersIn, Sane
  <2>3. i # j
    BY <1>2, <2>1, <2>2
  <2>4. /\ LastUse(c) = cache[k][j].time_updated
        /\ LastUse(BlockAt(k, i)) = cache[k][i].time_updated
    BY <2>1, <2>2, LastUseIs
  <2>5. cache[k][i].time_updated \in Nat /\ cache[k][j].time_updated \in Nat
    BY LineTypes DEF Sane
  <2>6. cache[k][i].time_updated # cache[k][j].time_updated
    BY <2>1, <2>2, <2>3 DEF Sane, LinesDistinct
  <2>7. cache[k][i].time_updated <= cache[k][j].time_updated
    BY <2>5 DEF LruPos
  <2>8. QED
    BY <2>4, <2>5, <2>6, <2>7
<1>3. QED
  BY <1>1, <1>2

(* One line of the trace seen on the blocks alone: out is what leaves. *)
Leaves(out, blk) ==
  /\ (blk % NumSets) \in Sets
  /\ Resident' = (Resident \ out) \cup {blk}
  /\ \A c \in Resident' : LastUse(c)' = IF c = blk THEN time ELSE LastUse(c)
  /\ \/ out = {} /\ (blk \in Resident \/ EmptyWays(blk % NumSets) # {})
     \/ /\ blk \notin Resident /\ EmptyWays(blk % NumSets) = {}
        /\ \E v \in PeersIn(blk % NumSets) :
             /\ out = {v}
             /\ \A c \in PeersIn(blk % NumSets) \ {v} : LastUse(v) < LastUse(c)
  /\ \A l \in Sets : EmptyWays(l) = {} => EmptyWays(l)' = {}

LEMMA RunLeaves ==
  ASSUME Sane, Sane', BlocksKnown,
         NEW addr \in Addrs, NEW type \in {"L", "S", "M"}, run(addr, type)
  PROVE  /\ \E out \in SUBSET Resident : Leaves(out, addr \div BlockSize)
         /\ dest'.hits = dest.hits + (IF addr \div BlockSize \in Resident THEN 1 ELSE 0)
                                   + (IF type = "M" THEN 1 ELSE 0)
<1> DEFINE blk == addr \div BlockSize
           k == get_set(addr)
           t == get_tag(addr)
<1>1. PICK r \in 0..2, i \in Ways :
        /\ Put(k, i, t) /\ t \in Nat
        /\ k \in Sets /\ (blk % NumSets) = k
        /\ r = 0 => blk \in Resident /\ BlockAt(k, i) = blk /\ cache[k][i].valid
        /\ r # 0 => blk \notin Resident
        /\ r = 1 => ~cache[k][i].valid /\ EmptyWays(k) # {}
        /\ r = 2 => cache[k][i].valid /\ EmptyWays(k) = {} /\ LruPos(k, i)
        /\ Resident' = (Resident \ (IF cache[k][i].valid THEN {BlockAt(k, i)} ELSE {})) \cup {blk}
        /\ \A c \in Resident' : LastUse(c)' = IF c = blk THEN time ELSE LastUse(c)
        /\ dest' = [hits |-> dest.hits + (IF r = 0 THEN 1 ELSE 0) + (IF type = "M" THEN 1 ELSE 0),
                     misses |-> dest.misses + (IF r # 0 THEN 1 ELSE 0),
                     evictions |-> dest.evictions + (IF r = 2 THEN 1 ELSE 0)]
  BY RunUses
<1> HIDE DEF blk, k, t
<1>2. \A l \in Sets : EmptyWays(l) = {} => EmptyWays(l)' = {}
  <2>1. /\ cache'[k][i] = [valid |-> TRUE, tag |-> t, time_updated |-> time]
        /\ \A l \in Sets, j \in Ways : <<l, j>> # <<k, i>> => cache'[l][j] = cache[l][j]
    BY <1>1, PutEffect DEF Sane
  <2>2. \A l \in Sets, j \in Ways : cache[l][j].valid => cache'[l][j].valid
    BY <2>1
  <2>3. QED
    BY <2>2 DEF EmptyWays
<1>3. CASE r = 2
  <2>1. /\ BlockAt(k, i) \in PeersIn(k) /\ BlockAt(k, i) \in Resident
        /\ \A c \in PeersIn(k) \ {BlockAt(k, i)} : LastUse(BlockAt(k, i)) < LastUse(c)
    BY <1>1, <1>3, VictimIsOldest DEF PeersIn
  <2>2. Leaves({BlockAt(k, i)}, blk)
    BY <1>1, <1>2, <1>3, <2>1 DEF Leaves
  <2>3. QED
    BY <1>1, <1>3, <2>1, <2>2 DEF blk
<1>4. CASE r # 2
  <2>1. Resident' = Resident \cup {blk} /\ (blk \in Resident \/ EmptyWays(k) # {})
    BY <1>1, <1>4
  <2>2. Leaves({}, blk)
    BY <1>1, <1>2, <2>1 DEF Leaves
  <2>3. QED
    BY <1>1, <1>4, <2>2 DEF blk
<1>5. QED
  BY <1>3, <1>4

(* Every state of a run is one that the mapping to Lru can be read off. *)
LEMMA CacheSane == Spec => [](Sane /\ BlocksKnown)
<1>1. Init => BlocksKnown
  <2>1. Init => Resident = {}
    BY DEF Init, cache_init, Empty, Resident, ValidLines
  <2>2. QED
    BY <2>1 DEF BlocksKnown
<1>2. Sane /\ Sane' /\ BlocksKnown /\ [Next]_vars => BlocksKnown'
  BY BlocksStayKnown
<1>3. Spec => []Sane
  BY CsimTypeCorrect, LinesStayDistinct, PTL DEF Sane
<1>4. QED
  BY <1>1, <1>2, <1>3, PTL DEF Spec

(* csim.c simulates an LRU cache: the blocks cached, when each was last used,
   the victim of every eviction and the three counters are those of Lru. *)
THEOREM LruImplemented == Spec => ImplementsLru
<1>1. Init => Abstract!Init
  <2> SUFFICES ASSUME Init PROVE Abstract!Init
    OBVIOUS
  <2>1. Resident = {}
    BY DEF Init, cache_init, Empty, Resident, ValidLines
  <2>2. QED
    BY <2>1 DEF Init, Abstract!Init
<1>2. Sane /\ Sane' /\ BlocksKnown /\ BlocksKnown' /\ [Next]_vars => [Abstract!Next]_(Abstract!vars)
  <2> SUFFICES ASSUME Sane, Sane', BlocksKnown, BlocksKnown', [Next]_vars
               PROVE  Abstract!Next \/ UNCHANGED Abstract!vars
    OBVIOUS
  <2>1. CASE Next
    BY <2>1, RunSteps DEF Next
  <2>2. CASE UNCHANGED vars
    BY <2>2 DEF vars, Abstract!vars, Resident, ValidLines, BlockAt, LastUse
  <2>3. QED
    BY <2>1, <2>2
<1>3. QED
  BY <1>1, <1>2, CacheSane, PTL DEF Spec, ImplementsLru, Abstract!Spec
=============================================================================
