------------------------------- MODULE Csim -------------------------------
(***************************************************************************)
(* The cache simulator of LAB4_cachelab/csim.c: one action is one line of  *)
(* the trace, that is one turn of the loop of run with its call of         *)
(* access_mem. Lines of type I change nothing and are left out, like the   *)
(* option parsing and the -v output. cache is indexed by set and way       *)
(* instead of by set * E + way; a mask and a shift are a division and a    *)
(* remainder by the powers of two they stand for.                          *)
(***************************************************************************)
EXTENDS Integers, FiniteSets

CONSTANTS
    NumSets,    \* 1 << s
    BlockSize,  \* 1 << b
    E,          \* lines per set
    Addrs,      \* addresses in the trace
    IntMax      \* bound: 0x7fffffff, the largest int; a trace has fewer lines

ASSUME CsimAssumption ==
    /\ NumSets \in Nat \ {0} /\ BlockSize \in Nat \ {0} /\ E \in Nat \ {0}
    /\ Addrs \subseteq Nat /\ IntMax \in Nat

VARIABLES
    cache,  \* the lines of each set
    time,   \* the LRU clock of run
    dest    \* hits, misses and evictions

vars == <<cache, time, dest>>

Sets == 0..(NumSets - 1)
Ways == 0..(E - 1)
Empty == [valid |-> FALSE, tag |-> 0, time_updated |-> 0]

get_tag(addr) == addr \div (BlockSize * NumSets)
get_set(addr) == (addr \div BlockSize) % NumSets

cache_init == cache = [k \in Sets |-> [i \in Ways |-> Empty]]

Init ==
    /\ cache_init
    /\ time = 0
    /\ dest = [hits |-> 0, misses |-> 0, evictions |-> 0]

(* Mutant: the scan stops at the first empty line. *)
MutantHitBeforeEmpty(k, t) ==
    {i \in Ways : cache[k][i].tag = t /\ \A j \in 0..i : cache[k][j].valid}

(* What the scan of set k for tag t finds: the ways that hit, the empty ones,
   and below the ones it keeps for a fill and for an eviction. *)
HitWays(k, t) == {i \in Ways : cache[k][i].tag = t /\ cache[k][i].valid}
EmptyWays(k) == {i \in Ways : ~cache[k][i].valid}

(* first_empty, which is the last one the scan meets. *)
FirstEmpty(k, i) == i \in EmptyWays(k) /\ \A j \in EmptyWays(k) : j <= i

(* Mutant: the victim is the line used last. *)
MutantMruPos(k, i) == i \in Ways /\ \A j \in Ways : cache[k][i].time_updated >= cache[k][j].time_updated

(* lru_pos: the first way with the smallest time below lru_time's start. *)
LruPos(k, i) ==
    /\ i \in Ways /\ cache[k][i].time_updated < IntMax
    /\ \A j \in Ways : cache[k][i].time_updated < cache[k][j].time_updated
                       \/ (cache[k][i].time_updated = cache[k][j].time_updated /\ i <= j)

(* Mutant: the line is stamped with the time before this access. *)
MutantPutEarlier(k, i, t) ==
    cache' = [cache EXCEPT ![k][i] = [valid |-> TRUE, tag |-> t, time_updated |-> time - 1]]

(* Way i of set k holds tag t from now on. *)
Put(k, i, t) ==
    cache' = [cache EXCEPT ![k][i] = [valid |-> TRUE, tag |-> t, time_updated |-> time]]

(* Mutant: a hit does not refresh the line (first in, first out). *)
MutantFifo(addr, r) ==
    LET k == get_set(addr)
        t == get_tag(addr)
    IN  \/ /\ r = 0
           /\ HitWays(k, t) # {} /\ UNCHANGED cache
        \/ /\ r = 1
           /\ HitWays(k, t) = {}
           /\ \E i \in EmptyWays(k) : FirstEmpty(k, i) /\ Put(k, i, t)
        \/ /\ r = 2
           /\ HitWays(k, t) = {} /\ EmptyWays(k) = {}
           /\ \E i \in Ways : LruPos(k, i) /\ Put(k, i, t)

(* access_mem: the new cache, and its result r (0 hit, 1 miss, 2 eviction). *)
access_mem(addr, r) ==
    LET k == get_set(addr)
        t == get_tag(addr)
    IN  \/ /\ r = 0
           /\ \E i \in HitWays(k, t) : (\A j \in HitWays(k, t) : i <= j) /\ Put(k, i, t)
        \/ /\ r = 1
           /\ HitWays(k, t) = {}
           /\ \E i \in EmptyWays(k) : FirstEmpty(k, i) /\ Put(k, i, t)
        \/ /\ r = 2
           /\ HitWays(k, t) = {} /\ EmptyWays(k) = {}
           /\ \E i \in Ways : LruPos(k, i) /\ Put(k, i, t)

(* Mutant: the switch of run does not fall through from eviction to miss. *)
MutantNoFallThrough(addr, type) ==
    /\ time < IntMax
    /\ time' = time + 1
    /\ \E r \in 0..2 :
         /\ access_mem(addr, r)
         /\ dest' = [hits |-> dest.hits + (IF r = 0 THEN 1 ELSE 0) + (IF type = "M" THEN 1 ELSE 0),
                     misses |-> dest.misses + (IF r = 1 THEN 1 ELSE 0),
                     evictions |-> dest.evictions + (IF r = 2 THEN 1 ELSE 0)]

(* One line of the trace: a load, a store, or a modify, which counts one hit
   more. *)
run(addr, type) ==
    /\ time < IntMax
    /\ time' = time + 1
    /\ \E r \in 0..2 :
         /\ access_mem(addr, r)
         /\ dest' = [hits |-> dest.hits + (IF r = 0 THEN 1 ELSE 0) + (IF type = "M" THEN 1 ELSE 0),
                     misses |-> dest.misses + (IF r # 0 THEN 1 ELSE 0),
                     evictions |-> dest.evictions + (IF r = 2 THEN 1 ELSE 0)]

Next == \E addr \in Addrs, type \in {"L", "S", "M"} : run(addr, type)

Spec == Init /\ [][Next]_vars

(***************************************************************************)
(* Properties.                                                             *)
(***************************************************************************)
Line == [valid : BOOLEAN, tag : Nat, time_updated : Nat]

TypeOK ==
    /\ cache \in [Sets -> [Ways -> Line]]
    /\ time \in 0..IntMax
    /\ dest \in [hits : Nat, misses : Nat, evictions : Nat]

ValidLines == {ln \in Sets \X Ways : cache[ln[1]][ln[2]].valid}

(* A block is in one line at most, two lines of a set never carry the same
   time, and no line comes from the future: the LRU victim is unique, although
   access_mem compares an unsigned long with an int and fills the last empty
   line rather than the first. *)
LinesDistinct ==
    /\ \A k \in Sets : \A i, j \in Ways :
         i # j /\ cache[k][i].valid /\ cache[k][j].valid =>
            /\ cache[k][i].tag # cache[k][j].tag
            /\ cache[k][i].time_updated # cache[k][j].time_updated
    /\ \A k \in Sets, i \in Ways : cache[k][i].valid => cache[k][i].time_updated < time

(* Every miss fills an empty line or evicts: misses and evictions account for
   the lines in use. *)
MissesAccountForLines == dest.misses = dest.evictions + Cardinality(ValidLines)

(* The block in a line, and the mapping to the abstract cache. *)
BlockAt(k, i) == cache[k][i].tag * NumSets + k
Resident == {BlockAt(ln[1], ln[2]) : ln \in ValidLines}
LastUse(blk) ==
    LET k == blk % NumSets
        i == CHOOSE w \in Ways : cache[k][w].valid /\ BlockAt(k, w) = blk
    IN  cache[k][i].time_updated

AllBlocks == {addr \div BlockSize : addr \in Addrs}

Abstract == INSTANCE Lru WITH
    Blocks <- AllBlocks,
    setOf <- [blk \in AllBlocks |-> blk % NumSets],
    used <- [blk \in Resident |-> LastUse(blk)],
    now <- time,
    hits <- dest.hits, misses <- dest.misses, evictions <- dest.evictions

(* csim.c simulates an LRU cache: it implements Lru. *)
ImplementsLru == Abstract!Spec
=============================================================================
