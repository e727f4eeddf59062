------------------------------- MODULE Lru -------------------------------
(***************************************************************************)
(* What a set-associative cache with least-recently-used replacement       *)
(* promises, with no lines, tags or positions: which blocks are resident   *)
(* and when each was last used. csim.c simulates this cache; module Csim   *)
(* is shown to implement it.                                               *)
(***************************************************************************)
EXTENDS Integers, FiniteSets

CONSTANTS
    Blocks,  \* memory blocks
    setOf,   \* the cache set of each block
    E        \* lines per set

VARIABLES
    used,      \* the last use of each resident block; its domain is what is cached
    now,       \* references so far
    hits, misses, evictions

vars == <<used, now, hits, misses, evictions>>

Peers(blk) == {c \in DOMAIN used : setOf[c] = setOf[blk]}

Init ==
    /\ used = [blk \in {} |-> 0]
    /\ now = 0
    /\ hits = 0 /\ misses = 0 /\ evictions = 0

(* The blocks cached are S, and blk is used now. *)
Use(blk, S) ==
    /\ used' = [c \in S \cup {blk} |-> IF c = blk THEN now ELSE used[c]]
    /\ now' = now + 1

(* again: a modify, whose store always hits the block its load just used. *)
Hit(blk, again) ==
    /\ blk \in DOMAIN used
    /\ Use(blk, DOMAIN used)
    /\ hits' = hits + 1 + again
    /\ UNCHANGED <<misses, evictions>>

Fill(blk, again) ==
    /\ blk \notin DOMAIN used
    /\ Cardinality(Peers(blk)) < E
    /\ Use(blk, DOMAIN used)
    /\ hits' = hits + again
    /\ misses' = misses + 1
    /\ UNCHANGED evictions

(* The victim is the block of the set whose last use is the longest ago. *)
Evict(blk, again) ==
    /\ blk \notin DOMAIN used
    /\ Cardinality(Peers(blk)) >= E
    /\ \E victim \in Peers(blk) :
         /\ \A c \in Peers(blk) : used[victim] <= used[c]
         /\ Use(blk, DOMAIN used \ {victim})
    /\ hits' = hits + again
    /\ misses' = misses + 1
    /\ evictions' = evictions + 1

Next ==
    \E blk \in Blocks, again \in {0, 1} :
        Hit(blk, again) \/ Fill(blk, again) \/ Evict(blk, again)

Spec == Init /\ [][Next]_vars
=============================================================================
