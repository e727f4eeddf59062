-------------------------- MODULE CsimInclusion --------------------------
(***************************************************************************)
(* Two csim caches fed the same trace, the second with one line more in    *)
(* every set (csim -E n and csim -E n+1 on one file).                      *)
(***************************************************************************)
EXTENDS Csim

VARIABLES cache2, dest2

Wider == INSTANCE Csim WITH E <- E + 1, cache <- cache2, dest <- dest2

BothInit == Init /\ Wider!Init

BothNext ==
    \E addr \in Addrs, type \in {"L", "S", "M"} : run(addr, type) /\ Wider!run(addr, type)

BothSpec == BothInit /\ [][BothNext]_<<vars, cache2, dest2>>

(* LRU has no Belady anomaly: what the narrow cache holds the wide one holds
   too, so that more lines never mean fewer hits on any trace. *)
Inclusion == Resident \subseteq Wider!Resident /\ dest2.hits >= dest.hits
=============================================================================
