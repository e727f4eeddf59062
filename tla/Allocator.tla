------------------------------ MODULE Allocator ------------------------------
(***************************************************************************)
(* What malloc, realloc and free of LAB6_malloclab promise to a program,   *)
(* as eval_mm_valid of mdriver.c checks it: payloads are aligned, lie in   *)
(* the heap, do not overlap, and keep what the program wrote. Module Mm is *)
(* shown to implement it.                                                  *)
(***************************************************************************)
EXTENDS Integers

CONSTANTS
    Ids,        \* the trace's block indices
    Sizes,      \* sizes the trace asks for
    ALIGNMENT,
    MAX_HEAP

VARIABLES
    lo,         \* the payload address of each live block, 0 when there is none
    size,       \* its size
    kept        \* blocks whose payload holds what was written

vars == <<lo, size, kept>>

Init ==
    /\ lo = [i \in Ids |-> 0]
    /\ size = [i \in Ids |-> 0]
    /\ kept = {}

Live == {i \in Ids : lo[i] # 0}

(* n bytes at address p are apart from the payload of block j. *)
Apart(p, n, j) == p + n <= lo[j] \/ lo[j] + size[j] <= p

(* Block i gets n bytes somewhere, and they are written. *)
Give(i, n) ==
    /\ \E p \in 1..MAX_HEAP :
         /\ p % ALIGNMENT = 0 /\ p + n <= MAX_HEAP
         /\ \A j \in Live \ {i} : Apart(p, n, j)
         /\ lo' = [lo EXCEPT ![i] = p]
    /\ size' = [size EXCEPT ![i] = n]
    /\ kept' = kept \cup {i}

Malloc(i, n) == lo[i] = 0 /\ Give(i, n)

(* A block is moved, or not, only with its contents. *)
Realloc(i, n) == i \in kept /\ Give(i, n)

Free(i) ==
    /\ lo[i] # 0
    /\ lo' = [lo EXCEPT ![i] = 0]
    /\ size' = [size EXCEPT ![i] = 0]
    /\ kept' = kept \ {i}

Restart == lo' = [i \in Ids |-> 0] /\ size' = [i \in Ids |-> 0] /\ kept' = {}

Next ==
    \/ \E i \in Ids, n \in Sizes : Malloc(i, n) \/ Realloc(i, n)
    \/ \E i \in Ids : Free(i)
    \/ Restart

Spec == Init /\ [][Next]_vars
=============================================================================
