-------------------------------- MODULE Mm --------------------------------
(***************************************************************************)
(* The allocator LAB6_malloclab/mm.c over the heap of memlib.c, driven by  *)
(* eval_mm_valid of mdriver.c. The heap is memory, word by word: block     *)
(* headers and footers, the free list's pointers inside free blocks, and   *)
(* what the program wrote into its own. The functions of mm.c are          *)
(* operators from a heap to a heap; one action is one line of a trace.     *)
(*                                                                         *)
(* Addresses and sizes are in bytes and start at the bottom of the heap,   *)
(* so 0 is no block and stands for NULL. Data words are negative: they are *)
(* never mistaken for a header or a pointer. mm_check is off (DEBUG 0) and *)
(* its conditions are properties here.                                     *)
(***************************************************************************)
EXTENDS Integers

CONSTANTS
    MAX_HEAP,   \* bytes memlib has
    CHUNKSIZE,  \* bytes of the first extension
    Ids,        \* block indices of the trace: positive integers
    Sizes       \* sizes the trace asks for: multiples of a word

ASSUME MmAssumption ==
    /\ Ids \subseteq Nat \ {0}
    /\ \A n \in Sizes : n \in Nat \ {0} /\ n % 4 = 0
    /\ CHUNKSIZE \in Nat /\ CHUNKSIZE % 8 = 0 /\ CHUNKSIZE >= 16
    /\ MAX_HEAP \in Nat /\ MAX_HEAP >= 16 + CHUNKSIZE

VARIABLES
    heap,         \* mem, roots, and the break brk
    blocks,       \* trace->blocks, 0 when not on the range list
    block_sizes,  \* trace->block_sizes
    verdict       \* "ok", what mdriver complained about, or "crashed"

vars == <<heap, blocks, block_sizes, verdict>>

WSIZE == 4
DSIZE == 8
ALIGNMENT == 8
NULL == 0
Words == {WSIZE * k : k \in 0..(MAX_HEAP \div WSIZE - 1)}
Junk == -1000
Data(id) == -id
ALIGN(n) == ((n + ALIGNMENT - 1) \div ALIGNMENT) * ALIGNMENT

(* Blocks there can be, which bounds every walk along a list. *)
MaxBlocks == MAX_HEAP \div 16

(* The block a loop has come to after each of its turns: it starts at from, goes
   from p to next[p], and stays where it is when it is done. *)
Walk(next, from) ==
    LET At[n \in 0..MaxBlocks] == IF n = 0 THEN from ELSE next[At[n - 1]]
    IN  At
WalksTo(next, from) == Walk(next, from)[MaxBlocks]

(***************************************************************************)
(* Words, headers and footers.                                             *)
(***************************************************************************)
(* Outside the heap there is Junk. *)
GET(h, p) == IF p \in DOMAIN h.mem THEN h.mem[p] ELSE Junk
PUT(h, p, v) == [h EXCEPT !.mem[p] = v]
GET_SIZE(h, p) == GET(h, p) - (GET(h, p) % 8)
GET_ALLOC(h, p) == GET(h, p) % 2

HDRP(bp) == bp - WSIZE
FTRP(h, bp) == bp + GET_SIZE(h, HDRP(bp)) - DSIZE
NEXT_BLKP(h, bp) == bp + GET_SIZE(h, HDRP(bp))
PREV_BLKP(h, bp) == bp - GET_SIZE(h, bp - DSIZE)

(* Header and footer of the block at bp; the footer is where the new header
   says. *)
Pack(h, bp, size, alloc) ==
    PUT(PUT(h, HDRP(bp), size + alloc), bp + size - DSIZE, size + alloc)

(***************************************************************************)
(* The free lists. A free block holds the next and the previous free block *)
(* in its first two words.                                                 *)
(***************************************************************************)
get_root_index(size) ==
    IF size <= 2 THEN 0 ELSE IF size <= 3 THEN 1 ELSE IF size <= 4 THEN 2
    ELSE IF size <= 8 THEN 3 ELSE 4

Next_free(h, p) == GET(h, p)

(* Mutant: the block after bp keeps its old prev. *)
MutantJoinNoPrev(h, i, x, y) ==
    IF x = NULL THEN [h EXCEPT !.roots[i] = y] ELSE PUT(h, x, y)

(* List i of h becomes ... x, y ...: x is NULL at the front, y at the end. *)
Join(h, i, x, y) ==
    LET g == IF y # NULL THEN PUT(h, y + WSIZE, x) ELSE h
    IN  IF x = NULL THEN [g EXCEPT !.roots[i] = y] ELSE PUT(g, x, y)

(* The last block of list i before block bp in address order. *)
Before(h, i, bp) ==
    LET next == [p \in Int |-> IF Next_free(h, p) # NULL /\ bp > Next_free(h, p) THEN Next_free(h, p) ELSE p]
    IN  IF h.roots[i] = NULL \/ bp < h.roots[i] THEN NULL ELSE WalksTo(next, h.roots[i])

put_block(h, bp) ==
    LET i == get_root_index(GET_SIZE(h, HDRP(bp)))
        x == Before(h, i, bp)
        y == IF x = NULL THEN h.roots[i] ELSE Next_free(h, x)
    IN  Join(Join(h, i, bp, y), i, x, bp)

(* The block of list i that points to bp. *)
PointsTo(h, i, bp) ==
    LET next == [p \in Int |-> IF Next_free(h, p) # bp THEN Next_free(h, p) ELSE p]
    IN  IF h.roots[i] = bp THEN NULL ELSE WalksTo(next, h.roots[i])

remove_block(h, bp) ==
    LET i == get_root_index(GET_SIZE(h, HDRP(bp)))
    IN  Join(h, i, PointsTo(h, i, bp), Next_free(h, bp))

(* The first block large enough of list i, NULL when there is none. *)
FirstFit(h, i, size) ==
    LET next == [p \in Int |-> IF p # NULL /\ GET_SIZE(h, HDRP(p)) < size THEN Next_free(h, p) ELSE p]
    IN  WalksTo(next, h.roots[i])

get_block(h, size) ==
    LET Lists == {i \in get_root_index(size)..4 : FirstFit(h, i, size) # NULL}
    IN  IF Lists = {} THEN NULL
        ELSE FirstFit(h, CHOOSE i \in Lists : \A j \in Lists : i <= j, size)

(***************************************************************************)
(* mm.c. A result r has the heap r.heap and the block r.bp, NULL for none. *)
(***************************************************************************)
Result(h, bp) == [heap |-> h, bp |-> bp]

FreeAt(h, p) == GET_ALLOC(h, HDRP(p)) = 0

(* What a neighbour at p adds to a merged block of h: its size, if it is free;
   then it leaves its list in g. *)
Adds(h, p) == IF FreeAt(h, p) THEN GET_SIZE(h, HDRP(p)) ELSE 0
Leaves(h, g, p) == IF FreeAt(h, p) THEN remove_block(g, p) ELSE g

(* Where the block merged from bp begins: before each use mm.c finds the block
   before bp again, in g as it is by then. *)
Begins(h, g, bp) == IF FreeAt(h, PREV_BLKP(h, bp)) THEN PREV_BLKP(g, bp) ELSE bp

(* Free block bp becomes one with the free blocks next to it: all of them leave
   the free list, in address order, and the whole comes back in one piece. *)
coalesce(h, bp) ==
    LET prev == PREV_BLKP(h, bp)
        next == NEXT_BLKP(h, bp)
        size == Adds(h, prev) + GET_SIZE(h, HDRP(bp)) + Adds(h, next)
        off == Leaves(h, remove_block(Leaves(h, h, prev), bp), next)
        whole == Pack(off, Begins(h, off, bp), size, 0)
        listed == put_block(whole, Begins(h, whole, bp))
    IN  IF ~FreeAt(h, prev) /\ ~FreeAt(h, next) THEN Result(h, bp)
        ELSE Result(listed, Begins(h, listed, bp))

(* extend_heap, with n bytes instead of n / WSIZE words; mem_sbrk fails when the
   heap would outgrow MAX_HEAP. *)
extend_heap(h, n) ==
    LET even == IF (n \div WSIZE) % 2 = 1 THEN (n \div WSIZE + 1) * WSIZE ELSE (n \div WSIZE) * WSIZE
        size == IF even < 16 THEN 16 ELSE even
        bp == h.brk
        grown == PUT([h EXCEPT !.brk = h.brk + size], HDRP(bp + size), 1)
    IN  IF h.brk + size > MAX_HEAP THEN Result(h, NULL)
        ELSE coalesce(put_block(Pack(grown, bp, size, 0), bp), bp)

(* Mutant: a rest of 8 bytes becomes a block. *)
MutantPlaceSmallRest(h, bp, size) ==
    LET bsize == GET_SIZE(h, HDRP(bp))
        g == remove_block(h, bp)
    IN  IF bsize - size < DSIZE THEN Pack(g, bp, bsize, 1)
        ELSE put_block(Pack(Pack(g, bp, size, 1), bp + size, bsize - size, 0), bp + size)

(* Mutant: a block given away whole stays on the free list. *)
MutantPlaceStaysListed(h, bp, size) ==
    LET bsize == GET_SIZE(h, HDRP(bp))
        g == remove_block(h, bp)
    IN  IF bsize - size < 2 * DSIZE THEN Pack(h, bp, bsize, 1)
        ELSE put_block(Pack(Pack(g, bp, size, 1), bp + size, bsize - size, 0), bp + size)

(* The first size bytes of free block bp are allocated; a rest of 16 bytes or
   more is a free block again. *)
place(h, bp, size) ==
    LET bsize == GET_SIZE(h, HDRP(bp))
        g == remove_block(h, bp)
    IN  IF bsize - size < 2 * DSIZE THEN Pack(g, bp, bsize, 1)
        ELSE put_block(Pack(Pack(g, bp, size, 1), bp + size, bsize - size, 0), bp + size)

asize(size) == IF size < DSIZE THEN 2 * DSIZE ELSE ALIGN(size + DSIZE)

(* place(NULL) is the result NULL here, and a crash of the program. *)
Placed(r, size) == IF r.bp = NULL THEN r ELSE Result(place(r.heap, r.bp, size), r.bp)

LastBlock(h) == PREV_BLKP(h, h.brk)

(* The block found, or the heap grows by what a free last block lacks. *)
FitOrExtend(h, fit, size) ==
    IF fit # NULL THEN Result(h, fit)
    ELSE extend_heap(h, size - (IF GET_ALLOC(h, HDRP(LastBlock(h))) = 1 THEN 0 ELSE GET_SIZE(h, HDRP(LastBlock(h)))))

(* A heap that cannot grow is not reported: place follows. *)
mm_malloc(h, size) == Placed(FitOrExtend(h, get_block(h, asize(size)), asize(size)), asize(size))

mm_free(h, bp) ==
    LET free == Pack(h, bp, GET_SIZE(h, HDRP(bp)), 0)
    IN  coalesce(put_block(free, bp), bp).heap

(* memcpy and memset of n bytes. *)
Copy(h, to, from, n) ==
    [h EXCEPT !.mem = [p \in Words |-> IF p \in to..(to + n - 1) THEN GET(h, p - to + from) ELSE h.mem[p]]]
Fill(h, bp, n, v) ==
    [h EXCEPT !.mem = [p \in Words |-> IF p \in bp..(bp + n - 1) THEN v ELSE h.mem[p]]]

copySize(h, old, size) ==
    LET room == GET_SIZE(h, HDRP(old)) - DSIZE IN IF size < room THEN size ELSE room

(* Mutant: the old block is not freed. *)
MutantKeepsOld(r, old, size) ==
    IF r.bp = NULL THEN r ELSE Result(Copy(r.heap, r.bp, old, copySize(r.heap, old, size)), r.bp)

(* Mutant: the old block is freed before it is copied. *)
MutantFreesFirst(r, old, size) ==
    IF r.bp = NULL THEN r
    ELSE Result(Copy(mm_free(r.heap, old), r.bp, old, copySize(r.heap, old, size)), r.bp)

(* After mm_malloc returned r: the data moves, and the old block is freed. *)
Move(r, old, size) ==
    IF r.bp = NULL THEN r
    ELSE Result(mm_free(Copy(r.heap, r.bp, old, copySize(r.heap, old, size)), old), r.bp)

mm_realloc(h, old, size) == Move(mm_malloc(h, size), old, size)

(* The blocks of h by their headers; the walk ends at the epilogue, whose size
   is 0. *)
BlockAt(h, k) ==
    LET next == [p \in Int |-> NEXT_BLKP(h, p)] IN Walk(next, 16)[k]
BlocksOf(h) == {BlockAt(h, n) : n \in 0..MaxBlocks} \ {h.brk}

(* The words of h that hold a tag, or a link of a free block. *)
Tags(h) ==
    {0, 4, 8, 12, HDRP(h.brk)}
    \cup (UNION {{HDRP(bp), FTRP(h, bp)} : bp \in BlocksOf(h)})
    \cup (UNION {{bp, bp + WSIZE} : bp \in {b \in BlocksOf(h) : GET_ALLOC(h, HDRP(b)) = 0}})

(* Between two lines of a trace, a word that is no tag, no link and in none of
   the payloads holds Junk: nothing may depend on what was
   left there, and a line that did would take Junk for it. *)
Forget(h, bps, sizes) ==
    LET written == UNION {bps[i]..(bps[i] + sizes[i] - 1) : i \in {j \in Ids : bps[j] # NULL}}
        used == Tags(h) \cup written
    IN  [h EXCEPT !.mem = [p \in Words |-> IF p \in used THEN h.mem[p] ELSE Junk]]

(* mem_reset_brk and mm_init: padding, prologue, epilogue, and a first free
   block. What the heap held before is lost. *)
mm_init ==
    LET empty == [mem |-> [p \in Words |-> IF p = 0 THEN 0 ELSE IF p \in {4, 8} THEN DSIZE + 1 ELSE IF p = 12 THEN 1 ELSE Junk],
                  roots |-> [i \in 0..4 |-> NULL],
                  brk |-> 4 * WSIZE]
    IN  extend_heap(empty, CHUNKSIZE).heap

Init ==
    /\ heap = mm_init
    /\ blocks = [i \in Ids |-> NULL]
    /\ block_sizes = [i \in Ids |-> 0]
    /\ verdict = "ok"

(***************************************************************************)
(* mdriver.c: the lines of a trace.                                        *)
(***************************************************************************)
Live == {i \in Ids : blocks[i] # NULL}

(* add_range: aligned, in the heap, and apart from the ranges of S. *)
add_range(h, lo, size, S) ==
    LET hi == lo + size - 1 IN
    /\ lo % ALIGNMENT = 0
    /\ lo \in 0..(h.brk - 1) /\ hi \in 0..(h.brk - 1)
    /\ \A j \in S : LET jhi == blocks[j] + block_sizes[j] - 1 IN
         lo \notin blocks[j]..jhi /\ hi \notin blocks[j]..jhi

(* Mutant: the driver keeps the padded size. *)
MutantRememberPadded(i, r, size) ==
    /\ blocks' = [blocks EXCEPT ![i] = r.bp]
    /\ block_sizes' = [block_sizes EXCEPT ![i] = asize(size)]
    /\ heap' = Forget(Fill(r.heap, r.bp, size, Data(i)), blocks', block_sizes')

(* Block i is r.bp of heap r.heap from now on, and it is written. *)
Remember(i, r, size) ==
    /\ blocks' = [blocks EXCEPT ![i] = r.bp]
    /\ block_sizes' = [block_sizes EXCEPT ![i] = size]
    /\ heap' = Forget(Fill(r.heap, r.bp, size, Data(i)), blocks', block_sizes')

Crash == verdict' = "crashed" /\ UNCHANGED <<heap, blocks, block_sizes>>

ALLOC(i, size) ==
    /\ verdict = "ok"
    /\ blocks[i] = NULL
    /\ \E r \in {mm_malloc(heap, size)} :
         IF r.bp = NULL THEN Crash
         ELSE /\ Remember(i, r, size)
              /\ verdict' = IF add_range(r.heap, r.bp, size, Live) THEN "ok" ELSE "bad_range"

REALLOC(i, size) ==
    /\ verdict = "ok"
    /\ blocks[i] # NULL
    /\ \E r \in {mm_realloc(heap, blocks[i], size)} :
         LET oldsize == IF size < block_sizes[i] THEN size ELSE block_sizes[i] IN
         IF r.bp = NULL THEN Crash
         ELSE /\ Remember(i, r, size)
              /\ verdict' = IF ~add_range(r.heap, r.bp, size, Live \ {i}) THEN "bad_range"
                            ELSE IF \A p \in Words \cap (r.bp..(r.bp + oldsize - 1)) : r.heap.mem[p] = Data(i)
                                 THEN "ok" ELSE "data_lost"

FREE(i) ==
    /\ verdict = "ok"
    /\ blocks[i] # NULL
    /\ blocks' = [blocks EXCEPT ![i] = NULL]
    /\ block_sizes' = [block_sizes EXCEPT ![i] = 0]
    /\ heap' = Forget(mm_free(heap, blocks[i]), blocks', block_sizes')
    /\ UNCHANGED verdict

(* The next trace, or the end of one that ended badly. *)
Restart ==
    /\ verdict # "crashed"
    /\ heap' = mm_init
    /\ blocks' = [i \in Ids |-> NULL]
    /\ block_sizes' = [i \in Ids |-> 0]
    /\ verdict' = "ok"

Next ==
    \/ \E i \in Ids, size \in Sizes : ALLOC(i, size)
    \/ \E i \in Ids, size \in Sizes : REALLOC(i, size)
    \/ \E i \in Ids : FREE(i)
    \/ Restart

Spec == Init /\ [][Next]_vars

(***************************************************************************)
(* Properties.                                                             *)
(***************************************************************************)
TypeOK ==
    /\ heap.mem \in [Words -> Int]
    /\ heap.roots \in [0..4 -> 0..MAX_HEAP]
    /\ heap.brk \in 16..MAX_HEAP
    /\ blocks \in [Ids -> 0..MAX_HEAP]
    /\ block_sizes \in [Ids -> Sizes \cup {0}]
    /\ verdict \in {"ok", "bad_range", "data_lost", "crashed"}

Blocks == BlocksOf(heap)
IsFree(bp) == GET_ALLOC(heap, HDRP(bp)) = 0

(* The headers tile the heap up to the epilogue, every footer equals its header,
   and no two neighbours are both free (mm_check_no_contiguous_free): boundary
   tags written by any mix of splitting, merging and growing agree. *)
TagsTile ==
    /\ BlockAt(heap, MaxBlocks) = heap.brk
    /\ GET(heap, HDRP(heap.brk)) = 1
    /\ \A bp \in Blocks :
         /\ bp % ALIGNMENT = 0 /\ GET_SIZE(heap, HDRP(bp)) >= 16
         /\ GET(heap, HDRP(bp)) = GET(heap, FTRP(heap, bp))
         /\ ~(IsFree(bp) /\ NEXT_BLKP(heap, bp) # heap.brk /\ IsFree(NEXT_BLKP(heap, bp)))

(* The free lists hold exactly the free blocks of the heap, in address order and
   linked in both directions (mm_check_all_free, mm_check_point_to_free, and
   mm_check_free_in_list, which mm.c leaves empty). *)
FreeListed == Walk([p \in Int |-> IF p = NULL THEN NULL ELSE Next_free(heap, p)], heap.roots[4])

FreeListExact ==
    /\ \A i \in 0..3 : heap.roots[i] = NULL
    /\ {FreeListed[n] : n \in 0..MaxBlocks} \ {NULL} = {bp \in Blocks : IsFree(bp)}
    /\ \A n \in 1..MaxBlocks : FreeListed[n] # NULL =>
         FreeListed[n - 1] < FreeListed[n] /\ GET(heap, FreeListed[n] + WSIZE) = FreeListed[n - 1]

(* Every allocated block belongs to the trace, and to one index: no block is
   lost by free, realloc or a split. *)
NothingLost ==
    /\ {bp \in Blocks : ~IsFree(bp)} = {blocks[i] : i \in Live}
    /\ \A i, j \in Live : blocks[i] = blocks[j] => i = j

(* mdriver never complains: ranges are right, and realloc keeps the data. *)
NoComplaint == verdict \notin {"bad_range", "data_lost"}

(* What the program wrote into its blocks is still there. *)
Kept == {i \in Live : \A p \in Words \cap (blocks[i]..(blocks[i] + block_sizes[i] - 1)) :
                         heap.mem[p] = Data(i)}

Abstract == INSTANCE Allocator WITH lo <- blocks, size <- block_sizes, kept <- Kept

(* mm.c implements an allocator: payloads stay apart, aligned, inside the heap,
   and keep their contents while other blocks come and go; a block that realloc
   reads is intact before it. *)
ImplementsAllocator == Abstract!Spec

(* mdriver.c lines 608-611: an allocator that has no memory left returns NULL,
   which the driver reports. It does not crash. *)
ExhaustionIsReported == verdict # "crashed"
=============================================================================
