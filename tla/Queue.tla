------------------------------- MODULE Queue -------------------------------
(***************************************************************************)
(* The linked queue of LAB0_cprogramminglab/queue.c, driven by the         *)
(* commands of qtest.c over the allocator of harness.c. One action is one  *)
(* command; "ih v n" and "it v n" are n of them.                           *)
(*                                                                         *)
(* malloc returns any cell that is free, one just freed included, or fails *)
(* (the option "malloc" sets how often). A freed cell keeps existing: it   *)
(* is filled with FILLCHAR, and a dangling pointer can still write to it.  *)
(* The queue header is a block of its own. Not modelled: the time limit    *)
(* of a command, the check for the pattern random() left in val, and what  *)
(* a command does after it followed a pointer out of a freed cell.         *)
(***************************************************************************)
EXTENDS Integers, FiniteSets, Sequences

CONSTANTS
    Cells,      \* list elements malloc can return; bounds the queue
    NULL,
    FILL,       \* a pointer or a value read from memory filled with FILLCHAR
    Values,     \* what the user inserts
    FailLimit   \* fail_limit

ASSUME QueueAssumption ==
    /\ IsFiniteSet(Cells) /\ NULL \notin Cells /\ FILL \notin Cells /\ NULL # FILL
    /\ FILL \notin Values /\ Values # {}
    /\ FailLimit \in Nat

VARIABLES
    q,           \* there is a queue: q # NULL
    head, tail, size,
    cell,        \* value and next of each cell
    allocated,   \* cells that malloc returned and that were not freed
    removed,     \* the value stored last through vp
    qcnt,        \* the driver's own count of the elements
    fail_count,  \* failed operations, counted up to FailLimit
    report,      \* what the last command complained about
    quit_flag

heap == <<cell, allocated>>
queue == <<q, head, tail, size>>
vars == <<queue, heap, removed, qcnt, fail_count, report, quit_flag>>

Filled == [value |-> FILL, next |-> FILL]

(***************************************************************************)
(* The list as a walk from head sees it.                                   *)
(***************************************************************************)
Longest == Cardinality(Cells)

(* Nth[n] is the pointer after n steps from head; a walk stops at NULL. *)
Nth[n \in 0..Longest] ==
    IF n = 0 THEN head
    ELSE IF Nth[n - 1] \in Cells THEN cell[Nth[n - 1]].next ELSE Nth[n - 1]

Reach == {Nth[n] : n \in 0..Longest} \cap Cells

(* The walk ends. One that goes through a freed cell, or round a cycle, is
   undefined; commands that would make it are not modelled. *)
Walkable == Nth[Longest] = NULL

Init ==
    /\ q = FALSE /\ head = NULL /\ tail = NULL /\ size = 0
    /\ cell = [c \in Cells |-> Filled]
    /\ allocated = {}
    /\ removed \in Values
    /\ qcnt = 0 /\ fail_count = 0
    /\ report = "none"
    /\ quit_flag = FALSE

(***************************************************************************)
(* queue.c. Each operator with an rval is one of its functions and what it *)
(* returns.                                                                *)
(***************************************************************************)

(* The header, when malloc has one; without a header its fields are dummies. *)
q_new(rval) ==
    /\ q' = rval
    /\ head' = NULL /\ tail' = NULL /\ size' = 0

(* Mutant: the queue is freed without its elements. *)
MutantFreeHeaderOnly ==
    /\ Walkable
    /\ UNCHANGED heap

q_free ==
    /\ Walkable
    /\ allocated' = allocated \ Reach
    /\ cell' = [c \in Cells |-> IF c \in Reach THEN Filled ELSE cell[c]]

(* Mutant: an element inserted into an empty queue does not become its tail. *)
MutantInsertHeadNoTail(v, rval) ==
    IF rval
    THEN \E c \in Cells \ allocated :
            /\ q
            /\ allocated' = allocated \cup {c}
            /\ cell' = [cell EXCEPT ![c] = [value |-> v, next |-> head]]
            /\ head' = c
            /\ size' = size + 1
            /\ UNCHANGED <<q, tail>>
    ELSE UNCHANGED <<queue, heap>>

q_insert_head(v, rval) ==
    IF rval
    THEN \E c \in Cells \ allocated :
            /\ q
            /\ allocated' = allocated \cup {c}
            /\ cell' = [cell EXCEPT ![c] = [value |-> v, next |-> head]]
            /\ head' = c
            /\ tail' = IF size = 0 THEN c ELSE tail
            /\ size' = size + 1
            /\ UNCHANGED q
    ELSE UNCHANGED <<queue, heap>>

(* Mutant: the size is not updated. *)
MutantInsertTailNoSize(v, rval) ==
    IF rval
    THEN \E c \in Cells \ allocated :
            /\ q
            /\ allocated' = allocated \cup {c}
            /\ LET new == [cell EXCEPT ![c] = [value |-> v, next |-> NULL]] IN
               cell' = IF tail = NULL THEN new ELSE [new EXCEPT ![tail] = [new[tail] EXCEPT !.next = c]]
            /\ head' = IF tail = NULL THEN c ELSE head
            /\ tail' = c
            /\ UNCHANGED <<q, size>>
    ELSE UNCHANGED <<queue, heap>>

(* The empty queue is recognised by tail = NULL, and tail, which may dangle,
   is written through. *)
q_insert_tail(v, rval) ==
    IF rval
    THEN \E c \in Cells \ allocated :
            /\ q
            /\ allocated' = allocated \cup {c}
            /\ LET new == [cell EXCEPT ![c] = [value |-> v, next |-> NULL]] IN
               cell' = IF tail = NULL THEN new ELSE [new EXCEPT ![tail] = [new[tail] EXCEPT !.next = c]]
            /\ head' = IF tail = NULL THEN c ELSE head
            /\ tail' = c
            /\ size' = size + 1
            /\ UNCHANGED q
    ELSE UNCHANGED <<queue, heap>>

(* Mutant: the value is read after the cell was freed. *)
MutantRemoveReadsLate(vp, rval) ==
    /\ Walkable
    /\ rval = (q /\ head # NULL)
    /\ IF rval
       THEN /\ removed' = IF vp THEN Filled.value ELSE removed
            /\ head' = cell[head].next
            /\ allocated' = allocated \ {head}
            /\ cell' = [cell EXCEPT ![head] = Filled]
            /\ size' = size - 1
            /\ UNCHANGED <<q, tail>>
       ELSE UNCHANGED <<queue, heap, removed>>

(* Mutant: the cell removed is not freed. *)
MutantRemoveNoFree(vp, rval) ==
    /\ rval = (q /\ head # NULL)
    /\ IF rval
       THEN /\ removed' = IF vp THEN cell[head].value ELSE removed
            /\ head' = cell[head].next
            /\ size' = size - 1
            /\ UNCHANGED <<q, tail, heap>>
       ELSE UNCHANGED <<queue, heap, removed>>

(* vp: the caller wants the value. tail is left alone, also when the last
   element goes. *)
q_remove_head(vp, rval) ==
    /\ Walkable
    /\ rval = (q /\ head # NULL)
    /\ IF rval
       THEN /\ removed' = IF vp THEN cell[head].value ELSE removed
            /\ head' = cell[head].next
            /\ allocated' = allocated \ {head}
            /\ cell' = [cell EXCEPT ![head] = Filled]
            /\ size' = size - 1
            /\ UNCHANGED <<q, tail>>
       ELSE UNCHANGED <<queue, heap, removed>>

(* The pointers a, b and c of q_reverse and the next fields after n turns of
   its loop. *)
Turn[n \in 0..Longest] ==
    IF n = 0
    THEN LET x == cell[head].next
             y == cell[x].next
         IN  [a |-> head, b |-> x, c |-> y,
              next |-> [k \in Cells |-> IF k = head THEN NULL ELSE IF k = x THEN head ELSE cell[k].next]]
    ELSE LET t == Turn[n - 1] IN
         IF t.c = NULL THEN t
         ELSE [a |-> t.b, b |-> t.c, c |-> t.next[t.c], next |-> [t.next EXCEPT ![t.c] = t.b]]

(* Mutant: head and tail are not exchanged when there are two elements. *)
MutantReverseTwo ==
    /\ Walkable
    /\ IF q /\ head # NULL /\ Nth[1] # NULL
       THEN /\ cell' = [k \in Cells |-> [cell[k] EXCEPT !.next = Turn[Longest].next[k]]]
            /\ head' = Turn[0].b
            /\ tail' = head
            /\ UNCHANGED <<q, size, allocated>>
       ELSE UNCHANGED <<queue, heap>>

q_reverse ==
    /\ Walkable
    /\ IF q /\ head # NULL /\ Nth[1] # NULL
       THEN /\ cell' = [k \in Cells |-> [cell[k] EXCEPT !.next = Turn[Longest].next[k]]]
            /\ head' = tail
            /\ tail' = head
            /\ UNCHANGED <<q, size, allocated>>
       ELSE UNCHANGED <<queue, heap>>

(***************************************************************************)
(* qtest.c: the commands. None is read after quit.                         *)
(***************************************************************************)

(* An operation returned rval: n is added to qcnt, or the failure counts and
   is an error when there were too many, or when it must not fail. *)
Outcome(rval, n, strict) ==
    IF rval THEN qcnt' = qcnt + n /\ report' = "none" /\ UNCHANGED fail_count
    ELSE /\ fail_count' = IF fail_count < FailLimit THEN fail_count + 1 ELSE FailLimit
         /\ report' = IF strict \/ fail_count' >= FailLimit THEN "failed" ELSE "none"
         /\ UNCHANGED qcnt

Leak == IF allocated' # {} THEN "leak" ELSE "none"

do_new ==
    /\ ~quit_flag
    /\ IF q THEN q_free /\ report' = Leak ELSE UNCHANGED heap /\ report' = "none"
    /\ \E rval \in BOOLEAN : q_new(rval)
    /\ qcnt' = 0
    /\ UNCHANGED <<removed, fail_count, quit_flag>>

do_free ==
    /\ ~quit_flag
    /\ IF q THEN q_free ELSE UNCHANGED heap
    /\ q_new(FALSE)
    /\ qcnt' = 0
    /\ report' = Leak
    /\ UNCHANGED <<removed, fail_count, quit_flag>>

do_insert_head(v) ==
    /\ ~quit_flag
    /\ \E rval \in BOOLEAN : q_insert_head(v, rval) /\ Outcome(rval, 1, FALSE)
    /\ UNCHANGED <<removed, quit_flag>>

do_insert_tail(v) ==
    /\ ~quit_flag
    /\ \E rval \in BOOLEAN : q_insert_tail(v, rval) /\ Outcome(rval, 1, FALSE)
    /\ UNCHANGED <<removed, quit_flag>>

(* rh, and rh with the value the user expects. *)
do_remove_head(check, eval) ==
    /\ ~quit_flag
    /\ \E rval \in BOOLEAN :
         /\ q_remove_head(TRUE, rval)
         /\ IF rval /\ check /\ removed' # eval
            THEN qcnt' = qcnt - 1 /\ report' = "mismatch" /\ UNCHANGED fail_count
            ELSE Outcome(rval, -1, check)
    /\ UNCHANGED quit_flag

do_remove_head_quiet ==
    /\ ~quit_flag
    /\ \E rval \in BOOLEAN : q_remove_head(FALSE, rval) /\ Outcome(rval, -1, FALSE)
    /\ UNCHANGED quit_flag

do_reverse ==
    /\ ~quit_flag
    /\ q_reverse
    /\ report' = "none"
    /\ UNCHANGED <<removed, qcnt, fail_count, quit_flag>>

do_size ==
    /\ ~quit_flag
    /\ report' = IF (IF q THEN size ELSE 0) = qcnt THEN "none" ELSE "wrong size"
    /\ UNCHANGED <<queue, heap, removed, qcnt, fail_count, quit_flag>>

(* show walks at most qcnt elements, and complains when there are more. *)
do_show ==
    /\ ~quit_flag
    /\ report' = IF q /\ qcnt < Longest /\ Nth[qcnt] # NULL THEN "cycle" ELSE "none"
    /\ UNCHANGED <<queue, heap, removed, qcnt, fail_count, quit_flag>>

(* quit, or the end of the commands: the queue is freed, qcnt is not reset. *)
queue_quit ==
    /\ ~quit_flag
    /\ IF q THEN q_free ELSE UNCHANGED heap
    /\ report' = Leak
    /\ quit_flag' = TRUE
    /\ q_new(FALSE)
    /\ UNCHANGED <<removed, qcnt, fail_count>>

Other ==
    \/ do_new \/ do_free
    \/ \E v \in Values : do_insert_head(v)
    \/ \E v \in Values, check \in BOOLEAN : do_remove_head(check, v)
    \/ do_remove_head_quiet
    \/ do_reverse
    \/ do_size
    \/ do_show
    \/ queue_quit

Next ==
    \/ Other
    \/ \E v \in Values : do_insert_tail(v)

Spec == Init /\ [][Next]_vars

(* A user who never inserts at the tail of a queue whose last element was
   removed. *)
CarefulNext ==
    \/ Other
    \/ \E v \in Values : (size > 0 \/ tail = NULL) /\ do_insert_tail(v)

CarefulSpec == Init /\ [][CarefulNext]_vars

(***************************************************************************)
(* Properties.                                                             *)
(***************************************************************************)
Pointers == Cells \cup {NULL}
Reports == {"none", "failed", "leak", "mismatch", "wrong size", "cycle"}

TypeOK ==
    /\ q \in BOOLEAN
    /\ head \in Pointers /\ tail \in Pointers /\ size \in Nat
    /\ cell \in [Cells -> [value : Values \cup {FILL}, next : Pointers \cup {FILL}]]
    /\ allocated \subseteq Cells
    /\ removed \in Values
    /\ qcnt \in Nat
    /\ fail_count \in 0..FailLimit
    /\ report \in Reports
    /\ quit_flag \in BOOLEAN

(* queue.h lines 24-31: head is a list of size elements, and tail is its last
   one. tail may be anything in an empty queue. *)
SizeAndTail ==
    q => /\ Walkable
         /\ size = Cardinality(Reach)
         /\ size > 0 => Nth[size - 1] = tail

(* queue.h lines 43-47 and harness.c: every block malloc gave and free did not
   take back is an element of the queue, and no element was freed. So q_free
   and q_remove_head free every block once, and nothing leaks. *)
NothingLeaks == allocated = Reach

(* The driver never blames a queue used with care: its count of the elements,
   its count of the blocks and its walk always agree with the queue. *)
NoFalseAlarm == report \notin {"leak", "wrong size", "cycle"}

(* The values from head to tail. *)
Items == [n \in 1..Cardinality(Reach) |-> cell[Nth[n - 1]].value]

Abstract == INSTANCE Deque WITH exists <- q, items <- Items

(* queue.c implements a double-ended queue: FIFO and LIFO order, and reversal,
   come out of the pointers. *)
ImplementsDeque == Abstract!Spec
=============================================================================
