------------------------------- MODULE Deque -------------------------------
(***************************************************************************)
(* What LAB0_cprogramminglab/queue.h promises, with no cells or pointers:  *)
(* a sequence of values that grows at both ends, shrinks at the head and   *)
(* can be reversed. Module Queue is shown to implement it.                 *)
(***************************************************************************)
EXTENDS Integers, Sequences

CONSTANT Values

VARIABLES
    exists,  \* there is a queue
    items,   \* its elements, head first
    removed  \* the value removed last

vars == <<exists, items, removed>>

Init == exists = FALSE /\ items = <<>> /\ removed \in Values

Create == exists' = TRUE /\ items' = <<>> /\ UNCHANGED removed

Destroy == exists' = FALSE /\ items' = <<>> /\ UNCHANGED removed

InsertHead(v) == exists /\ items' = <<v>> \o items /\ UNCHANGED <<exists, removed>>

InsertTail(v) == exists /\ items' = Append(items, v) /\ UNCHANGED <<exists, removed>>

RemoveHead ==
    /\ items # <<>>
    /\ items' = Tail(items)
    /\ removed' \in {removed, Head(items)}
    /\ UNCHANGED exists

Reverse ==
    /\ items' = [i \in 1..Len(items) |-> items[Len(items) + 1 - i]]
    /\ UNCHANGED <<exists, removed>>

Next ==
    \/ Create \/ Destroy \/ RemoveHead \/ Reverse
    \/ \E v \in Values : InsertHead(v) \/ InsertTail(v)

Spec == Init /\ [][Next]_vars
=============================================================================
