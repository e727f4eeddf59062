------------------------------- MODULE Harness ------------------------------
(***************************************************************************)
(* The checked allocator and the exceptions of                             *)
(* LAB0_cprogramminglab/harness.c, cut into the steps between which a      *)
(* SIGALRM makes a difference. Blocks are counted: list is the length of   *)
(* the list of blocks that malloc gave, count is allocated_count. A step   *)
(* maps a harness to what it makes of it.                                  *)
(*                                                                         *)
(* What a block holds and the checks of find_header are left out: the      *)
(* commands of module Qtest only free blocks that malloc gave.             *)
(***************************************************************************)
EXTENDS Integers

HarnessInit ==
    [list |-> 0, count |-> 0, called_malloc |-> FALSE, error_occurred |-> FALSE,
     cautious |-> TRUE, noallocate |-> FALSE, jmp_ready |-> FALSE, alarm |-> FALSE]

(***************************************************************************)
(* allocate_memory, up to the block's link into the list, and its count.   *)
(***************************************************************************)
called(h) == [h EXCEPT !.called_malloc = TRUE]
link(h) == [h EXCEPT !.list = @ + 1]
linked(h) == [h EXCEPT !.count = @ + 1]

(* test_free, up to the block's unlink, and its count. *)
unlink(h) == [h EXCEPT !.list = @ - 1]

(* Mutant: the count only goes up. *)
MutantUncounted(h) == h

unlinked(h) == [h EXCEPT !.count = @ - 1]

allocation_check(h) == h.count

(* error_check returns the flag and clears it. *)
error_check(h) == [h EXCEPT !.error_occurred = FALSE]
clear_called_malloc(h) == [h EXCEPT !.called_malloc = FALSE]
set_cautious_mode(h, on) == [h EXCEPT !.cautious = on]
set_noallocate_mode(h, on) == [h EXCEPT !.noallocate = on]

(***************************************************************************)
(* exception_setup and exception_cancel, two steps each.                   *)
(***************************************************************************)
ready(h) == [h EXCEPT !.jmp_ready = TRUE]
arm(h) == [h EXCEPT !.alarm = TRUE]
disarm(h) == [h EXCEPT !.alarm = FALSE]
unready(h) == [h EXCEPT !.jmp_ready = FALSE]

exception_setup == <<"ready", "arm">>

(* Mutant: the jump is given up before the alarm. *)
MutantCancelSwapped == <<"unready", "disarm">>

exception_cancel == <<"disarm", "unready">>

(* SIGALRM: the alarm is spent; with a jump, exception_setup returns a second
   time. *)
trigger_exception(h) == [h EXCEPT !.error_occurred = TRUE, !.alarm = FALSE, !.jmp_ready = FALSE]
=============================================================================
