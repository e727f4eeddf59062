------------------------------- MODULE Console ------------------------------
(***************************************************************************)
(* The command interpreter of LAB0_cprogramminglab: console.c, with the    *)
(* memory accounting and the log of report.c. A console is a record, and   *)
(* an operator with the name of a function is what that function makes of  *)
(* it. Lines are counted, what they say is chosen when they are read; a    *)
(* block of memory is a unit of held.                                      *)
(*                                                                         *)
(* Not modelled: help and time, which change nothing here but run another  *)
(* command, block_console, which nothing calls, and memory running out. A  *)
(* report to a log that was closed is undefined: the log is then stale and *)
(* the model stops.                                                        *)
(***************************************************************************)
EXTENDS Integers, Sequences, FiniteSets

CONSTANTS
    Descriptors,    \* 0..n: as many as the process may have open
    ErrLimit,       \* err_limit at the start
    SourceLines     \* longest file for the command source

STDIN == 0
StdStreams == 0..2

(* The command list and the parameter list, a unit each. *)
Lists == 2

Free(c) == Descriptors \ c.fds
LowestFree(c) == CHOOSE d \in Free(c) : \A e \in Free(c) : d <= e

(***************************************************************************)
(* report.c                                                                *)
(***************************************************************************)
set_logfile(c, opens) ==
    IF opens THEN [c EXCEPT !.log = "open", !.logfd = LowestFree(c), !.fds = @ \cup {LowestFree(c)}]
    ELSE [c EXCEPT !.log = "none"]

report(c) == IF c.log = "closed" THEN [c EXCEPT !.log = "stale"] ELSE c

(* logfile is closed and keeps pointing there. *)
report_event(c) ==
    IF c.log = "open" THEN [c EXCEPT !.log = "closed", !.fds = @ \ {c.logfd}] ELSE report(c)

malloc_or_fail(c) == [c EXCEPT !.held = @ + 1]
free_block(c) == [c EXCEPT !.held = @ - 1]

(***************************************************************************)
(* The stack of input files. Each has lines left to read and lines in its  *)
(* buffer.                                                                 *)
(***************************************************************************)
push_file(c, fd, lines) ==
    malloc_or_fail([c EXCEPT !.stack = <<[fd |-> fd, left |-> lines, buf |-> 0]>> \o @,
                             !.fds = @ \cup {fd}])

pop_file(c) == free_block([c EXCEPT !.stack = Tail(@), !.fds = @ \ {Head(c.stack).fd}])

read_ready(c) == c.stack # <<>> /\ Head(c.stack).buf > 0

cmd_done(c) == c.stack = <<>> \/ c.quit

(* What readline leaves when it takes a line from the buffer. *)
Buffered(c) == [c EXCEPT !.stack[1].buf = @ - 1]

(* And when it has to read first: from 1 to all lines that are left come into
   the buffer and one is taken. The last line may lack its newline: then the
   file is popped before the line is interpreted. *)
Fetched(c) ==
    LET in == Head(c.stack) IN
        {[c EXCEPT !.stack[1] = [in EXCEPT !.left = in.left - n, !.buf = n - 1]] : n \in 1..in.left}
        \cup (IF in.left = 1 THEN {pop_file(c)} ELSE {})

AtEof(c) == Head(c.stack).left = 0

(* Mutant: a file stays on the stack at its end. *)
MutantEndKeeps(c) == c

EndOfFile(c) == pop_file(c)

(* cmd_select never clears its local read set: a bit left there by chance makes
   select fail for as long as a descriptor below the input's is closed. *)
Hole(c) == \E d \in 0..(Head(c.stack).fd - 1) : d \notin c.fds

(***************************************************************************)
(* Commands.                                                               *)
(***************************************************************************)
init_cmd(verbose) ==
    [stack |-> <<>>, fds |-> StdStreams, log |-> "none", logfd |-> 0, held |-> Lists, quit |-> FALSE,
     err_cnt |-> 0, err_limit |-> ErrLimit, fail |-> FALSE, verbose |-> verbose]

record_error(c) ==
    [report(c) EXCEPT !.err_cnt = @ + 1, !.quit = c.quit \/ c.err_cnt + 1 >= c.err_limit]

(* The end of interpret_cmd. *)
Interpreted(c, ok) == free_block(IF ok THEN c ELSE record_error(c))

Builtins == {"comment", "unknown", "option", "source", "log"}

(* "option error 1 malloc" sets the first parameter and fails at the second. *)
do_option_cmd(c) ==
    {<<[c EXCEPT !.fail = TRUE], TRUE>>, <<[c EXCEPT !.err_limit = 1], TRUE>>, <<[c EXCEPT !.err_limit = 1], FALSE>>}

do_source_cmd(c) ==
    {<<c, FALSE>>} \cup
        {<<push_file(c, LowestFree(c), n), TRUE>> : n \in IF Free(c) = {} THEN {} ELSE 0..SourceLines}

do_log_cmd(c) == {<<set_logfile(c, opens), opens>> : opens \in {FALSE, Free(c) # {}}}

(* The console after a built-in command, and what the command returned. *)
Outcomes(c, cmd) ==
    CASE cmd = "comment" -> {<<c, TRUE>>}
      [] cmd = "unknown" -> {<<c, FALSE>>}
      [] cmd = "option" -> do_option_cmd(c)
      [] cmd = "source" -> do_source_cmd(c)
      [] cmd = "log" -> do_log_cmd(c)

interpret_cmd(c, cmd) == {Interpreted(o[1], o[2]) : o \in Outcomes(malloc_or_fail(c), cmd)}

(* Mutant: the parameter list is not freed. *)
MutantQuitKeepsList(c) ==
    [c EXCEPT !.held = @ - 1 - Len(c.stack), !.stack = <<>>,
              !.fds = @ \ {c.stack[n].fd : n \in 1..Len(c.stack)}]

(* The lists are freed and every file is popped; the helpers come after. *)
do_quit_cmd(c) ==
    [c EXCEPT !.held = @ - Lists - Len(c.stack), !.stack = <<>>,
              !.fds = @ \ {c.stack[n].fd : n \in 1..Len(c.stack)}]
=============================================================================
