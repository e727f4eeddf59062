-------------------------------- MODULE Qtest -------------------------------
(***************************************************************************)
(* A session of LAB0_cprogramminglab/qtest: main and the commands of       *)
(* qtest.c over modules Console and Harness, with a time limit that may    *)
(* cut an operation of queue.c anywhere. A command is the sequence todo of *)
(* the steps it has left; module Queue has what the operations make of the *)
(* queue's pointers, here a queue is the number of its blocks.             *)
(*                                                                         *)
(* The time limit jumps into exception_setup, which has returned: this is  *)
(* undefined, and two outcomes are explored. It returns false where it was *)
(* called, as the code wants; or, as in a build with -O0, the operation    *)
(* that was running returns 0 and its caller goes on.                      *)
(*                                                                         *)
(* Not modelled: it, which the driver treats like ih; reverse after a cut  *)
(* left pointers that dangle; a malformed number; SIGSEGV.                 *)
(***************************************************************************)
EXTENDS Console, Harness

CONSTANTS
    Lines,      \* longest input
    Reps,       \* repetitions of ih
    BigQueue,   \* big_queue_size
    FailLimit,  \* fail_limit
    MaxCuts     \* time limits that strike

ASSUME QtestAssumption ==
    /\ Descriptors = 0..Cardinality(Descriptors) - 1 /\ 0..3 \subseteq Descriptors
    /\ ErrLimit \in Nat \ {0} /\ FailLimit \in Nat \ {0}
    /\ SourceLines \in Nat /\ Lines \in Nat /\ BigQueue \in Nat /\ MaxCuts \in Nat
    /\ Reps \subseteq Nat

VARIABLES
    con,        \* the console
    har,        \* the harness
    que,        \* the queue and the driver's counts
    run,        \* the command that runs
    phase,      \* "run", "finish" (finish_cmd runs the quit command), "exit" or "spin"
    status,     \* exit status
    helped,     \* queue_quit was called
    cuts, lost  \* time limits that struck; commands that succeeded in spite of one

vars == <<con, har, que, run, phase, status, helped, cuts, lost>>

Idle == [cmd |-> "none", ok |-> TRUE, rval |-> FALSE, reps |-> 0, cnt |-> 0, todo |-> <<>>, cut |-> FALSE]

Init ==
    /\ \E verbose \in BOOLEAN, n \in 0..Lines, fd \in {STDIN, 3} :
         con = push_file(init_cmd(verbose), fd, n)
    /\ har = HarnessInit
    /\ que = [q |-> FALSE, chain |-> 0, size |-> 0, qcnt |-> 0, fail_count |-> 0, broken |-> FALSE]
    /\ run = Idle
    /\ phase = "run" /\ status = 0 /\ helped = FALSE
    /\ cuts = 0 /\ lost = {}

(***************************************************************************)
(* The commands.                                                           *)
(***************************************************************************)
Guarded(body) == exception_setup \o body \o exception_cancel

do_reverse ==
    <<"checked", "noallocate_on">> \o Guarded(<<"q_reverse">>) \o <<"noallocate_off", "show", "end">>

do_free ==
    <<"checked", "maybe_bold">> \o Guarded(<<"q_free">>)
        \o <<"cautious", "dropped", "show", "blocks", "end">>

do_new == (IF que.q THEN do_free ELSE <<>>)
    \o <<"checked", "uncalled">> \o Guarded(<<"q_new">>) \o <<"called_malloc", "show", "end">>

(* ih does not look at the error flag when it is done. *)
do_insert_head == <<"checked">> \o Guarded(<<"repeat">>) \o <<"show">>
do_remove_head == <<"checked">> \o Guarded(<<"q_remove">>) \o <<"removed", "show", "end">>
do_size == <<"checked">> \o Guarded(<<"q_size", "counted">>) \o <<"sized", "show", "end">>
do_show == <<"showing">>
queue_quit == <<"maybe_bold">> \o Guarded(<<"q_free">>) \o <<"cautious", "blocks">>

Program(cmd) ==
    CASE cmd = "new" -> do_new
      [] cmd = "free" -> do_free
      [] cmd = "ih" -> do_insert_head
      [] cmd \in {"rh", "rh_v"} -> do_remove_head
      [] cmd = "reverse" -> do_reverse
      [] cmd = "size" -> do_size
      [] cmd = "show" -> do_show
      [] cmd = "quit" -> queue_quit

Commands == {"new", "free", "ih", "rh", "rh_v", "reverse", "size", "show", "quit"}

Start(cmd) ==
    \E n \in IF cmd = "ih" THEN Reps ELSE {1} :
       run' = [Idle EXCEPT !.cmd = cmd, !.reps = n, !.todo = Program(cmd)]

(***************************************************************************)
(* run_console: a line comes from the buffer or from the file. What echo   *)
(* reports goes to the log as well. After the last error the lines in the  *)
(* buffer are read and dropped.                                            *)
(***************************************************************************)
Echoed(c) == IF c.verbose THEN report(c) ELSE c

Line(c) ==
    LET e == Echoed(c) IN
    \/ /\ \E cmd \in Builtins : con' \in interpret_cmd(e, cmd)
       /\ UNCHANGED <<run, helped>>
    \/ \E cmd \in Commands :
         /\ cmd = "reverse" => ~que.broken
         /\ Start(cmd)
         /\ con' = IF cmd = "quit" THEN do_quit_cmd(malloc_or_fail(e)) ELSE malloc_or_fail(e)
         /\ helped' = (cmd = "quit")

AtPrompt == phase = "run" /\ run.cmd = "none" /\ con.log # "stale"

cmd_select ==
    /\ AtPrompt
    /\ \/ read_ready(con) /\ con.quit /\ con' = Echoed(Buffered(con)) /\ UNCHANGED <<run, helped>>
       \/ read_ready(con) /\ ~con.quit /\ Line(Buffered(con))
       \/ /\ ~read_ready(con) /\ ~cmd_done(con)
          /\ \/ ~AtEof(con) /\ \E c \in Fetched(con) : Line(c)
             \/ AtEof(con) /\ con' = EndOfFile(con) /\ UNCHANGED <<run, helped>>
    /\ UNCHANGED <<har, que, phase, status, cuts, lost>>

select_fails ==
    /\ AtPrompt /\ ~read_ready(con) /\ ~cmd_done(con)
    /\ Hole(con)
    /\ phase' = "spin"
    /\ UNCHANGED <<con, har, que, run, status, helped, cuts, lost>>

(* finish_cmd, which is skipped when there was an error. *)
finish_cmd ==
    /\ AtPrompt /\ ~read_ready(con) /\ cmd_done(con)
    /\ IF con.err_cnt = 0 /\ ~con.quit
       THEN /\ con' = do_quit_cmd(con) /\ Start("quit")
            /\ phase' = "finish" /\ helped' = TRUE
            /\ UNCHANGED status
       ELSE /\ phase' = "exit" /\ status' = IF con.err_cnt = 0 THEN 0 ELSE 1
            /\ UNCHANGED <<con, run, helped>>
    /\ UNCHANGED <<har, que, cuts, lost>>

(***************************************************************************)
(* The steps of a command.                                                 *)
(***************************************************************************)
At(step) == run.todo # <<>> /\ Head(run.todo) = step /\ con.log # "stale"

(* The step is replaced by those that it consists of. *)
Becomes(steps) == [run EXCEPT !.todo = steps \o Tail(@)]
Done == Becomes(<<>>)

(* qcnt is unsigned: -1 stands for the largest number. *)
MoreThan(n) == que.qcnt < 0 \/ que.qcnt > n

Effect(step) ==
    CASE step = "checked" -> error_check(har)
      [] step = "ready" -> ready(har)
      [] step = "arm" -> arm(har)
      [] step = "disarm" -> disarm(har)
      [] step = "unready" -> unready(har)
      [] step = "noallocate_on" -> set_noallocate_mode(har, TRUE)
      [] step = "noallocate_off" -> set_noallocate_mode(har, FALSE)
      [] step = "maybe_bold" -> IF MoreThan(BigQueue) THEN set_cautious_mode(har, FALSE) ELSE har
      [] step = "cautious" -> set_cautious_mode(har, TRUE)
      [] step = "uncalled" -> clear_called_malloc(har)
      [] step = "link" -> link(har)
      [] step = "linked" -> linked(har)
      [] step = "unlink" -> unlink(har)
      [] step = "unlinked" -> unlinked(har)

HarnessSteps ==
    {"checked", "ready", "arm", "disarm", "unready", "noallocate_on", "noallocate_off", "maybe_bold",
     "cautious", "uncalled", "link", "linked", "unlink", "unlinked"}

harness_step ==
    /\ \E step \in HarnessSteps : At(step) /\ har' = Effect(step)
    /\ run' = Done
    /\ UNCHANGED <<con, que>>

(* malloc may return NULL when the option says so, and warns. *)
Null == {null \in BOOLEAN : null => con.fail}
Warned(null) == IF null /\ con.verbose THEN report_event(con) ELSE con

(***************************************************************************)
(* queue.c, and what the driver makes of its answers.                      *)
(***************************************************************************)
q_new ==
    /\ At("q_new")
    /\ \E null \in Null :
         /\ run' = Becomes(IF null THEN <<>> ELSE <<"link", "linked", "header">>)
         /\ con' = Warned(null)
    /\ har' = called(har)
    /\ UNCHANGED que

header ==
    /\ At("header")
    /\ que' = [que EXCEPT !.q = TRUE, !.chain = 0, !.size = 0]
    /\ run' = Done
    /\ UNCHANGED <<con, har>>

(* do_new returns at once when q_new never came to malloc. *)
called_malloc ==
    /\ At("called_malloc")
    /\ run' = IF har.called_malloc THEN Done ELSE [run EXCEPT !.ok = FALSE, !.todo = <<>>]
    /\ que' = IF har.called_malloc THEN [que EXCEPT !.qcnt = 0] ELSE que
    /\ har' = clear_called_malloc(har)
    /\ UNCHANGED con

\* n calls of free.
Frees(n) == [i \in 1..2 * n |-> IF i % 2 = 1 THEN "unlink" ELSE "unlinked"]

(* Mutant: the header is freed twice. *)
MutantFreeTwice ==
    /\ At("q_free")
    /\ run' = Becomes(IF que.q THEN Frees(que.chain + 2) ELSE <<>>)
    /\ UNCHANGED <<con, har, que>>

(* Every element that head reaches is freed, and the header. *)
q_free ==
    /\ At("q_free")
    /\ run' = Becomes(IF que.q THEN Frees(que.chain + 1) ELSE <<>>)
    /\ UNCHANGED <<con, har, que>>

dropped ==
    /\ At("dropped")
    /\ que' = [que EXCEPT !.q = FALSE, !.chain = 0, !.size = 0, !.qcnt = 0, !.broken = FALSE]
    /\ run' = Done
    /\ UNCHANGED <<con, har>>

blocks ==
    /\ At("blocks")
    /\ run' = [Done EXCEPT !.ok = @ /\ allocation_check(har) = 0]
    /\ UNCHANGED <<con, har, que>>

Failed == IF que.fail_count < FailLimit THEN que.fail_count + 1 ELSE FailLimit

repeat ==
    /\ At("repeat")
    /\ IF run.ok /\ run.reps > 0
       THEN \E null \in Null :
              LET inserts == que.q /\ ~null IN
              /\ run' = [Becomes((IF inserts THEN <<"link", "linked", "attach", "grow">> ELSE <<>>)
                                  \o <<"inserted", "repeat">>)
                          EXCEPT !.reps = @ - 1, !.rval = FALSE]
              /\ con' = Warned(que.q /\ null)
              /\ har' = IF que.q THEN called(har) ELSE har
       ELSE run' = Done /\ UNCHANGED <<con, har>>
    /\ UNCHANGED que

attach ==
    /\ At("attach") /\ que' = [que EXCEPT !.chain = @ + 1]
    /\ run' = Done /\ UNCHANGED <<con, har>>

grow ==
    /\ At("grow") /\ que' = [que EXCEPT !.size = @ + 1]
    /\ run' = [Done EXCEPT !.rval = TRUE] /\ UNCHANGED <<con, har>>

inserted ==
    /\ At("inserted")
    /\ que' = IF run.rval THEN [que EXCEPT !.qcnt = @ + 1] ELSE [que EXCEPT !.fail_count = Failed]
    /\ run' = [Done EXCEPT !.ok = (run.rval \/ Failed < FailLimit) /\ ~har.error_occurred]
    /\ har' = IF run.rval \/ Failed < FailLimit THEN error_check(har) ELSE har
    /\ UNCHANGED con

q_remove_head ==
    /\ At("q_remove")
    /\ run' = Becomes(IF que.q /\ que.chain > 0 THEN <<"detach", "unlink", "unlinked", "shrink">> ELSE <<>>)
    /\ UNCHANGED <<con, har, que>>

detach ==
    /\ At("detach") /\ que' = [que EXCEPT !.chain = @ - 1]
    /\ run' = Done /\ UNCHANGED <<con, har>>

shrink ==
    /\ At("shrink") /\ que' = [que EXCEPT !.size = @ - 1]
    /\ run' = [Done EXCEPT !.rval = TRUE] /\ UNCHANGED <<con, har>>

(* With a value to compare, a failure is an error, and so is another value. *)
removed ==
    /\ At("removed")
    /\ que' = IF run.rval THEN [que EXCEPT !.qcnt = @ - 1] ELSE [que EXCEPT !.fail_count = Failed]
    /\ \E same \in IF run.cmd = "rh_v" THEN BOOLEAN ELSE {TRUE} :
         run' = [Done EXCEPT !.ok = IF run.rval THEN same ELSE run.cmd = "rh" /\ Failed < FailLimit]
    /\ UNCHANGED <<con, har>>

(* The old head ends the list as soon as the loop begins. *)
q_reverse ==
    /\ At("q_reverse")
    /\ run' = IF que.q /\ que.chain >= 2 THEN [Becomes(<<"turned">>) EXCEPT !.cnt = que.chain] ELSE Done
    /\ que' = IF que.q /\ que.chain >= 2 THEN [que EXCEPT !.chain = 1] ELSE que
    /\ UNCHANGED <<con, har>>

turned ==
    /\ At("turned") /\ que' = [que EXCEPT !.chain = run.cnt]
    /\ run' = Done /\ UNCHANGED <<con, har>>

q_size ==
    /\ At("q_size")
    /\ run' = [Done EXCEPT !.cnt = IF que.q THEN que.size ELSE 0]
    /\ UNCHANGED <<con, har, que>>

counted ==
    /\ At("counted")
    /\ run' = [Done EXCEPT !.ok = ~har.error_occurred]
    /\ har' = error_check(har)
    /\ UNCHANGED <<con, que>>

sized ==
    /\ At("sized") /\ run' = [Done EXCEPT !.ok = @ /\ run.cnt = que.qcnt]
    /\ UNCHANGED <<con, har, que>>

(* After most commands the queue is shown, when verbose. *)
show ==
    /\ At("show")
    /\ run' = Becomes(IF con.verbose /\ que.q THEN Guarded(<<"walk">>) ELSE <<>>)
    /\ UNCHANGED <<con, har, que>>

showing ==
    /\ At("showing")
    /\ run' = IF que.q THEN [Becomes(Guarded(<<"walk">>) \o <<"shown">>) EXCEPT !.rval = TRUE] ELSE Done
    /\ UNCHANGED <<con, har, que>>

Walks == que.chain > 0 /\ que.qcnt # 0

(* The walk asks for errors at every element, and so clears the flag. *)
walk ==
    /\ At("walk")
    /\ run' = [Done EXCEPT !.rval = @ /\ (Walks => ~har.error_occurred),
                           !.cnt = IF MoreThan(que.chain) THEN que.chain ELSE que.qcnt]
    /\ har' = IF Walks THEN error_check(har) ELSE har
    /\ UNCHANGED <<con, que>>

shown ==
    /\ At("shown") /\ run' = [Done EXCEPT !.ok = run.rval /\ run.cnt = que.chain]
    /\ UNCHANGED <<con, har, que>>

(* Mutant: the command does not ask for errors. *)
MutantEndAsksNot ==
    /\ At("end") /\ run' = Done /\ UNCHANGED <<con, har, que>>

(* ok && !error_check() *)
end ==
    /\ At("end")
    /\ run' = [Done EXCEPT !.ok = @ /\ ~har.error_occurred]
    /\ har' = IF run.ok THEN error_check(har) ELSE har
    /\ UNCHANGED <<con, que>>

Step ==
    /\ \/ harness_step
       \/ q_new \/ header \/ called_malloc
       \/ q_free \/ dropped \/ blocks
       \/ repeat \/ attach \/ grow \/ inserted
       \/ q_remove_head \/ detach \/ shrink \/ removed
       \/ q_reverse \/ turned
       \/ q_size \/ counted \/ sized
       \/ show \/ showing \/ walk \/ shown \/ end
    /\ UNCHANGED <<phase, status, helped, cuts, lost>>

(* The command returned. *)
interpreted ==
    /\ run.cmd # "none" /\ run.todo = <<>> /\ con.log # "stale"
    /\ run' = Idle
    /\ lost' = IF run.cut /\ run.ok THEN lost \cup {run.cmd} ELSE lost
    /\ IF phase = "finish"
       THEN phase' = "exit" /\ status' = (IF run.ok THEN 0 ELSE 1) /\ UNCHANGED con
       ELSE /\ con' = [Interpreted(con, run.ok) EXCEPT !.quit = @ \/ run.cmd = "quit"]
            /\ UNCHANGED <<phase, status>>
    /\ UNCHANGED <<har, que, helped, cuts>>

(***************************************************************************)
(* SIGALRM.                                                                *)
(***************************************************************************)
Callee == {"q_new", "link", "linked", "header", "q_free", "unlink", "unlinked", "attach", "grow",
           "q_remove", "detach", "shrink", "q_size", "q_reverse", "turned"}

From(stops) ==
    LET here == {n \in 1..Len(run.todo) : run.todo[n] \in stops}
        first == CHOOSE n \in here : \A m \in here : n <= m
    IN  SubSeq(run.todo, first, Len(run.todo))

(* exception_setup returns false: the caller skips the operation; or the
   operation returns 0: its caller goes on, and a walk walks on. *)
Jumps ==
    {From({"disarm"})}
        \cup (IF Head(run.todo) \in Callee THEN {From({"inserted", "counted", "disarm"})} ELSE {})
        \cup (IF At("walk") /\ Walks THEN {run.todo} ELSE {})

sigalrmhandler ==
    /\ har.alarm /\ run.todo # <<>> /\ con.log # "stale"
    /\ cuts < MaxCuts
    /\ har' = trigger_exception(har)
    /\ \E todo \in IF har.jmp_ready THEN Jumps ELSE {<<>>} : run' = [run EXCEPT !.todo = todo, !.cut = TRUE]
    /\ con' = IF har.jmp_ready THEN report_event(con) ELSE con
    /\ phase' = IF har.jmp_ready THEN phase ELSE "exit"
    /\ status' = IF har.jmp_ready THEN status ELSE 1
    /\ que' = [que EXCEPT !.broken = TRUE]
    /\ cuts' = cuts + 1
    /\ UNCHANGED <<helped, lost>>

Next ==
    \/ cmd_select \/ select_fails \/ finish_cmd
    \/ Step \/ interpreted
    \/ sigalrmhandler

(* qtest is one process: it runs until it is done. *)
Spec == Init /\ [][Next]_vars /\ WF_vars(Next)

(***************************************************************************)
(* Properties.                                                             *)
(***************************************************************************)
(* Every field has its type. *)
TypeOK ==
    /\ con.fds \subseteq Descriptors /\ con.held \in Nat /\ con.err_cnt \in Nat
    /\ con.log \in {"none", "open", "closed", "stale"}
    /\ \A n \in 1..Len(con.stack) : con.stack[n] \in [fd : Descriptors, left : Nat, buf : Nat]
    /\ har.list \in Nat /\ har.count \in Int
    /\ que.chain \in Nat /\ que.size \in Int /\ que.qcnt \in Int
    /\ run.cmd \in Commands \cup {"none"}
    /\ phase \in {"run", "finish", "exit", "spin"} /\ status \in {0, 1}
    /\ lost \subseteq Commands

(* harness.c lines 250-284 and qtest.c: the time limit is only armed while
   there is a jump to take, so SIGALRM never ends qtest; and whatever was cut,
   at the prompt every mode is what it was. *)
Protected ==
    /\ har.alarm => har.jmp_ready
    /\ run.cmd = "none" => har.cautious /\ ~har.noallocate /\ ~har.alarm /\ ~har.jmp_ready

(* allocated_count says how many blocks are on the list, give or take one for
   every time limit that struck: "blocks are still allocated" may then accuse
   a queue that leaked nothing, or acquit one that did. *)
BlocksCounted ==
    run.cmd = "none" =>
        /\ har.count - har.list \in -cuts..cuts
        /\ cuts = 0 => har.list = (IF que.q /\ ~helped THEN que.chain + 1 ELSE 0)

(* Exit status 0 says that the quit helper freed the queue and found no block,
   that the console gave back all its memory, and that no block
   leaked, unless a command succeeded in spite of a time limit. *)
CleanExit ==
    phase = "exit" =>
        /\ helped <=> con.held = 0
        /\ status = 0 => helped /\ har.count = 0
        /\ status = 0 /\ lost = {} => har.list = 0

(* harness.c line 237: error_check tells the driver of an exception, so a
   command that a time limit cut fails. The error is lost where the driver does
   not ask: in ih, in show and in the last free of quit, which then found no
   block; and, when verbose, wherever the walk of the show that follows a
   command cleared the flag first. A new or a free that was cut always fails. *)
TimeLimitsFail ==
    /\ lost \subseteq {"ih", "show", "quit"} \cup (IF con.verbose THEN {"rh", "rh_v", "reverse", "size"} ELSE {})
    /\ "quit" \in lost => har.count = 0

(* The session ends, unless a log was closed by an event. *)
Terminates == <>(phase = "exit" \/ con.log \in {"closed", "stale"})
=============================================================================
