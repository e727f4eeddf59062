------------------------------- MODULE Tsh -------------------------------
(***************************************************************************)
(* The job-control shell of LAB5_tshlab/tsh.c: its main loop, its job      *)
(* list, and its four signal handlers, run by the kernel on top of the     *)
(* main flow whenever a pending signal is not blocked.                     *)
(*                                                                         *)
(* The shell is one thread. Its call stack is the main flow plus a stack   *)
(* of handlers; only the topmost frame moves. A critical section that the  *)
(* code puts between Sigprocmask(SIG_BLOCK, &mask_all) and the matching    *)
(* SIG_SETMASK is one action: no handler can run inside it, and the        *)
(* children touch nothing that it reads. Everything else that a handler    *)
(* or a child can separate is a step of its own.                           *)
(*                                                                         *)
(* The children and the kernel's side of signals (SIGCHLD is one pending   *)
(* bit whatever the number of children; kill of an empty process group     *)
(* fails; SIGCONT discards an unreported stop) are modelled as tsh.c uses  *)
(* them. Command lines, messages and the -p and -v options are left out.   *)
(***************************************************************************)
EXTENDS Integers, Sequences

CONSTANTS
    Pids,         \* process ids the kernel can give to a child
    NoPid,        \* 0: the pid of a cleared slot
    ErrPid,       \* -1: what fork returns when it fails
    MAXJOBS,      \* slots of the job list
    MaskOutcomes, \* the signal sets the uninitialised mask_one may hold
    MaxJid,       \* bound: no job is started when an id could go beyond it
    MaxKeys       \* bound: signals that reach the shell from outside

ASSUME PidAssumption == NoPid \notin Pids /\ ErrPid \notin Pids /\ NoPid # ErrPid
ASSUME MAXJOBSAssumption == MAXJOBS \in Nat \ {0}

Keyboard == {"INT", "TSTP", "QUIT"}
Signals == Keyboard \cup {"CHLD"}

ASSUME MaskAssumption == MaskOutcomes \subseteq SUBSET Signals
ASSUME BoundAssumption == MaxJid \in Nat /\ MaxKeys \in Nat

VARIABLES
    jobs,     \* the job list
    nextjid,  \* the next job id to allocate
    proc,     \* what each process is doing, as the kernel sees it
    pending,  \* signals the kernel holds for the shell
    blocked,  \* the shell's signal mask
    stack,    \* handlers running now, the topmost first
    pc,       \* where the main flow and each handler are
    pid,      \* the local pid of the main flow and of each handler
    saved,    \* the mask to put back: prev_all of eval, and that of each handler
    slot,     \* the job pointer of do_bgfg
    shell,    \* "up", or how the shell ended
    keys      \* signals sent so far

jobVars == <<jobs, nextjid>>
frameVars == <<stack, pc, pid, saved, slot>>
vars == <<jobs, nextjid, proc, pending, blocked, stack, pc, pid, saved, slot, shell, keys>>

Slots == 1..MAXJOBS
Contexts == Signals \cup {"main"}
JobStates == {"UNDEF", "FG", "BG", "ST"}
Job == [pid : Pids \cup {NoPid}, jid : Nat, state : JobStates]
Cleared == [pid |-> NoPid, jid |-> 0, state |-> "UNDEF"]

(***************************************************************************)
(* The job list.                                                           *)
(***************************************************************************)
First(i, S) == i \in S /\ \A k \in S : i <= k

SlotsOf(p) == {i \in Slots : jobs[i].pid = p}
SlotsOfJid(j) == {i \in Slots : jobs[i].jid = j}
ForegroundSlots == {i \in Slots : jobs[i].state = "FG"}

(* The pid of the first job in state FG, 0 when there is none. *)
fgpid(p) ==
    IF ForegroundSlots = {} THEN p = NoPid
    ELSE \E i \in ForegroundSlots : First(i, ForegroundSlots) /\ p = jobs[i].pid

(* addjob takes the first free slot; with no free slot, or no child, it does
   nothing and the caller ignores that. *)
addjob(p, st) ==
    IF p \in Pids /\ SlotsOf(NoPid) # {}
    THEN /\ \E i \in Slots :
              /\ First(i, SlotsOf(NoPid))
              /\ jobs' = [jobs EXCEPT ![i] = [pid |-> p, jid |-> nextjid, state |-> st]]
         /\ nextjid' = IF nextjid + 1 > MAXJOBS THEN 1 ELSE nextjid + 1
    ELSE UNCHANGED jobVars

Jids(js) == {js[i].jid : i \in Slots} \cup {0}

(* m is the largest job id of the list js. *)
maxjid(js, m) == m \in Jids(js) /\ \A j \in Jids(js) : j <= m

(* Mutant: deletejob forgets to go one past the largest id left. *)
MutantDeletejobSameId(p) ==
    IF p \in Pids /\ SlotsOf(p) # {}
    THEN \E i \in Slots :
            /\ First(i, SlotsOf(p))
            /\ jobs' = [jobs EXCEPT ![i] = Cleared]
            /\ \E m \in Jids(jobs') : maxjid(jobs', m) /\ nextjid' = m
    ELSE UNCHANGED jobVars

(* deletejob clears the first slot that holds p and restarts the job ids
   after the largest one left. *)
deletejob(p) ==
    IF p \in Pids /\ SlotsOf(p) # {}
    THEN \E i \in Slots :
            /\ First(i, SlotsOf(p))
            /\ jobs' = [jobs EXCEPT ![i] = Cleared]
            /\ \E m \in Jids(jobs') : maxjid(jobs', m) /\ nextjid' = m + 1
    ELSE UNCHANGED jobVars

(***************************************************************************)
(* Processes and signals.                                                  *)
(***************************************************************************)
(* "none": no such process. "forked": a child that has not called setpgid  *)
(* yet. "execing": in its own group, still running the shell's code.       *)
(* "stopped" and "halted": stopped, before and after waitpid reported it.  *)
(* "exited" and "signaled": a zombie.                                      *)
ProcStates == {"none", "forked", "execing", "running", "stopped", "halted", "exited", "signaled"}
Zombies == {"exited", "signaled"}
Reportable == Zombies \cup {"stopped"}

(* kill(-p, ...) finds a process group p. *)
GroupExists(p) == p \in Pids /\ proc[p] \notin {"none", "forked"}

(* What the signal does at once to process p of its group. A child that still
   runs the shell's code catches SIGINT and SIGTSTP, and a program may.  *)
Effect(p, sig) ==
    IF sig = "CONT" /\ proc[p] \in {"stopped", "halted"} THEN {"running"}
    ELSE {proc[p]} \cup {s \in {"signaled", "stopped"} :
            proc[p] = "running" /\ <<sig, s>> \in {<<"INT", "signaled">>, <<"TSTP", "stopped">>}}

(* Process p moves to state s, and the kernel tells the shell of an exit, a
   stop or a continuation. *)
Move(p, s) ==
    /\ proc' = [proc EXCEPT ![p] = s]
    /\ pending' = IF s # proc[p] THEN pending \cup {"CHLD"} ELSE pending

Top == IF stack = <<>> THEN "main" ELSE Head(stack)
At(c, l) == shell = "up" /\ Top = c /\ pc[c] = l
GoTo(c, l) == pc' = [pc EXCEPT ![c] = l]

(***************************************************************************)
(* Initial state: main has installed the handlers and cleared the list.    *)
(***************************************************************************)
Init ==
    /\ jobs = [i \in Slots |-> Cleared]
    /\ nextjid = 1
    /\ proc = [p \in Pids |-> "none"]
    /\ pending = {}
    /\ blocked = {}
    /\ stack = <<>>
    /\ pc = [c \in Contexts |-> IF c = "main" THEN "read" ELSE "idle"]
    /\ pid = [c \in Contexts |-> NoPid]
    /\ saved = [c \in Contexts |-> {}]
    /\ slot = 1
    /\ shell = "up"
    /\ keys = 0

(***************************************************************************)
(* The main flow: read, eval, do_bgfg, waitfg.                             *)
(***************************************************************************)

(* Mutant: SIGCHLD is not blocked before fork. *)
MutantEvalUnblocked(bg) ==
    /\ At("main", "read")
    /\ \A j \in Jids(jobs) \cup {nextjid - 1} : j < MaxJid
    /\ saved' = [saved EXCEPT !["main"] = blocked]
    /\ \E p \in Pids :
         /\ proc[p] = "none"
         /\ proc' = [proc EXCEPT ![p] = "forked"]
         /\ pid' = [pid EXCEPT !["main"] = p]
    /\ GoTo("main", IF bg THEN "addbg" ELSE "addfg")
    /\ UNCHANGED <<jobVars, pending, blocked, stack, slot, shell, keys>>

(* eval of a command that is not a built-in one, up to fork: mask_one was
   never filled, so any of MaskOutcomes is added to the mask. fork may fail,
   and its result is used unchecked. *)
Eval(bg) ==
    /\ At("main", "read")
    /\ \A j \in Jids(jobs) \cup {nextjid - 1} : j < MaxJid
    /\ \E m \in MaskOutcomes : blocked' = blocked \cup m
    /\ saved' = [saved EXCEPT !["main"] = blocked]
    /\ \E p \in Pids \cup {ErrPid} :
         /\ p \in Pids => proc[p] = "none"
         /\ proc' = IF p \in Pids THEN [proc EXCEPT ![p] = "forked"] ELSE proc
         /\ pid' = [pid EXCEPT !["main"] = p]
    /\ GoTo("main", IF bg THEN "addbg" ELSE "addfg")
    /\ UNCHANGED <<jobVars, pending, stack, slot, shell, keys>>

(* The rest of eval: add the job under mask_all, restore prev_all, and wait
   for a foreground job or announce a background one. *)
EvalAddjob(bg) ==
    /\ At("main", IF bg THEN "addbg" ELSE "addfg")
    /\ addjob(pid["main"], IF bg THEN "BG" ELSE "FG")
    /\ blocked' = saved["main"]
    /\ GoTo("main", IF bg THEN "announce" ELSE "waitfg")
    /\ UNCHANGED <<proc, pending, stack, pid, saved, slot, shell, keys>>

(* The message about a background job, and the return to the prompt. *)
Announce ==
    /\ At("main", "announce")
    /\ GoTo("main", "read")
    /\ pid' = [pid EXCEPT !["main"] = NoPid]
    /\ UNCHANGED <<jobVars, proc, pending, blocked, stack, saved, slot, shell, keys>>

(* The slots a job argument can name: getjobpid and getjobjid return the first
   slot with that pid or that job id. *)
Named(i) == jobs[i].pid # NoPid /\ (First(i, SlotsOf(jobs[i].pid)) \/ First(i, SlotsOfJid(jobs[i].jid)))

(* do_bgfg on an existing job, under mask_all: continue the job's group, or
   die in Kill when there is no such group; then set the state. *)
DoBgfg(fg) ==
    /\ At("main", "read")
    /\ \E i \in Slots :
         /\ Named(i)
         /\ LET p == jobs[i].pid IN
            IF GroupExists(p)
            THEN /\ \E s \in Effect(p, "CONT") : Move(p, s)
                 /\ jobs' = [jobs EXCEPT ![i].state = IF fg THEN "FG" ELSE "BG"]
                 /\ slot' = i
                 /\ GoTo("main", IF fg THEN "refetch" ELSE "announce")
                 /\ UNCHANGED shell
            ELSE /\ shell' = "failed"
                 /\ UNCHANGED <<jobs, proc, pending, slot, pc>>
    /\ UNCHANGED <<nextjid, blocked, stack, pid, saved, keys>>

(* fg reads job->pid again, after it unblocked the signals. *)
DoFgRefetch ==
    /\ At("main", "refetch")
    /\ pid' = [pid EXCEPT !["main"] = jobs[slot].pid]
    /\ slot' = 1
    /\ GoTo("main", "waitfg")
    /\ UNCHANGED <<jobVars, proc, pending, blocked, stack, saved, shell, keys>>

(* The busy loop of waitfg, and its exit. *)
WaitfgSpin == At("main", "waitfg") /\ fgpid(pid["main"]) /\ UNCHANGED vars

(* Mutant: waitfg does not look at the job list. *)
MutantWaitfgAtOnce ==
    /\ At("main", "waitfg")
    /\ GoTo("main", "read")
    /\ pid' = [pid EXCEPT !["main"] = NoPid]
    /\ UNCHANGED <<jobVars, proc, pending, blocked, stack, saved, slot, shell, keys>>

WaitfgReturn ==
    /\ At("main", "waitfg")
    /\ ~fgpid(pid["main"])
    /\ GoTo("main", "read")
    /\ pid' = [pid EXCEPT !["main"] = NoPid]
    /\ UNCHANGED <<jobVars, proc, pending, blocked, stack, saved, slot, shell, keys>>

(* The quit command, or the end of the input. *)
Quit ==
    /\ At("main", "read")
    /\ shell' = "exited"
    /\ UNCHANGED <<jobVars, proc, pending, blocked, frameVars, keys>>

(***************************************************************************)
(* Signal handlers.                                                        *)
(***************************************************************************)
Entry == [INT |-> "fgpid", TSTP |-> "fgpid", QUIT |-> "exit", CHLD |-> "waitpid"]

(* The kernel starts a handler: sa_mask is empty, so only the handled signal
   is added to the mask. *)
Deliver(sig) ==
    /\ shell = "up"
    /\ sig \in pending \ blocked
    /\ pending' = pending \ {sig}
    /\ blocked' = blocked \cup {sig}
    /\ saved' = [saved EXCEPT ![sig] = blocked]
    /\ stack' = <<sig>> \o stack
    /\ GoTo(sig, Entry[sig])
    /\ UNCHANGED <<jobVars, proc, pid, slot, shell, keys>>

(* The handler returns and the mask it interrupted is put back. *)
Return(sig) ==
    /\ stack' = Tail(stack)
    /\ blocked' = saved[sig]
    /\ saved' = [saved EXCEPT ![sig] = {}]
    /\ pid' = [pid EXCEPT ![sig] = NoPid]
    /\ GoTo(sig, "idle")

(* One turn of the loop of sigchld_handler: waitpid(WNOHANG | WUNTRACED)
   reports one child and reaps it if it is dead. *)
SigchldWaitpid ==
    /\ At("CHLD", "waitpid")
    /\ \E p \in Pids :
         /\ proc[p] \in Reportable
         /\ proc' = [proc EXCEPT ![p] = IF proc[p] = "stopped" THEN "halted" ELSE "none"]
         /\ pid' = [pid EXCEPT !["CHLD"] = p]
         /\ GoTo("CHLD", IF proc[p] = "stopped" THEN "stop" ELSE "delete")
    /\ UNCHANGED <<jobVars, pending, blocked, stack, saved, slot, shell, keys>>

(* waitpid has no child to report: the loop ends. *)
SigchldReturn ==
    /\ At("CHLD", "waitpid")
    /\ \A p \in Pids : proc[p] \notin Reportable
    /\ Return("CHLD")
    /\ UNCHANGED <<jobVars, proc, pending, slot, shell, keys>>

(* Mutant: the handler takes one child per signal, without the loop. *)
MutantSigchldOneChild ==
    /\ At("CHLD", "delete")
    /\ deletejob(pid["CHLD"])
    /\ Return("CHLD")
    /\ UNCHANGED <<proc, pending, slot, shell, keys>>

(* A child that exited or was killed: deletejob under mask_all. *)
SigchldDelete ==
    /\ At("CHLD", "delete")
    /\ deletejob(pid["CHLD"])
    /\ GoTo("CHLD", "waitpid")
    /\ pid' = [pid EXCEPT !["CHLD"] = NoPid]
    /\ UNCHANGED <<proc, pending, blocked, stack, saved, slot, shell, keys>>

(* Mutant: a stopped job is taken for a background job. *)
MutantStopIsBackground ==
    /\ At("CHLD", "stop")
    /\ \E i \in SlotsOf(pid["CHLD"]) : jobs' = [jobs EXCEPT ![i].state = "BG"]
    /\ pid' = [pid EXCEPT !["CHLD"] = NoPid]
    /\ GoTo("CHLD", "waitpid")
    /\ UNCHANGED <<nextjid, proc, pending, blocked, stack, saved, slot, shell, keys>>

(* Mutant: a stop is reaped but not recorded. *)
MutantStopIsForgotten ==
    /\ At("CHLD", "stop")
    /\ pid' = [pid EXCEPT !["CHLD"] = NoPid]
    /\ GoTo("CHLD", "waitpid")
    /\ UNCHANGED <<jobVars, proc, pending, blocked, stack, saved, slot, shell, keys>>

(* A child that stopped: its job becomes ST, under mask_all. getjobpid may
   return NULL, which is dereferenced all the same. *)
SigchldStop ==
    /\ At("CHLD", "stop")
    /\ IF SlotsOf(pid["CHLD"]) = {}
       THEN shell' = "crashed" /\ UNCHANGED <<jobs, pid, pc>>
       ELSE /\ \E i \in Slots :
                 /\ First(i, SlotsOf(pid["CHLD"]))
                 /\ jobs' = [jobs EXCEPT ![i].state = "ST"]
            /\ pid' = [pid EXCEPT !["CHLD"] = NoPid]
            /\ GoTo("CHLD", "waitpid")
            /\ UNCHANGED shell
    /\ UNCHANGED <<nextjid, proc, pending, blocked, stack, saved, slot, keys>>

(* Mutant: the key goes to any job, not to the foreground one. *)
MutantForwardToAny(sig) ==
    /\ At(sig, "fgpid")
    /\ IF \A i \in Slots : jobs[i].pid = NoPid
       THEN Return(sig)
       ELSE /\ \E i \in Slots \ SlotsOf(NoPid) : pid' = [pid EXCEPT ![sig] = jobs[i].pid]
            /\ GoTo(sig, "kill")
            /\ UNCHANGED <<stack, blocked, saved>>
    /\ UNCHANGED <<jobVars, proc, pending, slot, shell, keys>>

(* sigint_handler and sigtstp_handler look the foreground job up ... *)
ForwardFgpid(sig) ==
    /\ At(sig, "fgpid")
    /\ IF fgpid(NoPid)
       THEN Return(sig)
       ELSE /\ \E p \in Pids : fgpid(p) /\ pid' = [pid EXCEPT ![sig] = p]
            /\ GoTo(sig, "kill")
            /\ UNCHANGED <<stack, blocked, saved>>
    /\ UNCHANGED <<jobVars, proc, pending, slot, shell, keys>>

(* ... and send the signal to its process group. Kill ends the shell when the
   group does not exist. *)
ForwardKill(sig) ==
    /\ At(sig, "kill")
    /\ IF GroupExists(pid[sig])
       THEN /\ \E s \in Effect(pid[sig], sig) : Move(pid[sig], s)
            /\ Return(sig)
            /\ UNCHANGED shell
       ELSE /\ shell' = "failed"
            /\ UNCHANGED <<proc, pending, stack, pc, pid, saved, blocked>>
    /\ UNCHANGED <<jobVars, slot, keys>>

(* sigquit_handler ends the shell. *)
SigquitExit ==
    /\ At("QUIT", "exit")
    /\ shell' = "quit"
    /\ UNCHANGED <<jobVars, proc, pending, blocked, frameVars, keys>>

(***************************************************************************)
(* The children, the keyboard, and the next-state relation.                *)
(***************************************************************************)
Setpgid(p) ==
    /\ proc[p] = "forked"
    /\ proc' = [proc EXCEPT ![p] = "execing"]
    /\ UNCHANGED pending

Exec(p) ==
    /\ proc[p] = "execing"
    /\ proc' = [proc EXCEPT ![p] = "running"]
    /\ UNCHANGED pending

(* A program stops itself, or is stopped by another process. *)
Stop(p) == proc[p] = "running" /\ Move(p, "stopped")

(* A child exits (a program that cannot be executed exits from "execing"), or
   is killed by a signal, which may reach it in any state. *)
Die(p) ==
    \/ proc[p] \in {"execing", "running"} /\ Move(p, "exited")
    \/ proc[p] \notin Zombies \cup {"none"} /\ Move(p, "signaled")

Child(p) ==
    /\ shell = "up"
    /\ Setpgid(p) \/ Exec(p) \/ Stop(p) \/ Die(p)
    /\ UNCHANGED <<jobVars, blocked, frameVars, shell, keys>>

(* A signal is sent to the shell. *)
Send(sig) ==
    /\ shell = "up"
    /\ keys < MaxKeys
    /\ keys' = keys + 1
    /\ pending' = pending \cup {sig}
    /\ UNCHANGED <<jobVars, proc, blocked, frameVars, shell>>

(* The steps the shell makes by itself, when it does not wait for input. *)
MainStep ==
    \/ \E bg \in BOOLEAN : EvalAddjob(bg)
    \/ Announce
    \/ DoFgRefetch
    \/ WaitfgReturn

HandlerStep ==
    \/ SigchldWaitpid \/ SigchldReturn \/ SigchldDelete \/ SigchldStop
    \/ \E sig \in {"INT", "TSTP"} : ForwardFgpid(sig) \/ ForwardKill(sig)
    \/ SigquitExit

User ==
    \/ \E bg \in BOOLEAN : Eval(bg)
    \/ \E fg \in BOOLEAN : DoBgfg(fg)
    \/ Quit
    \/ \E sig \in Keyboard : Send(sig)

Ended == shell # "up" /\ UNCHANGED vars

Next ==
    \/ User
    \/ MainStep
    \/ WaitfgSpin
    \/ \E sig \in Signals : Deliver(sig)
    \/ HandlerStep
    \/ \E p \in Pids : Child(p)
    \/ Ended

Spec == Init /\ [][Next]_vars

(* The kernel keeps running the shell, and delivers a signal that is pending
   and not blocked. Delivery is strongly fair because sigprocmask delivers on
   its return a pending signal it has just unblocked: a user who types command
   after command cannot hold SIGCHLD back. Nothing is assumed of the user or
   of the programs. *)
Fairness ==
    /\ WF_vars(MainStep \/ HandlerStep)
    /\ \A sig \in Signals : SF_vars(Deliver(sig))

FairSpec == Spec /\ Fairness

(***************************************************************************)
(* Properties.                                                             *)
(***************************************************************************)
PidValues == Pids \cup {NoPid, ErrPid}
MainLabels == {"read", "addfg", "addbg", "announce", "refetch", "waitfg"}
HandlerLabels == {"idle", "waitpid", "delete", "stop", "fgpid", "kill", "exit"}

TypeOK ==
    /\ jobs \in [Slots -> Job]
    /\ nextjid \in Nat \ {0}
    /\ proc \in [Pids -> ProcStates]
    /\ pending \subseteq Signals
    /\ blocked \subseteq Signals
    /\ stack \in Seq(Signals)
    /\ pc \in [Contexts -> MainLabels \cup HandlerLabels]
    /\ pid \in [Contexts -> PidValues]
    /\ saved \in [Contexts -> SUBSET Signals]
    /\ slot \in Slots
    /\ shell \in {"up", "exited", "quit", "failed", "crashed"}
    /\ keys \in 0..MaxKeys

(* A slot is in state FG only while the main flow is in waitfg, or on its way
   there, for that very job: no job is left in the foreground at the prompt,
   so the ctrl-c of an idle shell reaches nobody (eval and do_bgfg set FG,
   sigchld_handler clears it, waitfg polls it). *)
ForegroundIsAwaited ==
    \A i \in ForegroundSlots :
        \/ pc["main"] = "waitfg" /\ pid["main"] = jobs[i].pid
        \/ pc["main"] = "refetch" /\ slot = i

(* tsh.c line 37: at most one job can be in the FG state. *)
AtMostOneForeground == \A i, k \in ForegroundSlots : i = k

(* With no SIGCHLD pending or being handled and no job half-started, the list
   and the kernel agree: every child is in exactly one slot, every slot holds
   a child, stopped jobs are the ST ones, and no zombie is left. SIGCHLD does
   not count children, so this rests on the loop of sigchld_handler. *)
Settled ==
    /\ shell = "up"
    /\ "CHLD" \notin pending
    /\ pc["CHLD"] = "idle"
    /\ pc["main"] \notin {"addfg", "addbg"}

ListMatchesKernel ==
    Settled =>
        /\ \A p \in Pids : proc[p] # "none" => \E i \in Slots : SlotsOf(p) = {i}
        /\ \A i \in Slots : jobs[i].pid # NoPid =>
             IF jobs[i].state = "ST" THEN proc[jobs[i].pid] = "halted"
             ELSE proc[jobs[i].pid] \in {"forked", "execing", "running"}

(* No slot outlives its process: the pid of every job is that of a child not
   reaped yet, or of the one sigchld_handler is about to delete. With SIGCHLD
   blocked from fork to addjob, deletejob never comes before its addjob. *)
NoGhostJob ==
    \A i \in Slots : jobs[i].pid # NoPid =>
        \/ proc[jobs[i].pid] # "none"
        \/ pc["CHLD"] = "delete" /\ pid["CHLD"] = jobs[i].pid

(* A reported stop always finds its job: sigchld_handler never dereferences
   the NULL of getjobpid. *)
NoNullJob == shell # "crashed"

(* A ctrl-c or ctrl-z never acts on a background job, even though the handler
   looks the job up in one step and signals it in a later one. *)
BackgroundIsSpared ==
    [][\A sig \in {"INT", "TSTP"} : ForwardKill(sig) =>
         \A i \in Slots : jobs[i].state = "BG" => UNCHANGED proc[jobs[i].pid]]_vars

(* The transitions of tsh.c lines 30-36, and the one that comment leaves out:
   a background job that stops goes from BG to ST. A slot changes hands only
   through UNDEF. *)
JobTransitions ==
    [][\A i \in Slots : jobs'[i] # jobs[i] =>
         \/ jobs[i].state = "UNDEF" \/ jobs'[i].state = "UNDEF"
         \/ /\ jobs'[i].pid = jobs[i].pid
            /\ <<jobs[i].state, jobs'[i].state>> \in
                 {<<"FG", "ST">>, <<"BG", "ST">>, <<"ST", "FG">>, <<"ST", "BG">>, <<"BG", "FG">>}]_vars

(* waitfg on a real child comes back to the prompt once that child is gone or
   stopped, unless the shell itself ends. *)
WaitEnds ==
    \A p \in Pids :
        (pc["main"] = "waitfg" /\ pid["main"] = p /\ proc[p] \in Reportable \cup {"none", "halted"})
            ~> (pc["main"] = "read" \/ shell # "up")

(* Every zombie is reaped, unless the shell ends first. *)
ZombiesAreReaped ==
    \A p \in Pids : (proc[p] \in Zombies) ~> (proc[p] = "none" \/ shell # "up")

(* tsh.c line 372: waitfg blocks until the process is no longer the
   foreground process; with no foreground process at all it must come back. *)
WaitfgComesBack ==
    (pc["main"] = "waitfg" /\ ForegroundSlots = {}) ~> (pc["main"] # "waitfg" \/ shell # "up")

(* tsh.c lines 443-446 and 458-462: a ctrl-c or ctrl-z is caught and sent along
   to the foreground job; handling it does not end the shell. *)
KeysAreForwarded ==
    [][\A sig \in {"INT", "TSTP"} : ForwardKill(sig) => shell' = "up"]_vars
=============================================================================
