-------------------------- MODULE TshProofs ----------------------------
(***************************************************************************)
(* Proofs about Tsh for every number of slots and processes, and for every *)
(* content of the uninitialised mask_one: types, the foreground job, the   *)
(* frames of the handlers; then how jobs change state, that keys spare the *)
(* background jobs, and that the job list and the kernel agree.            *)
(***************************************************************************)
EXTENDS Tsh, TLAPS, FiniteSetTheorems

USE PidAssumption, MAXJOBSAssumption, MaskAssumption, BoundAssumption

(* Slot 1 exists, so Init's slot and the one DoFgRefetch leaves are slots. *)
LEMMA SlotsNonEmpty == 1 \in Slots /\ Slots \subseteq Nat
  BY DEF Slots

(* addjob and deletejob keep the job list and nextjid well typed. *)
LEMMA AddjobType ==
  ASSUME TypeOK, NEW p \in PidValues, NEW st \in {"FG", "BG"}, addjob(p, st)
  PROVE  /\ jobs' \in [Slots -> Job]
         /\ nextjid' \in Nat \ {0}
<1>1. CASE p \in Pids /\ SlotsOf(NoPid) # {}
  <2>1. PICK i \in Slots :
          jobs' = [jobs EXCEPT ![i] = [pid |-> p, jid |-> nextjid, state |-> st]]
    BY <1>1 DEF addjob
  <2>2. [pid |-> p, jid |-> nextjid, state |-> st] \in Job
    BY <1>1 DEF Job, JobStates, TypeOK
  <2>3. jobs' \in [Slots -> Job]
    BY <2>1, <2>2 DEF TypeOK
  <2>4. nextjid' \in Nat \ {0}
    BY <1>1 DEF addjob, TypeOK
  <2>5. QED
    BY <2>3, <2>4
<1>2. CASE ~(p \in Pids /\ SlotsOf(NoPid) # {})
  BY <1>2 DEF addjob, TypeOK, jobVars
<1>3. QED
  BY <1>1, <1>2

LEMMA DeletejobType ==
  ASSUME TypeOK, NEW p \in PidValues, deletejob(p)
  PROVE  /\ jobs' \in [Slots -> Job]
         /\ nextjid' \in Nat \ {0}
<1>1. CASE p \in Pids /\ SlotsOf(p) # {}
  <2>1. PICK i \in Slots : /\ jobs' = [jobs EXCEPT ![i] = Cleared]
                           /\ \E m \in Jids(jobs') : maxjid(jobs', m) /\ nextjid' = m + 1
    BY <1>1 DEF deletejob
  <2>2. Cleared \in Job
    BY DEF Cleared, Job, JobStates
  <2>3. jobs' \in [Slots -> Job]
    BY <2>1, <2>2 DEF TypeOK
  <2>4. Jids(jobs') \subseteq Nat
    BY <2>3 DEF Jids, Job
  <2>5. PICK m \in Jids(jobs') : nextjid' = m + 1
    BY <2>1
  <2>6. QED
    BY <2>3, <2>4, <2>5
<1>2. CASE ~(p \in Pids /\ SlotsOf(p) # {})
  BY <1>2 DEF deletejob, TypeOK, jobVars
<1>3. QED
  BY <1>1, <1>2

(* Changing the state of one slot. *)
LEMMA StateType ==
  ASSUME TypeOK, NEW i \in Slots, NEW st \in JobStates,
         jobs' = [jobs EXCEPT ![i].state = st]
  PROVE  jobs' \in [Slots -> Job]
<1>1. jobs[i] \in Job /\ jobs \in [Slots -> Job]
  BY DEF TypeOK
<1>2. [jobs[i] EXCEPT !.state = st] \in Job
  BY <1>1 DEF Job
<1>3. jobs' = [jobs EXCEPT ![i] = [jobs[i] EXCEPT !.state = st]]
  OBVIOUS
<1>4. QED
  BY <1>1, <1>2, <1>3

(* A signal's effect and a process's move stay within the process states. *)
LEMMA MoveType ==
  ASSUME TypeOK, NEW p \in Pids, NEW s \in ProcStates, Move(p, s)
  PROVE  proc' \in [Pids -> ProcStates] /\ pending' \subseteq Signals
  BY DEF Move, TypeOK, Signals

LEMMA EffectType ==
  ASSUME TypeOK, NEW p \in Pids, NEW sig
  PROVE  Effect(p, sig) \subseteq ProcStates
  BY DEF Effect, TypeOK, ProcStates

(* A handler's return keeps the frames well typed. *)
LEMMA ReturnType ==
  ASSUME TypeOK, NEW sig \in Signals, Return(sig), stack # <<>>
  PROVE  /\ stack' \in Seq(Signals) /\ blocked' \subseteq Signals
         /\ pc' \in [Contexts -> MainLabels \cup HandlerLabels]
         /\ pid' \in [Contexts -> PidValues]
         /\ saved' \in [Contexts -> SUBSET Signals]
<1>1. sig \in Contexts
  BY DEF Contexts
<1>2. stack' \in Seq(Signals)
  BY DEF TypeOK, Return
<1>3. QED
  BY <1>1, <1>2 DEF TypeOK, Return, GoTo, HandlerLabels, PidValues

(***************************************************************************)
(* Type correctness: one step per action.                                  *)
(***************************************************************************)
THEOREM TypeCorrect == Spec => []TypeOK
<1>1. Init => TypeOK
  BY SlotsNonEmpty DEF Init, TypeOK, Job, JobStates, Cleared, ProcStates, PidValues,
       MainLabels, HandlerLabels, Contexts
<1>2. TypeOK /\ [Next]_vars => TypeOK'
  <2> SUFFICES ASSUME TypeOK, [Next]_vars PROVE TypeOK'
    OBVIOUS
  <2> "main" \in Contexts /\ \A sig \in Signals : sig \in Contexts
    BY DEF Contexts
  <2>1. ASSUME NEW bg \in BOOLEAN, Eval(bg) PROVE TypeOK'
    <3>1. PICK m \in MaskOutcomes : blocked' = blocked \cup m
      BY <2>1 DEF Eval
    <3>2. blocked' \subseteq Signals
      BY <3>1 DEF TypeOK
    <3>3. PICK p \in Pids \cup {ErrPid} :
            /\ proc' = IF p \in Pids THEN [proc EXCEPT ![p] = "forked"] ELSE proc
            /\ pid' = [pid EXCEPT !["main"] = p]
      BY <2>1 DEF Eval
    <3>4. proc' \in [Pids -> ProcStates] /\ pid' \in [Contexts -> PidValues]
      BY <3>3 DEF TypeOK, ProcStates, PidValues
    <3>5. QED
      BY <2>1, <3>2, <3>4 DEF Eval, TypeOK, GoTo, jobVars, MainLabels
  <2>2. ASSUME NEW bg \in BOOLEAN, EvalAddjob(bg) PROVE TypeOK'
    <3>1. pid["main"] \in PidValues
      BY DEF TypeOK
    <3>2. jobs' \in [Slots -> Job] /\ nextjid' \in Nat \ {0}
      BY <2>2, <3>1, AddjobType DEF EvalAddjob
    <3>3. QED
      BY <2>2, <3>2 DEF EvalAddjob, TypeOK, GoTo, MainLabels
  <2>3. CASE Announce
    BY <2>3 DEF Announce, TypeOK, GoTo, jobVars, MainLabels, PidValues
  <2>4. ASSUME NEW fg \in BOOLEAN, DoBgfg(fg) PROVE TypeOK'
    <3>1. PICK i \in Slots :
            /\ Named(i)
            /\ IF GroupExists(jobs[i].pid)
               THEN /\ \E s \in Effect(jobs[i].pid, "CONT") : Move(jobs[i].pid, s)
                    /\ jobs' = [jobs EXCEPT ![i].state = IF fg THEN "FG" ELSE "BG"]
                    /\ slot' = i
                    /\ GoTo("main", IF fg THEN "refetch" ELSE "announce")
                    /\ UNCHANGED shell
               ELSE /\ shell' = "failed"
                    /\ UNCHANGED <<jobs, proc, pending, slot, pc>>
      BY <2>4 DEF DoBgfg
    <3>2. CASE GroupExists(jobs[i].pid)
      <4>1. jobs[i].pid \in Pids
        BY <3>2 DEF GroupExists
      <4>2. proc' \in [Pids -> ProcStates] /\ pending' \subseteq Signals
        BY <3>1, <3>2, <4>1, EffectType, MoveType
      <4>3. jobs' \in [Slots -> Job]
        BY <3>1, <3>2, StateType DEF JobStates
      <4>4. QED
        BY <2>4, <3>1, <3>2, <4>2, <4>3 DEF DoBgfg, TypeOK, GoTo, MainLabels
    <3>3. CASE ~GroupExists(jobs[i].pid)
      BY <2>4, <3>1, <3>3 DEF DoBgfg, TypeOK
    <3>4. QED
      BY <3>2, <3>3
  <2>5. CASE DoFgRefetch
    <3>1. jobs[slot].pid \in PidValues
      BY DEF TypeOK, Job, PidValues
    <3>2. QED
      BY <2>5, <3>1, SlotsNonEmpty DEF DoFgRefetch, TypeOK, GoTo, jobVars, MainLabels
  <2>6. CASE WaitfgReturn
    BY <2>6 DEF WaitfgReturn, TypeOK, GoTo, jobVars, MainLabels, PidValues
  <2>7. CASE Quit
    BY <2>7 DEF Quit, TypeOK, jobVars, frameVars
  <2>8. ASSUME NEW sig \in Keyboard, Send(sig) PROVE TypeOK'
    BY <2>8 DEF Send, TypeOK, jobVars, frameVars, Signals
  <2>9. ASSUME NEW sig \in Signals, Deliver(sig) PROVE TypeOK'
    <3>1. stack' \in Seq(Signals)
      BY <2>9 DEF Deliver, TypeOK
    <3>2. Entry[sig] \in HandlerLabels
      BY DEF Entry, HandlerLabels, Signals, Keyboard
    <3>3. QED
      BY <2>9, <3>1, <3>2 DEF Deliver, TypeOK, GoTo, jobVars
  <2>10. CASE SigchldWaitpid
    <3>1. PICK p \in Pids :
            /\ proc' = [proc EXCEPT ![p] = IF proc[p] = "stopped" THEN "halted" ELSE "none"]
            /\ pid' = [pid EXCEPT !["CHLD"] = p]
            /\ GoTo("CHLD", IF proc[p] = "stopped" THEN "stop" ELSE "delete")
      BY <2>10 DEF SigchldWaitpid
    <3>2. proc' \in [Pids -> ProcStates]
      BY <3>1 DEF TypeOK, ProcStates
    <3>3. QED
      BY <2>10, <3>1, <3>2 DEF SigchldWaitpid, TypeOK, GoTo, jobVars, HandlerLabels, PidValues
  <2>11. CASE SigchldReturn
    <3>1. "CHLD" \in Signals /\ stack # <<>>
      BY <2>11 DEF SigchldReturn, At, Top, Signals
    <3>2. QED
      BY <2>11, <3>1, ReturnType DEF SigchldReturn, TypeOK, jobVars
  <2>12. CASE SigchldDelete
    <3>1. "CHLD" \in Contexts
      BY DEF Contexts, Signals
    <3>2. jobs' \in [Slots -> Job] /\ nextjid' \in Nat \ {0}
      BY <2>12, <3>1, DeletejobType DEF SigchldDelete, TypeOK
    <3>3. QED
      BY <2>12, <3>2 DEF SigchldDelete, TypeOK, GoTo, HandlerLabels, PidValues
  <2>13. CASE SigchldStop
    <3>1. CASE SlotsOf(pid["CHLD"]) = {}
      BY <2>13, <3>1 DEF SigchldStop, TypeOK
    <3>2. CASE SlotsOf(pid["CHLD"]) # {}
      <4>1. PICK i \in Slots : jobs' = [jobs EXCEPT ![i].state = "ST"]
        BY <2>13, <3>2 DEF SigchldStop
      <4>2. jobs' \in [Slots -> Job]
        BY <4>1, StateType DEF JobStates
      <4>3. QED
        BY <2>13, <3>2, <4>2 DEF SigchldStop, TypeOK, GoTo, HandlerLabels, PidValues
    <3>3. QED
      BY <3>1, <3>2
  <2>14. ASSUME NEW sig \in {"INT", "TSTP"}, ForwardFgpid(sig) PROVE TypeOK'
    <3>1. sig \in Signals /\ stack # <<>>
      BY <2>14 DEF ForwardFgpid, At, Top, Signals, Keyboard
    <3>2. CASE fgpid(NoPid)
      BY <2>14, <3>1, <3>2, ReturnType DEF ForwardFgpid, TypeOK, jobVars
    <3>3. CASE ~fgpid(NoPid)
      <4>1. PICK p \in Pids : pid' = [pid EXCEPT ![sig] = p]
        BY <2>14, <3>3 DEF ForwardFgpid
      <4>2. pid' \in [Contexts -> PidValues]
        BY <4>1 DEF TypeOK, PidValues
      <4>3. pc' \in [Contexts -> MainLabels \cup HandlerLabels]
        BY <2>14, <3>3 DEF ForwardFgpid, GoTo, TypeOK, HandlerLabels
      <4>4. QED
        BY <2>14, <3>3, <4>2, <4>3 DEF ForwardFgpid, TypeOK, jobVars
    <3>4. QED
      BY <3>2, <3>3
  <2>15. ASSUME NEW sig \in {"INT", "TSTP"}, ForwardKill(sig) PROVE TypeOK'
    <3>1. sig \in Signals /\ stack # <<>>
      BY <2>15 DEF ForwardKill, At, Top, Signals, Keyboard
    <3>2. CASE GroupExists(pid[sig])
      <4>1. pid[sig] \in Pids
        BY <3>2 DEF GroupExists
      <4>2. proc' \in [Pids -> ProcStates] /\ pending' \subseteq Signals
        BY <2>15, <3>2, <4>1, EffectType, MoveType DEF ForwardKill
      <4>3. QED
        BY <2>15, <3>1, <3>2, <4>2, ReturnType DEF ForwardKill, TypeOK, jobVars
    <3>3. CASE ~GroupExists(pid[sig])
      BY <2>15, <3>3 DEF ForwardKill, TypeOK, jobVars
    <3>4. QED
      BY <3>2, <3>3
  <2>16. CASE SigquitExit
    BY <2>16 DEF SigquitExit, TypeOK, jobVars, frameVars
  <2>17. ASSUME NEW p \in Pids, Child(p) PROVE TypeOK'
    <3>1. proc' \in [Pids -> ProcStates] /\ pending' \subseteq Signals
      <4>1. CASE Setpgid(p) \/ Exec(p)
        BY <4>1 DEF Setpgid, Exec, TypeOK, ProcStates
      <4>2. CASE Stop(p) \/ Die(p)
        BY <4>2, MoveType DEF Stop, Die, ProcStates
      <4>3. QED
        BY <2>17, <4>1, <4>2 DEF Child
    <3>2. QED
      BY <2>17, <3>1 DEF Child, TypeOK, jobVars, frameVars
  <2>18. CASE UNCHANGED vars
    BY <2>18 DEF TypeOK, vars
  <2>19. CASE Next
    BY <2>1, <2>2, <2>3, <2>4, <2>5, <2>6, <2>7, <2>8, <2>9, <2>10, <2>11, <2>12, <2>13,
       <2>14, <2>15, <2>16, <2>17, <2>18, <2>19
       DEF Next, User, MainStep, WaitfgSpin, HandlerStep, Ended
  <2>20. QED
    BY <2>18, <2>19
<1>3. QED
  BY <1>1, <1>2, PTL DEF Spec

(***************************************************************************)
(* The foreground job. The two properties hold each other up: waitfg polls *)
(* the first FG slot, so that it leaves none behind only when there is at  *)
(* most one, and no second one appears because the prompt has none.        *)
(***************************************************************************)
ForegroundInv == ForegroundIsAwaited /\ AtMostOneForeground

(* A step that makes no slot FG and leaves the main flow where it is keeps the
   foreground invariant. *)
LEMMA ForegroundShrinks ==
  ASSUME ForegroundInv,
         \A i \in Slots : jobs'[i].state = "FG" =>
           jobs[i].state = "FG" /\ jobs'[i].pid = jobs[i].pid,
         pc'["main"] = pc["main"], pid'["main"] = pid["main"], slot' = slot
  PROVE  ForegroundInv'
  BY DEF ForegroundInv, ForegroundIsAwaited, AtMostOneForeground, ForegroundSlots

(* A step to one FG slot, awaited. *)
LEMMA ForegroundAlone ==
  ASSUME NEW i \in Slots, ForegroundSlots' \subseteq {i},
         \/ pc'["main"] = "waitfg" /\ pid'["main"] = jobs'[i].pid
         \/ pc'["main"] = "refetch" /\ slot' = i
  PROVE  ForegroundInv'
  BY DEF ForegroundInv, ForegroundIsAwaited, AtMostOneForeground

(* What deletejob leaves is what was there. *)
LEMMA DeletejobShrinks ==
  ASSUME TypeOK, NEW p, deletejob(p), NEW i \in Slots, jobs'[i].state = "FG"
  PROVE  jobs[i].state = "FG" /\ jobs'[i].pid = jobs[i].pid
<1>1. CASE p \in Pids /\ SlotsOf(p) # {}
  <2>1. PICK k \in Slots : jobs' = [jobs EXCEPT ![k] = Cleared]
    BY <1>1 DEF deletejob
  <2>2. Cleared.state # "FG"
    BY DEF Cleared
  <2>3. QED
    BY <2>1, <2>2 DEF TypeOK
<1>2. CASE ~(p \in Pids /\ SlotsOf(p) # {})
  BY <1>2 DEF deletejob, jobVars
<1>3. QED
  BY <1>1, <1>2

THEOREM ForegroundCorrect == Spec => [](ForegroundIsAwaited /\ AtMostOneForeground)
<1>1. Init => ForegroundInv
  BY DEF Init, ForegroundInv, ForegroundIsAwaited, AtMostOneForeground, ForegroundSlots, Cleared
<1>2. TypeOK /\ ForegroundInv /\ [Next]_vars => ForegroundInv'
  <2> SUFFICES ASSUME TypeOK, ForegroundInv, [Next]_vars PROVE ForegroundInv'
    OBVIOUS
  <2> "main" \in Contexts /\ "main" \notin Signals /\ \A sig \in Signals : sig \in Contexts
    BY DEF Contexts, Signals, Keyboard
  <2> /\ pc \in [Contexts -> MainLabels \cup HandlerLabels]
      /\ pid \in [Contexts -> PidValues]
      /\ jobs \in [Slots -> Job]
    BY DEF TypeOK
  <2>a. pc["main"] \notin {"waitfg", "refetch"} => ForegroundSlots = {}
    BY DEF ForegroundInv, ForegroundIsAwaited
  <2>1. ASSUME NEW bg \in BOOLEAN, Eval(bg) PROVE ForegroundInv'
    <3>1. ForegroundSlots' = {}
      BY <2>1, <2>a DEF Eval, At, jobVars, ForegroundSlots
    <3>2. QED
      BY <3>1 DEF ForegroundInv, ForegroundIsAwaited, AtMostOneForeground
  <2>2. ASSUME NEW bg \in BOOLEAN, EvalAddjob(bg) PROVE ForegroundInv'
    <3>1. ForegroundSlots = {}
      BY <2>2, <2>a DEF EvalAddjob, At
    <3> DEFINE p == pid["main"]
               st == IF bg THEN "BG" ELSE "FG"
    <3>2. CASE p \in Pids /\ SlotsOf(NoPid) # {}
      <4>1. PICK i \in Slots :
              jobs' = [jobs EXCEPT ![i] = [pid |-> p, jid |-> nextjid, state |-> st]]
        BY <2>2, <3>2 DEF EvalAddjob, addjob
      <4>2. jobs'[i].pid = p /\ jobs'[i].state = st
        BY <4>1
      <4>3. ForegroundSlots' \subseteq {i}
        BY <3>1, <4>1 DEF ForegroundSlots
      <4>4. CASE bg
        <5>1. ForegroundSlots' = {}
          BY <4>2, <4>3, <4>4 DEF ForegroundSlots
        <5>2. QED
          BY <5>1 DEF ForegroundInv, ForegroundIsAwaited, AtMostOneForeground
      <4>5. CASE ~bg
        <5>1. pc'["main"] = "waitfg" /\ pid'["main"] = jobs'[i].pid
          BY <2>2, <4>2, <4>5 DEF EvalAddjob, GoTo
        <5>2. QED
          BY <4>3, <5>1, ForegroundAlone
      <4>6. QED
        BY <4>4, <4>5
    <3>3. CASE ~(p \in Pids /\ SlotsOf(NoPid) # {})
      <4>1. ForegroundSlots' = {}
        BY <2>2, <3>1, <3>3 DEF EvalAddjob, addjob, jobVars, ForegroundSlots
      <4>2. QED
        BY <4>1 DEF ForegroundInv, ForegroundIsAwaited, AtMostOneForeground
    <3>4. QED
      BY <3>2, <3>3
  <2>3. CASE Announce
    <3>1. ForegroundSlots' = {}
      BY <2>3, <2>a DEF Announce, At, jobVars, ForegroundSlots
    <3>2. QED
      BY <3>1 DEF ForegroundInv, ForegroundIsAwaited, AtMostOneForeground
  <2>4. ASSUME NEW fg \in BOOLEAN, DoBgfg(fg) PROVE ForegroundInv'
    <3>1. ForegroundSlots = {}
      BY <2>4, <2>a DEF DoBgfg, At
    <3>2. PICK i \in Slots :
            IF GroupExists(jobs[i].pid)
            THEN /\ jobs' = [jobs EXCEPT ![i].state = IF fg THEN "FG" ELSE "BG"]
                 /\ slot' = i
                 /\ GoTo("main", IF fg THEN "refetch" ELSE "announce")
            ELSE UNCHANGED <<jobs, slot, pc>>
      BY <2>4 DEF DoBgfg
    <3>3. CASE GroupExists(jobs[i].pid) /\ fg
      <4>1. ForegroundSlots' \subseteq {i}
        BY <3>1, <3>2, <3>3 DEF ForegroundSlots
      <4>2. pc'["main"] = "refetch" /\ slot' = i
        BY <3>2, <3>3 DEF GoTo
      <4>3. QED
        BY <4>1, <4>2, ForegroundAlone
    <3>4. CASE GroupExists(jobs[i].pid) /\ ~fg
      <4>1. jobs[i] \in Job /\ jobs' = [jobs EXCEPT ![i] = [jobs[i] EXCEPT !.state = "BG"]]
        BY <3>2, <3>4
      <4>2. jobs'[i].state = "BG" /\ \A k \in Slots \ {i} : jobs'[k] = jobs[k]
        BY <4>1 DEF Job
      <4>3. ForegroundSlots' = {}
        BY <3>1, <4>2 DEF ForegroundSlots
      <4>4. QED
        BY <4>3 DEF ForegroundInv, ForegroundIsAwaited, AtMostOneForeground
    <3>5. CASE ~GroupExists(jobs[i].pid)
      <4>1. ForegroundSlots' = {}
        BY <3>1, <3>2, <3>5 DEF ForegroundSlots
      <4>2. QED
        BY <4>1 DEF ForegroundInv, ForegroundIsAwaited, AtMostOneForeground
    <3>6. QED
      BY <3>3, <3>4, <3>5
  <2>5. CASE DoFgRefetch
    <3>1. pc["main"] = "refetch" /\ pc'["main"] = "waitfg" /\ pid'["main"] = jobs[slot].pid
      BY <2>5 DEF DoFgRefetch, At, GoTo
    <3>2. slot \in Slots /\ ForegroundSlots \subseteq {slot}
      BY <3>1 DEF ForegroundInv, ForegroundIsAwaited, TypeOK
    <3>3. jobs' = jobs /\ ForegroundSlots' \subseteq {slot}
      BY <2>5, <3>2 DEF DoFgRefetch, jobVars, ForegroundSlots
    <3>4. QED
      BY <3>1, <3>2, <3>3 DEF ForegroundInv, ForegroundIsAwaited, AtMostOneForeground
  <2>6. CASE WaitfgReturn
    <3>1. pc["main"] = "waitfg" /\ ~fgpid(pid["main"])
      BY <2>6 DEF WaitfgReturn, At
    <3>2. ForegroundSlots = {}
      <4>1. SUFFICES ASSUME NEW i \in ForegroundSlots PROVE FALSE
        OBVIOUS
      <4>2. ForegroundSlots = {i}
        BY DEF ForegroundInv, AtMostOneForeground
      <4>3. i \in Nat /\ First(i, ForegroundSlots)
        BY <4>2, SlotsNonEmpty DEF First, ForegroundSlots
      <4>4. pid["main"] = jobs[i].pid
        BY <3>1 DEF ForegroundInv, ForegroundIsAwaited
      <4>5. QED
        BY <3>1, <4>2, <4>3, <4>4 DEF fgpid
    <3>3. ForegroundSlots' = {}
      BY <2>6, <3>2 DEF WaitfgReturn, jobVars, ForegroundSlots
    <3>4. QED
      BY <3>3 DEF ForegroundInv, ForegroundIsAwaited, AtMostOneForeground
  <2>7. CASE Quit
    BY <2>7, ForegroundShrinks DEF Quit, jobVars, frameVars
  <2>8. ASSUME NEW sig \in Keyboard, Send(sig) PROVE ForegroundInv'
    BY <2>8, ForegroundShrinks DEF Send, jobVars, frameVars
  <2>9. ASSUME NEW sig \in Signals, Deliver(sig) PROVE ForegroundInv'
    BY <2>9, ForegroundShrinks DEF Deliver, GoTo, jobVars
  <2>10. CASE SigchldWaitpid
    BY <2>10, ForegroundShrinks DEF SigchldWaitpid, GoTo, jobVars
  <2>11. CASE SigchldReturn
    BY <2>11, ForegroundShrinks DEF SigchldReturn, Return, GoTo, jobVars
  <2>12. CASE SigchldDelete
    <3>1. pc'["main"] = pc["main"] /\ pid'["main"] = pid["main"] /\ slot' = slot
      BY <2>12 DEF SigchldDelete, GoTo
    <3>2. deletejob(pid["CHLD"])
      BY <2>12 DEF SigchldDelete
    <3>3. QED
      BY <3>1, <3>2, DeletejobShrinks, ForegroundShrinks
  <2>13. CASE SigchldStop
    <3>1. CASE SlotsOf(pid["CHLD"]) = {}
      BY <2>13, <3>1, ForegroundShrinks DEF SigchldStop
    <3>2. CASE SlotsOf(pid["CHLD"]) # {}
      <4>1. PICK i \in Slots : jobs' = [jobs EXCEPT ![i].state = "ST"]
        BY <2>13, <3>2 DEF SigchldStop
      <4>2. jobs[i] \in Job /\ jobs' = [jobs EXCEPT ![i] = [jobs[i] EXCEPT !.state = "ST"]]
        BY <4>1
      <4>3. jobs'[i].state = "ST" /\ \A k \in Slots \ {i} : jobs'[k] = jobs[k]
        BY <4>2 DEF Job
      <4>4. pc'["main"] = pc["main"] /\ pid'["main"] = pid["main"] /\ slot' = slot
        BY <2>13, <3>2 DEF SigchldStop, GoTo
      <4>5. QED
        BY <4>3, <4>4, ForegroundShrinks
    <3>3. QED
      BY <3>1, <3>2
  <2>14. ASSUME NEW sig \in {"INT", "TSTP"}, ForwardFgpid(sig) PROVE ForegroundInv'
    <3>1. sig # "main"
      OBVIOUS
    <3>2. pc'["main"] = pc["main"] /\ pid'["main"] = pid["main"]
      BY <2>14, <3>1 DEF ForwardFgpid, Return, GoTo
    <3>3. QED
      BY <2>14, <3>2, ForegroundShrinks DEF ForwardFgpid, jobVars
  <2>15. ASSUME NEW sig \in {"INT", "TSTP"}, ForwardKill(sig) PROVE ForegroundInv'
    <3>1. sig # "main"
      OBVIOUS
    <3>2. pc'["main"] = pc["main"] /\ pid'["main"] = pid["main"]
      BY <2>15, <3>1 DEF ForwardKill, Return, GoTo
    <3>3. QED
      BY <2>15, <3>2, ForegroundShrinks DEF ForwardKill, jobVars
  <2>16. CASE SigquitExit
    BY <2>16, ForegroundShrinks DEF SigquitExit, jobVars, frameVars
  <2>17. ASSUME NEW p \in Pids, Child(p) PROVE ForegroundInv'
    BY <2>17, ForegroundShrinks DEF Child, jobVars, frameVars
  <2>18. CASE UNCHANGED vars
    BY <2>18, ForegroundShrinks DEF vars
  <2>19. CASE Next
    BY <2>1, <2>2, <2>3, <2>4, <2>5, <2>6, <2>7, <2>8, <2>9, <2>10, <2>11, <2>12, <2>13,
       <2>14, <2>15, <2>16, <2>17, <2>18, <2>19
       DEF Next, User, MainStep, WaitfgSpin, HandlerStep, Ended
  <2>20. QED
    BY <2>18, <2>19
<1>3. QED
  BY <1>1, <1>2, TypeCorrect, PTL DEF Spec, ForegroundInv

(***************************************************************************)
(* No ghost jobs. Here mask_one matters: the theorem holds of the builds   *)
(* in which it happens to contain SIGCHLD, and TLC shows that it fails     *)
(* without.                                                                *)
(***************************************************************************)
SigchldMasked == \A m \in MaskOutcomes : "CHLD" \in m

Adding == pc["main"] \in {"addfg", "addbg"}

(* Every running handler's signal is blocked, and stays blocked when the
   handlers above it return: so no signal is on the stack twice. *)
StackBlocked ==
    /\ \A k \in DOMAIN stack : stack[k] \in blocked
    /\ \A j, k \in DOMAIN stack : j < k => stack[k] # stack[j] /\ stack[k] \in saved[stack[j]]

(* sigchld_handler is between its start and its return only on the stack. *)
ReaperOnStack == pc["CHLD"] # "idle" => \E k \in DOMAIN stack : stack[k] = "CHLD"

(* Between fork and addjob SIGCHLD stays blocked and its handler is not
   running, whatever other handlers come and go. *)
ReaperHeldBack ==
    Adding => /\ "CHLD" \in blocked
              /\ \A k \in DOMAIN stack : stack[k] # "CHLD" /\ "CHLD" \in saved[stack[k]]

(* The child about to be added exists and has no slot yet. *)
NewcomerUnlisted ==
    Adding /\ pid["main"] \in Pids => proc[pid["main"]] # "none" /\ SlotsOf(pid["main"]) = {}

OneSlotPerPid == \A i, k \in Slots : jobs[i].pid = jobs[k].pid /\ jobs[i].pid # NoPid => i = k

FrameInv == StackBlocked /\ ReaperOnStack /\ ReaperHeldBack
ListInv == NoGhostJob /\ OneSlotPerPid /\ NewcomerUnlisted

(* What pushing and popping do to the stack of handlers. *)
LEMMA Push ==
  ASSUME NEW s \in Seq(Signals), NEW x \in Signals
  PROVE  /\ DOMAIN (<<x>> \o s) = 1..(Len(s) + 1)
         /\ (<<x>> \o s)[1] = x
         /\ \A k \in 2..(Len(s) + 1) : (<<x>> \o s)[k] = s[k - 1]
  OBVIOUS

LEMMA Pop ==
  ASSUME NEW s \in Seq(Signals), s # <<>>
  PROVE  /\ DOMAIN Tail(s) = 1..(Len(s) - 1)
         /\ \A k \in 1..(Len(s) - 1) : Tail(s)[k] = s[k + 1]
         /\ Head(s) = s[1] /\ 1 \in DOMAIN s /\ DOMAIN s = 1..Len(s) /\ Len(s) \in Nat \ {0}
  OBVIOUS

LEMMA FrameDeliver ==
  ASSUME TypeOK, FrameInv, NEW sig \in Signals, Deliver(sig)
  PROVE  FrameInv'
<1> DEFINE new == <<sig>> \o stack
<1>1. /\ stack \in Seq(Signals) /\ sig \in Contexts /\ sig # "main"
      /\ saved \in [Contexts -> SUBSET Signals]
      /\ pc \in [Contexts -> MainLabels \cup HandlerLabels]
      /\ "CHLD" \in Contexts /\ "main" \in Contexts /\ Signals \subseteq Contexts
  BY DEF TypeOK, Contexts, Signals, Keyboard
<1>2. /\ stack' = new /\ blocked' = blocked \cup {sig}
      /\ saved' = [saved EXCEPT ![sig] = blocked] /\ sig \notin blocked
      /\ pc' = [pc EXCEPT ![sig] = Entry[sig]]
  BY DEF Deliver, GoTo
<1>3. /\ DOMAIN new = 1..(Len(stack) + 1) /\ new[1] = sig
      /\ \A k \in 2..(Len(stack) + 1) : new[k] = stack[k - 1]
      /\ DOMAIN stack = 1..Len(stack) /\ Len(stack) \in Nat
  BY <1>1, Push
<1>4. \A k \in DOMAIN stack : stack[k] \in Signals /\ stack[k] # sig
  BY <1>1, <1>2 DEF FrameInv, StackBlocked
<1>5. \A k \in DOMAIN new : k = 1 \/ (k - 1 \in DOMAIN stack /\ new[k] = stack[k - 1])
  BY <1>3
<1>6. \A k \in DOMAIN stack : saved'[stack[k]] = saved[stack[k]]
  BY <1>1, <1>2, <1>4
<1>7. saved'[sig] = blocked
  BY <1>1, <1>2
<1>8. StackBlocked'
  <2>1. ASSUME NEW k \in DOMAIN new PROVE new[k] \in blocked'
    BY <1>2, <1>3, <1>5 DEF FrameInv, StackBlocked
  <2>2. ASSUME NEW j \in DOMAIN new, NEW k \in DOMAIN new, j < k
        PROVE  new[k] # new[j] /\ new[k] \in saved'[new[j]]
    <3>1. k - 1 \in DOMAIN stack /\ new[k] = stack[k - 1]
      BY <1>3, <1>5, <2>2
    <3>2. CASE j = 1
      BY <1>3, <1>4, <1>7, <3>1, <3>2 DEF FrameInv, StackBlocked
    <3>3. CASE j # 1
      <4>1. j - 1 \in DOMAIN stack /\ new[j] = stack[j - 1] /\ j - 1 < k - 1
        BY <1>3, <1>5, <2>2, <3>3
      <4>2. stack[k - 1] # stack[j - 1] /\ stack[k - 1] \in saved[stack[j - 1]]
        BY <3>1, <4>1 DEF FrameInv, StackBlocked
      <4>3. QED
        BY <1>6, <3>1, <4>1, <4>2
    <3>4. QED
      BY <3>2, <3>3
  <2>3. QED
    BY <1>2, <2>1, <2>2 DEF StackBlocked
<1>9. ReaperOnStack'
  <2>1. SUFFICES ASSUME pc'["CHLD"] # "idle" PROVE \E k \in DOMAIN new : new[k] = "CHLD"
    BY <1>2 DEF ReaperOnStack
  <2>2. CASE sig = "CHLD"
    BY <1>3, <2>2
  <2>3. CASE sig # "CHLD"
    <3>1. PICK k \in DOMAIN stack : stack[k] = "CHLD"
      BY <1>1, <1>2, <2>1, <2>3 DEF FrameInv, ReaperOnStack
    <3>2. k + 1 \in DOMAIN new /\ new[k + 1] = "CHLD"
      BY <1>3, <3>1
    <3>3. QED
      BY <3>2
  <2>4. QED
    BY <2>2, <2>3
<1>10. ReaperHeldBack'
  <2>1. SUFFICES ASSUME Adding'
                 PROVE  /\ "CHLD" \in blocked'
                        /\ \A k \in DOMAIN new : new[k] # "CHLD" /\ "CHLD" \in saved'[new[k]]
    BY <1>2 DEF ReaperHeldBack
  <2>2. Adding
    BY <1>1, <1>2, <2>1 DEF Adding
  <2>3. "CHLD" \in blocked /\ sig # "CHLD"
    BY <1>2, <2>2 DEF FrameInv, ReaperHeldBack
  <2>4. ASSUME NEW k \in DOMAIN new PROVE new[k] # "CHLD" /\ "CHLD" \in saved'[new[k]]
    BY <1>3, <1>5, <1>6, <1>7, <2>2, <2>3 DEF FrameInv, ReaperHeldBack
  <2>5. QED
    BY <1>2, <2>3, <2>4
<1>11. QED
  BY <1>8, <1>9, <1>10 DEF FrameInv

LEMMA FrameReturn ==
  ASSUME TypeOK, FrameInv, NEW sig \in Signals, Top = sig, Return(sig)
  PROVE  FrameInv'
<1> DEFINE rest == Tail(stack)
<1>1. /\ stack \in Seq(Signals) /\ sig \in Contexts /\ sig # "main"
      /\ saved \in [Contexts -> SUBSET Signals]
      /\ pc \in [Contexts -> MainLabels \cup HandlerLabels]
      /\ "CHLD" \in Contexts /\ "main" \in Contexts /\ Signals \subseteq Contexts
  BY DEF TypeOK, Contexts, Signals, Keyboard
<1>2. stack # <<>> /\ Head(stack) = sig
  BY <1>1 DEF Top
<1>3. /\ stack' = rest /\ blocked' = saved[sig] /\ saved' = [saved EXCEPT ![sig] = {}]
      /\ pc' = [pc EXCEPT ![sig] = "idle"]
  BY DEF Return, GoTo
<1>4. /\ DOMAIN rest = 1..(Len(stack) - 1) /\ stack[1] = sig /\ 1 \in DOMAIN stack
      /\ \A k \in 1..(Len(stack) - 1) : rest[k] = stack[k + 1]
      /\ DOMAIN stack = 1..Len(stack) /\ Len(stack) \in Nat \ {0}
  BY <1>1, <1>2, Pop
<1>5. \A k \in DOMAIN rest : /\ k + 1 \in DOMAIN stack /\ rest[k] = stack[k + 1] /\ 1 < k + 1
                             /\ rest[k] \in Signals
  BY <1>1, <1>4
<1>6. \A k \in DOMAIN rest : rest[k] # sig /\ rest[k] \in saved[sig]
  BY <1>4, <1>5 DEF FrameInv, StackBlocked
<1>7. \A k \in DOMAIN rest : saved'[rest[k]] = saved[rest[k]]
  BY <1>1, <1>3, <1>5, <1>6
<1>8. StackBlocked'
  <2>1. ASSUME NEW j \in DOMAIN rest, NEW k \in DOMAIN rest, j < k
        PROVE  rest[k] # rest[j] /\ rest[k] \in saved'[rest[j]]
    <3>1. j + 1 < k + 1
      BY <1>4, <2>1
    <3>2. stack[k + 1] # stack[j + 1] /\ stack[k + 1] \in saved[stack[j + 1]]
      BY <1>5, <3>1 DEF FrameInv, StackBlocked
    <3>3. QED
      BY <1>5, <1>7, <3>2
  <2>2. QED
    BY <1>3, <1>6, <2>1 DEF StackBlocked
<1>9. ReaperOnStack'
  <2>1. SUFFICES ASSUME pc'["CHLD"] # "idle" PROVE \E k \in DOMAIN rest : rest[k] = "CHLD"
    BY <1>3 DEF ReaperOnStack
  <2>2. sig # "CHLD" /\ pc["CHLD"] # "idle"
    BY <1>1, <1>3, <2>1
  <2>3. PICK k \in DOMAIN stack : stack[k] = "CHLD"
    BY <2>2 DEF FrameInv, ReaperOnStack
  <2>4. k - 1 \in DOMAIN rest /\ rest[k - 1] = "CHLD"
    BY <1>4, <2>2, <2>3
  <2>5. QED
    BY <2>4
<1>10. ReaperHeldBack'
  <2>1. SUFFICES ASSUME Adding
                 PROVE  /\ "CHLD" \in blocked'
                        /\ \A k \in DOMAIN rest : rest[k] # "CHLD" /\ "CHLD" \in saved'[rest[k]]
    BY <1>1, <1>3 DEF ReaperHeldBack, Adding
  <2>2. "CHLD" \in saved[sig]
    BY <1>4, <2>1 DEF FrameInv, ReaperHeldBack
  <2>3. QED
    BY <1>3, <1>5, <1>7, <2>1, <2>2 DEF FrameInv, ReaperHeldBack
<1>11. QED
  BY <1>8, <1>9, <1>10 DEF FrameInv

(* A step that leaves the stack and the masks alone. *)
LEMMA FrameStays ==
  ASSUME FrameInv, UNCHANGED <<stack, blocked, saved>>,
         pc'["CHLD"] # "idle" => pc["CHLD"] # "idle", Adding' => Adding
  PROVE  FrameInv'
  BY DEF FrameInv, StackBlocked, ReaperOnStack, ReaperHeldBack

(* The main flow runs only when no handler does. *)
LEMMA MainAlone ==
  ASSUME TypeOK, FrameInv, NEW l, At("main", l)
  PROVE  stack = <<>> /\ pc["CHLD"] = "idle"
<1>1. stack = <<>>
  BY DEF At, Top, TypeOK, Signals, Keyboard
<1>2. QED
  BY <1>1 DEF FrameInv, ReaperOnStack

LEMMA FrameMain ==
  ASSUME stack' = <<>>, pc'["CHLD"] = "idle", Adding' => "CHLD" \in blocked'
  PROVE  FrameInv'
  BY DEF FrameInv, StackBlocked, ReaperOnStack, ReaperHeldBack

(* A step that changes no slot's pid, ends no process and neither starts nor
   takes back the deletion of a job. *)
LEMMA ListStays ==
  ASSUME ListInv, \A i \in Slots : jobs'[i].pid = jobs[i].pid,
         \A p \in Pids : proc[p] # "none" => proc'[p] # "none",
         pc["CHLD"] = "delete" => pc'["CHLD"] = "delete" /\ pid'["CHLD"] = pid["CHLD"],
         Adding' => Adding /\ pid'["main"] = pid["main"],
         \A i \in Slots : jobs[i].pid \in Pids \cup {NoPid}
  PROVE  ListInv'
<1>1. \A p : SlotsOf(p)' = SlotsOf(p)
  BY DEF SlotsOf
<1>2. NoGhostJob'
  BY DEF ListInv, NoGhostJob
<1>3. OneSlotPerPid'
  BY DEF ListInv, OneSlotPerPid
<1>4. NewcomerUnlisted'
  BY <1>1 DEF ListInv, NewcomerUnlisted
<1>5. QED
  BY <1>2, <1>3, <1>4 DEF ListInv

(* No process vanishes by moving to one of its next states. *)
LEMMA MoveKeeps ==
  ASSUME TypeOK, NEW p \in Pids, NEW s \in ProcStates \ {"none"}, Move(p, s), NEW q \in Pids,
         proc[q] # "none"
  PROVE  proc'[q] # "none"
  BY DEF Move, TypeOK

LEMMA EffectKeeps ==
  ASSUME TypeOK, NEW p, NEW sig, GroupExists(p)
  PROVE  p \in Pids /\ Effect(p, sig) \subseteq ProcStates \ {"none"}
  BY DEF Effect, GroupExists, TypeOK, ProcStates

(* The frames and the list keep step, when SIGCHLD is in the mask. *)
LEMMA ListInductive == ASSUME SigchldMasked PROVE Spec => [](FrameInv /\ ListInv)
<1> DEFINE Inv == FrameInv /\ ListInv
<1>1. Init => Inv
  BY DEF Init, FrameInv, StackBlocked, ReaperOnStack, ReaperHeldBack, Adding, ListInv,
       NoGhostJob, OneSlotPerPid, NewcomerUnlisted, Cleared, Contexts, Signals, Keyboard
<1>2. TypeOK /\ Inv /\ [Next]_vars => Inv'
  <2> SUFFICES ASSUME TypeOK, FrameInv, ListInv, [Next]_vars PROVE FrameInv' /\ ListInv'
    OBVIOUS
  <2> /\ "main" \in Contexts /\ "CHLD" \in Contexts /\ "CHLD" \in Signals
      /\ "main" \notin Signals /\ \A sig \in Signals : sig \in Contexts
    BY DEF Contexts, Signals, Keyboard
  <2> /\ pc \in [Contexts -> MainLabels \cup HandlerLabels]
      /\ pid \in [Contexts -> PidValues]
      /\ jobs \in [Slots -> Job]
      /\ proc \in [Pids -> ProcStates]
      /\ \A i \in Slots : jobs[i].pid \in Pids \cup {NoPid}
    BY DEF TypeOK, Job
  <2>1. ASSUME NEW bg \in BOOLEAN, Eval(bg) PROVE FrameInv' /\ ListInv'
    <3>1. stack = <<>> /\ pc["CHLD"] = "idle"
      BY <2>1, MainAlone DEF Eval
    <3>2. pc' = [pc EXCEPT !["main"] = IF bg THEN "addbg" ELSE "addfg"] /\ jobs' = jobs
      BY <2>1 DEF Eval, GoTo, jobVars
    <3>3. "CHLD" \in blocked'
      BY <2>1 DEF Eval, SigchldMasked
    <3>4. FrameInv'
      BY <2>1, <3>1, <3>2, <3>3, FrameMain DEF Eval
    <3>5. PICK p \in Pids \cup {ErrPid} :
            /\ p \in Pids => proc[p] = "none"
            /\ proc' = IF p \in Pids THEN [proc EXCEPT ![p] = "forked"] ELSE proc
            /\ pid' = [pid EXCEPT !["main"] = p]
      BY <2>1 DEF Eval
    <3>6. NoGhostJob'
      BY <3>1, <3>2, <3>5 DEF ListInv, NoGhostJob
    <3>7. OneSlotPerPid'
      BY <3>2 DEF ListInv, OneSlotPerPid
    <3>8. p \in Pids => SlotsOf(p) = {}
      BY <3>1, <3>5 DEF ListInv, NoGhostJob, SlotsOf
    <3>9. NewcomerUnlisted'
      BY <3>2, <3>5, <3>8 DEF NewcomerUnlisted, SlotsOf
    <3>10. QED
      BY <3>4, <3>6, <3>7, <3>9 DEF ListInv
  <2>2. ASSUME NEW bg \in BOOLEAN, EvalAddjob(bg) PROVE FrameInv' /\ ListInv'
    <3> DEFINE p == pid["main"]
    <3>1. stack = <<>> /\ pc["CHLD"] = "idle"
      BY <2>2, MainAlone DEF EvalAddjob
    <3>2. Adding /\ ~Adding' /\ pc'["CHLD"] = "idle" /\ UNCHANGED <<proc, stack, pid>>
      BY <2>2, <3>1 DEF EvalAddjob, At, Adding, GoTo
    <3>3. FrameInv'
      BY <3>1, <3>2, FrameMain
    <3>4. CASE p \in Pids /\ SlotsOf(NoPid) # {}
      <4>1. PICK i \in Slots : First(i, SlotsOf(NoPid)) /\
              jobs' = [jobs EXCEPT ![i] =
                        [pid |-> p, jid |-> nextjid, state |-> IF bg THEN "BG" ELSE "FG"]]
        BY <2>2, <3>4 DEF EvalAddjob, addjob
      <4>2. jobs'[i].pid = p /\ \A k \in Slots \ {i} : jobs'[k] = jobs[k]
        BY <4>1
      <4>3. proc[p] # "none" /\ \A k \in Slots : jobs[k].pid # p
        BY <3>2, <3>4 DEF ListInv, NewcomerUnlisted, SlotsOf
      <4>4. NoGhostJob'
        BY <3>1, <3>2, <4>2, <4>3 DEF ListInv, NoGhostJob
      <4>5. OneSlotPerPid'
        BY <4>2, <4>3 DEF ListInv, OneSlotPerPid
      <4>6. NewcomerUnlisted'
        BY <3>2 DEF NewcomerUnlisted
      <4>7. QED
        BY <3>3, <4>4, <4>5, <4>6 DEF ListInv
    <3>5. CASE ~(p \in Pids /\ SlotsOf(NoPid) # {})
      <4>1. jobs' = jobs
        BY <2>2, <3>5 DEF EvalAddjob, addjob, jobVars
      <4>2. ListInv'
        BY <3>1, <3>2, <4>1, ListStays
      <4>3. QED
        BY <3>3, <4>2
    <3>6. QED
      BY <3>4, <3>5
  <2>3. CASE Announce \/ WaitfgReturn
    <3>1. stack = <<>> /\ pc["CHLD"] = "idle" /\ ~Adding
      BY <2>3, MainAlone DEF Announce, WaitfgReturn, At, Adding
    <3>2. /\ pc'["CHLD"] = "idle" /\ ~Adding' /\ UNCHANGED <<jobs, proc, stack>>
      BY <2>3, <3>1 DEF Announce, WaitfgReturn, GoTo, Adding, jobVars
    <3>3. FrameInv'
      BY <3>1, <3>2, FrameMain
    <3>4. ListInv'
      BY <3>1, <3>2, ListStays
    <3>5. QED
      BY <3>3, <3>4
  <2>4. ASSUME NEW fg \in BOOLEAN, DoBgfg(fg) PROVE FrameInv' /\ ListInv'
    <3>1. stack = <<>> /\ pc["CHLD"] = "idle" /\ ~Adding
      BY <2>4, MainAlone DEF DoBgfg, At, Adding
    <3>2. PICK i \in Slots :
            IF GroupExists(jobs[i].pid)
            THEN /\ \E s \in Effect(jobs[i].pid, "CONT") : Move(jobs[i].pid, s)
                 /\ jobs' = [jobs EXCEPT ![i].state = IF fg THEN "FG" ELSE "BG"]
                 /\ GoTo("main", IF fg THEN "refetch" ELSE "announce")
            ELSE UNCHANGED <<jobs, proc, pc>>
      BY <2>4 DEF DoBgfg
    <3>3. pc'["CHLD"] = "idle" /\ ~Adding' /\ stack' = <<>>
      BY <2>4, <3>1, <3>2 DEF GoTo, Adding, DoBgfg
    <3>4. FrameInv'
      BY <3>3, FrameMain
    <3>5. \A q \in Pids : proc[q] # "none" => proc'[q] # "none"
      <4>1. CASE GroupExists(jobs[i].pid)
        BY <3>2, <4>1, EffectKeeps, MoveKeeps
      <4>2. CASE ~GroupExists(jobs[i].pid)
        BY <3>2, <4>2
      <4>3. QED
        BY <4>1, <4>2
    <3>6. \A k \in Slots : jobs'[k].pid = jobs[k].pid
      BY <3>2 DEF Job
    <3>7. ListInv'
      BY <3>1, <3>3, <3>5, <3>6, ListStays
    <3>8. QED
      BY <3>4, <3>7
  <2>5. CASE DoFgRefetch
    <3>1. stack = <<>> /\ pc["CHLD"] = "idle" /\ ~Adding
      BY <2>5, MainAlone DEF DoFgRefetch, At, Adding
    <3>2. /\ pc'["CHLD"] = "idle" /\ ~Adding' /\ UNCHANGED <<jobs, proc, stack>>
      BY <2>5, <3>1 DEF DoFgRefetch, GoTo, Adding, jobVars
    <3>3. FrameInv'
      BY <3>1, <3>2, FrameMain
    <3>4. ListInv'
      BY <3>1, <3>2, ListStays
    <3>5. QED
      BY <3>3, <3>4
  <2>6. CASE Quit \/ SigquitExit
    <3>1. UNCHANGED <<jobs, proc, stack, blocked, saved, pc, pid>>
      BY <2>6 DEF Quit, SigquitExit, jobVars, frameVars
    <3>2. QED
      BY <3>1, FrameStays, ListStays DEF Adding
  <2>7. ASSUME NEW sig \in Keyboard, Send(sig) PROVE FrameInv' /\ ListInv'
    <3>1. UNCHANGED <<jobs, proc, stack, blocked, saved, pc, pid>>
      BY <2>7 DEF Send, jobVars, frameVars
    <3>2. QED
      BY <3>1, FrameStays, ListStays DEF Adding
  <2>8. ASSUME NEW sig \in Signals, Deliver(sig) PROVE FrameInv' /\ ListInv'
    <3>1. FrameInv'
      BY <2>8, FrameDeliver
    <3>2. /\ UNCHANGED <<jobs, proc, pid>> /\ pc' = [pc EXCEPT ![sig] = Entry[sig]]
          /\ sig \notin blocked
      BY <2>8 DEF Deliver, GoTo, jobVars
    <3>3. pc["CHLD"] = "delete" => sig # "CHLD"
      BY <3>2 DEF FrameInv, StackBlocked, ReaperOnStack
    <3>4. ListInv'
      BY <3>2, <3>3, ListStays DEF Adding
    <3>5. QED
      BY <3>1, <3>4
  <2>9. CASE SigchldWaitpid
    <3>1. pc["CHLD"] = "waitpid" /\ UNCHANGED <<jobs, stack, blocked, saved>>
      BY <2>9 DEF SigchldWaitpid, At, jobVars
    <3>2. PICK p \in Pids :
            /\ proc' = [proc EXCEPT ![p] = IF proc[p] = "stopped" THEN "halted" ELSE "none"]
            /\ pid' = [pid EXCEPT !["CHLD"] = p]
            /\ pc' = [pc EXCEPT !["CHLD"] = IF proc[p] = "stopped" THEN "stop" ELSE "delete"]
      BY <2>9 DEF SigchldWaitpid, GoTo
    <3>3. ~Adding
      <4>1. stack \in Seq(Signals) /\ stack # <<>> /\ Head(stack) = "CHLD"
        BY <2>9 DEF SigchldWaitpid, At, Top, TypeOK
      <4>2. 1 \in DOMAIN stack /\ stack[1] = "CHLD"
        BY <4>1, Pop
      <4>3. QED
        BY <4>2 DEF FrameInv, ReaperHeldBack
    <3>4. ~Adding'
      BY <3>2, <3>3 DEF Adding
    <3>5. FrameInv'
      BY <3>1, <3>2, <3>4, FrameStays
    <3>6. NoGhostJob'
      BY <3>1, <3>2 DEF ListInv, NoGhostJob
    <3>7. OneSlotPerPid' /\ NewcomerUnlisted'
      BY <3>1, <3>4 DEF ListInv, OneSlotPerPid, NewcomerUnlisted
    <3>8. QED
      BY <3>5, <3>6, <3>7 DEF ListInv
  <2>10. CASE SigchldReturn
    <3>1. FrameInv'
      BY <2>10, FrameReturn DEF SigchldReturn, At
    <3>2. /\ UNCHANGED <<jobs, proc>> /\ pc["CHLD"] = "waitpid"
          /\ pc' = [pc EXCEPT !["CHLD"] = "idle"] /\ pid' = [pid EXCEPT !["CHLD"] = NoPid]
      BY <2>10 DEF SigchldReturn, Return, GoTo, At, jobVars
    <3>3. ListInv'
      BY <3>2, ListStays DEF Adding
    <3>4. QED
      BY <3>1, <3>3
  <2>11. CASE SigchldDelete
    <3> DEFINE p == pid["CHLD"]
    <3>1. /\ pc["CHLD"] = "delete" /\ pc' = [pc EXCEPT !["CHLD"] = "waitpid"]
          /\ pid' = [pid EXCEPT !["CHLD"] = NoPid] /\ UNCHANGED <<proc, stack, blocked, saved>>
      BY <2>11 DEF SigchldDelete, At, GoTo
    <3>2. FrameInv'
      BY <3>1, FrameStays DEF Adding
    <3>3. CASE p \in Pids /\ SlotsOf(p) # {}
      <4>1. PICK i \in Slots : First(i, SlotsOf(p)) /\ jobs' = [jobs EXCEPT ![i] = Cleared]
        BY <2>11, <3>3 DEF SigchldDelete, deletejob
      <4>2. jobs[i].pid = p /\ jobs'[i].pid = NoPid /\ \A k \in Slots \ {i} : jobs'[k] = jobs[k]
        BY <4>1 DEF First, SlotsOf, Cleared
      <4>3. \A k \in Slots \ {i} : jobs[k].pid # p
        BY <3>3, <4>2 DEF ListInv, OneSlotPerPid
      <4>4. NoGhostJob'
        BY <3>1, <4>2, <4>3 DEF ListInv, NoGhostJob
      <4>5. OneSlotPerPid'
        BY <4>2 DEF ListInv, OneSlotPerPid
      <4>6. \A q \in Pids : SlotsOf(q) = {} => SlotsOf(q)' = {}
        BY <4>2 DEF SlotsOf
      <4>7. NewcomerUnlisted'
        BY <3>1, <4>6 DEF ListInv, NewcomerUnlisted, Adding
      <4>8. QED
        BY <3>2, <4>4, <4>5, <4>7 DEF ListInv
    <3>4. CASE ~(p \in Pids /\ SlotsOf(p) # {})
      <4>1. jobs' = jobs
        BY <2>11, <3>4 DEF SigchldDelete, deletejob, jobVars
      <4>2. \A i \in Slots : jobs[i].pid # NoPid => jobs[i].pid # p
        BY <3>4 DEF SlotsOf
      <4>3. NoGhostJob'
        BY <3>1, <4>1, <4>2 DEF ListInv, NoGhostJob
      <4>4. OneSlotPerPid' /\ NewcomerUnlisted'
        BY <3>1, <4>1 DEF ListInv, OneSlotPerPid, NewcomerUnlisted, Adding, SlotsOf
      <4>5. QED
        BY <3>2, <4>3, <4>4 DEF ListInv
    <3>5. QED
      BY <3>3, <3>4
  <2>12. CASE SigchldStop
    <3>1. pc["CHLD"] = "stop" /\ UNCHANGED <<proc, stack, blocked, saved>>
      BY <2>12 DEF SigchldStop, At
    <3>2. /\ pc'["main"] = pc["main"] /\ pid'["main"] = pid["main"]
          /\ \A i \in Slots : jobs'[i].pid = jobs[i].pid
      <4>1. CASE SlotsOf(pid["CHLD"]) = {}
        BY <2>12, <4>1 DEF SigchldStop
      <4>2. CASE SlotsOf(pid["CHLD"]) # {}
        BY <2>12, <4>2 DEF SigchldStop, GoTo, Job
      <4>3. QED
        BY <4>1, <4>2
    <3>3. FrameInv' /\ ListInv'
      BY <3>1, <3>2, FrameStays, ListStays DEF Adding
    <3>4. QED
      BY <3>3
  <2>13. ASSUME NEW sig \in {"INT", "TSTP"}, ForwardFgpid(sig) PROVE FrameInv' /\ ListInv'
    <3>1. sig \in Signals /\ sig # "CHLD" /\ sig # "main" /\ Top = sig /\ pc[sig] # "idle"
      BY <2>13 DEF ForwardFgpid, At, Signals, Keyboard
    <3>2. UNCHANGED <<jobs, proc>>
      BY <2>13 DEF ForwardFgpid, jobVars
    <3>3. CASE fgpid(NoPid)
      <4>1. Return(sig)
        BY <2>13, <3>3 DEF ForwardFgpid
      <4>2. FrameInv'
        BY <3>1, <4>1, FrameReturn
      <4>3. ListInv'
        BY <3>1, <3>2, <4>1, ListStays DEF Return, GoTo, Adding
      <4>4. QED
        BY <4>2, <4>3
    <3>4. CASE ~fgpid(NoPid)
      <4>1. /\ pc' = [pc EXCEPT ![sig] = "kill"] /\ UNCHANGED <<stack, blocked, saved>>
            /\ \E q \in Pids : pid' = [pid EXCEPT ![sig] = q]
        BY <2>13, <3>4 DEF ForwardFgpid, GoTo
      <4>2. /\ pc'["CHLD"] = pc["CHLD"] /\ pid'["CHLD"] = pid["CHLD"]
            /\ pc'["main"] = pc["main"] /\ pid'["main"] = pid["main"]
        BY <3>1, <4>1
      <4>3. QED
        BY <3>2, <4>1, <4>2, FrameStays, ListStays DEF Adding
    <3>5. QED
      BY <3>3, <3>4
  <2>14. ASSUME NEW sig \in {"INT", "TSTP"}, ForwardKill(sig) PROVE FrameInv' /\ ListInv'
    <3>1. sig \in Signals /\ sig # "CHLD" /\ sig # "main" /\ Top = sig
      BY <2>14 DEF ForwardKill, At, Signals, Keyboard
    <3>2. jobs' = jobs
      BY <2>14 DEF ForwardKill, jobVars
    <3>3. CASE GroupExists(pid[sig])
      <4>1. Return(sig) /\ \E s \in Effect(pid[sig], sig) : Move(pid[sig], s)
        BY <2>14, <3>3 DEF ForwardKill
      <4>2. \A q \in Pids : proc[q] # "none" => proc'[q] # "none"
        BY <3>3, <4>1, EffectKeeps, MoveKeeps
      <4>3. FrameInv'
        BY <3>1, <4>1, FrameReturn
      <4>4. ListInv'
        BY <3>1, <3>2, <4>1, <4>2, ListStays DEF Return, GoTo, Adding
      <4>5. QED
        BY <4>3, <4>4
    <3>4. CASE ~GroupExists(pid[sig])
      <4>1. UNCHANGED <<proc, stack, pc, pid, saved, blocked>>
        BY <2>14, <3>4 DEF ForwardKill
      <4>2. QED
        BY <3>2, <4>1, FrameStays, ListStays DEF Adding
    <3>5. QED
      BY <3>3, <3>4
  <2>15. ASSUME NEW p \in Pids, Child(p) PROVE FrameInv' /\ ListInv'
    <3>1. UNCHANGED <<jobs, stack, blocked, saved, pc, pid>>
      BY <2>15 DEF Child, jobVars, frameVars
    <3>2. \A q \in Pids : proc[q] # "none" => proc'[q] # "none"
      <4>1. CASE Setpgid(p) \/ Exec(p)
        BY <4>1 DEF Setpgid, Exec
      <4>2. CASE Stop(p) \/ Die(p)
        BY <4>2, MoveKeeps DEF Stop, Die, ProcStates
      <4>3. QED
        BY <2>15, <4>1, <4>2 DEF Child
    <3>3. QED
      BY <3>1, <3>2, FrameStays, ListStays DEF Adding
  <2>16. CASE UNCHANGED vars
    BY <2>16, FrameStays, ListStays DEF vars, Adding
  <2>17. CASE Next
    BY <2>1, <2>2, <2>3, <2>4, <2>5, <2>6, <2>7, <2>8, <2>9, <2>10, <2>11, <2>12, <2>13,
       <2>14, <2>15, <2>16, <2>17
       DEF Next, User, MainStep, WaitfgSpin, HandlerStep, Ended
  <2>18. QED
    BY <2>16, <2>17
<1>3. QED
  BY <1>1, <1>2, TypeCorrect, PTL DEF Spec

(* NoGhostJob, for every number of slots and processes. *)
THEOREM NoGhosts == ASSUME SigchldMasked PROVE Spec => []NoGhostJob
  BY ListInductive, PTL DEF ListInv

-----------------------------------------------------------------------------
(* Which steps touch the job list, and what they do to it.                    *)

LEMMA JobsTouched ==
  ASSUME [Next]_vars
  PROVE  \/ UNCHANGED jobs
         \/ \E bg \in BOOLEAN : EvalAddjob(bg)
         \/ \E fg \in BOOLEAN : DoBgfg(fg)
         \/ SigchldDelete
         \/ SigchldStop
  BY DEF Next, User, MainStep, WaitfgSpin, HandlerStep, Ended, vars, jobVars, Eval, Quit, Send,
     Announce, DoFgRefetch, WaitfgReturn, Deliver, SigchldWaitpid, SigchldReturn, ForwardFgpid,
     ForwardKill, SigquitExit, Child

AddedAt(i, st) ==
  /\ jobs[i].pid = NoPid /\ pid["main"] \in Pids
  /\ jobs' = [jobs EXCEPT ![i] = [pid |-> pid["main"], jid |-> nextjid, state |-> st]]

LEMMA AddjobAdds ==
  ASSUME NEW bg \in BOOLEAN, EvalAddjob(bg)
  PROVE  \/ UNCHANGED jobs /\ ~(pid["main"] \in Pids /\ SlotsOf(NoPid) # {})
         \/ \E i \in Slots : AddedAt(i, IF bg THEN "BG" ELSE "FG")
  BY DEF EvalAddjob, addjob, AddedAt, First, SlotsOf, jobVars

ClearedAt(i) ==
  /\ pid["CHLD"] \in Pids /\ jobs[i].pid = pid["CHLD"]
  /\ jobs' = [jobs EXCEPT ![i] = Cleared]

LEMMA DeletejobClears ==
  ASSUME SigchldDelete
  PROVE  \/ UNCHANGED jobs /\ ~(pid["CHLD"] \in Pids /\ SlotsOf(pid["CHLD"]) # {})
         \/ \E i \in Slots : ClearedAt(i)
  BY DEF SigchldDelete, deletejob, ClearedAt, First, SlotsOf, jobVars

StateAt(i, st) == jobs' = [jobs EXCEPT ![i] = [jobs[i] EXCEPT !.state = st]]

LEMMA StopMarks ==
  ASSUME TypeOK, SigchldStop
  PROVE  \/ UNCHANGED jobs /\ shell' = "crashed" /\ SlotsOf(pid["CHLD"]) = {}
            /\ UNCHANGED <<pid, pc>>
         \/ /\ shell' = shell /\ pc' = [pc EXCEPT !["CHLD"] = "waitpid"]
            /\ pid' = [pid EXCEPT !["CHLD"] = NoPid]
            /\ \E i \in Slots : jobs[i].pid = pid["CHLD"] /\ StateAt(i, "ST")
  BY DEF SigchldStop, StateAt, First, SlotsOf, GoTo

LEMMA BgfgMarks ==
  ASSUME TypeOK, NEW fg \in BOOLEAN, DoBgfg(fg)
  PROVE  \/ UNCHANGED <<jobs, proc, pending, pc>> /\ shell' = "failed"
         \/ \E i \in Slots :
              /\ GroupExists(jobs[i].pid) /\ shell' = shell
              /\ \E s \in Effect(jobs[i].pid, "CONT") : Move(jobs[i].pid, s)
              /\ StateAt(i, IF fg THEN "FG" ELSE "BG")
              /\ pc' = [pc EXCEPT !["main"] = IF fg THEN "refetch" ELSE "announce"]
  BY DEF DoBgfg, StateAt, GoTo

-----------------------------------------------------------------------------
(* A free slot is cleared, so a job enters the list from UNDEF only; and       *)
(* sigchld_handler acts on a real child.                                       *)

FreeIsCleared == \A i \in Slots : jobs[i].pid = NoPid => jobs[i].state = "UNDEF"

ReaperKnows == pc["CHLD"] \in {"delete", "stop"} => pid["CHLD"] \in Pids

SlotInv == FreeIsCleared /\ ReaperKnows

(* What a step does to the frame of sigchld_handler. *)
LEMMA ReaperStep ==
  ASSUME TypeOK, [Next]_vars
  PROVE  \/ pc'["CHLD"] = pc["CHLD"] /\ pid'["CHLD"] = pid["CHLD"]
         \/ pc'["CHLD"] \in {"waitpid", "idle"}
         \/ SigchldWaitpid
<1> /\ pc \in [Contexts -> MainLabels \cup HandlerLabels] /\ pid \in [Contexts -> PidValues]
    /\ "CHLD" \in Contexts /\ "main" \in Contexts /\ "INT" \in Contexts /\ "TSTP" \in Contexts
    /\ \A sig \in Signals : sig \in Contexts
  BY DEF TypeOK, Contexts, Signals, Keyboard
<1>1. ASSUME NEW sig \in {"INT", "TSTP"}, ForwardFgpid(sig) \/ ForwardKill(sig)
      PROVE  pc'["CHLD"] = pc["CHLD"] /\ pid'["CHLD"] = pid["CHLD"]
  BY <1>1 DEF ForwardFgpid, ForwardKill, Return, GoTo
<1>2. ASSUME NEW sig \in Signals, Deliver(sig)
      PROVE  \/ pc'["CHLD"] = pc["CHLD"] /\ pid'["CHLD"] = pid["CHLD"]
             \/ pc'["CHLD"] = "waitpid"
  BY <1>2 DEF Deliver, GoTo, Entry
<1>3. CASE SigchldReturn \/ SigchldDelete \/ SigchldStop
  BY <1>3 DEF SigchldReturn, SigchldDelete, SigchldStop, Return, GoTo
<1>4. CASE MainStep \/ User
  BY <1>4 DEF MainStep, User, Eval, DoBgfg, Quit, Send, EvalAddjob, Announce, DoFgRefetch,
      WaitfgReturn, GoTo, frameVars
<1>5. ASSUME NEW p \in Pids, Child(p)
      PROVE  pc'["CHLD"] = pc["CHLD"] /\ pid'["CHLD"] = pid["CHLD"]
  BY <1>5 DEF Child, frameVars
<1>6. CASE SigquitExit \/ UNCHANGED vars
  BY <1>6 DEF SigquitExit, vars, frameVars
<1>7. QED
  BY <1>1, <1>2, <1>3, <1>4, <1>5, <1>6 DEF Next, HandlerStep, WaitfgSpin, Ended

LEMMA SlotInvariant == Spec => []SlotInv
<1>1. Init => SlotInv
  BY DEF Init, SlotInv, FreeIsCleared, ReaperKnows, Cleared, Contexts, Signals
<1>2. TypeOK /\ SlotInv /\ [Next]_vars => SlotInv'
  <2> SUFFICES ASSUME TypeOK, FreeIsCleared, ReaperKnows, [Next]_vars
               PROVE  FreeIsCleared' /\ ReaperKnows'
    BY DEF SlotInv
  <2> /\ jobs \in [Slots -> Job] /\ \A i \in Slots : jobs[i].pid \in Pids \cup {NoPid}
      /\ pid \in [Contexts -> PidValues] /\ "CHLD" \in Contexts
    BY DEF TypeOK, Job, Contexts, Signals
  <2>1. ASSUME UNCHANGED jobs PROVE FreeIsCleared'
    BY <2>1 DEF FreeIsCleared
  <2>2. ASSUME NEW i \in Slots, NEW st, AddedAt(i, st) PROVE FreeIsCleared'
    BY <2>2 DEF FreeIsCleared, AddedAt
  <2>3. ASSUME NEW i \in Slots, ClearedAt(i) PROVE FreeIsCleared'
    BY <2>3 DEF FreeIsCleared, ClearedAt, Cleared
  <2>4. ASSUME NEW i \in Slots, NEW st, jobs[i].pid # NoPid, StateAt(i, st) PROVE FreeIsCleared'
    BY <2>4 DEF FreeIsCleared, StateAt, Job
  <2>5. ASSUME NEW fg \in BOOLEAN, DoBgfg(fg) PROVE FreeIsCleared'
    BY <2>1, <2>4, <2>5, BgfgMarks DEF GroupExists
  <2>6. ASSUME NEW bg \in BOOLEAN, EvalAddjob(bg) PROVE FreeIsCleared'
    BY <2>1, <2>2, <2>6, AddjobAdds
  <2>7. ASSUME SigchldDelete PROVE FreeIsCleared'
    BY <2>1, <2>3, <2>7, DeletejobClears
  <2>8. ASSUME SigchldStop PROVE FreeIsCleared'
    <3>1. pid["CHLD"] # NoPid
      BY <2>8 DEF SigchldStop, At, ReaperKnows
    <3>2. QED
      BY <2>1, <2>4, <2>8, <3>1, StopMarks
  <2>9. FreeIsCleared'
    BY <2>1, <2>5, <2>6, <2>7, <2>8, JobsTouched
  <2>10. ReaperKnows'
    <3>1. CASE SigchldWaitpid
      BY <3>1 DEF SigchldWaitpid, ReaperKnows
    <3>2. QED
      BY <3>1, ReaperStep DEF ReaperKnows
  <2>11. QED
    BY <2>9, <2>10
<1>3. QED
  BY <1>1, <1>2, TypeCorrect, PTL DEF Spec

-----------------------------------------------------------------------------
(* AtMostOneForeground: whatever mask_one holds, fg and eval never leave two   *)
(* slots in state FG.                                                          *)
THEOREM OneForeground == Spec => []AtMostOneForeground
  BY ForegroundCorrect, PTL

(* What JobTransitions allows one slot to do in a step. *)
Arrow(i) ==
  jobs'[i] # jobs[i] =>
    \/ jobs[i].state = "UNDEF" \/ jobs'[i].state = "UNDEF"
    \/ /\ jobs'[i].pid = jobs[i].pid
       /\ <<jobs[i].state, jobs'[i].state>> \in
            {<<"FG", "ST">>, <<"BG", "ST">>, <<"ST", "FG">>, <<"ST", "BG">>, <<"BG", "FG">>}

(* JobTransitions: a key, a stop or a command takes a slot along one of the    *)
(* arrows and no other, and a slot changes hands through UNDEF. do_bgfg never  *)
(* meets a FG slot, because the prompt has none.                               *)
THEOREM JobsFollowTheArrows == Spec => JobTransitions
<1>1. TypeOK /\ (ForegroundIsAwaited /\ AtMostOneForeground) /\ SlotInv /\ [Next]_vars
        => [\A i \in Slots : Arrow(i)]_vars
  <2> SUFFICES ASSUME TypeOK, ForegroundIsAwaited, SlotInv, [Next]_vars, NEW i \in Slots
               PROVE  Arrow(i)
    OBVIOUS
  <2> /\ jobs \in [Slots -> Job] /\ jobs[i] \in Job
    BY DEF TypeOK
  <2>1. CASE UNCHANGED jobs
    BY <2>1 DEF Arrow
  <2>2. ASSUME NEW k \in Slots, NEW st, AddedAt(k, st) PROVE Arrow(i)
    BY <2>2 DEF Arrow, AddedAt, SlotInv, FreeIsCleared
  <2>3. ASSUME NEW k \in Slots, ClearedAt(k) PROVE Arrow(i)
    BY <2>3 DEF Arrow, ClearedAt, Cleared
  <2>4. ASSUME NEW k \in Slots, StateAt(k, "ST") PROVE Arrow(i)
    BY <2>4 DEF Arrow, StateAt, Job, JobStates
  <2>5. ASSUME NEW k \in Slots, NEW st \in {"FG", "BG"}, StateAt(k, st), jobs[k].state # "FG"
        PROVE  Arrow(i)
    BY <2>5 DEF Arrow, StateAt, Job, JobStates
  <2>6. ASSUME NEW fg \in BOOLEAN, DoBgfg(fg) PROVE Arrow(i)
    <3>1. \A k \in Slots : jobs[k].state # "FG"
      BY <2>6 DEF DoBgfg, At, ForegroundIsAwaited, ForegroundSlots
    <3>2. QED
      BY <2>1, <2>5, <2>6, <3>1, BgfgMarks
  <2>7. ASSUME NEW bg \in BOOLEAN, EvalAddjob(bg) PROVE Arrow(i)
    BY <2>1, <2>2, <2>7, AddjobAdds
  <2>8. CASE SigchldDelete
    BY <2>1, <2>3, <2>8, DeletejobClears
  <2>9. CASE SigchldStop
    BY <2>1, <2>4, <2>9, StopMarks
  <2>10. QED
    BY <2>1, <2>6, <2>7, <2>8, <2>9, JobsTouched
<1>2. QED
  BY <1>1, TypeCorrect, ForegroundCorrect, SlotInvariant, PTL DEF Spec, JobTransitions, Arrow

-----------------------------------------------------------------------------
(* BackgroundIsSpared. Between the two steps of a key handler the job it found *)
(* stays out of the background: only the main flow puts a job there, and it    *)
(* does not run while a handler is on the stack.                               *)

Forwarders == {"INT", "TSTP"}

HandlersOnStack == \A sig \in Forwarders : pc[sig] # "idle" => \E k \in DOMAIN stack : stack[k] = sig

KillsNoBackground ==
  \A sig \in Forwarders : pc[sig] = "kill" =>
    \A i \in Slots : jobs[i].state = "BG" => jobs[i].pid # pid[sig]

KeyInv == HandlersOnStack /\ KillsNoBackground

LEMMA MainRunsAlone ==
  ASSUME TypeOK, HandlersOnStack, NEW l, At("main", l), NEW sig \in Forwarders
  PROVE  pc[sig] = "idle"
<1>1. stack = <<>>
  BY DEF At, Top, TypeOK, Signals, Keyboard
<1>2. QED
  BY <1>1 DEF HandlersOnStack

(* The handlers' frames as the main flow, the children and the user leave them. *)
LEMMA KeysStay ==
  ASSUME TypeOK, KeyInv, stack' = stack,
         \A sig \in Forwarders : pc'[sig] = pc[sig] /\ pid'[sig] = pid[sig],
         \/ \A sig \in Forwarders : pc[sig] # "kill"
         \/ \A i \in Slots : jobs'[i].state = "BG" => jobs[i].state = "BG" /\ jobs'[i].pid = jobs[i].pid
  PROVE  KeyInv'
  BY DEF KeyInv, HandlersOnStack, KillsNoBackground

(* The stack keeps the handlers below the one that is pushed or popped. *)
LEMMA KeysPush ==
  ASSUME TypeOK, HandlersOnStack, NEW sig \in Signals, Deliver(sig)
  PROVE  HandlersOnStack'
<1>1. /\ stack \in Seq(Signals) /\ stack' = <<sig>> \o stack
      /\ pc' = [pc EXCEPT ![sig] = Entry[sig]] /\ sig \in Contexts
      /\ pc \in [Contexts -> MainLabels \cup HandlerLabels]
  BY DEF Deliver, GoTo, TypeOK, Contexts
<1>2. /\ DOMAIN stack' = 1..(Len(stack) + 1) /\ stack'[1] = sig
      /\ \A k \in 2..(Len(stack) + 1) : stack'[k] = stack[k - 1]
      /\ DOMAIN stack = 1..Len(stack) /\ Len(stack) \in Nat
  BY <1>1, Push
<1>3. ASSUME NEW s \in Forwarders, pc'[s] # "idle"
      PROVE  \E k \in DOMAIN stack' : stack'[k] = s
  <2>1. CASE s = sig
    BY <1>2, <2>1
  <2>2. CASE s # sig
    <3>1. PICK k \in DOMAIN stack : stack[k] = s
      BY <1>1, <1>3, <2>2 DEF HandlersOnStack
    <3>2. k + 1 \in DOMAIN stack' /\ stack'[k + 1] = s
      BY <1>2, <3>1
    <3>3. QED
      BY <3>2
  <2>3. QED
    BY <2>1, <2>2
<1>4. QED
  BY <1>3 DEF HandlersOnStack

LEMMA KeysPop ==
  ASSUME TypeOK, KeyInv, NEW sig \in Signals, Top = sig, Return(sig), jobs' = jobs
  PROVE  KeyInv'
<1>1. /\ stack \in Seq(Signals) /\ stack # <<>> /\ Head(stack) = sig /\ stack' = Tail(stack)
      /\ pc' = [pc EXCEPT ![sig] = "idle"] /\ pid' = [pid EXCEPT ![sig] = NoPid] /\ sig \in Contexts
      /\ pc \in [Contexts -> MainLabels \cup HandlerLabels] /\ pid \in [Contexts -> PidValues]
  BY DEF Return, GoTo, TypeOK, Contexts, Top, Signals, Keyboard
<1>2. /\ DOMAIN stack' = 1..(Len(stack) - 1) /\ stack[1] = sig
      /\ \A k \in 1..(Len(stack) - 1) : stack'[k] = stack[k + 1]
      /\ DOMAIN stack = 1..Len(stack) /\ Len(stack) \in Nat \ {0}
  BY <1>1, Pop
<1>3. ASSUME NEW s \in Forwarders, pc'[s] # "idle"
      PROVE  \E k \in DOMAIN stack' : stack'[k] = s
  <2>1. s # sig /\ pc[s] # "idle"
    BY <1>1, <1>3
  <2>2. PICK k \in DOMAIN stack : stack[k] = s
    BY <2>1, <1>3 DEF KeyInv, HandlersOnStack
  <2>3. k - 1 \in DOMAIN stack' /\ stack'[k - 1] = s
    BY <1>2, <2>1, <2>2
  <2>4. QED
    BY <2>3
<1>4. KillsNoBackground'
  BY <1>1 DEF KeyInv, KillsNoBackground
<1>5. QED
  BY <1>3, <1>4 DEF KeyInv, HandlersOnStack

LEMMA KeysInvariant == ASSUME SigchldMasked PROVE Spec => []KeyInv
<1>1. Init => KeyInv
  BY DEF Init, KeyInv, HandlersOnStack, KillsNoBackground, Forwarders, Contexts, Signals, Keyboard
<1>2. TypeOK /\ (FrameInv /\ ListInv) /\ SlotInv /\ KeyInv /\ [Next]_vars => KeyInv'
  <2> SUFFICES ASSUME TypeOK, FrameInv, ListInv, SlotInv, KeyInv, [Next]_vars PROVE KeyInv'
    OBVIOUS
  <2> /\ pc \in [Contexts -> MainLabels \cup HandlerLabels] /\ pid \in [Contexts -> PidValues]
      /\ jobs \in [Slots -> Job] /\ stack \in Seq(Signals)
      /\ "CHLD" \in Contexts /\ "main" \in Contexts /\ \A sig \in Forwarders : sig \in Contexts
      /\ "CHLD" \in Signals /\ "CHLD" \notin Forwarders /\ "main" \notin Forwarders
      /\ \A sig \in Forwarders : sig \in Signals
    BY DEF TypeOK, Contexts, Signals, Keyboard, Forwarders
  <2> HandlersOnStack /\ KillsNoBackground
    BY DEF KeyInv
  <2>1. ASSUME NEW l, At("main", l), stack' = stack,
               \A sig \in Forwarders : pc'[sig] = pc[sig] /\ pid'[sig] = pid[sig]
        PROVE  KeyInv'
    <3>1. \A sig \in Forwarders : pc[sig] # "kill"
      BY <2>1, MainRunsAlone
    <3>2. QED
      BY <2>1, <3>1, KeysStay
  <2>2. ASSUME NEW bg \in BOOLEAN, Eval(bg) \/ EvalAddjob(bg) PROVE KeyInv'
    <3>1. \A sig \in Forwarders : pc'[sig] = pc[sig] /\ pid'[sig] = pid[sig]
      BY <2>2 DEF Eval, EvalAddjob, GoTo
    <3>2. \E l : At("main", l)
      BY <2>2 DEF Eval, EvalAddjob
    <3>3. QED
      BY <2>1, <2>2, <3>1, <3>2 DEF Eval, EvalAddjob
  <2>3. ASSUME NEW fg \in BOOLEAN, DoBgfg(fg) PROVE KeyInv'
    <3>1. \A sig \in Forwarders : pc'[sig] = pc[sig] /\ pid'[sig] = pid[sig]
      BY <2>3 DEF DoBgfg, GoTo
    <3>2. QED
      BY <2>1, <2>3, <3>1 DEF DoBgfg
  <2>4. CASE Announce \/ DoFgRefetch \/ WaitfgReturn
    <3>1. \A sig \in Forwarders : pc'[sig] = pc[sig] /\ pid'[sig] = pid[sig]
      BY <2>4 DEF Announce, DoFgRefetch, WaitfgReturn, GoTo
    <3>2. QED
      BY <2>1, <2>4, <3>1 DEF Announce, DoFgRefetch, WaitfgReturn
  <2>5. CASE Quit \/ SigquitExit
    BY <2>5, KeysStay DEF Quit, SigquitExit, jobVars, frameVars
  <2>6. ASSUME NEW sig \in Keyboard, Send(sig) PROVE KeyInv'
    BY <2>6, KeysStay DEF Send, jobVars, frameVars
  <2>7. ASSUME NEW sig \in Signals, Deliver(sig) PROVE KeyInv'
    <3>1. HandlersOnStack'
      BY <2>7, KeysPush
    <3>2. pc' = [pc EXCEPT ![sig] = Entry[sig]] /\ UNCHANGED <<jobs, pid>>
      BY <2>7 DEF Deliver, GoTo, jobVars
    <3>3. Entry[sig] # "kill"
      BY DEF Entry, Signals, Keyboard
    <3>4. KillsNoBackground'
      BY <3>2, <3>3 DEF KillsNoBackground
    <3>5. QED
      BY <3>1, <3>4 DEF KeyInv
  <2>8. CASE SigchldWaitpid
    BY <2>8, KeysStay DEF SigchldWaitpid, GoTo, jobVars
  <2>9. CASE SigchldReturn
    BY <2>9, KeysPop DEF SigchldReturn, At, jobVars
  <2>10. CASE SigchldDelete
    <3>1. stack' = stack /\ \A sig \in Forwarders : pc'[sig] = pc[sig] /\ pid'[sig] = pid[sig]
      BY <2>10 DEF SigchldDelete, GoTo
    <3>2. \A i \in Slots : jobs'[i].state = "BG" => jobs[i].state = "BG" /\ jobs'[i].pid = jobs[i].pid
      <4>1. CASE UNCHANGED jobs
        BY <4>1
      <4>2. ASSUME NEW k \in Slots, ClearedAt(k)
            PROVE  \A i \in Slots : jobs'[i].state = "BG"
                     => jobs[i].state = "BG" /\ jobs'[i].pid = jobs[i].pid
        BY <4>2 DEF ClearedAt, Cleared
      <4>3. QED
        BY <2>10, <4>1, <4>2, DeletejobClears
    <3>3. QED
      BY <3>1, <3>2, KeysStay
  <2>11. CASE SigchldStop
    <3>1. stack' = stack /\ \A sig \in Forwarders : pc'[sig] = pc[sig] /\ pid'[sig] = pid[sig]
      BY <2>11 DEF SigchldStop, GoTo
    <3>2. \A i \in Slots : jobs'[i].state = "BG" => jobs[i].state = "BG" /\ jobs'[i].pid = jobs[i].pid
      <4>1. CASE UNCHANGED jobs
        BY <4>1
      <4>2. ASSUME NEW k \in Slots, StateAt(k, "ST")
            PROVE  \A i \in Slots : jobs'[i].state = "BG"
                     => jobs[i].state = "BG" /\ jobs'[i].pid = jobs[i].pid
        BY <4>2 DEF StateAt, Job
      <4>3. QED
        BY <2>11, <4>1, <4>2, StopMarks
    <3>3. QED
      BY <3>1, <3>2, KeysStay
  <2>12. ASSUME NEW sig \in Forwarders, ForwardFgpid(sig) PROVE KeyInv'
    <3>1. Top = sig /\ pc[sig] = "fgpid" /\ jobs' = jobs
      BY <2>12 DEF ForwardFgpid, At, jobVars
    <3>2. CASE fgpid(NoPid)
      BY <2>12, <3>1, <3>2, KeysPop DEF ForwardFgpid
    <3>3. CASE ~fgpid(NoPid)
      <4>1. PICK p \in Pids : fgpid(p) /\ pid' = [pid EXCEPT ![sig] = p]
        BY <2>12, <3>3 DEF ForwardFgpid
      <4>2. PICK i \in Slots : jobs[i].state = "FG" /\ jobs[i].pid = p
        BY <4>1 DEF fgpid, ForegroundSlots
      <4>3. \A k \in Slots : jobs[k].state = "BG" => jobs[k].pid # p
        BY <4>2 DEF ListInv, OneSlotPerPid
      <4>4. stack' = stack /\ pc' = [pc EXCEPT ![sig] = "kill"]
        BY <2>12, <3>3 DEF ForwardFgpid, GoTo
      <4>5. KillsNoBackground'
        BY <3>1, <4>1, <4>3, <4>4 DEF KillsNoBackground
      <4>6. HandlersOnStack'
        BY <3>1, <4>4 DEF HandlersOnStack
      <4>7. QED
        BY <4>5, <4>6 DEF KeyInv
    <3>4. QED
      BY <3>2, <3>3
  <2>13. ASSUME NEW sig \in Forwarders, ForwardKill(sig) PROVE KeyInv'
    <3>1. Top = sig /\ jobs' = jobs
      BY <2>13 DEF ForwardKill, At, jobVars
    <3>2. CASE GroupExists(pid[sig])
      BY <2>13, <3>1, <3>2, KeysPop DEF ForwardKill
    <3>3. CASE ~GroupExists(pid[sig])
      BY <2>13, <3>1, <3>3, KeysStay DEF ForwardKill
    <3>4. QED
      BY <3>2, <3>3
  <2>14. ASSUME NEW p \in Pids, Child(p) PROVE KeyInv'
    BY <2>14, KeysStay DEF Child, jobVars, frameVars
  <2>15. CASE UNCHANGED vars
    BY <2>15, KeysStay DEF vars
  <2>16. QED
    BY <2>2, <2>3, <2>4, <2>5, <2>6, <2>7, <2>8, <2>9, <2>10, <2>11, <2>12, <2>13, <2>14, <2>15
       DEF Next, User, MainStep, WaitfgSpin, HandlerStep, Ended, Forwarders
<1>3. QED
  BY <1>1, <1>2, TypeCorrect, ListInductive, SlotInvariant, PTL DEF Spec

(* BackgroundIsSpared: the signal that sigint_handler or sigtstp_handler sends *)
(* changes the process of no background job, whatever ran since the lookup.    *)
THEOREM KeysSpareBackground == ASSUME SigchldMasked PROVE Spec => BackgroundIsSpared
<1> DEFINE Spared == \A sig \in {"INT", "TSTP"} : ForwardKill(sig) =>
                       \A i \in Slots : jobs[i].state = "BG" => UNCHANGED proc[jobs[i].pid]
<1>1. TypeOK /\ SlotInv /\ KeyInv => Spared
  <2> SUFFICES ASSUME TypeOK, SlotInv, KeyInv, NEW sig \in {"INT", "TSTP"}, ForwardKill(sig),
                      NEW i \in Slots, jobs[i].state = "BG"
               PROVE  proc'[jobs[i].pid] = proc[jobs[i].pid]
    BY DEF ForwardKill, jobVars
  <2>1. jobs[i].pid \in Pids /\ proc \in [Pids -> ProcStates]
    BY DEF TypeOK, Job, SlotInv, FreeIsCleared
  <2>2. jobs[i].pid # pid[sig]
    BY DEF ForwardKill, At, KeyInv, KillsNoBackground, Forwarders
  <2>3. CASE GroupExists(pid[sig])
    BY <2>1, <2>2, <2>3 DEF ForwardKill, Move
  <2>4. CASE ~GroupExists(pid[sig])
    BY <2>4 DEF ForwardKill
  <2>5. QED
    BY <2>3, <2>4
<1>2. QED
  BY <1>1, TypeCorrect, SlotInvariant, KeysInvariant, PTL DEF BackgroundIsSpared

-----------------------------------------------------------------------------
(* The list and the kernel. With a slot for every process that may exist:      *)
(* SIGCHLD or its handler is on the way as long as waitpid has something to    *)
(* report; every child is in the list or about to be; what the handler holds   *)
(* is still what waitpid said; ST is what waitpid said last; and the child     *)
(* between fork and addjob has not been reported.                              *)

RoomForAll == IsFiniteSet(Pids) /\ Cardinality(Pids) <= MAXJOBS

ReportsComing == \A p \in Pids :
  proc[p] \in Reportable => "CHLD" \in pending \/ pc["CHLD"] # "idle"

ChildrenListed == \A p \in Pids :
  proc[p] # "none" => SlotsOf(p) # {} \/ (Adding /\ pid["main"] = p)

ReportHolds ==
  /\ pc["CHLD"] = "delete" => proc[pid["CHLD"]] = "none"
  /\ pc["CHLD"] = "stop" => proc[pid["CHLD"]] \in {"halted", "signaled"}

StopsRecorded == \A i \in Slots : jobs[i].pid # NoPid =>
  IF jobs[i].state = "ST" THEN proc[jobs[i].pid] \in {"halted", "signaled", "none"}
  ELSE proc[jobs[i].pid] = "halted" => pc["CHLD"] = "stop" /\ pid["CHLD"] = jobs[i].pid

NewcomerUnreported == Adding /\ pid["main"] \in Pids => proc[pid["main"]] # "halted"

KernelInv ==
  ReportsComing /\ ChildrenListed /\ ReportHolds /\ StopsRecorded /\ NewcomerUnreported

(* addjob finds a free slot for a child: the slots of the others are fewer.    *)
LEMMA SlotForNewcomer ==
  ASSUME RoomForAll, TypeOK, ListInv, Adding, pid["main"] \in Pids
  PROVE  SlotsOf(NoPid) # {}
<1> DEFINE p == pid["main"]
           f == [i \in Slots |-> jobs[i].pid]
<1>1. SUFFICES ASSUME SlotsOf(NoPid) = {} PROVE FALSE
  OBVIOUS
<1>2. \A i \in Slots : jobs[i].pid \in Pids \ {p}
  <2>1. \A i \in Slots : jobs[i].pid \in Pids
    BY <1>1 DEF SlotsOf, TypeOK, Job
  <2>2. \A i \in Slots : jobs[i].pid # p
    BY DEF ListInv, NewcomerUnlisted, SlotsOf
  <2>3. QED
    BY <2>1, <2>2
<1>3. f \in [Slots -> Pids \ {p}]
  BY <1>2
<1>4. \A i, k \in Slots : f[i] = f[k] => i = k
  BY <1>2, PidAssumption DEF ListInv, OneSlotPerPid
<1>5. f \in Injection(Slots, Pids \ {p})
  BY <1>3, <1>4 DEF Injection, IsInjective
<1>6. IsFiniteSet(Pids \ {p}) /\ Cardinality(Pids \ {p}) = Cardinality(Pids) - 1
  BY FS_RemoveElement DEF RoomForAll
<1>7. Cardinality(Slots) = MAXJOBS
  BY FS_Interval DEF Slots
<1>8. Cardinality(Slots) <= Cardinality(Pids \ {p})
  BY <1>5, <1>6, FS_Injection
<1>9. Cardinality(Pids) \in Nat
  BY FS_CardinalityType DEF RoomForAll
<1>10. QED
  BY <1>6, <1>7, <1>8, <1>9 DEF RoomForAll

(* What a child does by itself, and what a signal does to it. *)
Aged(p) ==
  \/ proc'[p] = proc[p]
  \/ /\ proc[p] \notin Zombies \cup {"none"}
     /\ proc'[p] \notin {"none", "halted"}
     /\ proc[p] = "halted" => proc'[p] = "signaled"
     /\ "CHLD" \in pending' \/ proc'[p] \notin Reportable

LEMMA MoveAges ==
  ASSUME TypeOK, NEW q \in Pids, NEW s \in {"stopped", "exited", "signaled", proc[q]}, Move(q, s),
         \/ s = proc[q]
         \/ proc[q] \notin Zombies \cup {"none", "halted"}
         \/ proc[q] = "halted" /\ s = "signaled"
  PROVE  /\ \A p \in Pids : Aged(p)
         /\ "CHLD" \in pending => "CHLD" \in pending'
<1>1. proc \in [Pids -> ProcStates]
  BY DEF TypeOK
<1>2. proc' = [proc EXCEPT ![q] = s] /\ (s # proc[q] => "CHLD" \in pending')
  BY DEF Move
<1>3. QED
  BY <1>1, <1>2 DEF Move, Aged, Zombies

LEMMA KeyAges ==
  ASSUME TypeOK, NEW q, GroupExists(q), NEW sig \in {"INT", "TSTP"}, NEW s \in Effect(q, sig),
         Move(q, s)
  PROVE  /\ \A p \in Pids : Aged(p)
         /\ "CHLD" \in pending => "CHLD" \in pending'
<1>1. q \in Pids
  BY DEF GroupExists
<1>2. s = proc[q] \/ (proc[q] = "running" /\ s \in {"signaled", "stopped"})
  BY DEF Effect
<1>3. s \in {"stopped", "exited", "signaled", proc[q]}
  BY <1>2
<1>4. "running" \notin Zombies \cup {"none", "halted"}
  BY DEF Zombies
<1>5. QED
  BY <1>1, <1>2, <1>3, <1>4, MoveAges

LEMMA ChildAges ==
  ASSUME TypeOK, NEW q \in Pids, Child(q)
  PROVE  /\ \A p \in Pids : Aged(p)
         /\ "CHLD" \in pending => "CHLD" \in pending'
<1>1. CASE Setpgid(q) \/ Exec(q)
  BY <1>1 DEF Setpgid, Exec, Aged, Zombies, Reportable, TypeOK
<1>2. CASE Stop(q)
  BY <1>2, MoveAges DEF Stop, Zombies
<1>3. CASE Die(q)
  <2>1. CASE proc[q] \in {"execing", "running"} /\ Move(q, "exited")
    BY <2>1, MoveAges DEF Zombies
  <2>2. CASE proc[q] \notin Zombies \cup {"none"} /\ Move(q, "signaled")
    BY <2>2, MoveAges
  <2>3. QED
    BY <1>3, <2>1, <2>2 DEF Die
<1>4. QED
  BY <1>1, <1>2, <1>3 DEF Child

(* A step that leaves the list and the reaper alone. *)
LEMMA KernelStays ==
  ASSUME TypeOK, ReaperKnows, KernelInv, UNCHANGED jobs, \A p \in Pids : Aged(p),
         "CHLD" \in pending => "CHLD" \in pending',
         pc'["CHLD"] = pc["CHLD"], pid'["CHLD"] = pid["CHLD"],
         Adding' <=> Adding, Adding => pid'["main"] = pid["main"]
  PROVE  KernelInv'
<1> /\ \A i \in Slots : jobs[i].pid # NoPid => jobs[i].pid \in Pids
  BY DEF TypeOK, Job
<1>1. ReportsComing'
  BY DEF KernelInv, ReportsComing, Aged
<1>2. ChildrenListed'
  <2>1. \A p \in Pids : proc'[p] # "none" => proc[p] # "none"
    BY DEF Aged
  <2>2. QED
    BY <2>1 DEF KernelInv, ChildrenListed, SlotsOf
<1>3. ReportHolds'
  <2>1. CASE pc["CHLD"] = "delete"
    BY <2>1 DEF KernelInv, ReportHolds, ReaperKnows, Aged
  <2>2. CASE pc["CHLD"] = "stop"
    BY <2>2 DEF KernelInv, ReportHolds, ReaperKnows, Aged, Zombies
  <2>3. QED
    BY <2>1, <2>2 DEF ReportHolds
<1>4. StopsRecorded'
  <2>1. \A i \in Slots : jobs[i].pid # NoPid => Aged(jobs[i].pid)
    OBVIOUS
  <2>2. QED
    BY <2>1 DEF KernelInv, StopsRecorded, Aged, Zombies
<1>5. NewcomerUnreported'
  BY DEF KernelInv, NewcomerUnreported, Aged
<1>6. QED
  BY <1>1, <1>2, <1>3, <1>4, <1>5 DEF KernelInv

LEMMA KernelInvariant == ASSUME SigchldMasked, RoomForAll PROVE Spec => []KernelInv
<1>1. Init => KernelInv
  BY DEF Init, KernelInv, ReportsComing, ChildrenListed, ReportHolds, StopsRecorded,
       NewcomerUnreported, Reportable, Zombies, Adding, Cleared, Contexts, Signals, Keyboard
<1>2. TypeOK /\ (FrameInv /\ ListInv) /\ SlotInv /\ KernelInv /\ [Next]_vars => KernelInv'
  <2> SUFFICES ASSUME TypeOK, FrameInv, ListInv, SlotInv, KernelInv, [Next]_vars PROVE KernelInv'
    OBVIOUS
  <2> /\ "main" \in Contexts /\ "CHLD" \in Contexts /\ "CHLD" \in Signals
      /\ "main" \notin Signals /\ \A sig \in Signals : sig \in Contexts
    BY DEF Contexts, Signals, Keyboard
  <2> /\ pc \in [Contexts -> MainLabels \cup HandlerLabels]
      /\ pid \in [Contexts -> PidValues]
      /\ jobs \in [Slots -> Job]
      /\ proc \in [Pids -> ProcStates]
      /\ \A i \in Slots : jobs[i].pid \in Pids \cup {NoPid}
    BY DEF TypeOK, Job
  <2> ReaperKnows /\ FreeIsCleared
    BY DEF SlotInv
  <2> /\ ReportsComing /\ ChildrenListed /\ ReportHolds /\ StopsRecorded /\ NewcomerUnreported
    BY DEF KernelInv
  <2>1. ASSUME NEW bg \in BOOLEAN, Eval(bg) PROVE KernelInv'
    <3>1. pc["CHLD"] = "idle" /\ ~Adding
      BY <2>1, MainAlone DEF Eval, At, Adding
    <3>2. /\ pc' = [pc EXCEPT !["main"] = IF bg THEN "addbg" ELSE "addfg"]
          /\ UNCHANGED <<jobs, pending>>
      BY <2>1 DEF Eval, GoTo, jobVars
    <3>3. PICK p \in Pids \cup {ErrPid} :
            /\ p \in Pids => proc[p] = "none"
            /\ proc' = IF p \in Pids THEN [proc EXCEPT ![p] = "forked"] ELSE proc
            /\ pid' = [pid EXCEPT !["main"] = p]
      BY <2>1 DEF Eval
    <3>4. pc'["CHLD"] = "idle" /\ Adding' /\ pid'["main"] = p
      BY <3>1, <3>2, <3>3 DEF Adding
    <3>5. \A i \in Slots : jobs[i].pid # NoPid => proc'[jobs[i].pid] = proc[jobs[i].pid]
      BY <3>1, <3>3 DEF ListInv, NoGhostJob
    <3>6. ReportsComing'
      BY <3>1, <3>2, <3>3 DEF ReportsComing, Reportable, Zombies
    <3>7. ChildrenListed'
      BY <3>1, <3>2, <3>3, <3>4 DEF ChildrenListed, SlotsOf
    <3>8. ReportHolds'
      BY <3>4 DEF ReportHolds
    <3>9. StopsRecorded'
      BY <3>1, <3>2, <3>5 DEF StopsRecorded
    <3>10. NewcomerUnreported'
      BY <3>3, <3>4 DEF NewcomerUnreported
    <3>11. QED
      BY <3>6, <3>7, <3>8, <3>9, <3>10 DEF KernelInv
  <2>2. ASSUME NEW bg \in BOOLEAN, EvalAddjob(bg) PROVE KernelInv'
    <3>1. /\ pc["CHLD"] = "idle" /\ pc'["CHLD"] = "idle" /\ Adding /\ ~Adding'
          /\ UNCHANGED <<proc, pending, pid>>
      BY <2>2, MainAlone DEF EvalAddjob, At, Adding, GoTo
    <3>2. ReportsComing' /\ ReportHolds' /\ NewcomerUnreported'
      BY <3>1 DEF ReportsComing, ReportHolds, NewcomerUnreported
    <3>3. CASE UNCHANGED jobs /\ ~(pid["main"] \in Pids /\ SlotsOf(NoPid) # {})
      <4>1. pid["main"] \notin Pids
        BY <3>1, <3>3, SlotForNewcomer
      <4>2. ChildrenListed'
        BY <3>1, <3>3, <4>1 DEF ChildrenListed, SlotsOf
      <4>3. StopsRecorded'
        BY <3>1, <3>3 DEF StopsRecorded
      <4>4. QED
        BY <3>2, <4>2, <4>3 DEF KernelInv
    <3>4. ASSUME NEW i \in Slots, NEW st \in {"FG", "BG"}, AddedAt(i, st) PROVE KernelInv'
      <4>1. /\ jobs[i].pid = NoPid /\ pid["main"] \in Pids
            /\ jobs'[i].pid = pid["main"] /\ jobs'[i].state # "ST"
            /\ \A k \in Slots \ {i} : jobs'[k] = jobs[k]
        BY <3>4 DEF AddedAt
      <4>2. \A p \in Pids : SlotsOf(p) # {} => SlotsOf(p)' # {}
        BY <4>1 DEF SlotsOf
      <4>3. SlotsOf(pid["main"])' # {}
        BY <3>1, <4>1 DEF SlotsOf
      <4>4. ChildrenListed'
        BY <3>1, <4>2, <4>3 DEF ChildrenListed
      <4>5. StopsRecorded'
        BY <3>1, <4>1 DEF StopsRecorded, NewcomerUnreported
      <4>6. QED
        BY <3>2, <4>4, <4>5 DEF KernelInv
    <3>5. QED
      BY <2>2, <3>3, <3>4, AddjobAdds
  <2>3. CASE Announce \/ DoFgRefetch \/ WaitfgReturn
    <3>1. /\ UNCHANGED <<jobs, proc, pending>> /\ ~Adding /\ ~Adding'
          /\ pc'["CHLD"] = pc["CHLD"] /\ pid'["CHLD"] = pid["CHLD"]
      BY <2>3 DEF Announce, DoFgRefetch, WaitfgReturn, At, Adding, GoTo, jobVars
    <3>2. QED
      BY <3>1, KernelStays DEF Aged
  <2>4. ASSUME NEW fg \in BOOLEAN, DoBgfg(fg) PROVE KernelInv'
    <3>1. pc["CHLD"] = "idle" /\ ~Adding /\ pid' = pid
      BY <2>4, MainAlone DEF DoBgfg, At, Adding
    <3>2. CASE UNCHANGED <<jobs, proc, pending, pc>>
      BY <3>1, <3>2, KernelStays DEF Aged, Adding
    <3>3. ASSUME NEW i \in Slots, GroupExists(jobs[i].pid),
                 NEW s \in Effect(jobs[i].pid, "CONT"), Move(jobs[i].pid, s),
                 NEW st \in {"FG", "BG"}, StateAt(i, st),
                 NEW l \in {"refetch", "announce"}, pc' = [pc EXCEPT !["main"] = l]
          PROVE  KernelInv'
      <4> DEFINE p == jobs[i].pid
      <4>1. p \in Pids /\ proc[p] # "none"
        BY <3>3 DEF GroupExists
      <4>2. pc'["CHLD"] = "idle" /\ ~Adding'
        BY <3>1, <3>3 DEF Adding
      <4>3. /\ proc' = [proc EXCEPT ![p] = s] /\ (s # proc[p] => s = "running")
            /\ s # "halted" /\ ("CHLD" \in pending => "CHLD" \in pending')
            /\ s # "none"
        BY <3>3, <4>1 DEF Move, Effect
      <4>4. /\ jobs'[i].pid = p /\ jobs'[i].state # "ST"
            /\ \A k \in Slots \ {i} : jobs'[k] = jobs[k] /\ (jobs[k].pid # NoPid => jobs[k].pid # p)
        BY <3>3, <4>1 DEF StateAt, Job, ListInv, OneSlotPerPid
      <4>5. ReportsComing'
        BY <3>1, <4>1, <4>3 DEF ReportsComing, Reportable, Zombies
      <4>6. \A q \in Pids : SlotsOf(q) # {} => SlotsOf(q)' # {}
        BY <4>4 DEF SlotsOf
      <4>7. ChildrenListed'
        BY <3>1, <4>1, <4>3, <4>6 DEF ChildrenListed
      <4>8. ReportHolds' /\ NewcomerUnreported'
        BY <4>2 DEF ReportHolds, NewcomerUnreported
      <4>9. StopsRecorded'
        BY <3>1, <4>1, <4>3, <4>4 DEF StopsRecorded
      <4>10. QED
        BY <4>5, <4>7, <4>8, <4>9 DEF KernelInv
    <3>4. QED
      BY <2>4, <3>2, <3>3, BgfgMarks
  <2>5. CASE Quit \/ SigquitExit
    <3>1. UNCHANGED <<jobs, proc, pending, pc, pid>>
      BY <2>5 DEF Quit, SigquitExit, jobVars, frameVars
    <3>2. QED
      BY <3>1, KernelStays DEF Aged, Adding
  <2>6. ASSUME NEW sig \in Keyboard, Send(sig) PROVE KernelInv'
    <3>1. UNCHANGED <<jobs, proc, pc, pid>> /\ ("CHLD" \in pending => "CHLD" \in pending')
      BY <2>6 DEF Send, jobVars, frameVars
    <3>2. QED
      BY <3>1, KernelStays DEF Aged, Adding
  <2>7. ASSUME NEW sig \in Signals, Deliver(sig) PROVE KernelInv'
    <3>1. /\ UNCHANGED <<jobs, proc, pid>> /\ pc' = [pc EXCEPT ![sig] = Entry[sig]]
          /\ pending' = pending \ {sig} /\ sig \notin blocked
      BY <2>7 DEF Deliver, GoTo, jobVars
    <3>2. CASE sig # "CHLD"
      BY <3>1, <3>2, KernelStays DEF Aged, Adding
    <3>3. CASE sig = "CHLD"
      <4>1. pc'["CHLD"] = "waitpid" /\ (Adding' <=> Adding)
        BY <3>1, <3>3 DEF Entry, Adding
      <4>2. pc["CHLD"] # "stop"
        BY <3>1, <3>3 DEF FrameInv, StackBlocked, ReaperOnStack
      <4>3. ReportsComing' /\ ReportHolds'
        BY <4>1 DEF ReportsComing, ReportHolds
      <4>4. ChildrenListed' /\ NewcomerUnreported'
        BY <3>1, <4>1 DEF ChildrenListed, NewcomerUnreported, SlotsOf
      <4>5. StopsRecorded'
        BY <3>1, <4>2 DEF StopsRecorded
      <4>6. QED
        BY <4>3, <4>4, <4>5 DEF KernelInv
    <3>4. QED
      BY <3>2, <3>3
  <2>8. ASSUME Top = "CHLD" PROVE ~Adding
    <3>1. stack \in Seq(Signals) /\ stack # <<>> /\ Head(stack) = "CHLD"
      BY <2>8 DEF Top, TypeOK
    <3>2. 1 \in DOMAIN stack /\ stack[1] = "CHLD"
      BY <3>1, Pop
    <3>3. QED
      BY <3>2 DEF FrameInv, ReaperHeldBack
  <2>9. CASE SigchldWaitpid
    <3>1. pc["CHLD"] = "waitpid" /\ UNCHANGED jobs /\ Top = "CHLD"
      BY <2>9 DEF SigchldWaitpid, At, jobVars
    <3>2. PICK p \in Pids :
            /\ proc[p] \in Reportable
            /\ proc' = [proc EXCEPT ![p] = IF proc[p] = "stopped" THEN "halted" ELSE "none"]
            /\ pid' = [pid EXCEPT !["CHLD"] = p]
            /\ pc' = [pc EXCEPT !["CHLD"] = IF proc[p] = "stopped" THEN "stop" ELSE "delete"]
      BY <2>9 DEF SigchldWaitpid, GoTo
    <3>3. ~Adding /\ ~Adding'
      BY <2>8, <3>1, <3>2 DEF Adding
    <3>4. /\ pc'["CHLD"] = (IF proc[p] = "stopped" THEN "stop" ELSE "delete")
          /\ pid'["CHLD"] = p
          /\ proc'[p] = IF proc[p] = "stopped" THEN "halted" ELSE "none"
      BY <3>2
    <3>5. ReportsComing' /\ ReportHolds' /\ NewcomerUnreported'
      BY <3>3, <3>4 DEF ReportsComing, ReportHolds, NewcomerUnreported
    <3>6. ChildrenListed'
      BY <3>1, <3>2, <3>3 DEF ChildrenListed, SlotsOf, Reportable, Zombies
    <3>7. ASSUME NEW i \in Slots, jobs[i].pid # NoPid
          PROVE  IF jobs[i].state = "ST" THEN proc'[jobs[i].pid] \in {"halted", "signaled", "none"}
                 ELSE proc'[jobs[i].pid] = "halted"
                        => pc'["CHLD"] = "stop" /\ pid'["CHLD"] = jobs[i].pid
      <4>1. CASE jobs[i].pid = p
        BY <3>4, <4>1
      <4>2. CASE jobs[i].pid # p
        <5>1. proc'[jobs[i].pid] = proc[jobs[i].pid]
          BY <3>2, <3>7, <4>2
        <5>2. QED
          BY <3>1, <3>7, <5>1 DEF StopsRecorded
      <4>3. QED
        BY <4>1, <4>2
    <3>8. StopsRecorded'
      BY <3>1, <3>7 DEF StopsRecorded
    <3>9. QED
      BY <3>5, <3>6, <3>8 DEF KernelInv
  <2>10. CASE SigchldReturn
    <3>1. /\ \A p \in Pids : proc[p] \notin Reportable
          /\ UNCHANGED <<jobs, proc>> /\ pc["CHLD"] = "waitpid"
          /\ pc' = [pc EXCEPT !["CHLD"] = "idle"] /\ pid' = [pid EXCEPT !["CHLD"] = NoPid]
      BY <2>10 DEF SigchldReturn, Return, GoTo, At, jobVars
    <3>2. pc'["CHLD"] = "idle" /\ (Adding' <=> Adding) /\ pid'["main"] = pid["main"]
      BY <3>1 DEF Adding
    <3>3. ReportsComing' /\ ReportHolds'
      BY <3>1, <3>2 DEF ReportsComing, ReportHolds
    <3>4. ChildrenListed' /\ NewcomerUnreported'
      BY <3>1, <3>2 DEF ChildrenListed, NewcomerUnreported, SlotsOf
    <3>5. StopsRecorded'
      BY <3>1 DEF StopsRecorded
    <3>6. QED
      BY <3>3, <3>4, <3>5 DEF KernelInv
  <2>11. CASE SigchldDelete
    <3>1. /\ pc["CHLD"] = "delete" /\ Top = "CHLD" /\ UNCHANGED <<proc, pending>>
          /\ pc' = [pc EXCEPT !["CHLD"] = "waitpid"] /\ pid' = [pid EXCEPT !["CHLD"] = NoPid]
      BY <2>11 DEF SigchldDelete, At, GoTo
    <3>2. ~Adding /\ ~Adding' /\ pc'["CHLD"] = "waitpid"
      BY <2>8, <3>1 DEF Adding
    <3>3. ReportsComing' /\ ReportHolds' /\ NewcomerUnreported'
      BY <3>2 DEF ReportsComing, ReportHolds, NewcomerUnreported
    <3>4. CASE UNCHANGED jobs
      <4>1. ChildrenListed' /\ StopsRecorded'
        BY <3>1, <3>2, <3>4 DEF ChildrenListed, StopsRecorded, SlotsOf
      <4>2. QED
        BY <3>3, <4>1 DEF KernelInv
    <3>5. ASSUME NEW i \in Slots, ClearedAt(i) PROVE KernelInv'
      <4>1. /\ jobs[i].pid = pid["CHLD"] /\ jobs'[i].pid = NoPid
            /\ \A k \in Slots \ {i} : jobs'[k] = jobs[k]
        BY <3>5 DEF ClearedAt, Cleared
      <4>2. \A q \in Pids : q # pid["CHLD"] /\ SlotsOf(q) # {} => SlotsOf(q)' # {}
        BY <4>1 DEF SlotsOf
      <4>3. proc[pid["CHLD"]] = "none"
        BY <3>1 DEF ReportHolds
      <4>4. ChildrenListed'
        BY <3>1, <3>2, <4>2, <4>3 DEF ChildrenListed
      <4>5. StopsRecorded'
        BY <3>1, <4>1 DEF StopsRecorded
      <4>6. QED
        BY <3>3, <4>4, <4>5 DEF KernelInv
    <3>6. QED
      BY <2>11, <3>4, <3>5, DeletejobClears
  <2>12. CASE SigchldStop
    <3>1. /\ pc["CHLD"] = "stop" /\ Top = "CHLD" /\ UNCHANGED <<proc, pending>>
          /\ pid["CHLD"] \in Pids /\ proc[pid["CHLD"]] \in {"halted", "signaled"}
      BY <2>12 DEF SigchldStop, At, ReaperKnows, ReportHolds
    <3>2. ~Adding
      BY <2>8, <3>1
    <3>3. CASE UNCHANGED <<jobs, pid, pc>>
      BY <3>1, <3>3, KernelStays DEF Aged, Adding
    <3>4. ASSUME NEW i \in Slots, jobs[i].pid = pid["CHLD"], StateAt(i, "ST"),
                 pc' = [pc EXCEPT !["CHLD"] = "waitpid"], pid' = [pid EXCEPT !["CHLD"] = NoPid]
          PROVE  KernelInv'
      <4>1. ~Adding' /\ pc'["CHLD"] = "waitpid"
        BY <3>2, <3>4 DEF Adding
      <4>2. ReportsComing' /\ ReportHolds' /\ NewcomerUnreported'
        BY <4>1 DEF ReportsComing, ReportHolds, NewcomerUnreported
      <4>3. /\ jobs'[i].pid = jobs[i].pid /\ jobs'[i].state = "ST"
            /\ \A k \in Slots \ {i} :
                 jobs'[k] = jobs[k] /\ (jobs[k].pid # NoPid => jobs[k].pid # pid["CHLD"])
        BY <3>1, <3>4 DEF StateAt, Job, ListInv, OneSlotPerPid
      <4>4. \A q \in Pids : SlotsOf(q) # {} => SlotsOf(q)' # {}
        BY <4>3 DEF SlotsOf
      <4>5. ChildrenListed'
        BY <3>1, <3>2, <4>4 DEF ChildrenListed
      <4>6. StopsRecorded'
        BY <3>1, <3>4, <4>3 DEF StopsRecorded
      <4>7. QED
        BY <4>2, <4>5, <4>6 DEF KernelInv
    <3>5. QED
      BY <2>12, <3>3, <3>4, StopMarks
  <2>13. ASSUME NEW sig \in {"INT", "TSTP"}, ForwardFgpid(sig) PROVE KernelInv'
    <3>1. /\ UNCHANGED <<jobs, proc, pending>> /\ pc'["CHLD"] = pc["CHLD"]
          /\ pid'["CHLD"] = pid["CHLD"] /\ pc'["main"] = pc["main"] /\ pid'["main"] = pid["main"]
      BY <2>13 DEF ForwardFgpid, Return, GoTo, jobVars
    <3>2. QED
      BY <3>1, KernelStays DEF Aged, Adding
  <2>14. ASSUME NEW sig \in {"INT", "TSTP"}, ForwardKill(sig) PROVE KernelInv'
    <3>1. /\ UNCHANGED jobs /\ pc'["CHLD"] = pc["CHLD"]
          /\ pid'["CHLD"] = pid["CHLD"] /\ pc'["main"] = pc["main"] /\ pid'["main"] = pid["main"]
      BY <2>14 DEF ForwardKill, Return, GoTo, jobVars
    <3>2. CASE GroupExists(pid[sig])
      <4>1. /\ \A p \in Pids : Aged(p)
            /\ "CHLD" \in pending => "CHLD" \in pending'
        BY <2>14, <3>2, KeyAges DEF ForwardKill
      <4>2. QED
        BY <3>1, <4>1, KernelStays DEF Adding
    <3>3. CASE ~GroupExists(pid[sig])
      BY <2>14, <3>1, <3>3, KernelStays DEF ForwardKill, Aged, Adding
    <3>4. QED
      BY <3>2, <3>3
  <2>15. ASSUME NEW p \in Pids, Child(p) PROVE KernelInv'
    <3>1. UNCHANGED <<jobs, pc, pid>>
      BY <2>15 DEF Child, jobVars, frameVars
    <3>2. /\ \A q \in Pids : Aged(q)
          /\ "CHLD" \in pending => "CHLD" \in pending'
      BY <2>15, ChildAges
    <3>3. QED
      BY <3>1, <3>2, KernelStays DEF Adding
  <2>16. CASE UNCHANGED vars
    BY <2>16, KernelStays DEF vars, Aged, Adding
  <2>17. QED
    BY <2>1, <2>2, <2>3, <2>4, <2>5, <2>6, <2>7, <2>9, <2>10, <2>11, <2>12, <2>13, <2>14, <2>15,
       <2>16
       DEF Next, User, MainStep, WaitfgSpin, HandlerStep, Ended
<1>3. QED
  BY <1>1, <1>2, TypeCorrect, ListInductive, SlotInvariant, PTL DEF Spec

(* ListMatchesKernel: once every report has been taken, the list is the truth. *)
THEOREM ListIsTrue == ASSUME SigchldMasked, RoomForAll PROVE Spec => []ListMatchesKernel
<1>1. TypeOK /\ ListInv /\ KernelInv => ListMatchesKernel
  <2> SUFFICES ASSUME TypeOK, ListInv, KernelInv, Settled PROVE
        /\ \A p \in Pids : proc[p] # "none" => \E i \in Slots : SlotsOf(p) = {i}
        /\ \A i \in Slots : jobs[i].pid # NoPid =>
             IF jobs[i].state = "ST" THEN proc[jobs[i].pid] = "halted"
             ELSE proc[jobs[i].pid] \in {"forked", "execing", "running"}
    BY DEF ListMatchesKernel
  <2>1. ~Adding /\ pc["CHLD"] = "idle" /\ \A p \in Pids : proc[p] \notin Reportable
    BY DEF Settled, Adding, KernelInv, ReportsComing
  <2>2. ASSUME NEW p \in Pids, proc[p] # "none" PROVE \E i \in Slots : SlotsOf(p) = {i}
    <3>1. PICK i \in Slots : jobs[i].pid = p
      BY <2>1, <2>2 DEF KernelInv, ChildrenListed, SlotsOf
    <3>2. \A k \in Slots : jobs[k].pid = p => k = i
      BY <3>1, PidAssumption DEF ListInv, OneSlotPerPid
    <3>3. QED
      BY <3>1, <3>2 DEF SlotsOf
  <2>3. ASSUME NEW i \in Slots, jobs[i].pid # NoPid
        PROVE  IF jobs[i].state = "ST" THEN proc[jobs[i].pid] = "halted"
               ELSE proc[jobs[i].pid] \in {"forked", "execing", "running"}
    <3>1. jobs[i].pid \in Pids /\ proc[jobs[i].pid] \in ProcStates
      BY <2>3 DEF TypeOK, Job
    <3>2. proc[jobs[i].pid] \notin {"none", "stopped", "exited", "signaled"}
      BY <2>1, <2>3, <3>1 DEF ListInv, NoGhostJob, Reportable, Zombies
    <3>3. QED
      BY <2>1, <2>3, <3>1, <3>2 DEF KernelInv, StopsRecorded, ProcStates
  <2>4. QED
    BY <2>2, <2>3
<1>2. QED
  BY <1>1, TypeCorrect, ListInductive, KernelInvariant, PTL

(* NoNullJob: the stop that sigchld_handler records is that of a child it has  *)
(* not reaped, and every child it can meet is in the list.                     *)
THEOREM StopsFindTheirJob == ASSUME SigchldMasked, RoomForAll PROVE Spec => []NoNullJob
<1>1. Init => NoNullJob
  BY DEF Init, NoNullJob
<1>2. TypeOK /\ (FrameInv /\ ListInv) /\ SlotInv /\ KernelInv /\ NoNullJob /\ [Next]_vars
        => NoNullJob'
  <2> SUFFICES ASSUME TypeOK, FrameInv, SlotInv, KernelInv, NoNullJob, [Next]_vars
               PROVE  shell' # "crashed"
    BY DEF NoNullJob
  <2>1. CASE SigchldStop
    <3>1. /\ pid["CHLD"] \in Pids /\ proc[pid["CHLD"]] # "none" /\ Top = "CHLD"
      BY <2>1 DEF SigchldStop, At, SlotInv, ReaperKnows, KernelInv, ReportHolds
    <3>2. stack \in Seq(Signals) /\ stack # <<>> /\ Head(stack) = "CHLD"
      BY <3>1 DEF Top, TypeOK, Signals, Keyboard
    <3>3. 1 \in DOMAIN stack /\ stack[1] = "CHLD"
      BY <3>2, Pop
    <3>4. ~Adding
      BY <3>3 DEF FrameInv, ReaperHeldBack
    <3>5. SlotsOf(pid["CHLD"]) # {}
      BY <3>1, <3>4 DEF KernelInv, ChildrenListed
    <3>6. QED
      BY <2>1, <3>5, StopMarks DEF NoNullJob
  <2>2. CASE ~SigchldStop
    BY <2>2 DEF NoNullJob, Next, User, MainStep, WaitfgSpin, HandlerStep, Ended, vars, Eval,
       DoBgfg, Quit, Send, EvalAddjob, Announce, DoFgRefetch, WaitfgReturn, Deliver,
       SigchldWaitpid, SigchldReturn, SigchldDelete, ForwardFgpid, ForwardKill, SigquitExit, Child
  <2>3. QED
    BY <2>1, <2>2
<1>3. QED
  BY <1>1, <1>2, TypeCorrect, ListInductive, SlotInvariant, KernelInvariant, PTL DEF Spec
=============================================================================
