----------------------------- MODULE RemoteCall ------------------------------
(***************************************************************************)
(* pt_call of src/src/core.cc on x86-64: Arthur makes the stopped leader of *)
(* the target execute one function, with a return address of 0, and takes  *)
(* the page fault of that return for the end of the call.  Stack word, red *)
(* zone and extended state are put back by pt_call itself, whatever        *)
(* happens; the general registers by its caller (PutBack).                 *)
(*                                                                         *)
(* The leader runs the function, forks, blocks in it, receives signals or  *)
(* dies while Arthur waits (Injected, and Ptrace).  The functions are mmap,*)
(* fork (shell code), munmap and waitpid.                                  *)
(***************************************************************************)
EXTENDS Ptrace

CONSTANTS Core,    \* the ordinary signals that is_core_dump_signal names
          Foreign  \* those of them whose si_code is not SI_USER or SI_TKILL

ASSUME CoreAssumption == Core \subseteq Ordinary /\ Foreign \subseteq Core
ASSUME ChildAssumption == "chld" \in Ordinary \ Core /\ Ordinary \cap {"fork", "fault"} = {}

VARIABLES image,     \* what the leader executes, and what of it is not the target's
          call,      \* locals and results of pt_call
          child,     \* the forked child
          sysCore,   \* mode 2: the fork is not traced, the kernel writes the memory
          haltPend,  \* the SIGSTOP of pt_stop_if_running is pending
          chldAction,\* disposition of SIGCHLD in the target when it is forked
          swallowed, \* history: the stop that pt_stop_if_running consumed
          wedged     \* history: the leader could not be stopped after a timeout

remote == <<image, call, child, sysCore, haltPend, chldAction, swallowed, wedged>>

Scratch == {"slot", "red", "xstate"}   \* what pt_call restores
NoCall == [fn |-> "none", at |-> "done", status |-> "none", saved |-> {}, sig |-> "none",
           forked |-> FALSE, result |-> "none"]
NoChild == [state |-> "none", traced |-> FALSE, dirty |-> {}, still |-> TRUE, at |-> "int3",
            core |-> FALSE]

RemoteInit ==
  /\ image = [where |-> "app", dirty |-> {}, restart |-> FALSE, ret |-> "none"]
  /\ call = NoCall /\ child = NoChild /\ haltPend = FALSE
  /\ sysCore \in BOOLEAN /\ chldAction = "default"
  /\ swallowed = "none" /\ wedged = FALSE

Held == Trapped(Leader)
CallGoto(l) == call' = [call EXCEPT !.at = l]

-----------------------------------------------------------------------------
(* The forked child (kernel)                                               *)

\* The target is told of the child's death, unless it ignores SIGCHLD; the
\* default action drops the signal at once, except of a traced leader.
Report(c) ==
  LET told == fate["chld"] = "unsent" /\ chldAction # "ignore" /\ \E t \in Tids : Alive(t) IN
  /\ child' = [NoChild EXCEPT !.core = c.core,
                !.state = IF chldAction = "ignore" THEN "reaped" ELSE "zombie"]
  /\ IF told /\ (chldAction = "handler" \/ Leader \in traced)
     THEN /\ fate' = [fate EXCEPT !["chld"] = "pending"]
          /\ \E t \in Tids : Alive(t) /\ aim' = [aim EXCEPT !["chld"] = t]
     ELSE /\ fate' = IF told THEN [fate EXCEPT !["chld"] = "expired"] ELSE fate
          /\ UNCHANGED aim

\* A traced child stops before its first instruction.  An untraced one runs into
\* int $3 and dumps core, and may still do so when a detach has sent it SIGKILL.
\* A tracer learns of the death first.
ChildRuns ==
  \/ /\ child.state = "new" /\ child.traced
     /\ child' = [child EXCEPT !.state = "stopped"] /\ UNCHANGED <<fate, aim>>
  \/ child.state = "new" /\ ~child.traced /\ Report([child EXCEPT !.core = child.at = "int3"])
  \/ /\ child.state = "dying" /\ ~child.traced
     /\ \E d \in {FALSE, child.at = "int3"} : Report([child EXCEPT !.core = d])
  \/ /\ child.state = "dying" /\ child.traced
     /\ child' = [child EXCEPT !.state = "dead"] /\ UNCHANGED <<fate, aim>>

\* Somebody kills the child, or the target reaps it before Arthur makes it do so.
ChildMeets ==
  \/ /\ MayKill /\ child.state \in {"new", "stopped"}
     /\ child' = [child EXCEPT !.state = "dying", !.at = "exit"]
  \/ /\ child.state = "zombie" /\ \E t \in Tids : Active(t) /\ (t = Leader => image.where = "app")
     /\ child' = [child EXCEPT !.state = "reaped"]

ChildSteps ==
  /\ \/ ChildRuns
     \/ ChildMeets /\ UNCHANGED <<fate, aim>>
  /\ UNCHANGED <<task, traced, stopPend, trap, jobStop, sleeps,
                 image, call, sysCore, haltPend, chldAction, swallowed, wedged>>

-----------------------------------------------------------------------------
(* The leader in an injected function (kernel)                             *)

Running == task[Leader] = "run" /\ ~Held

\* The return to address 0: a page fault that only a tracer survives.
Returns(value) ==
  /\ image' = [image EXCEPT !.where = "landed", !.ret = value,
                            !.dirty = @ \cup IF image.where = "forked" THEN {} ELSE {"red", "xstate"}]
  /\ IF Leader \in traced
     THEN trap' = [trap EXCEPT ![Leader] = "fault"] /\ UNCHANGED <<task, stopPend, fate, jobStop>>
     ELSE /\ task' = [t \in Tids |-> IF Alive(t) THEN "zombie" ELSE task[t]]
          /\ trap' = [t \in Tids |-> "none"] /\ stopPend' = {}
          /\ fate' = Expire(Tids) /\ jobStop' = FALSE

\* Only a traced leader stops at its fork, and only its child is traced.
Forks ==
  /\ image.where = "fork"
  /\ LET followed == ~sysCore /\ Leader \in traced IN
     /\ child' = [NoChild EXCEPT !.state = "new", !.traced = followed,
                    !.dirty = image.dirty \cap {"slot", "red"},
                    !.still = \A t \in Tids \ {Leader} : Alive(t) => Trapped(t)]
     /\ trap' = [trap EXCEPT ![Leader] = IF followed THEN "fork" ELSE @]
  /\ image' = [image EXCEPT !.where = "forked"]
  /\ UNCHANGED <<task, stopPend, fate, jobStop>>

\* What the function has done when it returns; any may fail.  A call that a
\* restarted system call has diverted returns nothing that was asked for.
Injected ==
  /\ Running
  /\ \/ image.where = "mmap" /\ Returns("good") /\ UNCHANGED child
     \/ image.where = "munmap" /\ Returns("good") /\ UNCHANGED child
     \/ Forks
     \/ image.where = "forked" /\ Returns("good") /\ UNCHANGED child
     \/ /\ image.where = "waitpid" /\ child.state = "zombie" /\ Returns("good")
        /\ child' = [child EXCEPT !.state = "reaped"]
     \/ /\ image.where = "waitpid" /\ child.state \in {"none", "reaped"}
        /\ Returns("bad") /\ UNCHANGED child
     \/ /\ image.where \in {"mmap", "munmap", "fork", "diverted"}
        /\ Returns("bad") /\ UNCHANGED child
  /\ UNCHANGED <<traced, aim, sleeps, call, sysCore, haltPend, chldAction, swallowed, wedged>>

\* The leader dequeues the SIGSTOP of pt_stop_if_running.
HaltStop ==
  /\ haltPend /\ task[Leader] = "run" /\ ~Held
  /\ haltPend' = FALSE
  /\ IF Leader \in traced THEN trap' = [trap EXCEPT ![Leader] = "halt"] /\ UNCHANGED jobStop
     ELSE jobStop' = TRUE /\ UNCHANGED trap
  /\ UNCHANGED <<task, traced, stopPend, aim, fate, sleeps, image, call, child,
                 sysCore, chldAction, swallowed, wedged>>

\* Resumed out of a group-stop, the leader meets what is pending all the same.
Disturbed == /\ Running /\ image.where # "app"
             /\ MeetStop(Leader) \/ \E s \in Signals : Meet(Leader, s)

\* The target between two system calls of Arthur.  A leader that executes an
\* injected function neither clones nor exits of itself, and has reported a
\* group-stop already.
RemoteTarget ==
  \/ /\ \E s \in Signals \ {"chld"} : Send(s) /\ haltPend' = (haltPend /\ s # "CONT")
     /\ UNCHANGED <<image, call, child, sysCore, chldAction, swallowed, wedged>>
  \/ /\ \/ \E t \in Tids : \/ TakeStop(t) \/ Release(t) \/ Sleep(t) \/ Wake(t)
                           \/ \E s \in Signals : Dequeue(t, s)
                           \/ /\ t = Leader => image.where = "app"
                              /\ GroupTrap(t) \/ Clone(t) \/ Exit(t)
        \/ Disturbed \/ Kill
     /\ UNCHANGED remote
  \/ Injected \/ HaltStop \/ ChildSteps

-----------------------------------------------------------------------------
(* pt_call                                                                 *)

CallBegin(f) == call' = [NoCall EXCEPT !.fn = f, !.at = "save"]

\* Registers and extended state are read, then the stack word and the red zone
\* are peeked; the stack of the target may be unreadable.
CallSave ==
  /\ call.at = "save"
  /\ \/ Held /\ call' = [call EXCEPT !.at = "enter", !.saved = Scratch]
     \/ \E S \in {{"xstate"}, {"xstate", "slot"}} : call' = [call EXCEPT !.at = "fail", !.saved = S]
     \/ ~Held /\ CallGoto("fail")
  /\ UNCHANGED <<target, image>>

\* POKE of the return address 0, then the registers of the call.  A leader that
\* was stopped in a restartable system call will restart it: two bytes before
\* the function.
CallEnter ==
  /\ call.at = "enter"
  /\ \/ /\ Held /\ CallGoto("resume")
        /\ image' = [image EXCEPT
             !.where = IF image.where = "app" /\ image.restart THEN "diverted" ELSE call.fn,
             !.dirty = @ \cup {"slot", "regs"}]
     \/ CallGoto("fail") /\ UNCHANGED image
  /\ UNCHANGED target

\* PTRACE_CONT with signal 0.
CallResume ==
  /\ call.at = "resume"
  /\ IF Held
     THEN /\ trap' = [trap EXCEPT ![Leader] = "none"] /\ CallGoto("wait")
          /\ fate' = [s \in Signals |-> IF s = trap[Leader] THEN "discarded" ELSE fate[s]]
     ELSE CallGoto("fail") /\ UNCHANGED <<trap, fate>>
  /\ UNCHANGED <<task, traced, stopPend, aim, jobStop, sleeps, image>>

\* Nothing makes the leader stop before the deadline.
Hangs == /\ ~Held /\ ~CanReap(Leader)
         /\ \/ task[Leader] # "run"
            \/ image.where = "diverted"
            \/ image.where = "waitpid" /\ child.state \notin {"zombie", "reaped"}

\* Mutant of CallWait: no deadline.
CallWaitForever ==
  /\ call.at = "wait"
  /\ \/ Held /\ call' = [call EXCEPT !.at = "stopped", !.status = trap[Leader]] /\ UNCHANGED target
     \/ CanReap(Leader) /\ SysReap(Leader) /\ CallGoto("fail")
  /\ UNCHANGED image

\* pt_wait, for at most ten seconds.
CallWait ==
  /\ call.at = "wait"
  /\ \/ Held /\ call' = [call EXCEPT !.at = "stopped", !.status = trap[Leader]] /\ UNCHANGED target
     \/ CanReap(Leader) /\ SysReap(Leader) /\ CallGoto("fail")
     \/ Hangs /\ CallGoto("halt") /\ UNCHANGED target
  /\ UNCHANGED image

\* Mutant of CallStopped: resume whatever stopped the leader.
CallStoppedDeaf(reaping) ==
  /\ call.at = "stopped"
  /\ \/ call.status = "fault" /\ CallGoto(IF Held THEN "finish" ELSE "fail")
     \/ call.status = "fork" /\ call' = [call EXCEPT !.forked = TRUE, !.at = "resume"]
     \/ call.status \in Core /\ CallGoto("fail")
     \/ call.status \notin Core \cup {"fault", "fork"} /\ CallGoto("resume")
  /\ UNCHANGED <<target, image, haltPend, swallowed>>

\* The default SIGCHLD of the child that is being reaped (is_default_snapshot_exit).
OwnChild(s, reaping) == s = "chld" /\ reaping /\ chldAction = "default" /\ Held

\* Whose stop is it?  The fault ends the call; a crash or another signal of the
\* target fails it; the fork event and the child's own SIGCHLD are passed over.
CallStopped(reaping) ==
  /\ call.at = "stopped"
  /\ LET s == call.status
         over == s = "fork" \/ OwnChild(s, reaping) IN
     \/ s = "fault" /\ CallGoto(IF Held THEN "finish" ELSE "fail")
     \/ s \in Core /\ CallGoto("fail")
     \/ /\ s \notin Core \cup {"fault"} /\ ~over
        /\ call' = [call EXCEPT !.at = "fail", !.sig = s]
     \/ over /\ Held /\ call' = [call EXCEPT !.at = "resume", !.forked = @ \/ s = "fork"]
     \/ over /\ ~Held /\ CallGoto("fail")
  /\ UNCHANGED <<target, image, haltPend, swallowed>>

\* A stop that is read and not looked at, if something is lost with it.
Consumed(s) == IF s \in Signals \cup {"fork"} THEN s ELSE swallowed

\* The deadline of the whole call is looked at before the stop that has just been
\* read; pt_stop_if_running waits in vain for a leader that is already stopped.
CallExpires ==
  /\ call.at = "stopped" /\ Held
  /\ CallGoto("fail") /\ haltPend' = TRUE /\ swallowed' = Consumed(call.status)
  /\ UNCHANGED <<target, image>>

\* pt_stop_if_running: PTRACE_INTERRUPT is refused after PTRACE_ATTACH, so SIGSTOP.
CallHalt ==
  /\ call.at = "halt"
  /\ IF task[Leader] = "gone" THEN CallGoto("fail") /\ UNCHANGED haltPend
     ELSE CallGoto("haltWait") /\ haltPend' = TRUE
  /\ UNCHANGED <<target, image>>

\* Its pt_wait takes whatever stop comes first and does not look at it.
CallHaltWait ==
  /\ call.at = "haltWait" /\ CallGoto("fail")
  /\ \/ Held /\ swallowed' = Consumed(trap[Leader]) /\ UNCHANGED <<target, wedged>>
     \/ CanReap(Leader) /\ SysReap(Leader) /\ UNCHANGED <<swallowed, wedged>>
     \/ /\ ~Held /\ ~CanReap(Leader) /\ (task[Leader] # "run" \/ ~haltPend)
        /\ wedged' = TRUE /\ UNCHANGED <<target, swallowed>>
  /\ UNCHANGED image

\* Mutant of CallFail: the stack word is restored, the red zone is not.
CallFailRedZone ==
  /\ call.at = "fail"
  /\ call' = [call EXCEPT !.at = "done", !.result = "failed"]
  /\ image' = IF Held THEN [image EXCEPT !.dirty = @ \ (call.saved \ {"red"})] ELSE image
  /\ UNCHANGED target

\* fail(): put back what was saved, if the leader is in a stop.
CallFail ==
  /\ call.at = "fail"
  /\ call' = [call EXCEPT !.at = "done", !.result = "failed"]
  /\ image' = IF Held THEN [image EXCEPT !.dirty = @ \ call.saved] ELSE image
  /\ UNCHANGED target

\* The call has returned: read the result, then put everything back.
CallFinish ==
  /\ call.at = "finish"
  /\ call' = [call EXCEPT !.at = "done", !.result = IF Held THEN image.ret ELSE "failed"]
  /\ image' = IF Held THEN [image EXCEPT !.dirty = @ \ call.saved] ELSE image
  /\ UNCHANGED target

CallStep(reaping) ==
  /\ \/ (CallSave \/ CallEnter \/ CallResume \/ CallWait \/ CallFail \/ CallFinish)
        /\ UNCHANGED <<haltPend, swallowed, wedged>>
     \/ (CallStopped(reaping) \/ CallExpires) /\ UNCHANGED wedged
     \/ CallHalt /\ UNCHANGED <<swallowed, wedged>>
     \/ CallHaltWait /\ UNCHANGED haltPend
  /\ UNCHANGED <<child, sysCore, chldAction>>

-----------------------------------------------------------------------------
(* What the callers of pt_call do about its outcome                        *)

\* pt_setregs with the registers of the application.
PutBack == IF Held THEN [image EXCEPT !.where = "app", !.ret = "none", !.dirty = @ \ {"regs"}] ELSE image

\* probe_crash_stop: a stop nobody has read yet, or one whose siginfo says kill.
Probe == IF Held /\ trap[Leader] \in Core /\ (wedged \/ trap[Leader] \notin Foreign)
         THEN trap[Leader] ELSE "none"
Intercepted == IF call.sig # "none" THEN call.sig ELSE Probe
=============================================================================
