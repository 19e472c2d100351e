------------------------------- MODULE Ptrace -------------------------------
(***************************************************************************)
(* The target process and the kernel, as src/src/core.cc uses them through *)
(* ptrace(2), waitpid(2), kill(2) and /proc/<pid>/task.  Nothing of this   *)
(* module is Arthur's code.                                                *)
(*                                                                         *)
(* Threads are numbered in creation order, which is the order in which the *)
(* kernel lists them; thread 1 is the leader.  A signal is sent at most    *)
(* once and its fate is followed: an ordinary signal is aimed at one       *)
(* thread, STOP and CONT are job control and aimed at the process.  A      *)
(* group-stop is a flag of the process that halts every thread that is     *)
(* neither trapped nor in an uninterruptible sleep.                        *)
(***************************************************************************)
EXTENDS Integers, FiniteSets

CONSTANTS MaxTid,     \* threads the target may have in its life
          StartTids,  \* threads it has when Arthur starts
          Ordinary,   \* ordinary signals
          JobControl, \* subset of {"STOP", "CONT"} the environment may send
          MaxSleeps,  \* bound on entries into uninterruptible sleep
          MayKill     \* whether the target may be killed

ASSUME ThreadAssumption == /\ MaxTid \in Nat /\ StartTids \in 1 .. MaxTid
                           /\ MaxSleeps \in Nat /\ MayKill \in BOOLEAN
ASSUME SignalAssumption ==
  /\ JobControl \subseteq {"STOP", "CONT"}
  /\ Ordinary \cap {"STOP", "CONT", "none", "attach", "group", "halt"} = {}

Tids == 1 .. MaxTid
Leader == 1
Signals == Ordinary \cup JobControl

VARIABLES task,     \* thread -> none (not created), run, sleep, zombie, gone
          traced,   \* the threads Arthur traces
          stopPend, \* the threads with the SIGSTOP of PTRACE_ATTACH pending
          trap,     \* thread -> the ptrace-stop it is in
          aim,      \* ordinary signal -> the thread it is aimed at
          fate,     \* signal -> what became of it
          jobStop,  \* the process is group-stopped
          sleeps    \* uninterruptible sleeps so far

target == <<task, traced, stopPend, trap, aim, fate, jobStop, sleeps>>

Fates == {"unsent", "pending", "trapped", "delivered", "twice", "discarded", "expired"}
Traps == {"none", "attach", "group"} \cup Signals

\* Stops that are a SIGSTOP; those of Arthur are attach and halt.
Stops == {"STOP", "attach", "halt"}

Alive(t) == task[t] \in {"run", "sleep"}
Trapped(t) == trap[t] # "none"
\* The thread executes instructions, or handles what is pending.
Active(t) == task[t] = "run" /\ ~Trapped(t) /\ ~jobStop
Listed == {t \in Tids : task[t] \in {"run", "sleep", "zombie"}}

TargetInit ==
  /\ task = [t \in Tids |-> IF t <= StartTids THEN "run" ELSE "none"]
  /\ traced = {} /\ stopPend = {}
  /\ trap = [t \in Tids |-> "none"]
  /\ aim = [s \in Ordinary |-> Leader]
  /\ fate = [s \in Signals |-> "unsent"]
  /\ jobStop = FALSE /\ sleeps = 0

-----------------------------------------------------------------------------
(* What happens to a signal                                                *)

\* A signal reaches its handler; the default action of SIGSTOP is group-stop.
Deliver(s) ==
  /\ fate' = [fate EXCEPT ![s] = IF @ = "delivered" THEN "twice" ELSE "delivered"]
  /\ jobStop' = (jobStop \/ s = "STOP")

AimedAt(s, t) == IF s \in Ordinary THEN aim[s] = t ELSE TRUE

Send(s) ==
  /\ fate[s] = "unsent" /\ \E t \in Tids : Alive(t)
  /\ s = "CONT" => jobStop \/ stopPend # {} \* otherwise it is one more ordinary signal
  /\ IF s = "CONT"
     THEN \* generating SIGCONT ends a group-stop and flushes every pending SIGSTOP
          /\ jobStop' = FALSE /\ stopPend' = {}
          /\ fate' = [x \in Signals |->
               IF x = "CONT" THEN "pending"
               ELSE IF x = "STOP" /\ fate[x] = "pending" THEN "expired" ELSE fate[x]]
     ELSE /\ fate' = [x \in Signals |->
               IF x = s THEN "pending"
               ELSE IF s = "STOP" /\ x = "CONT" /\ fate[x] = "pending" THEN "expired"
               ELSE fate[x]]
          /\ UNCHANGED <<jobStop, stopPend>>
  /\ IF s \in Ordinary THEN \E t \in Tids : Alive(t) /\ aim' = [aim EXCEPT ![s] = t]
     ELSE UNCHANGED aim
  /\ UNCHANGED <<task, traced, trap, sleeps>>

\* A thread meets a signal on its way to user mode: a traced one reports it.
Meet(t, s) ==
  /\ fate[s] = "pending" /\ AimedAt(s, t)
  /\ IF t \in traced
     THEN /\ trap' = [trap EXCEPT ![t] = s] /\ fate' = [fate EXCEPT ![s] = "trapped"]
          /\ UNCHANGED jobStop
     ELSE Deliver(s) /\ UNCHANGED trap
  /\ UNCHANGED <<task, traced, stopPend, aim, sleeps>>

\* A thread meets the SIGSTOP of PTRACE_ATTACH.  If Arthur has let the
\* thread go in the meantime it stops the whole process.
MeetStop(t) ==
  /\ t \in stopPend
  /\ stopPend' = stopPend \ {t}
  /\ IF t \in traced THEN trap' = [trap EXCEPT ![t] = "attach"] /\ UNCHANGED jobStop
     ELSE jobStop' = TRUE /\ UNCHANGED trap
  /\ UNCHANGED <<task, traced, aim, fate, sleeps>>

Dequeue(t, s) == Active(t) /\ Meet(t, s)
TakeStop(t) == Active(t) /\ MeetStop(t)

\* A traced thread of a group-stopped process reports the group-stop.
GroupTrap(t) ==
  /\ task[t] = "run" /\ ~Trapped(t) /\ jobStop /\ t \in traced
  /\ trap' = [trap EXCEPT ![t] = "group"]
  /\ UNCHANGED <<task, traced, stopPend, aim, fate, jobStop, sleeps>>

-----------------------------------------------------------------------------
(* What the target does                                                    *)

Clone(t) ==
  /\ Active(t)
  /\ \E n \in Tids : /\ task[n] = "none" /\ \A m \in Tids : m < n => task[m] # "none"
                     /\ task' = [task EXCEPT ![n] = "run"]
  /\ UNCHANGED <<traced, stopPend, trap, aim, fate, jobStop, sleeps>>

Expire(dying) ==
  [s \in Signals |->
     IF /\ fate[s] \in {"pending", "trapped"}
        /\ IF s \in Ordinary THEN aim[s] \in dying ELSE ~ \E t \in Tids \ dying : Alive(t)
     THEN "expired" ELSE fate[s]]

\* The leader stays a zombie, another thread only until it is released.
Exit(t) ==
  /\ Active(t)
  /\ task' = [task EXCEPT ![t] = "zombie"]
  /\ stopPend' = stopPend \ {t} /\ fate' = Expire({t})
  /\ UNCHANGED <<traced, trap, aim, jobStop, sleeps>>

\* The kernel releases an untraced dead thread; the target's parent reaps an
\* untraced leader when it is the last.
Release(t) ==
  /\ task[t] = "zombie" /\ t \notin traced
  /\ t = Leader => Listed = {Leader}
  /\ task' = [task EXCEPT ![t] = "gone"]
  /\ UNCHANGED <<traced, stopPend, trap, aim, fate, jobStop, sleeps>>

Sleep(t) ==
  /\ Active(t) /\ sleeps < MaxSleeps
  /\ task' = [task EXCEPT ![t] = "sleep"] /\ sleeps' = sleeps + 1
  /\ UNCHANGED <<traced, stopPend, trap, aim, fate, jobStop>>

Wake(t) ==
  /\ task[t] = "sleep"
  /\ task' = [task EXCEPT ![t] = "run"]
  /\ UNCHANGED <<traced, stopPend, trap, aim, fate, jobStop, sleeps>>

Kill ==
  /\ MayKill /\ \E t \in Tids : Alive(t)
  /\ task' = [t \in Tids |-> IF Alive(t) THEN "zombie" ELSE task[t]]
  /\ trap' = [t \in Tids |-> "none"] /\ stopPend' = {}
  /\ fate' = Expire(Tids) /\ jobStop' = FALSE
  /\ UNCHANGED <<traced, aim, sleeps>>

\* What a thread does of itself once something is pending for it.
React(t) == \/ TakeStop(t) \/ GroupTrap(t) \/ \E s \in Signals : Dequeue(t, s)

Target ==
  \/ \E s \in Signals : Send(s)
  \/ \E t \in Tids : React(t) \/ Clone(t) \/ Exit(t) \/ Release(t) \/ Sleep(t) \/ Wake(t)
  \/ Kill

-----------------------------------------------------------------------------
(* System calls                                                            *)

\* PTRACE_ATTACH, when it succeeds: SIGSTOP removes a pending SIGCONT.
CanAttach(t) == Alive(t) /\ t \notin traced
SysAttach(t) ==
  /\ traced' = traced \cup {t} /\ stopPend' = stopPend \cup {t}
  /\ fate' = [s \in Signals |->
                IF s = "CONT" /\ fate[s] = "pending" THEN "expired" ELSE fate[s]]
  /\ UNCHANGED <<task, trap, aim, jobStop, sleeps>>

\* waitpid reaps a traced thread that has exited; the leader only as the last.
CanReap(t) == task[t] = "zombie" /\ t \in traced /\ (t = Leader => Listed = {Leader})
SysReap(t) ==
  /\ task' = [task EXCEPT ![t] = "gone"] /\ traced' = traced \ {t}
  /\ UNCHANGED <<stopPend, trap, aim, fate, jobStop, sleeps>>

\* PTRACE_DETACH(sig) of a thread in a ptrace-stop.
SysDetach(t, sig) ==
  /\ traced' = traced \ {t} /\ trap' = [trap EXCEPT ![t] = "none"]
  /\ fate' = [s \in Signals |->
                IF s = sig /\ trap[t] # "group"
                THEN IF fate[s] = "delivered" THEN "twice" ELSE "delivered"
                ELSE IF s = trap[t] /\ s # sig THEN "discarded" ELSE fate[s]]
  /\ jobStop' = (jobStop \/ (sig \in Stops /\ trap[t] # "group"))
  /\ UNCHANGED <<task, stopPend, aim, sleeps>>

\* kill(SIGCONT) from Arthur: only its effect on stops matters here.
SysCont ==
  /\ jobStop' = FALSE /\ stopPend' = {}
  /\ fate' = [s \in Signals |->
                IF s = "STOP" /\ fate[s] = "pending" THEN "expired" ELSE fate[s]]
  /\ UNCHANGED <<task, traced, trap, aim, sleeps>>

\* Arthur exits: the kernel detaches what is still traced, and a thread in a
\* ptrace-stop goes on with the signal that stopped it.
SysTracerExit ==
  /\ traced' = {} /\ trap' = [t \in Tids |-> "none"]
  /\ fate' = [s \in Signals |-> IF \E t \in Tids : trap[t] = s THEN "delivered" ELSE fate[s]]
  /\ jobStop' = (jobStop \/ \E t \in Tids : trap[t] \in Stops)
  /\ UNCHANGED <<task, stopPend, aim, sleeps>>
=============================================================================
