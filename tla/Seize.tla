------------------------------- MODULE Seize --------------------------------
(***************************************************************************)
(* The target and the kernel as monitor mode of src/src/core.cc uses them: *)
(* threads traced with PTRACE_SEIZE; TRACEEXIT, TRACECLONE, TRACEEXEC set.  *)
(* Nothing of this module is Arthur's code (Ptrace is the same for         *)
(* PTRACE_ATTACH).                                                         *)
(*                                                                         *)
(* A traced thread stops to report a signal, a clone, its exit, a          *)
(* group-stop or the interrupt of its tracer.  The report is fresh until   *)
(* waitpid takes it, and is lost when the thread is resumed before that.   *)
(* A new thread of a traced one is traced from birth, already stopped.     *)
(* exec kills the other threads, waits until the kernel and their tracer   *)
(* have released them, and gives the caller the leader's identity.         *)
(***************************************************************************)
EXTENDS Integers, FiniteSets

CONSTANTS MaxTid,     \* tasks the target may create in its life
          StartTids,  \* threads it has when Arthur starts
          Procs,      \* tasks that, once created, are processes of their own
          Ordinary,   \* signals with a handler, or that do not dump core
          Fatal,      \* core-dumping signals with their default disposition
          JobControl, \* subset of {"STOP", "CONT"} the environment may send
          MaxExits,   \* bound on threads that exit by themselves
          MaxSleeps,  \* bound on entries into uninterruptible sleep
          MaxExecs,   \* bound on calls of exec
          MayKill     \* whether the target may be killed

ASSUME ThreadAssumption ==
  /\ MaxTid \in Nat /\ StartTids \in 1 .. MaxTid
  /\ Procs \subseteq (StartTids + 1) .. MaxTid
  /\ MaxExits \in Nat /\ MaxSleeps \in Nat /\ MaxExecs \in Nat /\ MayKill \in BOOLEAN
ASSUME SignalAssumption ==
  /\ JobControl \subseteq {"STOP", "CONT"} /\ Ordinary \cap Fatal = {}
  /\ (Ordinary \cup Fatal) \cap {"STOP", "CONT", "CHLD", "none", "intr", "group",
                                 "clone", "exit", "exec"} = {}

Tids == 1 .. MaxTid
Threads == Tids \ Procs
Leader == 1
Sent == Ordinary \cup Fatal \cup JobControl
Signals == Sent \cup {"CHLD"}   \* CHLD: the death of Arthur's snapshot child

VARIABLES task,      \* none (not created), run, sleep, exec (waiting in it), dying,
                     \* zombie, gone
          traced,    \* the tasks Arthur traces
          stop,      \* the ptrace-stop a task is in
          fresh,     \* the tasks whose stop waitpid has not returned yet
          listening, \* the group-stopped tasks put to PTRACE_LISTEN
          intr,      \* PTRACE_INTERRUPT pending
          notify,    \* the SIGCONT notification pending
          child,     \* the task a clone event reports; at an exec the caller's old tid
          aim,       \* signal -> the thread it is aimed at
          fate,      \* signal -> what became of it
          jobStop,   \* the process is group-stopped
          chld,      \* SIGCHLD pending for Arthur
          quota      \* exits and sleeps left

kernel == <<task, traced, stop, fresh, listening, intr, notify, child, aim, fate,
            jobStop, chld, quota>>

Fates == {"unsent", "pending", "trapped", "delivered", "twice", "discarded", "expired"}
Tasks == {"none", "run", "sleep", "exec", "dying", "zombie", "gone"}
Stops == {"none", "intr", "group", "clone", "exit", "exec"} \cup Signals

\* A dying thread does nothing more than stop at its exit.
Alive(t) == task[t] \in {"run", "sleep", "exec"}
Stopped(t) == stop[t] # "none"
\* ptrace refuses a thread that took another's identity until waitpid tells.
Renamed(t) == stop[t] = "exec" /\ t \in fresh /\ child[t] # t
Answers(t) == Stopped(t) /\ ~Renamed(t)
\* The thread executes instructions or handles what is pending.
Runs(t) == task[t] = "run" /\ ~Stopped(t) /\ t \notin listening /\ ~jobStop
\* /proc/<pid>/task
Listed == {t \in Threads : task[t] \notin {"none", "gone"}}
AliveThreads == {t \in Threads : Alive(t)}

KernelInit ==
  /\ task = [t \in Tids |-> IF t <= StartTids THEN "run" ELSE "none"]
  /\ traced = {} /\ stop = [t \in Tids |-> "none"] /\ fresh = {}
  /\ listening = {} /\ intr = {} /\ notify = {} /\ child = [t \in Tids |-> 0]
  /\ aim \in [Ordinary \cup Fatal -> {t \in Threads : t <= StartTids}]
  /\ fate = [s \in Signals |-> "unsent"]
  /\ jobStop = FALSE /\ chld = FALSE
  /\ quota = [exits |-> MaxExits, sleeps |-> MaxSleeps, execs |-> MaxExecs]

-----------------------------------------------------------------------------
(* Stops                                                                   *)

\* t stops for reason why: any stop takes a pending interrupt with it.
EnterStop(t, why) ==
  /\ stop' = [stop EXCEPT ![t] = why] /\ fresh' = fresh \cup {t}
  /\ intr' = intr \ {t} /\ chld' = TRUE

AimedAt(s, t) == IF s \in Ordinary \cup Fatal THEN aim[s] = t ELSE TRUE

\* What is left of the process when a signal has killed it.
Dead(f) == [t \in Tids |->
  IF t \in Threads /\ (Alive(t) \/ task[t] = "dying") THEN "zombie" ELSE f[t]]
NotIn(S) == [t \in Tids |-> IF t \in S THEN "none" ELSE stop[t]]

Send(s) ==
  /\ s \in Sent /\ fate[s] = "unsent" /\ AliveThreads # {}
  /\ \E t \in AliveThreads : AimedAt(s, t)
  /\ IF s = "CONT"
     THEN /\ jobStop' = FALSE /\ notify' = notify \cup {t \in traced : Alive(t)}
          /\ fate' = [x \in Signals |->
               CASE x = "CONT" -> "pending"
                 [] x = "STOP" /\ fate[x] = "pending" -> "expired"
                 [] OTHER -> fate[x]]
     ELSE /\ fate' = [x \in Signals |->
               CASE x = s -> "pending"
                 [] s = "STOP" /\ x = "CONT" /\ fate[x] = "pending" -> "expired"
                 [] OTHER -> fate[x]]
          /\ UNCHANGED <<jobStop, notify>>
  /\ UNCHANGED <<task, traced, stop, fresh, listening, intr, child, aim, chld, quota>>

\* A thread dequeues a signal; only a traced one reports it before it acts.
Dequeue(t, s) ==
  /\ t \in Threads /\ Runs(t) /\ fate[s] = "pending" /\ AimedAt(s, t)
  /\ IF t \in traced
     THEN EnterStop(t, s) /\ fate' = [fate EXCEPT ![s] = "trapped"] /\ UNCHANGED <<task, jobStop>>
     ELSE /\ fate' = [fate EXCEPT ![s] = "delivered"]
          /\ jobStop' = (s = "STOP")
          /\ task' = IF s \in Fatal THEN Dead(task) ELSE task
          /\ chld' = (chld \/ (s \in Fatal /\ traced # {}))
          /\ stop' = IF s \in Fatal THEN NotIn(Threads) ELSE stop
          /\ fresh' = IF s \in Fatal THEN fresh \ Threads ELSE fresh
          /\ UNCHANGED intr
  /\ UNCHANGED <<traced, listening, notify, child, aim, quota>>

\* The interrupt, the end of a group-stop and the group-stop are trapped alike.
Trap(t) ==
  /\ t \in Threads \cap traced /\ task[t] = "run" /\ ~Stopped(t)
  /\ t \in intr \cup notify \/ (jobStop /\ t \notin listening)
  /\ EnterStop(t, IF jobStop THEN "group" ELSE "intr")
  /\ notify' = notify \ {t} /\ listening' = listening \ {t}
  /\ UNCHANGED <<task, traced, child, aim, fate, jobStop, quota>>

Clone(t) ==
  /\ t \in Threads /\ Runs(t)
  /\ \E n \in Tids :
       /\ task[n] = "none" /\ \A m \in Tids : m < n => task[m] # "none"
       /\ task' = [task EXCEPT ![n] = "run"]
       /\ IF t \in traced
          THEN /\ stop' = [stop EXCEPT ![t] = "clone", ![n] = "intr"]
               /\ fresh' = fresh \cup {t, n} /\ traced' = traced \cup {n}
               /\ intr' = intr \ {t} /\ chld' = TRUE /\ child' = [child EXCEPT ![t] = n]
          ELSE UNCHANGED <<stop, fresh, traced, intr, chld, child>>
  /\ UNCHANGED <<listening, notify, aim, fate, jobStop, quota>>

Exit(t) ==
  /\ t \in Threads /\ Runs(t) /\ quota.exits > 0
  /\ quota' = [quota EXCEPT !.exits = @ - 1]
  /\ IF t \in traced THEN EnterStop(t, "exit") /\ UNCHANGED task
     ELSE task' = [task EXCEPT ![t] = "zombie"] /\ UNCHANGED <<stop, fresh, intr, chld>>
  /\ UNCHANGED <<traced, listening, notify, child, aim, fate, jobStop>>

\* The kernel releases an untraced dead thread, the last one also its leader.
Release(t) ==
  /\ t \in Threads /\ task[t] = "zombie" /\ t \notin traced
  /\ t = Leader => Listed = {Leader}
  /\ task' = [task EXCEPT ![t] = "gone"] /\ chld' = (chld \/ traced # {})
  /\ UNCHANGED <<traced, stop, fresh, listening, intr, notify, child, aim, fate, jobStop, quota>>

NoExecYet == quota.execs = MaxExecs
ExecUnderWay == \E t \in Threads : task[t] = "exec"

\* exec kills the siblings, and what was sent to them is lost.
Exec(t) ==
  /\ t \in Threads /\ Runs(t) /\ quota.execs > 0
  /\ quota' = [quota EXCEPT !.execs = @ - 1]
  /\ LET siblings == AliveThreads \ {t}
         stopping == {u \in siblings : u \in traced /\ stop[u] # "exit"} IN
     /\ task' = [u \in Tids |-> IF u = t THEN "exec" ELSE IF u \in stopping THEN "dying"
                                ELSE IF u \in siblings THEN "zombie" ELSE task[u]]
     /\ stop' = NotIn(siblings) /\ fresh' = fresh \ siblings
     /\ listening' = listening \ siblings /\ notify' = notify \ siblings
  /\ fate' = [s \in Signals |-> IF fate[s] = "pending" /\ ~AimedAt(s, t) THEN "expired" ELSE fate[s]]
  /\ UNCHANGED <<traced, intr, child, aim, jobStop, chld>>

Die(t) ==
  /\ task[t] = "dying" /\ stop[t] = "none" /\ EnterStop(t, "exit")
  /\ UNCHANGED <<task, traced, listening, notify, child, aim, fate, jobStop, quota>>

\* The caller of exec takes the leader's identity; its own tid is gone without
\* a word.
ExecDone(t) ==
  /\ task[t] = "exec"
  /\ \A u \in Threads \ {t} : task[u] \in {"none", "gone"} \/ (u = Leader /\ task[u] = "zombie")
  /\ task' = [task EXCEPT ![t] = "gone", ![Leader] = "run"]
  /\ aim' = [s \in DOMAIN aim |-> IF aim[s] = t THEN Leader ELSE aim[s]]
  /\ notify' = {u \in notify : u # t} \cup (IF t \in notify THEN {Leader} ELSE {})
  /\ IF t \in traced
     THEN /\ traced' = (traced \ {t}) \cup {Leader} /\ stop' = [stop EXCEPT ![Leader] = "exec"]
          /\ child' = [child EXCEPT ![Leader] = t]
          /\ fresh' = fresh \cup {Leader} /\ intr' = intr \ {t, Leader} /\ chld' = TRUE
     ELSE /\ traced' = traced \ {Leader} /\ chld' = (chld \/ traced # {})
          /\ UNCHANGED <<stop, fresh, intr, child>>
  /\ UNCHANGED <<listening, fate, jobStop, quota>>

Sleep(t) ==
  /\ t \in Threads /\ Runs(t) /\ quota.sleeps > 0
  /\ quota' = [quota EXCEPT !.sleeps = @ - 1] /\ task' = [task EXCEPT ![t] = "sleep"]
  /\ UNCHANGED <<traced, stop, fresh, listening, intr, notify, child, aim, fate, jobStop, chld>>

Wake(t) ==
  /\ task[t] = "sleep" /\ task' = [task EXCEPT ![t] = "run"]
  /\ UNCHANGED <<traced, stop, fresh, listening, intr, notify, child, aim, fate, jobStop, chld, quota>>

Kill ==
  /\ MayKill /\ AliveThreads # {}
  /\ task' = Dead(task) /\ stop' = NotIn(Threads) /\ fresh' = fresh \ Threads
  /\ listening' = {} /\ jobStop' = FALSE /\ chld' = (chld \/ traced # {})
  /\ UNCHANGED <<traced, intr, notify, child, aim, fate, quota>>

\* What a thread does once something is pending for it.
React(t) == Trap(t) \/ Die(t) \/ ExecDone(t) \/ \E s \in Signals : Dequeue(t, s)

Target ==
  \/ \E s \in Sent : Send(s)
  \/ \E t \in Threads : React(t) \/ Clone(t) \/ Exit(t) \/ Exec(t) \/ Release(t) \/ Sleep(t) \/ Wake(t)
  \/ Kill

-----------------------------------------------------------------------------
(* System calls.  Each leaves the variables it does not name unchanged.    *)

\* waitpid: the stop or the death of a traced task; the leader dies last.
Reapable(t) == task[t] = "zombie" /\ t \in traced /\ (t = Leader => Listed = {Leader})
Waitable(t) == t \in fresh \/ Reapable(t)

WaitStop(t) ==
  /\ t \in fresh /\ fresh' = fresh \ {t}
  /\ UNCHANGED <<task, traced, stop, listening, intr, notify, child, aim, fate, jobStop, chld, quota>>
WaitExit(t) ==
  /\ Reapable(t) /\ task' = [task EXCEPT ![t] = "gone"] /\ traced' = traced \ {t}
  /\ chld' = (chld \/ \E u \in traced : u # t)
  /\ UNCHANGED <<stop, fresh, listening, intr, notify, child, aim, fate, jobStop, quota>>

\* PTRACE_CONT (detach = FALSE) or PTRACE_DETACH of the stopped tasks ts, each
\* with the signal f gives it.  A signal takes effect only in place of the
\* signal that stopped the task.
ContinueThose(ts, f, detach) ==
  LET given == {f[t] : t \in {u \in ts : stop[u] \in Signals}} \ {"none"}
      lost  == ({stop[t] : t \in ts} \cap Signals) \ given
      dies  == given \cap Fatal # {} IN
  /\ fate' = [s \in Signals |->
                IF s \in given
                THEN IF fate[s] = "delivered" /\ s # "CHLD" THEN "twice" ELSE "delivered"
                ELSE IF s \in lost THEN "discarded" ELSE fate[s]]
  /\ jobStop' = \/ "STOP" \in given
                \/ jobStop /\ (detach \/ \A t \in ts : stop[t] # "group")
  /\ task' = IF dies THEN Dead(task)
             ELSE [t \in Tids |-> IF t \in ts /\ stop[t] = "exit" THEN "zombie" ELSE task[t]]
  /\ stop' = IF dies THEN NotIn(ts \cup Threads) ELSE NotIn(ts)
  /\ fresh' = IF dies THEN fresh \ (ts \cup Threads) ELSE fresh \ ts
  /\ traced' = IF detach THEN traced \ ts ELSE traced
  /\ chld' = (chld \/ task' # task)
  /\ UNCHANGED <<listening, intr, notify, child, aim, quota>>

\* The same of every task in the domain of f that answers.
Continue(f, detach) == ContinueThose({t \in DOMAIN f : Answers(t)}, f, detach)

Just(t, sig) == [u \in {t} |-> sig]
\* waitpid has just returned the stop of t.
DetachWaited(t, sig) == ContinueThose({t}, Just(t, sig), TRUE)

\* After a clone event: let the parent go on, and the new task with it, or give
\* the new task back to itself.
AfterClone(t, release, resume) ==
  LET c == child[t]
      go == (IF resume THEN {t, c} ELSE {}) \cup (IF release THEN {c} ELSE {}) IN
  /\ stop' = NotIn(go) /\ fresh' = fresh \ {t, c}
  /\ traced' = IF release THEN traced \ {c} ELSE traced
  /\ UNCHANGED <<task, listening, intr, notify, child, aim, fate, jobStop, chld, quota>>

\* PTRACE_LISTEN keeps a reported group-stop.
Listen(t) ==
  /\ stop' = [stop EXCEPT ![t] = "none"] /\ listening' = listening \cup {t}
  /\ fresh' = fresh \ {t}
  /\ UNCHANGED <<task, traced, intr, notify, child, aim, fate, jobStop, chld, quota>>

\* A thread that is dead but not yet waited for can still be interrupted.
Interrupt(t) ==
  /\ t \in traced /\ intr' = intr \cup {t}
  /\ UNCHANGED <<task, traced, stop, fresh, listening, notify, child, aim, fate, jobStop, chld, quota>>

\* PTRACE_SEIZE waits for an exec under way (cred_guard_mutex).
SeizeAll(S) ==
  /\ S # {} => ~ExecUnderWay
  /\ traced' = traced \cup {t \in S : Alive(t)}
  /\ UNCHANGED <<task, stop, fresh, listening, intr, notify, child, aim, fate, jobStop, chld, quota>>

\* The leader runs an injected call with signal 0 until it stops at sig, or at
\* the end of the call.
RunInjected(sig) ==
  /\ Stopped(Leader)
  /\ stop' = [stop EXCEPT ![Leader] = IF sig = "none" THEN "intr" ELSE sig]
  /\ fresh' = fresh \ {Leader} /\ intr' = intr \ {Leader} /\ notify' = notify \ {Leader}
  /\ fate' = [s \in Signals |-> IF s = sig THEN "trapped"
                                ELSE IF s = stop[Leader] THEN "discarded" ELSE fate[s]]
  /\ UNCHANGED <<task, traced, listening, child, aim, jobStop, chld, quota>>
PendingFor(t) == {s \in Signals : fate[s] = "pending" /\ AimedAt(s, t)}

\* The snapshot child dies: its parent, the target, is told.
ChildDies ==
  /\ fate' = [fate EXCEPT !["CHLD"] = IF AliveThreads # {} THEN "pending" ELSE @]
  /\ UNCHANGED <<task, traced, stop, fresh, listening, intr, notify, child, aim, jobStop, chld, quota>>

TakeChld ==
  /\ chld /\ chld' = FALSE
  /\ UNCHANGED <<task, traced, stop, fresh, listening, intr, notify, child, aim, fate, jobStop, quota>>
=============================================================================
