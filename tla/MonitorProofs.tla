----------------------------- MODULE MonitorProofs -----------------------------
(***************************************************************************)
(* Type correctness of monitor mode, for any number of threads, signals,   *)
(* snapshots, exits and execs.                                             *)
(*                                                                         *)
(* First what the kernel keeps true of the threads of the target, whatever *)
(* they do and in whatever order Arthur makes its system calls.  KernelOK  *)
(* is inductive: the types, that only a traced thread that runs or is about*)
(* to die is in a ptrace-stop, that only a stop can be unread, and that a  *)
(* clone event names a new task, which nothing kills before the thread that*)
(* made it.                                                                *)
(*                                                                         *)
(* TypeOK is not inductive: that the unread stops are of traced threads is *)
(* KernelOK; that the rounds of the two loops stay in their range needs    *)
(* that one is left when a round begins (RoundsLeft); that a new thread is *)
(* named needs that Arthur still has the clone event it is about to handle *)
(* (EventsNamed).                                                          *)
(***************************************************************************)
EXTENDS Monitor, WellFoundedInduction, TLAPS

-----------------------------------------------------------------------------
(* The kernel                                                              *)

KernelOK ==
  /\ task \in [Tids -> Tasks] /\ stop \in [Tids -> Stops] /\ fate \in [Signals -> Fates]
  /\ child \in [Tids -> Tids \cup {0}] /\ jobStop \in BOOLEAN /\ chld \in BOOLEAN
  /\ traced \subseteq Tids /\ fresh \subseteq Tids /\ listening \subseteq Tids
  /\ intr \subseteq Tids /\ notify \subseteq Tids
  /\ aim \in [Ordinary \cup Fatal -> Threads]
  /\ quota \in [exits : 0 .. MaxExits, sleeps : 0 .. MaxSleeps, execs : 0 .. MaxExecs]
  /\ \A t \in Tids :
       /\ t \in fresh => Stopped(t)
       /\ Stopped(t) => t \in traced /\ task[t] \in {"run", "dying"}
       /\ task[t] = "dying" => t \in Threads \cap traced /\ (Stopped(t) => stop[t] = "exit")
       /\ stop[t] = "clone" => t \in Threads /\ child[t] \in Tids /\ task[child[t]] # "dying"

LEMMA LeaderIsThread == Leader \in Threads /\ Threads \subseteq Tids
  BY ThreadAssumption DEF Leader, Threads, Tids

LEMMA SignalFacts ==
  /\ \A s \in Signals : s \in Stops /\ s \notin {"none", "intr", "group", "clone", "exit", "exec"}
  /\ Fatal \subseteq Signals /\ Ordinary \subseteq Signals /\ "CHLD" \in Signals
  /\ "CHLD" \notin Sent /\ "STOP" \notin Fatal /\ "CHLD" \notin Fatal /\ "CONT" \notin Fatal
  BY SignalAssumption DEF Signals, Sent, Stops

LEMMA KernelStart == KernelInit => KernelOK
<1> SUFFICES ASSUME KernelInit PROVE KernelOK
    OBVIOUS
<1>1. jobStop \in BOOLEAN /\ chld \in BOOLEAN
  BY Zenon DEF KernelInit
<1>2. aim \in [Ordinary \cup Fatal -> Threads]
  BY DEF KernelInit
<1> QED BY <1>1, <1>2, ThreadAssumption
    DEF KernelInit, KernelOK, Tids, Tasks, Stops, Fates, Stopped

-----------------------------------------------------------------------------
(* The target                                                              *)

LEMMA KernelTarget == KernelOK /\ Target => KernelOK'
<1> SUFFICES ASSUME KernelOK, Target PROVE KernelOK'
    OBVIOUS
<1> USE LeaderIsThread DEF KernelOK, Tasks, Stops, Fates, Stopped
<1>1. ASSUME NEW s \in Sent, Send(s) PROVE KernelOK'
  <2>1. jobStop' \in BOOLEAN /\ chld' \in BOOLEAN
    BY <1>1, Zenon DEF Send
  <2>2. fate' \in [Signals -> Fates] /\ notify' \subseteq Tids
    BY <1>1 DEF Send
  <2> QED BY <1>1, <2>1, <2>2 DEF Send
<1>2. ASSUME NEW t \in Threads, NEW s \in Signals, Dequeue(t, s) PROVE KernelOK'
  <2>1. CASE t \in traced
    BY <1>2, <2>1, SignalFacts DEF Dequeue, EnterStop, Runs
  <2>2. CASE t \notin traced
    <3>1. jobStop' \in BOOLEAN /\ chld' \in BOOLEAN
      BY <1>2, <2>2, Zenon DEF Dequeue
    <3>2. CASE s \in Fatal
      BY <1>2, <2>2, <3>1, <3>2 DEF Dequeue, Dead, NotIn, Alive
    <3>3. CASE s \notin Fatal
      BY <1>2, <2>2, <3>1, <3>3 DEF Dequeue
    <3> QED BY <3>2, <3>3
  <2> QED BY <2>1, <2>2
<1>3. ASSUME NEW t \in Threads, Trap(t) PROVE KernelOK'
  <2>1. jobStop' \in BOOLEAN /\ chld' \in BOOLEAN
    BY <1>3, Zenon DEF Trap, EnterStop
  <2> QED BY <1>3, <2>1 DEF Trap, EnterStop
<1>4. ASSUME NEW t \in Threads, Die(t) PROVE KernelOK'
  BY <1>4 DEF Die, EnterStop
<1>5. ASSUME NEW t \in Threads, ExecDone(t) PROVE KernelOK'
  <2>1. chld' \in BOOLEAN
    BY <1>5, Zenon DEF ExecDone
  <2>2. aim' \in [Ordinary \cup Fatal -> Threads]
    BY <1>5 DEF ExecDone
  <2>3. CASE t \in traced
    BY <1>5, <2>1, <2>2, <2>3 DEF ExecDone
  <2>4. CASE t \notin traced
    BY <1>5, <2>1, <2>2, <2>4 DEF ExecDone
  <2> QED BY <2>3, <2>4
<1>6. ASSUME NEW t \in Threads, Clone(t) PROVE KernelOK'
  <2>1. PICK n \in Tids : /\ task[n] = "none" /\ task' = [task EXCEPT ![n] = "run"]
                          /\ IF t \in traced
                             THEN /\ stop' = [stop EXCEPT ![t] = "clone", ![n] = "intr"]
                                  /\ fresh' = fresh \cup {t, n} /\ traced' = traced \cup {n}
                                  /\ intr' = intr \ {t} /\ chld' = TRUE
                                  /\ child' = [child EXCEPT ![t] = n]
                             ELSE UNCHANGED <<stop, fresh, traced, intr, chld, child>>
    BY <1>6 DEF Clone
  <2>2. n # t /\ n # 0
    BY <1>6, <2>1, ThreadAssumption DEF Clone, Runs, Tids
  <2>3. chld' \in BOOLEAN
    BY <2>1, Zenon
  <2> QED BY <1>6, <2>1, <2>2, <2>3 DEF Clone, Runs
<1>7. ASSUME NEW t \in Threads, Exit(t) PROVE KernelOK'
  <2>1. chld' \in BOOLEAN /\ jobStop' \in BOOLEAN
    BY <1>7, Zenon DEF Exit, EnterStop
  <2>2. quota' \in [exits : 0 .. MaxExits, sleeps : 0 .. MaxSleeps, execs : 0 .. MaxExecs]
    BY <1>7, ThreadAssumption DEF Exit
  <2> QED BY <1>7, <2>1, <2>2 DEF Exit, Runs, EnterStop
<1>8. ASSUME NEW t \in Threads, Exec(t) PROVE KernelOK'
  BY <1>8, ThreadAssumption DEF Exec, Runs, Alive, AliveThreads, NotIn
<1>9. ASSUME NEW t \in Threads, Release(t) \/ Sleep(t) \/ Wake(t) PROVE KernelOK'
  <2>1. chld' \in BOOLEAN
    BY <1>9, Zenon DEF Release, Sleep, Wake
  <2> QED BY <1>9, <2>1, ThreadAssumption DEF Release, Sleep, Wake, Runs
<1>10. ASSUME Kill PROVE KernelOK'
  <2>1. chld' \in BOOLEAN /\ jobStop' \in BOOLEAN
    BY <1>10, Zenon DEF Kill
  <2> QED BY <1>10, <2>1 DEF Kill, Dead, NotIn, Alive
<1> QED BY <1>1, <1>2, <1>3, <1>4, <1>5, <1>6, <1>7, <1>8, <1>9, <1>10 DEF Target, React
\* A task that an event names is not forgotten.
LEMMA ChildKept ==
  ASSUME KernelOK, Target, NEW t \in Tids, child[t] \in Tids
  PROVE  child'[t] \in Tids
<1> USE LeaderIsThread DEF KernelOK
<1>1. ASSUME NEW u \in Threads, Clone(u) PROVE child'[t] \in Tids
  <2>1. PICK n \in Tids : child' = [child EXCEPT ![u] = n] \/ child' = child
    BY <1>1 DEF Clone
  <2> QED BY <2>1
<1>2. ASSUME NEW u \in Threads, ExecDone(u) PROVE child'[t] \in Tids
  <2>1. child' = [child EXCEPT ![Leader] = u] \/ child' = child
    BY <1>2 DEF ExecDone
  <2> QED BY <2>1
<1>3. CASE child' = child
  BY <1>3
<1>4. child' = child \/ \E u \in Threads : Clone(u) \/ ExecDone(u)
  <2>1. ASSUME NEW u \in Threads, NEW s \in Signals, Dequeue(u, s) PROVE child' = child
    BY <2>1 DEF Dequeue
  <2>2. ASSUME NEW u \in Threads, Trap(u) \/ Die(u) \/ Exit(u) \/ Exec(u) \/ Release(u)
                                  \/ Sleep(u) \/ Wake(u)
        PROVE  child' = child
    BY <2>2 DEF Trap, Die, Exit, Exec, Release, Sleep, Wake
  <2>3. ASSUME NEW s \in Sent, Send(s) PROVE child' = child
    BY <2>3 DEF Send
  <2>4. Kill => child' = child
    BY DEF Kill
  <2> QED BY <2>1, <2>2, <2>3, <2>4 DEF Target, React
<1> QED BY <1>1, <1>2, <1>3, <1>4

\* A leader that stands at a clone event stands there until it, and all others but
\* the caller of an exec, are killed.
ReportsClone == stop[Leader] = "clone" \/ task[Leader] = "dying" \/ AliveThreads = {}

LEMMA CloneEventKept == KernelOK /\ Target /\ ReportsClone => ReportsClone'
<1> SUFFICES ASSUME KernelOK, Target, ReportsClone PROVE ReportsClone'
    OBVIOUS
<1> USE LeaderIsThread DEF KernelOK, ReportsClone, AliveThreads, Alive, Stopped
<1>1. ASSUME NEW s \in Sent, Send(s) PROVE ReportsClone'
  BY <1>1 DEF Send
<1>2. ASSUME NEW t \in Threads, NEW s \in Signals, Dequeue(t, s) PROVE ReportsClone'
  BY <1>2 DEF Dequeue, EnterStop, Runs, Dead
<1>3. ASSUME NEW t \in Threads, Trap(t) \/ Die(t) PROVE ReportsClone'
  BY <1>3 DEF Trap, Die, EnterStop
<1>4. ASSUME NEW t \in Threads, ExecDone(t) PROVE ReportsClone'
  BY <1>4 DEF ExecDone
<1>5. ASSUME NEW t \in Threads, Clone(t) PROVE ReportsClone'
  BY <1>5 DEF Clone, Runs
<1>6. ASSUME NEW t \in Threads, Exit(t) \/ Release(t) \/ Sleep(t) \/ Wake(t) PROVE ReportsClone'
  BY <1>6 DEF Exit, Release, Sleep, Wake, Runs, EnterStop
<1>7. ASSUME NEW t \in Threads, Exec(t) PROVE ReportsClone'
  BY <1>7 DEF Exec, Runs
<1>8. ASSUME Kill PROVE ReportsClone'
  BY <1>8 DEF Kill, Dead
<1> QED BY <1>1, <1>2, <1>3, <1>4, <1>5, <1>6, <1>7, <1>8 DEF Target, React

-----------------------------------------------------------------------------
(* System calls                                                            *)

LEMMA KernelWaitStop ==
  ASSUME KernelOK, NEW t \in Tids, WaitStop(t)
  PROVE  KernelOK'
  BY DEF KernelOK, WaitStop, Tasks, Stops, Stopped

LEMMA KernelWaitExit ==
  ASSUME KernelOK, NEW t \in Tids, WaitExit(t)
  PROVE  KernelOK'
<1> USE DEF KernelOK, Tasks, Stops, Stopped
<1>1. chld' \in BOOLEAN
  BY Zenon DEF WaitExit
<1> QED BY <1>1 DEF WaitExit, Reapable

LEMMA KernelContinueThose ==
  ASSUME KernelOK, NEW ts, ts \subseteq Tids, \A t \in ts : Stopped(t),
         NEW f, NEW detach, ContinueThose(ts, f, detach)
  PROVE  KernelOK'
<1> USE DEF KernelOK, Tasks, Stops, Fates, Stopped
<1> DEFINE given == {f[t] : t \in {u \in ts : stop[u] \in Signals}} \ {"none"}
           lost  == ({stop[t] : t \in ts} \cap Signals) \ given
           dies  == given \cap Fatal # {}
<1>1. /\ fate' = [s \in Signals |->
                IF s \in given
                THEN IF fate[s] = "delivered" /\ s # "CHLD" THEN "twice" ELSE "delivered"
                ELSE IF s \in lost THEN "discarded" ELSE fate[s]]
      /\ jobStop' = \/ "STOP" \in given
                    \/ jobStop /\ (detach \/ \A t \in ts : stop[t] # "group")
      /\ task' = IF dies THEN Dead(task)
                 ELSE [t \in Tids |-> IF t \in ts /\ stop[t] = "exit" THEN "zombie" ELSE task[t]]
      /\ stop' = IF dies THEN NotIn(ts \cup Threads) ELSE NotIn(ts)
      /\ fresh' = IF dies THEN fresh \ (ts \cup Threads) ELSE fresh \ ts
      /\ traced' = IF detach THEN traced \ ts ELSE traced
      /\ chld' = (chld \/ task' # task)
      /\ UNCHANGED <<listening, intr, notify, child, aim, quota>>
  BY Zenon DEF ContinueThose
<1> HIDE DEF given, lost, dies
<1>2. jobStop' \in BOOLEAN /\ chld' \in BOOLEAN
  BY <1>1, Zenon
<1>3. fate' \in [Signals -> Fates]
  BY <1>1
<1>4. CASE dies
  BY <1>1, <1>2, <1>3, <1>4, LeaderIsThread DEF Dead, NotIn, Alive
<1>5. CASE ~dies
  BY <1>1, <1>2, <1>3, <1>5 DEF NotIn
<1> QED BY <1>4, <1>5

LEMMA KernelContinue ==
  ASSUME KernelOK, NEW f, DOMAIN f \subseteq Tids, NEW detach, Continue(f, detach)
  PROVE  KernelOK'
<1> DEFINE ts == {t \in DOMAIN f : Answers(t)}
<1>1. ts \subseteq Tids /\ \A t \in ts : Stopped(t)
  BY DEF Answers
<1>2. ContinueThose(ts, f, detach)
  BY DEF Continue
<1> QED BY <1>1, <1>2, KernelContinueThose

LEMMA KernelDetachWaited ==
  ASSUME KernelOK, NEW t \in Tids, Stopped(t), NEW sig, DetachWaited(t, sig)
  PROVE  KernelOK'
<1>1. ContinueThose({t}, Just(t, sig), TRUE)
  BY DEF DetachWaited
<1> QED BY <1>1, KernelContinueThose

LEMMA KernelAfterClone ==
  ASSUME KernelOK, NEW t \in Tids, NEW release, NEW resume, AfterClone(t, release, resume),
         (release /\ child[t] \in Tids) => task[child[t]] # "dying"
  PROVE  KernelOK'
<1> USE DEF KernelOK, Tasks, Stops, Stopped
<1> DEFINE c == child[t]
           go == (IF resume THEN {t, c} ELSE {}) \cup (IF release THEN {c} ELSE {})
<1>1. /\ stop' = NotIn(go) /\ fresh' = fresh \ {t, c}
      /\ traced' = IF release THEN traced \ {c} ELSE traced
      /\ UNCHANGED <<task, listening, intr, notify, child, aim, fate, jobStop, chld, quota>>
  BY DEF AfterClone
<1>2. (release => c \in go) /\ go \subseteq {t, c}
  OBVIOUS
<1> HIDE DEF go
<1>3. CASE release
  <2>1. traced' = traced \ {c} /\ c \in go /\ (c \in Tids => task[c] # "dying")
    BY <1>1, <1>2, <1>3
  <2> QED BY <1>1, <1>2, <2>1 DEF NotIn
<1>4. CASE ~release
  <2>1. traced' = traced
    BY <1>1, <1>4
  <2> QED BY <1>1, <1>2, <2>1 DEF NotIn
<1> QED BY <1>3, <1>4

LEMMA KernelListen ==
  ASSUME KernelOK, NEW t \in Tids, Listen(t)
  PROVE  KernelOK'
  BY DEF KernelOK, Listen, Tasks, Stops, Stopped

LEMMA KernelInterrupt ==
  ASSUME KernelOK, NEW t \in Tids, Interrupt(t)
  PROVE  KernelOK'
  BY DEF KernelOK, Interrupt, Tasks, Stops, Stopped

LEMMA KernelSeizeAll ==
  ASSUME KernelOK, NEW S, S \subseteq Tids, SeizeAll(S)
  PROVE  KernelOK'
  BY DEF KernelOK, SeizeAll, Tasks, Stops, Stopped

LEMMA KernelRunInjected ==
  ASSUME KernelOK, NEW sig \in Signals \cup {"none"}, Alive(Leader), RunInjected(sig)
  PROVE  KernelOK'
<1> USE DEF KernelOK, Tasks, Stops, Fates, Stopped, RunInjected
<1>1. fate' \in [Signals -> Fates]
  OBVIOUS
<1>2. Leader \in Tids /\ task[Leader] = "run" /\ Leader \in traced
  BY LeaderIsThread DEF Alive
<1>3. (IF sig = "none" THEN "intr" ELSE sig) \in Stops \ {"none", "clone"}
  BY SignalFacts
<1> QED BY <1>1, <1>2, <1>3

LEMMA KernelChildDies == KernelOK /\ ChildDies => KernelOK'
  BY SignalFacts DEF KernelOK, ChildDies, Fates, Stopped

LEMMA KernelTakeChld == KernelOK /\ TakeChld => KernelOK'
  BY DEF KernelOK, TakeChld, Stopped

-----------------------------------------------------------------------------
(* As long as no thread has called exec                                    *)

Exists(t) == task[t] # "none"

\* Nobody waits in an exec or dies of one; the clone events that have not been
\* dealt with name different tasks; tasks are created in the order of their
\* numbers; when the leader is gone so are the others.
Quiet ==
  /\ Exists(Leader)
  /\ \A t \in Tids :
       /\ task[t] \notin {"exec", "dying"} /\ stop[t] # "exec"
       /\ child[t] # Leader /\ (stop[t] = "clone" => Exists(child[t]))
       /\ \A u \in Tids \ {t} : stop[t] = "clone" /\ stop[u] = "clone" => child[u] # child[t]
  /\ \A t, u \in Tids : t < u /\ Exists(u) => Exists(t)
  /\ task[Leader] = "gone" => AliveThreads = {}

\* A signal that dumps core has been delivered only to a process that died of it.
FatalKills == (\E s \in Fatal : fate[s] \in {"delivered", "twice"}) => AliveThreads = {}

\* What the target can do meanwhile.  A stopped thread stays stopped for the same
\* reason, unless it is killed with all others; a new one has a parent that was
\* not stopped, and if that is traced both stop; every new stop is unread.
Grown(t) == \E p \in AliveThreads :
  /\ Alive(p)' /\ ~Stopped(p)
  /\ p \in traced => stop'[t] = "intr" /\ stop'[p] = "clone" /\ child'[p] = t
Moved ==
  /\ \A t \in Tids :
       /\ Exists(t) => Exists(t)'
       /\ task[t] = "gone" => task'[t] = "gone"
       /\ Exists(t) /\ Alive(t)' => Alive(t)
       /\ Stopped(t) /\ Stopped(t)' => stop'[t] = stop[t] /\ child'[t] = child[t] /\ (t \in fresh <=> t \in fresh')
       /\ Stopped(t) /\ ~Stopped(t)' => AliveThreads' = {}
       /\ ~Stopped(t) /\ Stopped(t)' => t \in fresh'
       /\ stop'[t] = "clone" =>
            \/ stop[t] = "clone"
            \/ ~Exists(child'[t]) /\ child'[t] \in traced' /\ t < child'[t] /\ stop'[child'[t]] = "intr"
       /\ t \in Threads /\ Alive(t)' /\ ~Exists(t) => Grown(t)
  /\ traced \subseteq traced'
  /\ AliveThreads = {} => AliveThreads' = {}

LEMMA ExecsFall ==
  ASSUME KernelOK, Target, NoExecYet'
  PROVE  NoExecYet /\ \A t \in Threads : ~Exec(t)
<1>1. quota \in [exits : 0 .. MaxExits, sleeps : 0 .. MaxSleeps, execs : 0 .. MaxExecs]
  BY DEF KernelOK
<1>2. quota'.execs = MaxExecs
  BY DEF NoExecYet
<1>3. ASSUME NEW t \in Threads, Exec(t) PROVE FALSE
  <2>1. quota' = [quota EXCEPT !.execs = @ - 1]
    BY <1>3 DEF Exec
  <2> QED BY <1>1, <1>2, <2>1, ThreadAssumption
<1>4. quota'.execs = quota.execs
  <2>1. ASSUME NEW t \in Threads, NEW s \in Signals, Dequeue(t, s) PROVE quota' = quota
    BY <2>1 DEF Dequeue
  <2>2. ASSUME NEW t \in Threads, Trap(t) \/ Die(t) \/ Release(t) \/ Wake(t) \/ Clone(t) \/ ExecDone(t)
        PROVE  quota' = quota
    BY <2>2 DEF Trap, Die, Release, Wake, Clone, ExecDone
  <2>3. ASSUME NEW t \in Threads, Exit(t) \/ Sleep(t) PROVE quota'.execs = quota.execs
    BY <1>1, <2>3 DEF Exit, Sleep
  <2>4. ASSUME NEW s \in Sent, Send(s) PROVE quota' = quota
    BY <2>4 DEF Send
  <2>5. Kill => quota' = quota
    BY DEF Kill
  <2> QED BY <1>3, <2>1, <2>2, <2>3, <2>4, <2>5 DEF Target, React
<1> QED BY <1>2, <1>3, <1>4 DEF NoExecYet

LEMMA QuietTarget ==
  ASSUME KernelOK, Quiet, FatalKills, Target, NoExecYet'
  PROVE  Quiet' /\ FatalKills' /\ Moved
<1>0. \A t \in Threads : ~Exec(t) /\ ~Die(t) /\ ~ExecDone(t)
  BY ExecsFall, LeaderIsThread DEF Quiet, Die, ExecDone
<1> USE LeaderIsThread DEF KernelOK, Quiet, FatalKills, Moved, Exists, Tasks, Stops, Stopped, AliveThreads, Alive
<1>1. ASSUME NEW s \in Sent, Send(s) PROVE Quiet' /\ FatalKills' /\ Moved
  <2>1. fate' \in [Signals -> Fates] /\ \A x \in Fatal : fate'[x] \in {"delivered", "twice"} => fate[x] \in {"delivered", "twice"}
    BY <1>1, SignalFacts DEF Send, Fates
  <2> QED BY <1>1, <2>1 DEF Send
<1>2. ASSUME NEW t \in Threads, NEW s \in Signals, Dequeue(t, s) PROVE Quiet' /\ FatalKills' /\ Moved
  <2>1. CASE t \in traced
    BY <1>2, <2>1, SignalFacts DEF Dequeue, EnterStop, Runs
  <2>2. CASE t \notin traced /\ s \in Fatal
    BY <1>2, <2>2 DEF Dequeue, Dead, NotIn
  <2>3. CASE t \notin traced /\ s \notin Fatal
    BY <1>2, <2>3, SignalFacts DEF Dequeue
  <2> QED BY <2>1, <2>2, <2>3
<1>3. ASSUME NEW t \in Threads, Trap(t) PROVE Quiet' /\ FatalKills' /\ Moved
  BY <1>3 DEF Trap, EnterStop
<1>4. ASSUME NEW t \in Threads, Clone(t) PROVE Quiet' /\ FatalKills' /\ Moved
  <2>1. PICK n \in Tids : /\ task[n] = "none" /\ \A m \in Tids : m < n => task[m] # "none"
                          /\ task' = [task EXCEPT ![n] = "run"]
                          /\ IF t \in traced
                             THEN /\ stop' = [stop EXCEPT ![t] = "clone", ![n] = "intr"]
                                  /\ fresh' = fresh \cup {t, n} /\ traced' = traced \cup {n}
                                  /\ intr' = intr \ {t} /\ chld' = TRUE
                                  /\ child' = [child EXCEPT ![t] = n]
                             ELSE UNCHANGED <<stop, fresh, traced, intr, chld, child>>
    BY <1>4 DEF Clone
  <2>2. n # t /\ n # Leader /\ task[t] = "run" /\ stop[t] = "none" /\ stop[n] = "none" /\ fate' = fate
    BY <1>4, <2>1 DEF Clone, Runs
  <2>3. t < n
    <3>1. t \in Int /\ n \in Int
      BY <1>4 DEF Tids, Threads
    <3>2. ~(n < t)
      BY <1>4, <2>1, <2>2 DEF Threads
    <3> QED BY <2>2, <3>1, <3>2
  <2>4. (\A u, v \in Tids : u < v /\ Exists(v) => Exists(u))'
    BY <1>4, <2>1, <2>2
  <2>5. CASE t \in traced
    <3>1. Quiet' /\ FatalKills'
      BY <1>4, <2>1, <2>2, <2>4, <2>5
    <3>2. Grown(n)
      BY <1>4, <2>1, <2>2, <2>5 DEF Grown
    <3> QED BY <1>4, <2>1, <2>2, <2>3, <2>5, <3>1, <3>2
  <2>6. CASE t \notin traced
    <3>1. Quiet' /\ FatalKills'
      BY <1>4, <2>1, <2>2, <2>4, <2>6
    <3>2. Grown(n)
      BY <1>4, <2>1, <2>2, <2>6 DEF Grown
    <3> QED BY <1>4, <2>1, <2>2, <2>6, <3>1, <3>2
  <2> QED BY <2>5, <2>6
<1>5. ASSUME NEW t \in Threads, Exit(t) PROVE Quiet' /\ FatalKills' /\ Moved
  BY <1>5 DEF Exit, Runs, EnterStop
<1>6. ASSUME NEW t \in Threads, Release(t) PROVE Quiet' /\ FatalKills' /\ Moved
  BY <1>6 DEF Release, Listed
<1>7. ASSUME NEW t \in Threads, Sleep(t) \/ Wake(t) PROVE Quiet' /\ FatalKills' /\ Moved
  BY <1>7 DEF Sleep, Wake, Runs
<1>8. ASSUME Kill PROVE Quiet' /\ FatalKills' /\ Moved
  BY <1>8 DEF Kill, Dead, NotIn
<1> QED BY <1>0, <1>1, <1>2, <1>3, <1>4, <1>5, <1>6, <1>7, <1>8 DEF Target, React

\* What a system call that lets the tasks ts go keeps.
Kept(ts) ==
  /\ \A t \in Tids :
       /\ (Exists(t) <=> Exists(t)') /\ (task[t] = "gone" => task'[t] = "gone")
       /\ Alive(t)' => Alive(t)
       /\ t \in ts => ~Stopped(t)' /\ (t \in Threads /\ stop[t] = "exit" => ~Alive(t)')
       /\ stop'[t] \in {stop[t], "none"}
  /\ \/ AliveThreads' = {}
     \/ \A t \in Threads \ ts :
          stop'[t] = stop[t] /\ (t \in fresh <=> t \in fresh') /\ (Alive(t) => Alive(t)')
  /\ child' = child /\ fresh' \subseteq fresh
  /\ AliveThreads = {} => AliveThreads' = {}

LEMMA QuietContinueThose ==
  ASSUME KernelOK, Quiet, FatalKills, NEW ts, ts \subseteq Tids, \A t \in ts : Stopped(t),
         NEW f, NEW detach, ContinueThose(ts, f, detach)
  PROVE  /\ Quiet' /\ FatalKills' /\ Kept(ts)
         /\ traced' = IF detach THEN traced \ ts ELSE traced
         /\ (\E t \in ts : stop[t] \in Signals /\ f[t] \in Fatal) => AliveThreads' = {}
<1> USE LeaderIsThread DEF KernelOK, Quiet, Kept, Exists, Tasks, Stops, Stopped, AliveThreads, Alive
<1> DEFINE given == {f[t] : t \in {u \in ts : stop[u] \in Signals}} \ {"none"}
           lost  == ({stop[t] : t \in ts} \cap Signals) \ given
           dies  == given \cap Fatal # {}
<1>1. /\ fate' = [s \in Signals |->
                IF s \in given
                THEN IF fate[s] = "delivered" /\ s # "CHLD" THEN "twice" ELSE "delivered"
                ELSE IF s \in lost THEN "discarded" ELSE fate[s]]
      /\ task' = IF dies THEN Dead(task)
                 ELSE [t \in Tids |-> IF t \in ts /\ stop[t] = "exit" THEN "zombie" ELSE task[t]]
      /\ stop' = IF dies THEN NotIn(ts \cup Threads) ELSE NotIn(ts)
      /\ fresh' = IF dies THEN fresh \ (ts \cup Threads) ELSE fresh \ ts
      /\ traced' = IF detach THEN traced \ ts ELSE traced
      /\ UNCHANGED <<listening, intr, notify, child, aim, quota>>
  BY Zenon DEF ContinueThose
<1>2. (\E t \in ts : stop[t] \in Signals /\ f[t] \in Fatal) => dies
  BY SignalAssumption
<1>3. ~dies => \A s \in Fatal : s \notin given
  OBVIOUS
<1> HIDE DEF given, lost, dies
<1>4. \A s \in Fatal : fate'[s] \in {"delivered", "twice"} => fate[s] \in {"delivered", "twice"} \/ s \in given
  BY <1>1, SignalFacts
<1>5. CASE dies
  <2>1. AliveThreads' = {}
    BY <1>1, <1>5 DEF Dead
  <2>2. Kept(ts)
    BY <1>1, <1>5, <2>1 DEF Dead, NotIn
  <2>3. Quiet'
    BY <1>1, <1>5, <2>1 DEF Dead, NotIn
  <2> QED BY <1>1, <2>1, <2>2, <2>3 DEF FatalKills
<1>6. CASE ~dies
  <2>1. Quiet' /\ Kept(ts)
    BY <1>1, <1>6 DEF NotIn
  <2>2. FatalKills'
    BY <1>1, <1>3, <1>4, <1>6, <2>1 DEF FatalKills
  <2> QED BY <1>1, <1>2, <1>6, <2>1, <2>2
<1> QED BY <1>5, <1>6

LEMMA QuietContinue ==
  ASSUME KernelOK, Quiet, FatalKills, NEW f, DOMAIN f \subseteq Tids, NEW detach, Continue(f, detach)
  PROVE  /\ Quiet' /\ FatalKills' /\ Kept({t \in DOMAIN f : Stopped(t)})
         /\ traced' = IF detach THEN traced \ {t \in DOMAIN f : Stopped(t)} ELSE traced
         /\ (\E t \in DOMAIN f : stop[t] \in Signals /\ f[t] \in Fatal) => AliveThreads' = {}
<1> DEFINE ts == {t \in DOMAIN f : Stopped(t)}
<1>1. ts = {t \in DOMAIN f : Answers(t)}
  BY DEF Answers, Renamed, Quiet
<1>2. ContinueThose(ts, f, detach)
  BY <1>1 DEF Continue
<1>3. ts \subseteq Tids /\ \A t \in ts : Stopped(t)
  OBVIOUS
<1>4. \A t \in DOMAIN f : stop[t] \in Signals => t \in ts
  BY SignalFacts DEF Stopped
<1> HIDE DEF ts
<1>5. /\ Quiet' /\ FatalKills' /\ Kept(ts)
      /\ traced' = IF detach THEN traced \ ts ELSE traced
      /\ (\E t \in ts : stop[t] \in Signals /\ f[t] \in Fatal) => AliveThreads' = {}
  BY <1>2, <1>3, QuietContinueThose
<1> QED BY <1>4, <1>5 DEF ts

\* The other system calls.
LEMMA QuietWaitStop ==
  ASSUME KernelOK, Quiet, FatalKills, NEW t \in Tids, WaitStop(t)
  PROVE  Quiet' /\ FatalKills'
  BY DEF WaitStop, Quiet, FatalKills, Exists, AliveThreads, Alive

LEMMA QuietWaitExit ==
  ASSUME KernelOK, Quiet, FatalKills, NEW t \in Tids, WaitExit(t)
  PROVE  /\ Quiet' /\ FatalKills' /\ ~Alive(t) /\ (t = Leader => AliveThreads = {})
         /\ task' = [task EXCEPT ![t] = "gone"] /\ traced' = traced \ {t}
         /\ UNCHANGED <<stop, fresh, child>> /\ AliveThreads' = AliveThreads
<1> USE LeaderIsThread DEF WaitExit, Reapable, Alive
<1>1. task' = [task EXCEPT ![t] = "gone"] /\ task[t] = "zombie" /\ ~Alive(t)
  OBVIOUS
<1>2. AliveThreads' = AliveThreads
  BY <1>1 DEF AliveThreads, KernelOK
<1>3. t = Leader => AliveThreads = {}
  BY DEF AliveThreads, Listed
<1>4. Quiet'
  BY <1>1, <1>2, <1>3 DEF Quiet, KernelOK, Exists
<1> QED BY <1>1, <1>2, <1>3, <1>4 DEF FatalKills

LEMMA QuietAfterClone ==
  ASSUME KernelOK, Quiet, FatalKills, NEW t \in Tids, NEW release, NEW resume, AfterClone(t, release, resume)
  PROVE  /\ Quiet' /\ FatalKills' /\ task' = task /\ child' = child
         /\ stop' = NotIn((IF resume THEN {t, child[t]} ELSE {}) \cup (IF release THEN {child[t]} ELSE {}))
         /\ fresh' = fresh \ {t, child[t]}
         /\ traced' = IF release THEN traced \ {child[t]} ELSE traced
<1> DEFINE go == (IF resume THEN {t, child[t]} ELSE {}) \cup (IF release THEN {child[t]} ELSE {})
<1>1. /\ stop' = NotIn(go) /\ fresh' = fresh \ {t, child[t]} /\ task' = task /\ child' = child
      /\ traced' = IF release THEN traced \ {child[t]} ELSE traced
      /\ UNCHANGED fate
  BY DEF AfterClone
<1> HIDE DEF go
<1>2. Quiet' /\ FatalKills'
  BY <1>1 DEF Quiet, FatalKills, NotIn, Exists, AliveThreads, Alive
<1> QED BY <1>1, <1>2 DEF go

LEMMA QuietListen ==
  ASSUME KernelOK, Quiet, FatalKills, NEW t \in Tids, Listen(t)
  PROVE  /\ Quiet' /\ FatalKills' /\ UNCHANGED <<task, child, traced>>
         /\ stop' = [stop EXCEPT ![t] = "none"] /\ fresh' = fresh \ {t}
  BY DEF Listen, Quiet, FatalKills, Exists, AliveThreads, Alive, KernelOK

LEMMA QuietRunInjected ==
  ASSUME KernelOK, Quiet, FatalKills, NEW sig \in Signals \cup {"none"}, RunInjected(sig)
  PROVE  /\ Quiet' /\ FatalKills' /\ UNCHANGED <<task, child, traced>>
         /\ stop' = [stop EXCEPT ![Leader] = IF sig = "none" THEN "intr" ELSE sig]
         /\ fresh' = fresh \ {Leader}
<1> USE LeaderIsThread DEF RunInjected
<1>1. (IF sig = "none" THEN "intr" ELSE sig) \notin {"exec", "clone"}
  BY SignalFacts
<1>2. Quiet'
  BY <1>1 DEF Quiet, KernelOK, Exists, AliveThreads, Alive
<1>3. \A s \in Fatal : fate'[s] \in {"delivered", "twice"} => fate[s] \in {"delivered", "twice"}
  BY SignalFacts
<1>4. FatalKills'
  BY <1>3 DEF FatalKills, AliveThreads, Alive
<1> QED BY <1>2, <1>4

LEMMA QuietOther ==
  ASSUME KernelOK, Quiet, FatalKills,
         UNCHANGED kernel \/ ChildDies \/ TakeChld \/ (\E t \in Tids : Interrupt(t)) \/ \E S : SeizeAll(S)
  PROVE  /\ Quiet' /\ FatalKills' /\ UNCHANGED <<task, stop, fresh, child>> /\ traced \subseteq traced'
<1>1. UNCHANGED <<task, stop, fresh, child>> /\ traced \subseteq traced'
  BY DEF ChildDies, TakeChld, Interrupt, SeizeAll, kernel
<1>2. \A s \in Fatal : fate'[s] = fate[s]
  BY SignalFacts DEF ChildDies, TakeChld, Interrupt, SeizeAll, kernel, KernelOK
<1> QED BY <1>1, <1>2 DEF Quiet, FatalKills, Exists, AliveThreads, Alive

-----------------------------------------------------------------------------
(* Arthur                                                                  *)

LEMMA LeastIsMember ==
  ASSUME NEW S, S \subseteq Tids, S # {}
  PROVE  LeastOf(S) \in S /\ \A u \in S : LeastOf(S) <= u
<1>1. S \subseteq Nat
  BY ThreadAssumption DEF Tids
<1>2. PICK t \in S : \A u \in S : ~(<<u, t>> \in OpToRel(<, Nat))
  BY <1>1, NatLessThanWellFounded, WFMin
<1>3. \A u \in S : ~(u < t)
  BY <1>1, <1>2 DEF OpToRel
<1>4. \A u \in S : t <= u
  BY <1>1, <1>3
<1> QED BY <1>4, Zenon DEF LeastOf

Collections == [caller : {"none", "dump", "crash"}, held : SUBSET Tids, grouped : SUBSET Tids,
                fatal : Fatal \cup {"none"}, tids : SUBSET Tids,
                relay : [Tids -> Signals \cup {"none"}], rounds : 0 .. MaxRounds]

ControlOK ==
  /\ pc \in Steps /\ todo \subseteq Tids /\ tid \in Tids /\ status \in Stops
  /\ mtids \subseteq Tids /\ leaderExited \in BOOLEAN
  /\ crashTid \in Tids \cup {0} /\ exitSig \in Fatal \cup {"none"}
  /\ coll \in Collections
  /\ groupStop \in BOOLEAN /\ wanted \in BOOLEAN /\ progress \in BOOLEAN
  /\ forkRc \in Fatal \cup {"none", "failed", "exited", "KILL"}
  /\ shot \in [snap : Tids, failed : BOOLEAN, result : Fatal \cup {"none", "grouped"}]
  /\ req \in [usr1 : BOOLEAN, term : BOOLEAN, dumps : 0 .. MaxDumps]
  /\ rc \in {0, -1} /\ published \subseteq {"snapshot", "core"}
  /\ history \in [gaveUp : SUBSET Tids, vanished : BOOLEAN]

\* A round of monitor_threads or of collect_threads begins when one is left.
RoundsLeft == pc \in {"seize", "list", "stop", "regs", "stopWait"} => coll.rounds < MaxRounds

\* The clone event being handled names a task; the thread that reports it at the
\* end of a snapshot still stands there, or is dying.
EventsNamed ==
  /\ pc = "handle" /\ status = "clone" => child[tid] \in Tids
  /\ pc = "settle" /\ status = "clone" => ReportsClone

TypeInv == KernelOK /\ ControlOK /\ RoundsLeft /\ EventsNamed

LEMMA RoundsBound == MaxRounds \in Nat /\ MaxRounds > 0 /\ MaxDumps \in Nat /\ DiskFull \in BOOLEAN
  BY MonitorAssumption

LEMMA TypeInit == Init => TypeInv
<1> SUFFICES ASSUME Init PROVE TypeInv
    OBVIOUS
<1>1. KernelOK
  BY KernelStart DEF Init
<1>2. coll \in Collections
  BY RoundsBound DEF Init, NoCollection, Collections
<1>3. ControlOK
  <2>1. /\ leaderExited \in BOOLEAN /\ groupStop \in BOOLEAN /\ wanted \in BOOLEAN
        /\ progress \in BOOLEAN
    BY Zenon DEF Init
  <2> QED BY <1>2, <2>1, RoundsBound, LeaderIsThread DEF Init, ControlOK, Steps, Stops
<1>4. RoundsLeft /\ EventsNamed
  BY RoundsBound DEF Init, RoundsLeft, EventsNamed, NoCollection
<1> QED BY <1>1, <1>3, <1>4 DEF TypeInv

-----------------------------------------------------------------------------
(* The target moves                                                        *)

LEMMA KernelUnchanged == KernelOK /\ UNCHANGED kernel => KernelOK'
  BY DEF kernel, KernelOK, Stopped

LEMMA TypeWatched == TypeInv /\ Watched => TypeInv'
<1> SUFFICES ASSUME TypeInv, Watched PROVE TypeInv'
    OBVIOUS
<1>1. KernelOK /\ Target /\ UNCHANGED arthur
  BY DEF TypeInv, Watched
<1>2. KernelOK'
  BY <1>1, KernelTarget
<1>3. /\ pc' = pc /\ tid' = tid /\ status' = status /\ coll' = coll /\ ControlOK'
      /\ RoundsLeft'
  BY <1>1 DEF arthur, ctl, thr, crash, loop, ends, ControlOK, TypeInv, RoundsLeft
<1>4. EventsNamed'
  <2>1. tid \in Tids
    BY DEF TypeInv, ControlOK
  <2>2. child[tid] \in Tids => child'[tid] \in Tids
    BY <1>1, <2>1, ChildKept
  <2>3. ReportsClone => ReportsClone'
    BY <1>1, CloneEventKept
  <2> QED BY <1>3, <2>2, <2>3 DEF TypeInv, EventsNamed
<1> QED BY <1>2, <1>3, <1>4 DEF TypeInv

-----------------------------------------------------------------------------
(* monitor_threads                                                         *)

LEMMA TypeSeizeList == TypeInv /\ SeizeList => TypeInv'
<1> SUFFICES ASSUME TypeInv, SeizeList PROVE TypeInv'
    OBVIOUS
<1> USE RoundsBound DEF TypeInv, SeizeList
<1>1. KernelOK'
  BY KernelUnchanged
<1>2. Listed \subseteq Tids
  BY LeaderIsThread DEF Listed
<1>3. leaderExited' \in BOOLEAN /\ progress' \in BOOLEAN
  BY Zenon DEF ControlOK, Rollback
<1>4. coll' \in Collections /\ history' \in [gaveUp : SUBSET Tids, vanished : BOOLEAN]
  <2>1. coll' = coll \/ coll' = [coll EXCEPT !.rounds = coll.rounds + 1]
    OBVIOUS
  <2>2. coll.rounds + 1 \in 0 .. MaxRounds
    BY DEF ControlOK, Collections, RoundsLeft
  <2>3. coll' \in Collections
    BY <2>1, <2>2 DEF ControlOK, Collections
  <2>4. history' = [history EXCEPT !.vanished = FALSE]
    OBVIOUS
  <2> QED BY <2>3, <2>4 DEF ControlOK
<1>5. todo' \subseteq Tids /\ pc' \in Steps /\ rc' \in {0, -1} /\ mtids' \subseteq Tids
  BY <1>2 DEF ControlOK, Rollback, Goto, Steps
<1>6. ControlOK'
  BY <1>3, <1>4, <1>5 DEF ControlOK, crash
<1>7. RoundsLeft' /\ EventsNamed'
  BY DEF RoundsLeft, EventsNamed, Rollback, Goto
<1> QED BY <1>1, <1>6, <1>7

LEMMA TypeSeizeEach == TypeInv /\ SeizeEach => TypeInv'
<1> SUFFICES ASSUME TypeInv, SeizeEach PROVE TypeInv'
    OBVIOUS
<1> DEFINE t == LeastOf(todo)
<1>1. t \in todo /\ t \in Tids /\ todo \subseteq Tids
  BY LeastIsMember DEF TypeInv, ControlOK, SeizeEach
<1>2. KernelOK'
  <2>1. SeizeAll({t}) \/ UNCHANGED kernel
    BY DEF SeizeEach
  <2> QED BY <1>1, <2>1, KernelUnchanged, KernelSeizeAll DEF TypeInv
<1>3. leaderExited' \in BOOLEAN /\ progress' \in BOOLEAN
  BY Zenon DEF TypeInv, ControlOK, SeizeEach, thr
<1>4. /\ history' \in [gaveUp : SUBSET Tids, vanished : BOOLEAN]
      /\ mtids' \subseteq Tids /\ todo' \subseteq Tids /\ rc' \in {0, -1} /\ pc' \in Steps
  BY <1>1 DEF TypeInv, ControlOK, SeizeEach, Rollback, Goto, thr, Steps
<1>5. ControlOK'
  BY <1>3, <1>4 DEF TypeInv, ControlOK, SeizeEach, crash
<1>6. RoundsLeft' /\ EventsNamed'
  BY DEF TypeInv, SeizeEach, RoundsLeft, EventsNamed, Rollback, Goto
<1> QED BY <1>2, <1>5, <1>6 DEF TypeInv

LEMMA TypeSeizeEnd == TypeInv /\ SeizeEnd => TypeInv'
<1> SUFFICES ASSUME TypeInv, SeizeEnd PROVE TypeInv'
    OBVIOUS
<1> USE RoundsBound DEF TypeInv, SeizeEnd
<1>1. KernelOK'
  BY KernelUnchanged
<1>2. NoCollection \in Collections
  BY DEF NoCollection, Collections
<1>3. coll' \in Collections /\ pc' \in Steps /\ todo' \subseteq Tids /\ rc' \in {0, -1}
  BY <1>2 DEF ControlOK, Rollback, Goto, Steps
<1>4. ControlOK'
  BY <1>3 DEF ControlOK, crash, thr, loop
<1>5. RoundsLeft' /\ EventsNamed'
  BY DEF ControlOK, Collections, RoundsLeft, EventsNamed, Rollback, Goto
<1> QED BY <1>1, <1>4, <1>5

LEMMA TypeRollback == TypeInv /\ (RollbackNext \/ RollbackWait) => TypeInv'
<1> SUFFICES ASSUME TypeInv, RollbackNext \/ RollbackWait PROVE TypeInv'
    OBVIOUS
<1>1. CASE RollbackNext
  <2> DEFINE t == LeastOf(todo)
  <2>1. todo # {} => t \in todo /\ t \in Tids
    BY LeastIsMember DEF TypeInv, ControlOK
  <2>2. KernelOK'
    <3>1. (todo # {} /\ Interrupt(t)) \/ UNCHANGED kernel
      BY <1>1 DEF RollbackNext
    <3> QED BY <2>1, <3>1, KernelUnchanged, KernelInterrupt DEF TypeInv
  <2>3. ControlOK'
    BY <1>1, <2>1 DEF TypeInv, ControlOK, RollbackNext, Goto, Steps, crash, loop, ends
  <2>4. RoundsLeft' /\ EventsNamed'
    BY <1>1 DEF TypeInv, RollbackNext, RoundsLeft, EventsNamed, Goto
  <2> QED BY <2>2, <2>3, <2>4 DEF TypeInv
<1>2. CASE RollbackWait
  <2>1. tid \in Tids /\ (tid \in fresh => Stopped(tid))
    BY DEF TypeInv, ControlOK, KernelOK
  <2>2. KernelOK'
    <3>1. (tid \in fresh /\ LetGo(tid)) \/ WaitExit(tid) \/ UNCHANGED kernel
      BY <1>2 DEF RollbackWait
    <3> QED BY <2>1, <3>1, KernelUnchanged, KernelDetachWaited, KernelWaitExit DEF TypeInv, LetGo
  <2>3. history' \in [gaveUp : SUBSET Tids, vanished : BOOLEAN]
    BY <1>2, <2>1 DEF TypeInv, ControlOK, RollbackWait, GiveUp
  <2>4. ControlOK'
    BY <1>2, <2>3 DEF TypeInv, ControlOK, RollbackWait, Goto, Steps, crash, loop, thr
  <2>5. RoundsLeft' /\ EventsNamed'
    BY <1>2 DEF TypeInv, RollbackWait, RoundsLeft, EventsNamed, Goto
  <2> QED BY <2>2, <2>4, <2>5 DEF TypeInv
<1> QED BY <1>1, <1>2

-----------------------------------------------------------------------------
(* detach_monitored_threads                                                *)

LEMMA DetachedOK ==
  ASSUME KernelOK, NEW t \in Tids, Stopped(t), Detached(t), todo \subseteq Tids, mtids \subseteq Tids
  PROVE  KernelOK' /\ todo' \subseteq Tids /\ mtids' \subseteq Tids
<1>1. DetachWaited(t, IF t \in fresh /\ stop[t] \in Signals THEN stop[t] ELSE "none")
  BY DEF Detached, LetGo
<1>2. KernelOK'
  BY <1>1, KernelDetachWaited
<1>3. todo' \subseteq Tids /\ mtids' \subseteq Tids
  BY DEF Detached, KernelOK
<1> QED BY <1>2, <1>3

LEMMA TypeDetachPoll == TypeInv /\ DetachPoll => TypeInv'
<1> SUFFICES ASSUME TypeInv, DetachPoll PROVE TypeInv'
    OBVIOUS
<1> DEFINE t == LeastOf(todo)
<1>1. /\ t \in todo /\ t \in Tids /\ todo \subseteq Tids /\ mtids \subseteq Tids /\ tid' = t
      /\ t \in fresh => Stopped(t)
  BY LeastIsMember DEF TypeInv, ControlOK, DetachPoll, KernelOK
<1>2. \/ t \in fresh /\ Detached(t)
      \/ WaitExit(t) /\ todo' = todo \ {t} /\ UNCHANGED mtids
      \/ UNCHANGED <<kernel, mtids>> /\ todo' \subseteq todo
  BY DEF DetachPoll
<1>3. KernelOK' /\ todo' \subseteq Tids /\ mtids' \subseteq Tids
  BY <1>1, <1>2, DetachedOK, KernelWaitExit, KernelUnchanged DEF TypeInv
<1>4. pc' \in {"detach", "detachRegs"}
  BY DEF DetachPoll, Goto
<1>5. ControlOK'
  BY <1>1, <1>3, <1>4 DEF TypeInv, ControlOK, DetachPoll, Steps, crash, loop, ends
<1> QED BY <1>3, <1>4, <1>5 DEF TypeInv, RoundsLeft, EventsNamed

LEMMA TypeDetachRegs == TypeInv /\ DetachRegs => TypeInv'
<1> SUFFICES ASSUME TypeInv, DetachRegs PROVE TypeInv'
    OBVIOUS
<1>1. tid \in Tids /\ todo \subseteq Tids /\ mtids \subseteq Tids /\ (Answers(tid) => Stopped(tid))
  BY DEF TypeInv, ControlOK, Answers
<1>2. \/ Answers(tid) /\ Detached(tid)
      \/ Interrupt(tid) /\ UNCHANGED <<todo, mtids>>
      \/ UNCHANGED <<kernel, mtids>> /\ todo' \subseteq todo
  BY DEF DetachRegs
<1>3. KernelOK' /\ todo' \subseteq Tids /\ mtids' \subseteq Tids
  BY <1>1, <1>2, DetachedOK, KernelInterrupt, KernelUnchanged DEF TypeInv
<1>4. pc' \in {"detach", "detachWait"}
  BY DEF DetachRegs, Goto
<1>5. ControlOK'
  BY <1>3, <1>4 DEF TypeInv, ControlOK, DetachRegs, Steps, crash, loop, ends
<1> QED BY <1>3, <1>4, <1>5 DEF TypeInv, RoundsLeft, EventsNamed

LEMMA TypeDetachWait == TypeInv /\ DetachWait => TypeInv'
<1> SUFFICES ASSUME TypeInv, DetachWait PROVE TypeInv'
    OBVIOUS
<1>1. tid \in Tids /\ todo \subseteq Tids /\ mtids \subseteq Tids /\ (tid \in fresh => Stopped(tid))
  BY DEF TypeInv, ControlOK, KernelOK
<1>2. \/ tid \in fresh /\ Detached(tid) /\ UNCHANGED <<rc, history>>
      \/ WaitExit(tid) /\ todo' = todo \ {tid} /\ rc' = -1 /\ UNCHANGED <<mtids, history>>
      \/ GiveUp(tid) /\ todo' = todo \ {tid} /\ rc' = -1 /\ UNCHANGED <<kernel, mtids>>
  BY DEF DetachWait
<1>3. KernelOK' /\ todo' \subseteq Tids /\ mtids' \subseteq Tids
  BY <1>1, <1>2, DetachedOK, KernelWaitExit, KernelUnchanged DEF TypeInv
<1>4. rc' \in {0, -1} /\ history' \in [gaveUp : SUBSET Tids, vanished : BOOLEAN]
  BY <1>1, <1>2 DEF TypeInv, ControlOK, GiveUp
<1>5. pc' = "detach"
  BY DEF DetachWait, Goto
<1>6. ControlOK'
  BY <1>3, <1>4, <1>5 DEF TypeInv, ControlOK, DetachWait, Steps, crash, loop
<1> QED BY <1>3, <1>5, <1>6 DEF TypeInv, RoundsLeft, EventsNamed

LEMMA TypeDetachEnd == TypeInv /\ DetachEnd => TypeInv'
<1> SUFFICES ASSUME TypeInv, DetachEnd PROVE TypeInv'
    OBVIOUS
<1> USE DEF TypeInv, DetachEnd
<1>1. KernelOK'
  BY KernelUnchanged
<1>2. ControlOK'
  BY DEF ControlOK, Goto, Steps, crash, loop, ends
<1> QED BY <1>1, <1>2 DEF RoundsLeft, EventsNamed, Goto

-----------------------------------------------------------------------------
(* drain_monitor_events                                                    *)

LEMMA TypeDrainStart == TypeInv /\ DrainStart => TypeInv'
<1> SUFFICES ASSUME TypeInv, DrainStart PROVE TypeInv'
    OBVIOUS
<1> USE DEF TypeInv, DrainStart
<1>1. KernelOK'
  BY KernelUnchanged
<1>2. progress' \in BOOLEAN
  BY Zenon
<1>3. ControlOK'
  BY <1>2 DEF ControlOK, Goto, Steps, crash, thr, ends
<1> QED BY <1>1, <1>3 DEF RoundsLeft, EventsNamed, Goto

LEMMA TypePoll == TypeInv /\ Poll => TypeInv'
<1> SUFFICES ASSUME TypeInv, Poll PROVE TypeInv'
    OBVIOUS
<1> DEFINE t == LeastOf(todo)
<1>1. t \in todo /\ t \in Tids /\ todo \subseteq Tids /\ tid' = t
  BY LeastIsMember DEF TypeInv, ControlOK, Poll
<1>2. WaitStop(t) \/ WaitExit(t) \/ UNCHANGED kernel
  BY DEF Poll
<1>3. KernelOK'
  BY <1>1, <1>2, KernelWaitStop, KernelWaitExit, KernelUnchanged DEF TypeInv
<1>4. progress' \in BOOLEAN
  BY Zenon DEF Poll, TypeInv, ControlOK
<1>5. status' \in Stops
  BY <1>1 DEF Poll, TypeInv, ControlOK, KernelOK
<1>6. mtids' \subseteq Tids /\ todo' \subseteq Tids
  BY <1>1 DEF Poll, TypeInv, ControlOK, Quit
<1>7. pc' \in {"poll", "handle", "detach", "returned"} /\ rc' \in {0, -1}
  BY DEF Poll, TypeInv, ControlOK, Quit, Goto
<1>8. ControlOK'
  BY <1>1, <1>4, <1>5, <1>6, <1>7 DEF TypeInv, ControlOK, Poll, Steps, crash
<1>9. EventsNamed'
  <2>1. CASE pc' = "handle"
    <3>1. t \in fresh /\ WaitStop(t) /\ status' = stop[t]
      BY <2>1 DEF Poll, Quit, Goto
    <3> QED BY <1>1, <2>1, <3>1 DEF EventsNamed, WaitStop, TypeInv, KernelOK
  <2> QED BY <1>7, <2>1 DEF EventsNamed
<1> QED BY <1>3, <1>7, <1>8, <1>9 DEF TypeInv, RoundsLeft

LEMMA KernelResume ==
  ASSUME KernelOK, tid \in Tids, NEW sig, Resume(sig)
  PROVE  KernelOK'
<1>1. Continue(Just(tid, sig), FALSE) \/ UNCHANGED kernel
  BY DEF Resume
<1>2. DOMAIN Just(tid, sig) \subseteq Tids
  BY DEF Just
<1> QED BY <1>1, <1>2, KernelContinue, KernelUnchanged

LEMMA TypeHandleClone == TypeInv /\ HandleClone => TypeInv'
<1> SUFFICES ASSUME TypeInv, HandleClone PROVE TypeInv'
    OBVIOUS
<1>1. tid \in Tids /\ child[tid] \in Tids
  BY DEF TypeInv, ControlOK, EventsNamed, HandleClone, Handling
<1>2. child[tid] \in Procs => task[child[tid]] # "dying"
  BY <1>1 DEF TypeInv, KernelOK, Threads
<1>3. AfterClone(tid, child[tid] \in Procs, exitSig = "none")
  BY DEF HandleClone
<1>4. KernelOK'
  BY <1>1, <1>2, <1>3, KernelAfterClone DEF TypeInv
<1>5. pc' = "poll" /\ progress' \in BOOLEAN
  BY Zenon DEF HandleClone, Handled, Goto
<1>6. mtids' \subseteq Tids /\ todo' \subseteq Tids
  BY <1>1 DEF HandleClone, Handled, TypeInv, ControlOK
<1>7. ControlOK'
  BY <1>5, <1>6 DEF TypeInv, ControlOK, HandleClone, Handled, Steps, crash, ends
<1> QED BY <1>4, <1>5, <1>7 DEF TypeInv, RoundsLeft, EventsNamed

LEMMA TypeHandleExit == TypeInv /\ HandleExit => TypeInv'
<1> SUFFICES ASSUME TypeInv, HandleExit PROVE TypeInv'
    OBVIOUS
<1>1. KernelOK'
  BY KernelResume DEF TypeInv, ControlOK, HandleExit
<1>2. pc' = "poll" /\ progress' \in BOOLEAN /\ leaderExited' \in BOOLEAN
  BY Zenon DEF HandleExit, Handled, Goto
<1>3. ControlOK'
  BY <1>2 DEF TypeInv, ControlOK, HandleExit, Handled, Steps, crash, ends
<1> QED BY <1>1, <1>2, <1>3 DEF TypeInv, RoundsLeft, EventsNamed

LEMMA TypeHandleExec == TypeInv /\ HandleExec => TypeInv'
<1> SUFFICES ASSUME TypeInv, HandleExec PROVE TypeInv'
    OBVIOUS
<1>1. KernelOK'
  BY KernelResume DEF TypeInv, ControlOK, HandleExec
<1>2. pc' = "poll" /\ progress' \in BOOLEAN /\ leaderExited' \in BOOLEAN /\ groupStop' \in BOOLEAN
  BY Zenon DEF HandleExec, Goto
<1>3. coll' \in Collections
  BY DEF HandleExec, TypeInv, ControlOK, Collections, NoCollection
<1>4. ControlOK'
  BY <1>2, <1>3, LeaderIsThread DEF TypeInv, ControlOK, HandleExec, Steps, crash, ends
<1> QED BY <1>1, <1>2, <1>4 DEF TypeInv, RoundsLeft, EventsNamed

LEMMA TypeHandleStop ==
  TypeInv /\ (HandleGroupStop \/ HandleInterrupt \/ HandleSignal) => TypeInv'
<1> SUFFICES ASSUME TypeInv, HandleGroupStop \/ HandleInterrupt \/ HandleSignal PROVE TypeInv'
    OBVIOUS
<1>1. tid \in Tids
  BY DEF TypeInv, ControlOK
<1>2. KernelOK'
  <2>1. CASE HandleGroupStop
    BY <1>1, <2>1, KernelListen DEF HandleGroupStop, TypeInv
  <2>2. CASE HandleInterrupt
    BY <1>1, <2>2, KernelResume DEF HandleInterrupt, TypeInv
  <2>3. CASE HandleSignal
    <3>1. Resume(status) \/ Continue(Just(tid, status), FALSE)
      BY <2>3 DEF HandleSignal
    <3>2. DOMAIN Just(tid, status) \subseteq Tids
      BY <1>1 DEF Just
    <3> QED BY <1>1, <3>1, <3>2, KernelResume, KernelContinue DEF TypeInv
  <2> QED BY <2>1, <2>2, <2>3
<1>3. /\ pc' = "poll" /\ todo' = todo \ {tid} /\ progress' = TRUE /\ UNCHANGED <<tid, status>>
      /\ UNCHANGED <<thr, crash, coll, wanted, forkRc, shot, req, ends>>
  BY DEF HandleGroupStop, HandleInterrupt, HandleSignal, Handled, Goto
<1>4. progress' \in BOOLEAN /\ groupStop' \in BOOLEAN
  BY Zenon DEF HandleGroupStop, HandleInterrupt, HandleSignal, Handled
<1>5. ControlOK'
  BY <1>3, <1>4 DEF TypeInv, ControlOK, Steps, thr, crash, ends
<1> QED BY <1>2, <1>3, <1>5 DEF TypeInv, RoundsLeft, EventsNamed

LEMMA TypeHandleFatal == TypeInv /\ HandleFatal => TypeInv'
<1> SUFFICES ASSUME TypeInv, HandleFatal PROVE TypeInv'
    OBVIOUS
<1>1. KernelOK'
  BY KernelUnchanged DEF TypeInv, HandleFatal
<1>2. pc' = "poll" /\ progress' \in BOOLEAN
  BY Zenon DEF HandleFatal, Handled, Goto
<1>3. ControlOK'
  BY <1>2 DEF TypeInv, ControlOK, HandleFatal, Handling, Handled, Steps, thr, crash, ends
<1> QED BY <1>1, <1>2, <1>3 DEF TypeInv, RoundsLeft, EventsNamed

LEMMA TypeHandleKilled == TypeInv /\ HandleKilled => TypeInv'
<1> SUFFICES ASSUME TypeInv, HandleKilled PROVE TypeInv'
    OBVIOUS
<1>1. KernelOK'
  BY KernelUnchanged DEF TypeInv, HandleKilled
<1>2. pc' \in {"poll", "detach"}
  BY DEF HandleKilled, Handled, Quit, Goto
<1>3. progress' \in BOOLEAN /\ leaderExited' \in BOOLEAN
  BY Zenon DEF TypeInv, ControlOK, HandleKilled, Handled
<1>4. /\ exitSig' \in Fatal \cup {"none"} /\ crashTid' \in Tids \cup {0} /\ rc' \in {0, -1}
      /\ todo' \subseteq Tids /\ tid' = tid /\ status' = status
  BY DEF TypeInv, ControlOK, HandleKilled, Handled, Quit, crash
<1>5. ControlOK'
  BY <1>2, <1>3, <1>4 DEF TypeInv, ControlOK, HandleKilled, Steps
<1> QED BY <1>1, <1>2, <1>5 DEF TypeInv, RoundsLeft, EventsNamed

LEMMA TypePassEnd == TypeInv /\ PassEnd => TypeInv'
<1> SUFFICES ASSUME TypeInv, PassEnd PROVE TypeInv'
    OBVIOUS
<1>1. KernelOK'
  BY KernelUnchanged DEF TypeInv, PassEnd
<1>2. pc' \in {"detach", "returned", "drain", "collect", "dispatch"} /\ rc' \in {0, -1}
  BY DEF PassEnd, Quit, Goto, TypeInv, ControlOK
<1>3. mtids' \subseteq Tids
  BY LeaderIsThread DEF PassEnd, TypeInv, ControlOK, Listed
<1>4. todo' \subseteq Tids
  BY <1>3 DEF PassEnd, Quit, TypeInv, ControlOK
<1>5. ControlOK'
  BY <1>2, <1>3, <1>4 DEF TypeInv, ControlOK, PassEnd, Steps, crash, loop
<1> QED BY <1>1, <1>2, <1>5 DEF TypeInv, RoundsLeft, EventsNamed

-----------------------------------------------------------------------------
(* The main loop                                                           *)

LEMMA TypeDispatch == TypeInv /\ Dispatch => TypeInv'
<1> SUFFICES ASSUME TypeInv, Dispatch PROVE TypeInv'
    OBVIOUS
<1>1. KernelOK'
  BY KernelUnchanged DEF TypeInv, Dispatch
<1>2. /\ pc' \in {"detach", "drain", "collect", "dump", "wait"} /\ rc' \in {0, -1}
      /\ todo' \subseteq Tids /\ mtids' \subseteq Tids
  BY DEF Dispatch, Quit, Goto, TypeInv, ControlOK, thr
<1>3. wanted' \in BOOLEAN /\ groupStop' \in BOOLEAN /\ progress' \in BOOLEAN /\ leaderExited' \in BOOLEAN
  BY Zenon DEF Dispatch, TypeInv, ControlOK, loop, thr
<1>4. /\ exitSig' \in Fatal \cup {"none"} /\ crashTid' \in Tids \cup {0}
      /\ forkRc' \in Fatal \cup {"none", "failed", "exited", "KILL"}
  BY LeaderIsThread DEF Dispatch, TypeInv, ControlOK, crash, loop
<1>5. ControlOK'
  BY <1>2, <1>3, <1>4 DEF TypeInv, ControlOK, Dispatch, Steps
<1> QED BY <1>1, <1>2, <1>5 DEF TypeInv, RoundsLeft, EventsNamed

LEMMA TypeAwaitSignal == TypeInv /\ AwaitSignal => TypeInv'
<1> SUFFICES ASSUME TypeInv, AwaitSignal PROVE TypeInv'
    OBVIOUS
<1>1. KernelOK'
  BY KernelUnchanged, KernelTakeChld DEF TypeInv, AwaitSignal
<1>2. /\ pc' \in {"drain", "detach"} /\ rc' \in {0, -1} /\ todo' \subseteq Tids
  BY DEF AwaitSignal, Quit, Goto, TypeInv, ControlOK
<1>3. wanted' \in BOOLEAN
  BY Zenon DEF AwaitSignal, TypeInv, ControlOK
<1>4. req' \in [usr1 : BOOLEAN, term : BOOLEAN, dumps : 0 .. MaxDumps]
  BY DEF AwaitSignal, TypeInv, ControlOK
<1>5. ControlOK'
  BY <1>2, <1>3, <1>4 DEF TypeInv, ControlOK, AwaitSignal, Steps, thr, crash
<1> QED BY <1>1, <1>2, <1>5 DEF TypeInv, RoundsLeft, EventsNamed

LEMMA TypeRequest == TypeInv /\ Request => TypeInv'
<1> SUFFICES ASSUME TypeInv, Request PROVE TypeInv'
    OBVIOUS
<1>1. KernelOK'
  BY KernelUnchanged DEF TypeInv, Request
<1>2. req' \in [usr1 : BOOLEAN, term : BOOLEAN, dumps : 0 .. MaxDumps]
  <2>1. req \in [usr1 : BOOLEAN, term : BOOLEAN, dumps : 0 .. MaxDumps]
    BY DEF TypeInv, ControlOK
  <2>2. \/ req.dumps > 0 /\ req' = [req EXCEPT !.usr1 = TRUE, !.dumps = req.dumps - 1]
        \/ req' = [req EXCEPT !.term = TRUE]
    BY DEF Request
  <2>3. CASE req.dumps > 0 /\ req' = [req EXCEPT !.usr1 = TRUE, !.dumps = req.dumps - 1]
    <3>1. req.dumps - 1 \in 0 .. MaxDumps
      BY <2>1, <2>3, RoundsBound
    <3> QED BY <2>1, <2>3, <3>1
  <2>4. CASE req' = [req EXCEPT !.term = TRUE]
    BY <2>1, <2>4
  <2> QED BY <2>2, <2>3, <2>4
<1>3. ControlOK' /\ pc' = "wait"
  BY <1>2 DEF TypeInv, ControlOK, Request, Steps, ctl, thr, crash, loop, ends
<1> QED BY <1>1, <1>3 DEF TypeInv, RoundsLeft, EventsNamed

-----------------------------------------------------------------------------
(* collect_threads                                                         *)

LEMMA TypeCollectStart == TypeInv /\ CollectStart => TypeInv'
<1> SUFFICES ASSUME TypeInv, CollectStart PROVE TypeInv'
    OBVIOUS
<1>1. KernelOK'
  BY KernelUnchanged DEF TypeInv, CollectStart
<1>2. coll' \in Collections /\ coll'.rounds = 0
  BY RoundsBound DEF CollectStart, NoCollection, Collections
<1>3. pc' = "list"
  BY DEF CollectStart, Goto
<1>4. ControlOK'
  BY <1>2, <1>3 DEF TypeInv, ControlOK, CollectStart, Steps, thr, crash, loop, ends
<1> QED BY <1>1, <1>2, <1>3, <1>4, RoundsBound DEF TypeInv, RoundsLeft, EventsNamed

LEMMA FailsOK ==
  ASSUME rc \in {0, -1}, CollectFails
  PROVE  pc' \in {"kill", "restore"} /\ rc' \in {0, -1}
  BY DEF CollectFails, Goto

LEMMA TypeCollectList == TypeInv /\ CollectList => TypeInv'
<1> SUFFICES ASSUME TypeInv, CollectList PROVE TypeInv'
    OBVIOUS
<1>1. PICK seized \in SUBSET Tids :
        /\ SeizeAll(seized) /\ mtids' = mtids \cup seized
        /\ \/ CollectFails /\ UNCHANGED todo
           \/ todo' \subseteq mtids' /\ Goto("stop") /\ UNCHANGED rc
  <2> DEFINE new == Workers \ mtids
             dead == {t \in new : t \notin traced /\ ~Alive(t)}
             seized == {t \in new : \A u \in dead : t < u}
  <2>1. /\ SeizeAll(seized) /\ mtids' = mtids \cup seized
        /\ \/ CollectFails /\ UNCHANGED todo
           \/ todo' \subseteq mtids' /\ Goto("stop") /\ UNCHANGED rc
    BY DEF CollectList
  <2>2. seized \in SUBSET Tids
    BY LeaderIsThread DEF Workers, Listed
  <2> HIDE DEF seized
  <2> QED BY <2>1, <2>2
<1>2. KernelOK'
  BY <1>1, KernelSeizeAll DEF TypeInv
<1>3. pc' \in {"kill", "restore", "stop"} /\ rc' \in {0, -1}
  BY <1>1, FailsOK DEF Goto, TypeInv, ControlOK
<1>4. mtids' \subseteq Tids /\ todo' \subseteq Tids
  BY <1>1 DEF TypeInv, ControlOK
<1>5. ControlOK'
  BY <1>3, <1>4 DEF TypeInv, ControlOK, CollectList, Steps, crash, loop
<1>6. RoundsLeft'
  BY <1>3 DEF TypeInv, RoundsLeft, CollectList
<1> QED BY <1>2, <1>3, <1>5, <1>6 DEF TypeInv, EventsNamed

LEMMA RecordStopOK ==
  ASSUME TypeInv, NEW t \in Tids, t \in fresh, RecordStop(t)
  PROVE  /\ KernelOK' /\ coll' \in Collections /\ coll'.rounds = coll.rounds
         /\ crashTid' \in Tids \cup {0} /\ mtids' \subseteq Tids
<1> DEFINE s == stop[t]
<1>1. KernelOK'
  <2>1. (child[t] \in Procs /\ AfterClone(t, TRUE, FALSE)) \/ WaitStop(t)
    BY DEF RecordStop
  <2>2. child[t] \in Procs => ~(child[t] \in Tids /\ task[child[t]] = "dying")
    BY DEF TypeInv, KernelOK, Threads
  <2> QED BY <2>1, <2>2, KernelAfterClone, KernelWaitStop DEF TypeInv
<1>2. coll \in Collections /\ s \in Stops
  BY DEF TypeInv, ControlOK, KernelOK
<1>3. PICK h, g, f, r :
        /\ coll' = [coll EXCEPT !.held = h, !.grouped = g, !.fatal = f, !.relay[t] = r]
        /\ h \subseteq Tids /\ g \subseteq Tids /\ f \in Fatal \cup {"none"}
        /\ r \in Signals \cup {"none"}
  <2> DEFINE h == coll.held \cup {t}
             g == IF s = "group" THEN coll.grouped \cup {t} ELSE coll.grouped
             f == IF s \in Fatal /\ coll.fatal = "none" THEN s ELSE coll.fatal
             r == IF s \in Signals \ Fatal THEN s ELSE coll.relay[t]
  <2>1. coll' = [coll EXCEPT !.held = h, !.grouped = g, !.fatal = f, !.relay[t] = r]
    BY Zenon DEF RecordStop
  <2>2. /\ h \subseteq Tids /\ g \subseteq Tids /\ f \in Fatal \cup {"none"}
        /\ r \in Signals \cup {"none"}
    BY <1>2 DEF Collections
  <2> HIDE DEF h, g, f, r
  <2> QED BY <2>1, <2>2
<1>4. coll' \in Collections /\ coll'.rounds = coll.rounds
  BY <1>2, <1>3 DEF Collections
<1>5. crashTid' \in Tids \cup {0} /\ mtids' \subseteq Tids
  BY DEF RecordStop, TypeInv, ControlOK, KernelOK
<1> QED BY <1>1, <1>4, <1>5

LEMMA TypeCollectPoll == TypeInv /\ CollectPoll => TypeInv'
<1> SUFFICES ASSUME TypeInv, CollectPoll PROVE TypeInv'
    OBVIOUS
<1> DEFINE t == LeastOf(todo)
<1>1. t \in todo /\ t \in Tids /\ todo \subseteq Tids /\ tid' = t
  BY LeastIsMember DEF TypeInv, ControlOK, CollectPoll
<1>2. /\ pc' \in {"stop", "regs", "kill", "restore"} /\ rc' \in {0, -1} /\ todo' \subseteq todo
      /\ UNCHANGED <<status, leaderExited, exitSig, loop, shot, req, published, history>>
  BY FailsOK DEF CollectPoll, Goto, TypeInv, ControlOK
<1>3. /\ KernelOK' /\ coll' \in Collections /\ coll'.rounds = coll.rounds
      /\ crashTid' \in Tids \cup {0} /\ mtids' \subseteq Tids
  <2>1. CASE UNCHANGED <<kernel, mtids, crashTid>> /\ coll' = [coll EXCEPT !.held = @ \cup {t}]
    <3>1. KernelOK'
      BY <2>1, KernelUnchanged DEF TypeInv
    <3> QED BY <1>1, <2>1, <3>1 DEF TypeInv, ControlOK, Collections
  <2>2. CASE t \in fresh /\ RecordStop(t)
    BY <1>1, <2>2, RecordStopOK
  <2>3. CASE WaitExit(t) /\ mtids' = mtids \ {t} /\ UNCHANGED <<crashTid, coll>>
    BY <1>1, <2>3, KernelWaitExit DEF TypeInv, ControlOK
  <2>4. CASE UNCHANGED <<kernel, mtids, crashTid, coll>>
    BY <2>4, KernelUnchanged DEF TypeInv, ControlOK
  <2> QED BY <2>1, <2>2, <2>3, <2>4 DEF CollectPoll
<1>4. ControlOK'
  BY <1>1, <1>2, <1>3 DEF TypeInv, ControlOK, Steps, loop
<1>5. RoundsLeft'
  BY <1>3 DEF TypeInv, RoundsLeft, CollectPoll
<1> QED BY <1>2, <1>3, <1>4, <1>5 DEF TypeInv, EventsNamed

LEMMA TypeCollectRegs == TypeInv /\ CollectRegs => TypeInv'
<1> SUFFICES ASSUME TypeInv, CollectRegs PROVE TypeInv'
    OBVIOUS
<1>1. tid \in Tids
  BY DEF TypeInv, ControlOK
<1>2. KernelOK'
  <2>1. UNCHANGED kernel \/ Interrupt(tid)
    BY DEF CollectRegs
  <2> QED BY <1>1, <2>1, KernelInterrupt, KernelUnchanged DEF TypeInv
<1>3. /\ pc' \in {"stop", "stopWait", "kill", "restore"} /\ rc' \in {0, -1} /\ todo' \subseteq todo
      /\ mtids' \subseteq mtids
  BY FailsOK DEF CollectRegs, Goto, TypeInv, ControlOK
<1>4. coll' \in Collections /\ coll'.rounds = coll.rounds
  <2>1. coll' = coll \/ coll' = [coll EXCEPT !.held = @ \cup {tid}]
    BY DEF CollectRegs
  <2> QED BY <1>1, <2>1 DEF TypeInv, ControlOK, Collections
<1>5. ControlOK'
  BY <1>3, <1>4 DEF TypeInv, ControlOK, CollectRegs, Steps, crash, loop
<1>6. RoundsLeft'
  BY <1>4 DEF TypeInv, RoundsLeft, CollectRegs
<1> QED BY <1>2, <1>3, <1>5, <1>6 DEF TypeInv, EventsNamed

LEMMA TypeCollectWait == TypeInv /\ CollectWait => TypeInv'
<1> SUFFICES ASSUME TypeInv, CollectWait PROVE TypeInv'
    OBVIOUS
<1>1. tid \in Tids
  BY DEF TypeInv, ControlOK
<1>2. /\ pc' \in {"stop", "kill", "restore"} /\ rc' \in {0, -1} /\ todo' \subseteq todo
      /\ UNCHANGED <<tid, status, leaderExited, exitSig, loop, shot, req, published, history>>
  BY FailsOK DEF CollectWait, Goto, TypeInv, ControlOK
<1>3. /\ KernelOK' /\ coll' \in Collections /\ coll'.rounds = coll.rounds
      /\ crashTid' \in Tids \cup {0} /\ mtids' \subseteq Tids
  <2>1. CASE tid \in fresh /\ RecordStop(tid)
    BY <1>1, <2>1, RecordStopOK
  <2>2. CASE (WaitExit(tid) \/ UNCHANGED kernel) /\ mtids' \subseteq mtids /\ UNCHANGED <<crashTid, coll>>
    BY <1>1, <2>2, KernelWaitExit, KernelUnchanged DEF TypeInv, ControlOK
  <2> QED BY <2>1, <2>2 DEF CollectWait
<1>4. ControlOK'
  BY <1>1, <1>2, <1>3 DEF TypeInv, ControlOK, Steps, loop
<1>5. RoundsLeft'
  BY <1>3 DEF TypeInv, RoundsLeft, CollectWait
<1> QED BY <1>2, <1>3, <1>4, <1>5 DEF TypeInv, EventsNamed

LEMMA TypeCollectConfirm == TypeInv /\ CollectConfirm => TypeInv'
<1> SUFFICES ASSUME TypeInv, CollectConfirm PROVE TypeInv'
    OBVIOUS
<1>1. KernelOK'
  BY KernelUnchanged DEF TypeInv, CollectConfirm
<1>2. Workers \subseteq Tids
  BY LeaderIsThread DEF Workers, Listed
<1>3. /\ coll \in Collections /\ coll.rounds < MaxRounds /\ coll.rounds \in Nat
  BY DEF TypeInv, ControlOK, RoundsLeft, CollectConfirm, Collections
<1>4. /\ pc' \in {"kill", "restore", "list", "abandon", "preserve", "core", "meta"} /\ rc' \in {0, -1}
      /\ todo' \subseteq Tids /\ mtids' \subseteq mtids
  BY <1>2, FailsOK DEF CollectConfirm, Goto, TypeInv, ControlOK
<1>5. /\ coll' \in Collections
      /\ pc' = "list" => coll'.rounds < MaxRounds
  <2>1. \/ coll' = coll /\ pc' # "list"
        \/ coll' = [coll EXCEPT !.tids = Workers] /\ pc' # "list"
        \/ coll' = [coll EXCEPT !.rounds = @ + 1] /\ (pc' = "list" => coll.rounds + 1 # MaxRounds)
    BY FailsOK DEF CollectConfirm, Goto, TypeInv, ControlOK
  <2>2. coll.rounds + 1 \in 0 .. MaxRounds /\ (coll.rounds + 1 # MaxRounds => coll.rounds + 1 < MaxRounds)
    BY <1>3, RoundsBound
  <2> QED BY <1>2, <1>3, <2>1, <2>2 DEF Collections
<1>6. ControlOK'
  BY <1>4, <1>5 DEF TypeInv, ControlOK, CollectConfirm, Steps, crash, loop
<1>7. RoundsLeft' /\ EventsNamed'
  BY <1>4, <1>5 DEF RoundsLeft, EventsNamed
<1> QED BY <1>1, <1>6, <1>7 DEF TypeInv

-----------------------------------------------------------------------------
(* forkcore_m                                                              *)

LEMMA ReturnsOK ==
  ASSUME ControlOK, shot' \in [snap : Tids, failed : BOOLEAN, result : Fatal \cup {"none", "grouped"}],
         NEW v \in Fatal \cup {"none", "failed", "exited", "KILL", "grouped"}, ForkcoreReturns(v)
  PROVE  /\ pc' \in {"detach", "drain"} /\ todo' \subseteq Tids /\ rc' \in {0, -1}
         /\ groupStop' \in BOOLEAN /\ forkRc' \in Fatal \cup {"none", "failed", "exited", "KILL"}
<1>1. groupStop' \in BOOLEAN
  BY Zenon DEF ForkcoreReturns, ControlOK
<1> QED BY <1>1 DEF ForkcoreReturns, ControlOK, Quit, Goto

LEMMA TypeDumpStart == TypeInv /\ DumpStart => TypeInv'
<1> SUFFICES ASSUME TypeInv, DumpStart PROVE TypeInv'
    OBVIOUS
<1> DEFINE candidates == IF leaderExited THEN mtids \ {Leader} ELSE {Leader}
<1>1. candidates \subseteq Tids /\ (candidates # {} => LeastOf(candidates) \in Tids)
  <2>1. candidates \subseteq Tids
    BY LeaderIsThread DEF TypeInv, ControlOK
  <2> HIDE DEF candidates
  <2> QED BY <2>1, LeastIsMember
<1>2. \/ /\ candidates # {} /\ Interrupt(LeastOf(candidates)) /\ Goto("collect")
         /\ shot' = [snap |-> LeastOf(candidates), failed |-> FALSE, result |-> "none"]
         /\ UNCHANGED <<todo, rc, groupStop, forkRc>>
      \/ /\ shot' = [shot EXCEPT !.failed = FALSE, !.result = "none"]
         /\ ForkcoreReturns("failed") /\ UNCHANGED kernel
  BY DEF DumpStart
<1> HIDE DEF candidates
<1>3. KernelOK'
  BY <1>1, <1>2, KernelInterrupt, KernelUnchanged DEF TypeInv
<1>4. shot' \in [snap : Tids, failed : BOOLEAN, result : Fatal \cup {"none", "grouped"}]
  <2>1. ASSUME NEW n \in Tids, shot' = [snap |-> n, failed |-> FALSE, result |-> "none"]
        PROVE  shot' \in [snap : Tids, failed : BOOLEAN, result : Fatal \cup {"none", "grouped"}]
    BY <2>1
  <2>2. CASE shot' = [shot EXCEPT !.failed = FALSE, !.result = "none"]
    BY <2>2 DEF TypeInv, ControlOK
  <2> QED BY <1>1, <1>2, <2>1, <2>2
<1>5. /\ pc' \in {"collect", "detach", "drain"} /\ todo' \subseteq Tids /\ rc' \in {0, -1}
      /\ groupStop' \in BOOLEAN /\ forkRc' \in Fatal \cup {"none", "failed", "exited", "KILL"}
  BY <1>2, <1>4, ReturnsOK DEF TypeInv, ControlOK, Goto
<1>6. ControlOK'
  BY <1>4, <1>5 DEF TypeInv, ControlOK, DumpStart, Steps, thr, crash
<1> QED BY <1>3, <1>5, <1>6 DEF TypeInv, RoundsLeft, EventsNamed

LEMMA TypeAbandon == TypeInv /\ Abandon => TypeInv'
<1> SUFFICES ASSUME TypeInv, Abandon PROVE TypeInv'
    OBVIOUS
<1>1. KernelOK'
  BY KernelUnchanged DEF TypeInv, Abandon
<1>2. /\ pc' \in {"detach", "drain"} /\ todo' \subseteq Tids /\ rc' \in {0, -1}
      /\ groupStop' \in BOOLEAN /\ forkRc' \in Fatal \cup {"none", "failed", "exited", "KILL"}
  BY ReturnsOK DEF TypeInv, ControlOK, Abandon, Collections
<1>3. ControlOK'
  BY <1>2 DEF TypeInv, ControlOK, Abandon, Steps, thr, crash
<1> QED BY <1>1, <1>2, <1>3 DEF TypeInv, RoundsLeft, EventsNamed

LEMMA TypePreserve == TypeInv /\ Preserve => TypeInv'
<1> SUFFICES ASSUME TypeInv, Preserve PROVE TypeInv'
    OBVIOUS
<1> DEFINE t == LeastOf(todo)
<1>1. todo # {} => t \in Tids /\ DOMAIN Just(t, coll.relay[t]) \subseteq Tids
  BY LeastIsMember DEF TypeInv, ControlOK, Just
<1>2. \/ UNCHANGED kernel
      \/ todo # {} /\ Continue(Just(t, coll.relay[t]), FALSE)
      \/ todo # {} /\ Listen(t)
  BY DEF Preserve
<1>3. KernelOK'
  BY <1>1, <1>2, KernelUnchanged, KernelContinue, KernelListen DEF TypeInv
<1>4. /\ pc' \in {"preserve", "detach", "drain"} /\ todo' \subseteq Tids /\ rc' \in {0, -1}
      /\ groupStop' \in BOOLEAN /\ forkRc' \in Fatal \cup {"none", "failed", "exited", "KILL"}
  BY ReturnsOK DEF TypeInv, ControlOK, Preserve
<1>5. ControlOK'
  BY <1>4 DEF TypeInv, ControlOK, Preserve, Steps, thr, crash
<1> QED BY <1>3, <1>4, <1>5 DEF TypeInv, RoundsLeft, EventsNamed

LEMMA TypeRestore == TypeInv /\ Restore => TypeInv'
<1> SUFFICES ASSUME TypeInv, Restore PROVE TypeInv'
    OBVIOUS
<1>1. KernelOK'
  BY KernelContinue DEF TypeInv, ControlOK, Restore
<1>2. /\ pc' \in {"detach", "drain"} /\ todo' \subseteq Tids /\ rc' \in {0, -1}
      /\ groupStop' \in BOOLEAN /\ forkRc' \in Fatal \cup {"none", "failed", "exited", "KILL"}
  BY ReturnsOK DEF TypeInv, ControlOK, Restore
<1>3. ControlOK'
  BY <1>2 DEF TypeInv, ControlOK, Restore, Steps, thr, crash
<1> QED BY <1>1, <1>2, <1>3 DEF TypeInv, RoundsLeft, EventsNamed

LEMMA TypeMeta == TypeInv /\ Meta => TypeInv'
<1> SUFFICES ASSUME TypeInv, Meta PROVE TypeInv'
    OBVIOUS
<1>1. KernelOK'
  BY KernelUnchanged DEF TypeInv, Meta
<1>2. pc' \in {"loads", "inject", "restore"}
  BY DEF Meta, Goto
<1>3. ControlOK'
  BY <1>2 DEF TypeInv, ControlOK, Meta, Steps, thr, crash, loop, ends
<1> QED BY <1>1, <1>2, <1>3 DEF TypeInv, RoundsLeft, EventsNamed

LEMMA TypeLoads == TypeInv /\ (Loads \/ ResumeAll) => TypeInv'
<1> SUFFICES ASSUME TypeInv, Loads \/ ResumeAll PROVE TypeInv'
    OBVIOUS
<1>1. coll.tids \subseteq Tids
  BY DEF TypeInv, ControlOK, Collections
<1>2. KernelOK'
  <2>1. \/ UNCHANGED kernel \/ Continue([t \in coll.tids |-> coll.relay[t]], FALSE)
        \/ Continue([t \in coll.tids |-> IF t = Leader THEN "none" ELSE coll.relay[t]], FALSE)
    BY DEF Loads, ResumeAll
  <2> QED BY <1>1, <2>1, KernelContinue, KernelUnchanged DEF TypeInv
<1>3. pc' \in {"commit", "restore", "child"}
  BY DEF Loads, ResumeAll, Goto
<1>4. UNCHANGED <<todo, tid, status, thr, crash, coll, loop, shot, req, ends>>
  BY DEF Loads, ResumeAll
<1>5. ControlOK'
  BY <1>3, <1>4 DEF TypeInv, ControlOK, Steps, thr, crash, loop, ends
<1> QED BY <1>2, <1>3, <1>5 DEF TypeInv, RoundsLeft, EventsNamed

LEMMA TypeInject == TypeInv /\ Inject => TypeInv'
<1> SUFFICES ASSUME TypeInv, Inject PROVE TypeInv'
    OBVIOUS
<1>1. Alive(Leader) /\ \E sig \in Signals \cup {"none"} : RunInjected(sig)
  BY DEF Inject, PendingFor
<1>2. KernelOK'
  BY <1>1, KernelRunInjected DEF TypeInv
<1>3. coll' \in Collections
  <2>1. coll' = coll \/ \E s \in Signals : coll' = [coll EXCEPT !.relay[Leader] = s]
    BY DEF Inject, PendingFor
  <2> QED BY <2>1 DEF TypeInv, ControlOK, Collections
<1>4. shot' = shot
  BY DEF Inject
<1>5. /\ pc' \in {"resume", "restore", "detach", "drain"} /\ todo' \subseteq Tids /\ rc' \in {0, -1}
      /\ groupStop' \in BOOLEAN /\ forkRc' \in Fatal \cup {"none", "failed", "exited", "KILL"}
  BY <1>4, ReturnsOK DEF TypeInv, ControlOK, Inject, Goto
<1>6. ControlOK'
  BY <1>3, <1>4, <1>5, LeaderIsThread DEF TypeInv, ControlOK, Inject, Steps, thr
<1> QED BY <1>2, <1>5, <1>6 DEF TypeInv, RoundsLeft, EventsNamed

LEMMA TypeInjectInVain == TypeInv /\ InjectInVain => TypeInv'
<1> SUFFICES ASSUME TypeInv, InjectInVain PROVE TypeInv'
    OBVIOUS
<1>1. KernelOK'
  <2>1. UNCHANGED kernel \/ WaitExit(Leader) \/ Continue(Just(Leader, "none"), FALSE)
    BY DEF InjectInVain
  <2>2. DOMAIN Just(Leader, "none") \subseteq Tids
    BY LeaderIsThread DEF Just
  <2> QED BY <2>1, <2>2, LeaderIsThread, KernelContinue, KernelWaitExit, KernelUnchanged DEF TypeInv
<1>2. shot' \in [snap : Tids, failed : BOOLEAN, result : Fatal \cup {"none", "grouped"}]
  <2>1. \E b \in BOOLEAN : shot' = [shot EXCEPT !.failed = b]
    BY DEF InjectInVain
  <2> QED BY <2>1 DEF TypeInv, ControlOK
<1>3. pc' = "restore"
  BY DEF InjectInVain, Goto
<1>4. ControlOK'
  BY <1>2, <1>3 DEF TypeInv, ControlOK, InjectInVain, Steps, thr, crash, loop, ends
<1> QED BY <1>1, <1>3, <1>4 DEF TypeInv, RoundsLeft, EventsNamed

LEMMA VerdictsOK == Verdicts \subseteq Fatal \cup {"exited", "KILL"}
BY DEF Verdicts

LEMMA TypeInjectDeath == TypeInv /\ InjectDeath => TypeInv'
<1> SUFFICES ASSUME TypeInv, InjectDeath PROVE TypeInv'
    OBVIOUS
<1>1. KernelOK'
  <2>1. UNCHANGED kernel \/ WaitExit(Leader)
    BY DEF InjectDeath
  <2> QED BY <2>1, LeaderIsThread, KernelWaitExit, KernelUnchanged DEF TypeInv
<1>2. shot' \in [snap : Tids, failed : BOOLEAN, result : Fatal \cup {"none", "grouped"}]
  <2>1. \E b \in BOOLEAN : shot' = [shot EXCEPT !.failed = b]
    BY DEF InjectDeath
  <2> QED BY <2>1 DEF TypeInv, ControlOK
<1>3. PICK v \in Fatal \cup {"exited"} : ForkcoreReturns(v)
  BY VerdictsOK DEF InjectDeath
<1>4. /\ pc' \in {"detach", "drain"} /\ todo' \subseteq Tids /\ rc' \in {0, -1}
      /\ groupStop' \in BOOLEAN /\ forkRc' \in Fatal \cup {"none", "failed", "exited", "KILL"}
  BY <1>2, <1>3, ReturnsOK DEF TypeInv
<1>5. crashTid' \in Tids \cup {0}
  BY LeaderIsThread DEF InjectDeath, TypeInv, ControlOK
<1>6. ControlOK'
  BY <1>2, <1>4, <1>5 DEF TypeInv, ControlOK, InjectDeath, Steps, thr
<1> QED BY <1>1, <1>4, <1>6 DEF TypeInv, RoundsLeft, EventsNamed, InjectDeath

LEMMA TypeDumpChild == TypeInv /\ DumpChild => TypeInv'
<1> SUFFICES ASSUME TypeInv, DumpChild PROVE TypeInv'
    OBVIOUS
<1>1. KernelOK'
  BY KernelChildDies DEF TypeInv, DumpChild
<1>2. pc' \in {"finish", "late"}
  BY DEF DumpChild, Goto
<1>3. ControlOK'
  BY <1>2 DEF TypeInv, ControlOK, DumpChild, Steps, thr, crash, loop, ends
<1> QED BY <1>1, <1>2, <1>3 DEF TypeInv, RoundsLeft, EventsNamed

LEMMA FailedOK ==
  ASSUME ControlOK, shot' = shot \/ shot' = [shot EXCEPT !.failed = TRUE]
  PROVE  shot' \in [snap : Tids, failed : BOOLEAN, result : Fatal \cup {"none", "grouped"}]
  BY DEF ControlOK

LEMMA TypeLate == TypeInv /\ Late => TypeInv'
<1> SUFFICES ASSUME TypeInv, Late PROVE TypeInv'
    OBVIOUS
<1>1. KernelOK'
  BY LeaderIsThread, KernelInterrupt, KernelUnchanged DEF TypeInv, Late
<1>2. shot' \in [snap : Tids, failed : BOOLEAN, result : Fatal \cup {"none", "grouped"}]
  BY FailedOK DEF TypeInv, Late
<1>3. /\ pc' \in {"lateWait", "detach", "drain"} /\ todo' \subseteq Tids /\ rc' \in {0, -1}
      /\ groupStop' \in BOOLEAN /\ forkRc' \in Fatal \cup {"none", "failed", "exited", "KILL"}
  BY <1>2, ReturnsOK DEF TypeInv, ControlOK, Late, Goto
<1>4. ControlOK'
  BY <1>2, <1>3 DEF TypeInv, ControlOK, Late, Steps, thr, crash
<1> QED BY <1>1, <1>3, <1>4 DEF TypeInv, RoundsLeft, EventsNamed

LEMMA TypeFinish == TypeInv /\ Finish => TypeInv'
<1> SUFFICES ASSUME TypeInv, Finish PROVE TypeInv'
    OBVIOUS
<1>1. KernelOK'
  <2>1. WaitStop(Leader) \/ Interrupt(Leader) \/ WaitExit(Leader) \/ UNCHANGED kernel
    BY DEF Finish
  <2> QED BY <2>1, LeaderIsThread, KernelWaitStop, KernelInterrupt, KernelWaitExit, KernelUnchanged
          DEF TypeInv
<1>2. shot' \in [snap : Tids, failed : BOOLEAN, result : Fatal \cup {"none", "grouped"}]
  BY FailedOK DEF TypeInv, Finish
<1>3. /\ pc' \in {"settle", "finishWait", "detach", "drain"} /\ todo' \subseteq Tids /\ rc' \in {0, -1}
      /\ groupStop' \in BOOLEAN /\ forkRc' \in Fatal \cup {"none", "failed", "exited", "KILL"}
  <2>1. ASSUME NEW v \in Fatal \cup {"failed", "exited", "KILL"}, ForkcoreReturns(v)
        PROVE  /\ pc' \in {"detach", "drain"} /\ todo' \subseteq Tids /\ rc' \in {0, -1}
               /\ groupStop' \in BOOLEAN /\ forkRc' \in Fatal \cup {"none", "failed", "exited", "KILL"}
    BY <1>2, <2>1, ReturnsOK DEF TypeInv
  <2>2. \/ pc' \in {"settle", "finishWait"} /\ UNCHANGED <<todo, rc, groupStop, forkRc>>
        \/ \E v \in Fatal \cup {"failed", "exited", "KILL"} : ForkcoreReturns(v)
    BY VerdictsOK DEF Finish, Goto
  <2> QED BY <2>1, <2>2 DEF TypeInv, ControlOK
<1>4. status' \in Stops
  BY LeaderIsThread DEF Finish, TypeInv, ControlOK, KernelOK
<1>5. ControlOK'
  BY <1>2, <1>3, <1>4 DEF TypeInv, ControlOK, Finish, Steps, thr, crash
<1>6. EventsNamed'
  <2>1. CASE pc' = "settle"
    <3>1. WaitStop(Leader) /\ status' = stop[Leader]
      BY <2>1, <1>2, ReturnsOK DEF Finish, Goto, ForkcoreReturns, Quit
    <3> QED BY <2>1, <3>1 DEF EventsNamed, ReportsClone, WaitStop
  <2> QED BY <1>3, <2>1 DEF EventsNamed
<1> QED BY <1>1, <1>3, <1>5, <1>6 DEF TypeInv, RoundsLeft


LEMMA TypeSettle == TypeInv /\ Settle => TypeInv'
<1> SUFFICES ASSUME TypeInv, Settle PROVE TypeInv'
    OBVIOUS
<1>1. DOMAIN Just(Leader, status) \subseteq Tids /\ DOMAIN Just(Leader, "none") \subseteq Tids
  BY LeaderIsThread DEF Just
<1>2. \/ Listen(Leader)
      \/ status = "clone" /\ AfterClone(Leader, TRUE, TRUE)
      \/ Continue(Just(Leader, "none"), FALSE)
      \/ Continue(Just(Leader, status), FALSE)
      \/ UNCHANGED kernel
      \/ \E s \in PendingFor(Leader) : RunInjected(s)
  BY DEF Settle
<1>3. KernelOK'
  <2>1. status = "clone" => child[Leader] \in Tids /\ task[child[Leader]] # "dying"
    BY LeaderIsThread DEF TypeInv, EventsNamed, ReportsClone, Settle, KernelOK, AliveThreads, Alive
  <2>2. ASSUME NEW s \in PendingFor(Leader), RunInjected(s) PROVE KernelOK'
    <3>1. s \in Signals \cup {"none"} /\ Alive(Leader)
      BY DEF PendingFor, Settle
    <3> QED BY <2>2, <3>1, KernelRunInjected DEF TypeInv
  <2>3. CASE status = "clone" /\ AfterClone(Leader, TRUE, TRUE)
    BY <2>1, <2>3, LeaderIsThread, KernelAfterClone DEF TypeInv
  <2> QED BY <1>1, <1>2, <2>2, <2>3, LeaderIsThread, KernelListen, KernelContinue, KernelUnchanged
          DEF TypeInv
<1>4. /\ status' \in Stops /\ pc' \in {"settle", "commit"} /\ (pc' = "settle" => status' # "clone")
  BY SignalFacts DEF Settle, Settled, Goto, TypeInv, ControlOK, PendingFor
<1>5. shot' \in [snap : Tids, failed : BOOLEAN, result : Fatal \cup {"none", "grouped"}]
  <2>1. \E v \in Fatal \cup {"none", "grouped"} : shot' = [shot EXCEPT !.result = v] \/ shot' = shot
    BY DEF Settle, Settled
  <2> QED BY <2>1 DEF TypeInv, ControlOK
<1>6. ControlOK'
  BY <1>4, <1>5 DEF TypeInv, ControlOK, Settle, Steps, thr, crash, loop, ends
<1> QED BY <1>3, <1>4, <1>6 DEF TypeInv, RoundsLeft, EventsNamed

LEMMA TypeSettleKilled == TypeInv /\ SettleKilled => TypeInv'
<1> SUFFICES ASSUME TypeInv, SettleKilled PROVE TypeInv'
    OBVIOUS
<1>1. KernelOK'
  BY KernelUnchanged DEF TypeInv, SettleKilled
<1>2. shot' \in [snap : Tids, failed : BOOLEAN, result : Fatal \cup {"none", "grouped"}]
  <2>1. (status \in {"intr", "clone"}) \in BOOLEAN
    OBVIOUS
  <2>2. \E b \in BOOLEAN, v \in Fatal \cup {"none", "grouped"} :
          shot' = [shot EXCEPT !.failed = b, !.result = v]
    BY <2>1 DEF SettleKilled
  <2> QED BY <2>2 DEF TypeInv, ControlOK
<1>3. ControlOK'
  BY <1>2 DEF TypeInv, ControlOK, SettleKilled, Goto, Steps, thr, crash, loop, ends
<1> QED BY <1>1, <1>3 DEF TypeInv, RoundsLeft, EventsNamed, SettleKilled, Goto

LEMMA TypeCommit == TypeInv /\ Commit => TypeInv'
<1> SUFFICES ASSUME TypeInv, Commit PROVE TypeInv'
    OBVIOUS
<1>1. KernelOK'
  BY KernelUnchanged DEF TypeInv, Commit
<1>2. shot.result \in Fatal \cup {"none", "grouped"}
  BY DEF TypeInv, ControlOK
<1>3. /\ pc' \in {"detach", "drain"} /\ todo' \subseteq Tids /\ rc' \in {0, -1}
      /\ groupStop' \in BOOLEAN /\ forkRc' \in Fatal \cup {"none", "failed", "exited", "KILL"}
  BY <1>2, ReturnsOK DEF TypeInv, ControlOK, Commit
<1>4. published' \subseteq {"snapshot", "core"}
  BY DEF TypeInv, ControlOK, Commit
<1>5. ControlOK'
  BY <1>3, <1>4 DEF TypeInv, ControlOK, Commit, Steps, thr, crash
<1> QED BY <1>1, <1>3, <1>5 DEF TypeInv, RoundsLeft, EventsNamed

-----------------------------------------------------------------------------
(* The crash                                                               *)

LEMMA TypeCore == TypeInv /\ (Core \/ CoreLoads \/ CoreCommit) => TypeInv'
<1> SUFFICES ASSUME TypeInv, Core \/ CoreLoads \/ CoreCommit PROVE TypeInv'
    OBVIOUS
<1>1. KernelOK'
  BY KernelUnchanged DEF TypeInv, Core, CoreLoads, CoreCommit
<1>2. /\ pc' \in {"coreLoads", "kill", "returned"} /\ rc' \in {0, -1}
      /\ published' \subseteq {"snapshot", "core"}
  BY DEF TypeInv, ControlOK, Core, CoreLoads, CoreCommit, Goto
<1>3. ControlOK'
  BY <1>2 DEF TypeInv, ControlOK, Core, CoreLoads, CoreCommit, Steps, thr, crash, loop
<1> QED BY <1>1, <1>2, <1>3 DEF TypeInv, RoundsLeft, EventsNamed

LEMMA TypeKillCrashed == TypeInv /\ KillCrashed => TypeInv'
<1> SUFFICES ASSUME TypeInv, KillCrashed PROVE TypeInv'
    OBVIOUS
<1>1. \E S \in SUBSET mtids : ReleaseCrashed(S)
  BY DEF KillCrashed
<1>2. KernelOK'
  <2>1. PICK S \in SUBSET mtids : Continue([t \in S |-> exitSig], TRUE)
    BY <1>1 DEF ReleaseCrashed
  <2> QED BY <2>1, KernelContinue DEF TypeInv, ControlOK
<1>3. rc' \in {0, -1} /\ pc' \in {"coreCommit", "returned"} /\ mtids' = {}
  BY DEF KillCrashed, Goto, TypeInv, ControlOK
<1>4. ControlOK'
  BY <1>3 DEF TypeInv, ControlOK, KillCrashed, Steps, crash, loop
<1> QED BY <1>2, <1>3, <1>4 DEF TypeInv, RoundsLeft, EventsNamed

-----------------------------------------------------------------------------

LEMMA TypeStep == TypeInv /\ [Next]_vars => TypeInv'
<1> SUFFICES ASSUME TypeInv, [Next]_vars PROVE TypeInv'
    OBVIOUS
<1>1. CASE UNCHANGED vars
  BY <1>1, KernelUnchanged
     DEF vars, kernel, arthur, ctl, thr, crash, loop, ends, TypeInv, ControlOK, RoundsLeft, EventsNamed,
         ReportsClone, AliveThreads, Alive
<1>2. CASE SeizeList \/ SeizeEach \/ SeizeEnd \/ RollbackNext \/ RollbackWait
           \/ DetachPoll \/ DetachRegs \/ DetachWait \/ DetachEnd
  BY <1>2, TypeSeizeList, TypeSeizeEach, TypeSeizeEnd, TypeRollback, TypeDetachPoll, TypeDetachRegs,
     TypeDetachWait, TypeDetachEnd
<1>3. CASE DrainStart \/ Poll \/ PassEnd \/ Dispatch \/ AwaitSignal
           \/ HandleClone \/ HandleExit \/ HandleExec \/ HandleGroupStop \/ HandleInterrupt
           \/ HandleFatal \/ HandleSignal \/ HandleKilled
  BY <1>3, TypeDrainStart, TypePoll, TypePassEnd, TypeDispatch, TypeAwaitSignal, TypeHandleClone,
     TypeHandleExit, TypeHandleExec, TypeHandleStop, TypeHandleFatal, TypeHandleKilled
<1>4. CASE CollectStart \/ CollectList \/ CollectPoll \/ CollectRegs \/ CollectWait \/ CollectConfirm
  BY <1>4, TypeCollectStart, TypeCollectList, TypeCollectPoll, TypeCollectRegs, TypeCollectWait,
     TypeCollectConfirm
<1>5. CASE DumpStart \/ Abandon \/ Preserve \/ Restore \/ Meta \/ Loads
           \/ Inject \/ InjectInVain \/ InjectDeath \/ ResumeAll \/ DumpChild \/ Late
           \/ Finish \/ Settle \/ SettleKilled \/ Commit
  BY <1>5, TypeDumpStart, TypeAbandon, TypePreserve, TypeRestore, TypeMeta, TypeLoads, TypeInject,
     TypeInjectInVain, TypeInjectDeath, TypeDumpChild, TypeLate, TypeFinish, TypeSettle,
     TypeSettleKilled, TypeCommit
<1>6. CASE Core \/ CoreLoads \/ KillCrashed \/ CoreCommit
  BY <1>6, TypeCore, TypeKillCrashed
<1>7. CASE Request \/ Watched
  BY <1>7, TypeRequest, TypeWatched
<1> QED BY <1>1, <1>2, <1>3, <1>4, <1>5, <1>6, <1>7 DEF Next, Arthur

LEMMA TypeImplied == TypeInv => TypeOK
  BY DEF TypeInv, KernelOK, ControlOK, Collections, TypeOK

\* The inductive invariant behind the types of Arthur's variables and the kernel's.
THEOREM TypeInvariant == Spec => []TypeInv
  BY TypeInit, TypeStep, PTL DEF Spec

\* Whatever the number of threads, signals, exits, execs and snapshots, every
\* variable of the kernel and of Arthur keeps its type, and only a traced thread
\* has a stop that waitpid has not returned.
THEOREM TypeCorrect == Spec => []TypeOK
  BY TypeInvariant, TypeImplied, PTL
=============================================================================
