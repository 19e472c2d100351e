-------------------------- MODULE MonitorVigilProofs ---------------------------
(***************************************************************************)
(* What Arthur knows of the target it watches.                             *)
(*                                                                         *)
(* Up to the last sections MaxDumps = 0: no SIGUSR1 comes, so no step of   *)
(* forkcore_m is reached and threads are collected for a crash only        *)
(* (NoSnapshots).  A snapshot resumes threads by its own lists, and part   *)
(* of what is shown here is false with one (README).                       *)
(*                                                                         *)
(*   - Ranked, Named, Enrolled, ReadTrue: the stop that Arthur handles is  *)
(*     the one the thread stands at.  Tasks are numbered as they are       *)
(*     created, a clone event names a younger task, and only exec puts     *)
(*     one thread in the place of another.  So nothing that stands in a    *)
(*     group-stop is resumed.                                              *)
(*   - Watch: every traced thread is in monitored_tids, is announced by a  *)
(*     clone event yet to be handled, or ends an exec (Roster); a round    *)
(*     of monitor_threads that found nobody new left nobody out            *)
(*     (Complete).                                                         *)
(*   - Sworn: a thread that stands at a signal is one whose stop is yet    *)
(*     to be told, is being handled, or is kept for the crash, so the      *)
(*     call that resumes it carries its signal.                            *)
(*   - Rest: a thread that stands at a stop waits for Arthur to read it,   *)
(*     and has left a SIGCHLD unless the pass under way is still to reach  *)
(*     it (Awake); what is let go at the end accounts for every task that  *)
(*     is traced (Accounted).                                              *)
(*   - Job: when process_in_group_stop differs from the process, somebody  *)
(*     has yet to tell (Behind, Ends).                                     *)
(*                                                                         *)
(* The last sections have snapshots: RelayInv says what Arthur means to do *)
(* about a signal that waitpid has told it of, from the stop to the        *)
(* resumption, in drain_monitor_events, a collection, an injected call     *)
(* and after the dump.                                                     *)
(***************************************************************************)
EXTENDS MonitorCrashProofs

Seizing == {"seize", "seizeEach"}
Polling == {"drain", "poll", "handle", "dispatch", "wait"}
Watching == Seizing \cup Polling
OfCrash == Collecting \cup {"collect", "kill", "core", "coreLoads"}

\* Without SIGUSR1 no step of forkcore_m is reached, and threads are collected for a
\* crash only.
NoSnapshots ==
  /\ ~req.usr1 /\ req.dumps = 0 /\ ~wanted /\ forkRc = "none" /\ coll.caller # "dump"
  /\ pc \in Watching \cup Leaving \cup OfCrash
  /\ pc \in OfCrash \cup {"coreCommit"} => exitSig # "none"
  /\ pc \in OfCrash \ {"collect"} => coll.caller = "crash"
  /\ pc \in Seizing \cup {"rollback", "rollbackWait", "dispatch", "wait"} => exitSig = "none"

-----------------------------------------------------------------------------
(* No snapshots                                                            *)

LEMMA NoSnapshotsInit == MaxDumps = 0 /\ Init => NoSnapshots
<1> SUFFICES ASSUME MaxDumps = 0, Init PROVE NoSnapshots
    OBVIOUS
<1>1. ~wanted
  BY Zenon DEF Init
<1> QED BY <1>1 DEF Init, NoSnapshots, NoCollection, Watching, Seizing, OfCrash, Collecting

\* The steps of forkcore_m are out of reach.
LEMMA OutOfReach ==
  NoSnapshots => ~(\/ DumpStart \/ Abandon \/ Preserve \/ Restore \/ Meta \/ Loads \/ Inject \/ InjectInVain
                   \/ InjectDeath \/ ResumeAll \/ DumpChild \/ Late \/ Finish \/ Settle \/ SettleKilled \/ Commit)
<1> SUFFICES ASSUME NoSnapshots
             PROVE  ~(\/ DumpStart \/ Abandon \/ Preserve \/ Restore \/ Meta \/ Loads \/ Inject \/ InjectInVain
                      \/ InjectDeath \/ ResumeAll \/ DumpChild \/ Late \/ Finish \/ Settle \/ SettleKilled \/ Commit)
    OBVIOUS
<1>1. pc \in Watching \cup Leaving \cup OfCrash
  BY DEF NoSnapshots
<1> USE <1>1 DEF Watching, Seizing, Polling, Leaving, OfCrash, Collecting
<1>2. ~(DumpStart \/ Abandon \/ Preserve \/ Restore \/ Meta \/ Loads)
  BY DEF DumpStart, Abandon, Preserve, Restore, Meta, Loads
<1>3. ~(\/ Inject \/ InjectInVain \/ InjectDeath \/ ResumeAll \/ DumpChild \/ Late \/ Finish \/ Settle
        \/ SettleKilled \/ Commit)
  BY DEF Inject, InjectInVain, InjectDeath, ResumeAll, DumpChild, Late, Finish, Settle, SettleKilled, Commit
<1> QED BY <1>2, <1>3

LEMMA OnlyWatching ==
  ASSUME NoSnapshots, Next
  PROVE  \/ SeizeList \/ SeizeEach \/ SeizeEnd
         \/ RollbackNext \/ RollbackWait \/ DetachPoll \/ DetachRegs \/ DetachWait \/ DetachEnd
         \/ DrainStart \/ Poll \/ PassEnd \/ Dispatch \/ AwaitSignal \/ Request
         \/ HandleClone \/ HandleExit \/ HandleExec \/ HandleGroupStop \/ HandleInterrupt
         \/ HandleFatal \/ HandleSignal \/ HandleKilled
         \/ CollectStart \/ CollectList \/ CollectPoll \/ CollectRegs \/ CollectWait \/ CollectConfirm
         \/ Core \/ CoreLoads \/ KillCrashed \/ CoreCommit \/ Watched
  BY OutOfReach DEF Next, Arthur

LEMMA NoSnapshotsStep ==
  MaxDumps = 0 /\ TypeInv /\ Accused /\ NoSnapshots /\ [Next]_vars => NoSnapshots'
<1> SUFFICES ASSUME MaxDumps = 0, TypeInv, Accused, NoSnapshots, [Next]_vars PROVE NoSnapshots'
    OBVIOUS
<1> DEFINE Same == UNCHANGED <<req, wanted, forkRc>>
           Kind == pc' \in Watching \cup Leaving \cup OfCrash
           Crashed == /\ pc' \in OfCrash \cup {"coreCommit"} => exitSig' # "none"
                      /\ pc' \in OfCrash \ {"collect"} => coll'.caller = "crash"
           Calm == pc' \in Seizing \cup {"rollback", "rollbackWait", "dispatch", "wait"} => exitSig' = "none"
<1>1. Same /\ coll'.caller # "dump" /\ Kind /\ Crashed /\ Calm => NoSnapshots'
  BY DEF NoSnapshots
<1> USE DEF Goto
<1>2. CASE UNCHANGED vars \/ Watched
  <2>1. UNCHANGED arthur
    BY <1>2 DEF Watched, vars
  <2> QED BY <2>1 DEF arthur, ctl, crash, loop, NoSnapshots
<1>3. CASE SeizeList \/ SeizeEach \/ SeizeEnd
  <2>1. pc \in Seizing /\ pc' \in Seizing \cup {"rollback", "drain"} /\ exitSig' = exitSig /\ Same
    BY <1>3 DEF SeizeList, SeizeEach, SeizeEnd, Rollback, crash, loop, Seizing
  <2>2. coll'.caller = coll.caller \/ coll' = NoCollection
    BY <1>3 DEF SeizeList, SeizeEach, SeizeEnd, TypeInv, ControlOK, Collections
  <2>3. coll'.caller # "dump"
    BY <2>2 DEF NoSnapshots, NoCollection
  <2> QED BY <1>1, <2>1, <2>3 DEF NoSnapshots, Seizing, Watching, Polling, Leaving, OfCrash, Collecting
<1>4. CASE RollbackNext \/ RollbackWait \/ DetachPoll \/ DetachRegs \/ DetachWait \/ DetachEnd \/ CoreCommit
  <2>1. /\ pc' \in Leaving \ {"coreCommit"} /\ exitSig' = exitSig /\ Same /\ coll' = coll
        /\ pc' \in {"rollback", "rollbackWait"} => pc \in {"rollback", "rollbackWait"}
    BY <1>4 DEF RollbackNext, RollbackWait, DetachPoll, DetachRegs, DetachWait, DetachEnd, CoreCommit, crash, loop, Leaving
  <2> QED BY <1>1, <2>1 DEF NoSnapshots, Seizing, Leaving, OfCrash, Collecting
<1>5. CASE DrainStart \/ Poll \/ HandleClone \/ HandleExit \/ HandleExec \/ HandleGroupStop \/ HandleInterrupt
           \/ HandleFatal \/ HandleSignal \/ HandleKilled
  <2>1. pc' \in {"poll", "handle", "detach", "returned"} /\ Same
    BY <1>5 DEF DrainStart, Poll, HandleClone, HandleExit, HandleExec, HandleGroupStop, HandleInterrupt, HandleFatal,
           HandleSignal, HandleKilled, Handled, Quit
  <2>2. coll'.caller = coll.caller
    BY <1>5 DEF DrainStart, Poll, HandleClone, HandleExit, HandleExec, HandleGroupStop, HandleInterrupt, HandleFatal,
           HandleSignal, HandleKilled, TypeInv, ControlOK, Collections
  <2> QED BY <1>1, <2>1, <2>2 DEF NoSnapshots, Seizing, Watching, Polling, Leaving, OfCrash, Collecting
<1>6. CASE PassEnd
  <2>1. /\ pc' \in {"detach", "returned", "drain", "collect", "dispatch"} /\ Same /\ coll' = coll /\ exitSig' = exitSig
        /\ (pc' = "collect" => exitSig # "none") /\ (pc' = "dispatch" => exitSig = "none")
    BY <1>6 DEF PassEnd, Quit, crash, loop
  <2> QED BY <1>1, <2>1 DEF NoSnapshots, Seizing, Watching, Polling, Leaving, OfCrash, Collecting
<1>7. CASE Dispatch
  <2>1. pc' = "wait" /\ UNCHANGED <<wanted, forkRc, req, coll, exitSig>>
    BY <1>7, ResultFacts DEF Dispatch, NoSnapshots, crash, loop
  <2> QED BY <1>1, <1>7, <2>1 DEF NoSnapshots, Watching, Polling, OfCrash, Collecting, Dispatch
<1>8. CASE AwaitSignal
  <2>1. /\ pc' \in {"detach", "drain"} /\ UNCHANGED <<wanted, forkRc, coll, exitSig>>
        /\ ~req'.usr1 /\ req'.dumps = req.dumps
    BY <1>8 DEF AwaitSignal, NoSnapshots, Quit, crash, TypeInv, ControlOK
  <2> QED BY <2>1 DEF NoSnapshots, Seizing, Watching, Polling, Leaving, OfCrash, Collecting
<1>9. CASE Request
  <2>1. ~req'.usr1 /\ req'.dumps = req.dumps /\ UNCHANGED <<pc, wanted, forkRc, coll, exitSig>>
    BY <1>9 DEF Request, NoSnapshots, TypeInv, ControlOK, ctl, crash, loop
  <2> QED BY <2>1 DEF NoSnapshots
<1>10. CASE CollectStart \/ CollectList \/ CollectPoll \/ CollectRegs \/ CollectWait
  <2>1. pc \in Collecting \cup {"collect"} /\ exitSig # "none" /\ exitSig' = exitSig /\ Same
    BY <1>10 DEF CollectStart, CollectList, CollectPoll, CollectRegs, CollectWait, crash, loop, Collecting, NoSnapshots,
                 OfCrash
  <2>2. pc' \in Collecting \cup {"kill"} /\ coll'.caller = "crash"
    <3>1. CASE CollectStart
      BY <2>1, <3>1 DEF CollectStart, NoCollection, Collecting
    <3>2. CASE ~CollectStart
      <4>1. coll.caller = "crash"
        BY <1>10, <3>2 DEF CollectList, CollectPoll, CollectRegs, CollectWait, NoSnapshots, OfCrash, Collecting
      <4>2. pc' \in Collecting \cup {"kill"}
        BY <1>10, <3>2, <4>1 DEF CollectList, CollectPoll, CollectRegs, CollectWait, CollectFails, Collecting
      <4>3. coll'.caller = coll.caller
        BY <1>10, <3>2 DEF CollectList, CollectPoll, CollectRegs, CollectWait, RecordStop, TypeInv, ControlOK, Collections
      <4> QED BY <4>1, <4>2, <4>3
    <3> QED BY <3>1, <3>2
  <2> QED BY <1>1, <2>1, <2>2 DEF Seizing, Watching, Polling, Leaving, OfCrash, Collecting
<1>11. CASE CollectConfirm
  <2>1. exitSig # "none" /\ exitSig' = exitSig /\ Same /\ coll.caller = "crash" /\ crashTid # 0
    BY <1>11 DEF CollectConfirm, crash, loop, Collecting, NoSnapshots, OfCrash, Accused
  <2>2. pc' \in {"kill", "list", "core"}
    BY <1>11, <2>1 DEF CollectConfirm, CollectFails
  <2>3. coll'.caller = "crash"
    BY <1>11, <2>1 DEF CollectConfirm, TypeInv, ControlOK, Collections
  <2> QED BY <1>1, <2>1, <2>2, <2>3 DEF Seizing, Watching, Polling, Leaving, OfCrash, Collecting
<1>12. CASE Core \/ CoreLoads \/ KillCrashed
  <2>1. pc \in OfCrash \ {"collect"} /\ exitSig' = exitSig /\ Same /\ coll' = coll
        /\ pc' \in {"coreLoads", "kill", "coreCommit", "returned"}
    BY <1>12 DEF Core, CoreLoads, KillCrashed, crash, loop, OfCrash, Collecting
  <2> QED BY <1>1, <2>1 DEF NoSnapshots, Seizing, Leaving, OfCrash, Collecting
<1>13. CASE Next
  BY <1>13, OnlyWatching, <1>2, <1>3, <1>4, <1>5, <1>6, <1>7, <1>8, <1>9, <1>10, <1>11, <1>12
<1> QED BY <1>2, <1>13

-----------------------------------------------------------------------------
(* The kernel, exec included                                               *)

\* All that is left of the process is a thread in exec.
AllExec == \A t \in AliveThreads : task[t] = "exec"

\* Tasks are created in the order of their numbers and a clone event names a younger
\* task, another for each event; exec leaves one thread, which is the leader when it
\* is done; nobody is made to die but by exec, and nobody traced is gone.
Ranked ==
  /\ Exists(Leader)
  /\ \A t, u \in Tids : t < u /\ Exists(u) => Exists(t)
  /\ \A t \in Tids :
       /\ stop[t] = "clone" => Exists(child[t]) /\ t < child[t]
       /\ \A u \in Tids \ {t} : stop[t] = "clone" /\ stop[u] = "clone" => child[u] # child[t]
       /\ stop[t] = "exec" => t = Leader /\ AliveThreads \subseteq {Leader}
       /\ task[t] = "exec" => t \in Threads /\ AliveThreads \subseteq {t}
       /\ task[t] = "dying" => AllExec
       /\ t \in traced => task[t] \notin {"none", "gone"}

\* What the target does besides exec: nobody traced dies unless all die or exec makes
\* it, and Arthur comes to trace only what a traced thread creates.
Steady ==
  /\ Moved /\ (AllExec => AllExec')
  /\ \A t \in traced' \ traced :
       ~Exists(t) /\ \E p \in AliveThreads \cap traced : ~Stopped(p) /\ stop'[p] = "clone" /\ child'[p] = t
  /\ \A t \in Tids :
       /\ task'[t] = "zombie" => task[t] = "zombie" \/ AliveThreads' = {} \/ t \notin traced
       /\ t \in traced /\ task'[t] = "gone" => task[t] = "gone"
       /\ stop'[t] = "exec" => stop[t] = "exec"
       /\ task'[t] = "dying" => task[t] = "dying"

LEMMA RankedSteady ==
  ASSUME KernelOK, Ranked, Target, \A t \in Threads : ~Exec(t) /\ ~ExecDone(t)
  PROVE  Ranked' /\ Steady
<1> USE LeaderIsThread DEF KernelOK, Ranked, Steady, Moved, AllExec, Exists, Tasks, Stops, Stopped, AliveThreads, Alive
<1>1. ASSUME NEW s \in Sent, Send(s) PROVE Ranked' /\ Steady
  BY <1>1 DEF Send
<1>2. ASSUME NEW t \in Threads, NEW s \in Signals, Dequeue(t, s) PROVE Ranked' /\ Steady
  <2>1. CASE t \in traced
    BY <1>2, <2>1, SignalFacts DEF Dequeue, EnterStop, Runs
  <2>2. CASE t \notin traced /\ s \in Fatal
    BY <1>2, <2>2 DEF Dequeue, Dead, NotIn
  <2>3. CASE t \notin traced /\ s \notin Fatal
    BY <1>2, <2>3, SignalFacts DEF Dequeue
  <2> QED BY <2>1, <2>2, <2>3
<1>3. ASSUME NEW t \in Threads, Trap(t) \/ Die(t) PROVE Ranked' /\ Steady
  BY <1>3 DEF Trap, Die, EnterStop
<1>4. ASSUME NEW t \in Threads, Clone(t) PROVE Ranked' /\ Steady
  <2>1. PICK n \in Tids : /\ task[n] = "none" /\ \A m \in Tids : m < n => task[m] # "none"
                          /\ task' = [task EXCEPT ![n] = "run"]
                          /\ IF t \in traced
                             THEN /\ stop' = [stop EXCEPT ![t] = "clone", ![n] = "intr"]
                                  /\ fresh' = fresh \cup {t, n} /\ traced' = traced \cup {n}
                                  /\ intr' = intr \ {t} /\ chld' = TRUE
                                  /\ child' = [child EXCEPT ![t] = n]
                             ELSE UNCHANGED <<stop, fresh, traced, intr, chld, child>>
    BY <1>4 DEF Clone
  <2>2. n # t /\ n # Leader /\ task[t] = "run" /\ stop[t] = "none" /\ stop[n] = "none"
    BY <1>4, <2>1 DEF Clone, Runs
  <2>3. t < n
    <3>1. t \in Int /\ n \in Int
      BY <1>4 DEF Tids, Threads
    <3>2. ~(n < t)
      BY <1>4, <2>1, <2>2 DEF Threads
    <3> QED BY <2>2, <3>1, <3>2
  <2>4. (\A u, v \in Tids : u < v /\ Exists(v) => Exists(u))'
    BY <1>4, <2>1, <2>2
  <2>5. \A u \in Tids : task[u] \notin {"exec", "dying"}
    BY <1>4, <2>2
  <2>6. t \in AliveThreads
    BY <1>4, <2>2
  <2>7. CASE t \in traced
    <3>1. Ranked'
      BY <1>4, <2>1, <2>2, <2>3, <2>4, <2>5, <2>6, <2>7
    <3>2. Grown(n)
      BY <1>4, <2>1, <2>2, <2>7 DEF Grown
    <3> QED BY <1>4, <2>1, <2>2, <2>3, <2>5, <2>7, <3>1, <3>2
  <2>8. CASE t \notin traced
    <3>1. Ranked'
      BY <1>4, <2>1, <2>2, <2>3, <2>4, <2>5, <2>6, <2>8
    <3>2. Grown(n)
      BY <1>4, <2>1, <2>2, <2>8 DEF Grown
    <3> QED BY <1>4, <2>1, <2>2, <2>5, <2>8, <3>1, <3>2
  <2> QED BY <2>7, <2>8
<1>5. ASSUME NEW t \in Threads, Exit(t) PROVE Ranked' /\ Steady
  BY <1>5 DEF Exit, Runs, EnterStop
<1>6. ASSUME NEW t \in Threads, Release(t) PROVE Ranked' /\ Steady
  BY <1>6 DEF Release, Listed
<1>7. ASSUME NEW t \in Threads, Sleep(t) \/ Wake(t) PROVE Ranked' /\ Steady
  BY <1>7 DEF Sleep, Wake, Runs
<1>8. ASSUME Kill PROVE Ranked' /\ Steady
  BY <1>8 DEF Kill, Dead, NotIn
<1> QED BY <1>1, <1>2, <1>3, <1>4, <1>5, <1>6, <1>7, <1>8 DEF Target, React

\* exec kills the other threads: those Arthur traces have to stop at their exit.
Executes(t) ==
  /\ AliveThreads' = {t} /\ task'[t] = "exec" /\ Alive(t) /\ stop[t] = "none" /\ UNCHANGED <<traced, child>>
  /\ \A u \in Tids :
       /\ \/ task'[u] = task[u] /\ (u = t \/ u \notin AliveThreads)
          \/ u = t
          \/ u \in AliveThreads /\ task'[u] \in {"dying", "zombie"} /\ (task'[u] = "zombie" => u \notin traced \/ stop[u] = "exit")
       /\ stop'[u] = stop[u] \/ stop'[u] = "none"
       /\ u \in Threads => stop'[u] = "none"
       /\ u \notin Threads => stop'[u] = stop[u] /\ (u \in fresh' <=> u \in fresh)
  /\ fresh' \subseteq fresh

LEMMA RankedExec ==
  ASSUME KernelOK, Ranked, NEW t \in Threads, Exec(t)
  PROVE  Ranked' /\ Executes(t) /\ AllExec'
<1> USE LeaderIsThread DEF KernelOK, Ranked, AllExec, Exists, Tasks, Stops, Stopped, AliveThreads, Alive
<1> DEFINE siblings == AliveThreads \ {t}
<1>1. /\ task[t] = "run" /\ stop[t] = "none" /\ t \in AliveThreads
      /\ task' = [u \in Tids |-> IF u = t THEN "exec"
                                 ELSE IF u \in siblings /\ u \in traced /\ stop[u] # "exit" THEN "dying"
                                 ELSE IF u \in siblings THEN "zombie" ELSE task[u]]
      /\ stop' = NotIn(siblings) /\ fresh' = fresh \ siblings /\ UNCHANGED <<traced, child>>
  BY DEF Exec, Runs
<1>2. \A u \in Tids : task[u] \notin {"exec", "dying"}
  BY <1>1
<1>3. AliveThreads' = {t} /\ AllExec'
  BY <1>1, <1>2
<1>4. Executes(t)
  BY <1>1, <1>2, <1>3 DEF Executes, NotIn
<1>5. Ranked'
  BY <1>1, <1>2, <1>3 DEF NotIn
<1> QED BY <1>3, <1>4, <1>5

\* When it is done the leader is the only thread; Arthur is told if it traced the caller.
Executed(t) ==
  /\ AliveThreads = {t} /\ task[t] = "exec" /\ AliveThreads' = {Leader} /\ task'[Leader] = "run"
  /\ \A u \in Threads \ {t} : task[u] \in {"none", "gone"} \/ (u = Leader /\ task[u] = "zombie")
  /\ \A u \in Tids \ {Leader} : task'[u] = (IF u = t THEN "gone" ELSE task[u]) /\ stop'[u] = stop[u]
  /\ \A u \in Threads : stop[u] = "none"
  /\ \A u \in Tids \ {Leader} : u \in fresh' <=> u \in fresh
  /\ IF t \in traced
     THEN /\ traced' = (traced \ {t}) \cup {Leader} /\ stop'[Leader] = "exec" /\ Leader \in fresh'
          /\ child' = [child EXCEPT ![Leader] = t]
     ELSE /\ traced' = traced \ {Leader} /\ stop'[Leader] = "none" /\ child' = child

LEMMA RankedExecDone ==
  ASSUME KernelOK, Ranked, NEW t \in Threads, ExecDone(t)
  PROVE  Ranked' /\ Executed(t)
<1> USE LeaderIsThread DEF KernelOK, Ranked, Exists, Tasks, Stops, Stopped, AliveThreads, Alive
<1>1. /\ task[t] = "exec"
      /\ \A u \in Threads \ {t} : task[u] \in {"none", "gone"} \/ (u = Leader /\ task[u] = "zombie")
      /\ task' = [task EXCEPT ![t] = "gone", ![Leader] = "run"]
      /\ IF t \in traced
         THEN /\ traced' = (traced \ {t}) \cup {Leader} /\ stop' = [stop EXCEPT ![Leader] = "exec"]
              /\ child' = [child EXCEPT ![Leader] = t]
              /\ fresh' = fresh \cup {Leader}
         ELSE traced' = traced \ {Leader} /\ UNCHANGED <<stop, fresh, child>>
  BY DEF ExecDone
<1>2. AliveThreads = {t} /\ AliveThreads' = {Leader} /\ task'[Leader] = "run"
  BY <1>1
<1>3. \A u \in Threads : stop[u] = "none"
  BY <1>1
<1>4. Executed(t)
  BY <1>1, <1>2, <1>3 DEF Executed
<1>5. \A u \in Tids : task'[u] \notin {"exec", "dying"} /\ stop'[u] # "clone"
  BY <1>1, <1>3
<1>6. Ranked'
  <2>1. \A u \in Tids : stop'[u] = "exec" => u = Leader
    BY <1>1, <1>3
  <2>2. \A u \in Tids : Exists(u)' <=> Exists(u)
    BY <1>1
  <2>3. \A u \in Tids : u \in traced' => task'[u] \notin {"none", "gone"}
    BY <1>1
  <2> QED BY <1>2, <1>5, <2>1, <2>2, <2>3
<1> QED BY <1>4, <1>6

-----------------------------------------------------------------------------
(* Arthur's calls, exec included                                           *)

\* A call of Arthur at most ends stops and threads.
Falls ==
  /\ child' = child /\ \A t \in traced' : t \in traced \/ Alive(t)
  /\ \A t \in Tids : /\ task'[t] = task[t] \/ (Exists(t) /\ task'[t] \in {"zombie", "gone"})
                     /\ task'[t] = "gone" => task[t] = "gone" \/ t \notin traced'
                     /\ stop'[t] = stop[t] \/ stop'[t] = "none"

LEMMA RankedFalls == KernelOK /\ Ranked /\ Falls => Ranked'
<1> SUFFICES ASSUME KernelOK, Ranked, Falls PROVE Ranked'
    OBVIOUS
<1>1. AliveThreads' \subseteq AliveThreads /\ (AllExec => AllExec')
  BY LeaderIsThread DEF Falls, AllExec, AliveThreads, Alive, Exists
<1>2. \A t \in Tids : Exists(t)' <=> Exists(t)
  BY DEF Falls, Exists
<1>3. \A t \in Tids : /\ task'[t] = "exec" => task[t] = "exec"
                      /\ task'[t] = "dying" => task[t] = "dying"
                      /\ stop'[t] = "clone" => stop[t] = "clone"
                      /\ stop'[t] = "exec" => stop[t] = "exec"
  BY DEF Falls
<1>4. child' = child
  BY DEF Falls
<1>5. Exists(Leader)' /\ \A t, u \in Tids : t < u /\ Exists(u)' => Exists(t)'
  BY <1>2, LeaderIsThread DEF Ranked
<1>6. ASSUME NEW t \in Tids PROVE (stop[t] = "clone" => Exists(child[t]) /\ t < child[t])'
  <2>1. CASE stop'[t] = "clone"
    <3>1. stop[t] = "clone"
      BY <1>3, <1>6, <2>1
    <3>2. child[t] \in Tids
      BY <1>6, <3>1 DEF KernelOK
    <3>3. Exists(child[t]) /\ t < child[t]
      BY <1>6, <3>1 DEF Ranked
    <3>4. Exists(child[t])'
      BY <1>2, <1>4, <3>2, <3>3 DEF Exists
    <3> QED BY <1>4, <3>3, <3>4
  <2> QED BY <2>1
<1>7. ASSUME NEW t \in Tids
      PROVE  /\ \A u \in Tids \ {t} : stop'[t] = "clone" /\ stop'[u] = "clone" => child'[u] # child'[t]
             /\ stop'[t] = "exec" => t = Leader /\ AliveThreads' \subseteq {Leader}
             /\ task'[t] = "exec" => t \in Threads /\ AliveThreads' \subseteq {t}
             /\ task'[t] = "dying" => AllExec'
  <2>1. /\ \A u \in Tids \ {t} : stop[t] = "clone" /\ stop[u] = "clone" => child[u] # child[t]
        /\ stop[t] = "exec" => t = Leader /\ AliveThreads \subseteq {Leader}
        /\ task[t] = "exec" => t \in Threads /\ AliveThreads \subseteq {t}
        /\ task[t] = "dying" => AllExec
    BY <1>7 DEF Ranked
  <2>2. \A u \in Tids \ {t} : stop'[t] = "clone" /\ stop'[u] = "clone" => child'[u] # child'[t]
    BY <1>3, <1>4, <1>7, <2>1
  <2>3. stop'[t] = "exec" => t = Leader /\ AliveThreads' \subseteq {Leader}
    BY <1>1, <1>3, <1>7, <2>1
  <2>4. task'[t] = "exec" => t \in Threads /\ AliveThreads' \subseteq {t}
    BY <1>1, <1>3, <1>7, <2>1
  <2>5. task'[t] = "dying" => AllExec'
    BY <1>1, <1>3, <1>7, <2>1
  <2> QED BY <2>2, <2>3, <2>4, <2>5
<1>8. ASSUME NEW t \in Tids, t \in traced' PROVE task'[t] \notin {"none", "gone"}
  BY <1>8 DEF Falls, Ranked, Exists, Alive
<1> QED BY <1>5, <1>6, <1>7, <1>8 DEF Ranked

LEMMA ContinueFalls ==
  ASSUME KernelOK, NEW ts, ts \subseteq Tids, \A t \in ts : Stopped(t), NEW f, NEW detach, ContinueThose(ts, f, detach)
  PROVE  Falls
<1>1. /\ \/ task' = Dead(task)
         \/ task' = [t \in Tids |-> IF t \in ts /\ stop[t] = "exit" THEN "zombie" ELSE task[t]]
      /\ (stop' = NotIn(ts \cup Threads) \/ stop' = NotIn(ts)) /\ child' = child /\ traced' \subseteq traced
  BY DEF ContinueThose
<1> QED BY <1>1 DEF Falls, Dead, NotIn, KernelOK, Exists, Alive, Stopped

LEMMA CallFalls ==
  ASSUME KernelOK, \/ \E t \in Tids : WaitStop(t) \/ WaitExit(t) \/ Listen(t) \/ Interrupt(t)
                   \/ \E t \in Tids : \E release, resume : AfterClone(t, release, resume)
                   \/ TakeChld \/ UNCHANGED kernel \/ \E S : SeizeAll(S)
  PROVE  Falls
  BY DEF KernelOK, Falls, WaitStop, WaitExit, Reapable, Listen, Interrupt, AfterClone, TakeChld, SeizeAll, kernel, NotIn, Exists

\* The calls that let threads go.
LetsGo ==
  \/ \E t \in Tids : Stopped(t) /\ \E sig : DetachWaited(t, sig)
  \/ \E f : DOMAIN f \subseteq Tids /\ \E detach : Continue(f, detach)

LEMMA LetsGoFalls == KernelOK /\ LetsGo => Falls
<1> SUFFICES ASSUME KernelOK, LetsGo PROVE Falls
    OBVIOUS
<1>1. ASSUME NEW t \in Tids, NEW sig, Stopped(t), DetachWaited(t, sig) PROVE Falls
  <2>1. ContinueThose({t}, Just(t, sig), TRUE)
    BY <1>1 DEF DetachWaited
  <2> QED BY <1>1, <2>1, ContinueFalls
<1>2. ASSUME NEW f, DOMAIN f \subseteq Tids, NEW detach, Continue(f, detach) PROVE Falls
  <2> DEFINE ts == {t \in DOMAIN f : Answers(t)}
  <2>1. ContinueThose(ts, f, detach)
    BY <1>2 DEF Continue
  <2>2. ts \subseteq Tids /\ \A t \in ts : Stopped(t)
    BY <1>2 DEF Answers
  <2> QED BY <2>1, <2>2, ContinueFalls
<1> QED BY <1>1, <1>2 DEF LetsGo

\* Whatever Arthur does without a snapshot at most ends stops and threads.
LEMMA ArthurFalls == TypeInv /\ NoSnapshots /\ (Arthur \/ Request) => Falls
<1> SUFFICES ASSUME TypeInv, NoSnapshots, Arthur \/ Request PROVE Falls
    OBVIOUS
<1>1. KernelOK /\ tid \in Tids /\ todo \subseteq Tids /\ mtids \subseteq Tids
  BY DEF TypeInv, ControlOK
<1>2. todo # {} => LeastOf(todo) \in Tids
  BY <1>1, LeastIsMember
<1> DEFINE Plain == \/ \E t \in Tids : WaitStop(t) \/ WaitExit(t) \/ Listen(t) \/ Interrupt(t)
                    \/ \E t \in Tids : \E release, resume : AfterClone(t, release, resume)
                    \/ TakeChld \/ UNCHANGED kernel \/ \E S : SeizeAll(S)
<1>3. Plain \/ LetsGo => Falls
  BY <1>1, CallFalls, LetsGoFalls
<1>4. ASSUME NEW t \in Tids, t \in fresh \/ Answers(t), LetGo(t) PROVE LetsGo
  BY <1>1, <1>4 DEF LetGo, LetsGo, KernelOK, Answers
<1>5. CASE SeizeList \/ SeizeEach \/ SeizeEnd \/ DetachEnd \/ Request
  <2>1. Plain
    BY <1>5 DEF SeizeList, SeizeEach, SeizeEnd, DetachEnd, Request
  <2> QED BY <1>3, <2>1
<1>6. CASE RollbackNext \/ RollbackWait \/ DetachPoll \/ DetachRegs \/ DetachWait
  <2>1. \E t \in Tids : \/ (t \in fresh \/ Answers(t)) /\ LetGo(t)
                        \/ WaitExit(t)
                        \/ UNCHANGED kernel \/ Interrupt(t)
    BY <1>1, <1>2, <1>6 DEF RollbackNext, RollbackWait, DetachPoll, DetachRegs, DetachWait, Detached
  <2> QED BY <1>3, <1>4, <2>1
<1>7. CASE DrainStart \/ Poll \/ PassEnd \/ Dispatch \/ AwaitSignal
  <2>1. Plain
    BY <1>2, <1>7 DEF DrainStart, Poll, PassEnd, Dispatch, AwaitSignal
  <2> QED BY <1>3, <2>1
<1>8. ASSUME NEW sig, Resume(sig) \/ Continue(Just(tid, sig), FALSE) PROVE Falls
  <2>1. DOMAIN Just(tid, sig) \subseteq Tids
    BY <1>1 DEF Just
  <2>2. CASE Continue(Just(tid, sig), FALSE)
    BY <1>3, <2>1, <2>2 DEF LetsGo
  <2>3. CASE UNCHANGED kernel
    BY <1>3, <2>3
  <2> QED BY <1>8, <2>2, <2>3 DEF Resume
<1>9. CASE HandleClone \/ HandleGroupStop \/ HandleFatal \/ HandleKilled
  <2>1. Plain
    BY <1>1, <1>9 DEF HandleClone, HandleGroupStop, HandleFatal, HandleKilled
  <2> QED BY <1>3, <2>1
<1>10. CASE HandleExit \/ HandleExec \/ HandleInterrupt \/ HandleSignal
  <2>1. \E sig : Resume(sig) \/ Continue(Just(tid, sig), FALSE)
    BY <1>10 DEF HandleExit, HandleExec, HandleInterrupt, HandleSignal
  <2> QED BY <1>8, <2>1
<1>11. CASE CollectStart \/ CollectList \/ CollectPoll \/ CollectRegs \/ CollectWait \/ CollectConfirm
  <2>1. Plain
    BY <1>1, <1>2, <1>11 DEF CollectStart, CollectList, CollectPoll, CollectRegs, CollectWait, CollectConfirm, RecordStop
  <2> QED BY <1>3, <2>1
<1>12. CASE Core \/ CoreLoads \/ CoreCommit
  BY <1>3, <1>12 DEF Core, CoreLoads, CoreCommit
<1>13. CASE KillCrashed
  <2>1. \E f : DOMAIN f \subseteq Tids /\ Continue(f, TRUE)
    <3>1. PICK S \in SUBSET Tids : ReleaseCrashed(S)
      BY <1>1, <1>13 DEF KillCrashed
    <3>2. DOMAIN [t \in S |-> exitSig] \subseteq Tids
      OBVIOUS
    <3> QED BY <3>1, <3>2 DEF ReleaseCrashed
  <2> QED BY <1>3, <2>1 DEF LetsGo
<1>14. CASE Arthur
  BY <1>5, <1>6, <1>7, <1>9, <1>10, <1>11, <1>12, <1>13, <1>14, OutOfReach DEF Arthur
<1> QED BY <1>5, <1>14

LEMMA RankedInit == Init => Ranked
  BY LeaderIsThread, ThreadAssumption DEF Init, KernelInit, Ranked, Exists, Leader, Tids

LEMMA RankedStep == TypeInv /\ NoSnapshots /\ Ranked /\ [Next]_vars => Ranked'
<1> SUFFICES ASSUME TypeInv, NoSnapshots, Ranked, [Next]_vars PROVE Ranked'
    OBVIOUS
<1>1. KernelOK
  BY DEF TypeInv
<1>2. CASE Arthur \/ Request
  BY <1>1, <1>2, ArthurFalls, RankedFalls
<1>3. CASE UNCHANGED vars
  <2>1. Falls
    BY <1>1, <1>3, CallFalls DEF vars
  <2> QED BY <1>1, <2>1, RankedFalls
<1>4. CASE Watched
  <2>1. Target
    BY <1>4 DEF Watched
  <2>2. CASE \E t \in Threads : Exec(t)
    BY <1>1, <2>2, RankedExec
  <2>3. CASE \E t \in Threads : ExecDone(t)
    BY <1>1, <2>3, RankedExecDone
  <2> QED BY <1>1, <2>1, <2>2, <2>3, RankedSteady
<1> QED BY <1>2, <1>3, <1>4 DEF Next

\* A step of the target is one of three kinds.
LEMMA TargetKinds ==
  ASSUME KernelOK, Ranked, Target
  PROVE  /\ Ranked'
         /\ \/ Steady
            \/ \E t \in Threads : Executes(t) /\ AllExec'
            \/ \E t \in Threads : Executed(t)
<1>1. CASE \E t \in Threads : Exec(t)
  BY <1>1, RankedExec
<1>2. CASE \E t \in Threads : ExecDone(t)
  BY <1>2, RankedExecDone
<1> QED BY <1>1, <1>2, RankedSteady

-----------------------------------------------------------------------------
(* The threads on Arthur's lists                                           *)

\* Arthur lists threads that have been created, and what a task is said to have
\* created has been.
Enrolled == pc \notin Leaving =>
  /\ \A m \in mtids : m \in Threads /\ Exists(m)
  /\ pc \in {"poll", "handle"} => todo \subseteq mtids
  /\ pc = "handle" => tid \in todo /\ \A t \in todo : tid <= t
  /\ pc = "seizeEach" => \A t \in todo : t \in Threads /\ Exists(t)
Named == \A t \in Tids : child[t] \in Tids => Exists(child[t])

LEMMA ExistsGrows == KernelOK /\ Ranked /\ Target => \A t \in Tids : Exists(t) => Exists(t)'
<1> SUFFICES ASSUME KernelOK, Ranked, Target, NEW t \in Tids, Exists(t) PROVE Exists(t)'
    OBVIOUS
<1>1. CASE Steady
  BY <1>1 DEF Steady, Moved
<1>2. CASE \E u \in Threads : Executes(u)
  BY <1>2 DEF Executes, Exists
<1>3. CASE \E u \in Threads : Executed(u)
  BY <1>3 DEF Executed, Exists
<1> QED BY <1>1, <1>2, <1>3, TargetKinds

LEMMA NamedTarget == KernelOK /\ Ranked /\ Named /\ Target => Named'
<1> SUFFICES ASSUME KernelOK, Ranked, Named, Target PROVE Named'
    OBVIOUS
<1>1. \A t \in Tids : Exists(t) => Exists(t)'
  BY ExistsGrows
<1>2. CASE child' = child
  BY <1>1, <1>2 DEF Named
<1>3. CASE \E t \in Threads : Clone(t)
  <2>1. PICK t \in Threads, n \in Tids : task'[n] = "run" /\ (child' = child \/ child' = [child EXCEPT ![t] = n])
    BY <1>3 DEF Clone, KernelOK
  <2> QED BY <1>1, <2>1 DEF Named, Exists, KernelOK
<1>4. CASE \E t \in Threads : ExecDone(t)
  <2>1. PICK t \in Threads : task[t] = "exec" /\ (child' = child \/ child' = [child EXCEPT ![Leader] = t])
    BY <1>4 DEF ExecDone
  <2>2. Exists(t)'
    BY <1>1, <2>1, LeaderIsThread DEF Exists
  <2> QED BY <1>1, <2>1, <2>2, LeaderIsThread DEF Named, KernelOK
<1> QED BY <1>2, <1>3, <1>4 DEF Target, React, Send, Dequeue, Trap, Exit, Exec, Release, Die, Sleep, Wake, Kill

LEMMA NamedStep == TypeInv /\ NoSnapshots /\ Ranked /\ Named /\ [Next]_vars => Named'
<1> SUFFICES ASSUME TypeInv, NoSnapshots, Ranked, Named, [Next]_vars PROVE Named'
    OBVIOUS
<1>1. KernelOK
  BY DEF TypeInv
<1>2. CASE Falls
  <2>1. child' = child /\ \A t \in Tids : Exists(t) => Exists(t)'
    BY <1>2 DEF Falls, Exists
  <2> QED BY <2>1 DEF Named
<1>3. CASE UNCHANGED vars
  BY <1>1, <1>2, <1>3, CallFalls DEF vars
<1> QED BY <1>1, <1>2, <1>3, ArthurFalls, NamedTarget DEF Next, Watched

LEMMA EnrolledStep == TypeInv /\ NoSnapshots /\ Ranked /\ Named /\ Enrolled /\ [Next]_vars => Enrolled'
<1> SUFFICES ASSUME TypeInv, NoSnapshots, Ranked, Named, Enrolled, [Next]_vars, pc' \notin Leaving PROVE Enrolled'
    BY DEF Enrolled
<1>1. /\ KernelOK /\ tid \in Tids /\ todo \subseteq Tids /\ mtids \subseteq Tids
      /\ pc = "handle" /\ status = "clone" => child[tid] \in Tids
  BY DEF TypeInv, ControlOK, EventsNamed
<1>2. todo # {} => LeastOf(todo) \in todo /\ \A u \in todo : LeastOf(todo) <= u
  BY <1>1, LeastIsMember
<1>3. \A t \in Threads : Exists(t) => Exists(t)'
  <2>1. CASE UNCHANGED vars
    BY <2>1 DEF vars, kernel, Exists
  <2>2. CASE Watched
    BY <1>1, <2>2, ExistsGrows, LeaderIsThread DEF Watched
  <2>3. CASE Falls
    BY <2>3, LeaderIsThread DEF Falls, Exists
  <2> QED BY <2>1, <2>2, <2>3, ArthurFalls DEF Next
<1>4. \A t \in Listed : t \in Threads /\ Exists(t)
  BY DEF Listed, Exists
<1>5. ASSUME UNCHANGED arthur PROVE Enrolled'
  <2>1. UNCHANGED <<pc, mtids, todo, tid>>
    BY <1>5 DEF arthur, ctl, thr
  <2> QED BY <1>3, <2>1 DEF Enrolled
<1> USE <1>3, <1>4 DEF Enrolled, Goto, Leaving
<1>6. CASE SeizeList \/ SeizeEach \/ SeizeEnd
  <2>1. CASE SeizeList \/ SeizeEnd
    BY <2>1 DEF SeizeList, SeizeEnd, Rollback, thr
  <2>2. CASE SeizeEach
    <3>1. PICK t \in todo : pc' = "seizeEach" /\ pc = "seizeEach" /\ todo' = todo \ {t} /\ mtids' \subseteq mtids \cup {t}
      BY <1>2, <2>2 DEF SeizeEach, Rollback
    <3> QED BY <3>1
  <2> QED BY <1>6, <2>1, <2>2
<1>7. CASE RollbackNext \/ RollbackWait \/ DetachPoll \/ DetachRegs \/ DetachWait \/ DetachEnd \/ CoreCommit
  BY <1>7 DEF RollbackNext, RollbackWait, DetachPoll, DetachRegs, DetachWait, DetachEnd, CoreCommit
<1>8. CASE DrainStart \/ Dispatch \/ AwaitSignal \/ Request
  BY <1>8 DEF DrainStart, Dispatch, AwaitSignal, Request, Quit, ctl, thr
<1>9. CASE Poll
  <2>1. PICK t \in todo : /\ tid' = t /\ pc = "poll" /\ (\A u \in todo : t <= u)
                          /\ \/ pc' = "handle" /\ todo' = todo /\ mtids' = mtids
                             \/ pc' = "poll" /\ todo' = todo \ {t} /\ mtids' \in {mtids, mtids \ {t}}
    BY <1>2, <1>9 DEF Poll, Quit
  <2> QED BY <2>1
<1>10. CASE PassEnd
  <2>1. pc' \in {"drain", "collect", "dispatch"} /\ (mtids' = mtids \/ mtids' \subseteq Listed)
    BY <1>10 DEF PassEnd, Quit
  <2> QED BY <1>10, <2>1 DEF PassEnd
<1>11. CASE HandleClone
  <2>1. pc = "handle" /\ status = "clone" /\ pc' = "poll" /\ todo' = todo \ {tid} /\ mtids' = IF child[tid] \in Procs THEN mtids ELSE mtids \cup {child[tid]}
    BY <1>11 DEF HandleClone, Handling, Handled
  <2>2. PICK c \in Tids : c = child[tid]
    BY <1>1, <2>1
  <2>3. Exists(c)
    BY <1>1, <2>2 DEF Named
  <2>4. c \notin Procs => c \in Threads /\ Exists(c)'
    BY <2>3 DEF Threads
  <2> QED BY <2>1, <2>2, <2>4
<1>12. CASE HandleExec
  <2>1. pc' = "poll" /\ todo' = {} /\ mtids' = {Leader}
    BY <1>12 DEF HandleExec
  <2> QED BY <2>1, LeaderIsThread DEF Ranked
<1>13. CASE HandleExit \/ HandleGroupStop \/ HandleInterrupt \/ HandleFatal \/ HandleSignal \/ HandleKilled
  <2>1. pc = "handle" /\ pc' = "poll" /\ todo' = todo \ {tid} /\ mtids' = mtids
    BY <1>13 DEF HandleExit, HandleGroupStop, HandleInterrupt, HandleFatal, HandleSignal, HandleKilled, Handling, Handled,
                 Quit, thr
  <2> QED BY <2>1
<1>14. CASE CollectStart \/ CollectList \/ CollectPoll \/ CollectRegs \/ CollectWait \/ CollectConfirm
  <2>1. pc' \in Collecting \cup {"kill", "restore", "core", "meta", "abandon", "preserve"} /\ pc \in Collecting \cup {"collect"}
    <3> USE DEF CollectFails, Collecting
    <3>1. CASE CollectStart \/ CollectList
      BY <3>1 DEF CollectStart, CollectList
    <3>2. CASE CollectPoll \/ CollectRegs
      BY <3>2 DEF CollectPoll, CollectRegs
    <3>3. CASE CollectWait \/ CollectConfirm
      BY <3>3 DEF CollectWait, CollectConfirm
    <3> QED BY <1>14, <3>1, <3>2, <3>3
  <2>2. \A m \in mtids' : m \in mtids \/ (m \in Threads /\ Exists(m))
    <3>1. CASE CollectStart \/ CollectConfirm
      BY <3>1 DEF CollectStart, CollectConfirm, thr
    <3>2. CASE CollectList
      BY <3>2 DEF CollectList, Workers
    <3>3. CASE CollectPoll \/ CollectRegs \/ CollectWait
      <4>1. PICK t \in Tids : \/ mtids' \subseteq mtids
                              \/ t \in fresh /\ RecordStop(t)
                              \/ Answers(t) /\ RecordStop(t)
        BY <1>1, <1>2, <3>3 DEF CollectPoll, CollectRegs, CollectWait
      <4>2. ASSUME stop[t] = "clone" PROVE child[t] \in Tids /\ Exists(child[t])
        BY <1>1, <4>2 DEF KernelOK, Ranked
      <4>3. RecordStop(t) => mtids' \subseteq mtids \/ (stop[t] = "clone" /\ child[t] \notin Procs /\ mtids' = mtids \cup {child[t]})
        BY DEF RecordStop
      <4> QED BY <4>1, <4>2, <4>3 DEF Threads
    <3> QED BY <1>14, <3>1, <3>2, <3>3
  <2> QED BY <2>1, <2>2 DEF Collecting
<1>15. CASE Core \/ CoreLoads \/ KillCrashed
  BY <1>15 DEF Core, CoreLoads, KillCrashed, thr
<1>16. CASE Watched \/ UNCHANGED vars
  BY <1>5, <1>16 DEF Watched, vars
<1>17. CASE Next
  BY <1>17, OnlyWatching, <1>6, <1>7, <1>8, <1>9, <1>10, <1>11, <1>12, <1>13, <1>14, <1>15, <1>16
<1> QED BY <1>16, <1>17

-----------------------------------------------------------------------------
(* What waitpid returned                                                   *)

\* The thread whose stop is being handled stands at it as long as it lives, unless
\* an exec has put another in its place; only one that stood at its exit dies alone;
\* at the end of an exec it is alone.
ReadTrue == pc = "handle" =>
  /\ status # "none"
  /\ Alive(tid) => (stop[tid] = status /\ tid \notin fresh) \/ Renamed(tid) \/ (tid \notin traced /\ status = "exit")
  /\ task[tid] \in {"zombie", "gone"} => AliveThreads = {} \/ status = "exit"
  /\ status = "exec" => \A t \in AliveThreads : t = tid /\ stop[t] = "exec" /\ t \notin fresh

LEMMA ReadTrueTarget ==
  ASSUME KernelOK, Ranked, Enrolled, ReadTrue, Target, UNCHANGED arthur, pc = "handle"
  PROVE  ReadTrue'
<1>1. UNCHANGED <<pc, tid, status>> /\ tid \in Threads /\ tid \in Tids /\ Exists(tid)
  BY LeaderIsThread DEF arthur, ctl, Enrolled, Leaving
<1>2. /\ status # "none"
      /\ Alive(tid) => (stop[tid] = status /\ tid \notin fresh) \/ Renamed(tid) \/ (tid \notin traced /\ status = "exit")
      /\ task[tid] \in {"zombie", "gone"} => AliveThreads = {} \/ status = "exit"
      /\ status = "exec" => \A t \in AliveThreads : t = tid /\ stop[t] = "exec" /\ t \notin fresh
  BY DEF ReadTrue
<1>3. /\ task[tid] \in {"zombie", "gone", "dying"} \/ Alive(tid)
      /\ Alive(tid) => tid \in AliveThreads
      /\ Stopped(tid) \/ task[tid] = "dying" => tid \in traced
  BY <1>1 DEF KernelOK, Tasks, Exists, Alive, AliveThreads
<1>4. Alive(tid) /\ stop[tid] = "none" => tid \notin traced /\ status = "exit"
  BY <1>2 DEF Renamed
<1>5. CASE Steady
  <2>1. ASSUME Alive(tid)'
        PROVE  ((stop[tid] = status /\ tid \notin fresh) \/ Renamed(tid) \/ (tid \notin traced /\ status = "exit"))'
    <3>1. Alive(tid) /\ AliveThreads' # {} /\ (tid \in traced' => tid \in traced)
      BY <1>1, <1>5, <2>1 DEF Steady, Moved, AliveThreads
    <3>2. Stopped(tid) => /\ stop'[tid] = stop[tid] /\ child'[tid] = child[tid] /\ (tid \in fresh <=> tid \in fresh')
      BY <1>1, <1>5, <3>1 DEF Steady, Moved
    <3> QED BY <1>1, <1>2, <3>1, <3>2 DEF Stopped, Renamed
  <2>2. ASSUME status = "exec", NEW t \in AliveThreads' PROVE t = tid /\ stop'[t] = "exec" /\ t \notin fresh'
    <3>1. t \in Threads /\ t \in Tids /\ Alive(t)'
      BY LeaderIsThread DEF AliveThreads
    <3>2. Exists(t)
      BY <1>2, <1>5, <2>2, <3>1 DEF Steady, Moved, Grown, Stopped
    <3>3. t \in AliveThreads
      BY <1>5, <3>1, <3>2 DEF Steady, Moved, AliveThreads
    <3>4. t = tid /\ stop[t] = "exec" /\ t \notin fresh /\ Stopped(t)
      BY <1>2, <2>2, <3>3 DEF Stopped
    <3> QED BY <1>5, <3>1, <3>4 DEF Steady, Moved
  <2>3. ASSUME task'[tid] \in {"zombie", "gone"}, AliveThreads' # {}, status # "exit" PROVE FALSE
    <3>1. AliveThreads # {}
      BY <1>5, <2>3 DEF Steady, Moved
    <3>2. tid \in traced /\ task[tid] \notin {"zombie", "gone"}
      BY <1>2, <1>3, <2>3, <3>1 DEF Stopped, Renamed
    <3> QED BY <1>1, <1>5, <2>3, <3>2 DEF Steady
  <2> QED BY <1>1, <1>2, <2>1, <2>2, <2>3 DEF ReadTrue
<1>6. CASE \E u \in Threads : Executes(u)
  <2>1. PICK u \in Threads : Executes(u)
    BY <1>6
  <2>2. AliveThreads' = {u} /\ Alive(u) /\ stop[u] = "none" /\ traced' = traced /\ u \in AliveThreads
    BY <2>1 DEF Executes, AliveThreads
  <2>3. status # "exec"
    BY <1>2, <2>2
  <2>4. Alive(tid)' => tid = u
    BY <1>1, <2>2 DEF AliveThreads
  <2>5. Alive(tid)' => tid \notin traced' /\ status = "exit"
    BY <1>4, <2>2, <2>4
  <2>6. ASSUME task'[tid] \in {"zombie", "gone"} PROVE status = "exit"
    <3>1. tid # u
      BY <2>1, <2>6 DEF Executes
    <3>2. task[tid] = task'[tid] \/ (Alive(tid) /\ (tid \notin traced \/ stop[tid] = "exit"))
      BY <1>1, <2>1, <2>6, <3>1 DEF Executes, AliveThreads
    <3> QED BY <1>2, <1>3, <2>2, <2>6, <3>2 DEF Stopped, Renamed
  <2> QED BY <1>1, <1>2, <2>3, <2>5, <2>6 DEF ReadTrue
<1>7. CASE \E u \in Threads : Executed(u)
  <2>1. PICK u \in Threads : Executed(u)
    BY <1>7
  <2>2. AliveThreads = {u} /\ AliveThreads' = {Leader} /\ stop[u] = "none" /\ Alive(u) /\ task'[Leader] = "run"
    BY <2>1 DEF Executed, AliveThreads
  <2>3. status # "exec"
    BY <1>2, <2>2
  <2>4. Alive(tid)' => tid = Leader
    BY <1>1, <2>2 DEF AliveThreads
  <2>5. ASSUME Alive(tid)', u \in traced PROVE Renamed(tid)'
    <3>1. u # Leader
      BY <1>4, <2>2, <2>4, <2>5
    <3>2. stop'[Leader] = "exec" /\ Leader \in fresh' /\ child' = [child EXCEPT ![Leader] = u]
      BY <2>1, <2>5 DEF Executed
    <3>3. child'[Leader] = u
      BY <3>2, LeaderIsThread DEF KernelOK
    <3>4. tid = Leader /\ tid' = tid
      BY <1>1, <2>4, <2>5
    <3> QED BY <3>1, <3>2, <3>3, <3>4 DEF Renamed
  <2>6. \A t \in Threads \ {u} : task[t] \in {"none", "gone", "zombie"}
    BY <2>1 DEF Executed
  <2>7. tid # u => status = "exit"
    BY <1>1, <1>2, <2>2, <2>6 DEF Exists
  <2>8. tid = u => status = "exit" /\ tid \notin traced
    BY <1>4, <2>2
  <2>9. u \notin traced => Leader \notin traced'
    BY <2>1 DEF Executed
  <2> QED BY <1>1, <1>2, <2>3, <2>4, <2>5, <2>7, <2>8, <2>9 DEF ReadTrue
<1> QED BY <1>5, <1>6, <1>7, TargetKinds

LEMMA ReadTruePoll == TypeInv /\ Ranked /\ Poll => ReadTrue'
<1> SUFFICES ASSUME TypeInv, Ranked, Poll, pc' = "handle" PROVE ReadTrue'
    BY DEF ReadTrue
<1>1. PICK t \in Tids : t \in fresh /\ WaitStop(t) /\ status' = stop[t] /\ tid' = t
  BY LeastIsMember DEF Poll, TypeInv, ControlOK, Goto, Quit
<1>2. UNCHANGED <<task, stop, child>> /\ fresh' = fresh \ {t} /\ stop[t] # "none"
  BY <1>1 DEF WaitStop, TypeInv, KernelOK, Stopped
<1>3. stop[t] = "exec" => t = Leader /\ AliveThreads \subseteq {Leader}
  BY DEF Ranked
<1>4. AliveThreads' = AliveThreads
  BY <1>2 DEF AliveThreads, Alive
<1>5. task[t] \notin {"zombie", "gone"}
  BY <1>1 DEF TypeInv, KernelOK
<1> QED BY <1>1, <1>2, <1>3, <1>4, <1>5 DEF ReadTrue

LEMMA ReadTrueStep == TypeInv /\ NoSnapshots /\ Ranked /\ Enrolled /\ ReadTrue /\ [Next]_vars => ReadTrue'
<1> SUFFICES ASSUME TypeInv, NoSnapshots, Ranked, Enrolled, ReadTrue, [Next]_vars, pc' = "handle" PROVE ReadTrue'
    BY DEF ReadTrue
<1>1. CASE UNCHANGED vars
  BY <1>1 DEF vars, arthur, ctl, kernel, ReadTrue, AliveThreads, Alive, Renamed
<1>2. CASE Watched
  <2>1. pc = "handle"
    BY <1>2 DEF Watched, arthur, ctl
  <2> QED BY <1>2, <2>1, ReadTrueTarget DEF Watched, TypeInv
<1>3. CASE Next /\ ~Watched
  <2> USE DEF Goto
  <2>1. ~(SeizeList \/ SeizeEach \/ SeizeEnd \/ RollbackNext \/ RollbackWait \/ DetachPoll \/ DetachRegs \/ DetachWait \/ DetachEnd)
    BY DEF SeizeList, SeizeEach, SeizeEnd, Rollback, RollbackNext, RollbackWait, DetachPoll, DetachRegs, DetachWait, DetachEnd
  <2>2. ~(DrainStart \/ PassEnd \/ Dispatch \/ AwaitSignal \/ Request \/ Core \/ CoreLoads \/ KillCrashed \/ CoreCommit)
    BY DEF DrainStart, PassEnd, Dispatch, AwaitSignal, Request, Core, CoreLoads, KillCrashed, CoreCommit, Quit, ctl
  <2>3. ~(HandleClone \/ HandleExit \/ HandleExec \/ HandleGroupStop \/ HandleInterrupt \/ HandleFatal \/ HandleSignal \/ HandleKilled)
    BY DEF HandleClone, HandleExit, HandleExec, HandleGroupStop, HandleInterrupt, HandleFatal, HandleSignal, HandleKilled,
           Handled, Quit
  <2>4. ~(CollectStart \/ CollectList \/ CollectPoll \/ CollectRegs \/ CollectWait \/ CollectConfirm)
    <3>1. ~(CollectStart \/ CollectList \/ CollectPoll \/ CollectRegs)
      BY DEF CollectStart, CollectList, CollectPoll, CollectRegs, CollectFails
    <3>2. ~(CollectWait \/ CollectConfirm)
      BY DEF CollectWait, CollectConfirm, CollectFails
    <3> QED BY <3>1, <3>2
  <2> QED BY <1>3, <2>1, <2>2, <2>3, <2>4, OnlyWatching, ReadTruePoll
<1> QED BY <1>1, <1>2, <1>3

-----------------------------------------------------------------------------
(* Job control                                                             *)

\* A thread that Arthur resumes for an event or a signal is in no group-stop.
LEMMA ResumedInNone ==
  ASSUME TypeInv, ReadTrue, pc = "handle", status # "group", stop[tid] = "group"
  PROVE  FALSE
<1>1. tid \in Tids /\ Stopped(tid)
  BY DEF TypeInv, ControlOK, Stopped
<1>2. tid \in traced /\ Alive(tid)
  BY <1>1 DEF TypeInv, KernelOK, Alive
<1> QED BY <1>2 DEF ReadTrue, Renamed

LEMMA GroupStopTarget ==
  ASSUME KernelOK, Target, jobStop, ~jobStop'
  PROVE  AliveThreads' = {} \/ fate'["CONT"] # fate["CONT"]
<1>1. CASE \E s \in Sent : Send(s)
  <2>1. PICK s \in Sent : Send(s)
    BY <1>1
  <2>2. s = "CONT" /\ fate[s] = "unsent"
    BY <2>1 DEF Send
  <2>3. fate'["CONT"] = "pending"
    BY <2>1, <2>2 DEF Send, Signals, Sent
  <2> QED BY <2>2, <2>3
<1>2. CASE Kill
  BY <1>2 DEF Kill, AliveThreads, Alive, Dead, Threads
<1>3. ~ \E t \in Threads : \E s \in Signals : Dequeue(t, s)
  BY DEF Dequeue, Runs
<1>4. CASE UNCHANGED jobStop
  BY <1>4
<1> QED BY <1>1, <1>2, <1>3, <1>4 DEF Target, React, Trap, Clone, Exit, Exec, Release, Die, ExecDone, Sleep, Wake

\* The calls that keep the group-stop flag, or set it.
LEMMA GroupStopCalls ==
  ASSUME jobStop,
         \/ \E t \in Tids : WaitStop(t) \/ WaitExit(t) \/ Listen(t) \/ Interrupt(t)
         \/ \E t \in Tids : \E release, resume : AfterClone(t, release, resume)
         \/ TakeChld \/ UNCHANGED kernel \/ \E S : SeizeAll(S)
         \/ \E t, sig : DetachWaited(t, sig)
         \/ \E f : Continue(f, TRUE)
         \/ \E sig : Continue(Just(tid, sig), FALSE) /\ stop[tid] # "group"
  PROVE  jobStop'
<1>1. ASSUME NEW ts, NEW f, ContinueThose(ts, f, TRUE) PROVE jobStop'
  BY <1>1 DEF ContinueThose
<1>2. ASSUME NEW sig, Continue(Just(tid, sig), FALSE), stop[tid] # "group" PROVE jobStop'
  <2>1. PICK ts \in SUBSET {tid} : ContinueThose(ts, Just(tid, sig), FALSE)
    BY <1>2 DEF Continue, Just
  <2> QED BY <1>2, <2>1 DEF ContinueThose
<1> QED BY <1>1, <1>2 DEF WaitStop, WaitExit, Listen, Interrupt, AfterClone, TakeChld, kernel, SeizeAll, DetachWaited,
                          Continue

LEMMA GroupStopArthur ==
  ASSUME TypeInv, NoSnapshots, ReadTrue, jobStop, Arthur \/ Request
  PROVE  jobStop'
<1> DEFINE Calls == \/ \E t \in Tids : WaitStop(t) \/ WaitExit(t) \/ Listen(t) \/ Interrupt(t)
                    \/ \E t \in Tids : \E release, resume : AfterClone(t, release, resume)
                    \/ TakeChld \/ UNCHANGED kernel \/ \E S : SeizeAll(S)
                    \/ \E t, sig : DetachWaited(t, sig)
                    \/ \E f : Continue(f, TRUE)
                    \/ \E sig : Continue(Just(tid, sig), FALSE) /\ stop[tid] # "group"
<1> SUFFICES Calls
    BY GroupStopCalls
<1>1. KernelOK /\ tid \in Tids /\ todo \subseteq Tids /\ mtids \subseteq Tids
  BY DEF TypeInv, ControlOK
<1>2. todo # {} => LeastOf(todo) \in Tids
  BY <1>1, LeastIsMember
<1>3. CASE SeizeList \/ SeizeEach \/ SeizeEnd \/ RollbackNext \/ DetachEnd \/ Request
  BY <1>2, <1>3 DEF SeizeList, SeizeEach, SeizeEnd, RollbackNext, DetachEnd, Request
<1>4. CASE RollbackWait \/ DetachPoll \/ DetachRegs \/ DetachWait
  BY <1>1, <1>2, <1>4 DEF RollbackWait, DetachPoll, DetachRegs, DetachWait, Detached, LetGo
<1>5. CASE DrainStart \/ Poll \/ PassEnd \/ Dispatch \/ AwaitSignal
  BY <1>2, <1>5 DEF DrainStart, Poll, PassEnd, Dispatch, AwaitSignal
<1>6. CASE HandleClone \/ HandleGroupStop \/ HandleFatal \/ HandleKilled
  BY <1>1, <1>6 DEF HandleClone, HandleGroupStop, HandleFatal, HandleKilled
<1>7. CASE HandleExit \/ HandleExec \/ HandleInterrupt \/ HandleSignal
  <2>1. pc = "handle" /\ status # "group"
    BY <1>7, SignalFacts DEF HandleExit, HandleExec, HandleInterrupt, HandleSignal, Handling
  <2>2. stop[tid] # "group"
    BY <2>1, ResumedInNone
  <2> QED BY <1>7, <2>2 DEF HandleExit, HandleExec, HandleInterrupt, HandleSignal, Resume
<1>8. CASE CollectStart \/ CollectList \/ CollectPoll \/ CollectRegs \/ CollectWait \/ CollectConfirm
  BY <1>1, <1>2, <1>8 DEF CollectStart, CollectList, CollectPoll, CollectRegs, CollectWait, CollectConfirm, RecordStop
<1>9. CASE Core \/ CoreLoads \/ KillCrashed \/ CoreCommit
  BY <1>9 DEF Core, CoreLoads, KillCrashed, ReleaseCrashed, CoreCommit
<1> HIDE DEF Calls
<1> QED BY <1>3, <1>4, <1>5, <1>6, <1>7, <1>8, <1>9, OutOfReach DEF Arthur

WatchedTrue == NoSnapshots /\ Ranked /\ Named /\ Enrolled /\ ReadTrue

\* Without SIGUSR1 the stop that Arthur handles is the one the thread stands at,
\* whatever the target does meanwhile, exec included.
THEOREM HandledIsTrue ==
  ASSUME MaxDumps = 0
  PROVE  Spec => []WatchedTrue
<1>1. Init => WatchedTrue
  <2>1. Init => NoSnapshots /\ Ranked
    BY NoSnapshotsInit, RankedInit
  <2>2. Init => Named /\ Enrolled /\ ReadTrue
    BY ThreadAssumption DEF Init, KernelInit, Named, Enrolled, ReadTrue, Tids
  <2> QED BY <2>1, <2>2 DEF WatchedTrue
<1>2. TypeInv /\ WatchedInv /\ WatchedTrue /\ [Next]_vars => WatchedTrue'
  BY NoSnapshotsStep, RankedStep, NamedStep, EnrolledStep, ReadTrueStep DEF WatchedInv, WatchedTrue
<1> QED BY <1>1, <1>2, TypeInvariant, WatchInvariant, PTL DEF Spec

\* Without snapshots Arthur ends no group-stop of the process: only its death or a
\* SIGCONT does, whatever the other threads do between the stop of one and its
\* resumption by drain_monitor_events.
THEOREM GroupStopLasts ==
  ASSUME MaxDumps = 0
  PROVE  Spec => GroupStopKept
<1>1. TypeInv /\ WatchedTrue /\ [Next]_vars =>
        [jobStop /\ ~jobStop' => AliveThreads' = {} \/ fate'["CONT"] # fate["CONT"]]_vars
  <2> SUFFICES ASSUME TypeInv, WatchedTrue, Next, jobStop, ~jobStop'
               PROVE  AliveThreads' = {} \/ fate'["CONT"] # fate["CONT"]
      OBVIOUS
  <2>1. ~(Arthur \/ Request)
    BY GroupStopArthur DEF WatchedTrue
  <2> QED BY <2>1, GroupStopTarget DEF Next, Watched, TypeInv
<1> QED BY <1>1, TypeInvariant, HandledIsTrue, PTL DEF Spec, GroupStopKept

-----------------------------------------------------------------------------
(* The watch                                                               *)

\* Arthur watches until it leaves or meets a crash.
Vigil == pc \in Watching /\ exitSig = "none"

\* A stop that Arthur has yet to handle; the new thread of a clone event that it has
\* yet to handle; the thread that ends an exec.
Untold(t) == t \in fresh \/ (pc = "handle" /\ tid = t)
Announced(t) == \E p \in mtids : Unread(p) /\ child[p] = t
Reborn(t) == stop[t] = "exec" /\ Untold(t)
Known(t) == t \in mtids \/ Announced(t) \/ Reborn(t)

\* Arthur knows of every thread it traces.
Roster ==
  /\ \A m \in mtids : Held(m) \/ m = Leader
  /\ \A t \in AliveThreads \cap traced : Known(t)

\* A new thread has not run before its clone event is handled, and nothing is handled
\* before the event that announces it.
Births ==
  /\ \A p \in Tids : Unread(p) /\ child[p] \in Threads => stop[child[p]] = "intr"
  /\ Closed(mtids)
  /\ pc = "seizeEach" => Closed(todo \cup mtids) /\ todo \cap mtids = {}
  /\ pc \in {"poll", "handle"} => Closed(todo)

\* What the rounds of monitor_threads have found of the leader.
AllReborn == \A t \in AliveThreads : Reborn(t)
Deserted == pc = "seizeEach" /\ mtids = {} /\ \A t \in todo : task[t] = "gone"
Seized ==
  /\ pc \in Seizing =>
       /\ leaderExited => Leader \notin mtids /\ (pc = "seizeEach" => Leader \notin todo)
       /\ \A m \in mtids \ {Leader} : task[m] = "gone" => AllReborn
       /\ task[Leader] = "zombie" /\ Leader \in traced => AllExec
       /\ leaderExited /\ Alive(Leader) => Reborn(Leader) \/ Deserted
  /\ pc = "seizeEach" => coll.rounds # 0
  /\ pc = "seize" => IF coll.rounds = 0 THEN mtids = {} /\ ~leaderExited ELSE mtids # {}

\* A round that found nothing new has left no thread out, unless one of them was
\* gone before its seize; or it has lost the leader to an exec, or has to give up.
Lost == Leader \in mtids \ traced /\ ~leaderExited /\ pc \in {"seizeEach", "drain", "poll"} /\ (pc = "poll" => Leader \in todo)
Aborting == pc = "seizeEach" /\ (mtids = {} \/ (~leaderExited /\ Leader \notin mtids))
RoundDone == pc \in Polling \/ (pc = "seizeEach" /\ todo = {} /\ ~progress)
LeaderTold ==
  /\ task[Leader] = "zombie" /\ ~AllExec => leaderExited
  /\ leaderExited /\ Alive(Leader) => Reborn(Leader)
Covered == AliveThreads \subseteq traced /\ LeaderTold
Complete == RoundDone /\ ~history.vanished => Lost \/ Aborting \/ Covered

Watch == Roster /\ Births /\ Seized /\ Complete
VigilInv == Vigil => Watch

-----------------------------------------------------------------------------
(* The target moves while it is watched                                    *)

LEMMA StoppedStay ==
  ASSUME Steady, AliveThreads' # {}, UNCHANGED arthur, NEW t \in Tids
  PROVE  /\ Stopped(t) => /\ stop'[t] = stop[t] /\ child'[t] = child[t] /\ (t \in fresh <=> t \in fresh')
         /\ Unread(t) => Unread(t)' /\ child'[t] = child[t]
         /\ Reborn(t) => Reborn(t)'
<1>1. Stopped(t) => stop'[t] = stop[t] /\ child'[t] = child[t] /\ (t \in fresh <=> t \in fresh')
  BY DEF Steady, Moved
<1>2. UNCHANGED <<pc, tid>>
  BY DEF arthur, ctl
<1> QED BY <1>1, <1>2 DEF Unread, Reborn, Untold, Stopped

\* Where the threads of the target come from.
LEMMA Ancestry ==
  ASSUME KernelOK', Steady, NEW t \in AliveThreads'
  PROVE  \/ t \in AliveThreads
         \/ /\ ~Exists(t)
            /\ \E p \in AliveThreads :
                 /\ ~Stopped(p)
                 /\ p \in traced => stop'[t] = "intr" /\ stop'[p] = "clone" /\ child'[p] = t /\ p \in fresh'
<1>1. t \in Threads /\ t \in Tids /\ Alive(t)' /\ (Exists(t) => t \in AliveThreads)
  BY LeaderIsThread DEF Steady, Moved, AliveThreads
<1>2. CASE ~Exists(t)
  <2>1. PICK p \in AliveThreads : ~Stopped(p) /\ (p \in traced => stop'[t] = "intr" /\ stop'[p] = "clone" /\ child'[p] = t)
    BY <1>1, <1>2 DEF Steady, Moved, Grown
  <2>2. p \in Tids
    BY <2>1, LeaderIsThread DEF AliveThreads
  <2>3. p \in traced => p \in fresh'
    BY <2>1, <2>2 DEF Steady, Moved, Stopped
  <2> QED BY <1>2, <2>1, <2>3
<1> QED BY <1>1, <1>2

LEMMA RosterTarget ==
  ASSUME KernelOK, KernelOK', Ranked, Enrolled, pc \notin Leaving, Births, Roster, Target, UNCHANGED arthur
  PROVE  Roster'
<1>1. UNCHANGED <<pc, tid, mtids>> /\ mtids \subseteq Threads /\ Threads \subseteq Tids /\ \A m \in mtids : Exists(m)
  BY LeaderIsThread DEF arthur, ctl, thr, Enrolled
<1>2. ASSUME NEW p \in AliveThreads \cap traced, ~Stopped(p) PROVE p \in mtids
  <2>1. Known(p) /\ p \in Threads
    BY <1>2 DEF Roster, AliveThreads
  <2>2. ~Reborn(p)
    BY <1>2 DEF Reborn, Stopped
  <2>3. ~Announced(p)
    BY <1>1, <1>2, <2>1 DEF Announced, Births, Stopped
  <2> QED BY <2>1, <2>2, <2>3 DEF Known
<1>3. CASE Steady
  <2>1. ASSUME NEW m \in mtids PROVE Held(m)' \/ m = Leader
    BY <1>1, <1>3, <2>1 DEF Roster, Held, Steady, Moved
  <2>2. ASSUME NEW t \in AliveThreads', t \in traced' PROVE Known(t)'
    <3>1. CASE t \in AliveThreads
      <4>1. t \in traced /\ t \in Tids
        BY <1>1, <1>3, <2>2, <3>1 DEF Steady, AliveThreads, Alive, Exists
      <4>2. Known(t)
        BY <3>1, <4>1 DEF Roster
      <4>3. Announced(t) => Announced(t)'
        BY <1>1, <1>3, <2>2, StoppedStay DEF Announced
      <4>4. Reborn(t) => Reborn(t)'
        BY <1>3, <2>2, <4>1, StoppedStay
      <4> QED BY <1>1, <4>2, <4>3, <4>4 DEF Known
    <3>2. CASE ~Exists(t)
      <4>1. t \notin traced
        BY <1>1, <3>2 DEF Ranked, Exists, AliveThreads, KernelOK
      <4>2. PICK p \in AliveThreads \cap traced : ~Stopped(p) /\ stop'[p] = "clone" /\ child'[p] = t
        BY <1>3, <2>2, <4>1 DEF Steady
      <4>3. p \in mtids /\ p \in Tids
        BY <1>1, <1>2, <4>2
      <4>4. p \in fresh'
        BY <1>3, <4>2, <4>3 DEF Steady, Moved, Stopped
      <4> QED BY <1>1, <4>2, <4>3, <4>4 DEF Known, Announced, Unread
    <3> QED BY <1>3, <2>2, <3>1, <3>2, Ancestry
  <2> QED BY <1>1, <2>1, <2>2 DEF Roster
<1>4. CASE \E u \in Threads : Executes(u)
  <2>1. PICK u \in Threads : Executes(u)
    BY <1>4
  <2>2. AliveThreads' = {u} /\ u \in AliveThreads /\ stop[u] = "none" /\ traced' = traced
    BY <2>1 DEF Executes, AliveThreads
  <2>3. \A m \in Tids : task[m] = "gone" => task'[m] = "gone"
    BY <2>1 DEF Executes, AliveThreads, Alive
  <2>4. u \in traced => u \in mtids
    BY <1>2, <2>2 DEF Stopped
  <2> QED BY <1>1, <2>2, <2>3, <2>4 DEF Roster, Held, Known
<1>5. CASE \E u \in Threads : Executed(u)
  <2>1. PICK u \in Threads : Executed(u)
    BY <1>5
  <2>2. ASSUME NEW m \in mtids, m # Leader PROVE Held(m)'
    BY <1>1, <2>1, <2>2 DEF Executed, Roster, Held
  <2>3. AliveThreads' = {Leader} /\ (Leader \in traced' => Reborn(Leader)')
    BY <2>1 DEF Executed, Reborn, Untold
  <2> QED BY <1>1, <2>2, <2>3 DEF Roster, Known
<1> QED BY <1>3, <1>4, <1>5, TargetKinds

LEMMA BirthsTarget ==
  ASSUME KernelOK, KernelOK', Ranked, Enrolled, pc \notin Leaving, Births, Target, UNCHANGED arthur
  PROVE  Births'
<1>1. /\ UNCHANGED <<pc, tid, mtids, todo>> /\ Threads \subseteq Tids /\ (\A m \in mtids : Exists(m))
      /\ pc = "seizeEach" => \A t \in todo : Exists(t)
      /\ pc \in {"poll", "handle"} => \A t \in todo : Exists(t)
  BY LeaderIsThread DEF arthur, ctl, thr, Enrolled
<1>2. CASE \A p \in Tids : Unread(p)' => \/ Unread(p) /\ child'[p] = child[p] /\ (child[p] \in Threads => stop'[child[p]] = "intr")
                                         \/ ~Exists(child'[p]) /\ stop'[child'[p]] = "intr"
  BY <1>1, <1>2 DEF Births, Closed
<1>3. CASE Steady
  <2> SUFFICES ASSUME NEW p \in Tids, Unread(p)'
               PROVE  \/ Unread(p) /\ child'[p] = child[p] /\ (child[p] \in Threads => stop'[child[p]] = "intr")
                      \/ ~Exists(child'[p]) /\ stop'[child'[p]] = "intr"
    BY <1>2
  <2>1. stop'[p] = "clone" /\ Stopped(p)'
    BY DEF Unread, Stopped
  <2>2. p \in AliveThreads'
    BY <2>1 DEF KernelOK, AliveThreads, Alive
  <2>3. CASE stop[p] = "clone"
    <3>1. Stopped(p) /\ Unread(p) /\ child'[p] = child[p]
      <4>1. Stopped(p)
        BY <2>3 DEF Stopped
      <4> QED BY <1>1, <1>3, <2>2, <2>3, <4>1, StoppedStay DEF Unread
    <3>2. ASSUME child[p] \in Threads PROVE stop'[child[p]] = "intr"
      <4>1. PICK c \in Tids : c = child[p]
        BY <1>1, <3>2
      <4>2. stop[c] = "intr" /\ Stopped(c)
        BY <3>1, <3>2, <4>1 DEF Births, Stopped
      <4> QED BY <1>3, <2>2, <4>1, <4>2, StoppedStay
    <3> QED BY <3>1, <3>2
  <2>4. CASE stop[p] # "clone"
    BY <1>3, <2>1, <2>4 DEF Steady, Moved
  <2> QED BY <2>3, <2>4
<1>4. CASE \E u \in Threads : Executes(u)
  BY <1>2, <1>4 DEF Executes, KernelOK, Unread
<1>5. CASE \E u \in Threads : Executed(u)
  <2>1. PICK u \in Threads : Executed(u)
    BY <1>5
  <2>2. \A p \in Threads : stop'[p] # "clone"
    BY <1>1, <2>1 DEF Executed
  <2> QED BY <1>2, <2>2 DEF KernelOK, Unread
<1> QED BY <1>3, <1>4, <1>5, TargetKinds

LEMMA AllRebornStays ==
  ASSUME KernelOK', Steady, UNCHANGED arthur, AllReborn
  PROVE  AllReborn'
<1> SUFFICES ASSUME NEW t \in AliveThreads' PROVE Reborn(t)'
    BY DEF AllReborn
<1>1. t \in Tids /\ AliveThreads' # {}
  BY LeaderIsThread DEF AliveThreads
<1>2. \A p \in AliveThreads : Reborn(p) /\ Stopped(p)
  BY DEF AllReborn, Reborn, Stopped
<1>3. t \in AliveThreads
  BY <1>2, Ancestry
<1> QED BY <1>1, <1>2, <1>3, StoppedStay

LEMMA SeizedTarget ==
  ASSUME KernelOK, KernelOK', Ranked, Enrolled, pc \notin Leaving, Roster, Seized, Target, UNCHANGED arthur
  PROVE  Seized'
<1>1. /\ UNCHANGED <<pc, mtids, todo, leaderExited, coll>> /\ Leader \in Threads /\ Leader \in Tids /\ Threads \subseteq Tids
      /\ \A m \in mtids : m \in Threads /\ Exists(m)
      /\ pc = "seizeEach" => \A t \in todo : t \in Threads /\ Exists(t)
  BY LeaderIsThread DEF arthur, ctl, thr, Enrolled
<1>2. Exists(Leader)
  BY DEF Ranked
<1> SUFFICES ASSUME pc \in Seizing
             PROVE  /\ \A m \in mtids \ {Leader} : task'[m] = "gone" => AllReborn'
                    /\ task'[Leader] = "zombie" /\ Leader \in traced' => AllExec'
                    /\ leaderExited /\ Alive(Leader)' => Reborn(Leader)' \/ Deserted'
  BY <1>1 DEF Seized, Seizing
<1>3. /\ leaderExited => Leader \notin mtids /\ (pc = "seizeEach" => Leader \notin todo)
      /\ \A m \in mtids \ {Leader} : task[m] = "gone" => AllReborn
      /\ task[Leader] = "zombie" /\ Leader \in traced => AllExec
      /\ leaderExited /\ Alive(Leader) => Reborn(Leader) \/ Deserted
      /\ \A m \in mtids : Held(m) \/ m = Leader
  BY DEF Seized, Roster
<1>4. CASE Steady
  <2>1. ASSUME NEW m \in mtids \ {Leader}, task'[m] = "gone" PROVE AllReborn'
    <3>1. task[m] = "gone"
      BY <1>1, <1>3, <1>4, <2>1 DEF Steady, Held
    <3> QED BY <1>3, <1>4, <3>1, AllRebornStays
  <2>2. ASSUME task'[Leader] = "zombie", Leader \in traced' PROVE AllExec'
    <3>1. Leader \in traced
      BY <1>2, <1>4, <2>2 DEF Steady
    <3>2. task[Leader] = "zombie" \/ AliveThreads' = {}
      BY <1>1, <1>4, <2>2, <3>1 DEF Steady
    <3> QED BY <1>3, <1>4, <3>1, <3>2 DEF Steady, AllExec
  <2>3. ASSUME leaderExited, Alive(Leader)' PROVE Reborn(Leader)' \/ Deserted'
    <3>1. Alive(Leader) /\ AliveThreads' # {}
      BY <1>1, <1>2, <1>4, <2>3 DEF Steady, Moved, AliveThreads
    <3>2. Reborn(Leader) => Reborn(Leader)'
      BY <1>1, <1>4, <3>1, StoppedStay
    <3>3. Deserted => Deserted'
      BY <1>1, <1>4 DEF Deserted, Steady, Moved
    <3> QED BY <1>3, <2>3, <3>1, <3>2, <3>3
  <2> QED BY <2>1, <2>2, <2>3
<1>5. CASE \E u \in Threads : Executes(u) /\ AllExec'
  <2>1. PICK u \in Threads : Executes(u) /\ AllExec'
    BY <1>5
  <2>2. AliveThreads' = {u} /\ u \in AliveThreads /\ stop[u] = "none" /\ ~Reborn(u)
    BY <2>1 DEF Executes, AliveThreads, Reborn
  <2>3. ~AllReborn
    BY <2>2 DEF AllReborn
  <2>4. \A m \in Tids : task'[m] = "gone" <=> task[m] = "gone"
    BY <2>1 DEF Executes, AliveThreads, Alive
  <2>5. Alive(Leader)' => Leader = u
    BY <1>1, <2>2 DEF AliveThreads
  <2>6. leaderExited /\ Alive(Leader)' => Deserted'
    BY <1>1, <1>3, <2>2, <2>4, <2>5 DEF Deserted, AliveThreads
  <2> QED BY <1>1, <1>3, <2>1, <2>3, <2>4, <2>6
<1>6. CASE \E u \in Threads : Executed(u)
  <2>1. PICK u \in Threads : Executed(u)
    BY <1>6
  <2>2. /\ AliveThreads = {u} /\ AliveThreads' = {Leader} /\ stop[u] = "none" /\ Alive(u) /\ task'[Leader] = "run"
        /\ \A m \in Threads \ {Leader} : m # u => task[m] \in {"none", "gone"} /\ task'[m] = task[m]
        /\ u # Leader => task'[u] = "gone"
    BY <1>1, <2>1 DEF Executed, AliveThreads
  <2>3. u \in traced => Reborn(Leader)' /\ AllReborn'
    BY <2>1, <2>2 DEF Executed, Reborn, Untold, AllReborn
  <2>4. ~AllReborn
    BY <2>2 DEF AllReborn, Reborn
  <2>5. ASSUME NEW m \in mtids \ {Leader} PROVE u \in traced
    <3>1. m = u \/ task[m] = "gone"
      BY <1>1, <2>2, <2>5 DEF Exists
    <3>2. task[m] # "gone"
      BY <1>3, <2>4, <2>5
    <3>3. m = u /\ Held(u)
      BY <1>3, <2>5, <3>1, <3>2
    <3> QED BY <2>2, <3>3 DEF Held, Alive
  <2>6. ASSUME leaderExited, u \notin traced PROVE Deserted'
    <3>1. mtids = {}
      BY <1>3, <2>5, <2>6
    <3>2. pc = "seizeEach"
      BY <2>6, <3>1 DEF Seized, Seizing
    <3>3. \A t \in todo : task'[t] = "gone"
      BY <1>1, <1>3, <2>2, <2>6, <3>2 DEF Exists
    <3> QED BY <1>1, <3>1, <3>2, <3>3 DEF Deserted
  <2> QED BY <2>2, <2>3, <2>5, <2>6
<1> QED BY <1>4, <1>5, <1>6, TargetKinds

LEMMA CompleteTarget ==
  ASSUME KernelOK, KernelOK', Ranked, Complete, Target, UNCHANGED arthur
  PROVE  Complete'
<1>1. /\ UNCHANGED <<pc, mtids, todo, leaderExited, progress, history>>
      /\ Leader \in Threads /\ Leader \in Tids /\ Threads \subseteq Tids
  BY LeaderIsThread DEF arthur, ctl, thr, loop, ends
<1>2. Exists(Leader)
  BY DEF Ranked
<1>3. RoundDone' <=> RoundDone
  BY <1>1 DEF RoundDone
<1> SUFFICES ASSUME RoundDone, ~history.vanished PROVE Lost' \/ Aborting' \/ Covered'
  BY <1>1, <1>3 DEF Complete
<1>4. Aborting => Aborting'
  BY <1>1 DEF Aborting
<1>5. Leader \notin traced' => (Lost => Lost')
  BY <1>1 DEF Lost
<1>6. CASE Steady
  <2>1. Lost => Lost'
    BY <1>2, <1>5, <1>6 DEF Lost, Steady
  <2>2. ASSUME Covered PROVE Covered'
    <3>1. AliveThreads' \subseteq traced'
      <4> SUFFICES ASSUME NEW t \in AliveThreads' PROVE t \in traced'
          OBVIOUS
      <4>1. CASE t \in AliveThreads
        BY <1>6, <2>2, <4>1 DEF Covered, Steady, Moved
      <4>2. CASE stop'[t] = "intr"
        BY <1>1, <4>2 DEF KernelOK, Stopped, AliveThreads
      <4> QED BY <1>6, <2>2, <4>1, <4>2, Ancestry DEF Covered
    <3>2. ASSUME task'[Leader] = "zombie", ~AllExec' PROVE leaderExited
      <4>1. AliveThreads' # {} /\ ~AllExec
        BY <1>6, <3>2 DEF AllExec, Steady
      <4>2. task[Leader] = "zombie" \/ Leader \notin traced
        BY <1>1, <1>6, <3>2, <4>1 DEF Steady
      <4>3. ASSUME Leader \notin traced PROVE task[Leader] = "zombie"
        <5>1. ~Alive(Leader) /\ task[Leader] # "dying"
          BY <1>1, <2>2, <4>3 DEF Covered, AliveThreads, KernelOK
        <5>2. task[Leader] # "gone"
          BY <1>1, <1>6, <3>2 DEF Steady, Moved
        <5> QED BY <1>1, <1>2, <5>1, <5>2 DEF Alive, Exists, KernelOK, Tasks
      <4> QED BY <2>2, <4>1, <4>2, <4>3 DEF Covered, LeaderTold
    <3>3. ASSUME leaderExited, Alive(Leader)' PROVE Reborn(Leader)'
      <4>1. Alive(Leader) /\ AliveThreads' # {}
        BY <1>1, <1>2, <1>6, <3>3 DEF Steady, Moved, AliveThreads
      <4> QED BY <1>1, <1>6, <2>2, <3>3, <4>1, StoppedStay DEF Covered, LeaderTold
    <3> QED BY <1>1, <3>1, <3>2, <3>3 DEF Covered, LeaderTold
  <2> QED BY <1>4, <2>1, <2>2 DEF Complete
<1>7. CASE \E u \in Threads : Executes(u) /\ AllExec'
  <2>1. PICK u \in Threads : Executes(u) /\ AllExec'
    BY <1>7
  <2>2. AliveThreads' = {u} /\ u \in AliveThreads /\ stop[u] = "none" /\ traced' = traced /\ Alive(u)
    BY <2>1 DEF Executes, AliveThreads
  <2>3. Lost => Lost'
    BY <1>5, <2>2 DEF Lost
  <2>4. Alive(Leader)' => Leader = u
    BY <1>1, <2>2 DEF AliveThreads
  <2>5. Covered => Covered'
    BY <1>1, <2>1, <2>2, <2>4 DEF Covered, LeaderTold, Reborn
  <2> QED BY <1>4, <2>3, <2>5 DEF Complete
<1>8. CASE \E u \in Threads : Executed(u)
  <2>1. PICK u \in Threads : Executed(u)
    BY <1>8
  <2>2. AliveThreads = {u} /\ AliveThreads' = {Leader} /\ task'[Leader] = "run"
    BY <2>1 DEF Executed
  <2>3. u \in traced => Covered'
    BY <2>1, <2>2 DEF Executed, Covered, LeaderTold, Reborn, Untold
  <2>4. u \notin traced => Leader \notin traced' /\ ~Covered
    BY <2>1, <2>2 DEF Executed, Covered
  <2> QED BY <1>4, <1>5, <2>3, <2>4 DEF Complete
<1> QED BY <1>6, <1>7, <1>8, TargetKinds

LEMMA VigilTarget ==
  ASSUME TypeInv, TypeInv', Ranked, Enrolled, Watch, pc \notin Leaving, Watched
  PROVE  Watch'
  BY RosterTarget, BirthsTarget, SeizedTarget, CompleteTarget DEF TypeInv, Watch, Watched

-----------------------------------------------------------------------------
(* Arthur watches                                                          *)

\* The steps that begin and end in the watch.
LEMMA WithinVigil ==
  ASSUME TypeInv, NoSnapshots, Vigil', Next
  PROVE  /\ Vigil
         /\ Arthur \/ Request =>
              \/ SeizeList \/ SeizeEach \/ SeizeEnd \/ DrainStart \/ Poll \/ PassEnd \/ Dispatch \/ AwaitSignal \/ Request
              \/ HandleClone \/ HandleExit \/ HandleExec \/ HandleGroupStop \/ HandleInterrupt \/ HandleSignal
<1>1. pc' \in Watching /\ exitSig' = "none" /\ exitSig \in Fatal \cup {"none"} /\ forkRc = "none"
  BY DEF Vigil, TypeInv, ControlOK, NoSnapshots
<1> USE DEF Goto, Watching, Seizing, Polling
<1>2. ~(RollbackNext \/ RollbackWait \/ DetachPoll \/ DetachRegs \/ DetachWait \/ DetachEnd)
  BY <1>1 DEF RollbackNext, RollbackWait, DetachPoll, DetachRegs, DetachWait, DetachEnd
<1>3. ~(Core \/ CoreLoads \/ KillCrashed \/ CoreCommit)
  BY <1>1 DEF Core, CoreLoads, KillCrashed, CoreCommit
<1>4. ~(CollectStart \/ CollectList \/ CollectPoll \/ CollectRegs \/ CollectWait \/ CollectConfirm)
  <2>1. ~(CollectStart \/ CollectList \/ CollectPoll \/ CollectRegs)
    BY <1>1 DEF CollectStart, CollectList, CollectPoll, CollectRegs, CollectFails
  <2>2. ~(CollectWait \/ CollectConfirm)
    BY <1>1 DEF CollectWait, CollectConfirm, CollectFails
  <2> QED BY <2>1, <2>2
<1>5. ~HandleFatal
  BY <1>1, SignalFacts DEF HandleFatal, Handling, crash
<1>6. ~HandleKilled
  BY <1>1, SignalFacts DEF HandleKilled, Quit, crash
<1>7. CASE SeizeList \/ SeizeEach \/ SeizeEnd \/ DrainStart \/ Poll \/ PassEnd
  BY <1>1, <1>7 DEF SeizeList, SeizeEach, SeizeEnd, DrainStart, Poll, PassEnd, Vigil, crash
<1>8. CASE Dispatch \/ AwaitSignal \/ Request
  BY <1>1, <1>8, ResultFacts DEF Dispatch, AwaitSignal, Request, Vigil, crash, ctl
<1>9. CASE HandleClone \/ HandleExit \/ HandleExec \/ HandleGroupStop \/ HandleInterrupt \/ HandleSignal
  BY <1>1, <1>9 DEF HandleClone, HandleExit, HandleExec, HandleGroupStop, HandleInterrupt, HandleSignal, Handling, Vigil, crash
<1>10. ASSUME Watched PROVE Vigil
  BY <1>1, <1>10 DEF Watched, arthur, ctl, crash, Vigil
<1>11. ASSUME Arthur \/ Request
       PROVE  \/ SeizeList \/ SeizeEach \/ SeizeEnd \/ DrainStart \/ Poll \/ PassEnd \/ Dispatch \/ AwaitSignal \/ Request
              \/ HandleClone \/ HandleExit \/ HandleExec \/ HandleGroupStop \/ HandleInterrupt \/ HandleSignal
  BY <1>2, <1>3, <1>4, <1>5, <1>6, <1>11, OutOfReach DEF Arthur
<1> QED BY <1>7, <1>8, <1>9, <1>10, <1>11 DEF Next

\* What the watch is about stays as it is.
LEMMA KernelStands ==
  ASSUME UNCHANGED <<task, stop, fresh, child>>, pc # "handle", pc' # "handle"
  PROVE  /\ AliveThreads' = AliveThreads /\ (AllExec' <=> AllExec) /\ (AllReborn' <=> AllReborn)
         /\ \A t : /\ Alive(t)' <=> Alive(t)
                   /\ Unread(t)' <=> Unread(t)
                   /\ Reborn(t)' <=> Reborn(t)
<1>1. /\ \A t : Alive(t)' <=> Alive(t)
      /\ \A t : Unread(t)' <=> Unread(t)
      /\ \A t : Reborn(t)' <=> Reborn(t)
  BY DEF Alive, Unread, Reborn, Untold
<1>2. AliveThreads' = AliveThreads
  BY <1>1 DEF AliveThreads
<1> QED BY <1>1, <1>2 DEF AllExec, AllReborn

LEMMA UnreadIsAlive ==
  ASSUME KernelOK, Ranked, NEW p \in Tids, Unread(p)
  PROVE  p \in AliveThreads /\ p \in traced /\ p < child[p] /\ child[p] \in Tids /\ p \in Listed /\ p \in Threads
<1>1. stop[p] = "clone" /\ Stopped(p)
  BY DEF Unread, Stopped
<1> QED BY <1>1 DEF KernelOK, Ranked, AliveThreads, Alive, Listed

LEMMA WatchesSeizeList == TypeInv /\ Ranked /\ Watch /\ SeizeList /\ Vigil' => Watch'
<1> SUFFICES ASSUME TypeInv, Ranked, Watch, SeizeList, Vigil' PROVE Watch'
    OBVIOUS
<1>1. /\ pc = "seize" /\ pc' = "seizeEach" /\ UNCHANGED <<task, traced, stop, fresh, child>> /\ mtids' = mtids
      /\ leaderExited' = (leaderExited \/ (coll.rounds = 0 /\ task[Leader] = "zombie"))
      /\ todo' = (Listed \ mtids) \ (IF leaderExited' THEN {Leader} ELSE {})
      /\ progress' = FALSE /\ coll' = [coll EXCEPT !.rounds = @ + 1]
  BY DEF SeizeList, Rollback, Goto, Vigil, Watching, Seizing, Polling, kernel
<1>2. /\ Leader \in Threads /\ Leader \in Tids /\ Threads \subseteq Tids /\ KernelOK
      /\ coll.rounds \in Nat /\ coll'.rounds = coll.rounds + 1 /\ leaderExited \in BOOLEAN
  BY <1>1, LeaderIsThread, RoundsBound DEF TypeInv, ControlOK, Collections
<1>3. /\ leaderExited => Leader \notin mtids
      /\ \A m \in mtids \ {Leader} : task[m] = "gone" => AllReborn
      /\ task[Leader] = "zombie" /\ Leader \in traced => AllExec
      /\ leaderExited /\ Alive(Leader) => Reborn(Leader)
      /\ IF coll.rounds = 0 THEN mtids = {} /\ ~leaderExited ELSE mtids # {}
  BY <1>1 DEF Watch, Seized, Seizing, Deserted
<1>4. /\ AliveThreads' = AliveThreads /\ (AllExec' <=> AllExec) /\ (AllReborn' <=> AllReborn)
      /\ \A t : /\ Alive(t)' <=> Alive(t)
                /\ Unread(t)' <=> Unread(t)
                /\ Reborn(t)' <=> Reborn(t)
                /\ Held(t)' <=> Held(t)
  BY <1>1, KernelStands DEF Held
<1>5. Roster'
  BY <1>1, <1>4 DEF Watch, Roster, Known, Announced
<1>6. leaderExited' /\ Alive(Leader) => Reborn(Leader)
  BY <1>1, <1>3 DEF Alive
<1>7. Closed(todo \cup mtids)'
  <2> SUFFICES ASSUME NEW p \in Tids, Unread(p), child[p] \in todo' \cup mtids PROVE p \in todo' \cup mtids
      BY <1>1, <1>4 DEF Closed
  <2>1. p \in Listed /\ Alive(p) /\ stop[p] = "clone"
    BY <1>2, UnreadIsAlive DEF AliveThreads, Unread
  <2>2. p = Leader => ~leaderExited'
    BY <1>6, <2>1 DEF Reborn
  <2> QED BY <1>1, <2>1, <2>2
<1>8. Births'
  <2>1. todo' \cap mtids' = {}
    BY <1>1
  <2> QED BY <1>1, <1>4, <1>7, <2>1 DEF Watch, Births, Closed
<1>9. Seized'
  BY <1>1, <1>2, <1>3, <1>4, <1>6 DEF Seized
<1>10. Complete'
  <2> SUFFICES ASSUME todo' = {}, mtids # {}, leaderExited' \/ Leader \in mtids, ~Lost' PROVE Covered'
    BY <1>1 DEF Complete, RoundDone, Aborting, Polling
  <2>1. Leader \in mtids => ~leaderExited'
    BY <1>1, <1>3
  <2>2. Leader \in mtids => Leader \in traced
    BY <1>1, <2>1 DEF Lost
  <2>3. \A m \in mtids : Held(m)
    BY <2>2 DEF Watch, Roster, Held
  <2>4. AliveThreads \subseteq traced
    <3> SUFFICES ASSUME NEW t \in AliveThreads PROVE t \in traced
        OBVIOUS
    <3>1. t \in Listed /\ Alive(t) /\ task[t] # "gone" /\ t \in Tids
      BY <1>2 DEF AliveThreads, Listed, Alive
    <3>2. t \in mtids => t \in traced
      BY <2>3, <3>1 DEF Held
    <3>3. t \notin mtids => t = Leader /\ leaderExited'
      BY <1>1, <3>1
    <3>4. Reborn(t) => t \in traced
      BY <1>2, <3>1 DEF Reborn, KernelOK, Stopped
    <3> QED BY <1>6, <3>1, <3>2, <3>3, <3>4
  <2>5. task[Leader] = "zombie" /\ ~AllExec => leaderExited'
    BY <1>3, <2>2
  <2> QED BY <1>1, <1>4, <1>6, <2>4, <2>5 DEF Covered, LeaderTold
<1> QED BY <1>5, <1>8, <1>9, <1>10 DEF Watch

LEMMA WatchesSeizeEach == TypeInv /\ Ranked /\ Enrolled /\ Watch /\ SeizeEach /\ Vigil' => Watch'
<1> SUFFICES ASSUME TypeInv, Ranked, Enrolled, Watch, SeizeEach, Vigil' PROVE Watch'
    OBVIOUS
<1>1. /\ pc = "seizeEach" /\ pc' = "seizeEach" /\ UNCHANGED <<task, stop, fresh, child, coll>>
      /\ Leader \in Threads /\ Leader \in Tids /\ Threads \subseteq Tids /\ KernelOK /\ todo \subseteq Tids
      /\ leaderExited \in BOOLEAN
  BY LeaderIsThread DEF SeizeEach, SeizeAll, Rollback, Goto, Vigil, Watching, Seizing, Polling, kernel, TypeInv, ControlOK
<1>2. PICK t \in todo :
        /\ \A u \in todo : t <= u
        /\ todo' = todo \ {t}
        /\ \/ /\ Alive(t) \/ t \in traced
              /\ traced' = traced \cup {u \in {t} : Alive(u)} /\ mtids' = mtids \cup {t} /\ progress' = TRUE
              /\ leaderExited' = leaderExited
           \/ /\ t \notin traced /\ (task[t] = "gone" \/ (t = Leader /\ task[t] = "zombie"))
              /\ leaderExited' = (leaderExited \/ task[t] = "zombie") /\ history'.vanished
              /\ traced' = traced /\ mtids' = mtids
  <2>1. todo # {} /\ LeastOf(todo) \in todo /\ \A u \in todo : LeastOf(todo) <= u
    BY <1>1, LeastIsMember DEF SeizeEach
  <2>2. history' = [history EXCEPT !.vanished = TRUE] => history'.vanished
    BY DEF TypeInv, ControlOK
  <2> QED BY <1>1, <2>1, <2>2 DEF SeizeEach, SeizeAll, Rollback, Goto, thr, kernel
<1>3. t \in Tids /\ t \in Threads /\ Exists(t)
  BY <1>1, <1>2 DEF Enrolled, Leaving
<1>4. /\ leaderExited => Leader \notin mtids /\ Leader \notin todo
      /\ \A m \in mtids \ {Leader} : task[m] = "gone" => AllReborn
      /\ task[Leader] = "zombie" /\ Leader \in traced => AllExec
      /\ leaderExited /\ Alive(Leader) => Reborn(Leader) \/ Deserted
      /\ coll.rounds # 0
  BY <1>1 DEF Watch, Seized, Seizing
<1>5. /\ AliveThreads' = AliveThreads /\ (AllExec' <=> AllExec) /\ (AllReborn' <=> AllReborn)
      /\ \A u : /\ Alive(u)' <=> Alive(u)
                /\ Unread(u)' <=> Unread(u)
                /\ Reborn(u)' <=> Reborn(u)
  BY <1>1, KernelStands
<1>6. /\ \A m \in mtids : Held(m) \/ m = Leader
      /\ \A u \in AliveThreads \cap traced : u \in mtids \/ Announced(u) \/ Reborn(u)
      /\ \A p \in Tids : Unread(p) /\ child[p] \in Threads => stop[child[p]] = "intr"
      /\ Closed(mtids) /\ Closed(todo \cup mtids) /\ todo \cap mtids = {}
  BY <1>1 DEF Watch, Roster, Births, Known
<1>7. CASE /\ Alive(t) \/ t \in traced
           /\ traced' = traced \cup {u \in {t} : Alive(u)} /\ mtids' = mtids \cup {t} /\ progress' = TRUE
           /\ leaderExited' = leaderExited
  <2>1. t \in traced' /\ traced \subseteq traced' /\ traced' \subseteq traced \cup {t} /\ task[t] # "gone"
    BY <1>3, <1>7 DEF Ranked, Alive
  <2>2. Roster'
    <3>1. \A m \in mtids' : Held(m)' \/ m = Leader
      BY <1>1, <1>6, <1>7, <2>1 DEF Held
    <3>2. \A u \in AliveThreads' \cap traced' : Known(u)'
      BY <1>1, <1>5, <1>6, <1>7, <2>1 DEF Known, Announced
    <3> QED BY <3>1, <3>2 DEF Roster
  <2>3. Births'
    <3>1. Closed(mtids)'
      <4> SUFFICES ASSUME NEW p \in Tids, Unread(p), child[p] \in mtids \cup {t} PROVE p \in mtids'
          BY <1>1, <1>5, <1>7 DEF Closed
      <4>1. p \in todo \cup mtids
        BY <1>6 DEF Closed
      <4>2. p < child[p] /\ p \in Int /\ t \in Int
        BY <1>1, <1>3, UnreadIsAlive DEF Tids
      <4>3. child[p] = t => p \notin todo
        BY <1>2, <4>2
      <4> QED BY <1>6, <1>7, <4>1, <4>3 DEF Closed
    <3>2. todo' \cup mtids' = todo \cup mtids /\ todo' \cap mtids' = {}
      BY <1>2, <1>6, <1>7
    <3>3. Closed(todo \cup mtids)'
      BY <1>1, <1>5, <1>6, <3>2 DEF Closed
    <3> QED BY <1>1, <1>5, <1>6, <3>1, <3>2, <3>3 DEF Births
  <2>4. Seized'
    <3>1. ~Deserted
      BY <1>2, <2>1 DEF Deserted
    <3>2. Leader \in traced' => Leader \in traced \/ task[Leader] # "zombie"
      BY <1>7 DEF Alive
    <3> QED BY <1>1, <1>2, <1>4, <1>5, <1>7, <2>1, <3>1, <3>2 DEF Seized, Seizing
  <2>5. Complete'
    BY <1>1, <1>7 DEF Complete, RoundDone, Polling
  <2> QED BY <2>2, <2>3, <2>4, <2>5 DEF Watch
<1>8. CASE /\ t \notin traced /\ (task[t] = "gone" \/ (t = Leader /\ task[t] = "zombie"))
           /\ leaderExited' = (leaderExited \/ task[t] = "zombie") /\ history'.vanished
           /\ traced' = traced /\ mtids' = mtids
  <2>1. ~Unread(t)
    BY <1>1, <1>3, <1>8 DEF Unread, KernelOK, Stopped
  <2>2. Roster'
    BY <1>1, <1>5, <1>6, <1>8 DEF Roster, Known, Announced, Held
  <2>3. Births'
    <3>1. Closed(mtids)'
      BY <1>1, <1>5, <1>6, <1>8 DEF Closed
    <3>2. Closed(todo \cup mtids)'
      BY <1>1, <1>2, <1>5, <1>6, <1>8, <2>1 DEF Closed
    <3> QED BY <1>1, <1>2, <1>5, <1>6, <1>8, <3>1, <3>2 DEF Births
  <2>4. Seized'
    <3>1. task[t] = "zombie" => t = Leader /\ ~Alive(Leader) /\ Leader \notin mtids
      BY <1>2, <1>6, <1>8 DEF Alive
    <3>2. Deserted => Deserted'
      BY <1>1, <1>2, <1>8 DEF Deserted
    <3> QED BY <1>1, <1>2, <1>4, <1>5, <1>8, <3>1, <3>2 DEF Seized, Seizing
  <2>5. Complete'
    BY <1>8 DEF Complete
  <2> QED BY <2>2, <2>3, <2>4, <2>5 DEF Watch
<1> QED BY <1>2, <1>7, <1>8

LEMMA WatchesSeizeEnd == TypeInv /\ Ranked /\ Watch /\ SeizeEnd /\ Vigil' => Watch'
<1> SUFFICES ASSUME TypeInv, Ranked, Watch, SeizeEnd, Vigil' PROVE Watch'
    OBVIOUS
<1>1. /\ pc = "seizeEach" /\ todo = {} /\ UNCHANGED <<task, traced, stop, fresh, child, mtids, leaderExited, progress, history>>
      /\ mtids # {} /\ (leaderExited \/ Leader \in mtids)
      /\ \/ ~progress /\ pc' = "drain"
         \/ progress /\ pc' = "seize" /\ coll' = coll
  BY DEF SeizeEnd, Rollback, Goto, Vigil, Watching, Seizing, Polling, kernel, thr, loop
<1>2. /\ AliveThreads' = AliveThreads /\ (AllExec' <=> AllExec) /\ (AllReborn' <=> AllReborn)
      /\ \A u : /\ Alive(u)' <=> Alive(u)
                /\ Unread(u)' <=> Unread(u)
                /\ Reborn(u)' <=> Reborn(u)
                /\ Held(u)' <=> Held(u)
  BY <1>1, KernelStands DEF Held
<1>3. Roster' /\ Births'
  BY <1>1, <1>2 DEF Watch, Roster, Births, Known, Announced, Closed
<1>4. Seized'
  BY <1>1, <1>2 DEF Watch, Seized, Seizing, Deserted
<1>5. Complete'
  BY <1>1, <1>2 DEF Watch, Complete, RoundDone, Polling, Lost, Aborting, Covered, LeaderTold
<1> QED BY <1>3, <1>4, <1>5 DEF Watch

LEMMA WatchesMainLoop ==
  TypeInv /\ NoSnapshots /\ Watch /\ (DrainStart \/ Dispatch \/ AwaitSignal \/ Request) /\ Vigil' => Watch'
<1> SUFFICES ASSUME TypeInv, NoSnapshots, Watch, DrainStart \/ Dispatch \/ AwaitSignal \/ Request, Vigil' PROVE Watch'
    OBVIOUS
<1>1. /\ pc \in {"drain", "dispatch", "wait"} /\ UNCHANGED <<task, traced, stop, fresh, child, mtids, leaderExited, history>>
      /\ (pc = "drain" /\ pc' = "poll" /\ todo' = mtids) \/ (pc # "drain" /\ pc' \in {"drain", "wait"})
  BY ResultFacts DEF NoSnapshots, DrainStart, Dispatch, AwaitSignal, Request, Quit, Goto, Vigil, Watching, Seizing,
     Polling, kernel, thr, ends, ctl, TakeChld
<1>2. /\ AliveThreads' = AliveThreads /\ (AllExec' <=> AllExec)
      /\ \A u : /\ Alive(u)' <=> Alive(u)
                /\ Unread(u)' <=> Unread(u)
                /\ Reborn(u)' <=> Reborn(u)
                /\ Held(u)' <=> Held(u)
  BY <1>1, KernelStands DEF Held
<1>3. Roster' /\ Births'
  BY <1>1, <1>2 DEF Watch, Roster, Births, Known, Announced, Closed
<1>4. Seized'
  BY <1>1 DEF Seized, Seizing
<1>5. Complete'
  BY <1>1, <1>2 DEF Watch, Complete, RoundDone, Polling, Lost, Aborting, Covered, LeaderTold
<1> QED BY <1>3, <1>4, <1>5 DEF Watch

LEMMA WatchesPoll == TypeInv /\ Ranked /\ Enrolled /\ Watch /\ Poll /\ Vigil' => Watch'
<1> SUFFICES ASSUME TypeInv, Ranked, Enrolled, Watch, Poll, Vigil' PROVE Watch'
    OBVIOUS
<1>1. /\ pc = "poll" /\ UNCHANGED <<stop, child, leaderExited, history>> /\ todo \subseteq mtids
      /\ Leader \in Threads /\ Leader \in Tids /\ Threads \subseteq Tids /\ KernelOK /\ todo \subseteq Tids
  BY LeaderIsThread DEF Poll, WaitStop, WaitExit, kernel, TypeInv, ControlOK, Enrolled, Leaving
<1>2. PICK t \in todo :
        /\ \A u \in todo : t <= u
        /\ \/ /\ t \in fresh /\ fresh' = fresh \ {t} /\ tid' = t /\ pc' = "handle"
              /\ UNCHANGED <<task, traced, todo, mtids>>
           \/ /\ pc' = "poll" /\ todo' = todo \ {t} /\ fresh' = fresh
              /\ \/ /\ task[t] = "zombie" /\ t # Leader /\ task' = [task EXCEPT ![t] = "gone"]
                    /\ traced' = traced \ {t} /\ mtids' = mtids \ {t}
                 \/ t \in traced /\ t \notin fresh /\ UNCHANGED <<task, traced, mtids>>
                 \/ t # Leader /\ task[t] = "gone" /\ mtids' = mtids \ {t} /\ UNCHANGED <<task, traced>>
  <2>1. todo # {} /\ LeastOf(todo) \in todo /\ \A u \in todo : LeastOf(todo) <= u
    BY <1>1, LeastIsMember DEF Poll
  <2> QED BY <1>1, <2>1 DEF Poll, WaitStop, WaitExit, Reapable, Waitable, Quit, Goto, kernel, Vigil, Watching, Seizing, Polling
<1>3. t \in Tids /\ t \in mtids
  BY <1>1, <1>2
<1>4. /\ \A m \in mtids : Held(m) \/ m = Leader
      /\ \A u \in AliveThreads \cap traced : u \in mtids \/ Announced(u) \/ Reborn(u)
      /\ \A p \in Tids : Unread(p) /\ child[p] \in Threads => stop[child[p]] = "intr"
      /\ Closed(mtids) /\ Closed(todo)
  BY <1>1 DEF Watch, Roster, Births, Known
<1>5. Lost => t = Leader /\ t \notin traced
  <2>1. Lost => Leader \in todo /\ Leader \notin traced
    BY <1>1 DEF Lost
  <2>2. t \in Int /\ Leader <= t
    BY <1>3 DEF Tids, Leader
  <2> QED BY <1>2, <2>1, <2>2 DEF Leader
<1>6. ~history.vanished /\ ~Lost => Covered
  BY <1>1 DEF Watch, Complete, RoundDone, Polling, Aborting
<1>7. Seized'
  BY <1>2 DEF Seized, Seizing
<1>8. CASE /\ t \in fresh /\ fresh' = fresh \ {t} /\ tid' = t /\ pc' = "handle"
           /\ UNCHANGED <<task, traced, todo, mtids>>
  <2>1. /\ AliveThreads' = AliveThreads /\ (AllExec' <=> AllExec)
        /\ \A u : /\ Alive(u)' <=> Alive(u)
                  /\ Unread(u)' <=> Unread(u)
                  /\ Reborn(u)' <=> Reborn(u)
                  /\ Held(u)' <=> Held(u)
    <3>1. /\ \A u : Alive(u)' <=> Alive(u)
          /\ \A u : Unread(u)' <=> Unread(u)
          /\ \A u : Reborn(u)' <=> Reborn(u)
          /\ \A u : Held(u)' <=> Held(u)
      BY <1>1, <1>8 DEF Alive, Unread, Reborn, Untold, Held
    <3> QED BY <1>8, <3>1 DEF AliveThreads, AllExec
  <2>2. Roster' /\ Births'
    BY <1>1, <1>4, <1>8, <2>1 DEF Roster, Births, Known, Announced, Closed
  <2>3. ~Lost
    BY <1>1, <1>3, <1>5, <1>8 DEF KernelOK, Stopped
  <2>4. Complete'
    BY <1>1, <1>6, <1>8, <2>1, <2>3 DEF Complete, Covered, LeaderTold
  <2> QED BY <1>7, <2>2, <2>4 DEF Watch
<1>9. CASE /\ pc' = "poll" /\ todo' = todo \ {t} /\ fresh' = fresh
           /\ \/ /\ task[t] = "zombie" /\ t # Leader /\ task' = [task EXCEPT ![t] = "gone"]
                 /\ traced' = traced \ {t} /\ mtids' = mtids \ {t}
              \/ t \in traced /\ t \notin fresh /\ UNCHANGED <<task, traced, mtids>>
              \/ t # Leader /\ task[t] = "gone" /\ mtids' = mtids \ {t} /\ UNCHANGED <<task, traced>>
  <2>1. /\ \A u : Unread(u)' <=> Unread(u)
        /\ \A u : Reborn(u)' <=> Reborn(u)
    BY <1>1, <1>9 DEF Unread, Reborn, Untold
  <2>2. /\ \A u \in Tids \ {t} : task'[u] = task[u] /\ (u \in traced' <=> u \in traced)
        /\ \A u \in Tids : Alive(u)' <=> Alive(u)
        /\ mtids' = mtids \/ (mtids' = mtids \ {t} /\ ~Alive(t) /\ t # Leader)
        /\ mtids' = mtids => UNCHANGED <<task, traced>>
        /\ ~Alive(t) \/ t \in traced'
    BY <1>1, <1>3, <1>9 DEF KernelOK, Alive
  <2>3. AliveThreads' = AliveThreads /\ (AllExec' <=> AllExec)
    <3>1. AliveThreads' = AliveThreads
      BY <1>1, <2>2 DEF AliveThreads
    <3>2. \A u \in AliveThreads : task'[u] = task[u]
      BY <1>1, <1>9, <2>2 DEF AliveThreads, Alive
    <3> QED BY <3>1, <3>2 DEF AllExec
  <2>4. ~Unread(t)
    BY <1>1, <1>3, <1>9 DEF Unread, KernelOK, Stopped
  <2>5. Roster'
    <3>1. \A m \in mtids' : Held(m)' \/ m = Leader
      BY <1>4, <1>9, <2>2 DEF Held, TypeInv, ControlOK
    <3>2. ASSUME NEW u \in AliveThreads, u \in traced' PROVE Known(u)'
      <4>1. u \in traced /\ u \in Tids /\ Alive(u)
        BY <1>1, <1>9, <3>2 DEF AliveThreads
      <4>2. u \in mtids => u \in mtids'
        BY <2>2, <4>1
      <4>3. Announced(u) => Announced(u)'
        BY <1>1, <2>1, <2>2, <2>4 DEF Announced
      <4> QED BY <1>4, <2>1, <3>2, <4>1, <4>2, <4>3 DEF Known
    <3> QED BY <2>3, <3>1, <3>2 DEF Roster
  <2>6. Births'
    BY <1>1, <1>4, <1>9, <2>1, <2>2, <2>4 DEF Births, Closed
  <2>7. ~Lost
    BY <1>5, <1>9
  <2>8. Complete'
    <3>1. AliveThreads \subseteq traced => AliveThreads' \subseteq traced'
      BY <1>1, <2>2, <2>3 DEF AliveThreads
    <3>2. task'[Leader] = task[Leader]
      BY <1>1, <1>9, <2>2
    <3> QED BY <1>1, <1>6, <2>1, <2>2, <2>3, <2>7, <3>1, <3>2 DEF Complete, Covered, LeaderTold
  <2> QED BY <1>7, <2>5, <2>6, <2>8 DEF Watch
<1> QED BY <1>2, <1>8, <1>9

LEMMA WatchesPassEnd == TypeInv /\ Ranked /\ Watch /\ PassEnd /\ Vigil' => Watch'
<1> SUFFICES ASSUME TypeInv, Ranked, Watch, PassEnd, Vigil' PROVE Watch'
    OBVIOUS
<1>1. /\ pc = "poll" /\ todo = {} /\ UNCHANGED <<task, traced, stop, fresh, child, leaderExited, history>>
      /\ pc' \in {"drain", "dispatch"} /\ (mtids' = mtids \/ mtids' = Listed \cap traced)
  <2>1. pc' \in Watching /\ pc = "poll" /\ todo = {} /\ UNCHANGED <<task, traced, stop, fresh, child, leaderExited, history>>
    BY DEF PassEnd, Vigil, kernel, ends
  <2>2. CASE mtids = {}
    BY <2>1, <2>2 DEF PassEnd, Quit, Goto, Watching, Seizing, Polling
  <2>3. CASE mtids # {}
    BY <2>1, <2>3 DEF PassEnd, Quit, Goto, Watching, Seizing, Polling
  <2> QED BY <2>1, <2>2, <2>3
<1>2. /\ AliveThreads' = AliveThreads /\ (AllExec' <=> AllExec)
      /\ \A u : /\ Alive(u)' <=> Alive(u)
                /\ Unread(u)' <=> Unread(u)
                /\ Reborn(u)' <=> Reborn(u)
                /\ Held(u)' <=> Held(u)
  BY <1>1, KernelStands DEF Held
<1>3. Roster'
  <2>1. AliveThreads \subseteq Listed
    BY DEF AliveThreads, Listed, Alive
  <2> QED BY <1>1, <1>2, <2>1 DEF Watch, Roster, Known, Announced, Held
<1>4. Births'
  <2>1. \A p \in Tids : Unread(p) => p \in Listed \cap traced
    BY UnreadIsAlive DEF TypeInv
  <2> QED BY <1>1, <1>2, <2>1 DEF Watch, Births, Closed
<1>5. Seized'
  BY <1>1 DEF Seized, Seizing
<1>6. Complete'
  BY <1>1, <1>2 DEF Watch, Complete, RoundDone, Polling, Lost, Aborting, Covered, LeaderTold
<1> QED BY <1>3, <1>4, <1>5, <1>6 DEF Watch

-----------------------------------------------------------------------------
(* Arthur handles what the watch shows                                     *)

\* The thread is there to be handled: it is alive at the stop waitpid returned, or it
\* has been made to die, or its exit was read and nobody traces it.
LEMMA Handles ==
  ASSUME TypeInv, Ranked, ReadTrue, pc = "handle", exitSig = "none" \/ status # "exit", StillThere
  PROVE  /\ status # "none" /\ tid \in Tids
         /\ \/ Alive(tid) /\ stop[tid] = status /\ tid \notin fresh /\ Answers(tid)
            \/ stop[tid] = "exit" /\ task[tid] = "dying" /\ AllExec /\ Answers(tid)
            \/ Alive(tid) /\ tid \notin traced /\ stop[tid] = "none" /\ status = "exit"
<1>1. tid \in Tids /\ ~Renamed(tid) /\ (Alive(tid) \/ Stopped(tid)) /\ status # "none"
  BY DEF TypeInv, ControlOK, StillThere, ReadTrue
<1>2. CASE Alive(tid)
  <2>1. \/ stop[tid] = status /\ tid \notin fresh
        \/ tid \notin traced /\ status = "exit"
    BY <1>1, <1>2 DEF ReadTrue
  <2>2. tid \notin traced => stop[tid] = "none"
    BY <1>1 DEF TypeInv, KernelOK, Stopped
  <2> QED BY <1>1, <1>2, <2>1, <2>2 DEF Answers, Stopped
<1>3. CASE ~Alive(tid)
  <2>1. task[tid] = "dying" /\ stop[tid] = "exit"
    BY <1>1, <1>3 DEF TypeInv, KernelOK, Alive
  <2> QED BY <1>1, <2>1 DEF Ranked, Answers, Stopped
<1> QED BY <1>2, <1>3

\* The thread that is handled is resumed, if it stands still.
Resumed ==
  /\ UNCHANGED <<traced, child>>
  /\ \A u \in Tids \ {tid} : task'[u] = task[u] /\ stop'[u] = stop[u] /\ (u \in fresh' <=> u \in fresh)
  /\ \/ UNCHANGED <<task, stop, fresh>> /\ ~Answers(tid)
     \/ stop'[tid] = "none" /\ tid \notin fresh' /\ task'[tid] = (IF stop[tid] = "exit" THEN "zombie" ELSE task[tid])

LEMMA ContinueResumes ==
  ASSUME TypeInv, NEW sig, sig \notin Fatal, Continue(Just(tid, sig), FALSE)
  PROVE  Resumed
<1>1. tid \in Tids /\ KernelOK
  BY DEF TypeInv, ControlOK
<1>2. PICK ts : ts = {t \in {tid} : Answers(t)} /\ ContinueThose(ts, Just(tid, sig), FALSE)
  BY DEF Continue, Just
<1>3. {Just(tid, sig)[t] : t \in {u \in ts : stop[u] \in Signals}} \subseteq {sig}
  BY <1>2 DEF Just
<1>4. /\ task' = [t \in Tids |-> IF t \in ts /\ stop[t] = "exit" THEN "zombie" ELSE task[t]]
      /\ stop' = NotIn(ts) /\ fresh' = fresh \ ts /\ traced' = traced /\ child' = child
  <2>1. ~(({Just(tid, sig)[t] : t \in {u \in ts : stop[u] \in Signals}} \ {"none"}) \cap Fatal # {})
    BY <1>3
  <2> QED BY <1>2, <2>1 DEF ContinueThose
<1>5. CASE Answers(tid)
  BY <1>1, <1>2, <1>4, <1>5 DEF Resumed, NotIn, KernelOK
<1>6. CASE ~Answers(tid)
  <2>1. ts = {}
    BY <1>2, <1>6
  <2>2. task' = task /\ stop' = stop /\ fresh' = fresh
    BY <1>1, <1>4, <2>1 DEF NotIn, KernelOK
  <2> QED BY <1>4, <1>6, <2>2 DEF Resumed
<1> QED BY <1>5, <1>6

\* Every event but a clone and an exec.
LEMMA WatchesResumed ==
  ASSUME TypeInv, Ranked, Enrolled, ReadTrue, Watch, pc = "handle", exitSig = "none", StillThere,
         status \notin {"clone", "exec"}, Resumed,
         pc' = "poll", todo' = todo \ {tid}, UNCHANGED <<mtids, history>>,
         leaderExited' = (leaderExited \/ (tid = Leader /\ status = "exit"))
  PROVE  Watch'
<1>1. /\ tid \in Tids /\ tid \in todo /\ \A t \in todo : tid <= t
      /\ Leader \in Threads /\ Leader \in Tids /\ Threads \subseteq Tids /\ KernelOK /\ mtids \subseteq Tids
  BY LeaderIsThread DEF Enrolled, Leaving, TypeInv, ControlOK
<1> PICK r \in Tids : r = tid
  BY <1>1
<1>2. /\ traced' = traced /\ child' = child
      /\ \A u \in Tids \ {r} : task'[u] = task[u] /\ stop'[u] = stop[u] /\ (u \in fresh' <=> u \in fresh)
      /\ stop'[r] \in {stop[r], "none"}
      /\ task'[r] = task[r] \/ (stop[r] = "exit" /\ task'[r] = "zombie" /\ (status = "exit" \/ AllExec))
      /\ stop[r] \notin {"clone", "exec"}
      /\ status = "exit" => ~Alive(r)' \/ r \notin traced
  <2>1. stop[r] \notin {"clone", "exec"} /\ (stop[r] = "exit" => status = "exit" \/ AllExec)
    BY Handles
  <2>2. status = "exit" => (Answers(r) /\ stop[r] = "exit") \/ r \notin traced
    BY Handles
  <2>3. stop[r] = "exit" /\ Answers(r) => ~Alive(r)'
    BY DEF Resumed, Alive
  <2> QED BY <2>1, <2>2, <2>3 DEF Resumed
<1>3. /\ \A u \in Tids : Alive(u)' => Alive(u) /\ task'[u] = task[u]
      /\ \A u \in Tids : Unread(u)' <=> Unread(u)
      /\ \A u \in Tids : Reborn(u)' <=> Reborn(u)
      /\ \A u \in Tids : Held(u) => Held(u)'
      /\ ~Unread(r)
  <2>1. ~Unread(r) /\ ~Unread(r)' /\ ~Reborn(r) /\ ~Reborn(r)'
    BY <1>2 DEF Unread, Reborn
  <2>2. ASSUME NEW u \in Tids \ {r} PROVE (Unread(u)' <=> Unread(u)) /\ (Reborn(u)' <=> Reborn(u))
    BY <1>2 DEF Unread, Reborn, Untold
  <2>3. \A u \in Tids : Held(u) => Held(u)'
    BY <1>1, <1>2 DEF Held, KernelOK, Stopped
  <2>4. \A u \in Tids : Alive(u)' => Alive(u) /\ task'[u] = task[u]
    BY <1>2 DEF Alive
  <2> QED BY <2>1, <2>2, <2>3, <2>4
<1>4. AliveThreads' \subseteq AliveThreads /\ (AllExec => AllExec') /\ AliveThreads \subseteq Tids
  <2>1. AliveThreads' \subseteq AliveThreads /\ AliveThreads \subseteq Tids
    BY <1>1, <1>3 DEF AliveThreads
  <2> QED BY <1>1, <1>3, <2>1 DEF AllExec, AliveThreads
<1>5. /\ \A m \in mtids : Held(m) \/ m = Leader
      /\ \A u \in AliveThreads \cap traced : u \in mtids \/ Announced(u) \/ Reborn(u)
      /\ \A p \in Tids : Unread(p) /\ child[p] \in Threads => stop[child[p]] = "intr"
      /\ Closed(mtids) /\ Closed(todo)
  BY DEF Watch, Roster, Births, Known
<1>6. Roster'
  <2>1. ASSUME NEW u \in AliveThreads', u \in traced' PROVE Known(u)'
    <3>1. u \in Tids /\ (u \in mtids \/ Announced(u) \/ Reborn(u))
      BY <1>2, <1>4, <1>5, <2>1
    <3>2. Announced(u) => Announced(u)'
      BY <1>1, <1>2, <1>3 DEF Announced
    <3> QED BY <1>3, <3>1, <3>2 DEF Known
  <2> QED BY <1>1, <1>3, <1>5, <2>1 DEF Roster
<1>7. Births'
  <2>1. ASSUME NEW p \in Tids, Unread(p), child[p] \in Threads PROVE stop'[child[p]] = "intr"
    <3>1. PICK c \in Tids : c = child[p]
      BY <1>1, <2>1
    <3>2. p < c /\ p \in Int /\ tid \in Int
      BY <1>1, <2>1, <3>1, UnreadIsAlive DEF Tids
    <3>3. c # tid
      BY <1>1, <1>5, <2>1, <3>1, <3>2 DEF Closed
    <3> QED BY <1>2, <1>5, <2>1, <3>1, <3>3
  <2>2. Closed(mtids)' /\ Closed(todo)'
    BY <1>1, <1>2, <1>3, <1>5 DEF Closed
  <2> QED BY <1>2, <1>3, <2>1, <2>2 DEF Births
<1>8. Seized'
  BY DEF Seized, Seizing
<1>9. Complete'
  <2> SUFFICES ASSUME ~history.vanished PROVE Covered'
    BY DEF Complete
  <2>1. AliveThreads \subseteq traced /\ LeaderTold
    BY DEF Watch, Complete, RoundDone, Polling, Lost, Aborting, Covered
  <2>2. ASSUME task'[Leader] = "zombie", ~AllExec' PROVE leaderExited'
    <3>1. ~AllExec
      BY <1>4, <2>2
    <3> QED BY <1>1, <1>2, <2>1, <2>2, <3>1 DEF LeaderTold
  <2>3. ASSUME leaderExited', Alive(Leader)' PROVE Reborn(Leader)'
    <3>1. Alive(Leader) /\ Leader \in AliveThreads
      BY <1>1, <1>3, <2>3 DEF AliveThreads
    <3>2. leaderExited
      BY <1>2, <2>1, <2>3, <3>1
    <3> QED BY <1>1, <1>3, <2>1, <3>1, <3>2 DEF LeaderTold
  <2> QED BY <1>2, <1>4, <2>1, <2>2, <2>3 DEF Covered, LeaderTold
<1> QED BY <1>6, <1>7, <1>8, <1>9 DEF Watch

LEMMA WatchesHandle ==
  TypeInv /\ Ranked /\ Enrolled /\ ReadTrue /\ Watch /\ (HandleExit \/ HandleGroupStop \/ HandleInterrupt \/ HandleSignal) /\ Vigil'
    => Watch'
<1> SUFFICES ASSUME TypeInv, Ranked, Enrolled, ReadTrue, Watch, HandleExit \/ HandleGroupStop \/ HandleInterrupt \/ HandleSignal, Vigil'
             PROVE  Watch'
    OBVIOUS
<1>1. /\ pc = "handle" /\ StillThere /\ exitSig = "none" /\ pc' = "poll" /\ todo' = todo \ {tid} /\ UNCHANGED <<mtids, history>>
      /\ status \in {"exit", "group", "intr"} \cup Signals
      /\ leaderExited' = (leaderExited \/ tid = Leader) \/ (status # "exit" /\ leaderExited' = leaderExited)
      /\ status # "exit" => leaderExited' = leaderExited
  BY SignalFacts DEF HandleExit, HandleGroupStop, HandleInterrupt, HandleSignal, Handling, Handled, Goto, Vigil, crash, thr, ends
<1>2. leaderExited' = (leaderExited \/ (tid = Leader /\ status = "exit")) /\ status \notin {"clone", "exec"}
  BY <1>1, SignalFacts DEF TypeInv, ControlOK
<1>3. Resumed
  <2>1. CASE HandleExit \/ HandleInterrupt
    BY <1>1, <2>1, ContinueResumes, ResultFacts DEF HandleExit, HandleInterrupt, Resume
  <2>2. CASE HandleSignal
    BY <1>1, <2>2, ContinueResumes DEF HandleSignal, Handling, Resume
  <2>3. CASE HandleGroupStop
    <3>1. tid \in Tids /\ KernelOK
      BY DEF TypeInv, ControlOK
    <3>2. stop[tid] # "exit"
      <4>1. status = "group" /\ Alive(tid)
        BY <1>1, <2>3 DEF HandleGroupStop, Handling, StillThere, Renamed
      <4> QED BY <1>1, <4>1, Handles DEF Alive
    <3> QED BY <2>3, <3>1, <3>2 DEF HandleGroupStop, Listen, Resumed, KernelOK
  <2> QED BY <2>1, <2>2, <2>3
<1> QED BY <1>1, <1>2, <1>3, WatchesResumed

LEMMA WatchesHandleExec ==
  TypeInv /\ Ranked /\ ReadTrue /\ Watch /\ HandleExec /\ Vigil' => Watch'
<1> SUFFICES ASSUME TypeInv, Ranked, ReadTrue, Watch, HandleExec, Vigil' PROVE Watch'
    OBVIOUS
<1>1. /\ pc = "handle" /\ status = "exec" /\ exitSig = "none" /\ pc' = "poll" /\ todo' = {} /\ mtids' = {Leader}
      /\ leaderExited' = FALSE /\ UNCHANGED history /\ Resumed
      /\ Leader \in Threads /\ Leader \in Tids /\ Threads \subseteq Tids /\ KernelOK
  BY LeaderIsThread, ContinueResumes, ResultFacts DEF HandleExec, Handling, Goto, Resume, Vigil, crash, ends, TypeInv
<1> PICK r \in Tids : r = tid
  BY DEF TypeInv, ControlOK
<1>2. /\ \A t \in AliveThreads : t = r /\ t = Leader /\ stop[t] = "exec"
      /\ AliveThreads \subseteq Tids
  <2>1. AliveThreads \subseteq Tids
    BY <1>1 DEF AliveThreads
  <2>2. \A t \in AliveThreads : t = r /\ stop[t] = "exec"
    BY <1>1 DEF ReadTrue
  <2> QED BY <2>1, <2>2 DEF Ranked
<1>3. ASSUME NEW t \in Tids, Unread(t) PROVE FALSE
  <2>1. t \in AliveThreads
    BY <1>1, <1>3, UnreadIsAlive
  <2>2. stop[t] = "clone"
    BY <1>3 DEF Unread
  <2> QED BY <1>2, <2>1, <2>2
<1>4. /\ \A t \in Tids : Alive(t)' => Alive(t)
      /\ \A t \in Tids : ~Unread(t)'
      /\ traced' = traced
  <2>1. traced' = traced /\ \A t \in Tids : (task'[t] = task[t] \/ task'[t] = "zombie") /\ stop'[t] \in {stop[t], "none"}
                                            /\ (t \in fresh' => t \in fresh)
    BY <1>1 DEF Resumed
  <2> QED BY <1>1, <1>3, <2>1 DEF Unread, Alive
<1>5. AliveThreads' \subseteq AliveThreads /\ AliveThreads' \subseteq {Leader}
  BY <1>1, <1>2, <1>4 DEF AliveThreads
<1>6. Roster' /\ Births'
  <2>1. Roster'
    BY <1>1, <1>5 DEF Roster, Known
  <2> QED BY <1>1, <1>4, <2>1 DEF Births, Closed
<1>7. Seized'
  BY <1>1 DEF Seized, Seizing
<1>8. Complete'
  <2> SUFFICES ASSUME ~history.vanished PROVE Covered'
    BY <1>1 DEF Complete
  <2>1. AliveThreads \subseteq traced
    BY <1>1 DEF Watch, Complete, RoundDone, Polling, Lost, Aborting, Covered
  <2>2. task'[Leader] = "zombie" => AllExec'
    BY <1>5 DEF AllExec, AliveThreads, Alive
  <2> QED BY <1>1, <1>4, <1>5, <2>1, <2>2 DEF Covered, LeaderTold
<1> QED BY <1>6, <1>7, <1>8 DEF Watch

LEMMA WatchesHandleClone ==
  TypeInv /\ Ranked /\ Enrolled /\ ReadTrue /\ Watch /\ HandleClone /\ Vigil' => Watch'
<1> SUFFICES ASSUME TypeInv, Ranked, Enrolled, ReadTrue, Watch, HandleClone, Vigil' PROVE Watch'
    OBVIOUS
<1> PICK r \in Tids : r = tid
  BY DEF TypeInv, ControlOK
<1> DEFINE c == child[r]
<1>1. /\ pc = "handle" /\ status = "clone" /\ exitSig = "none" /\ StillThere /\ pc' = "poll" /\ todo' = todo \ {r}
      /\ mtids' = (IF c \in Procs THEN mtids ELSE mtids \cup {c})
      /\ stop' = NotIn({r, c} \cup (IF c \in Procs THEN {c} ELSE {})) /\ fresh' = fresh \ {r, c}
      /\ traced' = (IF c \in Procs THEN traced \ {c} ELSE traced)
      /\ UNCHANGED <<task, child, leaderExited, history>>
      /\ Leader \in Threads /\ Leader \in Tids /\ Threads \subseteq Tids /\ KernelOK
  BY LeaderIsThread DEF HandleClone, Handling, Handled, Goto, AfterClone, Vigil, crash, ends, TypeInv
<1>2. stop[r] = "clone" /\ Unread(r) /\ Alive(r)
  <2>1. Alive(r)
    BY <1>1 DEF StillThere
  <2>2. stop[r] = "clone"
    BY <1>1, <2>1, Handles DEF Alive
  <2> QED BY <1>1, <2>1, <2>2 DEF Unread
<1>3. c \in Tids /\ r < c /\ r # c /\ \A u \in Tids \ {r} : stop[u] = "clone" => child[u] # c
  <2>1. c \in Tids /\ r < c
    BY <1>1, <1>2, UnreadIsAlive
  <2>2. r \in Int
    BY DEF Tids
  <2> QED BY <1>2, <2>1, <2>2 DEF Ranked
<1> PICK d \in Tids : d = c
  BY <1>3
<1> HIDE DEF c
<1>4. /\ \A m \in mtids : Held(m) \/ m = Leader
      /\ \A u \in AliveThreads \cap traced : u \in mtids \/ Announced(u) \/ Reborn(u)
      /\ \A p \in Tids : Unread(p) /\ child[p] \in Threads => stop[child[p]] = "intr"
      /\ Closed(mtids) /\ Closed(todo)
      /\ \A m \in mtids : m \in Threads
  BY <1>1 DEF Watch, Roster, Births, Known, Enrolled, Leaving
<1>5. /\ d \in Threads => stop[d] = "intr" /\ d \in traced
      /\ d \in Threads => stop[d] \notin {"clone", "exec"}
  <2>1. d \in Threads => stop[d] = "intr"
    BY <1>2, <1>4 DEF c
  <2> QED BY <1>1, <2>1 DEF KernelOK, Stopped
<1>6. /\ stop'[r] = "none" /\ stop'[d] = "none" /\ \A u \in Tids \ {r, d} : stop'[u] = stop[u] /\ (u \in fresh' <=> u \in fresh)
      /\ \A u \in Threads : u \in traced' <=> u \in traced
      /\ d \in Threads => mtids' = mtids \cup {d}
      /\ d \notin Threads => mtids' = mtids
      /\ d \in Threads <=> d \notin Procs
  BY <1>1 DEF NotIn, Threads
<1>7. /\ \A u \in Tids : Unread(u)' <=> Unread(u) /\ u # r
      /\ \A u \in Threads : Reborn(u)' <=> Reborn(u)
      /\ \A u \in Threads : Held(u)' <=> Held(u)
      /\ \A u \in Tids : Alive(u)' <=> Alive(u)
  <2>1. ASSUME NEW u \in Tids PROVE Unread(u)' <=> Unread(u) /\ u # r
    <3>1. CASE u \notin {r, d}
      BY <1>1, <1>6, <3>1 DEF Unread
    <3>2. CASE u = r
      BY <1>6, <3>2 DEF Unread
    <3>3. CASE u = d
      BY <1>1, <1>5, <1>6, <3>3 DEF Unread, KernelOK
    <3> QED BY <3>1, <3>2, <3>3
  <2>2. ASSUME NEW u \in Threads PROVE Reborn(u)' <=> Reborn(u)
    <3>1. CASE u \notin {r, d}
      BY <1>1, <1>6, <2>2, <3>1 DEF Reborn, Untold
    <3>2. CASE u = r
      BY <1>2, <1>6, <3>2 DEF Reborn
    <3>3. CASE u = d
      BY <1>5, <1>6, <2>2, <3>3 DEF Reborn
    <3> QED BY <3>1, <3>2, <3>3
  <2> QED BY <1>1, <1>6, <2>1, <2>2 DEF Held, Alive
<1>8. AliveThreads' = AliveThreads /\ (AllExec' <=> AllExec) /\ AliveThreads \subseteq Threads
  <2>1. AliveThreads' = AliveThreads /\ AliveThreads \subseteq Threads
    BY <1>1, <1>7 DEF AliveThreads
  <2> QED BY <1>1, <2>1 DEF AllExec
<1>9. Roster'
  <2>1. \A m \in mtids' : Held(m)' \/ m = Leader
    BY <1>4, <1>5, <1>6, <1>7 DEF Held
  <2>2. ASSUME NEW u \in AliveThreads, u \in traced' PROVE Known(u)'
    <3>1. u \in traced /\ u \in Threads
      BY <1>6, <1>8, <2>2
    <3>2. u \in mtids => u \in mtids'
      BY <1>6
    <3>3. Announced(u) => u \in mtids' \/ Announced(u)'
      <4> SUFFICES ASSUME NEW p \in mtids, Unread(p), child[p] = u, p # r PROVE Announced(u)'
          BY <1>6, <3>1 DEF Announced, c
      <4>1. p \in Tids
        BY <1>1, <1>4
      <4>2. Unread(p)' /\ p \in mtids'
        BY <1>6, <1>7, <4>1
      <4> QED BY <1>1, <4>2 DEF Announced
    <3> QED BY <1>4, <1>7, <2>2, <3>1, <3>2, <3>3 DEF Known
  <2> QED BY <1>8, <2>1, <2>2 DEF Roster
<1>10. Births'
  <2>1. ASSUME NEW p \in Tids, Unread(p)' PROVE Unread(p) /\ p # r /\ child'[p] = child[p] /\ child[p] # d /\ stop[p] = "clone"
    <3>1. Unread(p) /\ p # r /\ stop[p] = "clone"
      BY <1>7, <2>1 DEF Unread
    <3> QED BY <1>1, <1>3, <3>1
  <2>2. ASSUME NEW p \in Tids, Unread(p)', child[p] \in Threads PROVE stop'[child[p]] = "intr"
    <3>1. Unread(p) /\ child[p] # d /\ child[p] \in Tids /\ stop[child[p]] = "intr"
      BY <1>1, <1>4, <2>1, <2>2
    <3> QED BY <1>2, <1>6, <3>1
  <2>3. Closed(mtids)'
    BY <1>4, <1>6, <2>1 DEF Closed
  <2>4. Closed(todo)'
    BY <1>1, <1>4, <2>1 DEF Closed
  <2> QED BY <1>1, <2>1, <2>2, <2>3, <2>4 DEF Births
<1>11. Seized'
  BY <1>1 DEF Seized, Seizing
<1>12. Complete'
  <2> SUFFICES ASSUME ~history.vanished PROVE Covered'
    BY <1>1 DEF Complete
  <2>1. Covered
    BY <1>1 DEF Watch, Complete, RoundDone, Polling, Lost, Aborting
  <2>2. AliveThreads' \subseteq traced'
    BY <1>6, <1>8, <2>1 DEF Covered
  <2> QED BY <1>1, <1>7, <1>8, <2>1, <2>2 DEF Covered, LeaderTold
<1> QED BY <1>9, <1>10, <1>11, <1>12 DEF Watch

-----------------------------------------------------------------------------
(* What Arthur knows when it goes to sleep                                 *)

LEMMA VigilStep ==
  TypeInv /\ TypeInv' /\ WatchedTrue /\ VigilInv /\ [Next]_vars => VigilInv'
<1> SUFFICES ASSUME TypeInv, TypeInv', WatchedTrue, VigilInv, [Next]_vars, Vigil' PROVE Watch'
    BY DEF VigilInv
<1> USE DEF WatchedTrue
<1>1. CASE UNCHANGED vars
  <2>1. /\ UNCHANGED <<task, traced, stop, fresh, child, pc, todo, tid, mtids, leaderExited, exitSig, coll, progress, history>>
    BY <1>1 DEF vars, kernel, arthur, ctl, thr, crash, loop, ends
  <2>2. Watch
    BY <2>1 DEF VigilInv, Vigil
  <2>3. AliveThreads' = AliveThreads
    BY <2>1 DEF AliveThreads, Alive
  <2>4. Roster' /\ Births'
    BY <2>1, <2>2, <2>3 DEF Watch, Roster, Births, Known, Announced, Reborn, Untold, Closed, Held, Unread
  <2>5. Seized'
    BY <2>1, <2>2, <2>3 DEF Watch, Seized, Seizing, Deserted, AllReborn, AllExec, Alive, Reborn, Untold
  <2>6. Complete'
    BY <2>1, <2>2, <2>3 DEF Watch, Complete, RoundDone, Lost, Aborting, Covered, LeaderTold, AllExec, Alive, Reborn, Untold
  <2> QED BY <2>4, <2>5, <2>6 DEF Watch
<1>2. CASE Next
  <2>1. Vigil /\ Watch /\ pc \notin Leaving
    BY <1>2, WithinVigil DEF VigilInv, Vigil, Watching, Seizing, Polling, Leaving
  <2>2. CASE Watched
    BY <2>1, <2>2, VigilTarget
  <2>3. CASE SeizeList \/ SeizeEach \/ SeizeEnd
    BY <2>1, <2>3, WatchesSeizeList, WatchesSeizeEach, WatchesSeizeEnd
  <2>4. CASE DrainStart \/ Dispatch \/ AwaitSignal \/ Request
    BY <2>1, <2>4, WatchesMainLoop
  <2>5. CASE Poll \/ PassEnd
    BY <2>1, <2>5, WatchesPoll, WatchesPassEnd
  <2>6. CASE HandleClone \/ HandleExec
    BY <2>1, <2>6, WatchesHandleClone, WatchesHandleExec
  <2>7. CASE HandleExit \/ HandleGroupStop \/ HandleInterrupt \/ HandleSignal
    BY <2>1, <2>7, WatchesHandle
  <2> QED BY <1>2, <2>2, <2>3, <2>4, <2>5, <2>6, <2>7, WithinVigil DEF Next
<1> QED BY <1>1, <1>2

LEMMA VigilInit == Init => VigilInv
<1> SUFFICES ASSUME Init PROVE Watch
    BY DEF VigilInv
<1>1. /\ traced = {} /\ fresh = {} /\ mtids = {} /\ pc = "seize" /\ leaderExited = FALSE /\ coll.rounds = 0
      /\ \A t \in Tids : stop[t] = "none"
      /\ Leader \in Tids
  BY LeaderIsThread DEF Init, KernelInit, NoCollection
<1>2. Roster /\ Births
  BY <1>1 DEF Roster, Births, Closed, Unread
<1>3. Seized
  BY <1>1 DEF Seized, Seizing
<1>4. Complete
  BY <1>1 DEF Complete, RoundDone, Polling
<1> QED BY <1>2, <1>3, <1>4 DEF Watch

\* Without SIGUSR1 Arthur goes to sleep watching every thread of the target, exec
\* included, unless one was gone before its seize.
THEOREM WatchIsComplete ==
  ASSUME MaxDumps = 0
  PROVE  Spec => []EveryThreadWatched
<1>1. TypeInv /\ VigilInv /\ WatchedTrue => EveryThreadWatched
  <2> SUFFICES ASSUME TypeInv, VigilInv, WatchedTrue, pc = "wait", ~history.vanished, NEW t \in AliveThreads
               PROVE  t \in traced /\ (t \in mtids \/ Newborn(t) \/ (t \in fresh /\ stop[t] = "exec"))
    BY DEF EveryThreadWatched
  <2>1. Watch
    BY DEF VigilInv, Vigil, Watching, Polling, WatchedTrue, NoSnapshots
  <2>2. Covered
    BY <2>1 DEF Watch, Complete, RoundDone, Polling, Lost, Aborting
  <2>3. t \in traced /\ Known(t)
    BY <2>1, <2>2 DEF Covered, Watch, Roster
  <2>4. Announced(t) => Newborn(t)
    BY DEF Announced, Newborn, Unread
  <2>5. Reborn(t) => t \in fresh /\ stop[t] = "exec"
    BY DEF Reborn, Untold
  <2> QED BY <2>3, <2>4, <2>5 DEF Known
<1>2. MaxDumps = 0
  OBVIOUS
<1> QED BY <1>1, <1>2, VigilInit, VigilStep, TypeInvariant, HandledIsTrue, PTL DEF Spec

\* Likewise it then knows whether the leader has exited while workers go on, and
\* whether exec has put another thread in its place.
THEOREM LeaderExitIsKnown ==
  ASSUME MaxDumps = 0
  PROVE  Spec => []LeaderExitKnown
<1>1. TypeInv /\ VigilInv /\ WatchedTrue => LeaderExitKnown
  <2> SUFFICES ASSUME TypeInv, VigilInv, WatchedTrue, pc = "wait", ~history.vanished
               PROVE  /\ task[Leader] = "zombie" /\ (\E t \in AliveThreads : task[t] # "exec") => leaderExited
                      /\ leaderExited /\ Alive(Leader) => Leader \in fresh /\ stop[Leader] = "exec"
    BY DEF LeaderExitKnown
  <2>1. Watch
    BY DEF VigilInv, Vigil, Watching, Polling, WatchedTrue, NoSnapshots
  <2>2. LeaderTold
    BY <2>1 DEF Watch, Complete, RoundDone, Polling, Lost, Aborting, Covered
  <2> QED BY <2>2 DEF LeaderTold, AllExec, Reborn, Untold
<1>2. MaxDumps = 0
  OBVIOUS
<1> QED BY <1>1, <1>2, VigilInit, VigilStep, TypeInvariant, HandledIsTrue, PTL DEF Spec

-----------------------------------------------------------------------------
(* The fates of signals                                                    *)

\* A signal that a thread stands at is trapped, and no other thread stands at it.
TrueFates == \A t \in Tids : stop[t] \in Sent =>
  t \in Threads /\ fate[stop[t]] = "trapped" /\ \A u \in Tids \ {t} : stop[u] # stop[t]

\* The signals of this step are relayed.
Relayed == \A s \in Sent : fate'[s] \in {"discarded", "twice"} => fate[s] = fate'[s] \/ AliveThreads' = {}

LEMMA SentAtAlive ==
  ASSUME KernelOK, TrueFates, NEW t \in Tids, stop[t] \in Sent
  PROVE  t \in AliveThreads /\ task[t] = "run" /\ t \in traced /\ Answers(t) /\ stop[t] \in Signals
<1>1. stop[t] \in Signals /\ stop[t] \notin {"none", "exit", "exec"}
  BY SignalFacts DEF Signals
<1>2. Stopped(t) /\ Answers(t)
  BY <1>1 DEF Stopped, Answers, Renamed
<1> QED BY <1>1, <1>2 DEF KernelOK, TrueFates, AliveThreads, Alive

LEMMA FatesTarget ==
  ASSUME KernelOK, TrueFates, FatalKills, Target
  PROVE  TrueFates' /\ FatalKills' /\ Relayed
<1> DEFINE Same == stop' = stop /\ fate' = fate
           Living == AliveThreads = {} => AliveThreads' = {}
           Result == TrueFates' /\ FatalKills' /\ Relayed
<1>1. \A s \in Sent : s \in Signals /\ s \notin {"none", "intr", "group", "clone", "exit", "exec"}
  BY SignalFacts DEF Signals
<1>2. ASSUME fate' = fate, Living, \A t \in Tids : stop'[t] = stop[t] \/ stop'[t] \notin Sent
      PROVE  Result
  BY <1>2 DEF TrueFates, FatalKills, DiedOfFatal, Relayed
<1>3. "none" \notin Sent /\ "exit" \notin Sent /\ "intr" \notin Sent /\ "group" \notin Sent /\ "clone" \notin Sent /\ "exec" \notin Sent
  BY <1>1
<1>4. ASSUME NEW s \in Sent, Send(s) PROVE Result
  <2>1. AliveThreads # {} /\ AliveThreads' = AliveThreads /\ stop' = stop /\ fate[s] = "unsent"
    BY <1>4 DEF Send, AliveThreads, Alive
  <2>2. \A x \in Signals : fate'[x] = fate[x] \/ (fate'[x] \in {"pending", "expired"} /\ fate[x] \in {"unsent", "pending"})
    <3>1. CASE s = "CONT"
      BY <1>4, <2>1, <3>1 DEF Send
    <3>2. CASE s # "CONT"
      BY <1>4, <2>1, <3>2 DEF Send
    <3> QED BY <3>1, <3>2
  <2> QED BY <1>1, <2>1, <2>2, SignalFacts DEF TrueFates, FatalKills, DiedOfFatal, Relayed
<1>5. ASSUME NEW t \in Threads, NEW s \in Signals, Dequeue(t, s) PROVE Result
  <2>1. t \in AliveThreads /\ stop[t] = "none" /\ fate[s] = "pending" /\ t \in Tids
    BY <1>5, LeaderIsThread DEF Dequeue, Runs, AliveThreads, Alive, Stopped
  <2>2. CASE t \in traced
    <3>1. stop' = [stop EXCEPT ![t] = s] /\ fate' = [fate EXCEPT ![s] = "trapped"]
      BY <1>5, <2>2 DEF Dequeue, EnterStop
    <3>2. TrueFates'
      BY <1>1, <2>1, <3>1 DEF TrueFates, KernelOK
    <3>3. FatalKills' /\ Relayed
      BY <1>1, <2>1, <3>1, SignalFacts DEF FatalKills, DiedOfFatal, Relayed, KernelOK
    <3> QED BY <3>2, <3>3
  <2>3. CASE t \notin traced /\ s \in Fatal
    <3>1. stop' = NotIn(Threads) /\ fate' = [fate EXCEPT ![s] = "delivered"] /\ task' = Dead(task)
      BY <1>5, <2>3 DEF Dequeue
    <3>2. AliveThreads' = {}
      BY <3>1, LeaderIsThread DEF Dead, AliveThreads, Alive
    <3>3. TrueFates'
      BY <1>3, <3>1 DEF TrueFates, NotIn
    <3> QED BY <3>2, <3>3 DEF FatalKills, Relayed
  <2>4. CASE t \notin traced /\ s \notin Fatal
    <3>1. stop' = stop /\ fate' = [fate EXCEPT ![s] = "delivered"]
      BY <1>5, <2>4 DEF Dequeue
    <3>2. TrueFates'
      BY <1>1, <2>1, <3>1 DEF TrueFates, KernelOK
    <3>3. FatalKills' /\ Relayed
      BY <1>1, <2>1, <2>4, <3>1, SignalFacts DEF FatalKills, DiedOfFatal, Relayed, KernelOK
    <3> QED BY <3>2, <3>3
  <2> QED BY <2>2, <2>3, <2>4
<1>6. ASSUME NEW t \in Threads, Trap(t) PROVE Result
  <2>1. \A u \in Tids : stop'[u] = stop[u] \/ stop'[u] \in {"group", "intr"}
    BY <1>6 DEF Trap, EnterStop, KernelOK
  <2>2. fate' = fate /\ task' = task
    BY <1>6 DEF Trap
  <2>3. Living
    BY <2>2 DEF AliveThreads, Alive
  <2> QED BY <1>2, <1>3, <2>1, <2>2, <2>3
<1>7. ASSUME NEW t \in Threads, Die(t) \/ Exit(t) PROVE Result
  <2>1. fate' = fate /\ (task' = task \/ task' = [task EXCEPT ![t] = "zombie"])
        /\ \A u \in Tids : stop'[u] = stop[u] \/ stop'[u] = "exit"
    BY <1>7 DEF Die, Exit, EnterStop, KernelOK
  <2>2. Living
    BY <2>1, LeaderIsThread DEF AliveThreads, Alive, KernelOK
  <2> QED BY <1>2, <1>3, <2>1, <2>2
<1>8. ASSUME NEW t \in Threads, ExecDone(t) PROVE Result
  <2>1. fate' = fate /\ (\A u \in Tids : stop'[u] = stop[u] \/ stop'[u] = "exec") /\ t \in AliveThreads
    BY <1>8, LeaderIsThread DEF ExecDone, KernelOK, AliveThreads, Alive
  <2> QED BY <1>2, <1>3, <2>1
<1>9. ASSUME NEW t \in Threads, Clone(t) PROVE Result
  <2>1. t \in AliveThreads
    BY <1>9 DEF Clone, Runs, AliveThreads, Alive
  <2>2. fate' = fate /\ \A u \in Tids : stop'[u] = stop[u] \/ stop'[u] \in {"clone", "intr"}
    BY <1>9 DEF Clone, KernelOK
  <2> QED BY <1>2, <1>3, <2>1, <2>2
<1>10. ASSUME NEW t \in Threads, Exec(t) PROVE Result
  <2>1. t \in AliveThreads
    BY <1>10 DEF Exec, Runs, AliveThreads, Alive
  <2>2. stop' = NotIn(AliveThreads \ {t})
        /\ fate' = [s \in Signals |-> IF fate[s] = "pending" /\ ~AimedAt(s, t) THEN "expired" ELSE fate[s]]
    BY <1>10 DEF Exec
  <2>3. TrueFates'
    BY <1>1, <2>2 DEF TrueFates, NotIn
  <2>4. FatalKills' /\ Relayed
    BY <1>1, <2>1, <2>2, SignalFacts DEF FatalKills, DiedOfFatal, Relayed
  <2> QED BY <2>3, <2>4
<1>11. ASSUME NEW t \in Threads, Release(t) \/ Sleep(t) \/ Wake(t) PROVE Result
  <2>1. stop' = stop /\ fate' = fate
    BY <1>11 DEF Release, Sleep, Wake
  <2>2. Living
    BY <1>11, LeaderIsThread DEF Release, Sleep, Wake, Runs, AliveThreads, Alive, KernelOK
  <2> QED BY <1>2, <2>1, <2>2
<1>12. ASSUME Kill PROVE Result
  <2>1. fate' = fate /\ \A u \in Tids : stop'[u] = stop[u] \/ stop'[u] = "none"
    BY <1>12 DEF Kill, NotIn
  <2> QED BY <1>2, <1>3, <1>12, <2>1 DEF Kill
<1> QED BY <1>4, <1>5, <1>6, <1>7, <1>8, <1>9, <1>10, <1>11, <1>12 DEF Target, React

\* Most calls of Arthur leave the fates alone.
LEMMA FatesFall ==
  ASSUME TrueFates, FatalKills, Falls, fate' = fate
  PROVE  TrueFates' /\ FatalKills' /\ Relayed
<1>1. "none" \notin Sent
  BY SignalFacts DEF Signals
<1>2. AliveThreads' \subseteq AliveThreads
  BY LeaderIsThread DEF Falls, AliveThreads, Alive
<1> QED BY <1>1, <1>2 DEF Falls, TrueFates, FatalKills, DiedOfFatal, Relayed

\* One thread is resumed or detached with the signal that stopped it.
LEMMA FatesContinue ==
  ASSUME KernelOK, TrueFates, FatalKills, NEW t \in Tids, NEW ts, ts \subseteq {t}, NEW sig, NEW detach \in BOOLEAN,
         stop[t] \in Signals => sig \in {stop[t], "none"}, stop[t] \in Sent /\ t \in ts => sig = stop[t],
         ContinueThose(ts, Just(t, sig), detach)
  PROVE  TrueFates' /\ FatalKills' /\ Relayed
<1> DEFINE given == {Just(t, sig)[u] : u \in {v \in ts : stop[v] \in Signals}} \ {"none"}
           lost == ({stop[u] : u \in ts} \cap Signals) \ given
<1>1. \A s \in Sent : s \in Signals /\ s # "none" /\ s # "CHLD"
  BY SignalFacts DEF Signals
<1>2. /\ fate' = [s \in Signals |->
                    IF s \in given THEN IF fate[s] = "delivered" /\ s # "CHLD" THEN "twice" ELSE "delivered"
                    ELSE IF s \in lost THEN "discarded" ELSE fate[s]]
      /\ task' = IF given \cap Fatal # {} THEN Dead(task)
                 ELSE [u \in Tids |-> IF u \in ts /\ stop[u] = "exit" THEN "zombie" ELSE task[u]]
      /\ stop' = IF given \cap Fatal # {} THEN NotIn(ts \cup Threads) ELSE NotIn(ts)
  BY DEF ContinueThose
<1>3. given \subseteq {stop[t]} /\ (given # {} => t \in ts) /\ \A s \in Sent : s \notin lost
  BY <1>1 DEF Just
<1>4. given \subseteq Signals
  BY <1>1 DEF Just
<1> HIDE DEF given, lost
<1>5. \A s \in Sent : fate'[s] = fate[s] \/ (s \in given /\ s = stop[t] /\ t \in ts /\ (fate[s] = "trapped" => fate'[s] = "delivered"))
  BY <1>1, <1>2, <1>3
<1>6. \A u \in Tids : stop'[u] = "none" \/ (stop'[u] = stop[u] /\ u \notin ts)
  BY <1>2 DEF NotIn
<1>7. TrueFates'
  BY <1>1, <1>3, <1>5, <1>6 DEF TrueFates
<1>8. Relayed
  BY <1>5 DEF Relayed, TrueFates
<1>9. FatalKills'
  <2>1. CASE given \cap Fatal # {}
    BY <1>2, <2>1, LeaderIsThread DEF Dead, AliveThreads, Alive, FatalKills
  <2>2. CASE given \cap Fatal = {}
    <3>1. AliveThreads' \subseteq AliveThreads
      BY <1>2, <2>2, LeaderIsThread DEF AliveThreads, Alive
    <3>2. \A s \in Fatal : fate'[s] = fate[s]
      BY <1>5, <2>2 DEF Sent
    <3> QED BY <3>1, <3>2 DEF FatalKills, DiedOfFatal
  <2> QED BY <2>1, <2>2
<1> QED BY <1>7, <1>8, <1>9

\* The whole process is released with the signal of the crash.
LEMMA FatesCrash ==
  ASSUME KernelOK, TrueFates, FatalKills, exitSig \in Fatal, NEW S \in SUBSET Tids, ReleaseCrashed(S)
  PROVE  TrueFates' /\ FatalKills' /\ Relayed
<1> DEFINE f == [t \in S |-> exitSig]
           ts == {t \in S : Answers(t)}
           given == {f[u] : u \in {v \in ts : stop[v] \in Signals}} \ {"none"}
           lost == ({stop[u] : u \in ts} \cap Signals) \ given
<1>1. \A s \in Sent : s \in Signals /\ s # "none" /\ s # "CHLD"
  BY SignalFacts DEF Signals
<1>2. /\ fate' = [s \in Signals |->
                    IF s \in given THEN IF fate[s] = "delivered" /\ s # "CHLD" THEN "twice" ELSE "delivered"
                    ELSE IF s \in lost THEN "discarded" ELSE fate[s]]
      /\ task' = IF given \cap Fatal # {} THEN Dead(task)
                 ELSE [u \in Tids |-> IF u \in ts /\ stop[u] = "exit" THEN "zombie" ELSE task[u]]
      /\ stop' = IF given \cap Fatal # {} THEN NotIn(ts \cup Threads) ELSE NotIn(ts)
  BY DEF ReleaseCrashed, Continue, ContinueThose
<1>3. CASE \E t \in ts : stop[t] \in Signals
  <2>1. given \cap Fatal # {}
    BY <1>3, SignalFacts
  <2>2. AliveThreads' = {}
    BY <1>2, <2>1, LeaderIsThread DEF Dead, AliveThreads, Alive
  <2>3. \A u \in Tids : stop'[u] = "none" \/ (stop'[u] = stop[u] /\ u \notin Threads)
    BY <1>2, <2>1 DEF NotIn
  <2>4. TrueFates'
    BY <1>1, <2>3 DEF TrueFates
  <2> QED BY <2>2, <2>4 DEF FatalKills, Relayed
<1>4. CASE \A t \in ts : stop[t] \notin Signals
  <2>1. given = {} /\ lost = {}
    BY <1>4
  <2> HIDE DEF given, lost
  <2>2. \A s \in Sent : fate'[s] = fate[s]
    BY <1>1, <1>2, <2>1
  <2>3. \A u \in Tids : stop'[u] = "none" \/ stop'[u] = stop[u]
    BY <1>2, <2>1 DEF NotIn
  <2>4. AliveThreads' \subseteq AliveThreads
    BY <1>2, <2>1, LeaderIsThread DEF AliveThreads, Alive
  <2> QED BY <1>1, <2>2, <2>3, <2>4 DEF TrueFates, FatalKills, DiedOfFatal, Relayed, Sent
<1> QED BY <1>3, <1>4

\* While Arthur watches, a thread stands at a signal that Arthur has yet to be told of
\* or keeps for a crash; when it lets go it has been told of none that is left.
LetGoing == {"rollback", "rollbackWait", "detach", "detachRegs", "detachWait"}
SignalsKnown ==
  /\ pc \in Watching => \A t \in Tids : stop[t] \in Sent => Untold(t) \/ (exitSig # "none" /\ t \in mtids)
  /\ pc \in LetGoing => \A t \in Tids : stop[t] \in Sent => t \in fresh

LEMMA FatesResume ==
  ASSUME TypeInv, TrueFates, FatalKills, NEW sig, Continue(Just(tid, sig), FALSE),
         stop[tid] \in Signals => sig = stop[tid]
  PROVE  TrueFates' /\ FatalKills' /\ Relayed
<1>1. tid \in Tids /\ KernelOK /\ \A s \in Sent : s \in Signals
  BY DEF TypeInv, ControlOK, Signals
<1>2. PICK ts : ts \subseteq {tid} /\ ContinueThose(ts, Just(tid, sig), FALSE)
  BY DEF Continue, Just
<1> QED BY <1>1, <1>2, FatesContinue

LEMMA FatesArthur ==
  ASSUME TypeInv, NoSnapshots, Ranked, ReadTrue, TrueFates, FatalKills, SignalsKnown, Arthur \/ Request
  PROVE  TrueFates' /\ FatalKills' /\ Relayed
<1> DEFINE Result == TrueFates' /\ FatalKills' /\ Relayed
<1>1. KernelOK /\ tid \in Tids /\ todo \subseteq Tids /\ mtids \subseteq Tids /\ \A s \in Sent : s \in Signals
  BY DEF TypeInv, ControlOK, Signals
<1>2. todo # {} => LeastOf(todo) \in Tids
  BY <1>1, LeastIsMember
<1>3. fate' = fate => Result
  BY FatesFall, ArthurFalls
<1>4. ASSUME NEW t \in Tids, LetGo(t), t \in fresh \/ stop[t] \notin Sent PROVE Result
  <2>1. PICK sig : /\ DetachWaited(t, sig) /\ (stop[t] \in Signals => sig \in {stop[t], "none"})
                   /\ stop[t] \in Sent => sig = stop[t]
    BY <1>1, <1>4 DEF LetGo
  <2> QED BY <1>1, <2>1, FatesContinue DEF DetachWaited
<1> SUFFICES Result
    OBVIOUS
<1> HIDE DEF Result
<1>5. CASE SeizeList \/ SeizeEach \/ SeizeEnd \/ DetachEnd \/ Request
  BY <1>3, <1>5 DEF SeizeList, SeizeEach, SeizeEnd, DetachEnd, Request, SeizeAll, kernel
<1>6. CASE RollbackNext \/ RollbackWait \/ DetachPoll \/ DetachRegs \/ DetachWait
  <2>1. \E t \in Tids : \/ t \in fresh /\ LetGo(t)
                        \/ pc = "detachRegs" /\ LetGo(t)
                        \/ WaitExit(t)
                        \/ UNCHANGED kernel \/ Interrupt(t)
    BY <1>1, <1>2, <1>6 DEF RollbackNext, RollbackWait, DetachPoll, DetachRegs, DetachWait, Detached
  <2>2. pc = "detachRegs" => \A t \in Tids : t \in fresh \/ stop[t] \notin Sent
    BY DEF SignalsKnown, LetGoing
  <2> QED BY <1>3, <1>4, <2>1, <2>2 DEF WaitExit, kernel, Interrupt
<1>7. CASE DrainStart \/ Poll \/ PassEnd \/ Dispatch \/ AwaitSignal
  BY <1>3, <1>7 DEF DrainStart, Poll, PassEnd, Dispatch, AwaitSignal, WaitStop, WaitExit, TakeChld, kernel
<1>8. CASE HandleClone \/ HandleGroupStop \/ HandleFatal \/ HandleKilled
  BY <1>3, <1>8 DEF HandleClone, HandleGroupStop, HandleFatal, HandleKilled, AfterClone, Listen, kernel
<1>9. CASE HandleExit \/ HandleExec \/ HandleInterrupt \/ HandleSignal
  <2>1. pc = "handle" /\ StillThere /\ status \in {"exit", "exec", "intr"} \cup (Signals \ Fatal)
    BY <1>9 DEF HandleExit, HandleExec, HandleInterrupt, HandleSignal, Handling
  <2>2. UNCHANGED kernel \/ \E sig : Continue(Just(tid, sig), FALSE) /\ (stop[tid] \in Signals => sig = stop[tid])
    <3>1. CASE HandleSignal
      <4>1. status \notin {"exit", "none"} /\ (UNCHANGED kernel \/ Continue(Just(tid, status), FALSE))
        BY <3>1, SignalFacts DEF HandleSignal, Handling, Resume
      <4>2. stop[tid] \in {status, "exit", "none"}
        BY <2>1, <4>1, Handles
      <4> QED BY <4>1, <4>2, SignalFacts
    <3>2. CASE HandleExit \/ HandleExec \/ HandleInterrupt
      <4>1. status \in {"exit", "exec", "intr"} /\ (UNCHANGED kernel \/ (exitSig = "none" /\ Continue(Just(tid, "none"), FALSE)))
        BY <3>2 DEF HandleExit, HandleExec, HandleInterrupt, Handling, Resume
      <4>2. exitSig = "none" => stop[tid] \in {status, "exit", "none"}
        BY <2>1, Handles
      <4> QED BY <4>1, <4>2, SignalFacts
    <3> QED BY <1>9, <3>1, <3>2
  <2> QED BY <1>3, <2>2, FatesResume DEF kernel, Result
<1>10. CASE CollectStart \/ CollectList \/ CollectPoll \/ CollectRegs \/ CollectWait \/ CollectConfirm
  <2>1. CASE CollectStart \/ CollectList \/ CollectRegs \/ CollectConfirm
    BY <1>3, <2>1 DEF CollectStart, CollectList, CollectRegs, CollectConfirm, SeizeAll, Interrupt, kernel
  <2>2. CASE CollectPoll \/ CollectWait
    BY <1>3, <2>2 DEF CollectPoll, CollectWait, RecordStop, AfterClone, WaitStop, WaitExit, kernel
  <2> QED BY <1>10, <2>1, <2>2
<1>11. CASE Core \/ CoreLoads \/ CoreCommit
  BY <1>3, <1>11 DEF Core, CoreLoads, CoreCommit, kernel
<1>12. CASE KillCrashed
  <2>1. \E S \in SUBSET Tids : ReleaseCrashed(S)
    BY <1>1, <1>12 DEF KillCrashed
  <2>2. exitSig \in Fatal
    BY <1>12 DEF KillCrashed, NoSnapshots, OfCrash, TypeInv, ControlOK
  <2> QED BY <1>1, <2>1, <2>2, FatesCrash DEF Result
<1>13. CASE Arthur
  BY <1>5, <1>6, <1>7, <1>8, <1>9, <1>10, <1>11, <1>12, <1>13, OutOfReach DEF Arthur
<1> QED BY <1>5, <1>13

-----------------------------------------------------------------------------
(* The threads Arthur has lost                                             *)

\* A new thread is held from its birth; every member is, but the leader after an exec:
\* then the next pass finds it out, or nothing of the process is traced any more.
NewHeld == pc \in Watching => \A p \in Tids : Unread(p) /\ child[p] \in Threads => Held(child[p])
LeaderLost == (Lost /\ exitSig = "none") \/ AliveThreads \cap traced = {}
HeldMembers == pc \in Watching =>
  /\ \A m \in mtids : Held(m) \/ m = Leader
  /\ pc \in Polling /\ Leader \in mtids /\ ~Held(Leader) => LeaderLost
Sworn == NewHeld /\ HeldMembers /\ SignalsKnown

LEMMA SwornTarget ==
  ASSUME KernelOK, KernelOK', mtids \subseteq Tids, Ranked, Sworn, Target, UNCHANGED arthur
  PROVE  Sworn'
<1>1. UNCHANGED <<pc, todo, tid, mtids, leaderExited, exitSig>> /\ Leader \in Threads /\ Leader \in Tids /\ Threads \subseteq Tids
  BY LeaderIsThread DEF arthur, ctl, thr, crash
<1>2. \A t \in Tids : stop[t] \in Sent => Stopped(t)
  BY SignalFacts DEF Stopped, Signals
<1>3. "none" \notin Sent /\ "exec" \notin Sent
  BY SignalFacts DEF Signals
<1>4. CASE Steady
  <2>1. \A u \in Tids : Held(u) => Held(u)'
    BY <1>4 DEF Steady, Moved, Held
  <2>2. ASSUME NEW p \in Tids, Unread(p)', pc \in Watching, child'[p] \in Threads
        PROVE  child'[p] \in traced' \/ task'[child'[p]] = "gone"
    <3>1. stop'[p] = "clone" /\ Stopped(p)' /\ p \in AliveThreads'
      BY <2>2 DEF Unread, Stopped, KernelOK, AliveThreads, Alive
    <3>2. CASE stop[p] = "clone"
      <4>1. Stopped(p)
        BY <3>2 DEF Stopped
      <4>2. Unread(p) /\ child'[p] = child[p]
        BY <1>1, <1>4, <2>2, <3>1, <3>2, <4>1, StoppedStay DEF Unread
      <4>3. PICK c \in Tids : c = child[p]
        BY <1>1, <2>2, <4>2
      <4> QED BY <2>1, <2>2, <4>2, <4>3 DEF Sworn, NewHeld, Held
    <3>3. CASE stop[p] # "clone"
      <4>1. child'[p] \in traced'
        BY <1>4, <3>1, <3>3 DEF Steady, Moved
      <4> QED BY <4>1
    <3> QED BY <3>2, <3>3
  <2>3. ASSUME AliveThreads \cap traced = {}, NEW t \in AliveThreads', t \in traced' PROVE FALSE
    <3>1. t \in traced
      BY <1>4, <2>3 DEF Steady
    <3>2. t \in Threads /\ Alive(t)' /\ t \in Tids
      BY <1>1 DEF AliveThreads
    <3>3. Alive(t)
      BY <1>4, <3>1, <3>2 DEF Ranked, Exists, Steady, Moved
    <3> QED BY <2>3, <3>1, <3>2, <3>3 DEF AliveThreads
  <2>4. Lost => Lost'
    BY <1>1, <1>4 DEF Lost, Steady, Ranked
  <2>5. HeldMembers'
    <3>1. LeaderLost => LeaderLost'
      BY <1>1, <2>3, <2>4 DEF LeaderLost
    <3> QED BY <1>1, <2>1, <3>1 DEF Sworn, HeldMembers
  <2>6. SignalsKnown'
    <3>1. \A t \in Tids : stop'[t] \in Sent => t \in fresh' \/ (stop[t] \in Sent /\ (t \in fresh <=> t \in fresh'))
      BY <1>2, <1>3, <1>4 DEF Steady, Moved, Stopped
    <3> QED BY <1>1, <3>1 DEF Sworn, SignalsKnown, Untold
  <2>7. NewHeld'
    BY <1>1, <2>2 DEF NewHeld, Held
  <2> QED BY <2>5, <2>6, <2>7 DEF Sworn
<1>5. CASE \E u \in Threads : Executes(u)
  <2>1. PICK u \in Threads : Executes(u)
    BY <1>5
  <2>2. traced' = traced /\ AliveThreads' \subseteq AliveThreads /\ \A p \in Threads : stop'[p] = "none"
    BY <1>1, <2>1 DEF Executes, AliveThreads
  <2>3. NewHeld'
    BY <2>2 DEF NewHeld, Unread, KernelOK
  <2>4. \A m \in Tids : Held(m) => Held(m)'
    BY <2>1, <2>2 DEF Executes, Held, AliveThreads, Alive
  <2>5. HeldMembers'
    <3>1. LeaderLost => LeaderLost'
      BY <1>1, <2>2 DEF LeaderLost, Lost
    <3> QED BY <1>1, <2>4, <3>1 DEF Sworn, HeldMembers
  <2>6. SignalsKnown'
    <3>1. \A t \in Tids : stop'[t] \in Sent => stop[t] = stop'[t] /\ (t \in fresh <=> t \in fresh')
      BY <1>3, <2>1 DEF Executes
    <3> QED BY <1>1, <3>1 DEF Sworn, SignalsKnown, Untold
  <2> QED BY <2>3, <2>5, <2>6 DEF Sworn
<1>6. CASE \E u \in Threads : Executed(u)
  <2>1. PICK u \in Threads : Executed(u)
    BY <1>6
  <2>2. AliveThreads' = {Leader} /\ task'[Leader] = "run" /\ \A p \in Threads : stop'[p] \in {"none", "exec"}
    BY <1>1, <2>1 DEF Executed
  <2>3. NewHeld'
    BY <2>2 DEF NewHeld, Unread, KernelOK
  <2>4. \A m \in Tids \ {Leader} : Held(m) => Held(m)'
    BY <2>1 DEF Executed, Held
  <2>5. ~Held(Leader)' => LeaderLost'
    BY <2>2 DEF Held, LeaderLost
  <2>6. HeldMembers'
    BY <1>1, <2>4, <2>5 DEF Sworn, HeldMembers
  <2>7. SignalsKnown'
    <3>1. \A t \in Tids : stop'[t] \in Sent => t # Leader /\ stop[t] = stop'[t] /\ (t \in fresh <=> t \in fresh')
      BY <1>1, <1>3, <2>1, <2>2 DEF Executed
    <3> QED BY <1>1, <3>1 DEF Sworn, SignalsKnown, Untold
  <2> QED BY <2>3, <2>6, <2>7 DEF Sworn
<1> QED BY <1>4, <1>5, <1>6, TargetKinds

\* Steps that leave the target as it is, or only seize.
LEMMA SwornStands ==
  ASSUME TypeInv, Ranked, Sworn, pc \in Watching \ {"handle"}, pc' # "handle",
         UNCHANGED <<task, stop, fresh, child, exitSig>>, traced \subseteq traced',
         pc' \in Watching => \A m \in mtids' : m \in mtids \/ m \in traced',
         pc' \in Watching => exitSig = "none" \/ mtids \subseteq mtids',
         pc' \in Polling /\ Leader \in mtids' /\ Leader \notin traced' /\ task[Leader] # "gone" => LeaderLost',
         pc' \in LetGoing => exitSig = "none" \/ mtids = {}
  PROVE  Sworn'
<1>2. NewHeld'
  <2> SUFFICES ASSUME pc' \in Watching, NEW p \in Tids, Unread(p)', child[p] \in Threads
               PROVE  child[p] \in traced' \/ task[child[p]] = "gone"
      BY DEF NewHeld, Held
  <2>1. Unread(p)
    BY DEF Unread
  <2> QED BY <2>1 DEF Sworn, NewHeld, Held
<1>3. HeldMembers'
  <2>1. pc' \in Watching => \A m \in mtids' : m \in traced' \/ task[m] = "gone" \/ m = Leader
    BY DEF Sworn, HeldMembers, Held
  <2> QED BY <2>1 DEF HeldMembers, Held
<1>4. SignalsKnown'
  <2>1. \A t \in Tids : stop[t] \in Sent => t \in fresh \/ (exitSig # "none" /\ t \in mtids)
    BY DEF Sworn, SignalsKnown, Untold
  <2>2. pc' \in LetGoing => \A t \in Tids : stop[t] \in Sent => t \in fresh
    BY <2>1
  <2> QED BY <2>1, <2>2 DEF SignalsKnown, Untold
<1> QED BY <1>2, <1>3, <1>4 DEF Sworn

LEMMA SwornSeize ==
  ASSUME TypeInv, NoSnapshots, Ranked, Vigil => Seized, Sworn, SeizeList \/ SeizeEach \/ SeizeEnd
  PROVE  Sworn'
<1>1. pc \in Seizing /\ pc \in Watching \ {"handle"} /\ exitSig = "none" /\ exitSig' = "none"
  BY DEF SeizeList, SeizeEach, SeizeEnd, NoSnapshots, Watching, Seizing, crash
<1>2. /\ UNCHANGED <<task, stop, fresh, child>> /\ traced \subseteq traced'
      /\ pc' \in {"seize", "seizeEach", "drain", "rollback"}
      /\ pc' = "drain" => SeizeEnd /\ UNCHANGED <<mtids, leaderExited, traced>>
      /\ \A m \in mtids' : m \in mtids \/ m \in traced'
  <2>1. CASE SeizeList
    BY <2>1 DEF SeizeList, Rollback, Goto, kernel
  <2>2. CASE SeizeEach
    BY <2>2 DEF SeizeEach, SeizeAll, Rollback, Goto, kernel, thr
  <2>3. CASE SeizeEnd
    BY <2>3 DEF SeizeEnd, Rollback, Goto, kernel, thr
  <2> QED BY <2>1, <2>2, <2>3
<1>3. pc' = "drain" /\ Leader \in mtids' /\ Leader \notin traced' => LeaderLost'
  <2>1. leaderExited => Leader \notin mtids
    BY <1>1 DEF Vigil, Seized
  <2> QED BY <1>1, <1>2, <2>1 DEF LeaderLost, Lost
<1>4. pc' \in Polling => pc' = "drain"
  BY <1>2 DEF Polling
<1> QED BY <1>1, <1>2, <1>3, <1>4, SwornStands

LEMMA SwornMain ==
  ASSUME TypeInv, NoSnapshots, Ranked, Sworn, DrainStart \/ PassEnd \/ Dispatch \/ AwaitSignal \/ Request
  PROVE  Sworn'
<1>1. /\ pc \in Polling \ {"handle"} /\ pc \in Watching \ {"handle"} /\ pc' # "handle"
      /\ UNCHANGED <<task, traced, stop, fresh, child, leaderExited>>
      /\ UNCHANGED exitSig
  <2>1. CASE DrainStart \/ PassEnd
    BY <2>1 DEF DrainStart, PassEnd, Quit, Goto, Watching, Polling, kernel, thr, crash
  <2>2. CASE Dispatch \/ AwaitSignal \/ Request
    BY <2>2, ResultFacts DEF NoSnapshots, Dispatch, AwaitSignal, Request, TakeChld, Quit, Goto, Watching, Polling, kernel, thr, crash, ctl
  <2> QED BY <2>1, <2>2
<1>2. /\ mtids' = mtids \/ (mtids = {} /\ mtids' \subseteq traced)
      /\ pc' \in LetGoing => exitSig = "none" \/ mtids = {}
  <2>1. CASE DrainStart \/ PassEnd
    BY <2>1 DEF DrainStart, PassEnd, Quit, Goto, LetGoing, thr
  <2>2. CASE Dispatch \/ AwaitSignal \/ Request
    BY <2>2 DEF NoSnapshots, Dispatch, AwaitSignal, Request, thr
  <2> QED BY <2>1, <2>2
<1>3. Lost => DrainStart
  <2>1. ~(PassEnd \/ Dispatch \/ AwaitSignal \/ Request) \/ ~Lost
    BY DEF PassEnd, Dispatch, AwaitSignal, Request, Lost
  <2> QED BY <2>1
<1>4. Lost => Lost'
  BY <1>1, <1>3 DEF Lost, DrainStart, Goto, thr
<1>5. AliveThreads' = AliveThreads
  BY <1>1 DEF AliveThreads, Alive
<1>6. pc' \in Polling /\ Leader \in mtids' /\ Leader \notin traced' /\ task[Leader] # "gone" => LeaderLost'
  BY <1>1, <1>2, <1>4, <1>5 DEF Sworn, HeldMembers, Held, LeaderLost
<1> QED BY <1>1, <1>2, <1>6, SwornStands

\* waitpid tells of a stop or of a death.
LEMMA SwornPoll ==
  ASSUME TypeInv, Ranked, Enrolled, TrueFates, FatalKills, Sworn, Poll
  PROVE  Sworn'
<1>1. /\ pc = "poll" /\ UNCHANGED <<stop, child, leaderExited, exitSig>> /\ todo \subseteq mtids
      /\ Leader \in Threads /\ Leader \in Tids /\ Threads \subseteq Tids /\ KernelOK /\ mtids \subseteq Tids /\ todo \subseteq Tids
  BY LeaderIsThread DEF Poll, WaitStop, WaitExit, kernel, crash, TypeInv, ControlOK, Enrolled, Leaving
<1>2. PICK t \in todo :
        /\ \A u \in todo : t <= u
        /\ \/ /\ t \in fresh /\ fresh' = fresh \ {t} /\ tid' = t /\ pc' = "handle"
              /\ UNCHANGED <<task, traced, mtids>>
           \/ /\ task[t] = "zombie" /\ t \in traced /\ task' = [task EXCEPT ![t] = "gone"] /\ traced' = traced \ {t} /\ mtids' = mtids \ {t}
              /\ fresh' = fresh
              /\ \/ pc' = "detach" /\ DiedOfFatal
                 \/ pc' = "returned"
                 \/ pc' = "poll"
           \/ /\ t \in traced /\ t \notin fresh /\ pc' = "poll" /\ UNCHANGED <<task, traced, fresh, mtids>>
           \/ /\ t \notin traced /\ task[t] # "gone" /\ pc' = "detach" /\ UNCHANGED <<task, traced, fresh, mtids>>
           \/ /\ task[t] = "gone" /\ mtids' = mtids \ {t} /\ UNCHANGED <<task, traced, fresh>>
              /\ (t = Leader /\ pc' = "returned") \/ (t # Leader /\ pc' = "poll")
  <2>1. todo # {} /\ LeastOf(todo) \in todo /\ \A u \in todo : LeastOf(todo) <= u
    BY <1>1, LeastIsMember DEF Poll
  <2> QED BY <1>1, <2>1 DEF Poll, WaitStop, WaitExit, Reapable, Waitable, Quit, Goto, kernel
<1>3. t \in Tids /\ t \in mtids
  BY <1>1, <1>2
<1>4. Lost => t = Leader /\ t \notin traced
  <2>1. Lost => Leader \in todo /\ Leader \notin traced
    BY <1>1 DEF Lost
  <2>2. t \in Int /\ Leader <= t
    BY <1>3 DEF Tids, Leader
  <2> QED BY <1>2, <2>1, <2>2 DEF Leader
<1>5. \A u \in Tids : stop[u] \in Sent => u \in AliveThreads /\ task[u] = "run" /\ u \in traced
  BY <1>1, SentAtAlive
<1>6. /\ \A u \in Tids : Held(u) => Held(u)'
      /\ mtids' \subseteq mtids /\ traced' \subseteq traced
      /\ \A u \in mtids \ {t} : u \in mtids'
  BY <1>1, <1>2, <1>3 DEF Held, KernelOK
<1>7. AliveThreads' = AliveThreads
  <2>1. \A u \in Tids : Alive(u)' <=> Alive(u)
    BY <1>1, <1>2, <1>3 DEF KernelOK, Alive
  <2> QED BY <1>1, <2>1 DEF AliveThreads
<1>8. NewHeld'
  <2> SUFFICES ASSUME NEW p \in Tids, Unread(p)', child[p] \in Threads
               PROVE  child[p] \in traced' \/ task'[child[p]] = "gone"
      BY <1>1 DEF NewHeld, Held
  <2>1. Unread(p)
    BY <1>1, <1>2 DEF Unread
  <2>2. PICK c \in Tids : c = child[p]
    BY <1>1
  <2>3. Held(c)
    BY <1>1, <2>1, <2>2 DEF Sworn, NewHeld, Watching, Polling
  <2> QED BY <1>6, <2>2, <2>3 DEF Held
<1>9. HeldMembers'
  <2>1. \A m \in mtids' : Held(m)' \/ m = Leader
    BY <1>1, <1>6 DEF Sworn, HeldMembers, Watching, Polling
  <2>2. ASSUME pc' \in Polling, Leader \in mtids', ~Held(Leader)' PROVE LeaderLost'
    <3>1. LeaderLost
      BY <1>1, <1>6, <2>2 DEF Sworn, HeldMembers, Watching, Polling
    <3>2. ~Lost
      BY <1>1, <1>2, <1>3, <1>4, <2>2 DEF KernelOK, Stopped, Polling
    <3> QED BY <1>6, <1>7, <3>1, <3>2 DEF LeaderLost
  <2> QED BY <2>1, <2>2 DEF HeldMembers
<1>10. SignalsKnown'
  <2>1. \A u \in Tids : stop[u] \in Sent => u \in fresh \/ (exitSig # "none" /\ u \in mtids)
    BY <1>1 DEF Sworn, SignalsKnown, Untold, Watching, Polling
  <2>2. \A u \in Tids : stop[u] \in Sent => u \in fresh' \/ (pc' = "handle" /\ tid' = u) \/ (exitSig # "none" /\ u \in mtids')
    BY <1>2, <1>5, <1>6, <2>1 DEF Held
  <2>3. ASSUME pc' \in LetGoing, NEW u \in Tids, stop[u] \in Sent PROVE u \in fresh'
    <3>1. CASE DiedOfFatal
      BY <1>5, <2>3, <3>1 DEF DiedOfFatal, FatalKills
    <3>2. CASE t \notin traced /\ task[t] # "gone" /\ fresh' = fresh
      <4>1. t = Leader /\ LeaderLost
        BY <1>1, <1>3, <3>2 DEF Sworn, HeldMembers, Held, Watching, Polling
      <4>2. exitSig = "none"
        BY <1>5, <2>3, <4>1 DEF LeaderLost
      <4> QED BY <2>1, <2>3, <3>2, <4>2
    <3> QED BY <1>2, <2>3, <3>1, <3>2 DEF LetGoing
  <2> QED BY <1>1, <2>2, <2>3 DEF SignalsKnown, Untold
<1> QED BY <1>8, <1>9, <1>10 DEF Sworn

\* Every event but a clone and an exec; with a crash known, the thread is left where it is.
LEMMA SwornResumed ==
  ASSUME TypeInv, Ranked, TrueFates, Sworn, pc = "handle", pc' = "poll", mtids' = mtids, tid \in mtids,
         Resumed \/ (UNCHANGED <<task, traced, stop, fresh, child>> /\ exitSig' # "none"),
         exitSig # "none" => exitSig' # "none"
  PROVE  Sworn'
<1>1. /\ tid \in Tids /\ Leader \in Threads /\ Leader \in Tids /\ Threads \subseteq Tids /\ KernelOK /\ mtids \subseteq Tids
  BY LeaderIsThread DEF TypeInv, ControlOK
<1> PICK r \in Tids : r = tid
  BY <1>1
<1>2. /\ traced' = traced /\ child' = child
      /\ \A u \in Tids \ {r} : task'[u] = task[u] /\ stop'[u] = stop[u] /\ (u \in fresh' <=> u \in fresh)
      /\ \/ task'[r] = task[r] /\ stop'[r] = stop[r] /\ (r \in fresh' <=> r \in fresh) /\ (~Answers(r) \/ exitSig' # "none")
         \/ stop'[r] = "none" /\ r \notin fresh' /\ task'[r] = (IF stop[r] = "exit" THEN "zombie" ELSE task[r])
  BY DEF Resumed
<1>3. /\ \A u \in Tids : Held(u) => Held(u)'
      /\ \A u \in Tids : Alive(u)' => Alive(u)
  BY <1>1, <1>2 DEF Held, Alive, KernelOK, Stopped
<1>4. AliveThreads' \subseteq AliveThreads
  BY <1>1, <1>3 DEF AliveThreads
<1>5. NewHeld'
  <2> SUFFICES ASSUME NEW p \in Tids, Unread(p)', child[p] \in Threads
               PROVE  child[p] \in traced' \/ task'[child[p]] = "gone"
      BY <1>2 DEF NewHeld, Held
  <2>1. Unread(p)
    BY <1>2 DEF Unread
  <2>2. PICK c \in Tids : c = child[p]
    BY <1>1
  <2>3. Held(c)
    BY <1>1, <2>1, <2>2 DEF Sworn, NewHeld, Watching, Polling
  <2> QED BY <1>3, <2>2, <2>3 DEF Held
<1>6. HeldMembers'
  <2>1. \A m \in mtids : Held(m)' \/ m = Leader
    BY <1>1, <1>3 DEF Sworn, HeldMembers, Watching, Polling
  <2>2. ASSUME Leader \in mtids, ~Held(Leader)' PROVE LeaderLost'
    <3>1. LeaderLost /\ ~Lost
      BY <1>1, <1>3, <2>2 DEF Sworn, HeldMembers, Watching, Polling, Lost
    <3> QED BY <1>2, <1>4, <3>1 DEF LeaderLost
  <2> QED BY <2>1, <2>2 DEF HeldMembers
<1>7. SignalsKnown'
  <2>1. "none" \notin Sent
    BY SignalFacts DEF Signals
  <2>2. ASSUME NEW u \in Tids, stop'[u] \in Sent PROVE u \in fresh' \/ (exitSig' # "none" /\ u \in mtids)
    <3>1. CASE u = r
      <4>1. stop'[r] = stop[r] /\ (~Answers(r) \/ exitSig' # "none")
        BY <1>2, <2>1, <2>2, <3>1
      <4>2. Answers(r)
        BY <1>1, <2>2, <3>1, <4>1, SentAtAlive
      <4> QED BY <3>1, <4>1, <4>2
    <3>2. CASE u # r
      <4>1. stop[u] \in Sent /\ (u \in fresh' <=> u \in fresh)
        BY <1>2, <2>2, <3>2
      <4> QED BY <3>2, <4>1 DEF Sworn, SignalsKnown, Untold, Watching, Polling
    <3> QED BY <3>1, <3>2
  <2> QED BY <2>2 DEF SignalsKnown, Untold, LetGoing
<1> QED BY <1>5, <1>6, <1>7 DEF Sworn

LEMMA SwornHandle ==
  ASSUME TypeInv, Ranked, Enrolled, ReadTrue, TrueFates, Sworn,
         HandleExit \/ HandleGroupStop \/ HandleInterrupt \/ HandleSignal \/ HandleFatal
  PROVE  Sworn'
<1>1. pc = "handle" /\ StillThere /\ pc' = "poll" /\ mtids' = mtids /\ tid \in mtids
  <2>1. pc = "handle" /\ StillThere /\ pc' = "poll" /\ mtids' = mtids
    BY DEF HandleExit, HandleGroupStop, HandleInterrupt, HandleSignal, HandleFatal, Handling, Handled, Goto, thr
  <2> QED BY <2>1 DEF Enrolled, Leaving
<1>2. exitSig # "none" => exitSig' # "none"
  BY SignalFacts DEF HandleExit, HandleGroupStop, HandleInterrupt, HandleSignal, HandleFatal, Handling, crash
<1>3. Resumed \/ (UNCHANGED <<task, traced, stop, fresh, child>> /\ exitSig' # "none")
  <2>1. CASE HandleExit \/ HandleInterrupt
    BY <2>1, ContinueResumes, ResultFacts DEF HandleExit, HandleInterrupt, Resume, kernel, crash
  <2>2. CASE HandleSignal
    BY <2>2, ContinueResumes DEF HandleSignal, Handling, Resume, kernel, crash
  <2>3. CASE HandleGroupStop
    <3>1. tid \in Tids /\ KernelOK
      BY DEF TypeInv, ControlOK
    <3>2. status = "group" /\ Alive(tid)
      BY <2>3 DEF HandleGroupStop, Handling, StillThere, Renamed
    <3>3. stop[tid] # "exit"
      BY <1>1, <3>2, Handles DEF Alive
    <3> QED BY <2>3, <3>1, <3>3 DEF HandleGroupStop, Listen, Resumed, KernelOK
  <2>4. CASE HandleFatal
    BY <2>4, SignalFacts DEF HandleFatal, Handling, kernel, crash
  <2> QED BY <2>1, <2>2, <2>3, <2>4
<1> QED BY <1>1, <1>2, <1>3, SwornResumed

\* The thread was killed: none is left at a signal, if Arthur gives up.
LEMMA SwornHandleKilled ==
  ASSUME TypeInv, Ranked, Enrolled, ReadTrue, TrueFates, Sworn, HandleKilled
  PROVE  Sworn'
<1>1. /\ pc = "handle" /\ ~StillThere /\ mtids' = mtids /\ UNCHANGED <<task, traced, stop, fresh, child>>
      /\ tid \in Tids /\ tid \in mtids /\ Exists(tid) /\ KernelOK
  <2>1. pc = "handle" /\ ~StillThere /\ mtids' = mtids /\ UNCHANGED <<task, traced, stop, fresh, child>>
    BY DEF HandleKilled, kernel
  <2>2. tid \in Tids /\ tid \in mtids /\ KernelOK
    BY <2>1 DEF TypeInv, ControlOK, Enrolled, Leaving
  <2> QED BY <2>1, <2>2 DEF Enrolled, Leaving
<1> PICK r \in Tids : r = tid
  BY <1>1
<1>2. CASE pc' = "poll"
  <2>1. exitSig' # "none"
    BY <1>1, <1>2, SignalFacts DEF HandleKilled, Handled, Quit, Goto, crash
  <2> QED BY <1>1, <1>2, <2>1, SwornResumed
<1>3. CASE pc' # "poll"
  <2>1. pc' = "detach" /\ (exitSig = "none" \/ status \in {"group", "clone"} \cup Caught)
    BY <1>3 DEF HandleKilled, Handled, Quit, Goto
  <2>2. \A u \in Tids : stop[u] \in Sent => u \in AliveThreads /\ task[u] = "run" /\ Answers(u)
    BY <1>1, SentAtAlive
  <2>3. "exec" \notin Sent
    BY SignalFacts DEF Signals
  <2>4. ASSUME NEW u \in Tids, stop[u] \in Sent PROVE u \in fresh
    <3>1. u # r
      BY <1>1, <2>2, <2>4 DEF StillThere, Answers, AliveThreads
    <3>2. CASE exitSig = "none"
      BY <1>1, <2>4, <3>1, <3>2 DEF Sworn, SignalsKnown, Untold, Watching, Polling
    <3>3. CASE exitSig # "none"
      <4>1. status # "exit" /\ status \in {"group", "clone"} \cup Caught
        BY <2>1, <3>3, MonitorAssumption, SignalAssumption
      <4>2. ~Renamed(r)
        BY <2>2, <2>3, <2>4, <3>1 DEF Ranked, Renamed
      <4>3. ~Alive(r)
        BY <1>1, <4>2 DEF StillThere
      <4>4. task[r] \in {"zombie", "gone", "dying"}
        BY <1>1, <4>3 DEF Alive, KernelOK, Tasks, Exists
      <4>5. AliveThreads = {} \/ AllExec
        BY <1>1, <4>1, <4>4 DEF ReadTrue, Ranked
      <4> QED BY <2>2, <2>4, <4>5 DEF AllExec
    <3> QED BY <3>2, <3>3
  <2> QED BY <1>1, <2>1, <2>4 DEF Sworn, NewHeld, HeldMembers, SignalsKnown, Watching, Seizing, Polling
<1> QED BY <1>2, <1>3

\* The thread that ends an exec is alone.
LEMMA SwornHandleExec ==
  ASSUME TypeInv, Ranked, ReadTrue, TrueFates, Sworn, HandleExec
  PROVE  Sworn'
<1>1. /\ pc = "handle" /\ status = "exec" /\ pc' = "poll" /\ mtids' = {Leader}
      /\ KernelOK /\ Leader \in Tids /\ Threads \subseteq Tids /\ tid \in Tids
  BY LeaderIsThread DEF HandleExec, Handling, Goto, TypeInv, ControlOK
<1>2. /\ traced' = traced /\ child' = child
      /\ \A u \in Tids : task'[u] \in {task[u], "zombie"} /\ stop'[u] \in {stop[u], "none"} /\ (u \in fresh' => u \in fresh)
  <2>1. Resumed \/ UNCHANGED kernel
    BY ContinueResumes, ResultFacts DEF HandleExec, Resume
  <2> QED BY <1>1, <2>1 DEF Resumed, kernel
<1>3. \A t \in AliveThreads : t = Leader /\ stop[t] = "exec"
  BY <1>1 DEF ReadTrue, Ranked, AliveThreads
<1>4. AliveThreads' \subseteq AliveThreads /\ AliveThreads' \subseteq {Leader}
  <2>1. AliveThreads' \subseteq AliveThreads
    BY <1>1, <1>2 DEF AliveThreads, Alive
  <2> QED BY <1>3, <2>1
<1>5. "none" \notin Sent /\ "exec" \notin Sent /\ "clone" # "none" /\ "clone" # "exec"
  BY SignalFacts DEF Signals
<1>6. \A u \in Tids : stop'[u] \notin Sent
  BY <1>1, <1>2, <1>3, <1>5, SentAtAlive
<1>7. \A p \in Tids : ~Unread(p)'
  <2> SUFFICES ASSUME NEW p \in Tids, stop'[p] = "clone" PROVE FALSE
      BY DEF Unread
  <2>1. stop[p] = "clone" /\ p \in AliveThreads
    BY <1>1, <1>2 DEF KernelOK, Stopped, AliveThreads, Alive
  <2> QED BY <1>3, <2>1
<1>8. HeldMembers'
  <2>1. Leader \notin traced' => AliveThreads' \cap traced' = {}
    BY <1>4
  <2> QED BY <1>1, <2>1 DEF HeldMembers, Held, LeaderLost
<1> QED BY <1>6, <1>7, <1>8 DEF Sworn, NewHeld, SignalsKnown

\* The new thread joins the parent, on Arthur's list and on its way.
LEMMA SwornHandleClone ==
  ASSUME TypeInv, Ranked, Enrolled, ReadTrue, TrueFates, Sworn, HandleClone
  PROVE  Sworn'
<1> PICK r \in Tids : r = tid
  BY DEF TypeInv, ControlOK
<1>1. /\ pc = "handle" /\ status = "clone" /\ StillThere /\ pc' = "poll" /\ tid \in mtids
      /\ UNCHANGED <<task, child, exitSig>>
      /\ Leader \in Threads /\ Leader \in Tids /\ Threads \subseteq Tids /\ KernelOK /\ mtids \subseteq Tids
  BY LeaderIsThread DEF HandleClone, Handling, Handled, Goto, AfterClone, crash, TypeInv, ControlOK, Enrolled, Leaving
<1>2. stop[r] = "clone" /\ Unread(r) /\ Alive(r)
  <2>1. Alive(r)
    BY <1>1 DEF StillThere
  <2>2. stop[r] = "clone"
    BY <1>1, <2>1, Handles DEF Alive
  <2> QED BY <1>1, <2>1, <2>2 DEF Unread
<1>3. r < child[r] /\ child[r] \in Tids
  BY <1>1, <1>2, UnreadIsAlive
<1> PICK d \in Tids : d = child[r]
  BY <1>3
<1>4. d # r /\ d # Leader
  <2>1. r \in Int /\ r >= 1
    BY DEF Tids
  <2> QED BY <1>3, <2>1 DEF Leader
<1>5. d \in Threads => Held(d)
  BY <1>1, <1>2 DEF Sworn, NewHeld, Watching, Polling
<1>6. /\ d \in Threads => mtids' = mtids \cup {d}
      /\ d \notin Threads => mtids' = mtids
      /\ \A u \in Threads : u \in traced' <=> u \in traced
      /\ \A u \in Tids \ {r, d} : stop'[u] = stop[u] /\ (u \in fresh' <=> u \in fresh)
      /\ \A u \in {r, d} : u \notin fresh' /\ stop'[u] \in {stop[u], "none"}
      /\ exitSig = "none" \/ d \notin Threads => stop'[d] = "none"
  BY DEF HandleClone, AfterClone, NotIn, Threads
<1>7. \A u \in Threads : Held(u)' <=> Held(u)
  BY <1>1, <1>6 DEF Held
<1>8. AliveThreads' = AliveThreads
  BY <1>1 DEF AliveThreads, Alive
<1>9. NewHeld'
  <2> SUFFICES ASSUME NEW p \in Tids, Unread(p)', child[p] \in Threads
               PROVE  child[p] \in traced' \/ task'[child[p]] = "gone"
      BY <1>1 DEF NewHeld, Held
  <2>1. Unread(p)
    BY <1>1, <1>6 DEF Unread
  <2>2. PICK c \in Threads : c = child[p]
    OBVIOUS
  <2>3. Held(c)
    BY <1>1, <2>1, <2>2 DEF Sworn, NewHeld, Watching, Polling
  <2> QED BY <1>7, <2>2, <2>3 DEF Held
<1>10. HeldMembers'
  <2>1. \A m \in mtids : Held(m) \/ m = Leader
    BY <1>1 DEF Sworn, HeldMembers, Watching, Polling
  <2>2. \A m \in mtids' : m \in Threads /\ (Held(m) \/ m = Leader)
    BY <1>1, <1>5, <1>6, <2>1 DEF Enrolled, Leaving
  <2>3. ASSUME Leader \in mtids', ~Held(Leader)' PROVE LeaderLost'
    <3>1. LeaderLost /\ ~Lost
      BY <1>1, <1>4, <1>6, <1>7, <2>3 DEF Sworn, HeldMembers, Watching, Polling, Lost
    <3> QED BY <1>6, <1>8, <3>1 DEF LeaderLost, AliveThreads
  <2> QED BY <1>7, <2>2, <2>3 DEF HeldMembers
<1>11. SignalsKnown'
  <2>1. "none" \notin Sent /\ "clone" \notin Sent
    BY SignalFacts DEF Signals
  <2>2. ASSUME NEW u \in Tids, stop'[u] \in Sent PROVE u \in fresh' \/ (exitSig # "none" /\ u \in mtids')
    <3>1. u # r
      BY <1>2, <1>6, <2>1, <2>2
    <3>2. CASE u = d
      BY <1>6, <2>1, <2>2, <3>2
    <3>3. CASE u # d
      <4>1. stop[u] \in Sent /\ (u \in fresh' <=> u \in fresh)
        BY <1>6, <2>2, <3>1, <3>3
      <4> QED BY <1>1, <1>6, <3>1, <4>1 DEF Sworn, SignalsKnown, Untold, Watching, Polling
    <3> QED BY <3>2, <3>3
  <2> QED BY <1>1, <2>2 DEF SignalsKnown, Untold, LetGoing
<1> QED BY <1>9, <1>10, <1>11 DEF Sworn

\* A thread that Arthur lets go takes its signal with it.
LEMMA SwornLetGoing ==
  ASSUME TypeInv, Sworn, RollbackNext \/ RollbackWait \/ DetachPoll \/ DetachRegs \/ DetachWait \/ DetachEnd
  PROVE  Sworn'
<1>1. pc \in LetGoing /\ pc' \notin Watching
  BY DEF RollbackNext, RollbackWait, DetachPoll, DetachRegs, DetachWait, DetachEnd, LetGoing, Goto, Watching, Seizing, Polling
<1>2. KernelOK /\ "none" \notin Sent
  BY SignalFacts DEF TypeInv, Signals
<1>3. ASSUME NEW t, LetGo(t)
      PROVE  \A u \in Tids : stop'[u] = "none" \/ (stop'[u] = stop[u] /\ (u \in fresh => u \in fresh'))
  <2>1. PICK X : X \in {{t}, {t} \cup Threads} /\ stop' = NotIn(X) /\ fresh' = fresh \ X
    BY <1>3 DEF LetGo, DetachWaited, ContinueThose
  <2> QED BY <2>1 DEF NotIn
<1>4. UNCHANGED <<stop, fresh>> \/ \E t : LetGo(t)
  BY DEF RollbackNext, RollbackWait, DetachPoll, DetachRegs, DetachWait, DetachEnd, Detached, Interrupt, WaitExit, kernel
<1>5. \A u \in Tids : stop'[u] \in Sent => u \in fresh'
  BY <1>1, <1>2, <1>3, <1>4 DEF Sworn, SignalsKnown
<1> QED BY <1>1, <1>5 DEF Sworn, NewHeld, HeldMembers, SignalsKnown

\* A crash is taken until the process is let go with its signal.
LEMMA SwornCrash ==
  ASSUME NoSnapshots, \/ CollectStart \/ CollectList \/ CollectPoll \/ CollectRegs \/ CollectWait \/ CollectConfirm
                      \/ Core \/ CoreLoads \/ KillCrashed \/ CoreCommit
  PROVE  Sworn'
<1>1. (CollectList \/ CollectPoll \/ CollectRegs \/ CollectWait \/ CollectConfirm) => coll.caller = "crash"
  BY DEF CollectList, CollectPoll, CollectRegs, CollectWait, CollectConfirm, NoSnapshots, OfCrash, Collecting
<1>2. CASE CollectStart \/ CollectList \/ CollectPoll \/ CollectRegs \/ CollectWait
  <2>1. pc' \in {"list", "stop", "regs", "stopWait", "kill"}
    BY <1>1, <1>2 DEF CollectStart, CollectList, CollectPoll, CollectRegs, CollectWait, CollectFails, Goto
  <2> QED BY <2>1 DEF Sworn, NewHeld, HeldMembers, SignalsKnown, Watching, Seizing, Polling, LetGoing
<1>3. CASE CollectConfirm
  <2>1. pc' \in {"list", "kill", "abandon", "preserve", "core", "meta"}
    BY <1>1, <1>3 DEF CollectConfirm, CollectFails, Goto
  <2> QED BY <2>1 DEF Sworn, NewHeld, HeldMembers, SignalsKnown, Watching, Seizing, Polling, LetGoing
<1>4. CASE Core \/ CoreLoads \/ KillCrashed \/ CoreCommit
  <2>1. pc' \in {"coreLoads", "kill", "coreCommit", "returned"}
    BY <1>4 DEF Core, CoreLoads, KillCrashed, CoreCommit, Goto
  <2> QED BY <2>1 DEF Sworn, NewHeld, HeldMembers, SignalsKnown, Watching, Seizing, Polling, LetGoing
<1> QED BY <1>2, <1>3, <1>4

LEMMA SwornInit == Init => TrueFates /\ FatalKills /\ Sworn
<1> SUFFICES ASSUME Init PROVE TrueFates /\ FatalKills /\ Sworn
    OBVIOUS
<1>1. /\ fresh = {} /\ mtids = {} /\ pc = "seize" /\ \A t \in Tids : stop[t] = "none"
      /\ \A s \in Fatal : fate[s] = "unsent"
      /\ "none" \notin Sent
  BY SignalFacts DEF Init, KernelInit, Signals
<1> QED BY <1>1 DEF TrueFates, FatalKills, Sworn, NewHeld, HeldMembers, SignalsKnown, Unread, Polling, LetGoing

\* What the relay of signals rests on.
Oath == TrueFates /\ FatalKills /\ Sworn

LEMMA SwornStep ==
  ASSUME TypeInv, TypeInv', WatchedTrue, VigilInv, Oath, [Next]_vars
  PROVE  Sworn'
<1> USE DEF WatchedTrue, Oath
<1>1. CASE UNCHANGED vars
  <2>1. UNCHANGED <<task, traced, stop, fresh, child, pc, todo, tid, mtids, leaderExited, exitSig>>
    BY <1>1 DEF vars, kernel, arthur, ctl, thr, crash
  <2>2. AliveThreads' = AliveThreads
    BY <2>1 DEF AliveThreads, Alive
  <2>3. NewHeld' /\ HeldMembers'
    BY <2>1, <2>2 DEF Sworn, NewHeld, HeldMembers, Held, LeaderLost, Lost, Unread
  <2>4. SignalsKnown'
    BY <2>1 DEF Sworn, SignalsKnown, Untold
  <2> QED BY <2>3, <2>4 DEF Sworn
<1>2. CASE Next
  <2>1. CASE Watched
    BY <2>1, SwornTarget DEF Watched, TypeInv, ControlOK
  <2>2. CASE SeizeList \/ SeizeEach \/ SeizeEnd
    BY <2>2, SwornSeize DEF VigilInv, Watch
  <2>3. CASE DrainStart \/ PassEnd \/ Dispatch \/ AwaitSignal \/ Request
    BY <2>3, SwornMain
  <2>4. CASE Poll
    BY <2>4, SwornPoll
  <2>5. CASE HandleExit \/ HandleGroupStop \/ HandleInterrupt \/ HandleSignal \/ HandleFatal
    BY <2>5, SwornHandle
  <2>6. CASE HandleKilled \/ HandleExec \/ HandleClone
    BY <2>6, SwornHandleKilled, SwornHandleExec, SwornHandleClone
  <2>7. CASE RollbackNext \/ RollbackWait \/ DetachPoll \/ DetachRegs \/ DetachWait \/ DetachEnd
    BY <2>7, SwornLetGoing
  <2>8. CASE \/ CollectStart \/ CollectList \/ CollectPoll \/ CollectRegs \/ CollectWait \/ CollectConfirm
             \/ Core \/ CoreLoads \/ KillCrashed \/ CoreCommit
    BY <2>8, SwornCrash
  <2> QED BY <1>2, <2>1, <2>2, <2>3, <2>4, <2>5, <2>6, <2>7, <2>8, OnlyWatching
<1> QED BY <1>1, <1>2

\* Without SIGUSR1 a signal that Arthur sees reaches its thread, once, unless the process
\* dies first: exec, a crash, SIGTERM and a failure of Arthur included.
THEOREM SignalsAreRelayed ==
  ASSUME MaxDumps = 0
  PROVE  Spec => SignalsRelayed
<1> DEFINE Relay == \A s \in Sent : fate'[s] \in {"discarded", "twice"} => fate[s] = fate'[s] \/ AliveThreads' = {}
<1>1. TypeInv /\ TypeInv' /\ WatchedTrue /\ VigilInv /\ Oath /\ [Next]_vars => Oath' /\ [Relay]_vars
  <2> SUFFICES ASSUME TypeInv, TypeInv', WatchedTrue, VigilInv, Oath, [Next]_vars PROVE Oath' /\ [Relay]_vars
      OBVIOUS
  <2>1. Sworn'
    BY SwornStep
  <2>2. CASE UNCHANGED vars
    <3>1. UNCHANGED <<stop, fate, task>>
      BY <2>2 DEF vars, kernel
    <3> QED BY <2>1, <2>2, <3>1 DEF Oath, TrueFates, FatalKills, DiedOfFatal, AliveThreads, Alive
  <2>3. CASE Arthur \/ Request
    BY <2>1, <2>3, FatesArthur DEF Oath, WatchedTrue, Sworn, Relayed
  <2>4. CASE Watched
    BY <2>1, <2>4, FatesTarget DEF Oath, Watched, TypeInv, Relayed
  <2> QED BY <2>2, <2>3, <2>4 DEF Next
<1>2. Init => Oath
  BY SwornInit DEF Oath
<1> HIDE DEF Relay
<1>3. Spec => [][Relay]_vars
  <2>1. MaxDumps = 0
    OBVIOUS
  <2> QED BY <1>1, <1>2, <2>1, VigilInit, VigilStep, TypeInvariant, HandledIsTrue, PTL DEF Spec
<1> QED BY <1>3 DEF Relay, SignalsRelayed

-----------------------------------------------------------------------------
(* Nobody is forgotten and nobody is left: what was to be read or let go,   *)
(* as long as no thread has called exec                                    *)

\* What a task is said to have created it created after its own birth.
Begot == \A p \in Tids : child[p] \in Tids => Exists(p)

\* Every stop of a thread is one that Arthur has yet to handle.
AllTold == Vigil => \A t \in Tids : Alive(t) /\ Stopped(t) => Untold(t)

\* A process that Arthur traces awaits the clone event that announces it, or will not
\* be announced.
Expected(c) == Unannounced(c) \/ \E p \in Tids : Unread(p) /\ child[p] = c
Orphans == \A c \in Procs \cap traced : Alive(c) => Expected(c)
Parented == pc \in Watching \cup OfCrash => Orphans

\* Who may stand at an unread stop unnoticed: nobody when Arthur has found nothing new,
\* nor behind its back while it looks.
Due(t) == t \in fresh /\ ~Unannounced(t)
Ahead(t) == t \in todo \/ \E p \in todo : Unread(p) /\ child[p] = t
Awake == Vigil /\ ~chld =>
  /\ pc \in {"dispatch", "wait"} => \A t \in Tids : ~Due(t)
  /\ pc = "poll" /\ ~progress => \A t \in Tids : Due(t) => Ahead(t)

\* Who is left when the tasks S have been let go.
Detaching == {"detach", "detachRegs", "detachWait"}
RollingBack == {"rollback", "rollbackWait"}
Accounted(S) == \A t \in traced : Alive(t) =>
  \/ t \in S \/ Unannounced(t)
  \/ \E p \in S : Unread(p) /\ child[p] = t /\ (t \in Threads => Stopped(t))
Unrolled == pc \in Seizing \cup RollingBack =>
  coll.caller = "none" /\ (pc = "seizeEach" => coll.rounds # 0) /\ (Launched => traced = {})
Released == pc \in Detaching \cup {"coreCommit", "returned"} /\ Launched /\ history.gaveUp = {} =>
  Accounted(IF pc \in Detaching THEN todo ELSE {})

\* What is known besides.
Told == TypeInv /\ WatchInv /\ CrashInv /\ WatchedTrue /\ VigilInv
Rest == Begot /\ AllTold /\ Parented /\ Awake /\ Unrolled /\ Released

-----------------------------------------------------------------------------
(* The target moves, and nobody calls exec                                 *)

LEMMA NoExecMoves ==
  ASSUME TypeInv, WatchInv, Ranked, Target, NoExecYet'
  PROVE  /\ Steady /\ Moved /\ Quiet' /\ \A t \in Threads : ~Exec(t) /\ ~ExecDone(t)
<1>1. KernelOK /\ Quiet /\ FatalKills
  BY DEF TypeInv, WatchInv
<1>2. \A t \in Threads : ~Exec(t)
  BY <1>1, ExecsFall
<1>3. \A t \in Threads : ~ExecDone(t)
  BY <1>1, LeaderIsThread DEF Quiet, ExecDone
<1>4. Steady
  BY <1>1, <1>2, <1>3, RankedSteady
<1> QED BY <1>1, <1>2, <1>3, <1>4, QuietTarget

\* Only a thread that runs reports a child.
LEMMA ChildStays ==
  ASSUME KernelOK, Target, \A t \in Threads : ~Exec(t) /\ ~ExecDone(t), NEW p \in Tids
  PROVE  child'[p] = child[p] \/ (Alive(p) /\ ~Stopped(p))
<1>1. ASSUME NEW t \in Threads, Clone(t) PROVE child'[p] = child[p] \/ (Alive(p) /\ ~Stopped(p))
  BY <1>1, LeaderIsThread DEF Clone, KernelOK, Runs, Alive
<1>2. ASSUME NEW s \in Sent, Send(s) PROVE child' = child
  BY <1>2 DEF Send
<1>3. ASSUME NEW t \in Threads, NEW s \in Signals, Dequeue(t, s) PROVE child' = child
  BY <1>3 DEF Dequeue
<1>4. ASSUME NEW t \in Threads, Trap(t) \/ Die(t) \/ Exit(t) \/ Release(t) \/ Sleep(t) \/ Wake(t) PROVE child' = child
  BY <1>4 DEF Trap, Die, Exit, Release, Sleep, Wake
<1>5. Kill => child' = child
  BY DEF Kill
<1> QED BY <1>1, <1>2, <1>3, <1>4, <1>5 DEF Target, React

\* A step without a wakeup for Arthur brings no stop.
LEMMA Wakes ==
  ASSUME KernelOK, Target, \A t \in Threads : ~Exec(t) /\ ~ExecDone(t), ~chld'
  PROVE  ~chld /\ (fresh' = {} \/ UNCHANGED <<stop, fresh, child>>)
<1>1. ASSUME NEW s \in Sent, Send(s) PROVE ~chld /\ UNCHANGED <<stop, fresh, child>>
  BY <1>1, Zenon DEF Send
<1>2. ASSUME NEW t \in Threads, NEW s \in Signals, Dequeue(t, s)
      PROVE  ~chld /\ (fresh' = {} \/ UNCHANGED <<stop, fresh, child>>)
  <2>1. t \notin traced
    BY <1>2, Zenon DEF Dequeue, EnterStop
  <2>2. /\ chld' = (chld \/ (s \in Fatal /\ traced # {})) /\ child' = child
        /\ stop' = (IF s \in Fatal THEN NotIn(Threads) ELSE stop)
        /\ fresh' = (IF s \in Fatal THEN fresh \ Threads ELSE fresh)
    BY <1>2, <2>1, Zenon DEF Dequeue
  <2>3. ~chld /\ (s \in Fatal => traced = {})
    BY <2>2, Zenon
  <2>4. s \in Fatal => fresh = {}
    BY <2>3 DEF KernelOK
  <2> QED BY <2>2, <2>3, <2>4
<1>3. ASSUME NEW t \in Threads, Trap(t) \/ Die(t) PROVE FALSE
  BY <1>3, Zenon DEF Trap, Die, EnterStop
<1>4. ASSUME NEW t \in Threads, Clone(t) PROVE ~chld /\ UNCHANGED <<stop, fresh, child>>
  <2>1. t \notin traced
    BY <1>4, Zenon DEF Clone
  <2> QED BY <1>4, <2>1, Zenon DEF Clone
<1>5. ASSUME NEW t \in Threads, Exit(t) PROVE ~chld /\ UNCHANGED <<stop, fresh, child>>
  <2>1. t \notin traced
    BY <1>5, Zenon DEF Exit, EnterStop
  <2> QED BY <1>5, <2>1, Zenon DEF Exit
<1>6. ASSUME NEW t \in Threads, Release(t) \/ Sleep(t) \/ Wake(t) PROVE ~chld /\ UNCHANGED <<stop, fresh, child>>
  <2>1. UNCHANGED <<stop, fresh, child>>
    BY <1>6, Zenon DEF Release, Sleep, Wake
  <2>2. Release(t) => chld' = (chld \/ traced # {})
    BY Zenon DEF Release
  <2>3. Sleep(t) \/ Wake(t) => chld' = chld
    BY Zenon DEF Sleep, Wake
  <2>4. Release(t) => ~chld
    BY <2>2, Zenon
  <2>5. Sleep(t) \/ Wake(t) => ~chld
    BY <2>3, Zenon
  <2> QED BY <1>6, <2>1, <2>4, <2>5
<1>7. ASSUME Kill PROVE ~chld /\ fresh' = {}
  <2>1. chld' = (chld \/ traced # {}) /\ fresh' = fresh \ Threads
    BY <1>7, Zenon DEF Kill
  <2>2. ~chld /\ traced = {}
    BY <2>1, Zenon
  <2> QED BY <2>1, <2>2 DEF KernelOK
<1> QED BY <1>1, <1>2, <1>3, <1>4, <1>5, <1>6, <1>7 DEF Target, React

LEMMA BegotTarget == KernelOK /\ Moved /\ Begot /\ (\A p \in Tids : child'[p] = child[p] \/ Alive(p)) => Begot'
  BY DEF Begot, Moved, Alive, Exists

LEMMA AllToldTarget ==
  ASSUME KernelOK, Moved, AllTold, UNCHANGED arthur
  PROVE  AllTold'
<1>1. UNCHANGED <<pc, tid, exitSig>>
  BY DEF arthur, ctl, crash
<1> SUFFICES ASSUME Vigil, NEW t \in Tids, Alive(t)', Stopped(t)' PROVE Untold(t)'
    BY <1>1 DEF AllTold, Vigil
<1>2. CASE Stopped(t)
  <2>1. t \in fresh <=> t \in fresh'
    BY <1>2 DEF Moved
  <2>2. Alive(t)
    BY <1>2 DEF Moved, Exists, Stopped, KernelOK
  <2>3. Untold(t)
    BY <1>2, <2>2 DEF AllTold
  <2> QED BY <1>1, <2>1, <2>3 DEF Untold
<1>3. CASE ~Stopped(t)
  BY <1>3 DEF Moved, Untold
<1> QED BY <1>2, <1>3

\* A dead parent stays dead.
LEMMA UnannouncedStays ==
  ASSUME Begot, NEW c \in Tids, Unannounced(c), Moved,
         \A p \in Tids : child'[p] = child[p] \/ (Alive(p) /\ ~Stopped(p))
  PROVE  Unannounced(c)'
<1>1. PICK p \in Threads : c \in Procs /\ child[p] = c /\ ~Alive(p)
  BY DEF Unannounced
<1>2. p \in Tids
  BY LeaderIsThread
<1>3. child'[p] = c /\ Exists(p) /\ ~Alive(p)'
  BY <1>1, <1>2 DEF Begot, Moved
<1> QED BY <1>1, <1>3 DEF Unannounced

\* A process that is expected stays so.
LEMMA ExpectedStays ==
  ASSUME KernelOK, Ranked, Begot, Steady, UNCHANGED arthur, NEW c \in Procs, c \in Tids, Expected(c),
         \A p \in Tids : child'[p] = child[p] \/ (Alive(p) /\ ~Stopped(p))
  PROVE  Expected(c)'
<1>1. CASE Unannounced(c)
  BY <1>1, UnannouncedStays DEF Expected, Steady
<1>2. CASE \E p \in Tids : Unread(p) /\ child[p] = c
  <2>1. PICK p \in Tids : Unread(p) /\ child[p] = c
    BY <1>2
  <2>2. CASE AliveThreads' # {}
    <3>1. Unread(p)' /\ child'[p] = c
      BY <2>1, <2>2, StoppedStay
    <3> QED BY <3>1 DEF Expected
  <2>3. CASE AliveThreads' = {}
    <3>1. p \in Threads /\ Stopped(p)
      BY <2>1, UnreadIsAlive DEF Unread, Stopped
    <3>2. child'[p] = c /\ ~Alive(p)'
      BY <2>1, <2>3, <3>1 DEF AliveThreads
    <3> QED BY <3>1, <3>2 DEF Expected, Unannounced
  <2> QED BY <2>2, <2>3
<1> QED BY <1>1, <1>2 DEF Expected

LEMMA ProcsAreTasks == Procs \subseteq Tids /\ Procs \cap Threads = {}
<1>1. \A c \in (StartTids + 1) .. MaxTid : c \in 1 .. MaxTid
  BY ThreadAssumption
<1> QED BY <1>1, ThreadAssumption DEF Tids, Threads

LEMMA OrphansTarget ==
  ASSUME KernelOK, Ranked, Begot, Steady, UNCHANGED arthur, Orphans,
         \A p \in Tids : child'[p] = child[p] \/ (Alive(p) /\ ~Stopped(p))
  PROVE  Orphans'
<1> SUFFICES ASSUME NEW c \in Procs \cap traced', Alive(c)' PROVE Expected(c)'
    BY DEF Orphans
<1>0. c \in Tids
  BY ProcsAreTasks
<1>1. CASE c \in traced
  <2>1. Exists(c)
    BY <1>0, <1>1 DEF Ranked, Exists
  <2>2. Alive(c)
    BY <1>0, <2>1 DEF Steady, Moved
  <2> QED BY <1>0, <1>1, <2>2, ExpectedStays DEF Orphans
<1>2. CASE c \notin traced
  <2>1. PICK p \in AliveThreads \cap traced : ~Stopped(p) /\ stop'[p] = "clone" /\ child'[p] = c
    BY <1>2 DEF Steady
  <2>2. p \in Tids /\ p \in fresh'
    BY <2>1 DEF KernelOK, Steady, Moved, Stopped
  <2> QED BY <2>1, <2>2 DEF Expected, Unread
<1> QED BY <1>1, <1>2

LEMMA AwakeTarget ==
  ASSUME KernelOK, Begot, Moved, Awake, Target, UNCHANGED arthur, \A t \in Threads : ~Exec(t) /\ ~ExecDone(t)
  PROVE  Awake'
<1>1. UNCHANGED <<pc, todo, tid, exitSig, progress>>
  BY DEF arthur, ctl, crash, loop
<1> SUFFICES ASSUME Vigil, ~chld' PROVE Awake'
    BY <1>1 DEF Awake, Vigil
<1>2. ~chld /\ (fresh' = {} \/ UNCHANGED <<stop, fresh, child>>)
  BY Wakes
<1>3. CASE fresh' = {}
  BY <1>3 DEF Awake, Due
<1>4. CASE UNCHANGED <<stop, fresh, child>>
  <2>1. ASSUME NEW t \in Tids, Due(t)' PROVE Due(t)
    <3>1. ~Unannounced(t)
      BY <2>1, <1>4, UnannouncedStays DEF Due
    <3> QED BY <1>4, <2>1, <3>1 DEF Due
  <2>2. \A t \in Tids : Ahead(t) => Ahead(t)'
    BY <1>1, <1>4 DEF Ahead, Unread
  <2> QED BY <1>1, <1>2, <2>1, <2>2 DEF Awake
<1> QED BY <1>2, <1>3, <1>4

\* A thread created while the tasks are let go has a parent that is among them.
LEMMA AccountedTarget ==
  ASSUME KernelOK, KernelOK', Ranked, Begot, Steady, UNCHANGED arthur, NEW S, S \subseteq Tids, Accounted(S),
         \A p \in Tids : child'[p] = child[p] \/ (Alive(p) /\ ~Stopped(p))
  PROVE  \A t \in traced' : Alive(t)' =>
           \/ t \in S \/ Unannounced(t)'
           \/ \E p \in S : Unread(p)' /\ child'[p] = t /\ (t \in Threads => Stopped(t)')
<1> SUFFICES ASSUME NEW t \in traced', Alive(t)', t \notin S, t \in Tids
             PROVE  Unannounced(t)' \/ \E p \in S : Unread(p)' /\ child'[p] = t /\ (t \in Threads => Stopped(t)')
    BY DEF KernelOK
<1>1. CASE t \notin traced
  <2>1. PICK p \in AliveThreads \cap traced : ~Stopped(p) /\ stop'[p] = "clone" /\ child'[p] = t
    BY <1>1 DEF Steady
  <2>2. p \in Tids /\ p \in fresh' /\ Alive(p) /\ p \in Threads
    BY <2>1 DEF KernelOK, Steady, Moved, Stopped, AliveThreads
  <2>3. p \in S
    BY <2>1, <2>2 DEF Accounted, Unannounced, Threads
  <2>4. stop'[t] = "intr"
    <3>1. ~Exists(child'[p]) /\ stop'[child'[p]] = "intr"
      BY <1>1, <2>1, <2>2 DEF Steady, Moved, Stopped
    <3> QED BY <2>1, <3>1
  <2> QED BY <2>1, <2>2, <2>3, <2>4 DEF Unread, Stopped
<1>2. CASE t \in traced
  <2>1. Alive(t)
    BY <1>2 DEF Steady, Moved, Ranked, Exists
  <2>2. CASE Unannounced(t)
    BY <2>2, UnannouncedStays DEF Steady
  <2>3. CASE \E p \in S : Unread(p) /\ child[p] = t /\ (t \in Threads => Stopped(t))
    <3>1. PICK p \in S : Unread(p) /\ child[p] = t /\ (t \in Threads => Stopped(t))
      BY <2>3
    <3>2. CASE AliveThreads' # {}
      <4>1. Unread(p)' /\ child'[p] = t /\ (Stopped(t) => Stopped(t)')
        BY <3>1, <3>2, StoppedStay DEF Stopped
      <4> QED BY <3>1, <4>1
    <3>3. CASE AliveThreads' = {}
      <4>1. p \in Threads /\ Stopped(p) /\ p \in Tids
        BY <3>1, UnreadIsAlive DEF Unread, Stopped
      <4>2. child'[p] = t /\ ~Alive(p)' /\ t \notin Threads
        BY <3>1, <3>3, <4>1 DEF AliveThreads
      <4> QED BY <4>1, <4>2 DEF Unannounced, Threads
    <3> QED BY <3>2, <3>3
  <2> QED BY <1>2, <2>1, <2>2, <2>3 DEF Accounted
<1> QED BY <1>1, <1>2

LEMMA RestTarget ==
  ASSUME Told, Rest, Watched, TypeInv', NoExecYet'
  PROVE  Rest'
<1>1. /\ KernelOK /\ KernelOK' /\ Ranked /\ Begot /\ Target /\ UNCHANGED arthur
  BY DEF Told, TypeInv, WatchedTrue, Rest, Watched
<1>2. Steady /\ Moved /\ Quiet' /\ \A t \in Threads : ~Exec(t) /\ ~ExecDone(t)
  BY <1>1, NoExecMoves DEF Told
<1>3. \A p \in Tids : child'[p] = child[p] \/ (Alive(p) /\ ~Stopped(p))
  BY <1>1, <1>2, ChildStays
<1>4. UNCHANGED <<pc, todo, coll, history>> /\ todo \subseteq Tids
  BY <1>1 DEF arthur, ctl, ends, Told, TypeInv, ControlOK
<1>5. Begot' /\ AllTold'
  BY <1>1, <1>2, <1>3, BegotTarget, AllToldTarget DEF Rest
<1>6. Parented' /\ Awake'
  BY <1>1, <1>2, <1>3, <1>4, OrphansTarget, AwakeTarget DEF Rest, Parented
<1>7. traced = {} => traced' = {}
  <2>1. \A t \in traced' \ traced : \E p \in AliveThreads \cap traced : TRUE
    BY <1>2 DEF Steady
  <2> QED BY <2>1
<1>8. Unrolled'
  BY <1>4, <1>7 DEF Rest, Unrolled, Launched
<1>9. Released'
  <2> SUFFICES ASSUME pc \in Detaching \cup {"coreCommit", "returned"}, Launched, history.gaveUp = {}
               PROVE  Accounted(IF pc \in Detaching THEN todo ELSE {})'
      BY <1>4 DEF Released, Launched
  <2>1. PICK S \in SUBSET Tids : S = (IF pc \in Detaching THEN todo ELSE {})
    BY <1>4
  <2>2. Accounted(S)
    BY <2>1 DEF Rest, Released
  <2>3. \A t \in traced' : Alive(t)' =>
           \/ t \in S \/ Unannounced(t)'
           \/ \E p \in S : Unread(p)' /\ child'[p] = t /\ (t \in Threads => Stopped(t)')
    BY <1>1, <1>2, <1>3, <2>2, AccountedTarget
  <2> QED BY <1>4, <2>1, <2>3 DEF Accounted
<1> QED BY <1>5, <1>6, <1>8, <1>9 DEF Rest

-----------------------------------------------------------------------------
(* What Arthur does                                                        *)

LEMMA BegotFalls == Begot /\ Falls => Begot'
  BY DEF Begot, Falls, Exists

LEMMA UnannouncedFalls ==
  ASSUME Falls, NEW c, Unannounced(c)
  PROVE  Unannounced(c)'
<1>1. PICK p \in Threads : c \in Procs /\ child[p] = c /\ ~Alive(p)
  BY DEF Unannounced
<1>2. child'[p] = c /\ ~Alive(p)'
  BY <1>1, LeaderIsThread DEF Falls, Alive
<1> QED BY <1>1, <1>2 DEF Unannounced

\* The processes that are expected, after a call that loses no clone event but that of
\* a process it lets go.
LEMMA OrphansKept ==
  ASSUME KernelOK, Ranked, Orphans, Falls, traced' \cap Procs \subseteq traced,
         \A p \in Tids : Unread(p) /\ child[p] \in Procs \cap traced' => Unread(p)' \/ ~Alive(p)'
  PROVE  Orphans'
<1> SUFFICES ASSUME NEW c \in Procs \cap traced', Alive(c)' PROVE Expected(c)'
    BY DEF Orphans
<1>1. c \in Tids /\ c \in traced /\ Alive(c)
  BY ProcsAreTasks DEF Falls, Alive
<1>2. CASE Unannounced(c)
  BY <1>2, UnannouncedFalls DEF Expected
<1>3. CASE \E p \in Tids : Unread(p) /\ child[p] = c
  <2>1. PICK p \in Tids : Unread(p) /\ child[p] = c
    BY <1>3
  <2>2. p \in Threads /\ child'[p] = c
    BY <2>1, UnreadIsAlive DEF Falls
  <2> QED BY <2>1, <2>2 DEF Expected, Unannounced
<1> QED BY <1>1, <1>2, <1>3 DEF Orphans, Expected

\* The same of the threads that are to be let go.
LEMMA AccountedKept ==
  ASSUME KernelOK, Ranked, Falls, traced' \subseteq traced,
         NEW S \in SUBSET Tids, Accounted(S), NEW R,
         \A t \in S \cap traced' : Alive(t)' => t \in R,
         \A p \in S : Unread(p) /\ child[p] \in traced' /\ Alive(child[p])' =>
            \/ child[p] \in R
            \/ p \in R /\ Unread(p)' /\ stop'[child[p]] = stop[child[p]]
            \/ child[p] \in Procs /\ ~Alive(p)'
  PROVE  \A t \in traced' : Alive(t)' =>
           \/ t \in R \/ Unannounced(t)'
           \/ \E p \in R : Unread(p)' /\ child'[p] = t /\ (t \in Threads => Stopped(t)')
<1> SUFFICES ASSUME NEW t \in traced', Alive(t)', t \notin R
             PROVE  Unannounced(t)' \/ \E p \in R : Unread(p)' /\ child'[p] = t /\ (t \in Threads => Stopped(t)')
    OBVIOUS
<1>1. t \in traced /\ t \in Tids /\ Alive(t)
  BY DEF KernelOK, Falls, Alive
<1>2. t \notin S
  OBVIOUS
<1>3. CASE Unannounced(t)
  BY <1>3, UnannouncedFalls
<1>4. CASE \E p \in S : Unread(p) /\ child[p] = t /\ (t \in Threads => Stopped(t))
  <2>1. PICK p \in S : Unread(p) /\ child[p] = t /\ (t \in Threads => Stopped(t))
    BY <1>4
  <2>2. p \in Threads /\ child'[p] = t
    BY <2>1, UnreadIsAlive DEF Falls
  <2>3. CASE p \in R /\ Unread(p)' /\ stop'[t] = stop[t]
    BY <2>1, <2>2, <2>3 DEF Stopped
  <2>4. CASE t \in Procs /\ ~Alive(p)'
    BY <2>2, <2>4 DEF Unannounced
  <2> QED BY <2>1, <2>2, <2>3, <2>4 DEF Alive
<1> QED BY <1>1, <1>2, <1>3, <1>4 DEF Accounted

\* While Arthur watches it knows of all, or awaits the event that tells.
LEMMA AccountedVigil ==
  ASSUME TypeInv, Quiet, Ranked, Watch, Orphans
  PROVE  Accounted(mtids)
<1>1. KernelOK
  BY DEF TypeInv
<1>2. ASSUME NEW t \in AliveThreads \cap traced PROVE t \in mtids \/ Announced(t)
  <2>1. Known(t)
    BY <1>2 DEF Watch, Roster
  <2>2. ~Reborn(t)
    BY <1>1 DEF Reborn, Quiet, KernelOK
  <2> QED BY <2>1, <2>2 DEF Known
<1>3. mtids \subseteq Tids
  BY DEF TypeInv, ControlOK
<1>4. \A p \in Tids : Unread(p) /\ child[p] \in Threads => stop[child[p]] = "intr"
  BY DEF Watch, Births
<1> SUFFICES ASSUME NEW t \in traced, Alive(t), t \notin mtids, ~Unannounced(t)
             PROVE  \E p \in mtids : Unread(p) /\ child[p] = t /\ (t \in Threads => Stopped(t))
    BY DEF Accounted
<1>5. t \in Tids
  BY <1>1 DEF KernelOK
<1>6. CASE t \in Threads
  <2>1. Announced(t)
    BY <1>2, <1>6 DEF AliveThreads
  <2>2. PICK p \in mtids : Unread(p) /\ child[p] = t
    BY <2>1 DEF Announced
  <2>3. Stopped(t)
    BY <1>3, <1>4, <1>6, <2>2 DEF Stopped
  <2> QED BY <2>2, <2>3
<1>7. CASE t \in Procs
  <2>1. PICK p \in Tids : Unread(p) /\ child[p] = t
    BY <1>7 DEF Orphans, Expected
  <2>2. p \in AliveThreads \cap traced /\ p \in Threads
    BY <1>1, <2>1, UnreadIsAlive
  <2>3. stop[p] = "clone"
    BY <2>1 DEF Unread
  <2>4. ~Announced(p)
    BY <1>3, <1>4, <2>2, <2>3 DEF Announced
  <2> QED BY <1>2, <1>7, <2>1, <2>2, <2>4, ProcsAreTasks
<1> QED BY <1>5, <1>6, <1>7 DEF Threads

\* Of a dead process only its children are left.
LEMMA AccountedDead ==
  ASSUME KernelOK', Orphans', AliveThreads' = {}
  PROVE  \A t \in traced' : Alive(t)' => Unannounced(t)'
<1> SUFFICES ASSUME NEW t \in traced', Alive(t)' PROVE Unannounced(t)'
    OBVIOUS
<1>1. t \in Procs /\ t \in Tids
  BY DEF KernelOK, AliveThreads, Threads
<1>2. \A p \in Tids : ~Unread(p)'
  BY DEF KernelOK, Unread, Stopped, AliveThreads, Alive
<1> QED BY <1>1, <1>2 DEF Orphans, Expected

\* What the handling of a stop does: the thread is resumed unless a crash is known, and
\* with it the new thread of its clone event; a new process is let go in any case.
HandledStop ==
  /\ tid \in Tids /\ Alive(tid) /\ stop[tid] = status /\ tid \notin fresh /\ tid \in mtids
  /\ pc = "handle" /\ pc' = "poll" /\ progress' = TRUE /\ traced' \subseteq traced
  /\ \A u \in Tids \ {tid} :
       \/ stop'[u] = stop[u] /\ (u \in fresh <=> u \in fresh')
       \/ /\ status = "clone" /\ u = child[tid] /\ u \notin fresh'
          /\ exitSig' = "none" => stop'[u] = "none"
  /\ exitSig' = "none" => stop'[tid] = "none"
  /\ status = "clone" /\ child[tid] \in Procs => child[tid] \notin traced'

LEMMA HandledStops ==
  ASSUME TypeInv, WatchInv,
         HandleClone \/ HandleExit \/ HandleExec \/ HandleGroupStop \/ HandleInterrupt \/ HandleFatal \/ HandleSignal
  PROVE  HandledStop
<1>1. pc = "handle" /\ StillThere
  BY DEF HandleClone, HandleExit, HandleExec, HandleGroupStop, HandleInterrupt, HandleFatal, HandleSignal, Handling
<1>2. /\ tid \in mtids /\ tid \in Tids /\ Alive(tid) /\ stop[tid] = status /\ Stopped(tid) /\ tid \notin fresh
      /\ status \notin {"none", "exec"} /\ KernelOK
  BY <1>1, Answering DEF TypeInv
<1>3. Answers(tid)
  BY <1>2 DEF Answers, Renamed
<1>4. ~HandleExec
  BY <1>2 DEF HandleExec, Handling
<1>5. pc' = "poll" /\ progress' = TRUE
  BY <1>4 DEF HandleClone, HandleExit, HandleGroupStop, HandleInterrupt, HandleFatal, HandleSignal, Handled, Goto
<1>6. CASE HandleClone
  <2>1. exitSig' = exitSig /\ status = "clone"
    BY <1>6 DEF HandleClone, Handling, crash
  <2>2. PICK go : /\ go = (IF exitSig = "none" THEN {tid, child[tid]} ELSE {}) \cup (IF child[tid] \in Procs THEN {child[tid]} ELSE {})
                  /\ stop' = NotIn(go) /\ fresh' = fresh \ {tid, child[tid]}
                  /\ traced' = IF child[tid] \in Procs THEN traced \ {child[tid]} ELSE traced
    BY <1>6 DEF HandleClone, AfterClone
  <2>3. traced' \subseteq traced /\ (child[tid] \in Procs => child[tid] \notin traced')
    BY <2>2
  <2>4. \A u \in Tids \ {tid} :
          \/ stop'[u] = stop[u] /\ (u \in fresh <=> u \in fresh')
          \/ u = child[tid] /\ u \notin fresh' /\ (exitSig' = "none" => stop'[u] = "none")
    BY <2>1, <2>2 DEF NotIn
  <2>5. exitSig' = "none" => stop'[tid] = "none"
    BY <1>2, <2>1, <2>2 DEF NotIn
  <2> QED BY <1>1, <1>2, <1>5, <2>1, <2>3, <2>4, <2>5 DEF HandledStop
<1>7. ASSUME Resumed, exitSig = "none", status # "clone" PROVE HandledStop
  BY <1>1, <1>2, <1>3, <1>5, <1>7 DEF HandledStop, Resumed
<1>8. ASSUME UNCHANGED kernel, exitSig' # "none", status # "clone" PROVE HandledStop
  BY <1>1, <1>2, <1>5, <1>8 DEF HandledStop, kernel
<1>9. CASE HandleExit \/ HandleInterrupt
  <2>1. Resume("none") /\ status # "clone" /\ exitSig' = exitSig
    BY <1>9 DEF HandleExit, HandleInterrupt, Handling, crash
  <2>2. "none" \notin Fatal
    BY SignalFacts
  <2> QED BY <1>7, <1>8, <2>1, <2>2, ContinueResumes DEF Resume
<1>10. CASE HandleSignal
  <2>1. status \in Signals \ Fatal /\ status # "clone" /\ exitSig' = exitSig
    BY <1>10, SignalFacts DEF HandleSignal, Handling, crash
  <2>2. Continue(Just(tid, status), FALSE) \/ (exitSig # "none" /\ UNCHANGED kernel)
    BY <1>10 DEF HandleSignal, Resume
  <2>3. CASE Resumed
    <3>1. stop'[tid] = "none"
      BY <1>3, <2>3 DEF Resumed
    <3> QED BY <1>1, <1>2, <1>5, <2>1, <2>3, <3>1 DEF HandledStop, Resumed
  <2> QED BY <1>8, <2>1, <2>2, <2>3, ContinueResumes
<1>11. CASE HandleGroupStop
  <2>1. status = "group" /\ Listen(tid)
    BY <1>11 DEF HandleGroupStop, Handling
  <2>2. stop' = [stop EXCEPT ![tid] = "none"] /\ fresh' = fresh \ {tid} /\ traced' = traced
    BY <2>1 DEF Listen
  <2> QED BY <1>1, <1>2, <1>5, <2>1, <2>2 DEF HandledStop, KernelOK
<1>12. CASE HandleFatal
  <2>1. status \in Fatal /\ UNCHANGED kernel
    BY <1>12 DEF HandleFatal, Handling
  <2>2. exitSig' # "none" /\ status # "clone"
    BY <1>12, <2>1, SignalFacts DEF HandleFatal, crash
  <2> QED BY <1>8, <2>1, <2>2
<1> QED BY <1>4, <1>6, <1>9, <1>10, <1>11, <1>12

\* A stop that is handled loses the clone event only of a process it lets go.
LEMMA HandledUnread ==
  ASSUME TypeInv, WatchInv, Newborns, Ranked, HandledStop, NEW p \in Tids, Unread(p), child[p] \in Procs, child[p] \in traced'
  PROVE  Unread(p)'
<1>1. p # tid
  BY DEF HandledStop, Unread
<1>2. p \in Threads /\ stop[p] = "clone" /\ p \in fresh
  BY <1>1, UnreadIsAlive DEF TypeInv, Unread
<1>3. ASSUME status = "clone", p = child[tid] PROVE FALSE
  <2>1. Unread(tid) /\ tid \in Tids /\ pc \notin Leaving
    BY <1>3 DEF HandledStop, Unread, Leaving
  <2>2. stop[p] = "intr"
    BY <1>2, <1>3, <2>1 DEF Newborns
  <2> QED BY <1>2, <2>2
<1> QED BY <1>1, <1>2, <1>3 DEF HandledStop, Unread

\* The calls after which every stop is as unread as before.
Quieted == UNCHANGED <<stop, fresh, child>> /\ pc # "handle" /\ traced' \cap Procs \subseteq traced

LEMMA QuietCalls ==
  ASSUME TypeInv, Enrolled,
         \/ SeizeList \/ SeizeEach \/ SeizeEnd \/ DrainStart \/ PassEnd \/ Dispatch \/ AwaitSignal \/ Request
         \/ CollectStart \/ CollectList \/ CollectRegs \/ CollectConfirm \/ Core \/ CoreLoads,
         NoSnapshots
  PROVE  Quieted
<1>1. CASE SeizeList \/ SeizeEnd \/ DrainStart \/ PassEnd
  BY <1>1 DEF SeizeList, SeizeEnd, DrainStart, PassEnd, Quieted, kernel
<1>2. CASE SeizeEach
  <2>1. pc = "seizeEach" /\ todo \subseteq Threads /\ todo \subseteq Tids /\ todo # {}
    BY <1>2 DEF SeizeEach, Enrolled, Leaving, TypeInv, ControlOK
  <2>2. LeastOf(todo) \in Threads
    BY <2>1, LeastIsMember
  <2>3. UNCHANGED <<stop, fresh, child>> /\ traced' \subseteq traced \cup {LeastOf(todo)}
    BY <1>2 DEF SeizeEach, SeizeAll, kernel
  <2> QED BY <2>1, <2>2, <2>3, ProcsAreTasks DEF Quieted
<1>3. CASE Dispatch \/ AwaitSignal \/ Request
  BY <1>3 DEF Dispatch, AwaitSignal, Request, TakeChld, Quieted, kernel
<1>4. CASE CollectStart \/ CollectConfirm \/ Core \/ CoreLoads
  BY <1>4 DEF CollectStart, CollectConfirm, Core, CoreLoads, Quieted, kernel
<1>5. CASE CollectList
  <2>1. UNCHANGED <<stop, fresh, child>> /\ traced' \subseteq traced \cup (Workers \ mtids) /\ pc = "list"
    BY <1>5 DEF CollectList, SeizeAll
  <2>2. Workers \subseteq Threads
    BY DEF Workers, Listed
  <2> QED BY <2>1, <2>2, ProcsAreTasks DEF Quieted
<1>6. CASE CollectRegs
  <2>1. UNCHANGED <<stop, fresh, child, traced>> /\ pc = "regs"
    BY <1>6 DEF CollectRegs, Interrupt, kernel
  <2> QED BY <2>1 DEF Quieted
<1> QED BY <1>1, <1>2, <1>3, <1>4, <1>5, <1>6

\* What Poll does to the stops.
LEMMA PollStops ==
  ASSUME TypeInv, Poll
  PROVE  /\ pc = "poll" /\ tid' \in Tids /\ UNCHANGED <<stop, child>> /\ traced' \subseteq traced
         /\ \/ fresh' = fresh \ {tid'} /\ pc' = "handle" /\ tid' \in fresh
            \/ fresh' = fresh /\ pc' # "handle"
<1>1. pc = "poll" /\ tid' = LeastOf(todo) /\ todo # {} /\ todo \subseteq Tids
  BY DEF Poll, TypeInv, ControlOK
<1>2. tid' \in Tids
  BY <1>1, LeastIsMember
<1>3. CASE tid' \in fresh /\ WaitStop(tid') /\ Goto("handle")
  BY <1>1, <1>2, <1>3 DEF WaitStop, Goto
<1>4. CASE (WaitExit(tid') \/ UNCHANGED kernel) /\ pc' # "handle"
  BY <1>1, <1>2, <1>4 DEF WaitExit, kernel
<1> QED BY <1>1, <1>3, <1>4 DEF Poll, Goto, Quit

\* What waitpid has told of a stop, when it is recorded.
LEMMA RecordedOrphans ==
  ASSUME TypeInv, Ranked, pc # "handle", NEW t \in Tids, t \in fresh, RecordStop(t)
  PROVE  /\ traced' \subseteq traced
         /\ \A p \in Tids : Unread(p) /\ child[p] \in Procs \cap traced' => Unread(p)'
<1>1. CASE stop[t] = "clone" /\ child[t] \in Procs
  <2>1. PICK c \in Procs : c = child[t]
    BY <1>1
  <2>2. AfterClone(t, TRUE, FALSE)
    BY <1>1 DEF RecordStop
  <2>3. fresh' = fresh \ {t, c} /\ traced' = traced \ {c} /\ stop' = NotIn({c}) /\ child' = child
    BY <2>1, <2>2 DEF AfterClone
  <2>4. ASSUME NEW p \in Tids, Unread(p), child[p] \in Procs \cap traced' PROVE Unread(p)'
    <3>1. p \in Threads /\ p # c /\ p # t
      BY <2>1, <2>3, <2>4, UnreadIsAlive, ProcsAreTasks DEF TypeInv
    <3> QED BY <2>3, <2>4, <3>1 DEF Unread, NotIn
  <2> QED BY <2>3, <2>4
<1>2. CASE ~(stop[t] = "clone" /\ child[t] \in Procs)
  <2>1. WaitStop(t)
    BY <1>2 DEF RecordStop
  <2> QED BY <1>2, <2>1 DEF WaitStop, Unread
<1> QED BY <1>1, <1>2

LEMMA OrphansCollect ==
  ASSUME TypeInv, Ranked, CollectPoll \/ CollectWait
  PROVE  /\ traced' \subseteq traced
         /\ \A p \in Tids : Unread(p) /\ child[p] \in Procs \cap traced' => Unread(p)'
<1>1. pc # "handle" /\ pc' # "handle"
  BY DEF CollectPoll, CollectWait, CollectFails, Goto
<1>2. CASE \E t \in Tids : t \in fresh /\ RecordStop(t)
  BY <1>1, <1>2, RecordedOrphans
<1>3. CASE UNCHANGED kernel \/ \E t : WaitExit(t)
  BY <1>1, <1>3 DEF WaitExit, kernel, Unread
<1>4. tid \in Tids /\ (todo # {} => LeastOf(todo) \in Tids)
  BY LeastIsMember DEF TypeInv, ControlOK
<1> QED BY <1>2, <1>3, <1>4 DEF CollectPoll, CollectWait

\* Before Arthur leaves, and when it does, every process it traces is expected.
LEMMA OrphansArthur ==
  ASSUME Told, Rest, Arthur \/ Request, pc \in Watching \cup OfCrash, CrashStands'
  PROVE  Orphans'
<1>1. /\ TypeInv /\ KernelOK /\ Ranked /\ Enrolled /\ NoSnapshots /\ Falls /\ WatchInv /\ Newborns /\ Orphans
  BY ArthurFalls DEF Told, TypeInv, WatchedTrue, CrashInv, Rest, Parented
<1>2. CASE Quieted /\ pc' # "handle"
  BY <1>1, <1>2, OrphansKept DEF Quieted, Unread
<1>3. CASE Poll
  <2>1. \A p \in Tids : Unread(p) => Unread(p)'
    BY <1>1, <1>3, PollStops DEF Unread
  <2> QED BY <1>1, <1>3, <2>1, OrphansKept, PollStops
<1>4. CASE HandledStop
  <2>1. \A p \in Tids : Unread(p) /\ child[p] \in Procs \cap traced' => Unread(p)'
    BY <1>1, <1>4, HandledUnread
  <2> QED BY <1>1, <1>4, <2>1, OrphansKept DEF HandledStop
<1>5. CASE HandleKilled
  <2>1. UNCHANGED kernel /\ pc = "handle" /\ ~StillThere
    BY <1>5 DEF HandleKilled
  <2>2. ~Alive(tid) /\ tid \in Tids
    BY <1>1, <2>1 DEF StillThere, Renamed, WatchInv, Quiet, TypeInv, ControlOK
  <2>3. ~Unread(tid)
    BY <1>1, <2>2, UnreadIsAlive DEF AliveThreads
  <2>4. \A p \in Tids : Unread(p) => Unread(p)'
    BY <2>1, <2>3 DEF Unread, kernel
  <2> QED BY <1>1, <2>1, <2>4, OrphansKept DEF kernel
<1>6. CASE CollectPoll \/ CollectWait
  BY <1>1, <1>6, OrphansCollect, OrphansKept
<1>7. CASE KillCrashed
  <2>1. pc' \in Leaving /\ exitSig' # "none" /\ traced' \subseteq traced
    BY <1>1, <1>7 DEF KillCrashed, Goto, Leaving, NoSnapshots, OfCrash, crash, ReleaseCrashed, Continue, ContinueThose
  <2>2. AliveThreads' = {}
    BY <2>1 DEF CrashStands
  <2>3. \A p \in Tids : Unread(p) => ~Alive(p)'
    BY <1>1, <2>2, UnreadIsAlive DEF AliveThreads
  <2> QED BY <1>1, <2>1, <2>3, OrphansKept
<1>8. CASE \/ SeizeList \/ SeizeEach \/ SeizeEnd \/ DrainStart \/ PassEnd \/ Dispatch \/ AwaitSignal \/ Request
           \/ CollectStart \/ CollectList \/ CollectRegs \/ CollectConfirm \/ Core \/ CoreLoads
  <2>1. Quieted
    BY <1>1, <1>8, QuietCalls
  <2>2. pc' # "handle"
    <3>1. CASE SeizeList \/ SeizeEach \/ SeizeEnd \/ DrainStart \/ PassEnd
      BY <3>1 DEF SeizeList, SeizeEach, SeizeEnd, DrainStart, PassEnd, Rollback, Goto, Quit
    <3>2. CASE Dispatch \/ AwaitSignal \/ Request
      BY <3>2 DEF Dispatch, AwaitSignal, Request, Goto, Quit, ctl
    <3>3. CASE CollectStart \/ CollectList \/ CollectRegs \/ CollectConfirm \/ Core \/ CoreLoads
      BY <3>3 DEF CollectStart, CollectList, CollectRegs, CollectConfirm, Core, CoreLoads, CollectFails, Goto
    <3> QED BY <1>8, <3>1, <3>2, <3>3
  <2> QED BY <1>2, <2>1, <2>2
<1>9. CASE HandleClone \/ HandleExit \/ HandleExec \/ HandleGroupStop \/ HandleInterrupt \/ HandleFatal \/ HandleSignal
  BY <1>1, <1>4, <1>9, HandledStops
<1>10. ~(RollbackNext \/ RollbackWait \/ DetachPoll \/ DetachRegs \/ DetachWait \/ DetachEnd \/ CoreCommit)
  BY DEF RollbackNext, RollbackWait, DetachPoll, DetachRegs, DetachWait, DetachEnd, CoreCommit,
         Watching, Seizing, Polling, OfCrash, Collecting
<1> QED BY <1>1, <1>3, <1>5, <1>6, <1>7, <1>8, <1>9, <1>10, OutOfReach DEF Arthur

LEMMA AllToldArthur ==
  ASSUME Told, Rest, Arthur \/ Request
  PROVE  AllTold'
<1>1. /\ TypeInv /\ KernelOK /\ NoSnapshots /\ Enrolled /\ Falls /\ WatchInv /\ AllTold
  BY ArthurFalls DEF Told, TypeInv, WatchedTrue, Rest
<1> SUFFICES ASSUME Vigil', NEW t \in Tids, Alive(t)', Stopped(t)' PROVE Untold(t)'
    BY DEF AllTold
<1>2. Alive(t) /\ Stopped(t) /\ stop'[t] = stop[t]
  BY <1>1 DEF Falls, Alive, Stopped
<1>3. Vigil
  BY <1>1, WithinVigil DEF Next
<1>4. Untold(t)
  BY <1>1, <1>2, <1>3 DEF AllTold
<1>5. CASE Quieted
  BY <1>4, <1>5 DEF Quieted, Untold
<1>6. CASE Poll
  <2>1. t \in fresh
    BY <1>1, <1>4, <1>6, PollStops DEF Untold
  <2> QED BY <1>1, <1>6, <2>1, PollStops DEF Untold
<1>7. CASE HandledStop
  <2>1. t # tid /\ t \in fresh
    BY <1>4, <1>7 DEF HandledStop, Untold, Vigil, Stopped
  <2>2. t \in fresh'
    BY <1>7, <2>1 DEF HandledStop, Vigil, Stopped
  <2> QED BY <2>2 DEF Untold
<1> QED BY <1>1, <1>5, <1>6, <1>7, QuietCalls, HandledStops, WithinVigil DEF Next

\* A pass over all threads overlooks none that is new, and a sleep follows only a pass
\* that found nothing.
LEMMA AwakeArthur ==
  ASSUME Told, Rest, Arthur \/ Request
  PROVE  Awake'
<1>1. /\ TypeInv /\ KernelOK /\ NoSnapshots /\ WatchInv /\ Awake /\ Ranked /\ Parented /\ VigilInv /\ Quiet
  BY DEF Told, TypeInv, WatchedTrue, Rest, WatchInv
<1> SUFFICES ASSUME Vigil', ~chld' PROVE Awake'
    BY DEF Awake
<1>2. Vigil /\ Watch /\ Orphans
  BY <1>1, WithinVigil DEF Next, VigilInv, Parented, Vigil
<1>3. ASSUME UNCHANGED kernel PROVE ~chld /\ UNCHANGED <<task, traced, stop, fresh, child>> /\ \A t \in Tids : Due(t)' <=> Due(t)
  <2>1. chld' = chld
    BY <1>3 DEF kernel
  <2>2. ~chld
    BY <2>1, Zenon
  <2>3. UNCHANGED <<task, traced, stop, fresh, child>>
    BY <1>3 DEF kernel
  <2> QED BY <2>2, <2>3 DEF Due, Unannounced, Alive
<1>4. ASSUME pc' \notin {"poll", "dispatch", "wait"} PROVE Awake'
  BY <1>4 DEF Awake
<1>5. ASSUME pc' = "poll", progress' = TRUE PROVE Awake'
  BY <1>5 DEF Awake
<1>6. CASE SeizeList \/ SeizeEach \/ SeizeEnd \/ AwaitSignal
  <2>1. pc' \notin {"poll", "dispatch", "wait"}
    BY <1>6 DEF SeizeList, SeizeEach, SeizeEnd, AwaitSignal, Rollback, Quit, Goto
  <2> QED BY <1>4, <2>1
<1>7. CASE HandledStop
  BY <1>5, <1>7 DEF HandledStop
<1>8. CASE DrainStart
  <2>1. UNCHANGED kernel /\ pc = "drain" /\ pc' = "poll" /\ todo' = mtids
    BY <1>8 DEF DrainStart, Goto
  <2>2. ASSUME NEW t \in Tids, Due(t) PROVE Ahead(t)'
    <3>1. t \in traced /\ Alive(t)
      BY <1>1, <2>2 DEF Due, KernelOK, Alive, Stopped, Quiet
    <3>2. t \in mtids \/ \E p \in mtids : Unread(p) /\ child[p] = t
      BY <1>1, <1>2, <2>2, <3>1, AccountedVigil DEF Accounted, Due
    <3> QED BY <1>3, <2>1, <3>2 DEF Ahead, Unread
  <2> QED BY <1>3, <2>1, <2>2 DEF Awake
<1>9. CASE Poll
  <2>1. PICK t \in Tids : t = LeastOf(todo)
    BY <1>1, <1>9, LeastIsMember DEF Poll, TypeInv, ControlOK
  <2>2. CASE t \in traced /\ ~Waitable(t) /\ todo' = todo \ {t} /\ UNCHANGED <<kernel, pc, status, mtids, progress, rc>>
    <3>1. pc = "poll" /\ UNCHANGED kernel /\ pc' = pc /\ todo' = todo \ {t} /\ t \notin fresh
      BY <1>9, <2>2 DEF Poll, Waitable
    <3>2. progress' = progress
      BY <2>2
    <3>3. ASSUME ~progress, NEW u \in Tids, Due(u) PROVE Ahead(u)'
      <4>1. Ahead(u) /\ u # t /\ ~Unread(t)
        BY <1>1, <1>2, <1>3, <3>1, <3>3 DEF Awake, Due, Unread
      <4> QED BY <1>3, <3>1, <4>1 DEF Ahead, Unread
    <3>4. ~progress' => ~progress
      BY <3>2, Zenon
    <3> QED BY <1>3, <3>1, <3>3, <3>4 DEF Awake
  <2>3. CASE pc' \in {"handle", "detach", "returned"} \/ (pc' = pc /\ progress' = TRUE)
    <3>1. pc = "poll"
      BY <1>9 DEF Poll
    <3> QED BY <1>4, <1>5, <2>3, <3>1
  <2> QED BY <1>9, <2>1, <2>2, <2>3 DEF Poll, Goto, Quit
<1>10. CASE PassEnd
  <2>1. pc = "poll" /\ todo = {} /\ UNCHANGED kernel
    BY <1>10 DEF PassEnd
  <2>2. pc' \in {"detach", "returned", "drain", "collect"} \/ (pc' = "dispatch" /\ ~progress)
    BY <1>10, Zenon DEF PassEnd, Goto, Quit
  <2>3. CASE pc' = "dispatch" /\ ~progress
    <3>1. \A t \in Tids : ~Due(t)
      BY <1>1, <1>2, <1>3, <2>1, <2>3 DEF Awake, Ahead
    <3> QED BY <1>3, <2>1, <2>3, <3>1 DEF Awake
  <2> QED BY <1>4, <2>2, <2>3
<1>11. CASE Dispatch \/ Request
  <2>1. UNCHANGED kernel /\ (pc' \in {"drain", "detach", "collect", "dump"} \/ (pc \in {"dispatch", "wait"} /\ pc' = "wait"))
    BY <1>11 DEF Dispatch, Request, Goto, Quit, ctl
  <2>2. CASE pc \in {"dispatch", "wait"} /\ pc' = "wait"
    <3>1. \A t \in Tids : ~Due(t)
      BY <1>1, <1>2, <1>3, <2>1, <2>2 DEF Awake
    <3> QED BY <1>3, <2>1, <2>2, <3>1 DEF Awake
  <2> QED BY <1>4, <2>1, <2>2
<1> QED BY <1>1, <1>6, <1>7, <1>8, <1>9, <1>10, <1>11, HandledStops, WithinVigil DEF Next

\* Nothing is seized before the first round, and a round that seized none is not a launch.
LEMMA UnrolledArthur ==
  ASSUME Told, Rest, Arthur \/ Request
  PROVE  Unrolled'
<1>1. /\ TypeInv /\ NoSnapshots /\ Unrolled /\ Falls /\ coll \in Collections
  BY ArthurFalls DEF Told, TypeInv, WatchedTrue, Rest, ControlOK
<1>2. CASE SeizeList
  <2>1. pc = "seize" /\ UNCHANGED kernel /\ coll.caller = "none" /\ (Launched => traced = {})
    BY <1>1, <1>2 DEF SeizeList, Unrolled, Seizing
  <2>2. \/ pc' = "rollback" /\ coll' = coll
        \/ pc' = "seizeEach" /\ coll'.rounds = coll.rounds + 1 /\ coll'.caller = coll.caller
    BY <1>1, <1>2 DEF SeizeList, Rollback, Goto, Collections
  <2>3. coll.rounds \in Nat
    BY <1>1, RoundsBound DEF Collections
  <2>4. coll.rounds + 1 # 0
    BY <2>3
  <2> QED BY <2>1, <2>2, <2>4 DEF Unrolled, Launched, kernel
<1>3. CASE SeizeEach \/ SeizeEnd
  <2>1. pc = "seizeEach" /\ coll.caller = "none" /\ coll.rounds # 0
    BY <1>1, <1>3 DEF SeizeEach, SeizeEnd, Unrolled, Seizing
  <2>2. pc' = "drain" \/ coll' = coll
    BY <1>3 DEF SeizeEach, SeizeEnd, Goto
  <2> QED BY <2>1, <2>2 DEF Unrolled, Launched, Seizing, RollingBack
<1>4. CASE RollbackNext \/ RollbackWait
  <2>1. pc \in RollingBack /\ coll' = coll /\ pc' \notin Seizing
    BY <1>4 DEF RollbackNext, RollbackWait, RollingBack, Seizing, Goto
  <2>2. traced' \subseteq traced
    BY <1>4 DEF RollbackNext, RollbackWait, LetGo, DetachWaited, ContinueThose, WaitExit, Interrupt, kernel
  <2> QED BY <1>1, <2>1, <2>2 DEF Unrolled, Launched, Seizing
<1>5. ASSUME pc' \notin Seizing \cup RollingBack PROVE Unrolled'
  BY <1>5 DEF Unrolled
<1> USE DEF Goto, Seizing, RollingBack
<1>6. CASE DetachPoll \/ DetachRegs \/ DetachWait \/ DetachEnd \/ CoreCommit
  <2>1. pc' \notin Seizing \cup RollingBack
    BY <1>6 DEF DetachPoll, DetachRegs, DetachWait, DetachEnd, CoreCommit
  <2> QED BY <1>5, <2>1
<1>7. CASE DrainStart \/ Poll \/ PassEnd \/ Dispatch \/ AwaitSignal \/ Request
  <2>1. pc' \notin Seizing \cup RollingBack
    BY <1>7 DEF DrainStart, Poll, PassEnd, Dispatch, AwaitSignal, Request, Quit, ctl
  <2> QED BY <1>5, <2>1
<1>8. CASE HandleClone \/ HandleExit \/ HandleExec \/ HandleGroupStop \/ HandleInterrupt \/ HandleFatal \/ HandleSignal \/ HandleKilled
  <2>1. pc' \notin Seizing \cup RollingBack
    BY <1>8 DEF HandleClone, HandleExit, HandleExec, HandleGroupStop, HandleInterrupt, HandleFatal, HandleSignal,
                HandleKilled, Handled, Quit
  <2> QED BY <1>5, <2>1
<1>9. CASE CollectStart \/ CollectList \/ CollectPoll \/ CollectRegs
  <2>1. pc' \notin Seizing \cup RollingBack
    BY <1>9 DEF CollectStart, CollectList, CollectPoll, CollectRegs, CollectFails
  <2> QED BY <1>5, <2>1
<1>10. CASE CollectWait \/ CollectConfirm
  <2>1. pc' \notin Seizing \cup RollingBack
    BY <1>10 DEF CollectWait, CollectConfirm, CollectFails
  <2> QED BY <1>5, <2>1
<1>11. CASE Core \/ CoreLoads \/ KillCrashed
  <2>1. pc' \notin Seizing \cup RollingBack
    BY <1>11 DEF Core, CoreLoads, KillCrashed
  <2> QED BY <1>5, <2>1
<1> QED BY <1>1, <1>2, <1>3, <1>4, <1>6, <1>7, <1>8, <1>9, <1>10, <1>11, OutOfReach DEF Arthur

\* Nothing that matters changes.
LEMMA AccountedSame ==
  ASSUME KernelOK, NEW S \in SUBSET Tids, NEW R, S \subseteq R, Accounted(S), UNCHANGED <<task, traced, stop, child>>,
         \A p \in S : Unread(p) => Unread(p)'
  PROVE  \A t \in traced' : Alive(t)' =>
           \/ t \in R \/ Unannounced(t)'
           \/ \E p \in R : Unread(p)' /\ child'[p] = t /\ (t \in Threads => Stopped(t)')
<1> SUFFICES ASSUME NEW t \in traced', Alive(t)', t \notin R
             PROVE  Unannounced(t)' \/ \E p \in R : Unread(p)' /\ child'[p] = t /\ (t \in Threads => Stopped(t)')
    OBVIOUS
<1>1. Unannounced(t) \/ \E p \in S : Unread(p) /\ child[p] = t /\ (t \in Threads => Stopped(t))
  BY DEF Accounted, Alive
<1>2. Unannounced(t) => Unannounced(t)'
  BY DEF Unannounced, Alive
<1>3. Stopped(t) => Stopped(t)'
  BY DEF Stopped
<1> QED BY <1>1, <1>2, <1>3

\* What PTRACE_DETACH does to the stops.
LEMMA LetGoStops ==
  ASSUME NEW t \in Tids, LetGo(t)
  PROVE  /\ traced' = traced \ {t} /\ child' = child
         /\ \/ \A u \in Tids \ {t} : stop'[u] = stop[u] /\ (u \in fresh <=> u \in fresh')
            \/ AliveThreads' = {}
<1>1. PICK sig : ContinueThose({t}, Just(t, sig), TRUE)
  BY DEF LetGo, DetachWaited
<1>2. PICK dies \in BOOLEAN :
        /\ task' = IF dies THEN Dead(task) ELSE [u \in Tids |-> IF u \in {t} /\ stop[u] = "exit" THEN "zombie" ELSE task[u]]
        /\ stop' = IF dies THEN NotIn({t} \cup Threads) ELSE NotIn({t})
        /\ fresh' = IF dies THEN fresh \ ({t} \cup Threads) ELSE fresh \ {t}
        /\ traced' = traced \ {t} /\ child' = child
  BY <1>1 DEF ContinueThose
<1>3. CASE dies
  <2>1. task' = Dead(task)
    BY <1>2, <1>3
  <2>2. AliveThreads' = {}
    BY <2>1, LeaderIsThread DEF AliveThreads, Alive, Dead
  <2> QED BY <1>2, <2>2
<1>4. CASE ~dies
  BY <1>2, <1>4 DEF NotIn
<1> QED BY <1>3, <1>4

\* A task that is let go is accounted for no more, the new one of its clone event is.
LEMMA AccountedDetached ==
  ASSUME KernelOK, Ranked, Falls, NEW S \in SUBSET Tids, Accounted(S), pc # "handle", NEW t \in Tids, LetGo(t), NEW R,
         R = (S \ {t}) \cup (IF t \in fresh /\ stop[t] = "clone" THEN {child[t]} ELSE {})
  PROVE  \A u \in traced' : Alive(u)' =>
           \/ u \in R \/ Unannounced(u)'
           \/ \E p \in R : Unread(p)' /\ child'[p] = u /\ (u \in Threads => Stopped(u)')
<1>1. traced' = traced \ {t} /\ child' = child
  BY LetGoStops
<1>2. ASSUME NEW p \in S, Unread(p), child[p] \in traced', Alive(child[p])'
      PROVE  \/ child[p] \in R
             \/ p \in R /\ Unread(p)' /\ stop'[child[p]] = stop[child[p]]
             \/ child[p] \in Procs /\ ~Alive(p)'
  <2>1. p \in Tids /\ p \in Threads /\ child[p] \in Tids \ {t} /\ p \in fresh /\ stop[p] = "clone"
    BY <1>1, <1>2, UnreadIsAlive DEF Unread
  <2>2. CASE p = t
    BY <2>1, <2>2
  <2>3. CASE p # t /\ \A u \in Tids \ {t} : stop'[u] = stop[u] /\ (u \in fresh <=> u \in fresh')
    BY <2>1, <2>3 DEF Unread
  <2>4. CASE AliveThreads' = {}
    <3>1. ~Alive(p)'
      BY <2>1, <2>4 DEF AliveThreads
    <3>2. child[p] \notin Threads
      BY <1>1, <1>2, <2>4 DEF AliveThreads
    <3> QED BY <2>1, <3>1, <3>2 DEF Threads
  <2> QED BY <2>2, <2>3, <2>4, LetGoStops
<1>3. \A u \in S \cap traced' : Alive(u)' => u \in R
  BY <1>1
<1> QED BY <1>1, <1>2, <1>3, AccountedKept

\* A task that is dead, or not traced, may be dropped.
LEMMA AccountedDropped ==
  ASSUME KernelOK, Ranked, Falls, UNCHANGED <<stop, fresh, child>>, traced' \subseteq traced,
         NEW S \in SUBSET Tids, Accounted(S), pc # "handle", NEW t \in Tids, t \notin traced \/ ~Alive(t)
  PROVE  \A u \in traced' : Alive(u)' =>
           \/ u \in S \ {t} \/ Unannounced(u)'
           \/ \E p \in S \ {t} : Unread(p)' /\ child'[p] = u /\ (u \in Threads => Stopped(u)')
<1>1. ~Unread(t)
  BY UnreadIsAlive DEF AliveThreads
<1>2. \A p \in S : Unread(p) => p # t /\ Unread(p)'
  BY <1>1 DEF Unread
<1>3. \A u \in S \cap traced' : Alive(u)' => u # t
  BY DEF Falls, Alive
<1>4. PICK R : R = S \ {t}
  OBVIOUS
<1>5. \A u \in S \cap traced' : Alive(u)' => u \in R
  BY <1>3, <1>4
<1>6. \A p \in S : Unread(p) /\ child[p] \in traced' /\ Alive(child[p])' =>
            \/ child[p] \in R
            \/ p \in R /\ Unread(p)' /\ stop'[child[p]] = stop[child[p]]
            \/ child[p] \in Procs /\ ~Alive(p)'
  BY <1>2, <1>4
<1> QED BY <1>4, <1>5, <1>6, AccountedKept

\* When Arthur ceases to watch, the process is dead, or it knows all there is to let go.
LEMMA Departs ==
  ASSUME Told, Rest, Arthur \/ Request, pc \in Watching \cup OfCrash, CrashStands', pc' \in Detaching \cup {"coreCommit", "returned"}
  PROVE  \/ AliveThreads' = {}
         \/ /\ UNCHANGED kernel /\ \A p \in Tids : Unread(p) => Unread(p)'
            /\ Accounted(mtids) /\ mtids \subseteq (IF pc' \in Detaching THEN todo' ELSE {})
<1> USE DEF Goto, Quit
<1>1. /\ TypeInv /\ KernelOK /\ NoSnapshots /\ Ranked /\ WatchInv /\ Quiet /\ FatalKills /\ Falls
      /\ Parented /\ VigilInv
  BY ArthurFalls DEF Told, TypeInv, WatchedTrue, Rest, WatchInv
<1>2. pc' \in Leaving
  BY DEF Detaching, Leaving
<1>3. AliveThreads = {} => AliveThreads' = {}
  BY <1>1, LeaderIsThread DEF AliveThreads, Falls, Alive
<1>4. CASE exitSig' # "none"
  BY <1>2, <1>4 DEF CrashStands
<1>5. \/ Poll \/ PassEnd \/ AwaitSignal \/ HandleKilled \/ KillCrashed
  <2>1. ~(SeizeList \/ SeizeEach \/ SeizeEnd \/ RollbackNext \/ RollbackWait \/ DrainStart \/ Request)
    BY DEF SeizeList, SeizeEach, SeizeEnd, RollbackNext, RollbackWait, DrainStart, Request, Rollback, ctl, Detaching,
           Watching, Seizing, Polling, OfCrash, Collecting
  <2>2. ~(DetachPoll \/ DetachRegs \/ DetachWait \/ DetachEnd \/ CoreCommit)
    BY DEF DetachPoll, DetachRegs, DetachWait, DetachEnd, CoreCommit, Watching, Seizing, Polling, OfCrash, Collecting
  <2>3. ~(HandleClone \/ HandleExit \/ HandleExec \/ HandleGroupStop \/ HandleInterrupt \/ HandleFatal \/ HandleSignal)
    BY DEF HandleClone, HandleExit, HandleExec, HandleGroupStop, HandleInterrupt, HandleFatal, HandleSignal, Handled, Detaching
  <2>4. ~(CollectStart \/ CollectList \/ CollectPoll \/ CollectRegs)
    BY DEF CollectStart, CollectList, CollectPoll, CollectRegs, CollectFails, Detaching
  <2>5. ~(CollectWait \/ CollectConfirm \/ Core \/ CoreLoads)
    BY DEF CollectWait, CollectConfirm, Core, CoreLoads, CollectFails, Detaching
  <2>6. ~Dispatch
    BY <1>1, ResultFacts DEF Dispatch, NoSnapshots, Detaching
  <2> QED BY <1>1, <2>1, <2>2, <2>3, <2>4, <2>5, <2>6, OutOfReach DEF Arthur
<1>6. CASE exitSig' = "none"
  <2>1. exitSig = "none" /\ ~KillCrashed
    <3>1. exitSig' = exitSig \/ HandleKilled
      BY <1>5 DEF Poll, PassEnd, AwaitSignal, KillCrashed, crash
    <3>2. HandleKilled => exitSig' = exitSig \/ exitSig' \in Fatal
      BY DEF HandleKilled, crash
    <3>3. exitSig = "none"
      BY <1>6, <3>1, <3>2, SignalFacts
    <3> QED BY <1>1, <3>3 DEF KillCrashed, NoSnapshots, OfCrash
  <2>2. Watch /\ Orphans
    BY <1>1, <2>1 DEF NoSnapshots, Parented, VigilInv, Vigil
  <2>3. Accounted(mtids)
    BY <1>1, <2>2, AccountedVigil
  <2>4. ASSUME UNCHANGED kernel, pc # "handle" \/ ~Unread(tid), mtids \subseteq (IF pc' \in Detaching THEN todo' ELSE {})
        PROVE  /\ UNCHANGED kernel /\ \A p \in Tids : Unread(p) => Unread(p)'
               /\ Accounted(mtids) /\ mtids \subseteq (IF pc' \in Detaching THEN todo' ELSE {})
    BY <2>3, <2>4 DEF Unread, kernel
  <2>5. CASE AwaitSignal
    <3>1. UNCHANGED kernel /\ pc = "wait" /\ pc' = "detach" /\ todo' = mtids
      BY <2>5 DEF AwaitSignal, Detaching
    <3> QED BY <2>4, <3>1 DEF Detaching
  <2>6. CASE HandleKilled
    <3>1. UNCHANGED kernel /\ ~StillThere /\ pc' = "detach" /\ todo' = mtids
      BY <2>6 DEF HandleKilled, Handled, Detaching
    <3>2. ~Alive(tid) /\ tid \in Tids
      BY <1>1, <3>1 DEF StillThere, Renamed, Quiet, TypeInv, ControlOK
    <3>3. ~Unread(tid)
      BY <1>1, <3>2, UnreadIsAlive DEF AliveThreads
    <3> QED BY <2>4, <3>1, <3>3 DEF Detaching
  <2>7. CASE PassEnd
    <3>1. pc = "poll" /\ UNCHANGED kernel
      BY <2>7 DEF PassEnd
    <3>2. mtids = {}
      BY <2>7 DEF PassEnd, Detaching
    <3> QED BY <2>4, <3>1, <3>2
  <2>8. CASE Poll
    <3>1. PICK t \in Tids : t = LeastOf(todo)
      BY <1>1, <2>8, LeastIsMember DEF Poll, TypeInv, ControlOK
    <3>2. CASE Reapable(t) /\ DiedOfFatal
      BY <1>1, <1>3, <3>2 DEF DiedOfFatal, FatalKills
    <3>3. CASE Reapable(t) /\ t = Leader
      <4>1. AliveThreads = {}
        BY <3>3, LeaderIsThread DEF Reapable, Listed, AliveThreads, Alive
      <4> QED BY <1>3, <4>1
    <3>4. CASE task[t] # "gone" /\ Quit(mtids, -1) /\ UNCHANGED kernel
      <4>1. pc = "poll"
        BY <2>8 DEF Poll
      <4> QED BY <2>4, <3>4, <4>1 DEF Detaching
    <3>5. CASE task[t] = "gone" /\ t = Leader
      BY <1>1, <1>3, <3>5 DEF Quiet
    <3> QED BY <2>8, <3>1, <3>2, <3>3, <3>4, <3>5 DEF Poll, Detaching
  <2> QED BY <1>5, <2>1, <2>5, <2>6, <2>7, <2>8
<1> QED BY <1>4, <1>6

\* While Arthur lets go, and when it has, all that is left is accounted for.
LEMMA ReleasedLeaves ==
  ASSUME Told, Rest, NEW R, Launched, history'.gaveUp = {}, pc' \in Detaching \cup {"coreCommit", "returned"},
         R = IF pc' \in Detaching THEN todo' ELSE {},
         RollbackNext \/ RollbackWait \/ DetachPoll \/ DetachRegs \/ DetachWait \/ DetachEnd \/ CoreCommit
  PROVE  \A t \in traced' : Alive(t)' =>
           \/ t \in R \/ Unannounced(t)'
           \/ \E p \in R : Unread(p)' /\ child'[p] = t /\ (t \in Threads => Stopped(t)')
<1> DEFINE Goal == \A t \in traced' : Alive(t)' =>
                     \/ t \in R \/ Unannounced(t)'
                     \/ \E p \in R : Unread(p)' /\ child'[p] = t /\ (t \in Threads => Stopped(t)')
<1> SUFFICES Goal
    OBVIOUS
<1> USE DEF Goto
<1>1. /\ TypeInv /\ KernelOK /\ NoSnapshots /\ Ranked /\ Falls /\ Unrolled /\ Released
      /\ tid \in Tids /\ todo \subseteq Tids /\ history.gaveUp \subseteq Tids
  BY ArthurFalls DEF Told, TypeInv, WatchedTrue, Rest, ControlOK, Arthur
<1>2. CASE RollbackNext \/ RollbackWait
  <2>1. pc = "rollback" /\ UNCHANGED kernel
    BY <1>2 DEF RollbackNext, RollbackWait, Detaching
  <2>2. traced' = {}
    BY <1>1, <2>1 DEF Unrolled, RollingBack, kernel
  <2> QED BY <2>2
<1>3. CASE CoreCommit \/ DetachEnd
  <2>1. pc \in {"coreCommit", "detach"} /\ pc' = "returned" /\ UNCHANGED <<kernel, history>>
    BY <1>3 DEF CoreCommit, DetachEnd, ends
  <2>2. Accounted({})
    BY <1>1, <1>3, <2>1 DEF Released, Detaching, CoreCommit, DetachEnd
  <2> QED BY <1>1, <2>1, <2>2, AccountedSame DEF kernel
<1>4. CASE DetachPoll \/ DetachRegs \/ DetachWait
  <2>1. pc \in Detaching /\ pc' \in Detaching /\ R = todo' /\ history.gaveUp = {}
    <3>1. pc \in Detaching /\ pc' \in Detaching
      BY <1>4 DEF DetachPoll, DetachRegs, DetachWait, Detaching
    <3>2. history' = history \/ \E t : GiveUp(t)
      BY <1>4 DEF DetachPoll, DetachRegs, DetachWait, ends
    <3>3. history.gaveUp \subseteq history'.gaveUp
      BY <1>1, <3>2 DEF GiveUp, TypeInv, ControlOK
    <3> QED BY <3>1, <3>3
  <2>2. Accounted(todo) /\ pc # "handle"
    BY <1>1, <2>1 DEF Released, Detaching
  <2>3. ASSUME NEW t \in Tids, LetGo(t), todo' = (todo \ {t}) \cup (IF t \in fresh /\ stop[t] = "clone" THEN {child[t]} ELSE {})
        PROVE  Goal
    BY <1>1, <2>1, <2>2, <2>3, AccountedDetached
  <2>4. ASSUME NEW t \in Tids, Detached(t) PROVE Goal
    BY <2>3, <2>4 DEF Detached
  <2>5. ASSUME NEW t \in Tids, todo' = todo \ {t}, t \notin traced \/ ~Alive(t), WaitExit(t) \/ UNCHANGED kernel PROVE Goal
    <3>1. UNCHANGED <<stop, fresh, child>> /\ traced' \subseteq traced
      BY <2>5 DEF WaitExit, kernel
    <3> QED BY <1>1, <2>1, <2>2, <2>5, <3>1, AccountedDropped
  <2>6. ASSUME todo' = todo, UNCHANGED <<task, traced, stop, fresh, child>> PROVE Goal
    BY <1>1, <2>1, <2>2, <2>6, AccountedSame DEF Unread, Detaching
  <2>7. ASSUME NEW t \in Tids, Reapable(t) PROVE ~Alive(t)
    BY <2>7 DEF Reapable, Alive
  <2>8. CASE DetachPoll
    <3>1. PICK t \in Tids : t = LeastOf(todo)
      BY <1>1, <2>8, LeastIsMember DEF DetachPoll
    <3>2. \/ Detached(t)
          \/ Reapable(t) /\ WaitExit(t) /\ todo' = todo \ {t}
          \/ UNCHANGED kernel /\ ((task[t] = "zombie" /\ todo' = todo \ {t}) \/ todo' = todo)
      BY <2>8, <3>1 DEF DetachPoll
    <3>3. CASE UNCHANGED kernel /\ ((task[t] = "zombie" /\ todo' = todo \ {t}) \/ todo' = todo)
      BY <2>5, <2>6, <3>3 DEF Alive, kernel
    <3> QED BY <2>4, <2>5, <2>7, <3>2, <3>3
  <2>9. CASE DetachRegs
    <3>1. \/ Detached(tid)
          \/ Interrupt(tid) /\ todo' = todo
          \/ tid \notin traced /\ todo' = todo \ {tid} /\ UNCHANGED kernel
      BY <2>9 DEF DetachRegs
    <3> QED BY <1>1, <2>4, <2>5, <2>6, <3>1 DEF Interrupt
  <2>10. CASE DetachWait
    <3>1. \/ Detached(tid)
          \/ Reapable(tid) /\ WaitExit(tid) /\ todo' = todo \ {tid}
          \/ GiveUp(tid) /\ todo' = todo \ {tid} /\ UNCHANGED kernel
      BY <2>10 DEF DetachWait
    <3>2. GiveUp(tid) => tid \notin traced
      BY DEF GiveUp, TypeInv, ControlOK
    <3> QED BY <1>1, <2>4, <2>5, <2>7, <3>1, <3>2
  <2> QED BY <1>4, <2>8, <2>9, <2>10
<1> QED BY <1>2, <1>3, <1>4

\* Arthur has no other step once it is leaving.
LEMMA LeavingActions ==
  ASSUME pc \in Leaving, Arthur \/ Request
  PROVE  RollbackNext \/ RollbackWait \/ DetachPoll \/ DetachRegs \/ DetachWait \/ DetachEnd \/ CoreCommit
<1> USE DEF Leaving
<1>1. ~(SeizeList \/ SeizeEach \/ SeizeEnd \/ DrainStart \/ Poll \/ PassEnd \/ Dispatch \/ AwaitSignal \/ Request)
  BY DEF SeizeList, SeizeEach, SeizeEnd, DrainStart, Poll, PassEnd, Dispatch, AwaitSignal, Request
<1>2. ~(\/ HandleClone \/ HandleExit \/ HandleExec \/ HandleGroupStop \/ HandleInterrupt \/ HandleFatal \/ HandleSignal
        \/ HandleKilled)
  BY DEF HandleClone, HandleExit, HandleExec, HandleGroupStop, HandleInterrupt, HandleFatal, HandleSignal, HandleKilled, Handling
<1>3. ~(CollectStart \/ CollectList \/ CollectPoll \/ CollectRegs \/ CollectWait \/ CollectConfirm \/ Core \/ CoreLoads \/ KillCrashed)
  BY DEF CollectStart, CollectList, CollectPoll, CollectRegs, CollectWait, CollectConfirm, Core, CoreLoads, KillCrashed
<1>4. ~(\/ DumpStart \/ Abandon \/ Preserve \/ Restore \/ Meta \/ Loads \/ Inject \/ InjectInVain \/ InjectDeath
        \/ ResumeAll)
  BY DEF DumpStart, Abandon, Preserve, Restore, Meta, Loads, Inject, InjectInVain, InjectDeath, ResumeAll
<1>5. ~(DumpChild \/ Late \/ Finish \/ Settle \/ SettleKilled \/ Commit)
  BY DEF DumpChild, Late, Finish, Settle, SettleKilled, Commit
<1> QED BY <1>1, <1>2, <1>3, <1>4, <1>5 DEF Arthur

LEMMA ReleasedArthur ==
  ASSUME Told, Rest, Arthur \/ Request, TypeInv', CrashStands'
  PROVE  Released'
<1> SUFFICES ASSUME pc' \in Detaching \cup {"coreCommit", "returned"}, Launched', history'.gaveUp = {}
             PROVE  Accounted(IF pc \in Detaching THEN todo ELSE {})'
    BY DEF Released
<1>1. /\ TypeInv /\ KernelOK /\ KernelOK' /\ NoSnapshots /\ mtids \subseteq Tids
  BY DEF Told, TypeInv, WatchedTrue, ControlOK
<1>2. PICK R : R = IF pc' \in Detaching THEN todo' ELSE {}
  OBVIOUS
<1> SUFFICES \A t \in traced' : Alive(t)' =>
               \/ t \in R \/ Unannounced(t)'
               \/ \E p \in R : Unread(p)' /\ child'[p] = t /\ (t \in Threads => Stopped(t)')
    BY <1>2 DEF Accounted
<1>3. CASE pc \in Watching \cup OfCrash
  <2>1. CASE AliveThreads' = {}
    BY <1>1, <1>3, <2>1, OrphansArthur, AccountedDead
  <2>2. CASE /\ UNCHANGED kernel /\ \A p \in Tids : Unread(p) => Unread(p)'
             /\ Accounted(mtids) /\ mtids \subseteq R
    BY <1>1, <2>2, AccountedSame DEF kernel
  <2> QED BY <1>2, <1>3, <2>1, <2>2, Departs
<1>4. CASE pc \in Leaving
  <2>1. RollbackNext \/ RollbackWait \/ DetachPoll \/ DetachRegs \/ DetachWait \/ DetachEnd \/ CoreCommit
    BY <1>1, <1>4, LeavingActions
  <2>2. Launched
    BY <2>1 DEF RollbackNext, RollbackWait, DetachPoll, DetachRegs, DetachWait, DetachEnd, CoreCommit, Launched
  <2> QED BY <1>2, <2>1, <2>2, ReleasedLeaves
<1> QED BY <1>1, <1>3, <1>4 DEF NoSnapshots

LEMMA ParentedArthur ==
  ASSUME Told, Rest, Arthur \/ Request, CrashStands'
  PROVE  Parented'
<1> SUFFICES ASSUME pc' \in Watching \cup OfCrash PROVE Orphans'
    BY DEF Parented
<1>1. CASE pc \in Leaving
  <2>1. pc' \in Leaving
    BY <1>1, LeavingActions DEF RollbackNext, RollbackWait, DetachPoll, DetachRegs, DetachWait, DetachEnd, CoreCommit, Goto, Leaving
  <2> QED BY <2>1 DEF Leaving, Watching, Seizing, Polling, OfCrash, Collecting
<1>2. CASE pc \notin Leaving
  BY <1>2, OrphansArthur DEF Told, WatchedTrue, NoSnapshots
<1> QED BY <1>1, <1>2

-----------------------------------------------------------------------------
(* The theorems                                                            *)

LEMMA RestInit == Init => Rest
<1> SUFFICES ASSUME Init PROVE Rest
    OBVIOUS
<1>1. /\ traced = {} /\ stop = [t \in Tids |-> "none"] /\ child = [t \in Tids |-> 0] /\ fresh = {}
      /\ pc = "seize" /\ coll = NoCollection
  BY DEF Init, KernelInit
<1>2. Begot /\ AllTold
  BY <1>1 DEF Begot, AllTold, Stopped, Tids
<1>3. Parented /\ Awake /\ Unrolled /\ Released
  BY <1>1 DEF Parented, Orphans, Awake, Unrolled, Released, Detaching, NoCollection
<1> QED BY <1>2, <1>3 DEF Rest

LEMMA RestStep ==
  ASSUME Told, Rest, [Next]_vars, TypeInv', CrashStands', NoExecYet'
  PROVE  Rest'
<1>1. CASE UNCHANGED vars
  <2>1. /\ UNCHANGED <<task, traced, stop, fresh, child, chld>>
        /\ UNCHANGED <<pc, todo, tid, exitSig, coll, progress, history>>
    BY <1>1 DEF vars, kernel, arthur, ctl, crash, loop, ends
  <2>2. Begot' /\ AllTold'
    BY <2>1 DEF Rest, Begot, Exists, AllTold, Vigil, Alive, Stopped, Untold
  <2>3. Parented'
    BY <2>1 DEF Rest, Parented, Orphans, Expected, Unannounced, Unread, Alive
  <2>4. Unrolled'
    BY <2>1 DEF Rest, Unrolled, Launched
  <2>5. Released'
    BY <2>1 DEF Rest, Released, Accounted, Launched, Unannounced, Unread, Alive, Stopped
  <2>6. Awake'
    BY <2>1 DEF Rest, Awake, Vigil, Due, Ahead, Unannounced, Unread, Alive
  <2> QED BY <2>2, <2>3, <2>4, <2>5, <2>6 DEF Rest
<1>2. CASE Arthur \/ Request
  <2>1. Begot'
    BY <1>2, ArthurFalls, BegotFalls DEF Told, WatchedTrue, Rest
  <2> QED BY <1>2, <2>1, AllToldArthur, ParentedArthur, AwakeArthur, UnrolledArthur, ReleasedArthur DEF Rest
<1>3. CASE Watched
  BY <1>3, RestTarget
<1> QED BY <1>1, <1>2, <1>3 DEF Next

RestInv == NoExecYet => Rest

LEMMA RestKept ==
  ASSUME MaxDumps = 0
  PROVE  Spec => [](WatchedTrue /\ TypeInv /\ RestInv)
<1>1. Init => RestInv
  BY RestInit DEF RestInv
<1>2. /\ TypeInv /\ WatchedInv /\ CrashWatched /\ WatchedTrue /\ VigilInv /\ RestInv
      /\ TypeInv' /\ CrashWatched' /\ [Next]_vars
      => RestInv'
  <2> SUFFICES ASSUME TypeInv, WatchedInv, CrashWatched, WatchedTrue, VigilInv, RestInv,
                      TypeInv', CrashWatched', [Next]_vars, NoExecYet'
               PROVE  Rest'
      BY DEF RestInv
  <2>1. NoExecYet
    BY NoExecBefore
  <2>2. Told /\ Rest /\ CrashStands'
    BY <2>1 DEF Told, WatchedInv, CrashWatched, RestInv, CrashInv, Doomed
  <2> QED BY <2>2, RestStep
<1>3. MaxDumps = 0
  OBVIOUS
<1> QED BY <1>1, <1>2, <1>3, TypeInvariant, WatchInvariant, CrashInvariant, HandledIsTrue, VigilInit, VigilStep, PTL DEF Spec

\* As long as no thread has called exec, a target Arthur takes no snapshot of is not
\* left standing: when Arthur goes to sleep, every thread that is stopped has a stop that
\* waitpid has yet to tell of, and a stop to be told of has left a SIGCHLD to wake it
\* (the passes of drain_monitor_events over the threads listed when they began).
THEOREM NobodyIsForgotten ==
  ASSUME MaxDumps = 0
  PROVE  Spec => [](NoExecYet => NobodyForgotten)
<1>1. TypeInv /\ WatchedTrue /\ RestInv => (NoExecYet => NobodyForgotten)
  <2> SUFFICES ASSUME TypeInv, WatchedTrue, Rest, pc = "wait"
               PROVE  /\ \A t \in traced : Alive(t) /\ Stopped(t) => t \in fresh
                      /\ (\E t \in fresh : ~Unannounced(t)) => chld
      BY DEF NobodyForgotten, RestInv
  <2>1. Vigil
    BY DEF Vigil, Watching, Polling, WatchedTrue, NoSnapshots
  <2>2. \A t \in traced : Alive(t) /\ Stopped(t) => t \in fresh
    BY <2>1 DEF Rest, AllTold, Untold, TypeInv, KernelOK
  <2>3. (\E t \in fresh : ~Unannounced(t)) => chld
    BY <2>1 DEF Rest, Awake, Due, TypeInv, KernelOK
  <2> QED BY <2>2, <2>3
<1>2. MaxDumps = 0
  OBVIOUS
<1> QED BY <1>1, <1>2, RestKept, PTL

\* As long as no thread has called exec, and for a target Arthur takes no snapshot of:
\* when monitor returns, no task that lives is still traced, unless detach_monitored_threads
\* gave up a thread that would not stop, or a process had its parent killed before the clone
\* event that tells of it was read.  That holds of a monitor that has begun to watch, not of
\* a start that failed (RollbackReleases).
THEOREM NothingStaysTraced ==
  ASSUME MaxDumps = 0
  PROVE  Spec => [](NoExecYet => NothingLeftTraced)
<1>1. RestInv => (NoExecYet => NothingLeftTraced)
  BY DEF NothingLeftTraced, RollbackReleases, RestInv, Rest, Released, Accounted, Detaching
<1>2. MaxDumps = 0
  OBVIOUS
<1> QED BY <1>1, <1>2, RestKept, PTL

-----------------------------------------------------------------------------
(* What Arthur believes of job control, as long as no thread has called exec *)

\* The news of a group-stop or of its end: a group-stop that is kept and to be told to
\* be over, one that Arthur has yet to handle, or the stop that tells of the end.
Tells(t) ==
  \/ (t \in listening \/ (Untold(t) /\ stop[t] = "group")) /\ (jobStop \/ t \in notify)
  \/ Untold(t) /\ stop[t] = "intr" /\ \A p \in Tids : ~(Unread(p) /\ child[p] = t)

\* A thread in a group-stop is told when it ends.  When Arthur takes the process for
\* running, a thread has yet to stop for the others; when it takes the process for
\* stopped, a thread is to tell it when that is over.
Listeners == \A t \in listening : t \in AliveThreads \cap traced /\ task[t] = "run" /\ ~Stopped(t)
Grouped == \A t \in AliveThreads : stop[t] = "group" => jobStop \/ t \in notify
Behind == jobStop /\ ~groupStop /\ listening # {} =>
  \E t \in AliveThreads : task[t] = "run" /\ t \notin listening /\ stop[t] # "exit"
Ends == groupStop => \E t \in AliveThreads \cap traced : Tells(t)
Job == Vigil /\ AliveThreads # {} => Listeners /\ Grouped /\ Behind /\ Ends

\* The steps of the target that matter to job control.
JobMove ==
  \/ UNCHANGED <<listening, notify>> /\ (jobStop' <=> jobStop)
  \/ \E t \in traced : Trap(t)
  \/ /\ UNCHANGED <<task, traced, stop, fresh, listening, child>> /\ ~jobStop'
     /\ notify' = notify \cup {t \in traced : Alive(t)}
  \/ /\ UNCHANGED <<task, traced, stop, fresh, listening, notify, child>> /\ jobStop' /\ ~jobStop
     /\ \E t \in Threads : Runs(t)

LEMMA JobMoves ==
  ASSUME KernelOK, Target, \A t \in Threads : ~Exec(t) /\ ~ExecDone(t), AliveThreads' # {}
  PROVE  JobMove
<1>1. ASSUME NEW s \in Sent, Send(s) PROVE JobMove
  <2>1. CASE s = "CONT"
    <3>1. UNCHANGED <<task, traced, stop, fresh, listening, child>> /\ ~jobStop'
          /\ notify' = notify \cup {t \in traced : Alive(t)}
      BY <1>1, <2>1, Zenon DEF Send
    <3> QED BY <3>1, Zenon DEF JobMove
  <2>2. CASE s # "CONT"
    <3>1. UNCHANGED <<listening, notify, jobStop>>
      BY <1>1, <2>2, Zenon DEF Send
    <3> QED BY <3>1, Zenon DEF JobMove
  <2> QED BY <2>1, <2>2
<1>2. ASSUME NEW t \in Threads, NEW s \in Signals, Dequeue(t, s) PROVE JobMove
  <2>1. CASE t \in traced
    <3>1. UNCHANGED <<listening, notify, jobStop>>
      BY <1>2, <2>1, Zenon DEF Dequeue
    <3> QED BY <3>1, Zenon DEF JobMove
  <2>2. CASE t \notin traced
    <3>1. /\ UNCHANGED <<listening, notify, traced, child>> /\ jobStop' = (s = "STOP") /\ Runs(t)
          /\ task' = (IF s \in Fatal THEN Dead(task) ELSE task)
          /\ stop' = (IF s \in Fatal THEN NotIn(Threads) ELSE stop)
          /\ fresh' = (IF s \in Fatal THEN fresh \ Threads ELSE fresh)
      BY <1>2, <2>2, Zenon DEF Dequeue
    <3>2. ~jobStop
      BY <3>1, Zenon DEF Runs
    <3>3. s = "STOP" => s \notin Fatal
      BY SignalFacts
    <3>4. CASE s = "STOP"
      <4>1. jobStop' /\ UNCHANGED <<task, traced, stop, fresh, listening, notify, child>>
        BY <3>1, <3>3, <3>4, Zenon
      <4> QED BY <3>1, <3>2, <4>1, Zenon DEF JobMove
    <3>5. CASE s # "STOP"
      <4>1. ~jobStop' /\ UNCHANGED <<listening, notify>>
        BY <3>1, <3>5, Zenon
      <4> QED BY <3>2, <4>1, Zenon DEF JobMove
    <3> QED BY <3>4, <3>5
  <2> QED BY <2>1, <2>2
<1>3. ASSUME NEW t \in Threads, Trap(t) PROVE JobMove
  <2>1. t \in traced
    BY <1>3 DEF Trap
  <2> QED BY <1>3, <2>1, Zenon DEF JobMove
<1>4. ASSUME NEW t \in Threads, Die(t) \/ Clone(t) \/ Exit(t) \/ Release(t) \/ Sleep(t) \/ Wake(t) PROVE JobMove
  <2>1. UNCHANGED <<listening, notify, jobStop>>
    BY <1>4, Zenon DEF Die, Clone, Exit, Release, Sleep, Wake
  <2> QED BY <2>1, Zenon DEF JobMove
<1>5. ~Kill
  BY DEF Kill, AliveThreads, Alive, Dead, Threads
<1> QED BY <1>1, <1>2, <1>3, <1>4, <1>5 DEF Target, React

\* Neither a thread that listens nor, while the process is to stand still, any other
\* does more than be trapped.
LEMMA ListenersStand ==
  ASSUME KernelOK, Target, \A t \in Threads : ~Exec(t) /\ ~ExecDone(t), AliveThreads' # {},
         NEW u \in AliveThreads, u \in listening \/ jobStop, task[u] = "run", Quiet
  PROVE  task'[u] = "run" /\ (stop'[u] = stop[u] \/ \E t \in traced : t = u /\ Trap(t))
<1>0. u \in Threads /\ u \in Tids /\ Alive(u) /\ ~Runs(u)
  BY LeaderIsThread DEF AliveThreads, Runs
<1> DEFINE Stands == task'[u] = "run" /\ (stop'[u] = stop[u] \/ \E t \in traced : t = u /\ Trap(t))
<1>1. ASSUME UNCHANGED <<task, stop>> PROVE Stands
  BY <1>1
<1>2. ASSUME NEW s \in Sent, Send(s) PROVE Stands
  BY <1>1, <1>2 DEF Send
<1>3. ASSUME NEW t \in Threads, NEW s \in Signals, Dequeue(t, s) PROVE Stands
  <2>1. t # u
    BY <1>0, <1>3 DEF Dequeue
  <2>2. s \in Fatal => task' = task \/ task' = Dead(task)
    BY <1>3 DEF Dequeue
  <2>3. task' # Dead(task)
    BY DEF AliveThreads, Alive, Dead, Threads
  <2>4. task' = task
    BY <1>3, <2>3 DEF Dequeue
  <2>5. stop'[u] = stop[u]
    <3>1. CASE t \in traced
      <4>1. stop' = [stop EXCEPT ![t] = s]
        BY <1>3, <3>1 DEF Dequeue, EnterStop
      <4> QED BY <2>1, <4>1, <1>0 DEF KernelOK
    <3>2. CASE t \notin traced
      <4>1. task' = (IF s \in Fatal THEN Dead(task) ELSE task) /\ stop' = (IF s \in Fatal THEN NotIn(Threads) ELSE stop)
        BY <1>3, <3>2 DEF Dequeue
      <4>2. s \notin Fatal
        BY <2>3, <4>1
      <4> QED BY <4>1, <4>2
    <3> QED BY <3>1, <3>2
  <2> QED BY <2>4, <2>5
<1>4. ASSUME NEW t \in Threads, Trap(t) PROVE Stands
  <2>1. task' = task /\ t \in traced /\ \E why : stop' = [stop EXCEPT ![t] = why]
    BY <1>4 DEF Trap, EnterStop
  <2> QED BY <1>0, <1>4, <2>1 DEF KernelOK
<1>5. ASSUME NEW t \in Threads, Clone(t) PROVE Stands
  <2>1. t # u
    BY <1>0, <1>5 DEF Clone
  <2>2. PICK n \in Tids : task[n] = "none" /\ task' = [task EXCEPT ![n] = "run"]
                          /\ (stop' = stop \/ stop' = [stop EXCEPT ![t] = "clone", ![n] = "intr"])
    BY <1>5 DEF Clone
  <2> QED BY <1>0, <2>1, <2>2 DEF KernelOK
<1>6. ASSUME NEW t \in Threads, Exit(t) \/ Sleep(t) PROVE Stands
  <2>1. t # u
    BY <1>0, <1>6 DEF Exit, Sleep
  <2>2. (task' = task \/ \E v : task' = [task EXCEPT ![t] = v]) /\ (stop' = stop \/ \E v : stop' = [stop EXCEPT ![t] = v])
    BY <1>6 DEF Exit, Sleep, EnterStop
  <2> QED BY <1>0, <2>1, <2>2 DEF KernelOK
<1>7. ASSUME NEW t \in Threads, Release(t) \/ Wake(t) PROVE Stands
  <2>1. t # u
    BY <1>7 DEF Release, Wake
  <2>2. (\E v : task' = [task EXCEPT ![t] = v]) /\ stop' = stop
    BY <1>7 DEF Release, Wake
  <2> QED BY <1>0, <2>1, <2>2 DEF KernelOK
<1>8. \A t \in Threads : ~Die(t)
  BY LeaderIsThread DEF Quiet, Die
<1>9. ~Kill
  BY DEF Kill, AliveThreads, Alive, Dead, Threads
<1> HIDE DEF Stands
<1>10. Stands
  BY <1>2, <1>3, <1>4, <1>5, <1>6, <1>7, <1>8, <1>9 DEF Target, React
<1> QED BY <1>10 DEF Stands

LEMMA ListenersTarget ==
  ASSUME KernelOK, Quiet, Steady, Target, \A t \in Threads : ~Exec(t) /\ ~ExecDone(t), AliveThreads' # {}, JobMove, Listeners
  PROVE  Listeners' /\ listening' \subseteq listening
<1>1. listening' \subseteq listening /\ \A t \in traced : Trap(t) => t \notin listening'
  BY Zenon DEF JobMove, Trap
<1>2. ASSUME NEW t \in listening' PROVE t \in AliveThreads' \cap traced' /\ task'[t] = "run" /\ ~Stopped(t)'
  <2>1. t \in AliveThreads \cap traced /\ task[t] = "run" /\ ~Stopped(t) /\ ~Trap(t)
    BY <1>1, <1>2 DEF Listeners
  <2>2. task'[t] = "run" /\ stop'[t] = stop[t]
    BY <1>1, <1>2, <2>1, ListenersStand
  <2>3. t \in traced' /\ t \in Threads
    BY <2>1 DEF Steady, Moved, AliveThreads
  <2> QED BY <2>1, <2>2, <2>3 DEF AliveThreads, Alive, Stopped
<1> QED BY <1>1, <1>2 DEF Listeners

LEMMA GroupedTarget ==
  ASSUME KernelOK, Steady, AliveThreads' # {}, JobMove, Grouped, Target
  PROVE  Grouped'
<1> SUFFICES ASSUME NEW t \in AliveThreads', stop'[t] = "group" PROVE jobStop' \/ t \in notify'
    BY DEF Grouped
<1>0. t \in Threads /\ t \in Tids
  BY LeaderIsThread DEF AliveThreads
<1>1. CASE Stopped(t)
  <2>1. stop[t] = "group" /\ Alive(t) /\ t \in AliveThreads /\ t \in traced
    <3>1. Stopped(t)'
      BY DEF Stopped
    <3>2. stop[t] = "group" /\ Exists(t)
      BY <1>0, <1>1, <3>1 DEF Steady, Moved, KernelOK, Exists
    <3>3. Alive(t)
      BY <1>0, <3>2 DEF Steady, Moved, AliveThreads
    <3> QED BY <1>0, <1>1, <3>2, <3>3 DEF AliveThreads, KernelOK
  <2>2. jobStop \/ t \in notify
    BY <2>1 DEF Grouped
  <2>3. CASE UNCHANGED <<listening, notify>> /\ (jobStop' <=> jobStop)
    BY <2>2, <2>3
  <2>4. CASE \E u \in traced : Trap(u)
    <3>1. PICK u \in traced : Trap(u)
      BY <2>4
    <3>2. u # t /\ notify' = notify \ {u} /\ jobStop' = jobStop
      BY <1>1, <3>1 DEF Trap
    <3>3. t \in notify => t \in notify'
      BY <3>2
    <3>4. jobStop => jobStop'
      BY <3>2, Zenon
    <3> QED BY <2>2, <3>3, <3>4
  <2>5. CASE notify' = notify \cup {u \in traced : Alive(u)}
    BY <2>1, <2>5
  <2>6. CASE jobStop'
    BY <2>6
  <2> QED BY <2>3, <2>4, <2>5, <2>6 DEF JobMove
<1>2. CASE ~Stopped(t)
  <2>1. stop'[t] # stop[t]
    BY <1>2 DEF Stopped
  <2>2. ASSUME NEW u \in Threads, Trap(u) PROVE jobStop'
    <3>1. stop' = [stop EXCEPT ![u] = IF jobStop THEN "group" ELSE "intr"] /\ jobStop' = jobStop
      BY <2>2 DEF Trap, EnterStop
    <3>2. u = t
      BY <1>0, <2>1, <3>1 DEF KernelOK
    <3>3. jobStop
      BY <1>0, <3>1, <3>2 DEF KernelOK
    <3> QED BY <3>1, <3>3, Zenon
  <2>3. \A u \in Threads : \A s \in Signals : ~Dequeue(u, s)
    <3>1. ASSUME NEW u \in Threads, NEW s \in Signals, Dequeue(u, s) PROVE FALSE
      <4>1. stop' = [stop EXCEPT ![u] = s] \/ stop' = NotIn(Threads) \/ stop' = stop
        BY <3>1 DEF Dequeue, EnterStop
      <4>2. s # "group"
        BY SignalFacts
      <4> QED BY <1>0, <2>1, <4>1, <4>2 DEF KernelOK, NotIn
    <3> QED BY <3>1
  <2>4. \A u \in Threads : ~Clone(u) /\ ~Exit(u) /\ ~Exec(u) /\ ~Die(u) /\ ~ExecDone(u)
    <3>1. \A u \in Threads : ~Exit(u) /\ ~Die(u) /\ ~ExecDone(u)
      BY <1>0, <2>1 DEF Exit, Die, ExecDone, EnterStop, KernelOK
    <3>2. \A u \in Threads : ~Clone(u)
      BY <1>0, <2>1 DEF Clone, KernelOK
    <3>3. \A u \in Threads : ~Exec(u)
      BY <1>0, <2>1 DEF Exec, KernelOK, NotIn
    <3> QED BY <3>1, <3>2, <3>3
  <2>5. /\ \A s \in Sent : ~Send(s)
        /\ \A u \in Threads : ~Release(u) /\ ~Sleep(u) /\ ~Wake(u)
        /\ ~Kill
    BY <1>0, <2>1 DEF Send, Release, Sleep, Wake, Kill, NotIn, KernelOK
  <2> QED BY <2>2, <2>3, <2>4, <2>5 DEF Target, React
<1> QED BY <1>1, <1>2

LEMMA BehindTarget ==
  ASSUME KernelOK, Quiet, Steady, Target, \A t \in Threads : ~Exec(t) /\ ~ExecDone(t), AliveThreads' # {}, JobMove,
         Behind, Listeners, UNCHANGED arthur
  PROVE  Behind'
<1>1. groupStop' = groupStop /\ listening' \subseteq listening /\ KernelOK
  BY ListenersTarget DEF arthur, loop
<1> SUFFICES ASSUME jobStop', ~groupStop', listening' # {}
             PROVE  \E t \in AliveThreads' : task'[t] = "run" /\ t \notin listening' /\ stop'[t] # "exit"
    BY DEF Behind
<1>2. CASE jobStop
  <2>1. ~groupStop
    BY <1>1, Zenon
  <2>2. PICK t \in AliveThreads : task[t] = "run" /\ t \notin listening /\ stop[t] # "exit"
    BY <1>1, <1>2, <2>1 DEF Behind
  <2>3. task'[t] = "run" /\ (stop'[t] = stop[t] \/ Trap(t))
    BY <1>2, <2>2, ListenersStand
  <2>4. Trap(t) => stop'[t] # "exit"
    BY <2>2, LeaderIsThread DEF Trap, EnterStop, KernelOK, AliveThreads
  <2>5. t \in AliveThreads'
    BY <2>2, <2>3 DEF AliveThreads, Alive
  <2> QED BY <1>1, <2>2, <2>3, <2>4, <2>5
<1>3. CASE ~jobStop
  <2>1. ASSUME NEW u \in traced, Trap(u) PROVE FALSE
    <3>1. jobStop' = jobStop
      BY <2>1, Zenon DEF Trap
    <3> QED BY <1>3, <3>1, Zenon
  <2>2. UNCHANGED <<task, traced, stop, fresh, listening, notify, child>> /\ \E t \in Threads : Runs(t)
    BY <1>3, <2>1, Zenon DEF JobMove
  <2>3. PICK t \in Threads : Runs(t)
    BY <2>2
  <2> QED BY <2>2, <2>3 DEF Runs, AliveThreads, Alive, Stopped
<1> QED BY <1>2, <1>3

\* What tells keeps telling, or tells by another stop.
LEMMA EndsTarget ==
  ASSUME KernelOK, Quiet, Steady, Target, \A t \in Threads : ~Exec(t) /\ ~ExecDone(t), AliveThreads' # {}, JobMove,
         Ends, Listeners, Births, Ranked, UNCHANGED arthur
  PROVE  Ends'
<1>0. UNCHANGED <<pc, tid>> /\ groupStop' = groupStop
  BY DEF arthur, loop, ctl
<1> SUFFICES ASSUME groupStop' PROVE \E t \in AliveThreads' \cap traced' : Tells(t)'
    BY DEF Ends
<1>1. PICK t \in AliveThreads \cap traced : Tells(t)
  <2>1. groupStop
    BY <1>0, Zenon
  <2> QED BY <2>1 DEF Ends
<1>2. t \in Threads /\ t \in Tids /\ Exists(t)
  BY LeaderIsThread DEF AliveThreads, Alive, Exists
<1>3. t \in AliveThreads' \cap traced'
  <2>1. task[t] \in {"run", "sleep"} /\ task'[t] \in Tasks
    <3>1. task'[t] \in Tasks
      BY <1>2, KernelTarget DEF KernelOK
    <3> QED BY <1>1, <1>2, <3>1 DEF AliveThreads, Alive, Quiet
  <2>2. t \in traced /\ task'[t] \notin {"none", "zombie", "gone", "dying"}
    BY <1>1, <1>2, <2>1 DEF Steady, Moved, Exists
  <2> QED BY <1>2, <2>1, <2>2 DEF AliveThreads, Alive, Tasks, Steady, Moved
<1>4. ASSUME NEW p \in Tids, Unread(p)', child'[p] = t PROVE Unread(p) /\ child[p] = t
  <2>1. stop'[p] = "clone" /\ Stopped(p)'
    BY <1>4 DEF Unread, Stopped
  <2>2. stop[p] = "clone"
    BY <1>2, <1>4, <2>1 DEF Steady, Moved
  <2>3. Stopped(p)
    BY <2>2 DEF Stopped
  <2>4. child'[p] = child[p] /\ (p \in fresh <=> p \in fresh')
    BY <2>1, <2>3 DEF Steady, Moved
  <2>5. Unread(p)
    BY <1>0, <1>4, <2>2, <2>4 DEF Unread
  <2> QED BY <1>4, <2>4, <2>5
<1>5. CASE Stopped(t)
  <2>1. stop'[t] = stop[t] /\ (t \in fresh <=> t \in fresh')
    BY <1>2, <1>5, StoppedStay
  <2>2. Untold(t)' <=> Untold(t)
    BY <1>0, <2>1 DEF Untold
  <2>3. t \notin listening
    BY <1>5 DEF Listeners
  <2>4. CASE stop[t] = "intr"
    <3>1. Untold(t) /\ \A p \in Tids : ~(Unread(p) /\ child[p] = t)
      BY <1>1, <2>3, <2>4 DEF Tells
    <3>2. \A p \in Tids : ~(Unread(p)' /\ child'[p] = t)
      BY <1>4, <3>1
    <3> QED BY <1>3, <2>1, <2>2, <2>4, <3>1, <3>2 DEF Tells
  <2>5. CASE stop[t] # "intr"
    <3>1. Untold(t) /\ stop[t] = "group"
      BY <1>1, <2>3, <2>5 DEF Tells
    <3>2. jobStop' \/ t \in notify'
      <4>1. jobStop \/ t \in notify
        BY <1>1, <2>3, <2>5 DEF Tells
      <4>2. CASE UNCHANGED <<listening, notify>> /\ (jobStop' <=> jobStop)
        BY <4>1, <4>2
      <4>3. CASE \E u \in traced : Trap(u)
        <5>1. PICK u \in traced : Trap(u)
          BY <4>3
        <5>2. u # t /\ notify' = notify \ {u} /\ jobStop' = jobStop
          BY <1>5, <5>1 DEF Trap
        <5>3. t \in notify => t \in notify'
          BY <5>2
        <5>4. jobStop => jobStop'
          BY <5>2, Zenon
        <5> QED BY <4>1, <5>3, <5>4
      <4>4. CASE notify' = notify \cup {u \in traced : Alive(u)}
        BY <1>1, <4>4 DEF AliveThreads
      <4>5. CASE jobStop'
        BY <4>5
      <4> QED BY <4>2, <4>3, <4>4, <4>5 DEF JobMove
    <3> QED BY <1>3, <2>1, <2>2, <3>1, <3>2 DEF Tells
  <2> QED BY <2>4, <2>5
<1>6. CASE ~Stopped(t)
  <2>1. t \in listening /\ (jobStop \/ t \in notify)
    BY <1>1, <1>6 DEF Tells, Stopped
  <2>2. CASE Trap(t)
    <3>1. /\ stop' = [stop EXCEPT ![t] = IF jobStop THEN "group" ELSE "intr"] /\ fresh' = fresh \cup {t}
          /\ jobStop' = jobStop
      BY <2>2 DEF Trap, EnterStop
    <3>2. Untold(t)' /\ stop'[t] = (IF jobStop THEN "group" ELSE "intr")
      BY <1>2, <3>1 DEF Untold, KernelOK
    <3>3. CASE jobStop
      <4>1. jobStop'
        BY <3>1, <3>3, Zenon
      <4> QED BY <1>3, <3>2, <3>3, <4>1 DEF Tells
    <3>4. CASE ~jobStop
      <4>1. \A p \in Tids : ~(Unread(p) /\ child[p] = t)
        BY <1>2, <1>6 DEF Births, Stopped
      <4>2. \A p \in Tids : ~(Unread(p)' /\ child'[p] = t)
        BY <1>4, <4>1
      <4> QED BY <1>3, <3>2, <3>4, <4>2 DEF Tells
    <3> QED BY <3>3, <3>4
  <2>3. CASE ~Trap(t)
    <3>1. t \in listening' /\ (jobStop' \/ t \in notify')
      <4>1. CASE UNCHANGED <<listening, notify>> /\ (jobStop' <=> jobStop)
        BY <2>1, <4>1
      <4>2. CASE \E u \in traced : Trap(u)
        <5>1. PICK u \in traced : Trap(u)
          BY <4>2
        <5>2. u # t /\ notify' = notify \ {u} /\ listening' = listening \ {u} /\ jobStop' = jobStop
          BY <2>3, <5>1 DEF Trap
        <5>3. t \in listening' /\ (t \in notify => t \in notify')
          BY <2>1, <5>2
        <5>4. jobStop => jobStop'
          BY <5>2, Zenon
        <5> QED BY <2>1, <5>3, <5>4
      <4>3. CASE notify' = notify \cup {u \in traced : Alive(u)} /\ UNCHANGED listening
        BY <1>1, <2>1, <4>3 DEF AliveThreads
      <4>4. CASE jobStop' /\ UNCHANGED listening
        BY <2>1, <4>4
      <4> QED BY <4>1, <4>2, <4>3, <4>4 DEF JobMove
    <3> QED BY <1>3, <3>1 DEF Tells
  <2> QED BY <2>2, <2>3
<1> QED BY <1>5, <1>6

LEMMA JobTarget ==
  ASSUME Told, Job, Watched, NoExecYet'
  PROVE  Job'
<1>1. KernelOK /\ Ranked /\ Quiet /\ Target /\ UNCHANGED arthur
  BY DEF Told, TypeInv, WatchedTrue, WatchInv, Watched
<1>2. Steady /\ Moved /\ \A t \in Threads : ~Exec(t) /\ ~ExecDone(t)
  BY <1>1, NoExecMoves DEF Told
<1> SUFFICES ASSUME Vigil', AliveThreads' # {} PROVE (Listeners /\ Grouped /\ Behind /\ Ends)'
    BY DEF Job
<1>3. Vigil /\ AliveThreads # {}
  BY <1>1, <1>2 DEF arthur, ctl, crash, Vigil, Moved
<1>4. Listeners /\ Grouped /\ Behind /\ Ends /\ Births
  BY <1>3 DEF Job, Told, VigilInv, Watch
<1>5. JobMove
  BY <1>1, <1>2, JobMoves
<1> QED BY <1>1, <1>2, <1>4, <1>5, ListenersTarget, GroupedTarget, BehindTarget, EndsTarget

-----------------------------------------------------------------------------
(* What Arthur does about it                                               *)

\* Calls that have nothing to do with it.
JobIdle ==
  /\ UNCHANGED <<stop, listening, notify, child>> /\ (jobStop' <=> jobStop) /\ (groupStop' <=> groupStop)
  /\ \A t \in Tids : /\ Untold(t)' <=> Untold(t)
                     /\ Unread(t)' <=> Unread(t)
  /\ \A t \in AliveThreads : task'[t] = task[t] /\ (t \in traced => t \in traced')

LEMMA JobIdles ==
  ASSUME Listeners, Grouped, Behind, Ends, JobIdle, AliveThreads' \subseteq AliveThreads
  PROVE  (Listeners /\ Grouped /\ Behind /\ Ends)'
<1>1. AliveThreads' = AliveThreads
  BY DEF JobIdle, AliveThreads, Alive
<1>2. Listeners'
  BY <1>1 DEF Listeners, JobIdle, Stopped, AliveThreads
<1>3. Grouped'
  BY <1>1 DEF Grouped, JobIdle
<1>4. Behind'
  BY <1>1 DEF Behind, JobIdle
<1>5. \A t \in Tids : Tells(t) => Tells(t)'
  BY DEF Tells, JobIdle
<1>6. Ends'
  BY <1>1, <1>5, LeaderIsThread DEF Ends, JobIdle, AliveThreads
<1> QED BY <1>2, <1>3, <1>4, <1>6

LEMMA JobIdleCalls ==
  ASSUME TypeInv, NoSnapshots, Vigil, Vigil',
         SeizeList \/ SeizeEach \/ SeizeEnd \/ DrainStart \/ PassEnd \/ Dispatch \/ AwaitSignal \/ Request
  PROVE  JobIdle
<1>1. UNCHANGED <<task, stop, fresh, listening, notify, child>> /\ traced \subseteq traced'
  <2>1. CASE SeizeList \/ SeizeEnd \/ DrainStart \/ PassEnd
    BY <2>1 DEF SeizeList, SeizeEnd, DrainStart, PassEnd, kernel
  <2>2. CASE SeizeEach
    BY <2>2 DEF SeizeEach, SeizeAll, kernel
  <2>3. CASE Dispatch \/ AwaitSignal \/ Request
    BY <2>3 DEF Dispatch, AwaitSignal, Request, TakeChld, kernel
  <2> QED BY <2>1, <2>2, <2>3
<1>2. jobStop' = jobStop
  <2>1. CASE SeizeList \/ SeizeEnd \/ DrainStart \/ PassEnd
    BY <2>1, Zenon DEF SeizeList, SeizeEnd, DrainStart, PassEnd, kernel
  <2>2. CASE SeizeEach
    BY <2>2 DEF SeizeEach, SeizeAll, kernel
  <2>3. CASE Dispatch \/ AwaitSignal \/ Request
    BY <2>3 DEF Dispatch, AwaitSignal, Request, TakeChld, kernel
  <2> QED BY <2>1, <2>2, <2>3
<1>3. groupStop' = groupStop
  BY Zenon DEF SeizeList, SeizeEach, SeizeEnd, DrainStart, PassEnd, Dispatch, AwaitSignal, Request, loop
<1>4. pc # "handle" /\ pc' # "handle"
  BY DEF SeizeList, SeizeEach, SeizeEnd, Rollback, DrainStart, PassEnd, Dispatch, AwaitSignal, Request, ctl, Goto, Quit
<1>5. \A t \in Tids : (Untold(t)' <=> Untold(t)) /\ (Unread(t)' <=> Unread(t))
  BY <1>1, <1>4 DEF Untold, Unread
<1>6. (jobStop' <=> jobStop) /\ (groupStop' <=> groupStop)
  BY <1>2, <1>3, Zenon
<1> QED BY <1>1, <1>5, <1>6 DEF JobIdle

LEMMA JobPoll ==
  ASSUME TypeInv, Poll
  PROVE  JobIdle
<1>1. /\ pc = "poll" /\ tid' \in Tids /\ UNCHANGED <<stop, child>>
      /\ \/ fresh' = fresh \ {tid'} /\ pc' = "handle" /\ tid' \in fresh
         \/ fresh' = fresh /\ pc' # "handle"
  BY PollStops
<1>2. WaitStop(tid') \/ WaitExit(tid') \/ UNCHANGED kernel
  BY DEF Poll
<1>3. UNCHANGED <<listening, notify>>
  BY <1>2 DEF WaitStop, WaitExit, kernel
<1>4. jobStop' = jobStop
  BY <1>2 DEF WaitStop, WaitExit, kernel
<1>5. groupStop' = groupStop
  BY Zenon DEF Poll
<1>6. \A t \in Tids : (Untold(t)' <=> Untold(t)) /\ (Unread(t)' <=> Unread(t))
  BY <1>1 DEF Untold, Unread
<1>7. \A t \in AliveThreads : task'[t] = task[t] /\ (t \in traced => t \in traced')
  BY <1>2, LeaderIsThread DEF WaitStop, WaitExit, Reapable, kernel, AliveThreads, Alive, TypeInv, KernelOK
<1>8. (jobStop' <=> jobStop) /\ (groupStop' <=> groupStop)
  BY <1>4, <1>5, Zenon
<1> QED BY <1>1, <1>3, <1>6, <1>7, <1>8 DEF JobIdle

LEMMA JobClone ==
  ASSUME TypeInv, WatchInv, Births, Listeners, Grouped, Behind, Ends, HandleClone, exitSig = "none"
  PROVE  (Listeners /\ Grouped /\ Behind /\ Ends)'
<1>1. pc = "handle" /\ StillThere /\ status = "clone" /\ pc' = "poll" /\ groupStop' = groupStop
  BY DEF HandleClone, Handling, Handled, Goto
<1>2. tid \in Tids /\ stop[tid] = "clone" /\ KernelOK
  BY <1>1, Answering DEF TypeInv
<1>3. PICK c \in Tids : c = child[tid]
  BY <1>2 DEF KernelOK
<1>4. PICK go : /\ go \subseteq {tid, c} /\ stop' = NotIn(go) /\ fresh' = fresh \ {tid, c}
                /\ traced' = (IF c \in Procs THEN traced \ {c} ELSE traced)
  BY <1>3 DEF HandleClone, AfterClone
<1>5. UNCHANGED <<task, listening, notify, child>> /\ AliveThreads' = AliveThreads
  BY DEF HandleClone, AfterClone, AliveThreads, Alive
<1>6. jobStop' = jobStop
  BY Zenon DEF HandleClone, AfterClone
<1>7. \A t \in AliveThreads : t \in traced => t \in traced'
  BY <1>4, ProcsAreTasks DEF AliveThreads
<1>8. \A t \in Tids : stop'[t] \in {stop[t], "none"}
  BY <1>4 DEF NotIn
<1>9. Listeners'
  BY <1>5, <1>7, <1>8 DEF Listeners, Stopped, TypeInv, KernelOK
<1>10. Grouped'
  <2>1. jobStop' <=> jobStop
    BY <1>6, Zenon
  <2> QED BY <2>1, <1>5, <1>8, LeaderIsThread DEF Grouped, AliveThreads
<1>11. Behind'
  <2>1. (jobStop' <=> jobStop) /\ (groupStop' <=> groupStop)
    BY <1>1, <1>6, Zenon
  <2> QED BY <2>1, <1>5, <1>8, LeaderIsThread DEF Behind, AliveThreads
<1>12. ASSUME NEW t \in AliveThreads, Tells(t) PROVE Tells(t)'
  <2>1. t # tid
    BY <1>2, <1>12 DEF Tells, Listeners, Stopped
  <2>2. t # c
    <3>1. Unread(tid)
      BY <1>1, <1>2 DEF Unread
    <3>2. t = c => stop[t] = "intr"
      BY <1>2, <1>3, <3>1 DEF Births, AliveThreads
    <3> QED BY <1>2, <1>3, <1>12, <3>1, <3>2 DEF Tells, Listeners, Stopped
  <2>3. stop'[t] = stop[t] /\ (Untold(t)' <=> Untold(t))
    BY <1>1, <1>4, <2>1, <2>2, LeaderIsThread DEF NotIn, AliveThreads, Untold
  <2>4. \A p \in Tids : Unread(p)' => Unread(p)
    BY <1>1, <1>4, <1>8 DEF Unread
  <2>5. jobStop' <=> jobStop
    BY <1>6, Zenon
  <2> QED BY <1>5, <1>12, <2>3, <2>4, <2>5 DEF Tells
<1>13. Ends'
  <2>1. groupStop' <=> groupStop
    BY <1>1, Zenon
  <2> QED BY <2>1, <1>5, <1>7, <1>12 DEF Ends
<1> QED BY <1>9, <1>10, <1>11, <1>13

LEMMA JobGroupStop ==
  ASSUME TypeInv, WatchInv, Listeners, Grouped, HandleGroupStop
  PROVE  (Listeners /\ Grouped /\ Behind /\ Ends)'
<1>1. pc = "handle" /\ StillThere /\ status = "group" /\ pc' = "poll" /\ groupStop' = TRUE
  BY DEF HandleGroupStop, Handling, Handled, Goto
<1>2. tid \in Tids /\ stop[tid] = "group" /\ tid \in AliveThreads /\ KernelOK
  BY <1>1, Answering DEF TypeInv
<1>3. /\ stop' = [stop EXCEPT ![tid] = "none"] /\ listening' = listening \cup {tid}
      /\ UNCHANGED <<task, traced, notify>> /\ AliveThreads' = AliveThreads
  BY DEF HandleGroupStop, Listen, AliveThreads, Alive
<1>4. jobStop' <=> jobStop
  BY Zenon DEF HandleGroupStop, Listen
<1>5. tid \in traced /\ task[tid] = "run"
  BY <1>2 DEF KernelOK, Stopped, AliveThreads, Alive
<1>6. Listeners'
  BY <1>2, <1>3, <1>5, LeaderIsThread DEF Listeners, Stopped, AliveThreads, KernelOK
<1>7. Grouped'
  BY <1>2, <1>3, <1>4, LeaderIsThread DEF Grouped, KernelOK, AliveThreads
<1>8. Behind'
  BY <1>1 DEF Behind
<1>9. Tells(tid)'
  <2>1. jobStop \/ tid \in notify
    BY <1>2 DEF Grouped
  <2>2. tid' = tid
    BY DEF HandleGroupStop, Handled
  <2>3. tid \in listening' /\ (jobStop' \/ tid \in notify')
    BY <1>3, <1>4, <2>1
  <2> QED BY <2>2, <2>3 DEF Tells
<1>10. tid' = tid
  BY DEF HandleGroupStop, Handled
<1>11. Ends'
  BY <1>2, <1>3, <1>5, <1>9, <1>10 DEF Ends
<1> QED BY <1>6, <1>7, <1>8, <1>11

\* The thread that is handled goes on, if it stood at no group-stop.
LEMMA JobResumes ==
  ASSUME TypeInv, WatchInv, pc = "handle", StillThere, NEW sig, sig \notin Fatal, stop[tid] # "group",
         Continue(Just(tid, sig), FALSE)
  PROVE  /\ UNCHANGED <<traced, listening, notify, child>>
         /\ (jobStop => jobStop') /\ (jobStop' => jobStop \/ sig = "STOP")
         /\ stop'[tid] = "none" /\ (stop[tid] # "exit" => task'[tid] = task[tid])
         /\ \A u \in Tids \ {tid} : task'[u] = task[u] /\ stop'[u] = stop[u] /\ (u \in fresh' <=> u \in fresh)
<1>1. tid \in Tids /\ Alive(tid) /\ Answers(tid)
  BY Answering DEF Answers, Renamed
<1>2. Resumed
  BY ContinueResumes
<1>3. PICK ts : ts = {t \in {tid} : Answers(t)} /\ ContinueThose(ts, Just(tid, sig), FALSE)
  BY DEF Continue, Just
<1>4. ts = {tid}
  BY <1>1, <1>3
<1>5. {Just(tid, sig)[t] : t \in {u \in ts : stop[u] \in Signals}} \subseteq {sig}
  BY <1>4 DEF Just
<1>6. UNCHANGED <<listening, notify>>
  BY <1>3 DEF ContinueThose
<1>7. PICK given : given \subseteq {sig} /\ jobStop' = ("STOP" \in given \/ (jobStop /\ (FALSE \/ \A t \in ts : stop[t] # "group")))
  <2> DEFINE given == {Just(tid, sig)[t] : t \in {u \in ts : stop[u] \in Signals}} \ {"none"}
  <2>1. jobStop' = ("STOP" \in given \/ (jobStop /\ (FALSE \/ \A t \in ts : stop[t] # "group")))
    BY <1>3, Zenon DEF ContinueThose
  <2> QED BY <1>5, <2>1
<1>8. \A t \in ts : stop[t] # "group"
  BY <1>4
<1>9. (jobStop => jobStop') /\ (jobStop' => jobStop \/ "STOP" \in given)
  BY <1>7, <1>8, Zenon
<1>10. "STOP" \in given => sig = "STOP"
  BY <1>7
<1> QED BY <1>1, <1>2, <1>6, <1>9, <1>10 DEF Resumed

\* An event that is no clone and no group-stop: the thread that goes on is the one that
\* has yet to stop, if there is a group-stop that Arthur does not know of.
LEMMA JobHandled ==
  ASSUME TypeInv, WatchInv, Listeners, Grouped, Behind, Ends, exitSig = "none",
         HandleExit \/ HandleInterrupt \/ HandleSignal
  PROVE  (Listeners /\ Grouped /\ Behind /\ Ends)'
<1>1. pc = "handle" /\ StillThere /\ pc' = "poll" /\ tid' = tid
  BY DEF HandleExit, HandleInterrupt, HandleSignal, Handling, Handled, Goto
<1>2. /\ tid \in Tids /\ stop[tid] = status /\ Stopped(tid) /\ tid \in AliveThreads /\ tid \notin fresh
      /\ status \notin {"group", "clone"} /\ KernelOK
  <2>1. status \notin {"group", "clone"}
    BY SignalFacts DEF HandleExit, HandleInterrupt, HandleSignal, Handling
  <2> QED BY <1>1, <2>1, Answering DEF TypeInv
<1>3. tid \notin listening /\ tid \in traced /\ task[tid] = "run"
  BY <1>2 DEF Listeners, KernelOK, AliveThreads, Alive
<1>4. PICK sig : /\ sig \notin Fatal /\ Continue(Just(tid, sig), FALSE) /\ (sig # "none" => sig = status /\ status \in Signals)
  <2>1. CASE HandleExit \/ HandleInterrupt
    <3>1. Continue(Just(tid, "none"), FALSE)
      BY <2>1 DEF HandleExit, HandleInterrupt, Resume
    <3> QED BY <3>1, SignalFacts
  <2>2. CASE HandleSignal
    <3>1. Continue(Just(tid, status), FALSE) /\ status \in Signals \ Fatal
      BY <2>2 DEF HandleSignal, Handling, Resume
    <3> QED BY <3>1
  <2> QED BY <2>1, <2>2
<1>5. /\ UNCHANGED <<traced, listening, notify, child>>
      /\ (jobStop => jobStop') /\ (jobStop' => jobStop \/ sig = "STOP")
      /\ stop'[tid] = "none" /\ (stop[tid] # "exit" => task'[tid] = task[tid])
      /\ \A u \in Tids \ {tid} : task'[u] = task[u] /\ stop'[u] = stop[u] /\ (u \in fresh' <=> u \in fresh)
  BY <1>1, <1>2, <1>4, JobResumes
<1>6. /\ groupStop' => groupStop
      /\ groupStop /\ ~groupStop' => status # "exit"
      /\ sig = "STOP" => status # "exit"
  <2>1. CASE HandleExit
    <3>1. groupStop' = groupStop
      BY <2>1, Zenon DEF HandleExit
    <3>2. status = "exit"
      BY <2>1 DEF HandleExit, Handling
    <3>3. sig = "none"
      BY <1>4, <3>2, SignalFacts
    <3> QED BY <3>1, <3>3, Zenon
  <2>2. CASE HandleInterrupt
    <3>1. groupStop' = (groupStop /\ exitSig # "none")
      BY <2>2, Zenon DEF HandleInterrupt
    <3>2. status = "intr"
      BY <2>2 DEF HandleInterrupt, Handling
    <3>3. status # "exit"
      BY <3>2
    <3> QED BY <3>1, <3>3, Zenon
  <2>3. CASE HandleSignal
    <3>1. groupStop' = (groupStop /\ ~(status = "CONT" /\ exitSig = "none"))
      BY <2>3, Zenon DEF HandleSignal
    <3>2. status # "exit"
      BY <2>3, SignalFacts DEF HandleSignal, Handling
    <3> QED BY <3>1, <3>2, Zenon
  <2> QED BY <2>1, <2>2, <2>3
<1>7. \A t \in AliveThreads' : t \in AliveThreads
  BY <1>2, <1>5, LeaderIsThread DEF AliveThreads, Alive
<1>8. Listeners'
  <2>1. ASSUME NEW t \in listening' PROVE t \in AliveThreads' \cap traced' /\ task'[t] = "run" /\ ~Stopped(t)'
    <3>1. t \in AliveThreads \cap traced /\ task[t] = "run" /\ ~Stopped(t) /\ t # tid
      BY <1>3, <1>5, <2>1 DEF Listeners
    <3>2. task'[t] = task[t] /\ stop'[t] = stop[t]
      BY <1>5, <3>1, LeaderIsThread DEF AliveThreads
    <3> QED BY <1>5, <3>1, <3>2 DEF AliveThreads, Alive, Stopped
  <2> QED BY <2>1 DEF Listeners
<1>9. Grouped'
  <2>1. ASSUME NEW t \in AliveThreads', stop'[t] = "group" PROVE jobStop' \/ t \in notify'
    <3>1. t # tid /\ t \in AliveThreads /\ t \in Tids
      BY <1>5, <1>7, <2>1, LeaderIsThread DEF AliveThreads
    <3>2. jobStop \/ t \in notify
      BY <1>5, <2>1, <3>1 DEF Grouped
    <3> QED BY <1>5, <3>2
  <2> QED BY <2>1 DEF Grouped
<1>10. Behind'
  <2> SUFFICES ASSUME jobStop', ~groupStop', listening' # {}
               PROVE  \E t \in AliveThreads' : task'[t] = "run" /\ t \notin listening' /\ stop'[t] # "exit"
      BY DEF Behind
  <2>1. CASE status # "exit"
    <3>1. tid \in AliveThreads' /\ task'[tid] = "run" /\ tid \notin listening' /\ stop'[tid] # "exit"
      BY <1>2, <1>3, <1>5, <2>1 DEF AliveThreads, Alive
    <3> QED BY <3>1
  <2>2. CASE status = "exit"
    <3>1. jobStop /\ ~groupStop /\ listening # {}
      BY <1>5, <1>6, <2>2
    <3>2. PICK t \in AliveThreads : task[t] = "run" /\ t \notin listening /\ stop[t] # "exit"
      BY <3>1 DEF Behind
    <3>3. t # tid /\ t \in Tids
      BY <1>2, <2>2, <3>2, LeaderIsThread DEF AliveThreads
    <3> QED BY <1>5, <3>2, <3>3 DEF AliveThreads, Alive
  <2> QED BY <2>1, <2>2
<1>11. Ends'
  <2> SUFFICES ASSUME groupStop' PROVE \E t \in AliveThreads' \cap traced' : Tells(t)'
      BY DEF Ends
  <2>1. groupStop /\ status # "intr"
    <3>1. CASE HandleInterrupt
      <4>1. ~groupStop'
        BY <3>1, Zenon DEF HandleInterrupt
      <4> QED BY <4>1
    <3>2. CASE HandleExit \/ HandleSignal
      BY <1>6, <3>2, SignalFacts DEF HandleExit, HandleSignal, Handling
    <3> QED BY <3>1, <3>2
  <2>2. PICK t \in AliveThreads \cap traced : Tells(t)
    BY <2>1 DEF Ends
  <2>3. t # tid /\ t \in Tids
    BY <1>2, <1>3, <2>1, <2>2, LeaderIsThread DEF Tells, AliveThreads
  <2>4. task'[t] = task[t] /\ stop'[t] = stop[t] /\ (Untold(t)' <=> Untold(t))
    BY <1>1, <1>5, <2>3 DEF Untold
  <2>5. \A p \in Tids : Unread(p)' => Unread(p)
    BY <1>1, <1>5 DEF Unread
  <2>6. Tells(t)'
    BY <1>5, <2>2, <2>4, <2>5 DEF Tells
  <2>7. t \in AliveThreads' \cap traced'
    BY <1>5, <2>2, <2>4 DEF AliveThreads, Alive
  <2> QED BY <2>6, <2>7
<1> QED BY <1>8, <1>9, <1>10, <1>11

LEMMA JobArthur ==
  ASSUME Told, Job, Arthur \/ Request
  PROVE  Job'
<1>1. TypeInv /\ KernelOK /\ NoSnapshots /\ Falls /\ WatchInv
  BY ArthurFalls DEF Told, TypeInv, WatchedTrue
<1> SUFFICES ASSUME Vigil', AliveThreads' # {} PROVE (Listeners /\ Grouped /\ Behind /\ Ends)'
    BY DEF Job
<1>2. AliveThreads' \subseteq AliveThreads
  BY <1>1, LeaderIsThread DEF Falls, AliveThreads, Alive
<1>3. Vigil /\ exitSig = "none"
  BY <1>1, WithinVigil DEF Next, Vigil
<1>4. Listeners /\ Grouped /\ Behind /\ Ends /\ Births
  BY <1>2, <1>3 DEF Job, Told, VigilInv, Watch
<1>5. ~HandleExec
  BY <1>1, Answering DEF HandleExec, Handling
<1>6. CASE SeizeList \/ SeizeEach \/ SeizeEnd \/ DrainStart \/ PassEnd \/ Dispatch \/ AwaitSignal \/ Request
  <2>1. JobIdle
    BY <1>1, <1>3, <1>6, JobIdleCalls
  <2> QED BY <1>2, <1>4, <2>1, JobIdles
<1>7. CASE Poll
  <2>1. JobIdle
    BY <1>1, <1>7, JobPoll
  <2> QED BY <1>2, <1>4, <2>1, JobIdles
<1>8. CASE HandleClone
  BY <1>1, <1>3, <1>4, <1>8, JobClone
<1>9. CASE HandleGroupStop
  BY <1>1, <1>4, <1>9, JobGroupStop
<1>10. CASE HandleExit \/ HandleInterrupt \/ HandleSignal
  BY <1>1, <1>3, <1>4, <1>10, JobHandled
<1> QED BY <1>1, <1>5, <1>6, <1>7, <1>8, <1>9, <1>10, WithinVigil DEF Next

LEMMA JobStep ==
  ASSUME Told, Job, [Next]_vars, NoExecYet'
  PROVE  Job'
<1>1. CASE UNCHANGED vars
  <2>1. /\ UNCHANGED <<task, traced, stop, fresh, child, listening, notify, pc, tid, exitSig>>
        /\ UNCHANGED <<jobStop, groupStop>>
    BY <1>1 DEF vars, kernel, arthur, ctl, crash, loop
  <2>2. (jobStop' <=> jobStop) /\ (groupStop' <=> groupStop)
    BY <2>1, Zenon
  <2>3. (Vigil' <=> Vigil) /\ AliveThreads' = AliveThreads
    BY <2>1 DEF Vigil, AliveThreads, Alive
  <2>4. JobIdle
    BY <2>1, <2>2 DEF JobIdle, Untold, Unread
  <2> QED BY <2>3, <2>4, JobIdles DEF Job
<1>2. CASE Arthur \/ Request
  BY <1>2, JobArthur
<1>3. CASE Watched
  BY <1>3, JobTarget
<1> QED BY <1>1, <1>2, <1>3 DEF Next

LEMMA JobInit == Init => Job
<1> SUFFICES ASSUME Init PROVE Job
    OBVIOUS
<1>1. stop = [t \in Tids |-> "none"] /\ listening = {} /\ groupStop = FALSE
  BY DEF Init, KernelInit
<1> QED BY <1>1, LeaderIsThread DEF Job, Listeners, Grouped, Behind, Ends, AliveThreads

JobInv == NoExecYet => Job

\* As long as no thread has called exec, and for a target Arthur takes no snapshot of:
\* when Arthur goes to sleep with nothing left to be read, process_in_group_stop is what
\* the process is, unless a thread has yet to stop for a group-stop or to be told that
\* it is over.
THEOREM JobControlIsKnown ==
  ASSUME MaxDumps = 0
  PROVE  Spec => [](NoExecYet => JobControlKnown)
<1>1. Init => JobInv
  BY JobInit DEF JobInv
<1>2. /\ TypeInv /\ WatchedInv /\ CrashWatched /\ WatchedTrue /\ VigilInv /\ JobInv /\ [Next]_vars
      => JobInv'
  <2> SUFFICES ASSUME TypeInv, WatchedInv, CrashWatched, WatchedTrue, VigilInv, JobInv, [Next]_vars, NoExecYet'
               PROVE  Job'
      BY DEF JobInv
  <2>1. NoExecYet
    BY NoExecBefore
  <2>2. Told /\ Job
    BY <2>1 DEF Told, WatchedInv, CrashWatched, JobInv
  <2> QED BY <2>2, JobStep
<1>3. TypeInv /\ WatchedTrue /\ JobInv => (NoExecYet => JobControlKnown)
  <2> SUFFICES ASSUME TypeInv, WatchedTrue, Job, pc = "wait", fresh = {}, notify = {}, AliveThreads # {},
                      jobStop => listening # {} /\ \A t \in AliveThreads : t \in listening \/ task[t] = "sleep"
               PROVE  groupStop = jobStop
      BY DEF JobControlKnown, JobInv
  <2>1. Vigil
    BY DEF Vigil, Watching, Polling, WatchedTrue, NoSnapshots
  <2>2. Behind /\ Ends
    BY <2>1 DEF Job
  <2>3. jobStop => groupStop
    BY <2>2 DEF Behind
  <2>4. groupStop => jobStop
    BY <2>2 DEF Ends, Tells, Untold
  <2>5. groupStop \in BOOLEAN /\ jobStop \in BOOLEAN
    BY Zenon DEF TypeInv, KernelOK, ControlOK
  <2>6. groupStop <=> jobStop
    BY <2>3, <2>4, Zenon
  <2> QED BY <2>5, <2>6, Zenon
<1>4. MaxDumps = 0
  OBVIOUS
<1> QED BY <1>1, <1>2, <1>3, <1>4, TypeInvariant, WatchInvariant, CrashInvariant, HandledIsTrue, VigilInit, VigilStep, PTL DEF Spec

-----------------------------------------------------------------------------
(* The signals that Arthur has read, snapshots included                    *)

\* What Arthur means to do about a thread that waitpid has told it of: the crash is known
\* or about to be, the stop is being handled, or it is the collection's.
Tended(t) ==
  \/ exitSig # "none"
  \/ forkRc \in Fatal /\ pc \in {"drain", "poll", "handle", "dispatch"}
  \/ pc = "handle" /\ tid = t
  \/ pc = "settle" /\ t = Leader
  \/ pc = "commit" /\ t = Leader /\ ~shot.failed /\ stop[t] \in Fatal /\ shot.result = stop[t]
  \/ pc \in Collecting \cup {"restore"} /\ (coll.relay[t] = stop[t] \/ (coll.fatal # "none" /\ stop[t] \in Fatal))
  \/ pc = "preserve" /\ t \in todo /\ coll.relay[t] = stop[t]
  \/ pc = "abandon"
SignalsTended == pc # "returned" =>
  \A t \in Tids : stop[t] \in Sent => t \in fresh \/ (t \in mtids /\ pc \notin Leaving /\ Tended(t))

\* What a collection means to relay is what its threads stand at.
Intended(t) == pc \in Collecting \cup {"restore"} \/ (pc = "preserve" /\ t \in todo)
RelaysStand ==
  /\ \A t \in Tids : Intended(t) /\ coll.relay[t] \in Sent => AliveThreads = {} \/ stop[t] = coll.relay[t]
  /\ pc \in {"meta", "loads", "inject", "resume"} => \A t \in Tids : coll.relay[t] = "none"
  /\ pc = "abandon" => coll.fatal # "none"
Unfailed == shot.failed => pc \in {"restore", "commit"} \cup Leaving
RelayInv == TrueFates /\ SignalsTended /\ RelaysStand /\ Unfailed

\* The signals of this step that Arthur has read are relayed, but for a fatal one that a
\* failed collection forgets.
ReadRelayed == \A s \in Sent : fate'[s] \in {"discarded", "twice"} =>
  \/ fate[s] = fate'[s] \/ AliveThreads' = {} \/ \E t \in fresh : stop[t] = s
  \/ s \in Fatal /\ pc = "restore" /\ coll.fatal # "none"

LEMMA RelayedIsRead == Relayed => ReadRelayed
  BY DEF Relayed, ReadRelayed

LEMMA SentFacts ==
  /\ \A s \in Sent : s \in Signals /\ s \notin {"none", "intr", "group", "clone", "exit", "exec", "CHLD"}
  /\ Fatal \subseteq Sent
  BY SignalFacts DEF Signals, Sent

\* Threads that stand still, or no longer do.
LEMMA FatesStill ==
  ASSUME TrueFates, \A s \in Sent : fate'[s] = fate[s], \A t \in Tids : stop'[t] \in {stop[t], "none"}
  PROVE  TrueFates' /\ ReadRelayed
  BY SentFacts DEF TrueFates, ReadRelayed

\* Threads that are resumed, each with its own signal or with none: those that get none
\* lose it.
LEMMA FatesGiven ==
  ASSUME TrueFates, NEW ts, ts \subseteq Tids, NEW f, NEW detach, ContinueThose(ts, f, detach),
         \A t \in ts : stop[t] \in Signals /\ f[t] \in Sent => f[t] = stop[t]
  PROVE  /\ TrueFates' /\ \A t \in Tids : stop'[t] = "none" \/ (stop'[t] = stop[t] /\ t \notin ts)
         /\ \A s \in Sent : fate'[s] \in {"discarded", "twice"} =>
              fate[s] = fate'[s] \/ \E t \in ts : stop[t] = s /\ f[t] # s
<1> DEFINE given == {f[t] : t \in {u \in ts : stop[u] \in Signals}} \ {"none"}
           lost == ({stop[t] : t \in ts} \cap Signals) \ given
           dies == given \cap Fatal # {}
<1>1. /\ fate' = [s \in Signals |->
                    IF s \in given THEN IF fate[s] = "delivered" /\ s # "CHLD" THEN "twice" ELSE "delivered"
                    ELSE IF s \in lost THEN "discarded" ELSE fate[s]]
      /\ stop' = IF dies THEN NotIn(ts \cup Threads) ELSE NotIn(ts)
  BY DEF ContinueThose
<1>2. \A s \in given : s \in Sent => \E t \in ts : stop[t] = s
  BY SentFacts
<1>3. \A s \in lost : \E t \in ts : stop[t] = s /\ f[t] # s
  BY SignalFacts
<1> HIDE DEF given, lost
<1>4. \A t \in Tids : stop'[t] = "none" \/ (stop'[t] = stop[t] /\ t \notin ts)
  BY <1>1 DEF NotIn
<1>5. \A s \in Sent : \/ s \notin given /\ s \notin lost /\ fate'[s] = fate[s]
                      \/ s \in lost /\ s \notin given
                      \/ s \in given /\ fate'[s] = "delivered"
  BY <1>1, <1>2, SentFacts DEF TrueFates
<1>6. TrueFates'
  <2> SUFFICES ASSUME NEW t \in Tids, stop'[t] \in Sent
               PROVE  t \in Threads /\ fate'[stop'[t]] = "trapped" /\ \A u \in Tids \ {t} : stop'[u] # stop'[t]
      BY DEF TrueFates
  <2>1. stop'[t] = stop[t] /\ t \notin ts /\ stop[t] \in Sent
    BY <1>4, SentFacts
  <2>2. t \in Threads /\ fate[stop[t]] = "trapped" /\ \A u \in Tids \ {t} : stop[u] # stop[t]
    BY <2>1 DEF TrueFates
  <2>3. stop[t] \notin given /\ stop[t] \notin lost
    BY <1>2, <1>3, <2>1, <2>2
  <2> QED BY <1>4, <1>5, <2>1, <2>2, <2>3, SentFacts
<1>7. \A s \in Sent : fate'[s] \in {"discarded", "twice"} =>
        fate[s] = fate'[s] \/ \E t \in ts : stop[t] = s /\ f[t] # s
  BY <1>3, <1>5
<1> QED BY <1>4, <1>6, <1>7

\* The same of the threads that answer.
LEMMA FatesContinued ==
  ASSUME TrueFates, NEW f, DOMAIN f \subseteq Tids, NEW detach, Continue(f, detach),
         \A t \in DOMAIN f : stop[t] \in Signals /\ f[t] \in Sent => f[t] = stop[t]
  PROVE  /\ TrueFates' /\ \A t \in Tids : stop'[t] \in {stop[t], "none"}
         /\ \A t \in DOMAIN f : stop'[t] \notin Sent
         /\ \A t \in Tids : t \in fresh /\ stop'[t] # "none" => t \in fresh'
         /\ \A s \in Sent : fate'[s] \in {"discarded", "twice"} =>
              fate[s] = fate'[s] \/ \E t \in DOMAIN f : stop[t] = s /\ f[t] # s
<1> DEFINE ts == {t \in DOMAIN f : Answers(t)}
<1>1. ts \subseteq Tids /\ ContinueThose(ts, f, detach) /\ ts \subseteq DOMAIN f
  BY DEF Continue
<1>2. \A t \in DOMAIN f : stop[t] \in Sent => t \in ts
  BY SentFacts DEF Answers, Stopped, Renamed
<1> HIDE DEF ts
<1>3. /\ TrueFates' /\ \A t \in Tids : stop'[t] = "none" \/ (stop'[t] = stop[t] /\ t \notin ts)
      /\ \A s \in Sent : fate'[s] \in {"discarded", "twice"} =>
           fate[s] = fate'[s] \/ \E t \in ts : stop[t] = s /\ f[t] # s
  BY <1>1, FatesGiven
<1>4. \A t \in Tids : t \in fresh /\ stop'[t] # "none" => t \in fresh'
  <2>1. \/ stop' = NotIn(ts \cup Threads) /\ fresh' = fresh \ (ts \cup Threads)
        \/ stop' = NotIn(ts) /\ fresh' = fresh \ ts
    BY <1>1 DEF ContinueThose
  <2> QED BY <2>1 DEF NotIn
<1> QED BY <1>1, <1>2, <1>3, <1>4, SentFacts

\* The target: what it stops at is unread.
LEMMA RelayTarget ==
  TypeInv /\ TypeInv' /\ WatchInv /\ RelayInv /\ NoExecYet' /\ Watched => RelayInv' /\ ReadRelayed
<1> SUFFICES ASSUME TypeInv, TypeInv', WatchInv, RelayInv, NoExecYet', Watched PROVE RelayInv' /\ ReadRelayed
    OBVIOUS
<1> USE DEF RelayInv
<1>1. Moved /\ Target /\ KernelOK /\ KernelOK' /\ UNCHANGED arthur
  BY QuietTarget DEF Watched, TypeInv, WatchInv
<1>2. TrueFates' /\ Relayed
  BY <1>1, FatesTarget DEF WatchInv
<1>3. UNCHANGED <<pc, todo, tid, mtids, exitSig, coll, forkRc, shot>>
  BY <1>1 DEF arthur, ctl, thr, crash, loop
<1>4. AliveThreads' = {} => \A t \in Tids : stop'[t] \notin Sent
  BY <1>1, <1>2, SentFacts DEF TrueFates, KernelOK, AliveThreads, Alive, Stopped
<1>5. \A t \in Tids : stop'[t] \in Sent => t \in fresh' \/ (stop'[t] = stop[t] /\ t \notin fresh)
  BY <1>1, SentFacts DEF Moved, Stopped
<1>6. SignalsTended'
  BY <1>3, <1>5 DEF SignalsTended, Tended
<1>7. RelaysStand'
  <2>1. ASSUME NEW t \in Tids, stop[t] \in Sent, AliveThreads' # {} PROVE stop'[t] = stop[t]
    BY <1>1, <2>1, SentFacts DEF Moved, Stopped
  <2>2. AliveThreads = {} => AliveThreads' = {}
    BY <1>1 DEF Moved
  <2> QED BY <1>3, <2>1, <2>2 DEF RelaysStand, Intended
<1> QED BY <1>2, <1>3, <1>6, <1>7, RelayedIsRead DEF Unfailed

-----------------------------------------------------------------------------
(* Watching                                                                *)

\* Steps that stop and resume nobody, while every signal is unread or stays tended.
LEMMA RelayCalm ==
  ASSUME TypeInv, RelayInv, UNCHANGED <<stop, fresh, fate>>, pc # "returned",
         pc' \notin Collecting \cup {"restore", "preserve", "abandon", "meta", "loads", "inject", "resume"},
         shot'.failed => pc' \in {"restore", "commit"} \cup Leaving,
         \A t \in mtids : stop[t] \in Sent /\ pc \notin Leaving /\ Tended(t) =>
           t \in fresh \/ (t \in mtids' /\ pc' \notin Leaving /\ Tended(t)')
  PROVE  RelayInv' /\ ReadRelayed
<1>1. TrueFates' /\ ReadRelayed
  BY FatesStill DEF RelayInv
<1>2. SignalsTended'
  <2> SUFFICES ASSUME NEW t \in Tids, stop[t] \in Sent, t \notin fresh PROVE t \in mtids' /\ pc' \notin Leaving /\ Tended(t)'
      BY DEF SignalsTended
  <2> QED BY DEF RelayInv, SignalsTended
<1>3. RelaysStand'
  BY DEF RelaysStand, Intended
<1> QED BY <1>1, <1>2, <1>3 DEF RelayInv, Unfailed

LEMMA RelaySeize ==
  TypeInv /\ WatchInv /\ RelayInv /\ (SeizeList \/ SeizeEach \/ SeizeEnd) => RelayInv' /\ ReadRelayed
<1> SUFFICES ASSUME TypeInv, WatchInv, RelayInv, SeizeList \/ SeizeEach \/ SeizeEnd PROVE RelayInv' /\ ReadRelayed
    OBVIOUS
<1>1. /\ pc \in {"seize", "seizeEach"} /\ pc' \in {"seize", "seizeEach", "rollback", "drain"}
      /\ UNCHANGED <<stop, fresh, fate, shot>>
  BY DEF SeizeList, SeizeEach, SeizeEnd, Rollback, Goto, SeizeAll, kernel
<1>2. exitSig = "none"
  BY <1>1 DEF WatchInv, NoCrash
<1>3. ~shot.failed
  BY <1>1 DEF RelayInv, Unfailed, Leaving
<1>4. \A t \in mtids : ~Tended(t)
  BY <1>1, <1>2 DEF Tended, Collecting
<1> QED BY <1>1, <1>3, <1>4, RelayCalm DEF Collecting

LEMMA RelayMain ==
  TypeInv /\ WatchInv /\ RelayInv /\ (DrainStart \/ PassEnd \/ Dispatch \/ AwaitSignal \/ Request)
    => RelayInv' /\ ReadRelayed
<1> SUFFICES ASSUME TypeInv, WatchInv, RelayInv, DrainStart \/ PassEnd \/ Dispatch \/ AwaitSignal \/ Request
             PROVE  RelayInv' /\ ReadRelayed
    OBVIOUS
<1>1. /\ pc \in {"drain", "poll", "dispatch", "wait"} /\ UNCHANGED <<stop, fresh, fate, shot>>
      /\ pc' \in {"poll", "drain", "dispatch", "wait", "collect", "detach", "returned", "dump"}
  BY DEF DrainStart, PassEnd, Dispatch, AwaitSignal, Request, Goto, Quit, TakeChld, kernel, ctl
<1>2. ~shot.failed
  BY <1>1 DEF RelayInv, Unfailed, Leaving
<1>3. pc \in {"dispatch", "wait"} => exitSig = "none"
  BY <1>1 DEF WatchInv, NoCrash
<1>4. ASSUME NEW t \in mtids, Tended(t) PROVE t \in mtids' /\ pc' \notin Leaving /\ Tended(t)'
  <2>1. (exitSig # "none" \/ forkRc \in Fatal) /\ pc # "wait"
    BY <1>1, <1>3, <1>4 DEF Tended, Collecting
  <2>2. CASE DrainStart
    BY <2>1, <2>2 DEF DrainStart, Goto, crash, thr, Tended, Leaving
  <2>3. CASE PassEnd
    <3>1. /\ pc' \in {"drain", "collect", "dispatch"} /\ mtids' = mtids /\ UNCHANGED <<exitSig, forkRc>>
          /\ pc' = "collect" => exitSig # "none"
      BY <1>4, <2>3 DEF PassEnd, Goto, crash, loop
    <3> QED BY <1>4, <2>1, <3>1 DEF Tended, Leaving
  <2>4. CASE Dispatch
    <3>1. exitSig' \in Fatal /\ pc' = "collect" /\ mtids' = mtids
      BY <1>3, <2>1, <2>4, ResultFacts DEF Dispatch, Goto, Quit, thr
    <3> QED BY <1>4, <3>1, SentFacts DEF Tended, Leaving
  <2> QED BY <2>1, <2>2, <2>3, <2>4 DEF AwaitSignal, Request
<1> QED BY <1>1, <1>2, <1>4, RelayCalm DEF Collecting

LEMMA RelayPoll == TypeInv /\ WatchInv /\ RelayInv /\ Poll => RelayInv' /\ ReadRelayed
<1> SUFFICES ASSUME TypeInv, WatchInv, RelayInv, Poll PROVE RelayInv' /\ ReadRelayed
    OBVIOUS
<1> DEFINE t == LeastOf(todo)
<1>1. /\ pc = "poll" /\ todo # {} /\ tid' = t /\ t \in Tids /\ t \in todo /\ t \in mtids /\ Held(t)
      /\ UNCHANGED <<exitSig, crashTid, coll, forkRc, shot>>
  <2>1. pc = "poll" /\ todo # {} /\ tid' = t /\ UNCHANGED <<exitSig, crashTid, coll, forkRc, shot>>
    BY DEF Poll, crash
  <2>2. t \in todo
    BY <2>1, LeastIsMember DEF TypeInv, ControlOK
  <2> QED BY <2>1, <2>2 DEF TypeInv, ControlOK, WatchInv, Working, Members, Leaving
<1> HIDE DEF t
<1>2. ~shot.failed /\ KernelOK
  BY <1>1 DEF RelayInv, Unfailed, Leaving, TypeInv
<1>3. UNCHANGED <<stop, fate>>
  BY <1>1 DEF Poll, WaitStop, WaitExit, kernel
<1>4. TrueFates' /\ ReadRelayed
  BY <1>3, FatesStill DEF RelayInv
<1>5. pc' \in {"handle", "detach", "returned", "poll"} /\ ~shot'.failed
  BY <1>1, <1>2 DEF Poll, Quit, Goto
<1>6. RelaysStand' /\ Unfailed'
  BY <1>5 DEF RelaysStand, Intended, Collecting, Unfailed
<1>7. SignalsTended'
  <2> SUFFICES ASSUME NEW u \in Tids, stop[u] \in Sent, u \notin fresh', pc' # "returned"
               PROVE  u \in mtids' /\ pc' \notin Leaving /\ Tended(u)'
      BY <1>3 DEF SignalsTended
  <2>1. u \in AliveThreads /\ u \in traced /\ task[u] = "run"
    BY <1>2, SentAtAlive DEF RelayInv
  <2>2. AliveThreads # {} /\ ~DiedOfFatal
    BY <2>1 DEF WatchInv, FatalKills, DiedOfFatal
  <2>3. CASE t \in fresh /\ WaitStop(t) /\ pc' = "handle" /\ mtids' = mtids
    <3>1. u = t \/ u \notin fresh
      BY <2>3 DEF WaitStop
    <3>2. CASE u = t
      BY <1>1, <2>3, <3>2 DEF Tended, Leaving
    <3>3. CASE u \notin fresh
      <4>1. u \in mtids /\ (exitSig # "none" \/ forkRc \in Fatal)
        BY <1>1, <3>3 DEF RelayInv, SignalsTended, Tended, Collecting
      <4> QED BY <1>1, <2>3, <4>1 DEF Tended, Leaving
    <3> QED BY <3>1, <3>2, <3>3
  <2>4. CASE fresh' = fresh /\ pc' = "poll" /\ (mtids' = mtids \/ (mtids' = mtids \ {t} /\ u # t))
    <3>1. u \in mtids /\ (exitSig # "none" \/ forkRc \in Fatal)
      BY <1>1, <2>4 DEF RelayInv, SignalsTended, Tended, Collecting
    <3> QED BY <1>1, <2>4, <3>1 DEF Tended, Leaving
  <2>5. \/ t \in fresh /\ WaitStop(t) /\ pc' = "handle" /\ mtids' = mtids
        \/ fresh' = fresh /\ pc' = "poll" /\ (mtids' = mtids \/ (mtids' = mtids \ {t} /\ u # t))
    <3>1. CASE t \in fresh /\ WaitStop(t) /\ status' = stop[t] /\ Goto("handle") /\ UNCHANGED <<todo, mtids, progress, rc>>
      BY <3>1 DEF Goto
    <3>2. CASE Reapable(t) /\ WaitExit(t) /\ mtids' = mtids \ {t}
               /\ (IF DiedOfFatal THEN Quit(mtids \ {t}, -1)
                   ELSE IF t = Leader THEN Goto("returned") /\ UNCHANGED <<todo, rc>>
                   ELSE todo' = todo \ {t} /\ UNCHANGED <<pc, rc>>)
      <4>1. u # t
        BY <2>1, <3>2 DEF Reapable
      <4> QED BY <1>1, <2>2, <3>2, <4>1 DEF WaitExit, Goto
    <3>3. CASE t \in traced /\ todo' = todo \ {t} /\ UNCHANGED <<kernel, pc, status, mtids, progress, rc>>
      BY <1>1, <3>3 DEF kernel
    <3>4. CASE /\ t \notin traced
               /\ (IF task[t] # "gone" THEN Quit(mtids, -1) /\ UNCHANGED <<mtids, progress>>
                   ELSE /\ mtids' = mtids \ {t}
                        /\ (IF t = Leader THEN Goto("returned") /\ UNCHANGED <<todo, progress>>
                            ELSE todo' = todo \ {t} /\ progress' = TRUE /\ UNCHANGED pc)
                        /\ UNCHANGED rc)
               /\ UNCHANGED <<kernel, status>>
      BY <1>1, <2>1, <3>4 DEF Held, kernel, Goto
    <3> QED BY <3>1, <3>2, <3>3, <3>4 DEF Poll, t
  <2> QED BY <2>3, <2>4, <2>5
<1> QED BY <1>4, <1>6, <1>7 DEF RelayInv

\* The stop that is handled ends, with its own signal, or stays for the crash.
LEMMA RelayHandled ==
  ASSUME TypeInv, WatchInv, RelayInv, pc = "handle", TrueFates', ReadRelayed, \A u \in Tids : stop'[u] \in {stop[u], "none"},
         \A u \in Tids : u \in fresh /\ stop'[u] \in Sent => u \in fresh',
         shot' = shot, forkRc' = forkRc, mtids \subseteq mtids', pc' = "poll", exitSig # "none" => exitSig' # "none",
         exitSig' # "none" \/ stop'[tid] \notin Sent
  PROVE  RelayInv' /\ ReadRelayed
<1>1. ~shot.failed
  BY DEF RelayInv, Unfailed, Leaving
<1>2. SignalsTended'
  <2> SUFFICES ASSUME NEW u \in Tids, stop'[u] \in Sent, u \notin fresh'
               PROVE  u \in mtids' /\ Tended(u)' /\ pc' \notin Leaving
      BY DEF SignalsTended
  <2>1. stop'[u] = stop[u] /\ u \notin fresh
    BY SentFacts
  <2>2. u \in mtids /\ (exitSig # "none" \/ forkRc \in Fatal \/ u = tid)
    BY <2>1 DEF RelayInv, SignalsTended, Tended, Collecting
  <2> QED BY <2>2 DEF Tended, Leaving
<1> QED BY <1>1, <1>2 DEF RelayInv, RelaysStand, Intended, Unfailed, Collecting

\* A thread and its new one after a clone event: no signal is touched.
LEMMA CloneFates ==
  ASSUME TrueFates, NEW t \in Tids, child[t] \in Tids, NEW release, NEW resume, AfterClone(t, release, resume),
         stop[t] \notin Sent, release \/ stop[child[t]] \notin Sent
  PROVE  /\ TrueFates' /\ ReadRelayed /\ \A u \in Tids : stop'[u] \in {stop[u], "none"}
         /\ \A u \in Tids : u \in fresh /\ stop'[u] \in Sent => u \in fresh'
<1>1. /\ fate' = fate /\ fresh' = fresh \ {t, child[t]} /\ \A u \in Tids : stop'[u] \in {stop[u], "none"}
      /\ release => stop'[child[t]] = "none"
  BY DEF AfterClone, NotIn
<1> QED BY <1>1, FatesStill, SentFacts

LEMMA RelayHandle ==
  TypeInv /\ WatchInv /\ CrashInv /\ RelayInv
    /\ (HandleClone \/ HandleExit \/ HandleExec \/ HandleGroupStop \/ HandleInterrupt \/ HandleFatal \/ HandleSignal)
    => RelayInv' /\ ReadRelayed
<1> SUFFICES ASSUME TypeInv, WatchInv, CrashInv, RelayInv,
                    HandleClone \/ HandleExit \/ HandleExec \/ HandleGroupStop \/ HandleInterrupt \/ HandleFatal \/ HandleSignal
             PROVE  RelayInv' /\ ReadRelayed
    OBVIOUS
<1> DEFINE Touched == /\ TrueFates' /\ ReadRelayed /\ \A u \in Tids : stop'[u] \in {stop[u], "none"}
                      /\ \A u \in Tids : u \in fresh /\ stop'[u] \in Sent => u \in fresh'
                      /\ exitSig' # "none" \/ stop'[tid] \notin Sent
<1>1. pc = "handle" /\ StillThere
  BY DEF HandleClone, HandleExit, HandleExec, HandleGroupStop, HandleInterrupt, HandleFatal, HandleSignal, Handling
<1>2. /\ tid \in Tids /\ tid \in AliveThreads /\ stop[tid] = status /\ tid \notin fresh /\ status # "exec" /\ TrueFates
      /\ stop \in [Tids -> Stops] /\ Stopped(tid)
  BY <1>1, Answering DEF RelayInv, TypeInv, KernelOK
<1>3. ~HandleExec
  BY <1>2 DEF HandleExec, Handling
<1>4. /\ shot' = shot /\ forkRc' = forkRc /\ mtids \subseteq mtids' /\ pc' = "poll"
      /\ exitSig # "none" => exitSig' # "none"
  <2>1. CASE HandleClone \/ HandleExit \/ HandleGroupStop \/ HandleInterrupt \/ HandleSignal
    BY <2>1 DEF HandleClone, HandleExit, HandleGroupStop, HandleInterrupt, HandleSignal, Handled, Goto, crash, thr
  <2>2. CASE HandleFatal
    BY <1>1, <2>2, SentFacts DEF HandleFatal, Handled, Goto, crash, thr
  <2> QED BY <1>3, <2>1, <2>2
<1>5. ASSUME NEW sig, Continue(Just(tid, sig), FALSE), stop[tid] \in Sent => sig = stop[tid], sig \in Sent => sig = stop[tid]
      PROVE  Touched
  <2>1. PICK f : f = Just(tid, sig)
    OBVIOUS
  <2>2. DOMAIN f = {tid} /\ f[tid] = sig /\ Continue(f, FALSE)
    BY <1>5, <2>1 DEF Just
  <2>3. /\ TrueFates' /\ \A t \in Tids : stop'[t] \in {stop[t], "none"}
        /\ \A t \in DOMAIN f : stop'[t] \notin Sent
        /\ \A t \in Tids : t \in fresh /\ stop'[t] # "none" => t \in fresh'
        /\ \A s \in Sent : fate'[s] \in {"discarded", "twice"} =>
             fate[s] = fate'[s] \/ \E t \in DOMAIN f : stop[t] = s /\ f[t] # s
    <3>1. DOMAIN f \subseteq Tids
      BY <1>2, <2>2
    <3>2. \A t \in DOMAIN f : stop[t] \in Signals /\ f[t] \in Sent => f[t] = stop[t]
      BY <1>5, <2>2
    <3>3. TrueFates
      BY <1>2
    <3> QED BY <2>2, <3>1, <3>2, <3>3, FatesContinued
  <2> QED BY <1>5, <2>2, <2>3, SentFacts DEF ReadRelayed
<1>6. ASSUME NEW sig, Resume(sig), stop[tid] \in Sent => sig = stop[tid], sig \in Sent => sig = stop[tid], exitSig' = exitSig
      PROVE  Touched
  <2>1. CASE exitSig = "none"
    BY <1>5, <1>6, <2>1 DEF Resume
  <2>2. CASE exitSig # "none"
    BY <1>2, <1>6, <2>2, FatesStill DEF Resume, kernel
  <2> QED BY <2>1, <2>2
<1>7. CASE HandleClone
  <2>1. AfterClone(tid, child[tid] \in Procs, exitSig = "none") /\ stop[tid] = "clone"
    BY <1>2, <1>7 DEF HandleClone, Handling
  <2>2. child[tid] \in Tids /\ (child[tid] \in Threads => stop[child[tid]] = "intr")
    BY <1>1, <1>2, <2>1 DEF CrashInv, Newborns, Unread, Leaving, TypeInv, KernelOK
  <2>3. child[tid] \in Procs \/ stop[child[tid]] \notin Sent
    BY <2>2, SentFacts DEF Threads
  <2>4. stop[tid] \notin Sent
    BY <2>1, SentFacts
  <2>5. TrueFates' /\ ReadRelayed /\ (\A u \in Tids : stop'[u] \in {stop[u], "none"})
        /\ \A u \in Tids : u \in fresh /\ stop'[u] \in Sent => u \in fresh'
    BY <1>2, <2>1, <2>2, <2>3, <2>4, CloneFates
  <2>6. stop'[tid] \notin Sent
    BY <1>2, <2>4, <2>5, SentFacts
  <2> QED BY <1>1, <1>4, <2>5, <2>6, RelayHandled
<1>8. CASE HandleGroupStop
  <2>1. /\ fate' = fate /\ fresh' = fresh \ {tid} /\ stop' = [stop EXCEPT ![tid] = "none"]
    BY <1>8 DEF HandleGroupStop, Listen
  <2>2. TrueFates' /\ ReadRelayed
    BY <1>2, <2>1, FatesStill
  <2> QED BY <1>1, <1>2, <1>4, <2>1, <2>2, RelayHandled, SentFacts
<1>9. CASE HandleFatal
  <2>1. UNCHANGED <<stop, fresh, fate>> /\ exitSig' # "none"
    BY <1>9, SentFacts DEF HandleFatal, Handling, kernel, crash
  <2>2. TrueFates' /\ ReadRelayed
    BY <1>2, <2>1, FatesStill
  <2> QED BY <1>1, <1>2, <1>4, <2>1, <2>2, RelayHandled
<1>10. CASE HandleExit \/ HandleInterrupt \/ HandleSignal
  <2>1. \E sig : /\ Resume(sig) \/ Continue(Just(tid, sig), FALSE)
                 /\ stop[tid] \in Sent => sig = stop[tid]
                 /\ sig \in Sent => sig = stop[tid]
    <3>1. CASE HandleExit \/ HandleInterrupt
      BY <1>2, <3>1, SentFacts DEF HandleExit, HandleInterrupt, Handling
    <3>2. CASE HandleSignal
      BY <1>2, <3>2 DEF HandleSignal, Handling
    <3> QED BY <1>10, <3>1, <3>2
  <2>2. exitSig' = exitSig
    BY <1>10 DEF HandleExit, HandleInterrupt, HandleSignal, crash
  <2>3. Touched
    BY <1>5, <1>6, <2>1, <2>2
  <2> QED BY <1>1, <1>4, <2>3, RelayHandled
<1> QED BY <1>3, <1>7, <1>8, <1>9, <1>10

LEMMA RelayHandleKilled == TypeInv /\ WatchInv /\ RelayInv /\ HandleKilled => RelayInv' /\ ReadRelayed
<1> SUFFICES ASSUME TypeInv, WatchInv, RelayInv, HandleKilled PROVE RelayInv' /\ ReadRelayed
    OBVIOUS
<1>1. pc = "handle" /\ pc' \in {"poll", "detach"} /\ UNCHANGED <<stop, fresh, fate, shot>>
  BY DEF HandleKilled, Handled, Quit, Goto, kernel
<1>2. AliveThreads = {}
  <2>1. tid \in Tids /\ ~Alive(tid)
    BY DEF HandleKilled, StillThere, Renamed, TypeInv, ControlOK, WatchInv, Quiet
  <2> QED BY <1>1, <2>1 DEF WatchInv, Reading, Read
<1>3. \A t \in Tids : stop[t] \notin Sent
  BY <1>2, SentAtAlive DEF RelayInv, TypeInv
<1>4. ~shot.failed /\ mtids \subseteq Tids
  BY <1>1 DEF RelayInv, Unfailed, Leaving, TypeInv, ControlOK
<1> QED BY <1>1, <1>3, <1>4, RelayCalm DEF Collecting

-----------------------------------------------------------------------------
(* Letting go                                                              *)

\* A thread is let go with the signal it stops at, if that is news; it stands at no other.
LEMMA RelayLetGo ==
  ASSUME TypeInv, TrueFates, NEW t \in Tids, LetGo(t), t \in fresh \/ stop[t] \notin Sent,
         \A u \in Tids : stop[u] \in Sent => u \in fresh
  PROVE  TrueFates' /\ ReadRelayed /\ \A u \in Tids : stop'[u] \in Sent => u \in fresh'
<1> DEFINE sig == IF t \in fresh /\ stop[t] \in Signals THEN stop[t] ELSE "none"
           f == Just(t, sig)
<1>1. ContinueThose({t}, f, TRUE) /\ f[t] = sig
  BY DEF LetGo, DetachWaited, Just
<1>2. sig \in Sent => sig = stop[t]
  BY SentFacts
<1>3. stop[t] \in Sent => sig = stop[t]
  BY SentFacts
<1>4. \/ stop' = NotIn({t} \cup Threads) /\ fresh' = fresh \ ({t} \cup Threads)
      \/ stop' = NotIn({t}) /\ fresh' = fresh \ {t}
  BY <1>1 DEF ContinueThose
<1> HIDE DEF f, sig
<1>5. /\ TrueFates' /\ \A u \in Tids : stop'[u] = "none" \/ (stop'[u] = stop[u] /\ u \notin {t})
      /\ \A s \in Sent : fate'[s] \in {"discarded", "twice"} =>
           fate[s] = fate'[s] \/ \E u \in {t} : stop[u] = s /\ f[u] # s
  <2>1. PICK ts : ts = {t}
    OBVIOUS
  <2>2. PICK detach : ContinueThose(ts, f, detach)
    BY <1>1, <2>1
  <2>3. \A u \in ts : stop[u] \in Signals /\ f[u] \in Sent => f[u] = stop[u]
    BY <1>1, <1>2, <2>1
  <2>4. /\ TrueFates' /\ \A u \in Tids : stop'[u] = "none" \/ (stop'[u] = stop[u] /\ u \notin ts)
        /\ \A s \in Sent : fate'[s] \in {"discarded", "twice"} =>
             fate[s] = fate'[s] \/ \E u \in ts : stop[u] = s /\ f[u] # s
    BY <2>1, <2>2, <2>3, FatesGiven
  <2> QED BY <2>1, <2>4
<1>6. ReadRelayed
  BY <1>1, <1>3, <1>5 DEF ReadRelayed
<1> QED BY <1>4, <1>5, <1>6, SentFacts DEF NotIn

LEMMA RelayLeaving ==
  TypeInv /\ WatchInv /\ RelayInv
    /\ (RollbackNext \/ RollbackWait \/ DetachPoll \/ DetachRegs \/ DetachWait \/ DetachEnd \/ CoreCommit)
    => RelayInv' /\ ReadRelayed
<1> SUFFICES ASSUME TypeInv, WatchInv, RelayInv,
                    RollbackNext \/ RollbackWait \/ DetachPoll \/ DetachRegs \/ DetachWait \/ DetachEnd \/ CoreCommit
             PROVE  RelayInv' /\ ReadRelayed
    OBVIOUS
<1>1. /\ pc \in Leaving /\ pc # "returned" /\ pc' \in Leaving
  BY DEF RollbackNext, RollbackWait, DetachPoll, DetachRegs, DetachWait, DetachEnd, CoreCommit, Goto, Leaving
<1>2. /\ tid \in Tids /\ (todo # {} => LeastOf(todo) \in Tids) /\ TrueFates
  BY LeastIsMember DEF TypeInv, ControlOK, RelayInv
<1>3. \A u \in Tids : stop[u] \in Sent => u \in fresh
  BY <1>1 DEF RelayInv, SignalsTended
<1>4. \/ UNCHANGED <<stop, fresh, fate>>
      \/ \E t \in Tids : LetGo(t)
  BY <1>2 DEF RollbackNext, RollbackWait, DetachPoll, DetachRegs, DetachWait, DetachEnd, CoreCommit, Detached,
              Interrupt, WaitExit, kernel
<1>5. TrueFates' /\ ReadRelayed /\ \A u \in Tids : stop'[u] \in Sent => u \in fresh'
  <2>1. CASE UNCHANGED <<stop, fresh, fate>>
    BY <1>2, <1>3, <2>1, FatesStill
  <2>2. ASSUME NEW t \in Tids, LetGo(t) PROVE TrueFates' /\ ReadRelayed /\ \A u \in Tids : stop'[u] \in Sent => u \in fresh'
    BY <1>2, <1>3, <2>2, RelayLetGo
  <2> QED BY <1>4, <2>1, <2>2
<1>6. SignalsTended' /\ RelaysStand' /\ Unfailed'
  BY <1>1, <1>5 DEF SignalsTended, RelaysStand, Intended, Unfailed, Leaving, Collecting
<1> QED BY <1>5, <1>6 DEF RelayInv

-----------------------------------------------------------------------------
(* Collecting                                                              *)

\* What is known of a signal that has been read in a collection.
LEMMA RelayCollected ==
  ASSUME RelayInv, pc \in Collecting, NEW t \in Tids, stop[t] \in Sent, t \notin fresh
  PROVE  t \in mtids /\ (exitSig # "none" \/ coll.relay[t] = stop[t] \/ (coll.fatal # "none" /\ stop[t] \in Fatal))
  BY DEF RelayInv, SignalsTended, Tended, Collecting

\* A step of a collection that reads nothing.
LEMMA RelayGathers ==
  ASSUME RelayInv, pc \in Collecting, UNCHANGED <<stop, fresh, fate, exitSig, shot>>,
         coll'.relay = coll.relay, coll'.fatal = coll.fatal, AliveThreads' = AliveThreads,
         \A t \in mtids : stop[t] \in Sent => t \in mtids',
         \/ pc' \in Collecting \cup {"restore"}
         \/ pc' \in {"kill", "core"} /\ exitSig # "none"
         \/ pc' = "abandon" /\ coll.fatal # "none"
         \/ pc' = "preserve" /\ coll.fatal = "none" /\ \A t \in mtids : stop[t] \in Sent => exitSig # "none" \/ t \in todo'
         \/ pc' = "meta" /\ exitSig = "none" /\ coll.fatal = "none" /\ \A t \in Tids : coll.relay[t] = "none"
  PROVE  RelayInv' /\ ReadRelayed
<1>1. TrueFates' /\ ReadRelayed
  BY FatesStill DEF RelayInv
<1>2. Unfailed'
  BY DEF RelayInv, Unfailed, Collecting, Leaving
<1>3. SignalsTended'
  <2> SUFFICES ASSUME NEW t \in Tids, stop[t] \in Sent, t \notin fresh
               PROVE  t \in mtids' /\ pc' \notin Leaving /\ Tended(t)'
      BY DEF SignalsTended
  <2>1. t \in mtids /\ (exitSig # "none" \/ coll.relay[t] = stop[t] \/ (coll.fatal # "none" /\ stop[t] \in Fatal))
    BY RelayCollected
  <2> QED BY <2>1, SentFacts DEF Tended, Leaving, Collecting
<1>4. RelaysStand'
  <2>1. \A t \in Tids : coll.relay[t] \in Sent => AliveThreads = {} \/ stop[t] = coll.relay[t]
    BY DEF RelayInv, RelaysStand, Intended
  <2> QED BY <2>1 DEF RelaysStand, Intended, Collecting
<1> QED BY <1>1, <1>2, <1>3, <1>4 DEF RelayInv

\* A stop that waitpid returns to a collection is meant to be relayed, or is the fatal one.
LEMMA RelayRecorded ==
  ASSUME TypeInv, WatchInv, RelayInv, pc \in Collecting, NEW t \in mtids, t \in fresh, RecordStop(t), pc' = "stop",
         UNCHANGED <<exitSig, shot>>
  PROVE  RelayInv' /\ ReadRelayed
<1>1. /\ \A u \in Threads : stop'[u] = stop[u]
      /\ \A u \in Tids : stop'[u] \in {stop[u], "none"}
      /\ mtids \subseteq mtids' /\ task' = task
  BY Recorded
<1>2. t \in Tids /\ coll \in Collections /\ TrueFates
  BY DEF TypeInv, ControlOK, RelayInv
<1>3. /\ fate' = fate
      /\ \A u \in Tids : u \in fresh /\ stop'[u] \in Sent => u \in fresh' \/ u = t
  <2>1. CASE stop[t] = "clone" /\ child[t] \in Procs /\ AfterClone(t, TRUE, FALSE)
    <3>1. fate' = fate /\ fresh' = fresh \ {t, child[t]} /\ stop' = NotIn({child[t]})
      BY <2>1 DEF AfterClone
    <3> QED BY <1>2, <3>1, SentFacts DEF NotIn
  <2>2. CASE WaitStop(t)
    BY <2>2 DEF WaitStop
  <2> QED BY <2>1, <2>2 DEF RecordStop
<1>4. /\ coll'.relay = [coll.relay EXCEPT ![t] = IF stop[t] \in Signals \ Fatal THEN stop[t] ELSE @]
      /\ coll'.fatal = IF stop[t] \in Fatal /\ coll.fatal = "none" THEN stop[t] ELSE coll.fatal
  BY <1>2 DEF RecordStop, Collections
<1>5. TrueFates' /\ ReadRelayed
  BY <1>1, <1>2, <1>3, FatesStill
<1>6. SignalsTended'
  <2> SUFFICES ASSUME NEW u \in Tids, stop'[u] \in Sent, u \notin fresh'
               PROVE  u \in mtids' /\ pc' \notin Leaving /\ Tended(u)'
      BY DEF SignalsTended
  <2>1. stop[u] = stop'[u] /\ (u \notin fresh \/ u = t)
    BY <1>1, <1>3, SentFacts
  <2>2. CASE u = t
    BY <1>1, <1>2, <1>4, <2>1, <2>2, SentFacts DEF Tended, Leaving, Collecting, Collections
  <2>3. CASE u # t
    <3>1. u \in mtids /\ (exitSig # "none" \/ coll.relay[u] = stop[u] \/ (coll.fatal # "none" /\ stop[u] \in Fatal))
      BY <2>1, <2>3, RelayCollected
    <3>2. coll'.relay[u] = coll.relay[u] /\ (coll.fatal # "none" => coll'.fatal # "none")
      BY <1>2, <1>4, <2>3 DEF Collections
    <3> QED BY <1>1, <2>1, <3>1, <3>2 DEF Tended, Leaving, Collecting
  <2> QED BY <2>2, <2>3
<1>7. RelaysStand'
  <2> SUFFICES ASSUME NEW u \in Tids, coll'.relay[u] \in Sent, AliveThreads' # {} PROVE stop'[u] = coll'.relay[u]
      BY DEF RelaysStand, Intended, Collecting
  <2>1. AliveThreads # {}
    BY <1>1 DEF AliveThreads, Alive
  <2>2. coll'.relay[u] = coll.relay[u] \/ coll'.relay[u] = stop[u]
    BY <1>2, <1>4 DEF Collections
  <2>3. stop[u] = coll'.relay[u]
    BY <2>1, <2>2 DEF RelayInv, RelaysStand, Intended
  <2>4. u \in Threads
    BY <1>2, <2>3 DEF TrueFates
  <2> QED BY <1>1, <2>3, <2>4
<1>8. Unfailed'
  BY DEF RelayInv, Unfailed, Collecting, Leaving
<1> QED BY <1>5, <1>6, <1>7, <1>8 DEF RelayInv

LEMMA RelayFails ==
  ASSUME WatchInv, pc \in Collecting, CollectFails
  PROVE  pc' = "restore" \/ (pc' = "kill" /\ exitSig # "none")
  BY DEF CollectFails, Goto, WatchInv, NoCrash

LEMMA RelayCollect ==
  TypeInv /\ WatchInv /\ RelayInv
    /\ (CollectStart \/ CollectList \/ CollectPoll \/ CollectRegs \/ CollectWait) => RelayInv' /\ ReadRelayed
<1> SUFFICES ASSUME TypeInv, WatchInv, RelayInv,
                    CollectStart \/ CollectList \/ CollectPoll \/ CollectRegs \/ CollectWait
             PROVE  RelayInv' /\ ReadRelayed
    OBVIOUS
<1>1. /\ KernelOK /\ TrueFates /\ mtids \subseteq Tids /\ coll \in Collections
      /\ \A t \in Tids : stop[t] \in Sent => task[t] = "run"
  BY SentAtAlive DEF TypeInv, ControlOK, RelayInv
<1>2. ASSUME NEW t \in Tids, pc \in Collecting, WaitExit(t) \/ (task[t] = "gone" /\ UNCHANGED kernel), mtids' = mtids \ {t},
             UNCHANGED <<coll, exitSig, shot>>, pc' \in Collecting \/ CollectFails
      PROVE  RelayInv' /\ ReadRelayed
  <2>1. UNCHANGED <<stop, fresh, fate>> /\ AliveThreads' = AliveThreads /\ task[t] # "run"
    <3>1. CASE WaitExit(t)
      BY <1>1, <3>1, QuietWaitExit DEF WatchInv, WaitExit, Reapable
    <3>2. CASE task[t] = "gone" /\ UNCHANGED kernel
      BY <3>2 DEF kernel, AliveThreads, Alive
    <3> QED BY <1>2, <3>1, <3>2
  <2>2. pc' \in Collecting \cup {"restore"} \/ (pc' = "kill" /\ exitSig # "none")
    BY <1>2, RelayFails
  <2>3. \A u \in mtids : stop[u] \in Sent => u \in mtids'
    BY <1>1, <1>2, <2>1
  <2> QED BY <1>2, <2>1, <2>2, <2>3, RelayGathers
<1>3. ASSUME pc \in Collecting, \/ UNCHANGED kernel
                                \/ \E t \in Tids : Interrupt(t)
                                \/ \E S : SeizeAll(S),
             mtids \subseteq mtids', coll'.relay = coll.relay, coll'.fatal = coll.fatal,
             UNCHANGED <<exitSig, shot>>, pc' \in Collecting \/ CollectFails
      PROVE  RelayInv' /\ ReadRelayed
  <2>1. UNCHANGED <<task, stop, fresh, fate>>
    BY <1>3 DEF kernel, Interrupt, SeizeAll
  <2>2. pc' \in Collecting \cup {"restore"} \/ (pc' = "kill" /\ exitSig # "none")
    BY <1>3, RelayFails
  <2>3. AliveThreads' = AliveThreads
    BY <2>1 DEF AliveThreads, Alive
  <2> QED BY <1>3, <2>1, <2>2, <2>3, RelayGathers
<1>4. CASE CollectStart
  <2>1. /\ pc = "collect" /\ pc' = "list" /\ UNCHANGED <<stop, fresh, fate, exitSig, shot, mtids>>
        /\ coll'.relay = [t \in Tids |-> "none"]
    BY <1>4 DEF CollectStart, Goto, kernel, crash, thr, NoCollection
  <2>2. TrueFates' /\ ReadRelayed
    BY <1>1, <2>1, FatesStill
  <2>3. SignalsTended'
    <3> SUFFICES ASSUME NEW t \in Tids, stop[t] \in Sent, t \notin fresh
                 PROVE  t \in mtids' /\ pc' \notin Leaving /\ Tended(t)'
        BY <2>1 DEF SignalsTended
    <3> QED BY <2>1 DEF RelayInv, SignalsTended, Tended, Leaving, Collecting
  <2>4. RelaysStand' /\ Unfailed'
    BY <2>1, SentFacts DEF RelaysStand, Intended, RelayInv, Unfailed, Leaving
  <2> QED BY <2>2, <2>3, <2>4 DEF RelayInv
<1>5. CASE CollectList
  <2>1. pc \in Collecting /\ mtids \subseteq mtids' /\ UNCHANGED <<coll, exitSig, shot>> /\ \E S : SeizeAll(S)
    BY <1>5 DEF CollectList, Collecting, crash
  <2>2. pc' \in Collecting \/ CollectFails
    BY <1>5 DEF CollectList, Collecting, Goto
  <2> QED BY <1>3, <2>1, <2>2
<1>6. CASE CollectPoll
  <2> DEFINE t == LeastOf(todo)
  <2>1. t \in todo /\ t \in mtids /\ t \in Tids /\ pc = "stop" /\ pc \in Collecting /\ UNCHANGED <<exitSig, shot>>
    BY <1>6, LeastIsMember DEF TypeInv, ControlOK, CollectPoll, WatchInv, Working, Collecting
  <2>2. \/ /\ coll' = [coll EXCEPT !.held = @ \cup {t}] /\ UNCHANGED <<kernel, pc, mtids>>
        \/ t \in fresh /\ RecordStop(t) /\ UNCHANGED pc
        \/ /\ WaitExit(t) /\ mtids' = mtids \ {t} /\ UNCHANGED coll
           /\ pc' = pc \/ CollectFails
        \/ Goto("regs") /\ UNCHANGED <<kernel, mtids, coll>>
    BY <1>6 DEF CollectPoll
  <2> HIDE DEF t
  <2>3. CASE coll' = [coll EXCEPT !.held = @ \cup {t}] /\ UNCHANGED <<kernel, pc, mtids>>
    BY <1>1, <1>3, <2>1, <2>3 DEF Collections
  <2>4. CASE t \in fresh /\ RecordStop(t) /\ UNCHANGED pc
    BY <2>1, <2>4, RelayRecorded
  <2>5. CASE WaitExit(t) /\ mtids' = mtids \ {t} /\ UNCHANGED coll /\ (pc' = pc \/ CollectFails)
    BY <1>2, <2>1, <2>5
  <2>6. CASE Goto("regs") /\ UNCHANGED <<kernel, mtids, coll>>
    BY <1>3, <2>1, <2>6 DEF Goto, Collecting
  <2> QED BY <2>2, <2>3, <2>4, <2>5, <2>6
<1>7. CASE CollectRegs
  <2>1. tid \in Tids /\ pc \in Collecting /\ UNCHANGED <<exitSig, shot>>
    BY <1>7 DEF TypeInv, ControlOK, CollectRegs, Collecting, crash
  <2>2. \/ /\ UNCHANGED kernel \/ Interrupt(tid)
           /\ coll' = coll \/ coll' = [coll EXCEPT !.held = @ \cup {tid}]
           /\ mtids' = mtids /\ (pc' \in Collecting \/ CollectFails)
        \/ task[tid] = "gone" /\ UNCHANGED <<kernel, coll>> /\ mtids' = mtids \ {tid} /\ pc' = "stop"
    BY <1>7 DEF CollectRegs, Goto, Collecting
  <2>3. CASE /\ UNCHANGED kernel \/ Interrupt(tid)
             /\ coll' = coll \/ coll' = [coll EXCEPT !.held = @ \cup {tid}]
             /\ mtids' = mtids /\ (pc' \in Collecting \/ CollectFails)
    BY <1>1, <1>3, <2>1, <2>3 DEF Collections
  <2>4. CASE task[tid] = "gone" /\ UNCHANGED <<kernel, coll>> /\ mtids' = mtids \ {tid} /\ pc' = "stop"
    BY <1>2, <2>1, <2>4 DEF Collecting
  <2> QED BY <2>2, <2>3, <2>4
<1>8. CASE CollectWait
  <2>1. tid \in Tids /\ tid \in mtids /\ pc \in Collecting /\ UNCHANGED <<exitSig, shot>>
    BY <1>8 DEF TypeInv, ControlOK, CollectWait, Collecting, WatchInv, Working
  <2>2. \/ tid \in fresh /\ RecordStop(tid) /\ pc' = "stop"
        \/ /\ WaitExit(tid) \/ (task[tid] = "gone" /\ UNCHANGED kernel)
           /\ UNCHANGED coll /\ mtids' = mtids \ {tid} /\ pc' = "stop"
        \/ CollectFails /\ UNCHANGED <<kernel, mtids, coll>>
    BY <1>8 DEF CollectWait, Goto
  <2>3. CASE tid \in fresh /\ RecordStop(tid) /\ pc' = "stop"
    BY <2>1, <2>3, RelayRecorded
  <2>4. CASE /\ WaitExit(tid) \/ (task[tid] = "gone" /\ UNCHANGED kernel)
             /\ UNCHANGED coll /\ mtids' = mtids \ {tid} /\ pc' = "stop"
    BY <1>2, <2>1, <2>4 DEF Collecting
  <2>5. CASE CollectFails /\ UNCHANGED <<kernel, mtids, coll>>
    BY <1>3, <2>1, <2>5
  <2> QED BY <2>2, <2>3, <2>4, <2>5
<1> QED BY <1>4, <1>5, <1>6, <1>7, <1>8

LEMMA RelayConfirm == TypeInv /\ WatchInv /\ WatchInv' /\ RelayInv /\ CollectConfirm => RelayInv' /\ ReadRelayed
<1> SUFFICES ASSUME TypeInv, WatchInv, WatchInv', RelayInv, CollectConfirm PROVE RelayInv' /\ ReadRelayed
    OBVIOUS
<1>1. /\ pc = "stop" /\ pc \in Collecting /\ UNCHANGED <<stop, fresh, fate, exitSig, shot>> /\ AliveThreads' = AliveThreads
      /\ coll \in Collections /\ KernelOK /\ TrueFates /\ mtids \subseteq Tids
  BY DEF CollectConfirm, Collecting, kernel, crash, AliveThreads, Alive, TypeInv, ControlOK, RelayInv
<1>2. coll'.relay = coll.relay /\ coll'.fatal = coll.fatal
  BY <1>1 DEF CollectConfirm, Collections
<1>3. ASSUME NEW t \in mtids, stop[t] \in Sent
      PROVE  t \in Workers \/ (t = Leader /\ leaderExited /\ exitSig # "none")
  <2>1. t \in AliveThreads /\ t \in Tids
    BY <1>1, <1>3, SentAtAlive
  <2>2. t \in Listed
    BY <2>1 DEF AliveThreads, Alive, Listed
  <2> QED BY <2>1, <2>2 DEF Workers, WatchInv, LeaderOut, LeaderStays, AliveThreads
<1>4. \A t \in mtids : stop[t] \in Sent => t \in mtids'
  BY <1>1, <1>3 DEF CollectConfirm
<1>5. CASE CollectFails
  BY <1>1, <1>2, <1>4, <1>5, RelayFails, RelayGathers
<1>6. CASE Goto("list")
  BY <1>1, <1>2, <1>4, <1>6, RelayGathers DEF Goto, Collecting
<1>7. CASE coll.fatal # "none" /\ Goto("abandon")
  BY <1>1, <1>2, <1>4, <1>7, RelayGathers DEF Goto
<1>8. CASE coll.fatal = "none" /\ Goto("preserve") /\ todo' = Workers
  BY <1>1, <1>2, <1>3, <1>4, <1>8, RelayGathers DEF Goto
<1>9. CASE coll.fatal = "none" /\ ~(\E t \in Tids : coll.relay[t] # "none")
           /\ Goto(IF coll.caller = "crash" THEN "core" ELSE "meta")
  <2>1. coll.caller = "crash" <=> exitSig # "none"
    BY <1>1 DEF WatchInv, NoCrash
  <2> QED BY <1>1, <1>2, <1>4, <1>9, <2>1, RelayGathers DEF Goto
<1> QED BY <1>5, <1>6, <1>7, <1>8, <1>9 DEF CollectConfirm

-----------------------------------------------------------------------------
(* Snapshots                                                               *)

\* Every signal that a thread stands at is still unread.
Untouched == \A t \in Tids : stop[t] \in Sent => t \in fresh

LEMMA RelayIdle ==
  ASSUME TrueFates', Untouched', pc' # "abandon", shot'.failed => pc' \in {"restore", "commit"} \cup Leaving,
         pc' \in Collecting \cup {"restore", "preserve", "meta", "loads", "inject", "resume"} =>
           \A t \in Tids : coll'.relay[t] = "none"
  PROVE  RelayInv'
  BY SentFacts DEF RelayInv, SignalsTended, RelaysStand, Unfailed, Intended, Untouched

LEMMA RelayReturns ==
  ASSUME TrueFates', NEW v, ForkcoreReturns(v),
         \A t \in Tids : stop'[t] \in Sent => t \in fresh' \/ (v \in Fatal /\ ~shot'.failed /\ t \in mtids')
  PROVE  RelayInv'
<1>1. /\ pc' \in {"drain", "detach"} /\ (shot'.failed => pc' = "detach")
      /\ v \in Fatal /\ ~shot'.failed => pc' = "drain" /\ forkRc' = v
  BY ResultFacts DEF ForkcoreReturns, Quit, Goto
<1> QED BY <1>1 DEF RelayInv, SignalsTended, Tended, RelaysStand, Unfailed, Intended, Leaving, Collecting

LEMMA RelayUntouched ==
  ASSUME WatchInv, RelayInv,
         pc \in {"dump", "meta", "loads", "inject", "resume", "child", "late", "lateWait", "finish", "finishWait"}
  PROVE  Untouched /\ exitSig = "none" /\ ~shot.failed
<1>1. exitSig = "none"
  BY DEF WatchInv, NoCrash, Injecting
<1> QED BY <1>1 DEF RelayInv, SignalsTended, Tended, Unfailed, Untouched, Leaving, Collecting

\* Threads are resumed with nothing, while nothing has been read.
LEMMA RelaySilent ==
  ASSUME TrueFates, Untouched, NEW f, DOMAIN f \subseteq Tids, NEW detach, Continue(f, detach),
         \A t \in DOMAIN f : f[t] \notin Sent
  PROVE  TrueFates' /\ ReadRelayed /\ Untouched'
<1>1. \A t \in DOMAIN f : stop[t] \in Signals /\ f[t] \in Sent => f[t] = stop[t]
  OBVIOUS
<1>2. /\ TrueFates' /\ \A t \in Tids : stop'[t] \in {stop[t], "none"}
      /\ \A t \in Tids : t \in fresh /\ stop'[t] # "none" => t \in fresh'
      /\ \A s \in Sent : fate'[s] \in {"discarded", "twice"} =>
           fate[s] = fate'[s] \/ \E t \in DOMAIN f : stop[t] = s /\ f[t] # s
  BY <1>1, FatesContinued
<1> QED BY <1>2, SentFacts DEF Untouched, ReadRelayed

\* A thread that is dead stands at no stop.
LEMMA DeadStandNowhere ==
  ASSUME TypeInv, WatchInv, NEW t \in mtids, pc \notin Leaving, AliveThreads = {}
  PROVE  stop[t] = "none"
<1>1. t \in Threads /\ t \in Tids
  BY MembersAreThreads DEF TypeInv, ControlOK
<1> QED BY <1>1 DEF TypeInv, KernelOK, WatchInv, Quiet, AliveThreads, Alive, Stopped

\* Threads are resumed with what a collection has read from them.
LEMMA RelayGiven ==
  ASSUME TypeInv, WatchInv, RelayInv, NEW f, DOMAIN f \subseteq mtids, Continue(f, FALSE), pc \in {"preserve", "restore"},
         \A t \in DOMAIN f : Intended(t) /\ f[t] = coll.relay[t]
  PROVE  /\ TrueFates' /\ ReadRelayed
         /\ \A t \in Tids : stop'[t] \in {stop[t], "none"}
         /\ \A t \in DOMAIN f : stop'[t] \notin Sent
         /\ \A t \in Tids : t \in fresh /\ stop'[t] # "none" => t \in fresh'
<1>1. TrueFates /\ DOMAIN f \subseteq Tids /\ exitSig = "none" /\ pc \notin Leaving
  BY DEF RelayInv, TypeInv, ControlOK, WatchInv, NoCrash, Leaving
<1>2. \A t \in DOMAIN f : stop[t] \in Signals /\ f[t] \in Sent => f[t] = stop[t]
  <2> SUFFICES ASSUME NEW t \in DOMAIN f, stop[t] \in Signals, f[t] \in Sent PROVE f[t] = stop[t]
      OBVIOUS
  <2>1. AliveThreads # {}
    BY <1>1, DeadStandNowhere, SignalFacts
  <2> QED BY <1>1, <2>1 DEF RelayInv, RelaysStand
<1>3. /\ TrueFates' /\ \A t \in Tids : stop'[t] \in {stop[t], "none"}
      /\ \A t \in DOMAIN f : stop'[t] \notin Sent
      /\ \A t \in Tids : t \in fresh /\ stop'[t] # "none" => t \in fresh'
      /\ \A s \in Sent : fate'[s] \in {"discarded", "twice"} =>
           fate[s] = fate'[s] \/ \E t \in DOMAIN f : stop[t] = s /\ f[t] # s
  BY <1>1, <1>2, FatesContinued
<1>4. ASSUME NEW t \in DOMAIN f, stop[t] \in Sent, f[t] # stop[t], t \notin fresh
      PROVE  stop[t] \in Fatal /\ pc = "restore" /\ coll.fatal # "none"
  <2>1. Tended(t) /\ f[t] = coll.relay[t] /\ exitSig = "none"
    BY <1>1, <1>4 DEF RelayInv, SignalsTended, Leaving
  <2> QED BY <1>4, <2>1 DEF Tended, Collecting
<1> QED BY <1>3, <1>4 DEF ReadRelayed

LEMMA RelayDumpStart == TypeInv /\ WatchInv /\ RelayInv /\ (DumpStart \/ Abandon) => RelayInv' /\ ReadRelayed
<1> SUFFICES ASSUME TypeInv, WatchInv, RelayInv, DumpStart \/ Abandon PROVE RelayInv' /\ ReadRelayed
    OBVIOUS
<1>1. UNCHANGED <<stop, fresh, fate, exitSig, mtids>> /\ TrueFates
  BY DEF DumpStart, Abandon, Interrupt, kernel, crash, thr, RelayInv
<1>2. TrueFates' /\ ReadRelayed
  BY <1>1, FatesStill
<1>3. CASE DumpStart
  <2>1. pc = "dump" /\ pc' \in {"collect", "drain", "detach"}
    BY <1>3, Returned DEF DumpStart, Goto
  <2>2. ~shot'.failed
    <3>1. CASE \E t : shot' = [snap |-> t, failed |-> FALSE, result |-> "none"]
      BY <3>1
    <3>2. CASE shot' = [shot EXCEPT !.failed = FALSE, !.result = "none"]
      <4>1. shot \in [snap : Tids, failed : BOOLEAN, result : Fatal \cup {"none", "grouped"}]
        BY DEF TypeInv, ControlOK
      <4> QED BY <3>2, <4>1
    <3> QED BY <1>3, <3>1, <3>2 DEF DumpStart
  <2>3. Untouched'
    BY <1>1, <2>1, RelayUntouched DEF Untouched
  <2> QED BY <1>2, <2>1, <2>2, <2>3, RelayIdle DEF Collecting
<1>4. CASE Abandon
  <2>1. pc = "abandon" /\ ForkcoreReturns(coll.fatal) /\ shot' = shot
    BY <1>4 DEF Abandon
  <2>2. coll.fatal \in Fatal /\ ~shot.failed
    BY <2>1 DEF RelayInv, RelaysStand, Unfailed, Leaving, TypeInv, ControlOK, Collections
  <2>3. \A t \in Tids : stop[t] \in Sent => t \in fresh \/ t \in mtids
    BY <2>1 DEF RelayInv, SignalsTended
  <2> QED BY <1>1, <1>2, <2>1, <2>2, <2>3, RelayReturns
<1> QED BY <1>3, <1>4

LEMMA RelayPreserve ==
  TypeInv /\ TypeInv' /\ WatchInv /\ CrashInv /\ RelayInv /\ Preserve => RelayInv' /\ ReadRelayed
<1> SUFFICES ASSUME TypeInv, TypeInv', WatchInv, CrashInv, RelayInv, Preserve PROVE RelayInv' /\ ReadRelayed
    OBVIOUS
<1>1. /\ pc = "preserve" /\ exitSig = "none" /\ ~shot.failed /\ todo \subseteq mtids /\ mtids \subseteq Tids /\ TrueFates
      /\ UNCHANGED <<mtids, exitSig, coll, shot>> /\ KernelOK
  BY DEF Preserve, WatchInv, NoCrash, RelayInv, Unfailed, Leaving, CrashInv, Newborns, TypeInv, ControlOK, thr, crash
<1>2. ASSUME NEW t \in Tids, stop[t] \in Sent, t \notin fresh
      PROVE  t \in mtids /\ t \in todo /\ coll.relay[t] = stop[t]
  BY <1>1, <1>2 DEF RelayInv, SignalsTended, Tended, Collecting
<1>3. CASE todo = {} /\ ForkcoreReturns("grouped") /\ UNCHANGED kernel
  <2>1. UNCHANGED <<stop, fresh, fate>>
    BY <1>3 DEF kernel
  <2>2. TrueFates' /\ ReadRelayed
    BY <1>1, <2>1, FatesStill
  <2>3. \A t \in Tids : stop'[t] \in Sent => t \in fresh'
    BY <1>2, <1>3, <2>1
  <2> QED BY <1>3, <2>2, <2>3, RelayReturns
<1>4. CASE /\ todo # {} /\ todo' = todo \ {LeastOf(todo)} /\ pc' = pc
           /\ \/ Continue(Just(LeastOf(todo), coll.relay[LeastOf(todo)]), FALSE)
              \/ Listen(LeastOf(todo))
              \/ UNCHANGED kernel /\ ~Alive(LeastOf(todo))
  <2> DEFINE t == LeastOf(todo)
  <2>1. t \in todo /\ t \in mtids /\ t \in Tids /\ todo' = todo \ {t} /\ pc' = "preserve"
    BY <1>1, <1>4, LeastIsMember
  <2> HIDE DEF t
  <2>2. /\ TrueFates' /\ ReadRelayed
        /\ \A u \in Tids : stop'[u] \in {stop[u], "none"}
        /\ stop'[t] \notin Sent
        /\ \A u \in Tids : u \in fresh /\ stop'[u] \in Sent => u \in fresh'
        /\ AliveThreads' = {} \/ \A u \in Threads \ {t} : stop'[u] = stop[u]
        /\ AliveThreads = {} => AliveThreads' = {}
    <3>1. CASE Continue(Just(t, coll.relay[t]), FALSE)
      <4>1. PICK f : f = Just(t, coll.relay[t])
        OBVIOUS
      <4>2. DOMAIN f = {t} /\ f[t] = coll.relay[t] /\ Continue(f, FALSE)
        BY <3>1, <4>1 DEF Just
      <4>3. \A u \in DOMAIN f : Intended(u) /\ f[u] = coll.relay[u]
        BY <1>1, <2>1, <4>2 DEF Intended
      <4>4. /\ TrueFates' /\ ReadRelayed
            /\ \A u \in Tids : stop'[u] \in {stop[u], "none"}
            /\ \A u \in DOMAIN f : stop'[u] \notin Sent
            /\ \A u \in Tids : u \in fresh /\ stop'[u] # "none" => u \in fresh'
        BY <1>1, <2>1, <4>2, <4>3, RelayGiven
      <4>5. Kept({u \in DOMAIN f : Stopped(u)})
        BY <1>1, <2>1, <4>2, QuietContinue DEF WatchInv
      <4> QED BY <4>2, <4>4, <4>5, SentFacts DEF Kept
    <3>2. CASE Listen(t)
      <4>1. fate' = fate /\ fresh' = fresh \ {t} /\ stop' = [stop EXCEPT ![t] = "none"] /\ task' = task
        BY <3>2 DEF Listen
      <4>2. /\ \A u \in Tids \ {t} : stop'[u] = stop[u]
            /\ stop'[t] = "none"
        BY <1>1, <2>1, <4>1 DEF KernelOK
      <4>3. TrueFates' /\ ReadRelayed
        BY <1>1, <4>1, <4>2, FatesStill
      <4> QED BY <2>1, <4>1, <4>2, <4>3, SentFacts DEF AliveThreads, Alive, Threads
    <3>3. CASE UNCHANGED kernel /\ ~Alive(t)
      <4>1. UNCHANGED <<task, stop, fresh, fate>>
        BY <3>3 DEF kernel
      <4>2. TrueFates' /\ ReadRelayed
        BY <1>1, <4>1, FatesStill
      <4>3. stop[t] \notin Sent
        BY <1>1, <2>1, <3>3, SentAtAlive DEF AliveThreads
      <4> QED BY <4>1, <4>2, <4>3 DEF AliveThreads, Alive
    <3> QED BY <1>4, <3>1, <3>2, <3>3 DEF t
  <2>3. SignalsTended'
    <3> SUFFICES ASSUME NEW u \in Tids, stop'[u] \in Sent, u \notin fresh'
                 PROVE  u \in mtids' /\ pc' \notin Leaving /\ Tended(u)'
        BY DEF SignalsTended
    <3>1. stop'[u] = stop[u] /\ u \notin fresh /\ u # t
      BY <2>2, SentFacts
    <3> QED BY <1>1, <1>2, <2>1, <3>1 DEF Tended, Leaving
  <2>4. RelaysStand'
    <3> SUFFICES ASSUME NEW u \in todo', coll.relay[u] \in Sent, AliveThreads' # {} PROVE stop'[u] = coll.relay[u]
        BY <1>1, <2>1 DEF RelaysStand, Intended, Collecting
    <3>1. u \in Tids /\ u \in todo /\ u # t /\ AliveThreads # {}
      BY <1>1, <2>1, <2>2
    <3>2. stop[u] = coll.relay[u]
      BY <1>1, <3>1 DEF RelayInv, RelaysStand, Intended
    <3>3. u \in Threads
      BY <1>1, <3>1, <3>2 DEF TrueFates
    <3> QED BY <2>2, <3>1, <3>2, <3>3
  <2> QED BY <1>1, <2>2, <2>3, <2>4 DEF RelayInv, Unfailed
<1> QED BY <1>3, <1>4 DEF Preserve

LEMMA RelayRestore == TypeInv /\ WatchInv /\ RelayInv /\ Restore => RelayInv' /\ ReadRelayed
<1> SUFFICES ASSUME TypeInv, WatchInv, RelayInv, Restore PROVE RelayInv' /\ ReadRelayed
    OBVIOUS
<1>1. PICK f : f = [t \in mtids |-> coll.relay[t]]
  OBVIOUS
<1>2. /\ pc = "restore" /\ DOMAIN f = mtids /\ Continue(f, FALSE) /\ ForkcoreReturns("failed")
      /\ \A t \in mtids : f[t] = coll.relay[t]
  BY <1>1 DEF Restore
<1>3. \A t \in DOMAIN f : Intended(t) /\ f[t] = coll.relay[t]
  BY <1>2 DEF Intended
<1>4. /\ TrueFates' /\ ReadRelayed
      /\ \A t \in Tids : stop'[t] \in {stop[t], "none"}
      /\ \A t \in DOMAIN f : stop'[t] \notin Sent
      /\ \A t \in Tids : t \in fresh /\ stop'[t] # "none" => t \in fresh'
  BY <1>2, <1>3, RelayGiven
<1>5. \A t \in Tids : stop[t] \in Sent => t \in fresh \/ t \in mtids
  BY <1>2 DEF RelayInv, SignalsTended
<1>6. \A t \in Tids : stop'[t] \in Sent => t \in fresh'
  BY <1>2, <1>4, <1>5, SentFacts
<1> QED BY <1>2, <1>4, <1>6, RelayReturns

LEMMA RelayMeta ==
  TypeInv /\ WatchInv /\ RelayInv /\ (Meta \/ Loads \/ ResumeAll \/ InjectInVain \/ DumpChild) => RelayInv' /\ ReadRelayed
<1> SUFFICES ASSUME TypeInv, WatchInv, RelayInv, Meta \/ Loads \/ ResumeAll \/ InjectInVain \/ DumpChild
             PROVE  RelayInv' /\ ReadRelayed
    OBVIOUS
<1>1. /\ pc \in {"meta", "loads", "resume", "inject", "child"} /\ coll' = coll
      /\ pc' \in {"loads", "inject", "restore", "commit", "child", "finish", "late"}
      /\ pc' \in {"restore", "loads", "inject"} => pc # "child"
      /\ shot' = shot \/ pc' = "restore"
  BY DEF Meta, Loads, ResumeAll, InjectInVain, DumpChild, Goto
<1>2. Untouched /\ ~shot.failed /\ TrueFates /\ KernelOK /\ coll \in Collections
  BY <1>1, RelayUntouched DEF RelayInv, TypeInv, ControlOK
<1>3. pc # "child" => \A t \in Tids : coll.relay[t] = "none"
  BY <1>1 DEF RelayInv, RelaysStand
<1>4. TrueFates' /\ ReadRelayed /\ Untouched'
  <2>1. CASE UNCHANGED <<stop, fresh>> /\ \A s \in Sent : fate'[s] = fate[s]
    BY <1>2, <2>1, FatesStill DEF Untouched
  <2>2. ASSUME NEW f, Continue(f, FALSE), DOMAIN f \subseteq Tids, \A t \in DOMAIN f : f[t] = "none"
        PROVE  TrueFates' /\ ReadRelayed /\ Untouched'
    BY <1>2, <2>2, RelaySilent, SentFacts
  <2>3. CASE UNCHANGED kernel
    BY <2>1, <2>3 DEF kernel
  <2>4. CASE Meta
    BY <2>3, <2>4 DEF Meta
  <2>5. CASE Loads
    <3>1. PICK f : f = [t \in coll.tids |-> coll.relay[t]]
      OBVIOUS
    <3>2. (Continue(f, FALSE) \/ UNCHANGED kernel) /\ pc = "loads"
      BY <2>5, <3>1 DEF Loads
    <3>3. DOMAIN f \subseteq Tids /\ \A t \in DOMAIN f : f[t] = "none"
      BY <1>2, <1>3, <3>1, <3>2 DEF Collections
    <3> QED BY <2>2, <2>3, <3>2, <3>3
  <2>6. CASE ResumeAll
    <3>1. PICK f : f = [t \in coll.tids |-> IF t = Leader THEN "none" ELSE coll.relay[t]]
      OBVIOUS
    <3>2. Continue(f, FALSE) /\ pc = "resume"
      BY <2>6, <3>1 DEF ResumeAll
    <3>3. DOMAIN f \subseteq Tids /\ \A t \in DOMAIN f : f[t] = "none"
      BY <1>2, <1>3, <3>1, <3>2 DEF Collections
    <3> QED BY <2>2, <3>2, <3>3
  <2>7. CASE InjectInVain
    <3>1. PICK f : f = Just(Leader, "none")
      OBVIOUS
    <3>2. Continue(f, FALSE) \/ UNCHANGED kernel \/ UNCHANGED <<stop, fresh, fate>>
      BY <2>7, <3>1 DEF InjectInVain, WaitExit
    <3>3. DOMAIN f \subseteq Tids /\ \A t \in DOMAIN f : f[t] = "none"
      BY <3>1, LeaderIsThread DEF Just
    <3> QED BY <2>1, <2>2, <2>3, <3>2, <3>3
  <2>8. CASE DumpChild
    <3>1. UNCHANGED <<stop, fresh>> /\ \A s \in Sent : fate'[s] = fate[s]
      BY <1>2, <2>8, SignalFacts DEF DumpChild, ChildDies, KernelOK, Signals
    <3> QED BY <2>1, <3>1
  <2> QED BY <2>4, <2>5, <2>6, <2>7, <2>8
<1> QED BY <1>1, <1>2, <1>3, <1>4, RelayIdle DEF Collecting

\* The leader stops at a signal of its own in an injected call, or at its end.
LEMMA RelayInjected ==
  ASSUME KernelOK, TrueFates, NEW sig \in Signals \cup {"none"}, RunInjected(sig),
         sig = "none" \/ fate[sig] = "pending", stop[Leader] \in Sent => Leader \in fresh
  PROVE  /\ TrueFates' /\ ReadRelayed /\ stop'[Leader] = (IF sig = "none" THEN "intr" ELSE sig)
         /\ \A t \in Tids \ {Leader} : stop'[t] = stop[t] /\ (t \in fresh => t \in fresh')
<1>1. /\ \A s \in Signals : fate'[s] = IF s = sig THEN "trapped" ELSE IF s = stop[Leader] THEN "discarded" ELSE fate[s]
      /\ stop'[Leader] = (IF sig = "none" THEN "intr" ELSE sig)
      /\ \A t \in Tids \ {Leader} : stop'[t] = stop[t] /\ (t \in fresh => t \in fresh')
  BY LeaderIsThread DEF RunInjected, KernelOK
<1>2. Leader \in Tids /\ Leader \in Threads
  BY LeaderIsThread
<1>3. sig \in Sent => \A t \in Tids : stop[t] # sig
  BY SentFacts DEF TrueFates
<1>4. TrueFates'
  <2> SUFFICES ASSUME NEW t \in Tids, stop'[t] \in Sent
               PROVE  t \in Threads /\ fate'[stop'[t]] = "trapped" /\ \A u \in Tids \ {t} : stop'[u] # stop'[t]
      BY DEF TrueFates
  <2>1. CASE t = Leader
    <3>1. stop'[t] = sig /\ sig \in Sent
      BY <1>1, <2>1, SentFacts
    <3> QED BY <1>1, <1>2, <1>3, <2>1, <3>1, SentFacts
  <2>2. CASE t # Leader
    <3>1. stop'[t] = stop[t] /\ t \in Threads /\ fate[stop[t]] = "trapped" /\ \A u \in Tids \ {t} : stop[u] # stop[t]
      BY <1>1, <2>2 DEF TrueFates
    <3>2. stop[t] # sig /\ stop[t] # stop[Leader]
      BY <1>2, <1>3, <2>2, <3>1
    <3> QED BY <1>1, <2>2, <3>1, <3>2, SentFacts
  <2> QED BY <2>1, <2>2
<1>5. ReadRelayed
  BY <1>1, SentFacts DEF ReadRelayed
<1> QED BY <1>1, <1>4, <1>5

LEMMA LeaderWatched ==
  ASSUME WatchInv, CrashInv, pc \in Injecting, Alive(Leader)
  PROVE  Leader \in mtids
  BY DEF WatchInv, LeaderOut, CrashInv, LeaderKnown, Injecting, Leaving

LEMMA RelayInject == TypeInv /\ WatchInv /\ CrashInv /\ RelayInv /\ Inject => RelayInv' /\ ReadRelayed
<1> SUFFICES ASSUME TypeInv, WatchInv, CrashInv, RelayInv, Inject PROVE RelayInv' /\ ReadRelayed
    OBVIOUS
<1>1. pc = "inject" /\ Alive(Leader) /\ UNCHANGED <<mtids, exitSig, shot>> /\ Leader \in Tids
  BY LeaderIsThread DEF Inject, thr
<1>2. /\ KernelOK /\ TrueFates /\ Untouched /\ ~shot.failed /\ Leader \in mtids /\ coll \in Collections
      /\ \A t \in Tids : coll.relay[t] = "none"
  BY <1>1, RelayUntouched, LeaderWatched DEF RelayInv, RelaysStand, TypeInv, ControlOK, Injecting
<1>3. CASE RunInjected("none") /\ (Goto("resume") \/ Goto("restore")) /\ UNCHANGED coll
  <2>1. PICK sig \in Signals \cup {"none"} : sig = "none" /\ RunInjected(sig)
    BY <1>3
  <2>2. /\ TrueFates' /\ ReadRelayed /\ stop'[Leader] = "intr"
        /\ \A t \in Tids \ {Leader} : stop'[t] = stop[t] /\ (t \in fresh => t \in fresh')
    BY <1>1, <1>2, <2>1, RelayInjected DEF Untouched
  <2>3. Untouched'
    BY <1>2, <2>2, SentFacts DEF Untouched
  <2> QED BY <1>1, <1>2, <1>3, <2>2, <2>3, RelayIdle DEF Goto
<1>4. CASE \E s \in PendingFor(Leader) \ Fatal :
             RunInjected(s) /\ Goto("restore") /\ coll' = [coll EXCEPT !.relay[Leader] = s]
  <2>1. PICK s \in Signals : RunInjected(s) /\ fate[s] = "pending" /\ pc' = "restore"
                             /\ coll' = [coll EXCEPT !.relay[Leader] = s]
    BY <1>4 DEF PendingFor, Goto
  <2>2. /\ TrueFates' /\ ReadRelayed /\ stop'[Leader] = s
        /\ \A t \in Tids \ {Leader} : stop'[t] = stop[t] /\ (t \in fresh => t \in fresh')
    BY <1>1, <1>2, <2>1, RelayInjected, SignalFacts DEF Untouched
  <2>3. coll'.relay[Leader] = s /\ \A t \in Tids \ {Leader} : coll'.relay[t] = "none"
    BY <1>1, <1>2, <2>1 DEF Collections
  <2>4. SignalsTended'
    BY <1>1, <1>2, <2>1, <2>2, <2>3 DEF SignalsTended, Tended, Untouched, Leaving
  <2>5. RelaysStand' /\ Unfailed'
    BY <2>1, <2>2, <2>3, SentFacts DEF RelaysStand, Unfailed
  <2> QED BY <2>2, <2>4, <2>5 DEF RelayInv
<1>5. CASE \E s \in PendingFor(Leader) \cap Fatal : RunInjected(s) /\ ForkcoreReturns(s)
  <2>1. PICK s \in Signals : RunInjected(s) /\ fate[s] = "pending" /\ ForkcoreReturns(s) /\ s \in Fatal
    BY <1>5 DEF PendingFor
  <2>2. /\ TrueFates' /\ ReadRelayed /\ stop'[Leader] = s
        /\ \A t \in Tids \ {Leader} : stop'[t] = stop[t] /\ (t \in fresh => t \in fresh')
    BY <1>1, <1>2, <2>1, RelayInjected, SignalFacts DEF Untouched
  <2>3. \A t \in Tids : stop'[t] \in Sent => t \in fresh' \/ (s \in Fatal /\ ~shot'.failed /\ t \in mtids')
    BY <1>1, <1>2, <2>1, <2>2 DEF Untouched
  <2> QED BY <2>1, <2>2, <2>3, RelayReturns
<1> QED BY <1>3, <1>4, <1>5 DEF Inject

LEMMA RelayFinish ==
  TypeInv /\ WatchInv /\ CrashInv /\ RelayInv /\ (Late \/ Finish \/ InjectDeath) => RelayInv' /\ ReadRelayed
<1> SUFFICES ASSUME TypeInv, WatchInv, CrashInv, RelayInv, Late \/ Finish \/ InjectDeath
             PROVE  RelayInv' /\ ReadRelayed
    OBVIOUS
<1>1. /\ pc \in {"inject", "late", "lateWait", "finish", "finishWait"}
      /\ UNCHANGED <<stop, fate, mtids, exitSig, coll>> /\ Leader \in Tids
  BY LeaderIsThread DEF Late, Finish, InjectDeath, Interrupt, WaitStop, WaitExit, kernel, crash, thr
<1>2. /\ KernelOK /\ TrueFates /\ Untouched /\ ~shot.failed
      /\ shot \in [snap : Tids, failed : BOOLEAN, result : Fatal \cup {"none", "grouped"}]
  BY <1>1, RelayUntouched DEF RelayInv, TypeInv, ControlOK
<1>3. TrueFates' /\ ReadRelayed
  BY <1>1, <1>2, FatesStill
<1>4. CASE pc # "inject" /\ pc' = "settle" /\ Leader \in fresh /\ WaitStop(Leader) /\ shot' = shot
  <2>1. fresh' = fresh \ {Leader}
    BY <1>4 DEF WaitStop
  <2>2. stop[Leader] \in Sent => Leader \in mtids
    BY <1>1, <1>2, LeaderWatched, SentAtAlive DEF AliveThreads, Injecting
  <2>3. SignalsTended'
    BY <1>1, <1>2, <1>4, <2>1, <2>2 DEF SignalsTended, Tended, Untouched, Leaving
  <2>4. RelaysStand' /\ Unfailed'
    BY <1>2, <1>4 DEF RelaysStand, Intended, Unfailed, Collecting
  <2> QED BY <1>3, <2>3, <2>4 DEF RelayInv
<1>5. CASE pc # "inject" /\ fresh' = fresh /\ pc' \in {"lateWait", "finishWait"} /\ shot' = shot
  <2>1. Untouched'
    BY <1>1, <1>2, <1>5 DEF Untouched
  <2> QED BY <1>2, <1>3, <1>5, <2>1, RelayIdle DEF Collecting
<1>6. ASSUME NEW v, ForkcoreReturns(v), fresh' = fresh PROVE RelayInv' /\ ReadRelayed
  BY <1>1, <1>2, <1>3, <1>6, RelayReturns DEF Untouched
<1>7. CASE Late
  <2>1. /\ pc # "inject"
        /\ \/ Interrupt(Leader) /\ Goto("lateWait") /\ UNCHANGED shot
           \/ ForkcoreReturns("failed") /\ UNCHANGED kernel
    BY <1>7 DEF Late
  <2> QED BY <1>5, <1>6, <2>1 DEF Interrupt, Goto, kernel
<1>8. CASE Finish \/ InjectDeath
  <2>1. \/ pc # "inject" /\ Leader \in fresh /\ WaitStop(Leader) /\ Goto("settle") /\ UNCHANGED shot
        \/ pc # "inject" /\ Interrupt(Leader) /\ Goto("finishWait") /\ UNCHANGED shot
        \/ /\ WaitExit(Leader) \/ UNCHANGED kernel
           /\ \E v : ForkcoreReturns(v)
    BY <1>8 DEF Finish, InjectDeath
  <2>2. CASE pc # "inject" /\ Leader \in fresh /\ WaitStop(Leader) /\ Goto("settle") /\ UNCHANGED shot
    BY <1>4, <2>2 DEF Goto
  <2>3. CASE pc # "inject" /\ Interrupt(Leader) /\ Goto("finishWait") /\ UNCHANGED shot
    BY <1>5, <2>3 DEF Interrupt, Goto
  <2>4. CASE (WaitExit(Leader) \/ UNCHANGED kernel) /\ \E v : ForkcoreReturns(v)
    <3>1. fresh' = fresh
      BY <2>4 DEF WaitExit, kernel
    <3> QED BY <1>6, <2>4, <3>1
  <2> QED BY <2>1, <2>2, <2>3, <2>4
<1> QED BY <1>7, <1>8

LEMMA RelaySettle ==
  TypeInv /\ WatchInv /\ CrashInv /\ RelayInv /\ (Settle \/ SettleKilled) => RelayInv' /\ ReadRelayed
<1> SUFFICES ASSUME TypeInv, WatchInv, CrashInv, RelayInv, Settle \/ SettleKilled PROVE RelayInv' /\ ReadRelayed
    OBVIOUS
<1>1. /\ pc = "settle" /\ UNCHANGED <<mtids, exitSig, coll>> /\ exitSig = "none" /\ ~shot.failed
      /\ Leader \in Tids /\ Leader \in Threads /\ KernelOK /\ TrueFates
      /\ shot \in [snap : Tids, failed : BOOLEAN, result : Fatal \cup {"none", "grouped"}]
  BY LeaderIsThread DEF Settle, SettleKilled, crash, thr, WatchInv, NoCrash, Injecting, RelayInv, Unfailed, Leaving,
                        TypeInv, ControlOK
<1>2. \A t \in Tids \ {Leader} : stop[t] \in Sent => t \in fresh
  BY <1>1 DEF RelayInv, SignalsTended, Tended, Collecting
<1>3. Alive(Leader) => stop[Leader] = status /\ Leader \in mtids
  BY <1>1, LeaderWatched DEF WatchInv, Reading, Read, AliveThreads, Injecting
<1>4. ASSUME TrueFates', ReadRelayed, Untouched', pc' = "commit" PROVE RelayInv' /\ ReadRelayed
  BY <1>4, RelayIdle DEF Collecting
<1>5. CASE SettleKilled
  <2>1. UNCHANGED <<stop, fresh, fate>> /\ ~Alive(Leader) /\ pc' = "commit"
    BY <1>5 DEF SettleKilled, kernel, Goto
  <2>2. Untouched'
    BY <1>1, <1>2, <2>1, SentAtAlive DEF Untouched, AliveThreads
  <2>3. TrueFates' /\ ReadRelayed
    BY <1>1, <2>1, FatesStill
  <2> QED BY <1>4, <2>1, <2>2, <2>3
<1>6. CASE Settle
  <2>1. Alive(Leader) /\ stop[Leader] = status /\ Leader \in mtids
    BY <1>3, <1>6 DEF Settle
  <2>2. CASE status = "group" /\ Listen(Leader) /\ pc' = "commit"
    <3>1. fate' = fate /\ fresh' = fresh \ {Leader} /\ stop' = [stop EXCEPT ![Leader] = "none"]
      BY <2>2 DEF Listen
    <3>2. stop'[Leader] = "none" /\ \A t \in Tids \ {Leader} : stop'[t] = stop[t]
      BY <1>1, <3>1 DEF KernelOK
    <3>3. TrueFates' /\ ReadRelayed
      BY <1>1, <3>1, <3>2, FatesStill
    <3>4. Untouched'
      BY <1>2, <3>1, <3>2, SentFacts DEF Untouched
    <3> QED BY <1>4, <2>2, <3>3, <3>4
  <2>3. CASE status = "clone" /\ AfterClone(Leader, TRUE, TRUE) /\ pc' = "commit"
    <3>1. child[Leader] \in Tids
      BY <1>1, <2>1, <2>3 DEF KernelOK
    <3>2. /\ fate' = fate /\ fresh' = fresh \ {Leader, child[Leader]}
          /\ stop' = NotIn({Leader, child[Leader]})
      BY <2>3 DEF AfterClone
    <3>3. /\ \A t \in Tids : stop'[t] \in {stop[t], "none"}
          /\ stop'[Leader] = "none" /\ stop'[child[Leader]] = "none"
      BY <1>1, <3>1, <3>2 DEF NotIn
    <3>4. TrueFates' /\ ReadRelayed
      BY <1>1, <3>2, <3>3, FatesStill
    <3>5. Untouched'
      BY <1>2, <3>2, <3>3, SentFacts DEF Untouched
    <3> QED BY <1>4, <2>3, <3>4, <3>5
  <2>4. ASSUME NEW sig, Continue(Just(Leader, sig), FALSE), pc' = "commit", stop[Leader] \in Sent => sig = stop[Leader],
               sig \in Sent => sig = stop[Leader]
        PROVE  RelayInv' /\ ReadRelayed
    <3>1. PICK f : f = Just(Leader, sig)
      OBVIOUS
    <3>2. DOMAIN f = {Leader} /\ f[Leader] = sig /\ Continue(f, FALSE)
      BY <2>4, <3>1 DEF Just
    <3>3. DOMAIN f \subseteq Tids
      BY <1>1, <3>2
    <3>4. \A t \in DOMAIN f : stop[t] \in Signals /\ f[t] \in Sent => f[t] = stop[t]
      BY <2>4, <3>2
    <3>5. /\ TrueFates' /\ \A t \in Tids : stop'[t] \in {stop[t], "none"}
          /\ \A t \in DOMAIN f : stop'[t] \notin Sent
          /\ \A t \in Tids : t \in fresh /\ stop'[t] # "none" => t \in fresh'
          /\ \A s \in Sent : fate'[s] \in {"discarded", "twice"} =>
               fate[s] = fate'[s] \/ \E t \in DOMAIN f : stop[t] = s /\ f[t] # s
      BY <1>1, <3>2, <3>3, <3>4, FatesContinued
    <3>6. ReadRelayed
      BY <2>4, <3>2, <3>5 DEF ReadRelayed
    <3>7. Untouched'
      BY <1>2, <3>2, <3>5, SentFacts DEF Untouched
    <3> QED BY <1>4, <2>4, <3>5, <3>6, <3>7
  <2>5. CASE status \in {"exit", "exec", "intr"} /\ Continue(Just(Leader, "none"), FALSE) /\ pc' = "commit"
    <3>1. stop[Leader] \notin Sent /\ "none" \notin Sent
      BY <2>1, <2>5, SentFacts
    <3> QED BY <2>4, <2>5, <3>1
  <2>6. CASE status \in Signals \ Fatal /\ Continue(Just(Leader, status), FALSE) /\ pc' = "commit"
    BY <2>1, <2>4, <2>6
  <2>7. CASE status \in Fatal /\ UNCHANGED kernel /\ pc' = "commit" /\ shot' = [shot EXCEPT !.result = status]
    <3>1. UNCHANGED <<stop, fresh, fate>>
      BY <2>7 DEF kernel
    <3>2. TrueFates' /\ ReadRelayed
      BY <1>1, <3>1, FatesStill
    <3>3. ~shot'.failed /\ shot'.result = status
      BY <1>1, <2>7
    <3>4. SignalsTended'
      BY <1>1, <1>2, <2>1, <2>7, <3>1, <3>3 DEF SignalsTended, Tended, Leaving
    <3>5. RelaysStand' /\ Unfailed'
      BY <2>7 DEF RelaysStand, Intended, Unfailed, Collecting
    <3> QED BY <3>2, <3>4, <3>5 DEF RelayInv
  <2>8. CASE status \in {"intr", "CHLD"} /\ (\E s \in PendingFor(Leader) : RunInjected(s) /\ status' = s) /\ UNCHANGED <<pc, shot>>
    <3>1. PICK s \in Signals : RunInjected(s) /\ fate[s] = "pending"
      BY <2>8 DEF PendingFor
    <3>2. stop[Leader] \notin Sent
      BY <2>1, <2>8, SentFacts, SignalFacts
    <3>3. /\ TrueFates' /\ ReadRelayed
          /\ \A t \in Tids \ {Leader} : stop'[t] = stop[t] /\ (t \in fresh => t \in fresh')
      BY <1>1, <3>1, <3>2, RelayInjected
    <3>4. SignalsTended'
      BY <1>1, <1>2, <2>1, <2>8, <3>3 DEF SignalsTended, Tended, Leaving
    <3>5. RelaysStand' /\ Unfailed'
      BY <1>1, <2>8 DEF RelaysStand, Intended, Unfailed, Collecting
    <3> QED BY <3>3, <3>4, <3>5 DEF RelayInv
  <2> QED BY <1>6, <2>2, <2>3, <2>5, <2>6, <2>7, <2>8 DEF Settle, Settled, Goto
<1> QED BY <1>5, <1>6

LEMMA RelayCommit == ~DiskFull /\ TypeInv /\ WatchInv /\ RelayInv /\ Commit => RelayInv' /\ ReadRelayed
<1> SUFFICES ASSUME ~DiskFull, TypeInv, WatchInv, RelayInv, Commit PROVE RelayInv' /\ ReadRelayed
    OBVIOUS
<1>1. /\ pc = "commit" /\ exitSig = "none" /\ UNCHANGED <<mtids, stop, fresh, fate, shot>> /\ TrueFates
  BY DEF Commit, thr, kernel, WatchInv, NoCrash, Injecting, RelayInv
<1>2. TrueFates' /\ ReadRelayed
  BY <1>1, FatesStill
<1>3. \A t \in Tids : stop[t] \in Sent => t \in fresh \/ (t \in mtids /\ ~shot.failed /\ shot.result \in Fatal)
  BY <1>1 DEF RelayInv, SignalsTended, Tended, Collecting
<1>4. CASE ~shot.failed /\ ForkcoreReturns(shot.result)
  BY <1>1, <1>2, <1>3, <1>4, RelayReturns
<1>5. CASE shot.failed /\ ForkcoreReturns("failed")
  BY <1>1, <1>2, <1>3, <1>5, RelayReturns
<1> QED BY <1>4, <1>5 DEF Commit

LEMMA RelayCore == TypeInv /\ WatchInv /\ RelayInv /\ (Core \/ CoreLoads) => RelayInv' /\ ReadRelayed
<1> SUFFICES ASSUME TypeInv, WatchInv, RelayInv, Core \/ CoreLoads PROVE RelayInv' /\ ReadRelayed
    OBVIOUS
<1>1. /\ pc \in {"core", "coreLoads"} /\ pc' \in {"coreLoads", "kill"}
      /\ UNCHANGED <<stop, fresh, fate, exitSig, mtids, shot>>
  BY DEF Core, CoreLoads, Goto, kernel, crash, thr
<1>2. ~shot.failed
  BY <1>1 DEF RelayInv, Unfailed, Leaving
<1>3. \A t \in mtids : Tended(t) => exitSig # "none"
  BY <1>1 DEF Tended, Collecting
<1> QED BY <1>1, <1>2, <1>3, RelayCalm DEF Tended, Leaving, Collecting

\* The crash is dealt with.
LEMMA RelayKill ==
  TypeInv /\ TypeInv' /\ WatchInv /\ CrashInv' /\ RelayInv /\ KillCrashed => RelayInv' /\ ReadRelayed
<1> SUFFICES ASSUME TypeInv, TypeInv', WatchInv, CrashInv', RelayInv, KillCrashed PROVE RelayInv' /\ ReadRelayed
    OBVIOUS
<1>1. /\ pc = "kill" /\ pc' \in {"coreCommit", "returned"} /\ exitSig' = exitSig /\ mtids \subseteq Tids
      /\ KernelOK /\ TrueFates /\ FatalKills /\ exitSig \in Fatal \cup {"none"}
  BY DEF KillCrashed, Goto, crash, RelayInv, WatchInv, TypeInv, ControlOK
<1>2. PICK S \in SUBSET Tids : ReleaseCrashed(S)
  BY <1>1 DEF KillCrashed
<1>3. TrueFates' /\ ReadRelayed /\ Untouched'
  <2>1. CASE exitSig = "none"
    <3>1. Untouched
      BY <1>1, <2>1 DEF RelayInv, SignalsTended, Tended, Untouched, Collecting
    <3>2. PICK f, detach : f = [t \in S |-> exitSig] /\ Continue(f, detach)
      BY <1>2 DEF ReleaseCrashed
    <3>3. DOMAIN f \subseteq Tids /\ \A t \in DOMAIN f : f[t] \notin Sent
      BY <2>1, <3>2, SentFacts
    <3> QED BY <1>1, <3>1, <3>2, <3>3, RelaySilent
  <2>2. CASE exitSig # "none"
    <3>1. TrueFates' /\ Relayed
      BY <1>1, <1>2, <2>2, FatesCrash
    <3>2. AliveThreads' = {}
      BY <1>1, <2>2 DEF CrashInv, Doomed, CrashStands, Leaving
    <3>3. \A t \in Tids : stop'[t] \notin Sent
      BY <3>1, <3>2, SentFacts DEF TrueFates, TypeInv, KernelOK, AliveThreads, Alive, Stopped
    <3> QED BY <3>1, <3>3, RelayedIsRead DEF Untouched
  <2> QED BY <2>1, <2>2
<1> QED BY <1>1, <1>3, RelayIdle DEF Leaving, Collecting

-----------------------------------------------------------------------------
(* The signals that have been read are relayed                             *)

LEMMA RelayInit == Init => RelayInv
<1> SUFFICES ASSUME Init PROVE RelayInv
    OBVIOUS
<1>1. pc = "seize" /\ \A t \in Tids : stop[t] = "none"
  BY DEF Init, KernelInit
<1>2. ~shot.failed
  BY DEF Init
<1> QED BY <1>1, <1>2, SentFacts
        DEF RelayInv, TrueFates, SignalsTended, RelaysStand, Intended, Unfailed, Collecting

LEMMA RelayStep ==
  ASSUME ~DiskFull, TypeInv, TypeInv', WatchInv, WatchInv', CrashInv, CrashInv', RelayInv, [Next]_vars, NoExecYet'
  PROVE  RelayInv' /\ [ReadRelayed]_vars
<1>1. CASE UNCHANGED vars
  <2>1. /\ UNCHANGED <<task, stop, fresh, fate, pc, todo, tid, mtids, exitSig, coll, forkRc, shot>>
    BY <1>1 DEF vars, kernel, arthur, ctl, thr, crash, loop
  <2>2. AliveThreads' = AliveThreads
    BY <2>1 DEF AliveThreads, Alive
  <2>3. TrueFates' /\ SignalsTended' /\ Unfailed'
    BY <2>1 DEF RelayInv, TrueFates, SignalsTended, Tended, Unfailed
  <2>4. RelaysStand'
    BY <2>1, <2>2 DEF RelayInv, RelaysStand, Intended
  <2> QED BY <1>1, <2>3, <2>4 DEF RelayInv
<1>2. CASE SeizeList \/ SeizeEach \/ SeizeEnd
  BY <1>2, RelaySeize
<1>3. CASE DrainStart \/ PassEnd \/ Dispatch \/ AwaitSignal \/ Request \/ Poll
  BY <1>3, RelayMain, RelayPoll
<1>4. CASE HandleClone \/ HandleExit \/ HandleExec \/ HandleGroupStop \/ HandleInterrupt \/ HandleFatal \/ HandleSignal
           \/ HandleKilled
  BY <1>4, RelayHandle, RelayHandleKilled
<1>5. CASE RollbackNext \/ RollbackWait \/ DetachPoll \/ DetachRegs \/ DetachWait \/ DetachEnd \/ CoreCommit
  BY <1>5, RelayLeaving
<1>6. CASE CollectStart \/ CollectList \/ CollectPoll \/ CollectRegs \/ CollectWait \/ CollectConfirm
  BY <1>6, RelayCollect, RelayConfirm
<1>7. CASE DumpStart \/ Abandon \/ Preserve \/ Restore
  BY <1>7, RelayDumpStart, RelayPreserve, RelayRestore
<1>8. CASE Meta \/ Loads \/ ResumeAll \/ InjectInVain \/ DumpChild \/ Inject
  BY <1>8, RelayMeta, RelayInject
<1>9. CASE Late \/ Finish \/ InjectDeath \/ Settle \/ SettleKilled \/ Commit
  BY <1>9, RelayFinish, RelaySettle, RelayCommit
<1>10. CASE Core \/ CoreLoads \/ KillCrashed
  BY <1>10, RelayCore, RelayKill
<1>11. CASE Watched
  BY <1>11, RelayTarget
<1> QED BY <1>1, <1>2, <1>3, <1>4, <1>5, <1>6, <1>7, <1>8, <1>9, <1>10, <1>11 DEF Next, Arthur

\* As long as no thread calls exec, and snapshots included: a signal that waitpid has told
\* Arthur of (in drain_monitor_events, a collection, an injected call or after the dump)
\* reaches its thread, once, unless the process dies first or a collection fails that has
\* read a fatal one.  With a full disk a commit that fails forgets a fatal one too.
THEOREM SignalsReadAreRelayed ==
  ASSUME ~DiskFull
  PROVE  Spec /\ []NoExecYet => ReadSignalsRelayed
<1> DEFINE Relay == \A s \in Sent : fate'[s] \in {"discarded", "twice"} =>
                      \/ fate[s] = fate'[s] \/ AliveThreads' = {} \/ \E t \in fresh : stop[t] = s
                      \/ s \in Fatal /\ pc = "restore" /\ coll.fatal # "none"
<1>1. /\ TypeInv /\ TypeInv' /\ WatchedInv /\ WatchedInv' /\ CrashWatched /\ CrashWatched' /\ NoExecYet /\ NoExecYet'
      /\ RelayInv /\ [Next]_vars
      => RelayInv' /\ [Relay]_vars
  <2> SUFFICES ASSUME TypeInv, TypeInv', WatchedInv, WatchedInv', CrashWatched, CrashWatched', NoExecYet, NoExecYet',
                      RelayInv, [Next]_vars
               PROVE  RelayInv' /\ [Relay]_vars
      OBVIOUS
  <2>1. WatchInv /\ WatchInv' /\ CrashInv /\ CrashInv'
    BY DEF WatchedInv, CrashWatched
  <2>2. RelayInv' /\ [ReadRelayed]_vars
    BY <2>1, RelayStep
  <2> QED BY <2>2 DEF ReadRelayed
<1>2. Init => RelayInv
  BY RelayInit
<1> HIDE DEF Relay
<1>3. Spec /\ []NoExecYet => [][Relay]_vars
  BY <1>1, <1>2, TypeInvariant, WatchInvariant, CrashInvariant, PTL DEF Spec
<1> QED BY <1>3 DEF Relay, ReadSignalsRelayed

=============================================================================
