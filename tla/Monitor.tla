------------------------------ MODULE Monitor -------------------------------
(***************************************************************************)
(* Monitor mode of src/src/core.cc: Coredump::monitor with monitor_threads,*)
(* the monitor branch of collect_threads, forkcore_m and                   *)
(* restore_target_after_fail.  Arthur seizes every thread of the target    *)
(* and then sleeps until a ptrace event, SIGUSR1 (take a snapshot) or      *)
(* SIGTERM (let go).  A thread that stops at a core-dumping signal makes it *)
(* freeze the process, write the core and let the process die of it.       *)
(*                                                                         *)
(* One action is one system call of Arthur with the code around it; the    *)
(* target (Seize) moves between any two of them.  Four loops are one step: *)
(* the readdir of list_task_tids (OneShot has it step by step), and the    *)
(* PTRACE_CONT or PTRACE_DETACH of a whole set of threads.                 *)
(***************************************************************************)
EXTENDS Seize

CONSTANTS Caught,    \* the ordinary signals that dump core unless handled
          MaxRounds, \* the 64 rounds of monitor_threads and collect_threads
          MaxDumps,  \* bound on the SIGUSR1 Arthur is sent
          DiskFull   \* whether writing and committing may fail

ASSUME MonitorAssumption ==
  /\ Caught \subseteq Ordinary /\ MaxRounds \in Nat \ {0}
  /\ MaxDumps \in Nat /\ DiskFull \in BOOLEAN
  /\ MaxExecs > 0 => Caught = {}   \* exec takes the handlers away
  /\ Fatal \cap {"failed", "exited", "KILL", "grouped"} = {}   \* forkcore_m's other results

VARIABLES pc,
          todo,         \* threads the current loop has still to handle
          tid, status,  \* the thread being handled and the stop waitpid returned
          mtids,        \* _monitor_tids
          leaderExited, \* _monitor_leader_exited
          crashTid,     \* _monitor_crash_tid
          exitSig,      \* exit_sig; crash_found is exitSig # "none"
          coll,         \* locals and results of collect_threads
          groupStop,    \* process_in_group_stop
          wanted,       \* dump_requested
          forkRc,       \* signal_forkcore
          progress,     \* progress of drain_monitor_events and monitor_threads
          shot,         \* forkcore_m: snapshot_tid, _monitor_recovery_failed, result
          req,          \* SIGUSR1 and SIGTERM pending, and the SIGUSR1 left
          rc,           \* value monitor will return
          published,    \* outputs committed
          history       \* what Arthur missed: the threads that could not be stopped to
                        \* detach, and whether one listed last was gone before its seize

ctl == <<pc, todo, tid, status>>
thr == <<mtids, leaderExited>>
crash == <<crashTid, exitSig>>
loop == <<groupStop, wanted, forkRc, progress>>
ends == <<rc, published, history>>
arthur == <<ctl, thr, crash, coll, loop, shot, req, ends>>
vars == <<kernel, arthur>>

LeastOf(S) == CHOOSE t \in S : \A u \in S : t <= u
Goto(l) == pc' = l
NoCollection == [caller |-> "none", held |-> {}, grouped |-> {}, fatal |-> "none",
                 tids |-> {}, relay |-> [t \in Tids |-> "none"], rounds |-> 0]
\* /proc/<pid>/task without a leader known to have exited.
Workers == Listed \ (IF leaderExited THEN {Leader} ELSE {})
\* A tracee that pt_wait waits for in vain until its deadline.
\* (One in exec waits for those Arthur holds; one whose tid exec took is gone.)
Stuck(t) ==
  /\ ~Waitable(t)
  /\ \/ Stopped(t) \/ task[t] \notin {"run", "dying", "exec"}
     \/ task[t] = "exec" /\ traced # {t}

Init ==
  /\ KernelInit
  /\ pc = "seize" /\ todo = {} /\ tid = Leader /\ status = "none"
  /\ mtids = {} /\ leaderExited = FALSE /\ crashTid = 0 /\ exitSig = "none"
  /\ coll = NoCollection
  /\ groupStop = FALSE /\ wanted = FALSE /\ forkRc = "none" /\ progress = FALSE
  /\ shot = [snap |-> Leader, failed |-> FALSE, result |-> "none"]
  /\ req = [usr1 |-> FALSE, term |-> FALSE, dumps |-> MaxDumps]
  /\ rc = 0 /\ published = {} /\ history = [gaveUp |-> {}, vanished |-> FALSE]

\* monitor gives up, or is done: every thread is let go first.
Quit(S, v) == Goto("detach") /\ todo' = S /\ rc' = v

-----------------------------------------------------------------------------
(* monitor_threads                                                         *)

Rollback == Goto("rollback") /\ todo' = mtids /\ rc' = -1

SeizeList ==
  /\ pc = "seize"
  /\ IF task[Leader] = "gone"
     THEN Rollback /\ UNCHANGED <<leaderExited, progress, coll>>
     ELSE /\ leaderExited' = (leaderExited \/ (coll.rounds = 0 /\ task[Leader] = "zombie"))
          /\ todo' = (Listed \ mtids) \ (IF leaderExited' THEN {Leader} ELSE {})
          /\ Goto("seizeEach") /\ progress' = FALSE
          /\ coll' = [coll EXCEPT !.rounds = @ + 1] /\ UNCHANGED rc
  /\ history' = [history EXCEPT !.vanished = FALSE]
  /\ UNCHANGED <<kernel, tid, status, mtids, crash, groupStop, wanted, forkRc, shot, req,
                 published>>

SeizeEach ==
  /\ pc = "seizeEach" /\ todo # {}
  /\ LET t == LeastOf(todo) IN
       \/ /\ Alive(t) \/ t \in traced
          /\ SeizeAll({t}) /\ mtids' = mtids \cup {t} /\ progress' = TRUE
          /\ todo' = todo \ {t} /\ UNCHANGED <<pc, leaderExited, rc, history>>
       \/ /\ t \notin traced
          /\ task[t] = "gone" \/ (t = Leader /\ task[t] = "zombie" /\ ~ExecUnderWay)
          /\ leaderExited' = (leaderExited \/ task[t] = "zombie")
          /\ history' = [history EXCEPT !.vanished = TRUE]
          /\ todo' = todo \ {t} /\ UNCHANGED <<kernel, pc, mtids, progress, rc>>
       \/ /\ t \notin traced /\ t # Leader /\ task[t] = "zombie" /\ ~ExecUnderWay /\ Rollback
          /\ UNCHANGED <<kernel, thr, progress, history>>
  /\ UNCHANGED <<tid, status, crash, coll, groupStop, wanted, forkRc, shot, req, published>>

SeizeEnd ==
  /\ pc = "seizeEach" /\ todo = {}
  /\ IF mtids = {} \/ (~leaderExited /\ Leader \notin mtids)
     THEN Rollback /\ UNCHANGED coll
     ELSE IF ~progress THEN Goto("drain") /\ coll' = NoCollection /\ UNCHANGED <<todo, rc>>
     ELSE IF coll.rounds = MaxRounds THEN Rollback /\ UNCHANGED coll
     ELSE Goto("seize") /\ UNCHANGED <<todo, rc, coll>>
  /\ UNCHANGED <<kernel, tid, status, thr, crash, loop, shot, req, published, history>>

\* Mutant of LetGo: forget the signal.
LetGoSilently(t) == DetachWaited(t, "none")

\* Detach relays the signal a thread is stopped at, if waitpid has just said so.
LetGo(t) == DetachWaited(t, IF t \in fresh /\ stop[t] \in Signals THEN stop[t] ELSE "none")

GiveUp(t) == history' = [history EXCEPT !.gaveUp = @ \cup ({t} \cap traced)]

\* The thread set seized so far is stopped and detached one by one.
RollbackNext ==
  /\ pc = "rollback"
  /\ \/ /\ todo = {} /\ Goto("returned") /\ mtids' = {} /\ UNCHANGED <<kernel, todo, tid>>
     \/ /\ todo # {} /\ tid' = LeastOf(todo) /\ UNCHANGED mtids
        /\ IF LeastOf(todo) \in traced
           THEN Interrupt(LeastOf(todo)) /\ Goto("rollbackWait") /\ UNCHANGED todo
           ELSE todo' = todo \ {LeastOf(todo)} /\ UNCHANGED <<kernel, pc>>
  /\ UNCHANGED <<status, leaderExited, crash, coll, loop, shot, req, ends>>

RollbackWait ==
  /\ pc = "rollbackWait" /\ Goto("rollback") /\ todo' = todo \ {tid}
  /\ \/ tid \in fresh /\ LetGo(tid) /\ UNCHANGED history
     \/ Reapable(tid) /\ WaitExit(tid) /\ UNCHANGED history
     \/ Stuck(tid) /\ GiveUp(tid) /\ UNCHANGED kernel
  /\ UNCHANGED <<tid, status, thr, crash, coll, loop, shot, req, rc, published>>

-----------------------------------------------------------------------------
(* detach_monitored_threads                                                *)

\* Mutant of Detached: forget the new thread of a clone event.
DetachedAlone(t) == LetGo(t) /\ todo' = todo \ {t} /\ UNCHANGED mtids

\* The new thread of a clone event is let go as well.
Detached(t) ==
  LET new == IF t \in fresh /\ stop[t] = "clone" THEN {child[t]} ELSE {} IN
  /\ LetGo(t) /\ todo' = (todo \ {t}) \cup new /\ mtids' = mtids \cup new

DetachPoll ==
  /\ pc = "detach" /\ todo # {}
  /\ tid' = LeastOf(todo)
  /\ LET t == LeastOf(todo) IN
       \/ t \in fresh /\ Detached(t) /\ UNCHANGED pc
       \/ Reapable(t) /\ WaitExit(t) /\ todo' = todo \ {t} /\ UNCHANGED <<pc, mtids>>
       \/ /\ ~Waitable(t)
          /\ IF t = Leader /\ leaderExited /\ task[t] = "zombie"
             THEN todo' = todo \ {t} /\ UNCHANGED pc
             ELSE Goto("detachRegs") /\ UNCHANGED todo
          /\ UNCHANGED <<kernel, mtids>>
  /\ UNCHANGED <<status, leaderExited, crash, coll, loop, shot, req, ends>>

\* PTRACE_GETREGS tells a stopped thread; waitpid is asked again for its stop.
DetachRegs ==
  /\ pc = "detachRegs"
  /\ \/ Answers(tid) /\ Goto("detach") /\ Detached(tid)
     \/ ~Answers(tid) /\ Interrupt(tid) /\ Goto("detachWait") /\ UNCHANGED <<todo, mtids>>
     \/ tid \notin traced /\ Goto("detach") /\ todo' = todo \ {tid} /\ UNCHANGED <<kernel, mtids>>
  /\ UNCHANGED <<tid, status, leaderExited, crash, coll, loop, shot, req, ends>>

\* Mutant of DetachWait: wait for a thread without a deadline.
DetachWaitForever ==
  /\ pc = "detachWait" /\ Goto("detach")
  /\ \/ tid \in fresh /\ Detached(tid) /\ UNCHANGED <<rc, history>>
     \/ Reapable(tid) /\ WaitExit(tid) /\ todo' = todo \ {tid} /\ rc' = -1 /\ UNCHANGED <<mtids, history>>
  /\ UNCHANGED <<tid, status, leaderExited, crash, coll, loop, shot, req, published>>

DetachWait ==
  /\ pc = "detachWait" /\ Goto("detach")
  /\ \/ tid \in fresh /\ Detached(tid) /\ UNCHANGED <<rc, history>>
     \/ Reapable(tid) /\ WaitExit(tid) /\ todo' = todo \ {tid} /\ rc' = -1 /\ UNCHANGED <<mtids, history>>
     \/ Stuck(tid) /\ GiveUp(tid) /\ todo' = todo \ {tid} /\ rc' = -1
        /\ UNCHANGED <<kernel, mtids>>
  /\ UNCHANGED <<tid, status, leaderExited, crash, coll, loop, shot, req, published>>

DetachEnd ==
  /\ pc = "detach" /\ todo = {} /\ Goto("returned") /\ mtids' = {}
  /\ UNCHANGED <<kernel, todo, tid, status, leaderExited, crash, coll, loop, shot, req, ends>>

-----------------------------------------------------------------------------
(* drain_monitor_events                                                    *)

\* Mutant of DrainStart: poll the leader only.
DrainLeader ==
  /\ pc = "drain" /\ Goto("poll") /\ todo' = mtids \cap {Leader} /\ progress' = FALSE
  /\ UNCHANGED <<kernel, tid, status, thr, crash, coll, groupStop, wanted, forkRc, shot, req, ends>>

DrainStart ==
  /\ pc = "drain" /\ Goto("poll") /\ todo' = mtids /\ progress' = FALSE
  /\ UNCHANGED <<kernel, tid, status, thr, crash, coll, groupStop, wanted, forkRc, shot, req, ends>>

\* The process was killed by a signal that dumps core.
DiedOfFatal == \E s \in Fatal : fate[s] \in {"delivered", "twice"}

Poll ==
  /\ pc = "poll" /\ todo # {}
  /\ tid' = LeastOf(todo)
  /\ LET t == LeastOf(todo) IN
       \/ /\ t \in fresh /\ WaitStop(t) /\ status' = stop[t] /\ Goto("handle")
          /\ UNCHANGED <<todo, mtids, progress, rc>>
       \/ /\ Reapable(t) /\ WaitExit(t) /\ mtids' = mtids \ {t}
          /\ IF DiedOfFatal THEN Quit(mtids \ {t}, -1)
             ELSE IF t = Leader THEN Goto("returned") /\ UNCHANGED <<todo, rc>>
             ELSE todo' = todo \ {t} /\ UNCHANGED <<pc, rc>>
          /\ progress' = TRUE /\ UNCHANGED status
       \/ /\ t \in traced /\ ~Waitable(t)
          /\ todo' = todo \ {t} /\ UNCHANGED <<kernel, pc, status, mtids, progress, rc>>
       \/ /\ t \notin traced   \* ECHILD: another wait has had its status
          /\ IF task[t] # "gone" THEN Quit(mtids, -1) /\ UNCHANGED <<mtids, progress>>
             ELSE /\ mtids' = mtids \ {t}
                  /\ IF t = Leader THEN Goto("returned") /\ UNCHANGED <<todo, progress>>
                     ELSE todo' = todo \ {t} /\ progress' = TRUE /\ UNCHANGED pc
                  /\ UNCHANGED rc
          /\ UNCHANGED <<kernel, status>>
  /\ UNCHANGED <<leaderExited, crash, coll, groupStop, wanted, forkRc, shot, req, published, history>>

\* While a crash is known no thread is resumed.
Resume(sig) == IF exitSig = "none" THEN Continue(Just(tid, sig), FALSE) ELSE UNCHANGED kernel
\* Does the thread still answer the calls its stop is handled with?  It may have
\* been killed, and stand at its exit, or exec may have replaced it.
StillThere ==
  IF Renamed(tid) THEN exitSig # "none" /\ status = "exit"
  ELSE Alive(tid) \/ (Stopped(tid) /\ status \notin {"clone", "group"})
Handling(s) == pc = "handle" /\ StillThere /\ status \in s
Handled == Goto("poll") /\ todo' = todo \ {tid} /\ progress' = TRUE /\ UNCHANGED <<tid, status>>

\* Mutant of HandleClone: do not register the new thread.
HandleCloneUnregistered ==
  /\ Handling({"clone"}) /\ Handled
  /\ AfterClone(tid, child[tid] \in Procs, exitSig = "none")
  /\ UNCHANGED <<thr, crash, coll, groupStop, wanted, forkRc, shot, req, ends>>

\* Mutant of HandleClone: forget to resume.
HandleCloneForgotten ==
  /\ Handling({"clone"}) /\ Handled
  /\ mtids' = IF child[tid] \in Procs THEN mtids ELSE mtids \cup {child[tid]}
  /\ AfterClone(tid, child[tid] \in Procs, FALSE)
  /\ UNCHANGED <<leaderExited, crash, coll, groupStop, wanted, forkRc, shot, req, ends>>

HandleClone ==
  /\ Handling({"clone"}) /\ Handled
  /\ mtids' = IF child[tid] \in Procs THEN mtids ELSE mtids \cup {child[tid]}
  /\ AfterClone(tid, child[tid] \in Procs, exitSig = "none")
  /\ UNCHANGED <<leaderExited, crash, coll, groupStop, wanted, forkRc, shot, req, ends>>

\* Mutant of HandleExit: take the event's message for the pid of a child.
HandleExitAsClone ==
  /\ Handling({"exit"}) /\ Handled /\ mtids' = mtids \cup {child[tid]} /\ Resume("none")
  /\ UNCHANGED <<leaderExited, crash, coll, groupStop, wanted, forkRc, shot, req, ends>>

HandleExit ==
  /\ Handling({"exit"}) /\ Handled
  /\ leaderExited' = (leaderExited \/ tid = Leader) /\ Resume("none")
  /\ UNCHANGED <<mtids, crash, coll, groupStop, wanted, forkRc, shot, req, ends>>

\* Mutant of HandleExec: the leader stays exited.
HandleExecAsEvent ==
  /\ Handling({"exec"}) /\ Handled /\ Resume("none")
  /\ UNCHANGED <<thr, crash, coll, groupStop, wanted, forkRc, shot, req, ends>>

\* After an exec Arthur starts afresh with the leader.
HandleExec ==
  /\ Handling({"exec"}) /\ Goto("poll") /\ todo' = {} /\ progress' = TRUE
  /\ mtids' = {Leader} /\ leaderExited' = FALSE /\ groupStop' = FALSE
  /\ coll' = [coll EXCEPT !.relay = NoCollection.relay] /\ Resume("none")
  /\ UNCHANGED <<tid, status, crash, wanted, forkRc, shot, req, ends>>

HandleGroupStop ==
  /\ Handling({"group"}) /\ Handled /\ Listen(tid) /\ groupStop' = TRUE
  /\ UNCHANGED <<thr, crash, coll, wanted, forkRc, shot, req, ends>>

\* Mutant of HandleInterrupt: wait for a SIGCONT that need not be delivered.
HandleInterruptOnly ==
  /\ Handling({"intr"}) /\ Handled /\ Resume("none") /\ UNCHANGED groupStop
  /\ UNCHANGED <<thr, crash, coll, wanted, forkRc, shot, req, ends>>

HandleInterrupt ==
  /\ Handling({"intr"}) /\ Handled /\ Resume("none")
  /\ groupStop' = (groupStop /\ exitSig # "none")
  /\ UNCHANGED <<thr, crash, coll, wanted, forkRc, shot, req, ends>>

\* Only the first core-dumping signal counts; its thread stays stopped.
HandleFatal ==
  /\ Handling(Fatal) /\ Handled
  /\ IF exitSig = "none" THEN exitSig' = status /\ crashTid' = tid ELSE UNCHANGED crash
  /\ UNCHANGED <<kernel, thr, coll, groupStop, wanted, forkRc, shot, req, ends>>

HandleSignal ==
  /\ Handling(Signals \ Fatal) /\ Handled
  /\ IF status \in Caught THEN Continue(Just(tid, status), FALSE) ELSE Resume(status)
  /\ groupStop' = (groupStop /\ ~(status = "CONT" /\ exitSig = "none"))
  /\ UNCHANGED <<thr, crash, coll, wanted, forkRc, shot, req, ends>>

\* The thread was killed between waitpid and the call that resumes it.
HandleKilled ==
  /\ pc = "handle" /\ ~StillThere
  /\ IF exitSig = "none" \/ status \in {"group", "clone"} \cup Caught
     THEN /\ IF status \in Fatal THEN exitSig' = status /\ crashTid' = tid /\ Handled /\ UNCHANGED rc
             ELSE Quit(mtids, -1) /\ UNCHANGED <<crash, tid, status, progress>>
     ELSE Handled /\ UNCHANGED <<crash, rc>>
  /\ leaderExited' = (leaderExited \/ (tid = Leader /\ status = "exit"))
  /\ UNCHANGED <<kernel, mtids, coll, groupStop, wanted, forkRc, shot, req, published, history>>

\* The pass over the threads is over: is there another one, and what then?
PassEnd ==
  /\ pc = "poll" /\ todo = {}
  /\ IF mtids = {}
     THEN LET foreign == {t \in AliveThreads : t \notin traced} IN
          /\ mtids' = {t \in Listed \cap traced : \A u \in foreign : t < u}
          /\ IF foreign # {} THEN Quit(mtids', -1)
             ELSE Goto(IF mtids' = {} THEN "returned" ELSE "drain") /\ UNCHANGED <<todo, rc>>
     ELSE /\ Goto(IF progress THEN "drain" ELSE IF exitSig # "none" THEN "collect" ELSE "dispatch")
          /\ UNCHANGED <<todo, rc, mtids>>
  /\ UNCHANGED <<kernel, tid, status, leaderExited, crash, coll, loop, shot, req, published, history>>

-----------------------------------------------------------------------------
(* monitor: the main loop                                                  *)

Dispatch ==
  /\ pc = "dispatch"
  /\ \/ /\ forkRc = "exited" /\ Quit(mtids, 0) /\ UNCHANGED <<kernel, thr, crash, loop>>
     \/ /\ forkRc \in {"failed", "KILL"} /\ forkRc' = "none" /\ Goto("drain")
        /\ UNCHANGED <<kernel, todo, thr, crash, groupStop, wanted, progress, rc>>
     \/ /\ forkRc \in Fatal /\ exitSig' = forkRc /\ Goto("collect")
        /\ crashTid' = IF crashTid = 0 THEN Leader ELSE crashTid
        /\ UNCHANGED <<kernel, todo, thr, loop, rc>>
     \/ /\ forkRc = "none" /\ wanted /\ wanted' = FALSE
        /\ Goto(IF groupStop THEN "drain" ELSE "dump")
        /\ UNCHANGED <<kernel, todo, thr, crash, groupStop, forkRc, progress, rc>>
     \/ /\ forkRc = "none" /\ ~wanted /\ Goto("wait")
        /\ UNCHANGED <<kernel, todo, thr, crash, loop, rc>>
  /\ UNCHANGED <<tid, status, coll, shot, req, published, history>>

\* sigwaitinfo returns the pending signal of the lowest number.
AwaitSignal ==
  /\ pc = "wait"
  /\ \/ /\ req.usr1 /\ wanted' = TRUE /\ req' = [req EXCEPT !.usr1 = FALSE] /\ Goto("drain")
        /\ UNCHANGED <<kernel, todo, rc>>
     \/ /\ ~req.usr1 /\ req.term /\ req' = [req EXCEPT !.term = FALSE]
        /\ Quit(mtids, 0) /\ UNCHANGED <<kernel, wanted>>
     \/ /\ ~req.usr1 /\ ~req.term /\ TakeChld /\ Goto("drain") /\ UNCHANGED <<todo, rc, wanted, req>>
  /\ UNCHANGED <<tid, status, thr, crash, coll, groupStop, forkRc, progress, shot, published, history>>

-----------------------------------------------------------------------------
(* collect_threads                                                         *)

CollectStart ==
  /\ pc = "collect" /\ Goto("list")
  /\ coll' = [NoCollection EXCEPT !.caller = IF exitSig = "none" THEN "dump" ELSE "crash"]
  /\ UNCHANGED <<kernel, todo, tid, status, thr, crash, loop, shot, req, ends>>

\* A collection that fails: forkcore_m restores the target, a crash is killed.
CollectFails ==
  IF coll.caller = "crash" THEN Goto("kill") /\ rc' = -1 ELSE Goto("restore") /\ UNCHANGED rc

\* The list is read and the threads new in it are seized.
CollectList ==
  /\ pc = "list"
  /\ LET new == Workers \ mtids
         dead == {t \in new : t \notin traced /\ ~Alive(t)}
         seized == {t \in new : \A u \in dead : t < u} IN
       /\ SeizeAll(seized) /\ mtids' = mtids \cup seized
       /\ IF Listed = {} \/ dead # {} THEN CollectFails /\ UNCHANGED todo
          ELSE /\ todo' = (mtids' \ coll.held) \ (IF leaderExited THEN {Leader} ELSE {})
               /\ Goto("stop") /\ UNCHANGED rc
  /\ UNCHANGED <<tid, status, leaderExited, crash, coll, loop, shot, req, published, history>>

\* record_stop, for a stop that waitpid has returned.
RecordStop(t) ==
  LET s == stop[t] IN
  /\ coll' = [coll EXCEPT !.held = @ \cup {t},
                          !.grouped = IF s = "group" THEN @ \cup {t} ELSE @,
                          !.fatal = IF s \in Fatal /\ @ = "none" THEN s ELSE @,
                          !.relay[t] = IF s \in Signals \ Fatal THEN s ELSE @]
  /\ crashTid' = IF s \in Fatal /\ coll.fatal = "none" THEN t ELSE crashTid
  /\ mtids' = IF s = "clone" /\ child[t] \notin Procs THEN mtids \cup {child[t]} ELSE mtids
  /\ IF s = "clone" /\ child[t] \in Procs THEN AfterClone(t, TRUE, FALSE) ELSE WaitStop(t)

CollectPoll ==
  /\ pc = "stop" /\ todo # {} /\ tid' = LeastOf(todo)
  /\ LET t == LeastOf(todo) IN
       \/ /\ t = crashTid /\ todo' = todo \ {t} /\ coll' = [coll EXCEPT !.held = @ \cup {t}]
          /\ UNCHANGED <<kernel, pc, mtids, crashTid, rc>>
       \/ /\ t # crashTid /\ t \in fresh /\ RecordStop(t) /\ todo' = todo \ {t}
          /\ UNCHANGED <<pc, rc>>
       \/ /\ t # crashTid /\ Reapable(t) /\ WaitExit(t) /\ mtids' = mtids \ {t}
          /\ todo' = todo \ {t} /\ UNCHANGED <<crashTid, coll>>
          /\ IF t = Leader THEN CollectFails ELSE UNCHANGED <<pc, rc>>
       \/ /\ t # crashTid /\ ~Waitable(t) /\ Goto("regs")
          /\ UNCHANGED <<kernel, todo, mtids, crashTid, coll, rc>>
  /\ UNCHANGED <<status, leaderExited, exitSig, loop, shot, req, published, history>>

\* A thread that answers PTRACE_GETREGS counts as stopped, read or not.
CollectRegs ==
  /\ pc = "regs"
  /\ \/ /\ Answers(tid) /\ Goto("stop") /\ todo' = todo \ {tid}
        /\ coll' = [coll EXCEPT !.held = @ \cup {tid}] /\ UNCHANGED <<kernel, mtids, rc>>
     \/ /\ ~Answers(tid) /\ Interrupt(tid) /\ Goto("stopWait")
        /\ UNCHANGED <<todo, mtids, coll, rc>>
     \/ /\ tid \notin traced /\ UNCHANGED <<kernel, coll>>
        /\ IF task[tid] = "gone" THEN /\ mtids' = mtids \ {tid} /\ todo' = todo \ {tid}
                                      /\ Goto("stop") /\ UNCHANGED rc
           ELSE CollectFails /\ UNCHANGED <<todo, mtids>>
  /\ UNCHANGED <<tid, status, leaderExited, crash, loop, shot, req, published, history>>

\* Mutant of CollectWait: no deadline.
CollectWaitForever ==
  /\ pc = "stopWait" /\ tid \in fresh /\ RecordStop(tid) /\ Goto("stop") /\ todo' = todo \ {tid}
  /\ UNCHANGED <<tid, status, leaderExited, exitSig, loop, shot, req, rc, published, history>>

CollectWait ==
  /\ pc = "stopWait"
  /\ \/ tid \in fresh /\ RecordStop(tid) /\ Goto("stop") /\ todo' = todo \ {tid} /\ UNCHANGED rc
     \/ /\ (Reapable(tid) /\ WaitExit(tid)) \/ (task[tid] = "gone" /\ UNCHANGED kernel)
        /\ Goto("stop") /\ todo' = todo \ {tid}
        /\ mtids' = mtids \ {tid} /\ UNCHANGED <<crashTid, coll, rc>>
     \/ Stuck(tid) /\ task[tid] # "gone" /\ CollectFails /\ UNCHANGED <<kernel, todo, mtids, crashTid, coll>>
  /\ UNCHANGED <<tid, status, leaderExited, exitSig, loop, shot, req, published, history>>

\* Every listed thread must be stopped; then it depends on what they stopped at.
CollectConfirm ==
  /\ pc = "stop" /\ todo = {}
  /\ IF Listed = {} THEN CollectFails /\ UNCHANGED <<todo, mtids, coll>>
     ELSE IF ~(Workers \subseteq coll.held \cap mtids)
     THEN /\ coll' = [coll EXCEPT !.rounds = @ + 1] /\ UNCHANGED <<todo, mtids>>
          /\ IF coll.rounds + 1 = MaxRounds THEN CollectFails ELSE Goto("list") /\ UNCHANGED rc
     ELSE /\ mtids' = mtids \cap (Workers \cup (IF leaderExited THEN {Leader} ELSE {}))
          /\ coll' = [coll EXCEPT !.tids = Workers]
          /\ IF coll.fatal # "none"
             THEN IF coll.caller = "crash" THEN CollectFails /\ UNCHANGED todo
                  ELSE Goto("abandon") /\ UNCHANGED <<todo, rc>>
             ELSE IF coll.grouped # {} /\ crashTid = 0
             THEN Goto("preserve") /\ todo' = Workers /\ UNCHANGED rc
             ELSE IF \E t \in Tids : coll.relay[t] # "none" THEN CollectFails /\ UNCHANGED todo
             ELSE Goto(IF coll.caller = "crash" THEN "core" ELSE "meta") /\ UNCHANGED <<todo, rc>>
  /\ UNCHANGED <<kernel, tid, status, leaderExited, crash, loop, shot, req, published, history>>

-----------------------------------------------------------------------------
(* forkcore_m                                                              *)

\* What the main loop does with the value forkcore_m returns.
ForkcoreReturns(v) ==
  IF shot'.failed THEN Quit(mtids, -1) /\ UNCHANGED <<groupStop, forkRc>>
  ELSE /\ Goto("drain") /\ groupStop' = (groupStop \/ v = "grouped")
       /\ forkRc' = IF v = "grouped" THEN "none" ELSE v
       /\ UNCHANGED <<todo, rc>>

\* The leader, or a worker that stands in for it, is interrupted first.
DumpStart ==
  /\ pc = "dump"
  /\ LET candidates == IF leaderExited THEN mtids \ {Leader} ELSE {Leader} IN
       \/ /\ candidates # {}
          /\ shot' = [snap |-> LeastOf(candidates), failed |-> FALSE, result |-> "none"]
          /\ Interrupt(LeastOf(candidates)) /\ Goto("collect")
          /\ UNCHANGED <<todo, rc, groupStop, forkRc>>
       \/ /\ DiskFull \/ ~\E t \in candidates \cap traced : \A u \in candidates : t <= u
          /\ shot' = [shot EXCEPT !.failed = FALSE, !.result = "none"]
          /\ ForkcoreReturns("failed") /\ UNCHANGED kernel
  /\ UNCHANGED <<tid, status, thr, crash, coll, wanted, progress, req, published, history>>

\* A fatal signal in the collection: every thread stays stopped for the crash.
Abandon ==
  /\ pc = "abandon" /\ UNCHANGED shot /\ ForkcoreReturns(coll.fatal)
  /\ UNCHANGED <<kernel, tid, status, thr, crash, coll, wanted, progress, req, published, history>>

\* Mutant of Preserve: resume the threads of the group-stop like the others.
PreserveResumes ==
  /\ pc = "preserve" /\ UNCHANGED shot
  /\ \/ todo = {} /\ ForkcoreReturns("grouped") /\ UNCHANGED kernel
     \/ /\ todo # {} /\ todo' = todo \ {LeastOf(todo)} /\ UNCHANGED <<pc, rc, groupStop, forkRc>>
        /\ Continue(Just(LeastOf(todo), coll.relay[LeastOf(todo)]), FALSE)
  /\ UNCHANGED <<tid, status, thr, crash, coll, wanted, progress, req, published, history>>

\* A group-stop in the collection: keep it, and release the other threads.
Preserve ==
  /\ pc = "preserve" /\ UNCHANGED shot
  /\ \/ todo = {} /\ ForkcoreReturns("grouped") /\ UNCHANGED kernel
     \/ /\ todo # {} /\ todo' = todo \ {LeastOf(todo)} /\ UNCHANGED <<pc, rc, groupStop, forkRc>>
        /\ LET t == LeastOf(todo) IN
             IF t \notin coll.grouped THEN Continue(Just(t, coll.relay[t]), FALSE)
             ELSE IF Alive(t) THEN Listen(t) ELSE UNCHANGED kernel
  /\ UNCHANGED <<tid, status, thr, crash, coll, wanted, progress, req, published, history>>

\* Mutant of Restore: resume the leader and forget the workers.
RestoreLeader ==
  /\ pc = "restore" /\ UNCHANGED shot
  /\ Continue([t \in mtids \cap {Leader} |-> coll.relay[t]], FALSE) /\ ForkcoreReturns("failed")
  /\ UNCHANGED <<tid, status, thr, crash, coll, wanted, progress, req, published, history>>

\* Mutant of Restore: resume without the signals intercepted.
RestoreSilently ==
  /\ pc = "restore" /\ UNCHANGED shot
  /\ Continue([t \in mtids |-> "none"], FALSE) /\ ForkcoreReturns("failed")
  /\ UNCHANGED <<tid, status, thr, crash, coll, wanted, progress, req, published, history>>

\* restore_target_after_fail
Restore ==
  /\ pc = "restore" /\ UNCHANGED shot
  /\ Continue([t \in mtids |-> coll.relay[t]], FALSE) /\ ForkcoreReturns("failed")
  /\ UNCHANGED <<tid, status, thr, crash, coll, wanted, progress, req, published, history>>

HasMemory(t) == task[t] \in {"run", "sleep", "exec", "dying"}

\* Mutant of Meta: the threads go on once their registers are known.
MetaResumes ==
  /\ pc = "meta"
  /\ LET ok == HasMemory(shot.snap) /\ \A t \in coll.tids : Answers(t) IN
       \/ ok /\ Goto("loads") /\ Continue([t \in coll.tids |-> coll.relay[t]], FALSE)
       \/ ok /\ ~leaderExited /\ Goto("inject") /\ UNCHANGED kernel
       \/ (~ok \/ DiskFull) /\ Goto("restore") /\ UNCHANGED kernel
  /\ UNCHANGED <<todo, tid, status, thr, crash, coll, loop, shot, req, ends>>

\* Process and thread metadata; a thread that is not stopped, whatever
\* collect_threads took it for, does not show its registers.
Meta ==
  /\ pc = "meta"
  /\ LET ok == HasMemory(shot.snap) /\ \A t \in coll.tids : Answers(t) IN
       \/ ok /\ Goto("loads")
       \/ ok /\ ~leaderExited /\ Goto("inject")
       \/ (~ok \/ DiskFull) /\ Goto("restore")
  /\ UNCHANGED <<kernel, todo, tid, status, thr, crash, coll, loop, shot, req, ends>>

\* The direct snapshot reads the memory of the stopped target itself.
Loads ==
  /\ pc = "loads"
  /\ \/ /\ HasMemory(shot.snap) /\ Goto("commit")
        /\ Continue([t \in coll.tids |-> coll.relay[t]], FALSE)
     \/ (DiskFull \/ ~HasMemory(shot.snap)) /\ Goto("restore") /\ UNCHANGED kernel
  /\ UNCHANGED <<todo, tid, status, thr, crash, coll, loop, shot, req, ends>>

\* The leader is made to call mmap, fork and munmap.
Inject ==
  /\ pc = "inject" /\ Alive(Leader) /\ stop[Leader] # "exit"
  /\ \/ /\ RunInjected("none") /\ (Goto("resume") \/ Goto("restore"))
        /\ UNCHANGED <<crashTid, coll, todo, rc, groupStop, forkRc, shot>>
     \/ \E s \in PendingFor(Leader) \ Fatal :
          /\ RunInjected(s) /\ Goto("restore") /\ coll' = [coll EXCEPT !.relay[Leader] = s]
          /\ UNCHANGED <<crashTid, todo, rc, groupStop, forkRc, shot>>
     \/ \E s \in PendingFor(Leader) \cap Fatal :
          /\ RunInjected(s) /\ UNCHANGED <<shot, coll>> /\ ForkcoreReturns(s)
          /\ crashTid' = Leader
  /\ UNCHANGED <<tid, status, thr, exitSig, wanted, progress, req, published, history>>

\* A leader that is dead or about to exit does not come back from the call.
InjectInVain ==
  /\ pc = "inject" /\ Goto("restore")
  /\ \/ /\ ~Alive(Leader) /\ (UNCHANGED kernel \/ WaitExit(Leader))
        /\ \E b \in BOOLEAN : shot' = [shot EXCEPT !.failed = b]
     \/ /\ Alive(Leader) /\ stop[Leader] = "exit" /\ Continue(Just(Leader, "none"), FALSE)
        /\ shot' = [shot EXCEPT !.failed = TRUE]
  /\ UNCHANGED <<todo, tid, status, thr, crash, coll, loop, req, ends>>

\* What the death of the leader tells whoever reads its status.
Verdicts == IF DiedOfFatal THEN {s \in Fatal : fate[s] \in {"delivered", "twice"}}
            ELSE {"exited", "KILL"}

\* A death that the first of the calls meets is told to the main loop at once:
\* PTRACE_CONT fails, or the call or detect_leader_death has the status.
InjectDeath ==
  /\ pc = "inject" /\ ~Alive(Leader)
  /\ \E b \in BOOLEAN : shot' = [shot EXCEPT !.failed = b]
  /\ \/ UNCHANGED <<kernel, crashTid>> /\ ForkcoreReturns("exited")
     \/ /\ Reapable(Leader) /\ (WaitExit(Leader) \/ UNCHANGED kernel)
        /\ \E v \in Verdicts \ {"KILL"} :
             ForkcoreReturns(v) /\ crashTid' = IF v \in Fatal THEN Leader ELSE crashTid
  /\ UNCHANGED <<tid, status, thr, coll, exitSig, wanted, progress, req, published, history>>

\* Mutant of ResumeAll: forget the workers.
ResumeLeader ==
  /\ pc = "resume" /\ Goto("child") /\ Continue(Just(Leader, "none"), FALSE)
  /\ UNCHANGED <<todo, tid, status, thr, crash, coll, loop, shot, req, ends>>

ResumeAll ==
  /\ pc = "resume" /\ Goto("child")
  /\ Continue([t \in coll.tids |-> IF t = Leader THEN "none" ELSE coll.relay[t]], FALSE)
  /\ UNCHANGED <<todo, tid, status, thr, crash, coll, loop, shot, req, ends>>

\* The memory is read from the forked child, which is then killed.
DumpChild ==
  /\ pc = "child" /\ ChildDies
  /\ (Goto("finish") \/ (DiskFull /\ Goto("late")))
  /\ UNCHANGED <<todo, tid, status, thr, crash, coll, loop, shot, req, ends>>

\* recover_after_resume: stop the leader but leave its stop to the main loop.
Late ==
  /\ \/ pc = "late" /\ Interrupt(Leader) /\ Goto("lateWait")
        /\ UNCHANGED <<todo, rc, groupStop, forkRc, shot>>
     \/ /\ \/ pc = "late" /\ Leader \notin traced /\ shot' = [shot EXCEPT !.failed = TRUE]
           \/ pc = "lateWait" /\ Leader \in fresh /\ UNCHANGED shot
           \/ /\ pc = "lateWait" /\ (Reapable(Leader) \/ Stuck(Leader))
              /\ shot' = [shot EXCEPT !.failed = TRUE]
        /\ ForkcoreReturns("failed") /\ UNCHANGED kernel
  /\ UNCHANGED <<tid, status, thr, crash, coll, wanted, progress, req, published, history>>

\* The leader's state after the dump: a stop of its own, its death, or a stop
\* that an interrupt brings about.
Finish ==
  /\ \/ /\ pc \in {"finish", "finishWait"} /\ Leader \in fresh /\ WaitStop(Leader)
        /\ status' = stop[Leader] /\ Goto("settle") /\ UNCHANGED <<todo, rc, groupStop, forkRc, shot>>
     \/ /\ pc = "finish" /\ ~Waitable(Leader) /\ Interrupt(Leader)
        /\ Goto("finishWait") /\ UNCHANGED <<status, todo, rc, groupStop, forkRc, shot>>
     \/ /\ pc = "finish" /\ Reapable(Leader) /\ WaitExit(Leader) /\ UNCHANGED <<status, shot>>
        /\ \E v \in Verdicts : ForkcoreReturns(v)
     \/ /\ \/ pc = "finish" /\ Leader \notin traced /\ UNCHANGED kernel
           \/ pc = "finishWait" /\ Stuck(Leader) /\ UNCHANGED kernel
           \/ pc = "finishWait" /\ Reapable(Leader) /\ WaitExit(Leader)
        /\ shot' = [shot EXCEPT !.failed = TRUE] /\ ForkcoreReturns("failed") /\ UNCHANGED status
  /\ UNCHANGED <<tid, thr, crash, coll, wanted, progress, req, published, history>>

Settled(v) == Goto("commit") /\ shot' = [shot EXCEPT !.result = v] /\ UNCHANGED status
Settle ==
  /\ pc = "settle" /\ Alive(Leader)
  /\ \/ status = "group" /\ Listen(Leader) /\ Settled("grouped")
     \/ status = "clone" /\ AfterClone(Leader, TRUE, TRUE) /\ Settled("none")
     \/ status \in {"exit", "exec"} /\ Continue(Just(Leader, "none"), FALSE) /\ Settled("none")
     \/ status \in Fatal /\ UNCHANGED kernel /\ Settled(status)
     \/ status \in Signals \ Fatal /\ Continue(Just(Leader, status), FALSE) /\ Settled("none")
     \/ status = "intr" /\ Continue(Just(Leader, "none"), FALSE) /\ Settled("none")
     \* The injected waitpid is cut short by a signal of the target's own.
     \/ /\ status \in {"intr", "CHLD"} /\ \E s \in PendingFor(Leader) : RunInjected(s) /\ status' = s
        /\ UNCHANGED <<pc, shot>>
  /\ UNCHANGED <<todo, tid, thr, crash, coll, loop, req, ends>>

\* One that was killed at its stop: a call that needs the stop fails.
SettleKilled ==
  /\ pc = "settle" /\ ~Alive(Leader) /\ Goto("commit")
  /\ shot' = [shot EXCEPT !.failed = status \in {"intr", "clone"},
                          !.result = IF status \in Fatal THEN status
                                     ELSE IF status = "group" THEN "grouped" ELSE "none"]
  /\ UNCHANGED <<kernel, todo, tid, status, thr, crash, coll, loop, req, ends>>

\* commit_atomic_lz4; a failure forgets the result.
Commit ==
  /\ pc = "commit" /\ UNCHANGED shot
  /\ \/ ~shot.failed /\ ForkcoreReturns(shot.result) /\ published' = published \cup {"snapshot"}
     \/ (shot.failed \/ DiskFull) /\ ForkcoreReturns("failed") /\ UNCHANGED published
  /\ UNCHANGED <<kernel, tid, status, thr, crash, coll, wanted, progress, req, history>>

-----------------------------------------------------------------------------
(* monitor: the crash                                                      *)

Source == IF leaderExited THEN crashTid ELSE Leader

\* The metadata of the process and of its threads, the crashed one first.
Core ==
  /\ pc = "core"
  /\ LET ok == crashTid \in coll.tids /\ HasMemory(Source) /\ \A t \in coll.tids : Answers(t) IN
       \/ ok /\ Goto("coreLoads") /\ UNCHANGED rc
       \/ (~ok \/ DiskFull) /\ Goto("kill") /\ rc' = -1
  /\ UNCHANGED <<kernel, todo, tid, status, thr, crash, coll, loop, shot, req, published, history>>

CoreLoads ==
  /\ pc = "coreLoads" /\ Goto("kill")
  /\ \/ HasMemory(Source) /\ UNCHANGED rc
     \/ (DiskFull \/ ~HasMemory(Source)) /\ rc' = -1
  /\ UNCHANGED <<kernel, todo, tid, status, thr, crash, coll, loop, shot, req, published, history>>

\* Mutant of ReleaseCrashed: detach without the signal.
ReleaseAlive(S) == Continue([t \in S |-> "none"], TRUE)
ReleaseCrashed(S) == Continue([t \in S |-> exitSig], TRUE)

\* Detach every thread with the signal of the crash.  The first detach at a
\* signal starts the death of the process; a thread that death reaches before
\* its own detach cannot be detached any more.
KillCrashed ==
  /\ pc = "kill" /\ mtids' = {}
  /\ LET ts == mtids \ (IF leaderExited THEN {Leader} ELSE {})
         signalled == {t \in ts : stop[t] \in Signals} IN
       \E late \in SUBSET {t \in ts : \E u \in signalled : u < t} :
         LET failed == late # {} \/ \E t \in ts \ late : t \in traced /\ ~Answers(t) IN
         /\ ReleaseCrashed(ts \ late)
         /\ rc' = IF failed THEN -1 ELSE rc
         /\ Goto(IF rc' = 0 THEN "coreCommit" ELSE "returned")
  /\ UNCHANGED <<todo, tid, status, leaderExited, crash, coll, loop, shot, req, published, history>>

CoreCommit ==
  /\ pc = "coreCommit" /\ Goto("returned")
  /\ \/ published' = published \cup {"core"} /\ UNCHANGED rc
     \/ DiskFull /\ rc' = -1 /\ UNCHANGED published
  /\ UNCHANGED <<kernel, todo, tid, status, thr, crash, coll, loop, shot, req, history>>

-----------------------------------------------------------------------------
(* Arthur is sent signals.  Only sigwaitinfo sees them: nothing is lost by *)
(* letting them arrive there.                                              *)

Request ==
  /\ pc = "wait"
  /\ \/ ~req.usr1 /\ req.dumps > 0 /\ req' = [req EXCEPT !.usr1 = TRUE, !.dumps = @ - 1]
     \/ ~req.term /\ req' = [req EXCEPT !.term = TRUE]
  /\ UNCHANGED <<kernel, ctl, thr, crash, coll, loop, shot, ends>>

Arthur ==
  \/ SeizeList \/ SeizeEach \/ SeizeEnd \/ RollbackNext \/ RollbackWait
  \/ DetachPoll \/ DetachRegs \/ DetachWait \/ DetachEnd
  \/ DrainStart \/ Poll \/ PassEnd \/ Dispatch \/ AwaitSignal
  \/ HandleClone \/ HandleExit \/ HandleExec \/ HandleGroupStop \/ HandleInterrupt
  \/ HandleFatal \/ HandleSignal \/ HandleKilled
  \/ CollectStart \/ CollectList \/ CollectPoll \/ CollectRegs \/ CollectWait \/ CollectConfirm
  \/ DumpStart \/ Abandon \/ Preserve \/ Restore \/ Meta \/ Loads
  \/ Inject \/ InjectInVain \/ InjectDeath \/ ResumeAll \/ DumpChild \/ Late
  \/ Finish \/ Settle \/ SettleKilled \/ Commit \/ Core \/ CoreLoads \/ KillCrashed \/ CoreCommit

\* Once monitor has returned, what the target does is its own affair.
Watched == pc # "returned" /\ Target /\ UNCHANGED arthur

Next == Arthur \/ Request \/ Watched
Spec == Init /\ [][Next]_vars

\* Every call of Arthur returns: pt_wait has a deadline and no loop is without
\* a bound.  A thread that can run and has something pending acts in the end; one
\* in uninterruptible sleep need not ever wake.
Fairness ==
  /\ WF_vars(Arthur)
  /\ \A t \in Threads : WF_vars(React(t) /\ UNCHANGED arthur)
FairSpec == Spec /\ Fairness

-----------------------------------------------------------------------------
(* Properties                                                              *)

Steps == {"seize", "seizeEach", "rollback", "rollbackWait", "detach", "detachRegs",
          "detachWait", "returned", "drain", "poll", "handle", "dispatch", "wait",
          "collect", "list", "stop", "regs", "stopWait", "kill", "core", "coreLoads", "coreCommit",
          "dump", "abandon", "preserve", "restore", "meta", "loads", "inject", "resume",
          "child", "late", "lateWait", "finish", "finishWait", "settle", "commit"}
Copying == {"loads", "inject", "resume", "coreLoads"}

\* The values of the variables.
TypeOK ==
  /\ task \in [Tids -> Tasks] /\ traced \subseteq Tids /\ fresh \subseteq traced
  /\ stop \in [Tids -> Stops] /\ fate \in [Signals -> Fates]
  /\ child \in [Tids -> Tids \cup {0}] /\ jobStop \in BOOLEAN /\ chld \in BOOLEAN
  /\ \A S \in {listening, intr, notify, todo, mtids} : S \subseteq Tids
  /\ pc \in Steps /\ tid \in Tids /\ status \in Stops /\ leaderExited \in BOOLEAN
  /\ crashTid \in Tids \cup {0} /\ exitSig \in Fatal \cup {"none"}
  /\ coll \in [caller : {"none", "dump", "crash"}, held : SUBSET Tids, grouped : SUBSET Tids,
               fatal : Fatal \cup {"none"}, tids : SUBSET Tids,
               relay : [Tids -> Signals \cup {"none"}], rounds : 0 .. MaxRounds]
  /\ groupStop \in BOOLEAN /\ wanted \in BOOLEAN /\ progress \in BOOLEAN
  /\ forkRc \in Fatal \cup {"none", "failed", "exited", "KILL"}
  /\ shot \in [snap : Tids, failed : BOOLEAN, result : Fatal \cup {"none", "grouped"}]
  /\ req \in [usr1 : BOOLEAN, term : BOOLEAN, dumps : 0 .. MaxDumps]
  /\ rc \in {0, -1} /\ published \subseteq {"snapshot", "core"}
  /\ history \in [gaveUp : SUBSET Tids, vanished : BOOLEAN]


\* A signal Arthur sees on its way to a thread reaches it, once, unless the
\* process dies first.
SignalsRelayed ==
  [][\A s \in Sent : fate'[s] \in {"discarded", "twice"} =>
        fate[s] = fate'[s] \/ AliveThreads' = {}]_vars

\* With snapshots too, once waitpid has told Arthur of it, except the fatal signal of a
\* collection that fails after it: restore_target_after_fail does not know it.
ReadSignalsRelayed ==
  [][\A s \in Sent : fate'[s] \in {"discarded", "twice"} =>
        \/ fate[s] = fate'[s] \/ AliveThreads' = {} \/ \E t \in fresh : stop[t] = s
        \/ s \in Fatal /\ pc = "restore" /\ coll.fatal # "none"]_vars

\* The thread whose clone event Arthur has not read yet.
Newborn(t) == \E p \in mtids \cap fresh : stop[p] = "clone" /\ child[p] = t

\* When Arthur goes to sleep it watches every thread of the target, unless a
\* thread that was gone before its seize had cloned another.
EveryThreadWatched ==
  pc = "wait" /\ ~history.vanished => \A t \in AliveThreads :
    t \in traced /\ (t \in mtids \/ Newborn(t) \/ (t \in fresh /\ stop[t] = "exec"))

\* A process whose parent was killed before its clone event was read.
Unannounced(t) == t \in Procs /\ \E p \in Threads : child[p] = t /\ ~Alive(p)

\* It never goes to sleep on a stopped thread without a wakeup to come.
NobodyForgotten ==
  pc = "wait" => /\ \A t \in traced : Alive(t) /\ Stopped(t) => t \in fresh
                 /\ (\E t \in fresh : ~Unannounced(t)) => chld

\* A snapshot, however it fails, leaves no thread stopped whose stop has been read, but
\* for the leader at a fatal signal that a failing commit has forgotten.
SnapshotForgetsNobody ==
  pc = "wait" => /\ \A t \in traced : Alive(t) /\ Stopped(t) =>
                      \/ t \in fresh
                      \/ t = Leader /\ stop[t] = shot.result /\ "snapshot" \notin published
                 /\ (\E t \in fresh : ~Unannounced(t)) => chld

\* Arthur knows whether the process is group-stopped, once all is read: no thread has
\* yet to stop for it or to tell that it is over.
JobControlKnown ==
  pc = "wait" /\ fresh = {} /\ notify = {} /\ AliveThreads # {}
    /\ (jobStop => listening # {} /\ \A t \in AliveThreads : t \in listening \/ task[t] = "sleep")
    => groupStop = jobStop

\* Arthur knows that the leader has exited while workers go on, and that exec
\* has put another in its place.
LeaderExitKnown ==
  pc = "wait" /\ ~history.vanished =>
    /\ task[Leader] = "zombie" /\ (\E t \in AliveThreads : task[t] # "exec") => leaderExited
    /\ leaderExited /\ Alive(Leader) => Leader \in fresh /\ stop[Leader] = "exec"

\* Without snapshots only the target's user ends a group-stop.
GroupStopKept ==
  [][jobStop /\ ~jobStop' => AliveThreads' = {} \/ fate'["CONT"] # fate["CONT"]]_vars

\* With snapshots too, unless waitpid has still to tell Arthur of it, or the collection
\* that has read it fails: restore_target_after_fail resumes every thread.
ReadGroupStopKept ==
  [][jobStop /\ ~jobStop' =>
       \/ AliveThreads' = {}
       \/ \E s \in {"CONT"} \cap Sent : fate'[s] # fate[s]
       \/ \E t \in fresh : stop[t] = "group"
       \/ pc = "restore" /\ coll.grouped # {}]_vars

\* While memory is copied, every thread of the target stands still and is in the
\* core; a leader known to be exiting only stands still, and so does the thread
\* whose birth has stopped a thread that was taken for the crashed one.
Cloned(p, t) == p \in Tids /\ child[p] = t
SnapshotIsStill ==
  pc \in Copying => \A t \in AliveThreads :
    Stopped(t) /\ (t \in coll.tids \/ (t = Leader /\ leaderExited) \/ Cloned(crashTid, t))

\* Arthur leaves no thread traced behind, unless one would not stop,
RollbackReleases ==
  pc = "returned" /\ history.gaveUp = {} => \A t \in traced : Alive(t) => Unannounced(t)

\* and certainly not once it has begun to watch.
Launched == coll.rounds = 0 \/ coll.caller # "none"
NothingLeftTraced == Launched => RollbackReleases

\* A process that has crashed does not live on, unless exec replaced it.
CrashIsFatal ==
  pc = "returned" /\ exitSig # "none" /\ NoExecYet => AliveThreads = {}

\* A snapshot is published when every thread has been resumed, or has stopped
\* anew, or stands at the signal that the crash is taken from.
PublishedAfterRelease ==
  pc = "commit" /\ ~shot.failed =>
    \A t \in mtids : Alive(t) /\ Stopped(t) => t \in fresh \/ (t = Leader /\ shot.result \in Fatal)

\* PTRACE_SEIZE and an exec wait for each other.
Entangled == pc = "seizeEach" /\ ExecUnderWay

\* Every stop is read in the end, every crash dealt with, SIGTERM obeyed.
StopsAreRead ==
  \A t \in Threads : t \in fresh ~> t \notin fresh \/ pc = "returned" \/ Entangled
CrashEnds == exitSig # "none" ~> pc = "returned"
TermObeyed == req.term ~> pc = "returned"
=============================================================================
