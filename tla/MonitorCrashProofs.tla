--------------------------- MODULE MonitorCrashProofs ---------------------------
(***************************************************************************)
(* A process that monitor mode has found to have crashed does not live on. *)
(*                                                                         *)
(* Doomed says where the fatal signal is until it is delivered: a thread   *)
(* stands at it whose stop Arthur has read, through the snapshot that met  *)
(* it, the collection of the crash and all the failures in between.  It is *)
(* inductive because nothing resumes that thread by the way: Arthur resumes*)
(* the threads of its own lists, and of each clone event in them it has yet*)
(* to handle, the new thread has not run (Newborns); the leader, which a   *)
(* snapshot resumes by name, is in the list or known to have exited        *)
(* (LeaderKnown); and a new collection does not begin with the result of an*)
(* old snapshot (Pristine).                                                *)
(***************************************************************************)
EXTENDS MonitorWatchProofs

-----------------------------------------------------------------------------
(* The crash                                                               *)

\* The fatal signals at which a thread that Arthur knows stands, waitpid having
\* returned the stop; of a dead process it may be any.
Doom == {s \in Fatal : AliveThreads = {} \/ \E t \in mtids : Alive(t) /\ stop[t] = s /\ t \notin fresh}

\* A fatal signal that Arthur has seen holds its thread until it is delivered:
\* as the crash, as what a snapshot returned, in a collection, and in its result.
CrashStands == exitSig # "none" => IF pc \in Leaving THEN AliveThreads = {} ELSE exitSig \in Doom
ReturnStands == forkRc \in Fatal /\ exitSig = "none" /\ pc \notin Leaving =>
                  pc \in {"drain", "poll", "handle", "dispatch"} /\ forkRc \in Doom
CollectedStands == pc \in Collecting \cup {"abandon"} /\ coll.fatal # "none" => coll.fatal \in Doom
ResultStands == pc = "commit" /\ shot.result \in Fatal => shot.result \in Doom
Doomed == CrashStands /\ ReturnStands /\ CollectedStands /\ ResultStands

Pristine ==
  pc \in {"collect", "meta", "loads"} \cup Collecting /\ exitSig = "none" => shot.result = "none"
LeaderKnown ==
  pc \notin Leaving \cup {"seize", "seizeEach"} /\ Alive(Leader) => leaderExited \/ Leader \in mtids

\* The new thread of a clone event that Arthur has yet to handle is as it was
\* born.  What Arthur resumes contains the thread that waits to report it.
Unread(p) == stop[p] = "clone" /\ (p \in fresh \/ (pc = "handle" /\ tid = p))
Closed(S) == \A p \in Tids : Unread(p) /\ child[p] \in S => p \in S
Newborns == pc \notin Leaving =>
  /\ \A p \in Tids : Unread(p) => p < child[p] /\ (child[p] \in Threads => stop[child[p]] = "intr")
  /\ Closed(mtids)
  /\ pc = "seizeEach" => Closed(todo \cup mtids)
  /\ pc \in {"poll", "handle", "preserve"} => Closed(todo) /\ todo \subseteq mtids
  /\ pc = "handle" => \A t \in todo : tid <= t
  /\ pc \in {"meta", "loads", "inject", "resume"} => coll.tids \subseteq mtids
CrashInv == Doomed /\ Pristine /\ LeaderKnown /\ Newborns

-----------------------------------------------------------------------------
(* What Arthur knows of the leader and of its snapshots                    *)

\* No call of Arthur brings a thread back to life.
LEMMA NoneRises == TypeInv /\ Arthur => \A t \in Tids : Alive(t)' => Alive(t)
<1> SUFFICES ASSUME TypeInv, Arthur, NEW t \in Tids, Alive(t)' PROVE Alive(t)
    OBVIOUS
<1>1. task'[t] \in {task[t], "zombie", "gone"}
  <2> USE DEF TypeInv, KernelOK
  <2>1. ASSUME NEW ts, NEW f, NEW detach, ContinueThose(ts, f, detach) PROVE task'[t] \in {task[t], "zombie"}
    BY <2>1 DEF ContinueThose, Dead
  <2>2. ASSUME NEW u, WaitExit(u) PROVE task'[t] \in {task[t], "gone"}
    BY <2>2 DEF WaitExit
  <2>3. ASSUME task' = task PROVE task'[t] \in {task[t], "zombie", "gone"}
    BY <2>3
  <2>4. CASE SeizeList \/ SeizeEach \/ SeizeEnd \/ RollbackNext \/ RollbackWait
           \/ DetachPoll \/ DetachRegs \/ DetachWait \/ DetachEnd
    <3>1. \/ task' = task
          \/ \E u, sig : DetachWaited(u, sig) \/ WaitExit(u)
      BY <2>4 DEF SeizeList, SeizeEach, SeizeEnd, RollbackNext, RollbackWait, DetachPoll, DetachRegs, DetachWait,
         DetachEnd, Detached, LetGo, Interrupt, SeizeAll, kernel
    <3> QED BY <2>1, <2>2, <2>3, <3>1 DEF DetachWaited
  <2>5. CASE DrainStart \/ Poll \/ PassEnd \/ Dispatch \/ AwaitSignal
    <3>1. task' = task \/ \E u : WaitExit(u)
      BY <2>5 DEF DrainStart, Poll, PassEnd, Dispatch, AwaitSignal, WaitStop, TakeChld, kernel
    <3> QED BY <2>2, <2>3, <3>1
  <2>6. CASE HandleClone \/ HandleExit \/ HandleExec \/ HandleGroupStop \/ HandleInterrupt
           \/ HandleFatal \/ HandleSignal \/ HandleKilled
    <3>1. task' = task \/ \E f : Continue(f, FALSE)
      BY <2>6 DEF HandleClone, HandleExit, HandleExec, HandleGroupStop, HandleInterrupt, HandleFatal,
         HandleSignal, HandleKilled, Resume, AfterClone, Listen, kernel
    <3> QED BY <2>1, <2>3, <3>1 DEF Continue
  <2>7. CASE CollectStart \/ CollectList \/ CollectPoll \/ CollectRegs \/ CollectWait \/ CollectConfirm
    <3>1. task' = task \/ \E u : WaitExit(u)
      BY <2>7 DEF CollectStart, CollectList, CollectPoll, CollectRegs, CollectWait, CollectConfirm, RecordStop,
         AfterClone, WaitStop, Interrupt, SeizeAll, kernel
    <3> QED BY <2>2, <2>3, <3>1
  <2>8. CASE DumpStart \/ Abandon \/ Preserve \/ Restore \/ Meta \/ Loads
           \/ Inject \/ InjectInVain \/ InjectDeath \/ ResumeAll \/ DumpChild \/ Late
    <3>1. task' = task \/ (\E f : Continue(f, FALSE)) \/ \E u : WaitExit(u)
      BY <2>8 DEF DumpStart, Abandon, Preserve, Restore, Meta, Loads, Inject, InjectInVain, InjectDeath, ResumeAll,
         DumpChild, Late, Interrupt, Listen, RunInjected, ChildDies, kernel
    <3> QED BY <2>1, <2>2, <2>3, <3>1 DEF Continue
  <2>9. CASE Finish \/ Settle \/ SettleKilled \/ Commit \/ Core \/ CoreLoads \/ KillCrashed \/ CoreCommit
    <3>1. task' = task \/ (\E f, detach : Continue(f, detach)) \/ \E u : WaitExit(u)
      BY <2>9 DEF Finish, Settle, SettleKilled, Commit, Core, CoreLoads, KillCrashed, CoreCommit, WaitStop,
         Interrupt, Listen, AfterClone, RunInjected, ReleaseCrashed, kernel
    <3> QED BY <2>1, <2>2, <2>3, <3>1 DEF Continue
  <2> QED BY <2>4, <2>5, <2>6, <2>7, <2>8, <2>9 DEF Arthur
<1> QED BY <1>1 DEF Alive

\* When a snapshot is begun the result of the one before is forgotten.
LEMMA PristineStep == TypeInv /\ WatchInv /\ Pristine /\ [Next]_vars => Pristine'
<1> SUFFICES ASSUME TypeInv, WatchInv, Pristine, [Next]_vars PROVE Pristine'
    OBVIOUS
<1> USE DEF Pristine, Collecting
<1>1. CASE UNCHANGED vars
  BY <1>1 DEF vars, arthur, ctl, crash
<1>2. CASE SeizeList \/ SeizeEach \/ SeizeEnd \/ RollbackNext \/ RollbackWait
           \/ DetachPoll \/ DetachRegs \/ DetachWait \/ DetachEnd
  <2>1. pc' \in Leaving \cup {"seize", "seizeEach", "drain"}
    BY <1>2 DEF SeizeList, SeizeEach, SeizeEnd, RollbackNext, RollbackWait, DetachPoll, DetachRegs, DetachWait,
         DetachEnd, Rollback, Goto, Leaving
  <2> QED BY <2>1 DEF Leaving
<1>3. CASE DrainStart \/ Poll \/ PassEnd \/ AwaitSignal \/ Request \/ Watched
  <2>1. \/ pc' \in Leaving \cup {"poll", "handle", "drain", "dispatch", "wait"}
        \/ pc' = "collect" /\ exitSig' # "none"
        \/ UNCHANGED <<pc, exitSig, shot>>
    BY <1>3 DEF DrainStart, Poll, PassEnd, AwaitSignal, Request, Watched, Goto, Quit, Leaving, arthur, ctl, crash
  <2> QED BY <2>1 DEF Leaving
<1>4. CASE Dispatch
  BY <1>4, SignalFacts DEF Dispatch, Quit, Goto
<1>5. CASE HandleClone \/ HandleExit \/ HandleExec \/ HandleGroupStop \/ HandleInterrupt
           \/ HandleFatal \/ HandleSignal \/ HandleKilled
  <2>1. pc' \in {"poll", "detach"}
    BY <1>5 DEF HandleClone, HandleExit, HandleExec, HandleGroupStop, HandleInterrupt, HandleFatal, HandleSignal,
         HandleKilled, Handled, Quit, Goto
  <2> QED BY <2>1
<1>6. CASE CollectStart \/ CollectList \/ CollectPoll \/ CollectRegs \/ CollectWait \/ CollectConfirm
  <2>1. pc \in Collecting \cup {"collect"} /\ UNCHANGED <<exitSig, shot>>
    BY <1>6 DEF CollectStart, CollectList, CollectPoll, CollectRegs, CollectWait, CollectConfirm, crash, Goto
  <2> QED BY <2>1
<1>7. CASE DumpStart
  <2>1. shot'.result = "none"
    <3>1. \/ \E u : shot' = [snap |-> u, failed |-> FALSE, result |-> "none"]
          \/ shot' = [shot EXCEPT !.failed = FALSE, !.result = "none"]
      BY <1>7 DEF DumpStart
    <3>2. CASE \E u : shot' = [snap |-> u, failed |-> FALSE, result |-> "none"]
      BY <3>2
    <3>3. CASE shot' = [shot EXCEPT !.failed = FALSE, !.result = "none"]
      <4>1. shot \in [snap : Tids, failed : BOOLEAN, result : Fatal \cup {"none", "grouped"}]
        BY DEF TypeInv, ControlOK
      <4> QED BY <3>3, <4>1
    <3> QED BY <3>1, <3>2, <3>3
  <2> QED BY <2>1
<1>8. CASE Meta
  BY <1>8 DEF Meta, Goto, crash, loop
<1>9. CASE Abandon \/ Preserve \/ Restore \/ Loads \/ Inject \/ InjectInVain \/ InjectDeath \/ ResumeAll
           \/ DumpChild \/ Late \/ Finish \/ Settle \/ SettleKilled \/ Commit
  <2>1. pc' \in {"drain", "detach", "preserve", "restore", "commit", "resume", "child", "finish", "late", "lateWait",
                 "finishWait", "settle"}
    BY <1>9, Returned DEF Abandon, Preserve, Restore, Loads, Inject, InjectInVain, InjectDeath, ResumeAll, DumpChild,
         Late, Finish, Settle, Settled, SettleKilled, Commit, Goto
  <2> QED BY <2>1
<1>10. CASE Core \/ CoreLoads \/ KillCrashed \/ CoreCommit
  <2>1. pc' \in {"coreLoads", "kill", "coreCommit", "returned"}
    BY <1>10 DEF Core, CoreLoads, KillCrashed, CoreCommit, Goto
  <2> QED BY <2>1
<1> QED BY <1>1, <1>2, <1>3, <1>4, <1>5, <1>6, <1>7, <1>8, <1>9, <1>10 DEF Next, Arthur

\* Arthur does not lose sight of a leader that lives.
LEMMA LeaderKnownStep ==
  TypeInv /\ WatchInv /\ LeaderKnown /\ [Next]_vars /\ NoExecYet' => LeaderKnown'
<1> SUFFICES ASSUME TypeInv, WatchInv, LeaderKnown, [Next]_vars, NoExecYet',
                    pc' \notin Leaving \cup {"seize", "seizeEach"}, Alive(Leader)'
             PROVE  leaderExited' \/ Leader \in mtids'
    BY DEF LeaderKnown
<1>1. Alive(Leader)
  <2>1. CASE Arthur
    BY <2>1, NoneRises, LeaderIsThread
  <2>2. CASE Watched
    BY <2>2, QuietTarget, LeaderIsThread DEF Watched, TypeInv, WatchInv, Quiet, Moved
  <2>3. CASE Request \/ UNCHANGED vars
    BY <2>3 DEF Request, vars, kernel, Alive
  <2> QED BY <2>1, <2>2, <2>3 DEF Next
<1>2. pc \notin Leaving \cup {"seize", "seizeEach"} => leaderExited \/ Leader \in mtids
  BY <1>1 DEF LeaderKnown
<1>3. task[Leader] \notin {"zombie", "gone"}
  BY <1>1 DEF Alive
<1>4. CASE UNCHANGED vars \/ Watched \/ Request
  BY <1>2, <1>4 DEF vars, arthur, ctl, thr, Watched, Request
<1>5. CASE SeizeList \/ SeizeEach \/ SeizeEnd \/ RollbackNext \/ RollbackWait
           \/ DetachPoll \/ DetachRegs \/ DetachWait \/ DetachEnd
  <2>1. SeizeEnd
    BY <1>5 DEF SeizeList, SeizeEach, RollbackNext, RollbackWait, DetachPoll, DetachRegs, DetachWait,
         DetachEnd, Rollback, Goto, Leaving
  <2> QED BY <2>1 DEF SeizeEnd, Rollback, Goto, thr, Leaving
<1>6. CASE DrainStart \/ Dispatch \/ AwaitSignal
  <2>1. pc \in {"drain", "dispatch", "wait"} /\ UNCHANGED thr
    BY <1>6 DEF DrainStart, Dispatch, AwaitSignal
  <2> QED BY <1>2, <2>1 DEF thr, Leaving
<1>7. CASE Poll
  <2>1. pc = "poll" /\ leaderExited' = leaderExited
    BY <1>7 DEF Poll
  <2>2. Leader \in mtids => Leader \in mtids'
    BY <1>7 DEF Poll, Goto, Quit, Leaving
  <2> QED BY <1>2, <2>1, <2>2 DEF Leaving
<1>8. CASE PassEnd
  <2>1. pc = "poll" /\ leaderExited' = leaderExited /\ (mtids' = mtids \/ mtids = {})
    BY <1>8 DEF PassEnd
  <2> QED BY <1>2, <2>1 DEF Leaving
<1>9. CASE HandleClone \/ HandleExit \/ HandleExec \/ HandleGroupStop \/ HandleInterrupt
           \/ HandleFatal \/ HandleSignal \/ HandleKilled
  <2>1. pc = "handle"
    BY <1>9 DEF HandleClone, HandleExit, HandleExec, HandleGroupStop, HandleInterrupt, HandleFatal, HandleSignal,
         HandleKilled, Handling
  <2>2. Leader \in mtids' \/ (mtids \subseteq mtids' /\ (leaderExited => leaderExited'))
    BY <1>9 DEF HandleClone, HandleExit, HandleExec, HandleGroupStop, HandleInterrupt, HandleFatal, HandleSignal,
         HandleKilled, thr
  <2> QED BY <1>2, <2>1, <2>2 DEF Leaving
<1>10. CASE CollectStart \/ CollectList \/ CollectPoll \/ CollectRegs \/ CollectWait
  <2>1. pc \in Collecting \cup {"collect"} /\ leaderExited' = leaderExited
    BY <1>10 DEF CollectStart, CollectList, CollectPoll, CollectRegs, CollectWait, Collecting, thr
  <2>2. Leader \in mtids => Leader \in mtids'
    BY <1>3, <1>10 DEF CollectStart, CollectList, CollectPoll, CollectRegs, CollectWait, RecordStop, Reapable, thr
  <2> QED BY <1>2, <2>1, <2>2 DEF Leaving, Collecting
<1>11. CASE CollectConfirm
  <2>1. pc = "stop" /\ leaderExited' = leaderExited /\ Leader \in Listed
    BY <1>1, <1>11, LeaderIsThread DEF CollectConfirm, Listed, Alive
  <2>2. Leader \in mtids => Leader \in mtids'
    BY <1>11, <2>1 DEF CollectConfirm, Workers
  <2> QED BY <1>2, <2>1, <2>2 DEF Leaving
<1>12. CASE DumpStart \/ Abandon \/ Preserve \/ Restore \/ Meta \/ Loads \/ Inject \/ InjectInVain
           \/ InjectDeath \/ ResumeAll \/ DumpChild \/ Late \/ Finish \/ Settle \/ SettleKilled \/ Commit
           \/ Core \/ CoreLoads
  <2>1. pc \notin Leaving \cup {"seize", "seizeEach"} /\ UNCHANGED thr
    BY <1>12 DEF DumpStart, Abandon, Preserve, Restore, Meta, Loads, Inject, InjectInVain, InjectDeath, ResumeAll,
         DumpChild, Late, Finish, Settle, SettleKilled, Commit, Core, CoreLoads, Leaving
  <2> QED BY <1>2, <2>1 DEF thr
<1>13. CASE KillCrashed \/ CoreCommit
  BY <1>13 DEF KillCrashed, CoreCommit, Goto, Leaving
<1> QED BY <1>4, <1>5, <1>6, <1>7, <1>8, <1>9, <1>10, <1>11, <1>12, <1>13 DEF Next, Arthur

-----------------------------------------------------------------------------
(* Clone events that have not been read                                    *)

LEMMA UnreadParent ==
  ASSUME TypeInv, WatchInv, NEW p \in Tids, Unread(p)
  PROVE  /\ p \in Threads /\ p \in AliveThreads /\ Alive(p) /\ Stopped(p) /\ p \in traced /\ p \in Listed
         /\ child[p] \in Tids /\ child[p] # Leader /\ Exists(child[p])
         /\ p = Leader => ~leaderExited
<1>1. stop[p] = "clone" /\ Stopped(p)
  BY DEF Unread, Stopped
<1>2. p \in Threads /\ p \in traced /\ child[p] \in Tids /\ task[p] \in {"run", "dying"}
  BY <1>1 DEF TypeInv, KernelOK
<1>3. Alive(p) /\ p \in Listed /\ p \in AliveThreads
  BY <1>2 DEF WatchInv, Quiet, Alive, Listed, AliveThreads
<1>4. p = Leader => ~leaderExited
  BY <1>1, <1>3 DEF WatchInv, LeaderOut, LeaderStays
<1> QED BY <1>1, <1>2, <1>3, <1>4 DEF WatchInv, Quiet

\* A step that reads nothing new leaves the events it does not deal with as they are.
Settling(p) == /\ Unread(p) /\ child'[p] = child[p]
               /\ child[p] \in Threads => stop'[child[p]] = stop[child[p]]

LEMMA UnreadSame ==
  ASSUME UNCHANGED <<stop, child>>, fresh' \subseteq fresh, pc' # "handle"
  PROVE  \A p \in Tids : Unread(p)' => Settling(p)
  BY DEF Unread, Settling

LEMMA UnreadKept ==
  ASSUME KernelOK', Quiet', NEW ts, Kept(ts), pc' # "handle",
         \A p \in Tids : Unread(p) /\ child[p] \in ts => p \in ts
  PROVE  \A p \in Tids : Unread(p)' => Settling(p)
<1> SUFFICES ASSUME NEW p \in Tids, stop'[p] = "clone", p \in fresh' PROVE Settling(p)
    BY DEF Unread
<1>1. p \in AliveThreads' /\ Stopped(p)'
  BY DEF KernelOK, Quiet, AliveThreads, Alive, Stopped
<1>2. stop[p] = "clone" /\ p \in fresh /\ p \notin ts /\ child' = child
  BY <1>1 DEF Kept
<1>3. Unread(p) /\ child[p] \notin ts
  BY <1>2 DEF Unread
<1> QED BY <1>1, <1>2, <1>3 DEF Settling, Kept

LEMMA NewbornsStay ==
  ASSUME TypeInv, WatchInv, Newborns, pc \notin Leaving, pc' \notin {"seizeEach", "handle"},
         \A p \in Tids : Unread(p)' => Settling(p),
         mtids' \subseteq mtids, \A p \in mtids : Unread(p) => p \in mtids',
         pc' \in {"poll", "preserve"} => /\ Closed(todo) /\ todo' \subseteq todo /\ todo' \subseteq mtids'
                                         /\ \A p \in todo : Unread(p)' => p \in todo',
         pc' \in {"meta", "loads", "inject", "resume"} => coll'.tids \subseteq mtids'
  PROVE  Newborns'
<1>1. \A p \in Tids : Unread(p) => child[p] \in Tids
  BY UnreadParent
<1>2. (\A p \in Tids : Unread(p) => p < child[p] /\ (child[p] \in Threads => stop[child[p]] = "intr"))'
  BY DEF Newborns, Settling
<1>3. Closed(mtids)'
  BY DEF Newborns, Closed, Settling
<1>4. pc' \in {"poll", "preserve"} => Closed(todo)'
  BY DEF Closed, Settling
<1> QED BY <1>2, <1>3, <1>4 DEF Newborns

LEMMA NewbornsTarget == TypeInv /\ TypeInv' /\ WatchInv /\ NoExecYet' /\ Newborns /\ Watched => Newborns'
<1> SUFFICES ASSUME TypeInv, TypeInv', WatchInv, NoExecYet', Newborns, Watched, pc \notin Leaving
             PROVE  Newborns'
    BY DEF Newborns, Watched, arthur, ctl
<1>1. UNCHANGED <<pc, todo, tid, status, mtids, leaderExited, coll>>
  BY DEF Watched, arthur, ctl, thr
<1>2. Quiet' /\ FatalKills' /\ Moved /\ KernelOK /\ KernelOK'
  BY QuietTarget DEF Watched, TypeInv, WatchInv
<1>3. ASSUME NEW p \in Tids, Unread(p)', stop[p] = "clone"
      PROVE  Settling(p) /\ child'[p] = child[p] /\ Unread(p)
  <2>1. stop'[p] = "clone" /\ Stopped(p) /\ Stopped(p)'
    BY <1>3 DEF Unread, Stopped
  <2>2. child'[p] = child[p] /\ (p \in fresh <=> p \in fresh')
    BY <1>2, <2>1 DEF Moved
  <2>3. Unread(p)
    BY <1>1, <1>3, <2>2 DEF Unread
  <2>4. p \in AliveThreads'
    BY <1>2, <2>1 DEF KernelOK, Quiet, AliveThreads, Alive
  <2>5. child[p] \in Threads => stop'[child[p]] = stop[child[p]]
    <3>1. child[p] \in Threads => child[p] \in Tids /\ stop[child[p]] = "intr"
      BY <2>3, LeaderIsThread DEF Newborns
    <3> QED BY <1>2, <2>4, <3>1, StillStopped DEF Stopped
  <2> QED BY <2>2, <2>3, <2>5 DEF Settling
<1>4. ASSUME NEW p \in Tids, Unread(p)', stop[p] # "clone"
      PROVE  ~Exists(child'[p]) /\ p < child'[p] /\ stop'[child'[p]] = "intr"
  BY <1>2, <1>4 DEF Moved, Unread
<1>5. (\A p \in Tids : Unread(p) => p < child[p] /\ (child[p] \in Threads => stop[child[p]] = "intr"))'
  BY <1>3, <1>4 DEF Newborns, Settling
<1>6. ASSUME NEW S, Closed(S), \A t \in S : Exists(t)
      PROVE  \A p \in Tids : Unread(p)' /\ child'[p] \in S => p \in S
  BY <1>3, <1>4, <1>6 DEF Closed
<1>7. /\ \A t \in mtids : Exists(t)
      /\ pc = "seizeEach" => \A t \in todo : Exists(t)
  BY DEF WatchInv, Members, Working
<1>8. Closed(mtids)'
  BY <1>1, <1>6, <1>7 DEF Newborns, Closed
<1>9. pc = "seizeEach" => Closed(todo \cup mtids)'
  <2>1. pc = "seizeEach" => \A p \in Tids : Unread(p)' /\ child'[p] \in todo \cup mtids => p \in todo \cup mtids
    BY <1>6, <1>7 DEF Newborns
  <2> QED BY <1>1, <2>1 DEF Closed
<1>10. pc \in {"poll", "handle", "preserve"} => Closed(todo)'
  <2>1. pc \in {"poll", "handle", "preserve"} => \A t \in todo : Exists(t)
    BY <1>7 DEF Newborns
  <2> QED BY <1>1, <1>6, <2>1 DEF Newborns, Closed
<1> QED BY <1>1, <1>5, <1>8, <1>9, <1>10 DEF Newborns

LEMMA NewbornsSeize ==
  TypeInv /\ WatchInv /\ Newborns /\ (SeizeList \/ SeizeEach \/ SeizeEnd) => Newborns'
<1> SUFFICES ASSUME TypeInv, WatchInv, Newborns, SeizeList \/ SeizeEach \/ SeizeEnd PROVE Newborns'
    OBVIOUS
<1>1. UNCHANGED <<stop, fresh, child>> /\ pc' # "handle"
  BY DEF SeizeList, SeizeEach, SeizeEnd, SeizeAll, kernel, Rollback, Goto
<1>2. \A p \in Tids : Unread(p)' => Settling(p)
  BY <1>1, UnreadSame
<1>3. (\A p \in Tids : Unread(p) => p < child[p] /\ (child[p] \in Threads => stop[child[p]] = "intr"))'
      /\ pc \notin Leaving
  BY <1>2 DEF Newborns, Settling, SeizeList, SeizeEach, SeizeEnd, Leaving
<1>4. CASE SeizeList
  <2>1. pc' \in {"rollback", "seizeEach"} /\ mtids' = mtids
    BY <1>4 DEF SeizeList, Rollback, Goto
  <2>2. Closed(mtids)'
    BY <1>2, <1>3, <2>1 DEF Newborns, Closed, Settling
  <2>3. pc' = "seizeEach" => \A p \in Listed : p \in todo' \cup mtids' \/ (p = Leader /\ leaderExited')
    BY <1>4, <2>1 DEF SeizeList, Rollback, Goto
  <2>4. ASSUME NEW p \in Tids, Unread(p)' PROVE p \in Listed /\ ~(p = Leader /\ leaderExited')
    <3>1. p \in Listed /\ Alive(p) /\ (p = Leader => ~leaderExited)
      BY <1>2, <2>4, UnreadParent DEF Settling
    <3> QED BY <1>4, <3>1 DEF SeizeList, Alive
  <2> QED BY <1>3, <2>1, <2>2, <2>3, <2>4 DEF Newborns, Closed, Leaving
<1>5. CASE SeizeEach
  <2> DEFINE t == LeastOf(todo)
  <2>1. t \in todo /\ t \in Tids /\ pc = "seizeEach" /\ \A u \in todo : t <= u
    BY <1>5, LeastIsMember DEF TypeInv, ControlOK, SeizeEach
  <2>2. \/ pc' = "rollback"
        \/ pc' = "seizeEach" /\ mtids' = mtids \cup {t} /\ todo' = todo \ {t}
        \/ pc' = "seizeEach" /\ mtids' = mtids /\ todo' = todo \ {t} /\ t \notin traced
    BY <1>5, <2>1 DEF SeizeEach, Rollback, Goto, thr
  <2> HIDE DEF t
  <2>3. ASSUME NEW p \in Tids, Unread(p)'
        PROVE  /\ Unread(p) /\ child'[p] = child[p] /\ p < child[p] /\ p \in traced /\ p \in Int /\ child[p] \in Int
               /\ child[p] \in Tids
    <3>1. Unread(p) /\ child'[p] = child[p] /\ p < child[p] /\ p \in traced /\ child[p] \in Tids
      BY <1>2, <1>3, <2>3, UnreadParent DEF Settling, Newborns
    <3> QED BY <3>1 DEF Tids
  <2>4. ASSUME mtids' = mtids \cup {t}, NEW p \in Tids, Unread(p)', child'[p] = t PROVE p \in mtids
    <3>1. p \in todo \cup mtids
      BY <1>3, <2>1, <2>3, <2>4 DEF Newborns, Closed
    <3>2. p \notin todo
      <4>1. p < t /\ t \in Int /\ p \in Int
        BY <2>3, <2>4
      <4> QED BY <2>1, <4>1
    <3> QED BY <3>1, <3>2
  <2>5. pc' = "seizeEach" => Closed(mtids)'
    BY <1>3, <2>2, <2>3, <2>4 DEF Newborns, Closed
  <2>6. pc' = "seizeEach" => Closed(todo \cup mtids)'
    BY <1>3, <2>1, <2>2, <2>3 DEF Newborns, Closed
  <2> QED BY <1>3, <2>2, <2>5, <2>6 DEF Newborns, Leaving
<1>6. CASE SeizeEnd
  <2>1. pc' \in {"rollback", "seize", "drain"} /\ mtids' = mtids
    BY <1>6 DEF SeizeEnd, Rollback, Goto, thr
  <2> QED BY <1>2, <1>3, <2>1, NewbornsStay
<1> QED BY <1>4, <1>5, <1>6

LEMMA NewbornsMainLoop ==
  TypeInv /\ WatchInv /\ Newborns /\ (DrainStart \/ PassEnd \/ Dispatch \/ AwaitSignal \/ Request) => Newborns'
<1> SUFFICES ASSUME TypeInv, WatchInv, Newborns, DrainStart \/ PassEnd \/ Dispatch \/ AwaitSignal \/ Request,
                    pc' \notin Leaving
             PROVE  Newborns'
    BY DEF Newborns
<1>1. /\ pc \in {"drain", "poll", "dispatch", "wait"} /\ UNCHANGED <<stop, fresh, child>>
      /\ pc' \in {"poll", "detach", "returned", "drain", "collect", "dispatch", "dump", "wait"}
  BY DEF DrainStart, PassEnd, Dispatch, AwaitSignal, Request, Goto, Quit, ctl, TakeChld, kernel
<1>2. \A p \in Tids : Unread(p)' => Settling(p)
  BY <1>1, UnreadSame
<1>3. pc \notin Leaving
  BY <1>1 DEF Leaving
<1>4. CASE mtids' = mtids
  <2>1. pc' = "poll" => DrainStart
    BY <1>4 DEF DrainStart, PassEnd, Dispatch, AwaitSignal, Request, Goto, Quit, ctl
  <2>2. pc' = "poll" => todo' = mtids
    BY <2>1 DEF DrainStart
  <2>3. Closed(mtids)'
    BY <1>2, <1>3, <1>4 DEF Newborns, Closed, Settling
  <2>4. Closed(todo)' \/ pc' # "poll"
    BY <1>4, <2>2, <2>3 DEF Closed
  <2>5. (\A p \in Tids : Unread(p) => p < child[p] /\ (child[p] \in Threads => stop[child[p]] = "intr"))'
    BY <1>2, <1>3 DEF Newborns, Settling
  <2> QED BY <1>1, <1>4, <2>2, <2>3, <2>4, <2>5 DEF Newborns
<1>5. CASE mtids' # mtids
  <2>1. mtids' = Listed \cap traced /\ pc' = "drain"
    <3>1. PassEnd /\ mtids = {}
      BY <1>5 DEF DrainStart, PassEnd, Dispatch, AwaitSignal, Request, thr
    <3> QED BY <3>1 DEF PassEnd, Quit, Goto, Leaving
  <2>2. \A p \in Tids : Unread(p)' => p \in mtids'
    BY <1>2, <2>1, UnreadParent DEF Settling
  <2>3. (\A p \in Tids : Unread(p) => p < child[p] /\ (child[p] \in Threads => stop[child[p]] = "intr"))'
    BY <1>2, <1>3 DEF Newborns, Settling
  <2> QED BY <2>1, <2>2, <2>3 DEF Newborns, Closed
<1> QED BY <1>4, <1>5

\* The thread handled first is no child of another one still to be handled.
LEMMA Eldest ==
  ASSUME TypeInv, WatchInv, Newborns, pc \in {"poll", "handle", "preserve"}, NEW t \in todo, \A u \in todo : t <= u,
         NEW p \in Tids, Unread(p)
  PROVE  child[p] # t
<1>1. Closed(todo) /\ p < child[p]
  BY DEF Newborns, Leaving
<1>2. child[p] = t => p \in todo
  BY <1>1 DEF Closed
<1>3. p \in Int /\ t \in Int
  BY DEF Tids, TypeInv, ControlOK
<1> QED BY <1>1, <1>2, <1>3

LEMMA NewbornsPoll == TypeInv /\ WatchInv /\ Newborns /\ Poll => Newborns'
<1> SUFFICES ASSUME TypeInv, WatchInv, Newborns, Poll, pc' \notin Leaving PROVE Newborns'
    BY DEF Newborns
<1>1. PICK t \in Tids :
      /\ t = LeastOf(todo) /\ t \in todo /\ pc = "poll" /\ tid' = t /\ pc \notin Leaving /\ \A u \in todo : t <= u
      /\ Closed(todo) /\ Closed(mtids) /\ todo \subseteq mtids
  BY LeastIsMember DEF TypeInv, ControlOK, Poll, Newborns, Leaving
<1>2. CASE t \in fresh /\ WaitStop(t) /\ Goto("handle") /\ UNCHANGED <<todo, mtids>>
  <2>1. \A p \in Tids : Unread(p)' => Unread(p) /\ child'[p] = child[p] /\ stop' = stop
    BY <1>1, <1>2 DEF Unread, WaitStop
  <2>2. Closed(todo)' /\ Closed(mtids)'
    BY <1>1, <1>2, <2>1 DEF Closed
  <2>3. (\A p \in Tids : Unread(p) => p < child[p] /\ (child[p] \in Threads => stop[child[p]] = "intr"))'
    BY <1>1, <2>1 DEF Newborns
  <2> QED BY <1>1, <1>2, <2>2, <2>3 DEF Newborns, Goto
<1>3. CASE /\ WaitExit(t) \/ UNCHANGED kernel
           /\ pc' \in {"poll", "detach", "returned"} /\ (pc' = "poll" => todo' = todo \ {t})
           /\ mtids' = mtids \/ (mtids' = mtids \ {t} /\ ~Stopped(t))
           /\ t \notin fresh
  <2>1. UNCHANGED <<stop, fresh, child>> /\ pc' = "poll" /\ todo' = todo \ {t}
    BY <1>3 DEF WaitExit, kernel, Leaving
  <2>2. \A p \in Tids : Unread(p)' => Settling(p)
    BY <2>1, UnreadSame
  <2>3. ~Unread(t) /\ ~Unread(t)'
    BY <1>1, <1>3, <2>1 DEF Unread
  <2>4. /\ mtids' \subseteq mtids /\ todo' \subseteq todo /\ todo' \subseteq mtids'
        /\ \A p \in mtids : Unread(p) => p \in mtids'
        /\ \A p \in todo : Unread(p)' => p \in todo'
    BY <1>1, <1>3, <2>1, <2>3
  <2> QED BY <1>1, <2>1, <2>2, <2>4, NewbornsStay
<1> QED
  <2>1. t \notin traced \/ task[t] = "zombie" => ~Stopped(t) /\ t \notin fresh
    BY <1>1 DEF TypeInv, KernelOK
  <2> QED BY <1>1, <1>2, <1>3, <2>1 DEF Poll, Reapable, Waitable, Goto, Quit, WaitExit, kernel

LEMMA NewbornsHandleClone == TypeInv /\ WatchInv /\ WatchInv' /\ Newborns /\ HandleClone => Newborns'
<1> SUFFICES ASSUME TypeInv, WatchInv, WatchInv', Newborns, HandleClone PROVE Newborns'
    OBVIOUS
<1>1. /\ pc = "handle" /\ tid \in mtids /\ tid \in todo /\ tid \in Tids /\ stop[tid] = "clone" /\ Unread(tid)
      /\ pc \notin Leaving /\ todo \subseteq mtids /\ Closed(todo) /\ Closed(mtids)
  BY Answering DEF HandleClone, Handling, Unread, Newborns, Leaving
<1>2. PICK c \in Tids : c = child[tid] /\ (c \in Threads => stop[c] = "intr")
  BY <1>1, UnreadParent DEF Newborns
<1>3. /\ pc' = "poll" /\ todo' = todo \ {tid} /\ mtids' = IF c \in Procs THEN mtids ELSE mtids \cup {c}
      /\ child' = child /\ \A t \in Tids : stop'[t] = stop[t] \/ (t \in {tid, c} /\ stop'[t] = "none")
      /\ fresh' = fresh \ {tid, c}
  BY <1>2 DEF HandleClone, Handled, Goto, AfterClone, NotIn
<1>4. ASSUME NEW p \in Tids, Unread(p)'
      PROVE  Settling(p) /\ child'[p] = child[p] /\ Unread(p) /\ p # tid /\ child[p] # c
  <2>1. stop[p] = "clone" /\ p \in fresh /\ p \notin {tid, c}
    BY <1>3, <1>4 DEF Unread
  <2>2. Unread(p)
    BY <2>1 DEF Unread
  <2>3. child[p] # tid
    BY <1>1, <2>2, Eldest DEF Newborns
  <2>4. child[p] # c
    BY <1>1, <1>2, <2>1 DEF WatchInv, Quiet
  <2>5. child[p] \in Tids
    BY <2>2, UnreadParent
  <2> QED BY <1>3, <2>1, <2>2, <2>3, <2>4, <2>5 DEF Settling
<1>5. (\A p \in Tids : Unread(p) => p < child[p] /\ (child[p] \in Threads => stop[child[p]] = "intr"))'
  BY <1>1, <1>4 DEF Newborns, Settling
<1>6. Closed(mtids)' /\ Closed(todo)'
  BY <1>1, <1>3, <1>4 DEF Closed
<1> QED BY <1>1, <1>3, <1>5, <1>6 DEF Newborns

LEMMA NewbornsHandle ==
  TypeInv /\ TypeInv' /\ WatchInv /\ Newborns
    /\ (HandleExit \/ HandleExec \/ HandleGroupStop \/ HandleInterrupt \/ HandleFatal \/ HandleSignal) => Newborns'
<1> SUFFICES ASSUME TypeInv, TypeInv', WatchInv, Newborns,
               HandleExit \/ HandleExec \/ HandleGroupStop \/ HandleInterrupt \/ HandleFatal \/ HandleSignal
             PROVE  Newborns'
    OBVIOUS
<1>1. /\ pc = "handle" /\ StillThere /\ tid \in mtids /\ tid \in Tids /\ tid \in todo /\ stop[tid] = status
      /\ status \notin {"exec", "clone"} /\ pc \notin Leaving /\ todo \subseteq mtids /\ Closed(todo)
      /\ \A t \in todo : tid <= t
  BY Answering, SignalFacts DEF HandleExit, HandleExec, HandleGroupStop, HandleInterrupt, HandleFatal, HandleSignal,
       Handling, Newborns, Leaving
<1>2. /\ pc' = "poll" /\ todo' = todo \ {tid} /\ mtids' = mtids
  BY <1>1 DEF HandleExit, HandleExec, HandleGroupStop, HandleInterrupt, HandleFatal, HandleSignal, Handling, Handled,
         Goto, thr
<1>3. ~Unread(tid) /\ \A p \in Tids : Unread(p) => child[p] # tid
  BY <1>1, Eldest DEF Unread
<1>4. \A p \in Tids : Unread(p)' => Settling(p)
  <2>1. CASE HandleGroupStop
    <3>1. /\ fresh' = fresh \ {tid} /\ child' = child /\ \A t \in Tids : t # tid => stop'[t] = stop[t]
          /\ stop'[tid] = "none"
      BY <1>1, <2>1 DEF HandleGroupStop, Listen, TypeInv, KernelOK
    <3>2. ASSUME NEW p \in Tids, Unread(p)' PROVE Unread(p) /\ child[p] # tid /\ child[p] \in Tids
      <4>1. Unread(p)
        BY <1>2, <3>1, <3>2 DEF Unread
      <4> QED BY <1>3, <4>1, UnreadParent
    <3> QED BY <3>1, <3>2 DEF Settling
  <2>2. CASE ~HandleGroupStop
    <3>1. (\E sig : Continue(Just(tid, sig), FALSE)) \/ UNCHANGED kernel
      BY <2>2 DEF HandleExit, HandleExec, HandleInterrupt, HandleFatal, HandleSignal, Resume
    <3>2. \E ts \in SUBSET {tid} : Quiet' /\ Kept(ts)
      <4>1. CASE \E sig : Continue(Just(tid, sig), FALSE)
        BY <1>1, <4>1, ResumeQuiet
      <4>2. CASE UNCHANGED kernel
        BY <1>1, <4>2, ResumeQuiet
      <4> QED BY <3>1, <4>1, <4>2
    <3>3. PICK ts \in SUBSET {tid} : Quiet' /\ Kept(ts)
      BY <3>2
    <3> QED BY <1>2, <1>3, <3>3, UnreadKept DEF TypeInv
  <2> QED BY <2>1, <2>2
<1> QED BY <1>1, <1>2, <1>3, <1>4, NewbornsStay DEF Settling

LEMMA NewbornsHandleKilled == TypeInv /\ WatchInv /\ Newborns /\ HandleKilled => Newborns'
<1> SUFFICES ASSUME TypeInv, WatchInv, Newborns, HandleKilled, pc' \notin Leaving PROVE Newborns'
    BY DEF Newborns
<1>1. /\ pc = "handle" /\ tid \in Tids /\ ~Alive(tid) /\ pc \notin Leaving /\ todo \subseteq mtids /\ Closed(todo)
  BY DEF HandleKilled, StillThere, Renamed, TypeInv, ControlOK, WatchInv, Quiet, Newborns, Leaving
<1>2. pc' = "poll" /\ todo' = todo \ {tid} /\ mtids' = mtids /\ UNCHANGED <<stop, fresh, child>>
  BY DEF HandleKilled, Handled, Quit, Goto, kernel, Leaving
<1>3. \A p \in Tids : Unread(p)' => Settling(p)
  BY <1>2, UnreadSame
<1>4. ~Unread(tid)
  BY <1>1, UnreadParent
<1> QED BY <1>1, <1>2, <1>3, <1>4, NewbornsStay DEF Settling

\* A stop that is recorded is dealt with; the new thread it reports stays stopped.
LEMMA NewbornsRecorded ==
  ASSUME TypeInv, WatchInv, Newborns, pc \in Collecting, NEW t \in mtids, t \in fresh, RecordStop(t), pc' = "stop"
  PROVE  Newborns'
<1>1. t \in Tids /\ pc \notin Leaving \cup {"handle"} /\ Closed(mtids)
  BY DEF TypeInv, ControlOK, Newborns, Leaving, Collecting
<1>2. /\ mtids' = IF stop[t] = "clone" /\ child[t] \notin Procs THEN mtids \cup {child[t]} ELSE mtids
      /\ IF stop[t] = "clone" /\ child[t] \in Procs THEN AfterClone(t, TRUE, FALSE) ELSE WaitStop(t)
  BY DEF RecordStop
<1>3. /\ child' = child /\ fresh' \subseteq fresh \ {t}
      /\ \A u \in Tids : stop'[u] = stop[u] \/ (stop'[u] = "none" /\ stop[t] = "clone" /\ u = child[t])
  <2>1. CASE stop[t] = "clone" /\ child[t] \in Procs
    BY <1>2, <2>1 DEF AfterClone, NotIn
  <2>2. CASE ~(stop[t] = "clone" /\ child[t] \in Procs)
    BY <1>2, <2>2 DEF WaitStop
  <2> QED BY <2>1, <2>2
<1>4. ASSUME NEW p \in Tids, Unread(p)'
      PROVE  /\ Settling(p) /\ child'[p] = child[p] /\ Unread(p) /\ p # t
             /\ stop[t] = "clone" => child[p] # child[t]
  <2>1. stop'[p] = "clone" /\ p \in fresh /\ p # t
    BY <1>3, <1>4 DEF Unread
  <2>2. Unread(p) /\ stop[p] = "clone"
    BY <1>3, <2>1 DEF Unread
  <2>3. stop[t] = "clone" => child[p] # child[t]
    BY <1>1, <2>1, <2>2 DEF WatchInv, Quiet
  <2>4. child[p] \in Tids
    BY <2>2, UnreadParent
  <2> QED BY <1>3, <2>1, <2>2, <2>3, <2>4 DEF Settling
<1>5. (\A p \in Tids : Unread(p) => p < child[p] /\ (child[p] \in Threads => stop[child[p]] = "intr"))'
  BY <1>1, <1>4 DEF Newborns, Settling
<1>6. Closed(mtids)'
  BY <1>1, <1>2, <1>4 DEF Closed
<1> QED BY <1>5, <1>6 DEF Newborns

\* Otherwise a collection waits, counts what it finds and forgets who is gone.
LEMMA NewbornsCollecting ==
  ASSUME TypeInv, WatchInv, Newborns, pc \in Collecting, NEW t \in Tids, UNCHANGED <<stop, fresh, child>>,
         mtids' = mtids \/ (mtids' = mtids \ {t} /\ ~Stopped(t)),
         pc' \in Collecting \cup {"kill", "restore"}
  PROVE  Newborns'
<1>1. pc \notin Leaving /\ pc' \notin {"seizeEach", "handle", "poll", "preserve", "meta", "loads", "inject", "resume"}
  BY DEF Collecting, Leaving
<1>2. \A p \in Tids : Unread(p)' => Settling(p)
  BY <1>1, UnreadSame
<1>3. ~Stopped(t) => ~Unread(t)
  BY DEF Unread, Stopped
<1> QED BY <1>1, <1>2, <1>3, NewbornsStay

LEMMA NewbornsCollectList == TypeInv /\ WatchInv /\ Newborns /\ CollectList => Newborns'
<1> SUFFICES ASSUME TypeInv, WatchInv, Newborns, CollectList PROVE Newborns'
    OBVIOUS
<1>1. PICK new, dead, seized :
        /\ new = Workers \ mtids /\ dead = {t \in new : t \notin traced /\ ~Alive(t)}
        /\ seized = {t \in new : \A u \in dead : t < u} /\ SeizeAll(seized) /\ mtids' = mtids \cup seized
  BY DEF CollectList
<1>2. /\ UNCHANGED <<stop, fresh, child>> /\ pc' \in {"stop", "kill", "restore"} /\ pc = "list"
  BY <1>1 DEF CollectList, CollectFails, Goto, SeizeAll
<1>3. \A p \in Tids : Unread(p)' => Settling(p)
  BY <1>2, UnreadSame
<1>4. (\A p \in Tids : Unread(p) => p < child[p] /\ (child[p] \in Threads => stop[child[p]] = "intr"))' /\ Closed(mtids)
  BY <1>2, <1>3 DEF Newborns, Settling, Leaving
<1>5. ASSUME NEW p \in Tids, Unread(p), child[p] \in seized PROVE p \in mtids \cup seized
  <2>1. p \in Workers /\ p < child[p] /\ child[p] \in Tids
    BY <1>2, <1>5, UnreadParent DEF Workers, Newborns, Leaving
  <2>2. \A u \in dead : child[p] < u /\ u \in Int
    BY <1>1, <1>5 DEF Workers, Listed, Threads, Tids
  <2>3. p \in Int /\ child[p] \in Int
    BY <2>1 DEF Tids
  <2>4. \A u \in dead : p < u
    BY <2>1, <2>2, <2>3
  <2> QED BY <1>1, <2>1, <2>4
<1>6. Closed(mtids)'
  BY <1>1, <1>3, <1>4, <1>5 DEF Closed, Settling
<1> QED BY <1>2, <1>4, <1>6 DEF Newborns

LEMMA NewbornsCollectConfirm == TypeInv /\ WatchInv /\ Newborns /\ CollectConfirm => Newborns'
<1> SUFFICES ASSUME TypeInv, WatchInv, Newborns, CollectConfirm PROVE Newborns'
    OBVIOUS
<1>1. /\ pc = "stop" /\ pc' \in {"kill", "restore", "list", "abandon", "preserve", "core", "meta"}
      /\ UNCHANGED <<stop, fresh, child>> /\ pc \notin Leaving /\ coll \in Collections
  BY DEF CollectConfirm, CollectFails, Goto, kernel, Leaving, TypeInv, ControlOK
<1>2. \A p \in Tids : Unread(p)' => Settling(p)
  BY <1>1, UnreadSame
<1>3. (\A p \in Tids : Unread(p) => p < child[p] /\ (child[p] \in Threads => stop[child[p]] = "intr"))' /\ Closed(mtids)
  BY <1>1, <1>2 DEF Newborns, Settling
<1>4. \A p \in Tids : Unread(p)' => p \in Workers /\ Unread(p) /\ child'[p] = child[p]
  BY <1>2, UnreadParent DEF Settling, Workers
<1>5. mtids' = mtids \/ mtids' = mtids \cap (Workers \cup (IF leaderExited THEN {Leader} ELSE {}))
  BY DEF CollectConfirm
<1>6. Closed(mtids)'
  BY <1>3, <1>4, <1>5 DEF Closed
<1>7. pc' \in {"preserve", "meta"} => Workers \subseteq mtids' /\ coll' = [coll EXCEPT !.tids = Workers]
  BY DEF CollectConfirm, CollectFails, Goto
<1>8. pc' = "preserve" => todo' = Workers
  BY DEF CollectConfirm, CollectFails, Goto
<1>9. pc' = "preserve" => Closed(todo)'
  BY <1>4, <1>8 DEF Closed
<1>10. pc' = "meta" => coll'.tids = Workers
  BY <1>1, <1>7 DEF Collections
<1> QED BY <1>1, <1>3, <1>6, <1>7, <1>8, <1>9, <1>10 DEF Newborns

LEMMA NewbornsCollect ==
  TypeInv /\ WatchInv /\ Newborns
    /\ (CollectStart \/ CollectList \/ CollectPoll \/ CollectRegs \/ CollectWait \/ CollectConfirm) => Newborns'
<1> SUFFICES ASSUME TypeInv, WatchInv, Newborns,
               CollectStart \/ CollectList \/ CollectPoll \/ CollectRegs \/ CollectWait \/ CollectConfirm
             PROVE  Newborns'
    OBVIOUS
<1> USE DEF Collecting
<1>1. CASE CollectStart
  <2>1. /\ pc = "collect" /\ pc' = "list" /\ UNCHANGED <<stop, fresh, child, mtids>> /\ pc \notin Leaving
    BY <1>1 DEF CollectStart, Goto, kernel, thr, Leaving
  <2> QED BY <2>1, UnreadSame, NewbornsStay
<1>2. CASE CollectPoll
  <2>1. PICK t \in Tids : t = LeastOf(todo) /\ t \in todo /\ t \in mtids /\ pc = "stop"
    BY <1>2, LeastIsMember DEF TypeInv, ControlOK, CollectPoll, WatchInv, Working
  <2>2. CASE t \in fresh /\ RecordStop(t) /\ UNCHANGED pc
    BY <2>1, <2>2, NewbornsRecorded
  <2>3. CASE /\ UNCHANGED kernel \/ (WaitExit(t) /\ Reapable(t))
             /\ mtids' = mtids \/ (mtids' = mtids \ {t} /\ Reapable(t))
             /\ pc' \in {"stop", "regs", "kill", "restore"}
    <3>1. UNCHANGED <<stop, fresh, child>> /\ (Reapable(t) => ~Stopped(t))
      BY <2>3 DEF WaitExit, kernel, Reapable, TypeInv, KernelOK
    <3> QED BY <2>1, <2>3, <3>1, NewbornsCollecting
  <2> QED BY <1>2, <2>1, <2>2, <2>3 DEF CollectPoll, CollectFails, Goto
<1>3. CASE CollectRegs
  <2>1. /\ pc = "regs" /\ pc' \in {"stop", "stopWait", "kill", "restore"} /\ UNCHANGED <<stop, fresh, child>>
        /\ mtids' = mtids \/ (mtids' = mtids \ {tid} /\ task[tid] = "gone")
        /\ tid \in Tids
    BY <1>3 DEF CollectRegs, CollectFails, Goto, Interrupt, kernel, TypeInv, ControlOK
  <2>2. task[tid] = "gone" => ~Stopped(tid)
    BY <2>1 DEF TypeInv, KernelOK
  <2> QED BY <2>1, <2>2, NewbornsCollecting
<1>4. CASE CollectWait
  <2>1. pc = "stopWait" /\ tid \in Tids /\ tid \in mtids
    BY <1>4 DEF CollectWait, TypeInv, ControlOK, WatchInv, Working
  <2>2. CASE tid \in fresh /\ RecordStop(tid) /\ Goto("stop")
    BY <2>1, <2>2, NewbornsRecorded DEF Goto
  <2>3. CASE /\ (Reapable(tid) /\ WaitExit(tid)) \/ (task[tid] = "gone" /\ UNCHANGED kernel)
             /\ Goto("stop") /\ mtids' = mtids \ {tid}
    <3>1. UNCHANGED <<stop, fresh, child>> /\ ~Stopped(tid)
      BY <2>1, <2>3 DEF WaitExit, kernel, Reapable, TypeInv, KernelOK
    <3> QED BY <2>1, <2>3, <3>1, NewbornsCollecting DEF Goto
  <2>4. CASE CollectFails /\ UNCHANGED <<kernel, mtids>>
    BY <2>1, <2>4, NewbornsCollecting DEF CollectFails, Goto, kernel
  <2> QED BY <1>4, <2>2, <2>3, <2>4 DEF CollectWait
<1> QED BY <1>1, <1>2, <1>3, <1>4, NewbornsCollectList, NewbornsCollectConfirm

-----------------------------------------------------------------------------
(* Snapshots                                                               *)

\* A step that leaves every stop as it is.
LEMMA NewbornsIdle ==
  ASSUME TypeInv, WatchInv, Newborns, pc \notin Leaving, UNCHANGED <<stop, child, mtids>>, fresh' \subseteq fresh,
         pc' \notin {"seizeEach", "handle", "poll", "preserve"},
         pc' \in {"meta", "loads", "inject", "resume"} => pc = "meta" /\ coll' = coll
  PROVE  Newborns'
<1>1. \A p \in Tids : Unread(p)' => Settling(p)
  BY UnreadSame
<1>2. pc = "meta" => coll.tids \subseteq mtids
  BY DEF Newborns
<1> QED BY <1>1, <1>2, NewbornsStay

LEMMA NewbornsQuiet ==
  TypeInv /\ WatchInv /\ Newborns
    /\ (DumpStart \/ Abandon \/ Meta \/ InjectDeath \/ DumpChild \/ Late \/ Finish \/ SettleKilled \/ Commit
        \/ Core \/ CoreLoads) => Newborns'
<1> SUFFICES ASSUME TypeInv, WatchInv, Newborns,
                    DumpStart \/ Abandon \/ Meta \/ InjectDeath \/ DumpChild \/ Late \/ Finish \/ SettleKilled
                      \/ Commit \/ Core \/ CoreLoads
             PROVE  Newborns'
    OBVIOUS
<1>1. CASE DumpStart \/ Abandon \/ InjectDeath \/ DumpChild \/ Late \/ Finish \/ SettleKilled
  <2>1. pc \notin Leaving /\ mtids' = mtids
    BY <1>1 DEF DumpStart, Abandon, InjectDeath, DumpChild, Late, Finish, SettleKilled, Leaving, thr
  <2>2. UNCHANGED <<stop, child>> /\ fresh' \subseteq fresh
    BY <1>1 DEF DumpStart, Abandon, InjectDeath, DumpChild, Late, Finish, SettleKilled, Interrupt, ChildDies,
         WaitStop, WaitExit, kernel
  <2>3. pc' \in {"drain", "detach", "collect", "late", "lateWait", "finish", "finishWait", "settle", "commit"}
    BY <1>1, Returned DEF DumpStart, Abandon, InjectDeath, DumpChild, Late, Finish, SettleKilled, Goto
  <2> QED BY <2>1, <2>2, <2>3, NewbornsIdle
<1>2. CASE Meta \/ Commit \/ Core \/ CoreLoads
  <2>1. pc \notin Leaving /\ UNCHANGED <<mtids, coll, stop, child, fresh>>
    BY <1>2 DEF Meta, Commit, Core, CoreLoads, Leaving, thr, kernel
  <2>2. /\ pc' \in {"drain", "detach", "coreLoads", "kill", "loads", "inject", "restore"}
        /\ pc' \in {"loads", "inject"} => pc = "meta"
    BY <1>2, Returned DEF Meta, Commit, Core, CoreLoads, Goto
  <2> QED BY <2>1, <2>2, NewbornsIdle
<1> QED BY <1>1, <1>2

\* A step of the leader alone: it is nobody's child.
LEMMA UnreadLeader ==
  ASSUME TypeInv, WatchInv, fresh' \subseteq fresh \ {Leader}, child' = child, pc' # "handle",
         \A t \in Tids \ {Leader} : stop'[t] = stop[t]
  PROVE  \A p \in Tids : Unread(p)' => Settling(p)
<1> SUFFICES ASSUME NEW p \in Tids, Unread(p)' PROVE Settling(p)
    OBVIOUS
<1>1. p # Leader /\ Unread(p)
  BY DEF Unread
<1>2. child[p] \in Tids /\ child[p] # Leader
  BY <1>1, UnreadParent
<1> QED BY <1>1, <1>2 DEF Settling

LEMMA NewbornsLeader ==
  ASSUME TypeInv, WatchInv, Newborns, pc \notin Leaving, mtids' = mtids,
         \A p \in Tids : Unread(p)' => Settling(p),
         pc' \notin {"seizeEach", "handle", "poll", "preserve", "meta", "loads"},
         pc' \in {"inject", "resume"} => pc = "inject" /\ coll' = coll
  PROVE  Newborns'
<1>1. pc = "inject" => coll.tids \subseteq mtids
  BY DEF Newborns
<1> QED BY <1>1, NewbornsStay

LEMMA NewbornsInject == TypeInv /\ TypeInv' /\ WatchInv /\ Newborns /\ (Inject \/ InjectInVain) => Newborns'
<1> SUFFICES ASSUME TypeInv, TypeInv', WatchInv, Newborns, Inject \/ InjectInVain PROVE Newborns'
    OBVIOUS
<1>1. pc = "inject" /\ pc \notin Leaving /\ mtids' = mtids /\ pc' \in {"resume", "restore", "drain", "detach"}
  BY Returned DEF Inject, InjectInVain, thr, Goto, Leaving
<1>2. CASE Inject
  <2>1. PICK sig \in Signals \cup {"none"} : RunInjected(sig)
    BY <1>2 DEF Inject, PendingFor
  <2>2. /\ child' = child /\ fresh' = fresh \ {Leader} /\ \A t \in Tids \ {Leader} : stop'[t] = stop[t]
    BY <1>1, <1>2, <2>1, Injected DEF Inject, thr, Injecting
  <2>3. pc' = "resume" => coll' = coll
    BY <1>2, Returned DEF Inject, Goto
  <2> QED BY <1>1, <2>2, <2>3, UnreadLeader, NewbornsLeader
<1>3. CASE InjectInVain
  <2>1. pc' = "restore"
    BY <1>3 DEF InjectInVain, Goto
  <2>2. CASE UNCHANGED kernel \/ WaitExit(Leader)
    <3>1. UNCHANGED <<stop, child, fresh>>
      BY <2>2 DEF WaitExit, kernel
    <3> QED BY <1>1, <2>1, <3>1, UnreadSame, NewbornsLeader
  <2>3. CASE Continue(Just(Leader, "none"), FALSE)
    <3>1. DOMAIN Just(Leader, "none") = {Leader} /\ {Leader} \subseteq Tids
      BY LeaderIsThread DEF Just
    <3>2. Quiet' /\ Kept({t \in {Leader} : Stopped(t)})
      BY <2>3, <3>1, QuietContinue DEF TypeInv, WatchInv
    <3>3. \A p \in Tids : Unread(p) => child[p] # Leader
      BY UnreadParent
    <3>4. \A p \in Tids : Unread(p)' => Settling(p)
      BY <2>1, <3>2, <3>3, UnreadKept DEF TypeInv
    <3> QED BY <1>1, <2>1, <3>4, NewbornsLeader
  <2> QED BY <1>3, <2>2, <2>3 DEF InjectInVain
<1> QED BY <1>2, <1>3

\* What is let go at once contains the thread that reports a clone with the new one.
LEMMA NewbornsReleased ==
  ASSUME TypeInv, TypeInv', WatchInv, Newborns, pc \notin Leaving, mtids' = mtids,
         NEW S, S \subseteq Tids, Closed(S), NEW f, DOMAIN f = S, Continue(f, FALSE),
         pc' \in {"drain", "detach", "commit", "child"}
  PROVE  Newborns'
<1>1. Quiet' /\ Kept({t \in S : Stopped(t)})
  BY QuietContinue DEF TypeInv, WatchInv
<1>2. ASSUME NEW p \in Tids, Unread(p), child[p] \in S PROVE p \in S /\ Stopped(p)
  BY <1>2, UnreadParent DEF Closed
<1>3. \A p \in Tids : Unread(p)' => Settling(p)
  BY <1>1, <1>2, UnreadKept DEF TypeInv
<1> QED BY <1>3, NewbornsLeader

LEMMA NewbornsRelease ==
  TypeInv /\ TypeInv' /\ WatchInv /\ Newborns /\ (Restore \/ Loads \/ ResumeAll) => Newborns'
<1> SUFFICES ASSUME TypeInv, TypeInv', WatchInv, Newborns, Restore \/ Loads \/ ResumeAll PROVE Newborns'
    OBVIOUS
<1>1. mtids \subseteq Tids /\ coll.tids \subseteq Tids /\ mtids' = mtids /\ pc \notin Leaving /\ Closed(mtids)
  BY DEF TypeInv, ControlOK, Collections, Restore, Loads, ResumeAll, thr, Newborns, Leaving
<1>2. CASE Restore
  <2>1. Continue([t \in mtids |-> coll.relay[t]], FALSE) /\ pc' \in {"drain", "detach"}
    BY <1>2, Returned DEF Restore
  <2> QED BY <1>1, <2>1, NewbornsReleased
<1>3. CASE Loads \/ ResumeAll
  <2>1. Closed(coll.tids)
    <3> SUFFICES ASSUME NEW p \in Tids, Unread(p), child[p] \in coll.tids PROVE p \in coll.tids
        BY DEF Closed
    <3>1. p \in mtids /\ ~(p = Leader /\ leaderExited)
      BY <1>1, <1>3, UnreadParent DEF Loads, ResumeAll, Newborns, Closed
    <3> QED BY <1>3, <3>1 DEF Loads, ResumeAll, WatchInv, Phases, Gathered
  <2>2. CASE UNCHANGED kernel /\ pc' = "restore"
    BY <1>1, <2>2, UnreadSame, NewbornsLeader DEF kernel
  <2>3. CASE Continue([t \in coll.tids |-> coll.relay[t]], FALSE) /\ pc' = "commit"
    BY <1>1, <2>1, <2>3, NewbornsReleased
  <2>4. CASE /\ Continue([t \in coll.tids |-> IF t = Leader THEN "none" ELSE coll.relay[t]], FALSE)
             /\ pc' = "child"
    BY <1>1, <2>1, <2>4, NewbornsReleased
  <2> QED BY <1>3, <2>2, <2>3, <2>4 DEF Loads, ResumeAll, Goto
<1> QED BY <1>2, <1>3

LEMMA NewbornsPreserve == TypeInv /\ TypeInv' /\ WatchInv /\ Newborns /\ Preserve => Newborns'
<1> SUFFICES ASSUME TypeInv, TypeInv', WatchInv, Newborns, Preserve PROVE Newborns'
    OBVIOUS
<1>1. /\ pc = "preserve" /\ pc \notin Leaving /\ mtids' = mtids /\ Closed(todo) /\ todo \subseteq mtids
  BY DEF Preserve, thr, Newborns, Leaving
<1>2. CASE todo = {}
  <2>1. UNCHANGED kernel /\ pc' \in {"drain", "detach"}
    BY <1>2, Returned DEF Preserve
  <2> QED BY <1>1, <2>1, UnreadSame, NewbornsLeader DEF kernel
<1>3. CASE todo # {}
  <2>1. PICK t \in Tids : t = LeastOf(todo) /\ t \in todo /\ \A u \in todo : t <= u
    BY <1>3, LeastIsMember DEF TypeInv, ControlOK
  <2>2. /\ pc' = "preserve" /\ todo' = todo \ {t}
        /\ \/ Continue(Just(t, coll.relay[t]), FALSE)
           \/ Listen(t)
           \/ UNCHANGED kernel /\ ~Alive(t)
    BY <1>1, <1>3, <2>1 DEF Preserve
  <2>3. \A p \in Tids : Unread(p) => child[p] # t
    BY <1>1, <2>1, Eldest
  <2>4. (\A p \in Tids : Unread(p)' => Settling(p)) /\ ~Unread(t)'
    <3>1. CASE Continue(Just(t, coll.relay[t]), FALSE)
      <4>1. DOMAIN Just(t, coll.relay[t]) = {t}
        BY DEF Just
      <4>2. Quiet' /\ Kept({u \in {t} : Stopped(u)})
        BY <3>1, <4>1, QuietContinue DEF TypeInv, WatchInv
      <4>3. ~Stopped(t)'
        BY <4>2 DEF Kept, Stopped
      <4>4. \A p \in Tids : Unread(p)' => Settling(p)
        BY <2>2, <2>3, <4>2, UnreadKept DEF TypeInv
      <4> QED BY <4>3, <4>4 DEF Unread, Stopped
    <3>2. CASE Listen(t)
      <4>1. child' = child /\ fresh' = fresh \ {t} /\ \A u \in Tids : stop'[u] = IF u = t THEN "none" ELSE stop[u]
        BY <3>2 DEF Listen, TypeInv, KernelOK
      <4>2. ASSUME NEW p \in Tids, Unread(p)' PROVE Unread(p) /\ child[p] # t /\ child[p] \in Tids /\ p # t
        <5>1. Unread(p) /\ p # t
          BY <2>2, <4>1, <4>2 DEF Unread
        <5> QED BY <2>3, <5>1, UnreadParent
      <4> QED BY <4>1, <4>2 DEF Settling
    <3>3. CASE UNCHANGED kernel /\ ~Alive(t)
      <4>1. UNCHANGED <<stop, child, fresh>> /\ ~Unread(t)
        BY <3>3, UnreadParent DEF kernel
      <4> QED BY <2>2, <4>1, UnreadSame DEF Unread
    <3> QED BY <2>2, <3>1, <3>2, <3>3
  <2> QED BY <1>1, <2>1, <2>2, <2>4, NewbornsStay DEF Settling
<1> QED BY <1>2, <1>3

LEMMA NewbornsSettle == TypeInv /\ TypeInv' /\ WatchInv /\ Newborns /\ Settle => Newborns'
<1> SUFFICES ASSUME TypeInv, TypeInv', WatchInv, Newborns, Settle PROVE Newborns'
    OBVIOUS
<1>1. /\ pc = "settle" /\ pc \notin Leaving /\ mtids' = mtids /\ pc' \in {"commit", "settle"}
      /\ stop[Leader] = status /\ Leader \notin fresh /\ Leader \in Tids /\ Stopped(Leader)
  BY LeaderIsThread DEF Settle, Settled, Goto, thr, Leaving, WatchInv, Reading, Read, AliveThreads, Stopped
<1>2. CASE Listen(Leader)
  <2>1. child' = child /\ fresh' = fresh \ {Leader} /\ \A t \in Tids \ {Leader} : stop'[t] = stop[t]
    BY <1>2 DEF Listen, TypeInv, KernelOK
  <2> QED BY <1>1, <2>1, UnreadLeader, NewbornsLeader
<1>3. CASE status = "clone" /\ AfterClone(Leader, TRUE, TRUE)
  <2>1. PICK c \in Tids : c = child[Leader]
    BY <1>1, <1>3 DEF TypeInv, KernelOK
  <2>2. /\ child' = child /\ fresh' = fresh \ {Leader, c}
        /\ \A t \in Tids : stop'[t] = IF t \in {Leader, c} THEN "none" ELSE stop[t]
    BY <1>3, <2>1 DEF AfterClone, NotIn
  <2>3. ASSUME NEW p \in Tids, Unread(p)' PROVE Settling(p)
    <3>1. stop[p] = "clone" /\ p \in fresh /\ p # Leader /\ p # c
      BY <1>1, <2>2, <2>3 DEF Unread
    <3>2. Unread(p)
      BY <3>1 DEF Unread
    <3>3. child[p] # c
      BY <1>1, <1>3, <2>1, <3>1 DEF WatchInv, Quiet
    <3>4. child[p] # Leader /\ child[p] \in Tids
      BY <3>2, UnreadParent
    <3> QED BY <2>2, <3>2, <3>3, <3>4 DEF Settling
  <2> QED BY <1>1, <2>3, NewbornsLeader
<1>4. CASE \E sig : Continue(Just(Leader, sig), FALSE)
  <2>1. PICK sig : Continue(Just(Leader, sig), FALSE)
    BY <1>4
  <2>2. DOMAIN Just(Leader, sig) = {Leader}
    BY DEF Just
  <2>3. Quiet' /\ Kept({t \in {Leader} : Stopped(t)})
    BY <1>1, <2>1, <2>2, QuietContinue DEF TypeInv, WatchInv
  <2>4. \A p \in Tids : Unread(p) => child[p] # Leader
    BY UnreadParent
  <2>5. \A p \in Tids : Unread(p)' => Settling(p)
    BY <1>1, <2>3, <2>4, UnreadKept DEF TypeInv
  <2> QED BY <1>1, <2>5, NewbornsLeader
<1>5. CASE UNCHANGED kernel
  BY <1>1, <1>5, UnreadSame, NewbornsLeader DEF kernel
<1>6. CASE \E s \in Signals : RunInjected(s)
  <2>1. PICK s \in Signals : RunInjected(s)
    BY <1>6
  <2>2. child' = child /\ fresh' = fresh \ {Leader} /\ \A t \in Tids \ {Leader} : stop'[t] = stop[t]
    BY <2>1 DEF RunInjected, TypeInv, KernelOK
  <2> QED BY <1>1, <2>2, UnreadLeader, NewbornsLeader
<1> QED
  <2>1. \A s \in PendingFor(Leader) : s \in Signals
    BY DEF PendingFor
  <2> QED BY <1>2, <1>3, <1>4, <1>5, <1>6, <2>1 DEF Settle

LEMMA NewbornsStep ==
  TypeInv /\ TypeInv' /\ WatchInv /\ WatchInv' /\ Newborns /\ [Next]_vars /\ NoExecYet' => Newborns'
<1> SUFFICES ASSUME TypeInv, TypeInv', WatchInv, WatchInv', Newborns, [Next]_vars, NoExecYet' PROVE Newborns'
    OBVIOUS
<1>1. CASE UNCHANGED vars
  BY <1>1 DEF vars, kernel, arthur, ctl, thr, Newborns, Closed, Unread
<1>2. CASE RollbackNext \/ RollbackWait \/ DetachPoll \/ DetachRegs \/ DetachWait \/ DetachEnd
           \/ KillCrashed \/ CoreCommit
  <2>1. pc' \in Leaving
    BY <1>2 DEF RollbackNext, RollbackWait, DetachPoll, DetachRegs, DetachWait, DetachEnd, KillCrashed, CoreCommit,
         Goto, Leaving
  <2> QED BY <2>1 DEF Newborns
<1>3. CASE SeizeList \/ SeizeEach \/ SeizeEnd \/ DrainStart \/ PassEnd \/ Dispatch \/ AwaitSignal \/ Request
  BY <1>3, NewbornsSeize, NewbornsMainLoop
<1>4. CASE Poll \/ HandleClone \/ HandleExit \/ HandleExec \/ HandleGroupStop \/ HandleInterrupt
           \/ HandleFatal \/ HandleSignal \/ HandleKilled
  BY <1>4, NewbornsPoll, NewbornsHandleClone, NewbornsHandle, NewbornsHandleKilled
<1>5. CASE CollectStart \/ CollectList \/ CollectPoll \/ CollectRegs \/ CollectWait \/ CollectConfirm
  BY <1>5, NewbornsCollect
<1>6. CASE DumpStart \/ Abandon \/ Preserve \/ Restore \/ Meta \/ Loads \/ Inject \/ InjectInVain
           \/ InjectDeath \/ ResumeAll \/ DumpChild \/ Late \/ Finish \/ Settle \/ SettleKilled \/ Commit
           \/ Core \/ CoreLoads
  BY <1>6, NewbornsQuiet, NewbornsInject, NewbornsRelease, NewbornsPreserve, NewbornsSettle
<1>7. CASE Watched
  BY <1>7, NewbornsTarget
<1> QED BY <1>1, <1>2, <1>3, <1>4, <1>5, <1>6, <1>7 DEF Next, Arthur

-----------------------------------------------------------------------------
(* The fatal signal                                                        *)

LEMMA ResultFacts == \A v \in {"none", "failed", "exited", "KILL", "grouped", "intr", "group", "clone", "exit", "exec"} :
                       v \notin Fatal
  BY MonitorAssumption, SignalAssumption

LEMMA DeadAreDoomed == AliveThreads = {} => Doom = Fatal
  BY DEF Doom

\* A step that leaves the threads at their signals, but for what ts names.
LEMMA DoomKept ==
  ASSUME KernelOK, mtids \subseteq Threads, NEW ts, Kept(ts),
         \A t \in mtids : Alive(t) /\ t \notin fresh /\ stop[t] \in Fatal => t \in mtids' /\ t \notin ts
  PROVE  Doom \subseteq Doom'
<1>1. AliveThreads' = {} => Doom' = Fatal
  BY DEF Doom
<1>2. ASSUME AliveThreads' # {}, NEW s \in Doom PROVE s \in Doom'
  <2>1. AliveThreads # {} /\ s \in Fatal
    BY <1>2 DEF Kept, Doom
  <2>2. PICK t \in mtids : Alive(t) /\ stop[t] = s /\ t \notin fresh
    BY <2>1 DEF Doom
  <2>3. t \in mtids' /\ t \in Threads \ ts
    BY <2>1, <2>2
  <2>4. stop'[t] = s /\ t \notin fresh' /\ Alive(t)'
    BY <1>2, <2>2, <2>3 DEF Kept
  <2> QED BY <2>1, <2>3, <2>4 DEF Doom
<1> QED BY <1>1, <1>2 DEF Doom

\* A step that leaves every thread's stop as it is.
LEMMA DoomIdle ==
  ASSUME UNCHANGED stop, AliveThreads' = AliveThreads, fresh' \subseteq fresh, mtids \subseteq Threads,
         \A t \in mtids : Alive(t) => t \in mtids'
  PROVE  Doom \subseteq Doom'
  BY DEF Doom, AliveThreads

\* Nothing new is known of the crash, and none is at hand.
LEMMA DoomedElsewhere ==
  ASSUME TypeInv, Doomed, pc \notin Leaving \cup {"drain", "poll", "handle", "dispatch"}, exitSig = "none",
         exitSig' = exitSig, pc' \notin Collecting \cup {"abandon", "commit"}, forkRc' = forkRc
  PROVE  Doomed'
<1>1. forkRc \notin Fatal
  BY DEF Doomed, ReturnStands
<1> QED BY <1>1 DEF Doomed, CrashStands, ReturnStands, CollectedStands, ResultStands

LEMMA DoomedReturns ==
  ASSUME exitSig' = "none", NEW v, ForkcoreReturns(v), v \in Fatal => v \in Doom'
  PROVE  Doomed'
<1>1. pc' = "detach" \/ (pc' = "drain" /\ (forkRc' \in Fatal => forkRc' \in Doom'))
  BY ResultFacts DEF ForkcoreReturns, Quit, Goto
<1> QED BY <1>1 DEF Doomed, CrashStands, ReturnStands, CollectedStands, ResultStands, Leaving, Collecting

LEMMA DoomedTarget == TypeInv /\ TypeInv' /\ WatchInv /\ NoExecYet' /\ Doomed /\ Watched => Doomed'
<1> SUFFICES ASSUME TypeInv, TypeInv', WatchInv, NoExecYet', Doomed, Watched PROVE Doomed'
    OBVIOUS
<1>1. UNCHANGED <<pc, mtids, exitSig, coll, forkRc, shot>>
  BY DEF Watched, arthur, ctl, thr, crash, loop
<1>2. Quiet' /\ FatalKills' /\ Moved /\ KernelOK /\ KernelOK' /\ mtids \subseteq Tids
  BY QuietTarget DEF Watched, TypeInv, WatchInv, ControlOK
<1>3. AliveThreads = {} => AliveThreads' = {}
  BY <1>2 DEF Moved
<1>4. Doom \subseteq Doom'
  <2>1. AliveThreads' = {} => Doom' = Fatal
    BY DEF Doom
  <2>2. ASSUME AliveThreads' # {}, NEW s \in Doom PROVE s \in Doom'
    <3>1. AliveThreads # {} /\ s \in Fatal /\ s # "none"
      BY <1>3, <2>2, ResultFacts DEF Doom
    <3>2. PICK t \in mtids : Alive(t) /\ stop[t] = s /\ t \notin fresh
      BY <3>1 DEF Doom
    <3>3. stop'[t] = s /\ t \notin fresh' /\ Alive(t)'
      BY <1>2, <2>2, <3>1, <3>2, StillStopped DEF Stopped
    <3> QED BY <1>1, <3>1, <3>2, <3>3 DEF Doom
  <2> QED BY <2>1, <2>2 DEF Doom
<1> QED BY <1>1, <1>3, <1>4 DEF Doomed, CrashStands, ReturnStands, CollectedStands, ResultStands

LEMMA DoomedLeaving ==
  TypeInv /\ WatchInv /\ Doomed
    /\ (RollbackNext \/ RollbackWait \/ DetachPoll \/ DetachRegs \/ DetachWait \/ DetachEnd \/ CoreCommit) => Doomed'
<1> SUFFICES ASSUME TypeInv, WatchInv, Doomed,
               RollbackNext \/ RollbackWait \/ DetachPoll \/ DetachRegs \/ DetachWait \/ DetachEnd \/ CoreCommit
             PROVE  Doomed'
    OBVIOUS
<1>1. pc \in Leaving /\ pc' \in Leaving /\ exitSig' = exitSig
  BY DEF RollbackNext, RollbackWait, DetachPoll, DetachRegs, DetachWait, DetachEnd, CoreCommit, Goto, Leaving, crash
<1>2. todo # {} => LeastOf(todo) \in Tids
  BY LeastIsMember DEF TypeInv, ControlOK
<1>3. \E t \in Tids : \/ (t \in fresh \/ Answers(t)) /\ LetGo(t)
                      \/ WaitExit(t)
                      \/ UNCHANGED kernel \/ Interrupt(t)
  BY <1>2 DEF RollbackNext, RollbackWait, DetachPoll, DetachRegs, DetachWait, DetachEnd, CoreCommit, Detached, TypeInv,
              ControlOK, KernelOK
<1>4. AliveThreads = {} => AliveThreads' = {}
  <2>1. ASSUME NEW t \in Tids, t \in fresh \/ Answers(t), LetGo(t) PROVE AliveThreads = {} => AliveThreads' = {}
    BY <2>1, LetGoQuiet DEF TypeInv, WatchInv, Kept
  <2>2. ASSUME NEW t \in Tids, WaitExit(t) PROVE AliveThreads = {} => AliveThreads' = {}
    BY <2>2, QuietWaitExit DEF TypeInv, WatchInv
  <2>3. ASSUME NEW t \in Tids, UNCHANGED kernel \/ Interrupt(t) PROVE AliveThreads = {} => AliveThreads' = {}
    BY <2>3 DEF kernel, Interrupt, AliveThreads, Alive
  <2> QED BY <1>3, <2>1, <2>2, <2>3
<1> QED BY <1>1, <1>4 DEF Doomed, CrashStands, ReturnStands, CollectedStands, ResultStands, Leaving, Collecting

LEMMA DoomedSeize == TypeInv /\ WatchInv /\ Doomed /\ (SeizeList \/ SeizeEach \/ SeizeEnd) => Doomed'
<1> SUFFICES ASSUME TypeInv, WatchInv, Doomed, SeizeList \/ SeizeEach \/ SeizeEnd PROVE Doomed'
    OBVIOUS
<1>1. pc \in {"seize", "seizeEach"} /\ UNCHANGED <<exitSig, forkRc>>
  BY DEF SeizeList, SeizeEach, SeizeEnd, crash, loop
<1>2. pc' \in {"seize", "seizeEach", "rollback", "drain"} /\ exitSig = "none"
  BY <1>1 DEF SeizeList, SeizeEach, SeizeEnd, Rollback, Goto, WatchInv, NoCrash
<1> QED BY <1>1, <1>2, DoomedElsewhere DEF Leaving, Collecting

LEMMA MembersAreThreads == TypeInv /\ WatchInv /\ pc \notin Leaving => mtids \subseteq Threads
  BY DEF WatchInv, Members

\* While it polls Arthur only learns of more.
LEMMA DoomedPolling ==
  ASSUME TypeInv, Doomed, pc \in {"drain", "poll", "handle"}, Doom \subseteq Doom',
         UNCHANGED <<exitSig, forkRc>>, pc' \in {"drain", "poll", "handle", "dispatch"} \cup Leaving,
         pc' \in Leaving /\ exitSig # "none" => AliveThreads' = {}
  PROVE  Doomed'
  BY DEF Doomed, CrashStands, ReturnStands, CollectedStands, ResultStands, Leaving, Collecting

LEMMA DoomedMainLoop ==
  TypeInv /\ WatchInv /\ Doomed /\ (DrainStart \/ PassEnd \/ Dispatch \/ AwaitSignal \/ Request) => Doomed'
<1> SUFFICES ASSUME TypeInv, WatchInv, Doomed, DrainStart \/ PassEnd \/ Dispatch \/ AwaitSignal \/ Request
             PROVE  Doomed'
    OBVIOUS
<1>1. UNCHANGED <<task, stop, fresh>> /\ AliveThreads' = AliveThreads /\ pc \notin Leaving
  BY DEF DrainStart, PassEnd, Dispatch, AwaitSignal, Request, TakeChld, kernel, AliveThreads, Alive, Leaving
<1>2. mtids' = mtids => Doom' = Doom
  BY <1>1 DEF Doom, Alive
<1>3. CASE DrainStart
  <2>1. pc = "drain" /\ pc' = "poll" /\ UNCHANGED <<exitSig, forkRc, mtids>>
    BY <1>3 DEF DrainStart, Goto, crash, thr
  <2> QED BY <1>2, <2>1, DoomedPolling DEF Leaving
<1>4. CASE PassEnd /\ mtids = {}
  <2>1. pc = "poll" /\ UNCHANGED <<exitSig, forkRc>> /\ pc' \in {"detach", "returned", "drain"}
    BY <1>4 DEF PassEnd, Quit, Goto, crash, loop
  <2>2. Doom # {} => AliveThreads' = {}
    BY <1>1, <1>4 DEF Doom
  <2>3. Doom \subseteq Doom'
    BY <2>2 DEF Doom
  <2>4. exitSig # "none" => AliveThreads' = {}
    BY <1>1, <2>1, <2>2 DEF Doomed, CrashStands
  <2> QED BY <2>1, <2>3, <2>4, DoomedPolling DEF Leaving
<1>5. CASE PassEnd /\ mtids # {}
  <2>1. /\ pc = "poll" /\ UNCHANGED <<exitSig, forkRc, mtids>>
        /\ pc' \in {"drain", "dispatch"} \/ (pc' = "collect" /\ exitSig # "none")
    BY <1>5 DEF PassEnd, Goto, crash, loop
  <2>2. CASE pc' \in {"drain", "dispatch"}
    BY <1>2, <2>1, <2>2, DoomedPolling DEF Leaving
  <2>3. CASE pc' = "collect" /\ exitSig # "none"
    BY <1>1, <1>2, <2>1, <2>3 DEF Doomed, CrashStands, ReturnStands, CollectedStands, ResultStands, Leaving, Collecting
  <2> QED BY <2>1, <2>2, <2>3
<1>6. CASE Dispatch
  <2>1. pc = "dispatch" /\ exitSig = "none" /\ mtids' = mtids
    BY <1>6 DEF Dispatch, WatchInv, NoCrash, thr
  <2>2. CASE forkRc \in Fatal
    <3>1. exitSig' = forkRc /\ pc' = "collect"
      BY <1>6, <2>2, ResultFacts DEF Dispatch, Goto
    <3>2. exitSig' \in Doom' /\ exitSig' # "none"
      BY <1>2, <2>1, <2>2, <3>1, ResultFacts DEF Doomed, ReturnStands, Leaving
    <3> QED BY <3>1, <3>2 DEF Doomed, CrashStands, ReturnStands, CollectedStands, ResultStands, Leaving, Collecting
  <2>3. CASE forkRc \notin Fatal
    <3>1. exitSig' = "none" /\ forkRc' \notin Fatal /\ pc' \in {"detach", "drain", "dump", "wait"}
      BY <1>6, <2>1, <2>3, ResultFacts DEF Dispatch, Quit, Goto, crash, loop
    <3> QED BY <3>1 DEF Doomed, CrashStands, ReturnStands, CollectedStands, ResultStands, Leaving, Collecting
  <2> QED BY <2>2, <2>3
<1>7. CASE AwaitSignal \/ Request
  <2>1. pc = "wait" /\ exitSig = "none" /\ UNCHANGED <<exitSig, forkRc>> /\ pc' \in {"wait", "drain", "detach"}
    BY <1>7 DEF AwaitSignal, Request, WatchInv, NoCrash, crash, loop, ctl, Quit, Goto
  <2> QED BY <2>1, DoomedElsewhere DEF Leaving, Collecting
<1> QED BY <1>3, <1>4, <1>5, <1>6, <1>7

LEMMA DoomedPoll == TypeInv /\ WatchInv /\ Doomed /\ Poll => Doomed'
<1> SUFFICES ASSUME TypeInv, WatchInv, Doomed, Poll PROVE Doomed'
    OBVIOUS
<1>1. PICK t \in Tids : t = LeastOf(todo) /\ t \in todo /\ t \in mtids
  BY LeastIsMember DEF TypeInv, ControlOK, Poll, WatchInv, Working
<1>2. /\ pc = "poll" /\ UNCHANGED <<exitSig, forkRc>> /\ mtids \subseteq Threads
      /\ pc' \in {"poll", "handle", "detach", "returned"}
  BY <1>1, MembersAreThreads DEF Poll, crash, Leaving, Quit, Goto
<1>3. CASE WaitStop(t) /\ pc' = "handle" /\ mtids' = mtids
  <2>1. Doom \subseteq Doom'
    BY <1>2, <1>3, DoomIdle DEF WaitStop, AliveThreads, Alive
  <2> QED BY <1>2, <1>3, <2>1, DoomedPolling DEF Leaving
<1>4. CASE WaitExit(t) /\ mtids' = mtids \ {t} /\ (pc' = "poll" \/ DiedOfFatal \/ t = Leader)
  <2>1. AliveThreads' = AliveThreads /\ stop' = stop /\ fresh' = fresh /\ ~Alive(t) /\ (t = Leader => AliveThreads = {})
    BY <1>1, <1>4, QuietWaitExit DEF TypeInv, WatchInv
  <2>2. Doom \subseteq Doom'
    BY <1>2, <1>4, <2>1, DoomIdle
  <2>3. pc' \in Leaving => AliveThreads' = {}
    BY <1>4, <2>1 DEF DiedOfFatal, WatchInv, FatalKills, Leaving
  <2> QED BY <1>2, <2>2, <2>3, DoomedPolling DEF Leaving
<1>5. CASE UNCHANGED <<kernel, pc, mtids>>
  <2>1. Doom' = Doom
    BY <1>5 DEF Doom, kernel, AliveThreads, Alive
  <2> QED BY <1>2, <1>5, <2>1, DoomedPolling DEF Leaving
<1>6. CASE /\ UNCHANGED kernel /\ task[t] = "gone" /\ mtids' = mtids \ {t}
           /\ pc' = "poll" \/ t = Leader
  <2>1. AliveThreads' = AliveThreads /\ stop' = stop /\ fresh' = fresh /\ ~Alive(t)
    BY <1>6 DEF kernel, AliveThreads, Alive
  <2>2. Doom \subseteq Doom'
    BY <1>2, <1>6, <2>1, DoomIdle
  <2>3. pc' \in Leaving => AliveThreads' = {}
    BY <1>6, <2>1 DEF Leaving, WatchInv, Quiet
  <2> QED BY <1>2, <2>2, <2>3, DoomedPolling DEF Leaving
<1> QED
  <2>1. t \notin traced => task[t] = "gone"
    BY <1>1, <1>2 DEF WatchInv, Members, Held, Leaving
  <2> QED BY <1>1, <1>2, <1>3, <1>4, <1>5, <1>6, <2>1 DEF Poll, Goto

LEMMA DoomedHandleClone == TypeInv /\ WatchInv /\ Newborns /\ Doomed /\ HandleClone => Doomed'
<1> SUFFICES ASSUME TypeInv, WatchInv, Newborns, Doomed, HandleClone PROVE Doomed'
    OBVIOUS
<1>1. /\ pc = "handle" /\ pc' = "poll" /\ UNCHANGED <<exitSig, forkRc>> /\ mtids \subseteq Threads
      /\ tid \in Tids /\ stop[tid] = "clone" /\ Unread(tid)
  BY Answering, MembersAreThreads DEF HandleClone, Handling, Handled, Goto, crash, Leaving, Unread
<1>2. PICK c \in Tids : c = child[tid] /\ (c \in Threads => stop[c] = "intr")
  BY <1>1, UnreadParent DEF Newborns, Leaving
<1>3. /\ \A t \in Tids : stop'[t] = stop[t] \/ (t \in {tid, c} /\ stop'[t] = "none")
      /\ fresh' \subseteq fresh /\ task' = task /\ mtids \subseteq mtids'
  BY <1>2 DEF HandleClone, AfterClone, NotIn
<1>4. \A t \in mtids : stop[t] \in Fatal => stop'[t] = stop[t]
  BY <1>1, <1>2, <1>3, ResultFacts, LeaderIsThread
<1>5. Doom \subseteq Doom'
  BY <1>3, <1>4 DEF Doom, AliveThreads, Alive
<1> QED BY <1>1, <1>5, DoomedPolling DEF Leaving

LEMMA DoomedHandle ==
  TypeInv /\ WatchInv /\ Doomed
    /\ (HandleExit \/ HandleExec \/ HandleGroupStop \/ HandleInterrupt \/ HandleFatal \/ HandleSignal) => Doomed'
<1> SUFFICES ASSUME TypeInv, WatchInv, Doomed,
               HandleExit \/ HandleExec \/ HandleGroupStop \/ HandleInterrupt \/ HandleFatal \/ HandleSignal
             PROVE  Doomed'
    OBVIOUS
<1>1. /\ pc = "handle" /\ StillThere /\ pc' = "poll" /\ mtids \subseteq Threads /\ mtids' = mtids /\ forkRc' = forkRc
      /\ tid \in mtids /\ tid \in Tids /\ Alive(tid) /\ stop[tid] = status /\ tid \notin fresh
  BY Answering, MembersAreThreads
     DEF HandleExit, HandleExec, HandleGroupStop, HandleInterrupt, HandleFatal, HandleSignal, Handling, Handled, Goto,
         Leaving, thr
<1>2. CASE HandleFatal
  <2>1. status \in Fatal /\ status # "none" /\ Doom' = Doom
    BY <1>1, <1>2, ResultFacts DEF HandleFatal, Handling, Doom, kernel, AliveThreads, Alive
  <2>2. status \in Doom
    BY <1>1, <2>1 DEF Doom
  <2>3. exitSig' = IF exitSig = "none" THEN status ELSE exitSig
    BY <1>2 DEF HandleFatal, crash
  <2>4. exitSig' # "none" /\ exitSig' \in Doom'
    BY <1>1, <2>1, <2>2, <2>3 DEF Doomed, CrashStands, Leaving
  <2> QED BY <1>1, <2>4 DEF Doomed, CrashStands, ReturnStands, CollectedStands, ResultStands, Leaving, Collecting
<1>3. CASE ~HandleFatal
  <2>1. exitSig' = exitSig /\ status \notin Fatal
    BY <1>1, <1>3, ResultFacts DEF HandleExit, HandleExec, HandleGroupStop, HandleInterrupt, HandleSignal, Handling,
         crash
  <2>2. CASE HandleGroupStop
    <3>1. /\ \A t \in Tids : t # tid => stop'[t] = stop[t]
          /\ fresh' \subseteq fresh /\ task' = task
      BY <2>2 DEF HandleGroupStop, Listen, TypeInv, KernelOK
    <3>2. Doom \subseteq Doom'
      BY <1>1, <2>1, <3>1, LeaderIsThread DEF Doom, AliveThreads, Alive
    <3> QED BY <1>1, <2>1, <3>2, DoomedPolling DEF Leaving
  <2>3. CASE ~HandleGroupStop
    <3>1. (\E sig : Continue(Just(tid, sig), FALSE)) \/ UNCHANGED kernel
      BY <1>3, <2>3 DEF HandleExit, HandleExec, HandleInterrupt, HandleSignal, Resume
    <3>2. \E ts \in SUBSET {tid} : Kept(ts)
      <4>1. CASE \E sig : Continue(Just(tid, sig), FALSE)
        BY <1>1, <4>1, ResumeQuiet
      <4>2. CASE UNCHANGED kernel
        BY <1>1, <4>2, ResumeQuiet
      <4> QED BY <3>1, <4>1, <4>2
    <3>3. PICK ts \in SUBSET {tid} : Kept(ts)
      BY <3>2
    <3>4. Doom \subseteq Doom'
      BY <1>1, <2>1, <3>3, DoomKept DEF TypeInv
    <3> QED BY <1>1, <2>1, <3>4, DoomedPolling DEF Leaving
  <2> QED BY <2>2, <2>3
<1> QED BY <1>2, <1>3

LEMMA DoomedHandleKilled == TypeInv /\ TypeInv' /\ WatchInv /\ Doomed /\ HandleKilled => Doomed'
<1> SUFFICES ASSUME TypeInv, TypeInv', WatchInv, Doomed, HandleKilled PROVE Doomed'
    OBVIOUS
<1>1. pc = "handle" /\ pc' \in {"poll", "detach"} /\ UNCHANGED kernel
  BY DEF HandleKilled, Handled, Quit, Goto
<1>2. AliveThreads' = {}
  <2>1. tid \in Tids /\ ~Alive(tid)
    BY DEF HandleKilled, StillThere, Renamed, TypeInv, ControlOK, WatchInv, Quiet
  <2> QED BY <1>1, <2>1 DEF WatchInv, Reading, Read, kernel, AliveThreads, Alive
<1>3. Doom' = Fatal
  BY <1>2 DEF Doom
<1>4. exitSig' \in Fatal \cup {"none"}
  BY DEF TypeInv, ControlOK
<1> QED BY <1>1, <1>2, <1>3, <1>4
        DEF Doomed, CrashStands, ReturnStands, CollectedStands, ResultStands, Leaving, Collecting

\* In a collection: what has been found so far, and the crash that it may be for.
LEMMA DoomedCollecting ==
  ASSUME TypeInv, Doomed, pc \in Collecting \cup {"collect"}, Doom \subseteq Doom', exitSig' = exitSig, forkRc' = forkRc,
         pc' \notin Leaving \cup {"commit"},
         pc' \in {"list", "stop", "regs", "stopWait", "abandon"} /\ coll'.fatal # "none" => coll'.fatal \in Doom'
  PROVE  Doomed'
<1>1. forkRc \in Fatal => exitSig # "none"
  BY DEF Doomed, ReturnStands, Collecting, Leaving
<1> QED BY <1>1, ResultFacts DEF Doomed, CrashStands, ReturnStands, CollectedStands, ResultStands, Collecting, Leaving

LEMMA DoomedRecorded ==
  ASSUME TypeInv, WatchInv, Doomed, pc \in Collecting, NEW t \in mtids, t \in fresh, RecordStop(t), pc' = "stop",
         exitSig' = exitSig, forkRc' = forkRc
  PROVE  Doomed'
<1>1. /\ \A u \in Threads : stop'[u] = stop[u]
      /\ task' = task /\ mtids \subseteq mtids'
  BY Recorded
<1>2. /\ t \in Tids /\ t \in Threads /\ mtids \subseteq Threads /\ coll \in Collections
      /\ fresh' \subseteq fresh /\ t \notin fresh'
  <2>1. t \in Tids /\ mtids \subseteq Threads /\ coll \in Collections
    BY MembersAreThreads DEF TypeInv, ControlOK, Collecting, Leaving
  <2> QED BY <2>1 DEF RecordStop, AfterClone, WaitStop
<1>3. Doom \subseteq Doom'
  BY <1>1, <1>2 DEF Doom, AliveThreads, Alive
<1>4. coll'.fatal = IF stop[t] \in Fatal /\ coll.fatal = "none" THEN stop[t] ELSE coll.fatal
  BY <1>2 DEF RecordStop, Collections
<1>5. stop[t] \in Fatal => stop[t] \in Doom'
  <2>1. Alive(t)
    BY <1>2 DEF TypeInv, KernelOK, WatchInv, Quiet, Alive
  <2> QED BY <1>1, <1>2, <2>1 DEF Doom, Alive
<1>6. coll.fatal # "none" => coll.fatal \in Doom'
  BY <1>3 DEF Doomed, CollectedStands
<1> QED BY <1>3, <1>4, <1>5, <1>6, DoomedCollecting DEF Leaving

LEMMA DoomedCollect ==
  TypeInv /\ WatchInv /\ Doomed
    /\ (CollectStart \/ CollectList \/ CollectPoll \/ CollectRegs \/ CollectWait \/ CollectConfirm) => Doomed'
<1> SUFFICES ASSUME TypeInv, WatchInv, Doomed,
               CollectStart \/ CollectList \/ CollectPoll \/ CollectRegs \/ CollectWait \/ CollectConfirm
             PROVE  Doomed'
    OBVIOUS
<1>1. /\ pc \in Collecting \cup {"collect"} /\ UNCHANGED <<exitSig, forkRc>> /\ mtids \subseteq Threads
      /\ coll \in Collections
  <2>1. pc \in Collecting \cup {"collect"} /\ UNCHANGED <<exitSig, forkRc>>
    BY DEF CollectStart, CollectList, CollectPoll, CollectRegs, CollectWait, CollectConfirm, Collecting, crash, loop
  <2> QED BY <2>1, MembersAreThreads DEF TypeInv, ControlOK, Collecting, Leaving
<1>2. pc # "collect" /\ coll.fatal # "none" => coll.fatal \in Doom
  BY <1>1 DEF Doomed, CollectedStands
<1>3. ASSUME pc \in Collecting, UNCHANGED <<stop, fresh>>, AliveThreads' = AliveThreads, coll'.fatal = coll.fatal,
             \A t \in mtids : Alive(t) => t \in mtids', pc' \notin Leaving \cup {"commit"}
      PROVE  Doomed'
  <2>1. Doom \subseteq Doom'
    BY <1>1, <1>3, DoomIdle
  <2> QED BY <1>1, <1>2, <1>3, <2>1, DoomedCollecting DEF Collecting
<1>4. CASE CollectStart
  <2>1. coll'.fatal = "none" /\ pc' = "list" /\ UNCHANGED <<kernel, mtids>> /\ pc = "collect"
    BY <1>4 DEF CollectStart, NoCollection, Goto, thr
  <2>2. Doom \subseteq Doom'
    BY <2>1 DEF Doom, kernel, AliveThreads, Alive
  <2> QED BY <1>1, <2>1, <2>2, DoomedCollecting DEF Leaving
<1>5. CASE CollectList
  <2>1. /\ pc \in Collecting /\ pc' \in {"stop", "kill", "restore"} /\ coll' = coll /\ mtids \subseteq mtids'
        /\ UNCHANGED <<task, stop, fresh>>
    BY <1>5 DEF CollectList, CollectFails, Goto, SeizeAll, Collecting
  <2> QED BY <1>3, <2>1 DEF AliveThreads, Alive, Leaving
<1>6. CASE CollectPoll
  <2>1. PICK t \in Tids : t = LeastOf(todo) /\ t \in todo /\ t \in mtids /\ pc = "stop" /\ pc \in Collecting
    BY <1>6, LeastIsMember DEF TypeInv, ControlOK, CollectPoll, WatchInv, Working, Collecting
  <2>2. CASE t \in fresh /\ RecordStop(t) /\ UNCHANGED pc
    BY <1>1, <2>1, <2>2, DoomedRecorded
  <2>3. CASE UNCHANGED <<kernel, mtids>> /\ pc' \in {"stop", "regs"} /\ coll'.fatal = coll.fatal
    BY <1>3, <2>1, <2>3 DEF kernel, AliveThreads, Alive, Leaving
  <2>4. CASE /\ WaitExit(t) /\ mtids' = mtids \ {t} /\ coll' = coll
             /\ pc' \in {"stop", "kill", "restore"}
    <3>1. AliveThreads' = AliveThreads /\ UNCHANGED <<stop, fresh>> /\ ~Alive(t)
      BY <2>4, QuietWaitExit DEF TypeInv, WatchInv
    <3> QED BY <1>3, <2>1, <2>4, <3>1 DEF Leaving
  <2> QED
    <3>1. coll' = [coll EXCEPT !.held = @ \cup {t}] => coll'.fatal = coll.fatal
      BY <1>1 DEF Collections
    <3> QED BY <1>6, <2>1, <2>2, <2>3, <2>4, <3>1 DEF CollectPoll, CollectFails, Goto
<1>7. CASE CollectRegs
  <2>1. /\ pc = "regs" /\ pc' \in {"stop", "stopWait", "kill", "restore"} /\ UNCHANGED <<task, stop, fresh>>
        /\ mtids' = mtids \/ (mtids' = mtids \ {tid} /\ task[tid] = "gone")
    BY <1>7 DEF CollectRegs, CollectFails, Goto, Interrupt, kernel
  <2>2. coll' = coll \/ coll' = [coll EXCEPT !.held = @ \cup {tid}]
    BY <1>7 DEF CollectRegs
  <2>3. coll'.fatal = coll.fatal
    BY <1>1, <2>2 DEF Collections
  <2> QED BY <1>3, <2>1, <2>3 DEF AliveThreads, Alive, Collecting, Leaving
<1>8. CASE CollectWait
  <2>1. pc = "stopWait" /\ tid \in Tids /\ tid \in mtids /\ pc \in Collecting
    BY <1>8 DEF CollectWait, TypeInv, ControlOK, WatchInv, Working, Collecting
  <2>2. CASE tid \in fresh /\ RecordStop(tid) /\ Goto("stop")
    BY <1>1, <2>1, <2>2, DoomedRecorded DEF Goto
  <2>3. CASE /\ WaitExit(tid) \/ (task[tid] = "gone" /\ UNCHANGED kernel)
             /\ Goto("stop") /\ mtids' = mtids \ {tid} /\ coll' = coll
    <3>1. AliveThreads' = AliveThreads /\ UNCHANGED <<stop, fresh>> /\ ~Alive(tid)
      BY <2>1, <2>3, QuietWaitExit DEF TypeInv, WatchInv, kernel, AliveThreads, Alive
    <3> QED BY <1>3, <2>1, <2>3, <3>1 DEF Goto, Leaving
  <2>4. CASE CollectFails /\ UNCHANGED <<kernel, mtids, coll>>
    BY <1>3, <2>1, <2>4 DEF CollectFails, Goto, kernel, AliveThreads, Alive, Leaving
  <2> QED BY <1>8, <2>2, <2>3, <2>4 DEF CollectWait
<1>9. CASE CollectConfirm
  <2>1. /\ pc = "stop" /\ UNCHANGED kernel
        /\ pc' \in {"kill", "restore", "list", "abandon", "preserve", "core", "meta"}
        /\ mtids' = mtids \/ mtids' = mtids \cap (Workers \cup (IF leaderExited THEN {Leader} ELSE {}))
        /\ \/ coll' = coll \/ coll' = [coll EXCEPT !.rounds = @ + 1] \/ coll' = [coll EXCEPT !.tids = Workers]
    BY <1>9 DEF CollectConfirm, CollectFails, Goto
  <2>2. coll'.fatal = coll.fatal
    BY <1>1, <2>1 DEF Collections
  <2>3. \A t \in mtids : Alive(t) => t \in mtids'
    BY <1>1, <2>1 DEF Workers, Listed, Alive
  <2> QED BY <1>3, <2>1, <2>2, <2>3 DEF kernel, AliveThreads, Alive, Collecting, Leaving
<1> QED BY <1>4, <1>5, <1>6, <1>7, <1>8, <1>9

LEMMA DoomedDumpStart == TypeInv /\ WatchInv /\ Doomed /\ (DumpStart \/ Abandon) => Doomed'
<1> SUFFICES ASSUME TypeInv, WatchInv, Doomed, DumpStart \/ Abandon PROVE Doomed'
    OBVIOUS
<1>1. exitSig = "none" /\ exitSig' = exitSig
  BY DEF DumpStart, Abandon, WatchInv, NoCrash, crash
<1>2. CASE DumpStart
  <2>1. \/ pc' = "collect" /\ forkRc' = forkRc
        \/ ForkcoreReturns("failed")
    BY <1>2 DEF DumpStart, Goto
  <2>2. CASE pc' = "collect" /\ forkRc' = forkRc
    BY <1>1, <1>2, <2>2, DoomedElsewhere DEF DumpStart, Leaving, Collecting
  <2>3. CASE ForkcoreReturns("failed")
    BY <1>1, <2>3, DoomedReturns, ResultFacts
  <2> QED BY <2>1, <2>2, <2>3
<1>3. CASE Abandon
  <2>1. pc = "abandon" /\ ForkcoreReturns(coll.fatal) /\ UNCHANGED <<kernel, mtids>>
    BY <1>3 DEF Abandon, thr
  <2>2. coll.fatal \in Fatal => coll.fatal \in Doom
    BY <2>1, ResultFacts DEF Doomed, CollectedStands
  <2>3. Doom \subseteq Doom'
    BY <2>1 DEF Doom, kernel, AliveThreads, Alive
  <2>4. PICK v : v = coll.fatal
    OBVIOUS
  <2> QED BY <1>1, <2>1, <2>2, <2>3, <2>4, DoomedReturns
<1> QED BY <1>2, <1>3

\* Forkcore has resumed what it could, and has nothing to tell.
LEMMA DoomedSnapshot ==
  TypeInv /\ WatchInv /\ Pristine /\ Doomed
    /\ (Preserve \/ Restore \/ Meta \/ Loads \/ InjectInVain \/ ResumeAll \/ DumpChild \/ Late) => Doomed'
<1> SUFFICES ASSUME TypeInv, WatchInv, Pristine, Doomed,
                    Preserve \/ Restore \/ Meta \/ Loads \/ InjectInVain \/ ResumeAll \/ DumpChild \/ Late
             PROVE  Doomed'
    OBVIOUS
<1>1. /\ exitSig = "none" /\ exitSig' = exitSig
      /\ pc \notin Leaving \cup {"drain", "poll", "handle", "dispatch"}
  BY DEF Preserve, Restore, Meta, Loads, InjectInVain, ResumeAll, DumpChild, Late, crash, WatchInv, NoCrash, Injecting,
         Leaving
<1>2. CASE Preserve \/ Restore \/ Late
  <2>1. \/ forkRc' = forkRc /\ pc' \in {"preserve", "lateWait"}
        \/ ForkcoreReturns("grouped") \/ ForkcoreReturns("failed")
    BY <1>2 DEF Preserve, Restore, Late, Goto
  <2>2. CASE forkRc' = forkRc /\ pc' \in {"preserve", "lateWait"}
    BY <1>1, <2>2, DoomedElsewhere DEF Leaving, Collecting
  <2>3. CASE ForkcoreReturns("grouped")
    BY <1>1, <2>3, DoomedReturns, ResultFacts
  <2>4. CASE ForkcoreReturns("failed")
    BY <1>1, <2>4, DoomedReturns, ResultFacts
  <2> QED BY <2>1, <2>2, <2>3, <2>4
<1>3. CASE Meta \/ InjectInVain \/ ResumeAll \/ DumpChild
  <2>1. forkRc' = forkRc /\ pc' \in {"loads", "inject", "restore", "child", "finish", "late"}
    BY <1>3 DEF Meta, InjectInVain, ResumeAll, DumpChild, Goto, loop
  <2> QED BY <1>1, <2>1, DoomedElsewhere DEF Leaving, Collecting
<1>4. CASE Loads
  <2>1. forkRc' = forkRc /\ pc' \in {"restore", "commit"} /\ shot' = shot /\ shot.result = "none"
    BY <1>1, <1>4 DEF Loads, Goto, loop, Pristine
  <2>2. forkRc \notin Fatal
    BY <1>1 DEF Doomed, ReturnStands
  <2> QED BY <1>1, <2>1, <2>2, ResultFacts
          DEF Doomed, CrashStands, ReturnStands, CollectedStands, ResultStands, Leaving, Collecting
<1> QED BY <1>2, <1>3, <1>4

\* The leader stands at a fatal signal that cut an injected call short.
LEMMA DoomedInject == TypeInv /\ WatchInv /\ LeaderKnown /\ Doomed /\ Inject => Doomed'
<1> SUFFICES ASSUME TypeInv, WatchInv, LeaderKnown, Doomed, Inject PROVE Doomed'
    OBVIOUS
<1>1. /\ pc = "inject" /\ exitSig = "none" /\ exitSig' = exitSig /\ Alive(Leader) /\ ~leaderExited /\ mtids' = mtids
  BY DEF Inject, thr, WatchInv, NoCrash, LeaderOut, Injecting
<1>2. Leader \in mtids
  BY <1>1 DEF LeaderKnown, Leaving
<1>3. CASE forkRc' = forkRc /\ pc' \in {"resume", "restore"}
  BY <1>1, <1>3, DoomedElsewhere DEF Leaving, Collecting
<1>4. CASE \E s \in PendingFor(Leader) \cap Fatal : RunInjected(s) /\ ForkcoreReturns(s)
  <2>1. PICK s \in Signals \cap Fatal : RunInjected(s) /\ ForkcoreReturns(s)
    BY <1>4 DEF PendingFor
  <2>2. stop'[Leader] = s /\ Leader \notin fresh' /\ task' = task
    <3>1. s # "none"
      BY <2>1, ResultFacts
    <3>2. /\ stop'[Leader] = (IF s = "none" THEN "intr" ELSE s) /\ fresh' = fresh \ {Leader}
          /\ task' = task
      BY <2>1, LeaderIsThread DEF RunInjected, TypeInv, KernelOK
    <3> QED BY <3>1, <3>2
  <2>3. s \in Doom'
    BY <1>1, <1>2, <2>1, <2>2 DEF Doom, Alive
  <2> QED BY <1>1, <2>1, <2>3, DoomedReturns
<1> QED BY <1>3, <1>4 DEF Inject, Goto

\* A leader found dead took every thread with it.
LEMMA DoomedInjectDeath == TypeInv /\ WatchInv /\ Doomed /\ InjectDeath => Doomed'
<1> SUFFICES ASSUME TypeInv, WatchInv, Doomed, InjectDeath PROVE Doomed'
    OBVIOUS
<1>1. pc = "inject" /\ exitSig = "none" /\ exitSig' = exitSig /\ UNCHANGED mtids
  BY DEF InjectDeath, thr, WatchInv, NoCrash, Injecting
<1>2. CASE UNCHANGED kernel /\ ForkcoreReturns("exited")
  BY <1>1, <1>2, DoomedReturns, ResultFacts
<1>3. CASE Reapable(Leader) /\ (WaitExit(Leader) \/ UNCHANGED kernel) /\ \E v : ForkcoreReturns(v)
  <2>1. AliveThreads' = {}
    <3>1. CASE WaitExit(Leader)
      BY <3>1, QuietWaitExit, LeaderIsThread DEF TypeInv, WatchInv
    <3>2. CASE UNCHANGED kernel
      <4>1. AliveThreads = {}
        BY <1>3, LeaderIsThread DEF Reapable, Listed, AliveThreads, Alive
      <4> QED BY <3>2, <4>1 DEF kernel, AliveThreads, Alive
    <3> QED BY <1>3, <3>1, <3>2
  <2>2. Doom' = Fatal
    BY <2>1 DEF Doom
  <2> QED BY <1>1, <1>3, <2>2, DoomedReturns
<1> QED BY <1>2, <1>3 DEF InjectDeath

LEMMA DoomedFinish == TypeInv /\ WatchInv /\ Doomed /\ Finish => Doomed'
<1> SUFFICES ASSUME TypeInv, WatchInv, Doomed, Finish PROVE Doomed'
    OBVIOUS
<1>1. pc \in {"finish", "finishWait"} /\ exitSig = "none" /\ exitSig' = exitSig
  BY DEF Finish, crash, WatchInv, NoCrash, Injecting
<1>2. CASE forkRc' = forkRc /\ pc' \in {"settle", "finishWait"}
  BY <1>1, <1>2, DoomedElsewhere DEF Leaving, Collecting
<1>3. CASE WaitExit(Leader) /\ \E v : ForkcoreReturns(v)
  <2>1. AliveThreads' = {}
    BY <1>3, QuietWaitExit, LeaderIsThread DEF TypeInv, WatchInv
  <2>2. Doom' = Fatal
    BY <2>1 DEF Doom
  <2> QED BY <1>1, <1>3, <2>2, DoomedReturns
<1>4. CASE ForkcoreReturns("failed")
  BY <1>1, <1>4, DoomedReturns, ResultFacts
<1> QED BY <1>2, <1>3, <1>4 DEF Finish, Goto

LEMMA DoomedSettle == TypeInv /\ WatchInv /\ LeaderKnown /\ Doomed /\ (Settle \/ SettleKilled) => Doomed'
<1> SUFFICES ASSUME TypeInv, WatchInv, LeaderKnown, Doomed, Settle \/ SettleKilled PROVE Doomed'
    OBVIOUS
<1>1. /\ pc = "settle" /\ exitSig = "none" /\ exitSig' = exitSig /\ forkRc' = forkRc /\ pc' \in {"settle", "commit"}
      /\ mtids' = mtids /\ ~leaderExited
  BY DEF Settle, SettleKilled, Settled, Goto, crash, loop, thr, WatchInv, NoCrash, LeaderOut, Injecting
<1>2. forkRc \notin Fatal
  BY <1>1 DEF Doomed, ReturnStands, Leaving
<1>3. pc' = "commit" /\ shot'.result \in Fatal => shot'.result \in Doom'
  <2>1. CASE Settle /\ pc' = "commit" /\ shot'.result \in Fatal
    <3>1. \/ status \in Fatal /\ UNCHANGED kernel /\ Settled(status)
          \/ Settled("grouped") \/ Settled("none")
      BY <1>1, <2>1 DEF Settle
    <3>2. \A v : Settled(v) => shot'.result = v
      BY DEF Settled, TypeInv, ControlOK
    <3>3. status \in Fatal /\ UNCHANGED kernel /\ shot'.result = status
      BY <2>1, <3>1, <3>2, ResultFacts
    <3>4. Alive(Leader) /\ stop[Leader] = status /\ Leader \notin fresh /\ Leader \in mtids
      BY <1>1, <2>1, LeaderIsThread DEF Settle, WatchInv, Reading, Read, AliveThreads, LeaderKnown, Leaving
    <3> QED BY <1>1, <3>3, <3>4 DEF Doom, kernel, AliveThreads, Alive
  <2>2. CASE SettleKilled /\ shot'.result \in Fatal
    <3>1. AliveThreads' = {}
      BY <1>1, <2>2 DEF SettleKilled, WatchInv, Reading, Read, kernel, AliveThreads, Alive
    <3> QED BY <2>2, <3>1 DEF Doom
  <2> QED BY <2>1, <2>2
<1> QED BY <1>1, <1>2, <1>3
        DEF Doomed, CrashStands, ReturnStands, CollectedStands, ResultStands, Leaving, Collecting

LEMMA DoomedCommit == TypeInv /\ WatchInv /\ Doomed /\ Commit => Doomed'
<1> SUFFICES ASSUME TypeInv, WatchInv, Doomed, Commit PROVE Doomed'
    OBVIOUS
<1>1. pc = "commit" /\ exitSig = "none" /\ exitSig' = exitSig /\ UNCHANGED <<kernel, mtids>>
  BY DEF Commit, crash, thr, WatchInv, NoCrash
<1>2. Doom' = Doom
  BY <1>1 DEF Doom, kernel, AliveThreads, Alive
<1>3. CASE ForkcoreReturns(shot.result)
  <2>1. PICK v : v = shot.result
    OBVIOUS
  <2>2. v \in Fatal => v \in Doom'
    BY <1>1, <1>2, <2>1 DEF Doomed, ResultStands
  <2> QED BY <1>1, <1>3, <2>1, <2>2, DoomedReturns
<1>4. CASE ForkcoreReturns("failed")
  BY <1>1, <1>4, DoomedReturns, ResultFacts
<1> QED BY <1>3, <1>4 DEF Commit

\* The first thread detached at a signal is detached at the signal of the crash.
LEMMA DoomedKill == TypeInv /\ WatchInv /\ Doomed /\ KillCrashed => Doomed'
<1> SUFFICES ASSUME TypeInv, WatchInv, Doomed, KillCrashed PROVE Doomed'
    OBVIOUS
<1>1. pc = "kill" /\ exitSig' = exitSig /\ pc' \in {"coreCommit", "returned"}
      /\ mtids \subseteq Tids /\ exitSig \in Fatal \cup {"none"}
  BY DEF KillCrashed, crash, Goto, TypeInv, ControlOK
<1>2. ASSUME exitSig # "none" PROVE AliveThreads' = {}
  <2>1. PICK ts, late :
          /\ ts = mtids \ (IF leaderExited THEN {Leader} ELSE {})
          /\ late \subseteq {t \in ts : \E u \in ts : stop[u] \in Signals /\ u < t}
          /\ Continue([t \in ts \ late |-> exitSig], TRUE)
    BY DEF KillCrashed, ReleaseCrashed
  <2>2. ts \ late \subseteq Tids
    BY <1>1, <2>1
  <2>3. /\ AliveThreads = {} => AliveThreads' = {}
        /\ (\E t \in ts \ late : stop[t] \in Signals) => AliveThreads' = {}
    <3>1. PICK f : f = [t \in ts \ late |-> exitSig]
      OBVIOUS
    <3>2. DOMAIN f = ts \ late /\ \A t \in ts \ late : f[t] \in Fatal
      BY <1>1, <1>2, <3>1
    <3>3. Continue(f, TRUE)
      BY <2>1, <3>1
    <3>4. /\ Kept({t \in DOMAIN f : Stopped(t)})
          /\ (\E t \in DOMAIN f : stop[t] \in Signals /\ f[t] \in Fatal) => AliveThreads' = {}
      BY <2>2, <3>2, <3>3, QuietContinue DEF TypeInv, WatchInv
    <3> QED BY <3>2, <3>4 DEF Kept
  <2>4. ASSUME AliveThreads # {} PROVE \E t \in ts \ late : stop[t] \in Signals
    <3>1. exitSig \in Doom /\ exitSig \in Signals
      BY <1>1, <1>2, SignalFacts DEF Doomed, CrashStands, Leaving
    <3>2. PICK t \in mtids : Alive(t) /\ stop[t] = exitSig
      BY <2>4, <3>1 DEF Doom
    <3>3. t \in ts
      BY <2>1, <3>1, <3>2, SignalFacts DEF WatchInv, LeaderOut, LeaderStays
    <3>4. PICK signalled : signalled = {u \in ts : stop[u] \in Signals}
      OBVIOUS
    <3>5. signalled \subseteq Tids /\ signalled # {}
      BY <1>1, <2>1, <3>1, <3>2, <3>3, <3>4
    <3>6. PICK m \in signalled : \A u \in signalled : m <= u
      BY <3>5, LeastIsMember
    <3>7. \A u \in signalled : ~(u < m)
      BY <3>5, <3>6 DEF Tids
    <3> QED BY <2>1, <3>4, <3>6, <3>7
  <2> QED BY <2>3, <2>4
<1> QED BY <1>1, <1>2 DEF Doomed, CrashStands, ReturnStands, CollectedStands, ResultStands, Leaving, Collecting

LEMMA DoomedCore == TypeInv /\ WatchInv /\ Doomed /\ (Core \/ CoreLoads) => Doomed'
<1> SUFFICES ASSUME TypeInv, WatchInv, Doomed, Core \/ CoreLoads PROVE Doomed'
    OBVIOUS
<1>1. /\ pc \in {"core", "coreLoads"} /\ pc' \in {"coreLoads", "kill"} /\ UNCHANGED <<exitSig, forkRc, kernel, mtids>>
  BY DEF Core, CoreLoads, Goto, crash, loop, thr
<1>2. Doom' = Doom
  BY <1>1 DEF Doom, kernel, AliveThreads, Alive
<1> QED BY <1>1, <1>2 DEF Doomed, CrashStands, ReturnStands, CollectedStands, ResultStands, Leaving, Collecting

LEMMA DoomedStep ==
  TypeInv /\ TypeInv' /\ WatchInv /\ CrashInv /\ [Next]_vars /\ NoExecYet' => Doomed'
<1> SUFFICES ASSUME TypeInv, TypeInv', WatchInv, CrashInv, [Next]_vars, NoExecYet' PROVE Doomed'
    OBVIOUS
<1> USE DEF CrashInv
<1>1. CASE UNCHANGED vars
  BY <1>1 DEF vars, kernel, arthur, ctl, thr, crash, loop, Doomed, CrashStands, ReturnStands, CollectedStands,
              ResultStands, Doom, AliveThreads, Alive
<1>2. CASE SeizeList \/ SeizeEach \/ SeizeEnd \/ RollbackNext \/ RollbackWait
           \/ DetachPoll \/ DetachRegs \/ DetachWait \/ DetachEnd \/ CoreCommit
  BY <1>2, DoomedSeize, DoomedLeaving
<1>3. CASE DrainStart \/ Poll \/ PassEnd \/ Dispatch \/ AwaitSignal \/ Request
           \/ HandleClone \/ HandleExit \/ HandleExec \/ HandleGroupStop \/ HandleInterrupt
           \/ HandleFatal \/ HandleSignal \/ HandleKilled
  BY <1>3, DoomedMainLoop, DoomedPoll, DoomedHandleClone, DoomedHandle, DoomedHandleKilled
<1>4. CASE CollectStart \/ CollectList \/ CollectPoll \/ CollectRegs \/ CollectWait \/ CollectConfirm
  BY <1>4, DoomedCollect
<1>5. CASE DumpStart \/ Abandon \/ Preserve \/ Restore \/ Meta \/ Loads
           \/ Inject \/ InjectInVain \/ InjectDeath \/ ResumeAll \/ DumpChild \/ Late \/ Finish \/ Settle
           \/ SettleKilled \/ Commit
  BY <1>5, DoomedDumpStart, DoomedSnapshot, DoomedInject, DoomedInjectDeath,
     DoomedFinish, DoomedSettle, DoomedCommit
<1>6. CASE Core \/ CoreLoads \/ KillCrashed
  BY <1>6, DoomedCore, DoomedKill
<1>7. CASE Watched
  BY <1>7, DoomedTarget
<1> QED BY <1>1, <1>2, <1>3, <1>4, <1>5, <1>6, <1>7 DEF Next, Arthur

-----------------------------------------------------------------------------
(* The theorems                                                            *)

CrashWatched == NoExecYet => CrashInv

LEMMA CrashInit == Init => CrashInv
<1> SUFFICES ASSUME Init PROVE CrashInv
    OBVIOUS
<1>1. pc = "seize" /\ exitSig = "none" /\ forkRc = "none" /\ stop = [t \in Tids |-> "none"] /\ mtids = {}
  BY DEF Init, KernelInit
<1>2. Doomed /\ Pristine /\ LeaderKnown
  BY <1>1, ResultFacts DEF Doomed, CrashStands, ReturnStands, CollectedStands, ResultStands, Pristine, LeaderKnown,
                           Collecting, Leaving
<1>3. Newborns
  BY <1>1 DEF Newborns, Closed, Unread
<1> QED BY <1>2, <1>3 DEF CrashInv

\* The inductive invariant, together with that of MonitorWatchProofs: until exec is
\* used or the process is dead, a thread stands at the fatal signal.
THEOREM CrashInvariant == Spec => []CrashWatched
<1>1. Init => CrashWatched
  BY CrashInit DEF CrashWatched
<1>2. TypeInv /\ TypeInv' /\ WatchedInv /\ WatchedInv' /\ CrashWatched /\ [Next]_vars => CrashWatched'
  <2> SUFFICES ASSUME TypeInv, TypeInv', WatchedInv, WatchedInv', CrashWatched, [Next]_vars, NoExecYet'
               PROVE  CrashInv'
      BY DEF CrashWatched
  <2>1. NoExecYet /\ WatchInv /\ WatchInv' /\ CrashInv
    BY NoExecBefore DEF WatchedInv, CrashWatched
  <2> QED BY <2>1, DoomedStep, PristineStep, LeaderKnownStep, NewbornsStep DEF CrashInv
<1> QED BY <1>1, <1>2, TypeInvariant, WatchInvariant, PTL DEF Spec

\* A process that Arthur has found to have crashed is dead when monitor returns,
\* unless one of its threads has called exec.
THEOREM CrashKills == Spec => []CrashIsFatal
<1>1. CrashWatched => CrashIsFatal
  BY DEF CrashWatched, CrashInv, Doomed, CrashStands, CrashIsFatal, Leaving
<1> QED BY <1>1, CrashInvariant, PTL
=============================================================================
