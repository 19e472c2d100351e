--------------------------- MODULE MonitorWatchProofs ---------------------------
(***************************************************************************)
(* What monitor mode owes the target as long as no thread has called exec, *)
(* for any number of threads, signals, exits and snapshots: memory is      *)
(* copied only while every thread stands still, and a snapshot is published*)
(* only when all have been resumed.                                        *)
(*                                                                         *)
(* WatchInv is inductive.  Its parts follow Arthur: which threads it knows *)
(* (Members, Working), what the stop it has read still says (Reading),     *)
(* which threads a collection may count on (HeldStill) and how a confirmed *)
(* collection stays true while the target may still move (Confirmed,       *)
(* Still).                                                                 *)
(***************************************************************************)
EXTENDS MonitorProofs

Leaving == {"rollback", "rollbackWait", "detach", "detachRegs", "detachWait", "returned", "coreCommit"}
Collecting == {"list", "stop", "regs", "stopWait"}
Injecting == {"inject", "resume", "child", "late", "lateWait", "finish", "finishWait", "settle"}
Releasing == {"child", "finish", "finishWait", "settle", "commit"}

\* A thread Arthur knows is traced until it is gone, and so is one it will learn
\* of from a clone event.
Held(t) == t \in traced \/ task[t] = "gone"
Members == pc \notin Leaving =>
  /\ \A t \in mtids : t \in Threads /\ Exists(t) /\ Held(t)
  /\ \A t \in Tids : stop[t] = "clone" /\ child[t] \in Threads => Held(child[t])
Working ==
  /\ pc \in {"poll", "handle", "stop", "regs", "stopWait"} => todo \subseteq mtids
  /\ pc \in {"handle", "regs", "stopWait"} => tid \in todo
  /\ pc = "seizeEach" => \A t \in todo : t \in Threads /\ Exists(t)

\* A leader that has exited runs no more.
LeaderStays == leaderExited /\ Alive(Leader) => stop[Leader] = "exit" /\ exitSig # "none"
LeaderOut ==
  /\ LeaderStays
  /\ pc \in Injecting => ~leaderExited
  /\ pc = "preserve" /\ leaderExited => Leader \notin todo

\* The stop that waitpid returned is the one the thread is in.
Read(t) == AliveThreads = {} \/ (Alive(t) /\ stop[t] = status /\ status # "none" /\ t \notin fresh)
Reading == (pc = "handle" => Read(tid)) /\ (pc = "settle" => Read(Leader))

\* A crash is dealt with before anything else.
NoCrash ==
  /\ pc \in {"seize", "seizeEach", "rollback", "rollbackWait", "dispatch", "wait", "dump", "abandon",
             "preserve", "restore", "meta", "loads", "commit"} \cup Injecting => exitSig = "none"
  /\ pc \in Collecting => (coll.caller = "crash" <=> exitSig # "none")

\* The thread that the leader creates while its snapshot is written is not known.
NewChild ==
  pc \in {"child", "finish", "finishWait", "settle"} /\ stop[Leader] = "clone" => child[Leader] \notin mtids

\* A thread counted as stopped is stopped, but for one that an earlier collection
\* took for the crashed one.
HeldStill == pc \in Collecting /\ coll.fatal = "none" =>
  \A t \in coll.held : Exists(t) /\ (t \in AliveThreads => Stopped(t) \/ t = crashTid)

\* After the second look at the thread list, and once its metadata are read.
Standing(t) == t \in coll.tids \/ (t = Leader /\ leaderExited)
               \/ (Cloned(crashTid, t) /\ Stopped(crashTid))
Confirmed == pc \in {"meta", "core"} =>
  \A t \in AliveThreads : t \in traced /\ Standing(t) /\ (Stopped(t) \/ (t = crashTid /\ t \in coll.tids))
Still == pc \in Copying => \A t \in AliveThreads : Stopped(t) /\ Standing(t)
Gathered == pc \in {"meta", "loads", "inject", "resume"} =>
  mtids \subseteq coll.tids \cup (IF leaderExited THEN {Leader} ELSE {})
Published == pc \in Releasing =>
  \A t \in mtids : Alive(t) /\ Stopped(t) =>
    t \in fresh \/ (t = Leader /\ (pc = "settle" \/ (pc = "commit" /\ shot.result \in Fatal)))

\* A crash has a culprit.
Accused == exitSig # "none" => crashTid # 0

Phases == NewChild /\ HeldStill /\ Confirmed /\ Still /\ Gathered /\ Published
WatchInv == Quiet /\ FatalKills /\ Members /\ Working /\ LeaderOut /\ Reading /\ NoCrash /\ Phases

LEMMA AccusedStep == TypeInv /\ Accused /\ [Next]_vars => Accused'
<1> SUFFICES ASSUME TypeInv, Accused, [Next]_vars, exitSig' # "none" PROVE crashTid' # 0
    BY DEF Accused
<1> USE DEF Accused
<1>1. tid \in Tids /\ Leader # 0 /\ \A t \in Tids : t # 0
  BY ThreadAssumption DEF TypeInv, ControlOK, Tids, Leader
<1>2. CASE UNCHANGED vars
  BY <1>2 DEF vars, arthur, crash
<1>3. CASE SeizeList \/ SeizeEach \/ SeizeEnd \/ RollbackNext \/ RollbackWait
           \/ DetachPoll \/ DetachRegs \/ DetachWait \/ DetachEnd
  BY <1>3 DEF SeizeList, SeizeEach, SeizeEnd, RollbackNext, RollbackWait, DetachPoll, DetachRegs, DetachWait,
         DetachEnd, crash
<1>4. CASE DrainStart \/ Poll \/ PassEnd \/ AwaitSignal \/ Request \/ Watched
  BY <1>4 DEF DrainStart, Poll, PassEnd, AwaitSignal, Request, Watched, arthur, crash
<1>5. CASE Dispatch
  BY <1>1, <1>5 DEF Dispatch, crash
<1>6. CASE HandleClone \/ HandleExit \/ HandleExec \/ HandleGroupStop \/ HandleInterrupt \/ HandleSignal
  BY <1>6 DEF HandleClone, HandleExit, HandleExec, HandleGroupStop, HandleInterrupt, HandleSignal, crash
<1>7. CASE HandleFatal \/ HandleKilled
  BY <1>1, <1>7 DEF HandleFatal, HandleKilled, crash
<1>8. CASE CollectStart \/ CollectList \/ CollectRegs \/ CollectConfirm
  BY <1>8 DEF CollectStart, CollectList, CollectRegs, CollectConfirm, crash
<1>9. CASE CollectPoll \/ CollectWait
  <2>1. exitSig' = exitSig
    BY <1>9 DEF CollectPoll, CollectWait
  <2>2. crashTid' = crashTid \/ \E t \in Tids : crashTid' = t
    <3>1. todo # {} => LeastOf(todo) \in Tids
      BY LeastIsMember DEF TypeInv, ControlOK
    <3> QED BY <1>1, <1>9, <3>1 DEF CollectPoll, CollectWait, RecordStop
  <2> QED BY <1>1, <2>1, <2>2
<1>10. CASE DumpStart \/ Abandon \/ Preserve \/ Restore \/ Meta \/ Loads \/ InjectInVain \/ ResumeAll
            \/ DumpChild \/ Late \/ Finish \/ Settle \/ SettleKilled \/ Commit
            \/ Core \/ CoreLoads \/ KillCrashed \/ CoreCommit
  BY <1>10 DEF DumpStart, Abandon, Preserve, Restore, Meta, Loads, InjectInVain, ResumeAll, DumpChild, Late, Finish,
         Settle, SettleKilled, Commit, Core, CoreLoads, KillCrashed, CoreCommit, crash
<1>11. CASE Inject \/ InjectDeath
  BY <1>1, <1>11 DEF Inject, InjectDeath
<1> QED BY <1>2, <1>3, <1>4, <1>5, <1>6, <1>7, <1>8, <1>9, <1>10, <1>11 DEF Next, Arthur

LEMMA WatchInit == Init => WatchInv
<1> SUFFICES ASSUME Init PROVE WatchInv
    OBVIOUS
<1> USE DEF Init, KernelInit
<1>1. Quiet /\ FatalKills
  BY LeaderIsThread, ThreadAssumption, SignalFacts DEF Quiet, FatalKills, Exists, Leader, Tids
<1>2. Members /\ Working /\ LeaderOut /\ Reading /\ NoCrash
  BY DEF Members, Working, LeaderOut, LeaderStays, Reading, NoCrash, Injecting, Collecting
<1>3. Phases
  BY DEF Phases, NewChild, HeldStill, Confirmed, Still, Gathered, Published, Copying, Releasing,
         Collecting
<1> QED BY <1>1, <1>2, <1>3 DEF WatchInv

-----------------------------------------------------------------------------
(* The target moves                                                        *)

\* A stopped thread of a process that lives is still stopped, for the same reason.
LEMMA StillStopped ==
  ASSUME KernelOK', Quiet', Moved, AliveThreads' # {}, NEW t \in Tids, Stopped(t)
  PROVE  /\ Stopped(t)' /\ stop'[t] = stop[t] /\ child'[t] = child[t] /\ (t \in fresh <=> t \in fresh')
         /\ Alive(t)'
  BY DEF KernelOK, Quiet, Moved, Stopped, Alive

LEMMA WatchTarget == TypeInv /\ TypeInv' /\ WatchInv /\ NoExecYet' /\ Watched => WatchInv'
<1> SUFFICES ASSUME TypeInv, TypeInv', WatchInv, NoExecYet', Watched PROVE WatchInv'
    OBVIOUS
<1>1. UNCHANGED <<pc, todo, tid, status, mtids, leaderExited, crashTid, exitSig, coll, forkRc, shot>>
  BY DEF Watched, arthur, ctl, thr, crash, loop
<1>2. Quiet' /\ FatalKills' /\ Moved /\ KernelOK /\ KernelOK'
  BY QuietTarget DEF Watched, TypeInv, WatchInv
<1>3. mtids \subseteq Tids /\ tid \in Tids /\ Leader \in Tids /\ crashTid \in Tids \cup {0}
      /\ coll.held \subseteq Tids /\ todo \subseteq Tids
  BY LeaderIsThread DEF TypeInv, ControlOK, Collections
<1>4. ASSUME AliveThreads' # {}, NEW t \in Tids, Stopped(t)
      PROVE  /\ Stopped(t)' /\ stop'[t] = stop[t] /\ child'[t] = child[t]
             /\ (t \in fresh <=> t \in fresh') /\ Alive(t)'
  BY <1>2, <1>4, StillStopped
<1>5. /\ \A t \in Tids : Exists(t) => Exists(t)' /\ (Alive(t)' => Alive(t))
      /\ \A t \in Tids : Held(t) => Held(t)'
      /\ AliveThreads = {} => AliveThreads' = {}
      /\ \A t \in AliveThreads' : Exists(t) => t \in AliveThreads
      /\ \A t \in AliveThreads' : t \in Threads /\ t \in Tids /\ Alive(t)'
  BY <1>2, LeaderIsThread DEF Moved, Held, AliveThreads
<1>6. Members'
  <2>1. ASSUME pc \notin Leaving, NEW t \in Tids, stop'[t] = "clone", NEW c \in Threads, c = child'[t]
        PROVE  c \in traced' \/ task'[c] = "gone"
    <3>1. CASE stop[t] = "clone"
      <4>1. c = child[t] /\ c \in Tids
        BY <1>2, <2>1, <3>1, LeaderIsThread DEF Moved, Stopped
      <4> QED BY <1>5, <2>1, <3>1, <4>1 DEF WatchInv, Members, Held
    <3>2. CASE stop[t] # "clone"
      BY <1>2, <2>1, <3>2 DEF Moved
    <3> QED BY <3>1, <3>2
  <2> QED BY <1>1, <1>3, <1>5, <2>1 DEF WatchInv, Members, Held
<1>7. Working' /\ NoCrash' /\ Gathered'
  BY <1>1, <1>3, <1>5 DEF WatchInv, Phases, Working, NoCrash, Gathered
<1>8. LeaderOut'
  <2>1. ASSUME leaderExited, Alive(Leader)' PROVE stop'[Leader] = "exit" /\ exitSig # "none"
    <3>1. Leader \in AliveThreads' /\ Alive(Leader) /\ stop[Leader] = "exit" /\ exitSig # "none"
      BY <1>2, <1>3, <1>5, <2>1, LeaderIsThread DEF AliveThreads, Quiet, WatchInv, LeaderOut, LeaderStays
    <3> QED BY <1>3, <1>4, <3>1 DEF Stopped
  <2> QED BY <1>1, <2>1 DEF WatchInv, LeaderOut, LeaderStays
<1>9. Reading'
  <2>1. ASSUME NEW t \in Tids, Read(t) PROVE AliveThreads' = {} \/ (Alive(t)' /\ stop'[t] = status /\ status # "none" /\ t \notin fresh')
    BY <1>4, <1>5, <2>1 DEF Read, Stopped
  <2> QED BY <1>1, <1>3, <2>1 DEF WatchInv, Reading, Read
<1>10. NewChild'
  <2>1. ASSUME pc \in {"child", "finish", "finishWait", "settle"}, stop'[Leader] = "clone"
        PROVE  child'[Leader] \notin mtids
    <3>1. CASE stop[Leader] = "clone"
      BY <1>2, <1>3, <2>1, <3>1 DEF Moved, Stopped, WatchInv, Phases, NewChild
    <3>2. CASE stop[Leader] # "clone"
      <4>1. ~Exists(child'[Leader])
        BY <1>2, <1>3, <2>1, <3>2 DEF Moved
      <4> QED BY <2>1, <4>1 DEF WatchInv, Members, Leaving
    <3> QED BY <3>1, <3>2
  <2> QED BY <1>1, <2>1 DEF NewChild
<1>11. HeldStill'
  <2>1. ASSUME pc \in Collecting, coll.fatal = "none", NEW t \in coll.held
        PROVE  Exists(t)' /\ (t \in AliveThreads' => Stopped(t)' \/ t = crashTid)
    <3>1. t \in Tids /\ Exists(t) /\ (t \in AliveThreads => Stopped(t) \/ t = crashTid)
      BY <1>3, <2>1 DEF WatchInv, Phases, HeldStill
    <3> QED BY <1>4, <1>5, <3>1
  <2> QED BY <1>1, <2>1 DEF HeldStill
<1>12. ASSUME NEW t \in AliveThreads', Exists(t), Standing(t)
       PROVE  Standing(t)'
  <2>1. AliveThreads' # {}
    OBVIOUS
  <2>2. CASE Cloned(crashTid, t) /\ Stopped(crashTid)
    <3>1. crashTid \in Tids /\ child[crashTid] = t
      BY <2>2 DEF Cloned
    <3> QED BY <1>1, <1>4, <2>1, <2>2, <3>1 DEF Standing, Cloned
  <2>3. CASE t \in coll.tids \/ (t = Leader /\ leaderExited)
    BY <1>1, <2>3 DEF Standing
  <2> QED BY <1>12, <2>2, <2>3 DEF Standing
<1>13. Confirmed'
  <2> SUFFICES ASSUME pc \in {"meta", "core"}, NEW t \in AliveThreads'
               PROVE  t \in traced' /\ Standing(t)' /\ (Stopped(t)' \/ (t = crashTid /\ t \in coll.tids))
      BY <1>1 DEF Confirmed
  <2>1. \A u \in AliveThreads : u \in traced /\ Standing(u) /\ (Stopped(u) \/ (u = crashTid /\ u \in coll.tids))
    BY DEF WatchInv, Phases, Confirmed
  <2>2. CASE Exists(t)
    <3>1. t \in AliveThreads /\ t \in Tids /\ Standing(t)' /\ AliveThreads' # {}
      BY <1>5, <1>12, <2>1, <2>2
    <3>2. t \in traced'
      BY <1>2, <2>1, <3>1 DEF Moved
    <3> QED BY <1>4, <2>1, <3>1, <3>2
  <2>3. CASE ~Exists(t)
    <3>1. Grown(t)
      BY <1>2, <1>5, <2>3 DEF Moved
    <3>2. PICK p \in AliveThreads : /\ Alive(p)' /\ ~Stopped(p)
                                    /\ p \in traced => stop'[t] = "intr" /\ stop'[p] = "clone" /\ child'[p] = t
      BY <3>1 DEF Grown
    <3>3. p = crashTid /\ stop'[t] = "intr" /\ stop'[p] = "clone" /\ child'[p] = t
      BY <2>1, <3>2
    <3>4. p \in Tids
      BY LeaderIsThread DEF AliveThreads
    <3>5. Stopped(t)' /\ Standing(t)'
      BY <1>1, <3>3, <3>4 DEF Standing, Cloned, Stopped
    <3>6. t \in traced'
      BY <1>2, <1>5, <3>5 DEF KernelOK
    <3> QED BY <3>5, <3>6
  <2> QED BY <2>2, <2>3
<1>14. Still'
  <2> SUFFICES ASSUME pc \in Copying, NEW t \in AliveThreads'
               PROVE  Stopped(t)' /\ Standing(t)'
      BY <1>1 DEF Still
  <2>1. \A u \in AliveThreads : Stopped(u) /\ Standing(u)
    BY DEF WatchInv, Phases, Still
  <2>2. Exists(t)
    BY <1>2, <1>5, <2>1 DEF Moved, Grown
  <2>3. t \in AliveThreads /\ t \in Tids /\ AliveThreads' # {}
    BY <1>5, <2>2
  <2> QED BY <1>4, <1>12, <2>1, <2>2, <2>3
<1>15. Published'
  <2> SUFFICES ASSUME pc \in Releasing, NEW t \in mtids, Alive(t)', Stopped(t)'
               PROVE  t \in fresh' \/ (t = Leader /\ (pc = "settle" \/ (pc = "commit" /\ shot.result \in Fatal)))
      BY <1>1 DEF Published
  <2>1. t \in Threads /\ Exists(t) /\ t \in Tids
    BY <1>3 DEF WatchInv, Members, Leaving, Releasing
  <2>2. Alive(t) /\ t \in AliveThreads' /\ AliveThreads' # {}
    BY <1>5, <2>1 DEF AliveThreads
  <2>3. CASE Stopped(t)
    BY <1>4, <2>1, <2>2, <2>3 DEF WatchInv, Phases, Published
  <2>4. CASE ~Stopped(t)
    BY <1>2, <2>1, <2>4 DEF Moved
  <2> QED BY <2>3, <2>4
<1> QED BY <1>2, <1>6, <1>7, <1>8, <1>9, <1>10, <1>11, <1>13, <1>14, <1>15 DEF WatchInv, Phases

-----------------------------------------------------------------------------
(* monitor_threads                                                         *)

LEMMA Elsewhere ==
  ASSUME pc' \notin Collecting \cup {"meta", "core"} \cup Copying \cup Injecting \cup Releasing
  PROVE  Phases'
  BY DEF Phases, NewChild, HeldStill, Confirmed, Still, Gathered, Published, Injecting, Copying, Releasing

LEMMA WatchSeizeList == TypeInv /\ WatchInv /\ SeizeList => WatchInv'
<1> SUFFICES ASSUME TypeInv, WatchInv, SeizeList PROVE WatchInv'
    OBVIOUS
<1>1. Quiet' /\ FatalKills' /\ UNCHANGED <<task, stop, fresh, child>> /\ traced \subseteq traced'
  BY QuietOther DEF TypeInv, WatchInv, SeizeList
<1>2. pc = "seize" /\ pc' \in {"rollback", "seizeEach"} /\ exitSig' = exitSig /\ mtids' = mtids
  BY DEF SeizeList, Rollback, Goto, crash
<1>3. Members'
  BY <1>1, <1>2 DEF WatchInv, Members, Leaving, Held, Exists
<1>4. Working'
  <2>1. pc' = "seizeEach" => todo' \subseteq Listed
    BY <1>2 DEF SeizeList, Rollback, Goto
  <2> QED BY <1>1, <1>2, <2>1 DEF Working, Listed, Exists
<1>5. LeaderOut'
  BY <1>1, <1>2 DEF SeizeList, WatchInv, LeaderOut, LeaderStays, Injecting, Alive
<1>6. Reading' /\ NoCrash'
  BY <1>2 DEF WatchInv, Reading, NoCrash, Injecting, Collecting
<1> QED BY <1>1, <1>2, <1>3, <1>4, <1>5, <1>6, Elsewhere
        DEF WatchInv, Collecting, Copying, Injecting, Releasing

LEMMA WatchSeizeEach == TypeInv /\ WatchInv /\ SeizeEach => WatchInv'
<1> SUFFICES ASSUME TypeInv, WatchInv, SeizeEach PROVE WatchInv'
    OBVIOUS
<1> DEFINE t == LeastOf(todo)
<1>1. t \in todo /\ t \in Threads /\ Exists(t) /\ pc = "seizeEach"
  BY LeastIsMember DEF TypeInv, ControlOK, SeizeEach, WatchInv, Working
<1> HIDE DEF t
<1>2. /\ Quiet' /\ FatalKills' /\ UNCHANGED <<task, stop, fresh, child>> /\ traced \subseteq traced'
  <2>1. SeizeAll({t}) \/ UNCHANGED kernel
    BY DEF SeizeEach, t
  <2> QED BY <2>1, QuietOther DEF TypeInv, WatchInv
<1>3. pc' \in {"rollback", "seizeEach"} /\ exitSig' = exitSig /\ todo' \subseteq todo \cup mtids
  BY DEF SeizeEach, Rollback, Goto, crash
<1>4. \/ mtids' = mtids
      \/ mtids' = mtids \cup {t} /\ t \in traced'
  BY DEF SeizeEach, SeizeAll, thr, t
<1>5. Members'
  BY <1>1, <1>2, <1>4 DEF WatchInv, Members, Leaving, Held, Exists
<1>6. Working'
  <2>1. pc' = "seizeEach" => todo' \subseteq todo
    BY DEF SeizeEach, Rollback, Goto
  <2> QED BY <1>1, <1>2, <1>3, <2>1 DEF WatchInv, Working, Exists
<1>7. LeaderOut'
  <2>1. leaderExited' => leaderExited \/ task[Leader] = "zombie"
    BY <1>1 DEF SeizeEach, thr, t
  <2> QED BY <1>2, <1>3, <2>1 DEF WatchInv, LeaderOut, LeaderStays, Injecting, Alive
<1>8. Reading' /\ NoCrash'
  BY <1>1, <1>3 DEF WatchInv, Reading, NoCrash, Injecting, Collecting
<1> QED BY <1>2, <1>3, <1>5, <1>6, <1>7, <1>8, Elsewhere
        DEF WatchInv, Collecting, Copying, Injecting, Releasing

LEMMA WatchSeizeEnd == TypeInv /\ WatchInv /\ SeizeEnd => WatchInv'
<1> SUFFICES ASSUME TypeInv, WatchInv, SeizeEnd PROVE WatchInv'
    OBVIOUS
<1>1. /\ Quiet' /\ FatalKills' /\ UNCHANGED <<task, stop, fresh, child>> /\ traced \subseteq traced'
  BY QuietOther DEF TypeInv, WatchInv, SeizeEnd
<1>2. /\ pc = "seizeEach" /\ pc' \in {"rollback", "seize", "drain"}
      /\ UNCHANGED <<exitSig, mtids, leaderExited>>
  BY DEF SeizeEnd, Rollback, Goto, crash, thr
<1>3. Members' /\ Working'
  BY <1>1, <1>2 DEF WatchInv, Members, Working, Leaving, Held, Exists
<1>4. LeaderOut' /\ Reading' /\ NoCrash'
  BY <1>1, <1>2 DEF WatchInv, LeaderOut, LeaderStays, Injecting, Alive, Reading, NoCrash, Collecting
<1> QED BY <1>1, <1>2, <1>3, <1>4, Elsewhere DEF WatchInv, Collecting, Copying, Injecting, Releasing

-----------------------------------------------------------------------------
(* Letting go                                                              *)

\* What a thread let go loses of its stop, the leader does not gain.
LEMMA LeaderKept ==
  ASSUME NEW ts, Kept(ts), LeaderStays, leaderExited' = leaderExited, exitSig' = exitSig
  PROVE  LeaderStays'
  BY LeaderIsThread DEF Kept, AliveThreads, LeaderStays

LEMMA LetGoQuiet ==
  ASSUME KernelOK, Quiet, FatalKills, NEW t \in Tids, t \in fresh \/ Answers(t), LetGo(t)
  PROVE  Quiet' /\ FatalKills' /\ Kept({t})
<1>1. Stopped(t)
  BY DEF KernelOK, Answers
<1>2. ContinueThose({t}, Just(t, IF t \in fresh /\ stop[t] \in Signals THEN stop[t] ELSE "none"), TRUE)
  BY DEF LetGo, DetachWaited
<1> QED BY <1>1, <1>2, QuietContinueThose

LEMMA WatchLeaving ==
  TypeInv /\ WatchInv
    /\ (RollbackNext \/ RollbackWait \/ DetachPoll \/ DetachRegs \/ DetachWait \/ DetachEnd) => WatchInv'
<1> SUFFICES ASSUME TypeInv, WatchInv,
                    RollbackNext \/ RollbackWait \/ DetachPoll \/ DetachRegs \/ DetachWait \/ DetachEnd
             PROVE  WatchInv'
    OBVIOUS
<1>1. /\ pc' \in Leaving \ {"coreCommit"} /\ UNCHANGED <<leaderExited, exitSig>>
      /\ pc' \in {"rollback", "rollbackWait"} => pc \in {"rollback", "rollbackWait"}
  BY DEF RollbackNext, RollbackWait, DetachPoll, DetachRegs, DetachWait, DetachEnd, Goto, Leaving, crash,
         thr
<1>2. todo # {} => LeastOf(todo) \in Tids
  BY LeastIsMember DEF TypeInv, ControlOK
<1>3. \E t \in Tids : \/ (t \in fresh \/ Answers(t)) /\ LetGo(t)
                      \/ WaitExit(t)
                      \/ UNCHANGED kernel \/ Interrupt(t)
  BY <1>2 DEF RollbackNext, RollbackWait, DetachPoll, DetachRegs, DetachWait, DetachEnd, Detached,
              TypeInv, ControlOK
<1>4. Quiet' /\ FatalKills' /\ LeaderStays'
  <2>1. PICK t \in Tids : \/ (t \in fresh \/ Answers(t)) /\ LetGo(t)
                          \/ WaitExit(t)
                          \/ UNCHANGED kernel \/ Interrupt(t)
    BY <1>3
  <2>2. CASE (t \in fresh \/ Answers(t)) /\ LetGo(t)
    BY <1>1, <2>2, LetGoQuiet, LeaderKept DEF TypeInv, WatchInv, LeaderOut
  <2>3. CASE WaitExit(t)
    <3>1. Quiet' /\ FatalKills' /\ task' = [task EXCEPT ![t] = "gone"] /\ stop' = stop
      BY <2>3, QuietWaitExit DEF TypeInv, WatchInv
    <3> QED BY <1>1, <3>1, LeaderIsThread DEF WatchInv, LeaderOut, LeaderStays, Alive, TypeInv, KernelOK
  <2>4. CASE UNCHANGED kernel \/ Interrupt(t)
    <3>1. Quiet' /\ FatalKills' /\ task' = task /\ stop' = stop
      BY <2>4, QuietOther DEF TypeInv, WatchInv
    <3> QED BY <1>1, <3>1 DEF WatchInv, LeaderOut, LeaderStays, Alive
  <2> QED BY <2>1, <2>2, <2>3, <2>4
<1>5. Members' /\ Working' /\ LeaderOut' /\ Reading' /\ NoCrash'
  <2>1. pc \in {"rollback", "rollbackWait"} => exitSig = "none"
    BY DEF WatchInv, NoCrash
  <2> QED BY <1>1, <1>4, <2>1 DEF Members, Working, LeaderOut, Reading, NoCrash, Leaving, Collecting, Injecting
<1> QED BY <1>1, <1>4, <1>5, Elsewhere DEF WatchInv, Leaving, Collecting, Copying, Injecting, Releasing

-----------------------------------------------------------------------------
(* The drain                                                               *)

\* While Arthur keeps watching no thread it knows is lost.
LEMMA MembersKept ==
  ASSUME KernelOK, Members, pc \notin Leaving, NEW ts, Kept(ts), traced \subseteq traced', mtids' \subseteq mtids,
         mtids \subseteq Tids
  PROVE  Members'
<1>1. /\ \A t \in Tids : (Exists(t) => Exists(t)') /\ (Held(t) => Held(t)')
      /\ child' = child /\ \A t \in Tids : stop'[t] = "clone" => stop[t] = "clone"
  BY DEF Kept, Held
<1>2. \A t \in Tids : stop[t] = "clone" => child[t] \in Tids
  BY DEF KernelOK
<1>3. \A t \in Tids : stop'[t] = "clone" /\ child'[t] \in Threads => Held(child[t])'
  BY <1>1, <1>2 DEF Members
<1> QED BY <1>1, <1>3 DEF Members, Held

LEMMA KeptUnchanged ==
  ASSUME UNCHANGED <<task, stop, fresh, child>> \/ UNCHANGED kernel
  PROVE  Kept({})
  BY DEF Kept, kernel, Exists, Alive, AliveThreads, Stopped

LEMMA WatchMainLoop ==
  TypeInv /\ WatchInv /\ (DrainStart \/ PassEnd \/ Dispatch \/ AwaitSignal \/ Request) => WatchInv'
<1> SUFFICES ASSUME TypeInv, WatchInv, DrainStart \/ PassEnd \/ Dispatch \/ AwaitSignal \/ Request
             PROVE  WatchInv'
    OBVIOUS
<1>1. /\ Quiet' /\ FatalKills' /\ UNCHANGED <<task, stop, fresh, child>> /\ traced \subseteq traced'
  <2>1. UNCHANGED kernel \/ TakeChld
    BY DEF DrainStart, PassEnd, Dispatch, AwaitSignal, Request
  <2> QED BY <2>1, QuietOther DEF TypeInv, WatchInv
<1>2. /\ pc \in {"drain", "poll", "dispatch", "wait"}
      /\ pc' \in {"poll", "detach", "returned", "drain", "collect", "dispatch", "dump", "wait"}
      /\ leaderExited' = leaderExited /\ (exitSig # "none" => exitSig' # "none")
      /\ pc' \in {"dispatch", "wait", "dump"} => exitSig' = "none"
  BY SignalFacts DEF DrainStart, PassEnd, Dispatch, AwaitSignal, Request, Goto, Quit, thr, crash, ctl, WatchInv,
         NoCrash
<1>3. Members'
  <2>1. mtids' \subseteq mtids \/ (\A t \in mtids' : t \in Threads /\ Exists(t) /\ t \in traced)
    BY DEF DrainStart, PassEnd, Dispatch, AwaitSignal, Request, thr, Listed, Exists
  <2> QED BY <1>1, <1>2, <2>1 DEF WatchInv, Members, Leaving, Held, Exists
<1>4. Working' /\ NoCrash' /\ Reading'
  <2>1. pc' = "poll" => todo' = mtids'
    BY DEF DrainStart, PassEnd, Dispatch, AwaitSignal, Request, Goto, Quit, thr, ctl
  <2> QED BY <1>2, <2>1 DEF Working, NoCrash, Reading, Injecting, Collecting
<1>5. LeaderOut'
  BY <1>1, <1>2 DEF WatchInv, LeaderOut, LeaderStays, Injecting, Alive
<1> QED BY <1>1, <1>2, <1>3, <1>4, <1>5, Elsewhere DEF WatchInv, Collecting, Copying, Injecting, Releasing

LEMMA WatchPoll == TypeInv /\ WatchInv /\ Poll => WatchInv'
<1> SUFFICES ASSUME TypeInv, WatchInv, Poll PROVE WatchInv'
    OBVIOUS
<1> DEFINE t == LeastOf(todo)
<1>1. /\ t \in todo /\ t \in Tids /\ t \in mtids /\ t \in Threads /\ Exists(t) /\ Held(t) /\ pc = "poll"
      /\ tid' = t
  BY LeastIsMember DEF TypeInv, ControlOK, Poll, WatchInv, Working, Members, Leaving
<1> HIDE DEF t
<1>2. UNCHANGED <<leaderExited, exitSig>>
  BY DEF Poll, crash
<1>3. CASE t \in fresh /\ WaitStop(t) /\ status' = stop[t] /\ Goto("handle") /\ UNCHANGED <<todo, mtids, progress, rc>>
  <2>1. Quiet' /\ FatalKills' /\ UNCHANGED <<task, traced, stop, child>> /\ fresh' = fresh \ {t}
    BY <1>1, <1>3, QuietWaitStop DEF TypeInv, WatchInv, WaitStop
  <2>2. Alive(t) /\ Stopped(t)
    BY <1>1, <1>3 DEF TypeInv, KernelOK, WatchInv, Quiet, Alive
  <2>3. Members' /\ Working'
    BY <1>1, <1>3, <2>1 DEF WatchInv, Members, Working, Held, Exists, Leaving, Goto
  <2>4. LeaderOut'
    BY <1>2, <1>3, <2>1 DEF WatchInv, LeaderOut, LeaderStays, Alive, Goto, Injecting
  <2>5. Reading' /\ NoCrash'
    BY <1>1, <1>3, <2>1, <2>2 DEF Reading, Read, NoCrash, Goto, Alive, Stopped, Injecting, Collecting
  <2> QED BY <1>3, <2>1, <2>3, <2>4, <2>5, Elsewhere
          DEF WatchInv, Collecting, Copying, Injecting, Releasing, Goto
<1>4. CASE \/ WaitExit(t) /\ mtids' = mtids \ {t}
           \/ UNCHANGED kernel /\ (mtids' = mtids \/ (mtids' = mtids \ {t}))
  <2>1. pc' \in {"poll", "detach", "returned"} /\ (pc' = "poll" => todo' = todo \ {t})
    BY <1>1, <1>4 DEF Poll, Quit, Goto, WaitStop, WaitExit, kernel, Reapable, TypeInv, KernelOK, t
  <2>2. /\ Quiet' /\ FatalKills' /\ stop' = stop /\ child' = child
        /\ \A u \in Tids : /\ Exists(u) => Exists(u)'
                           /\ Held(u) => Held(u)'
                           /\ Alive(u)' => Alive(u)
    <3>1. CASE WaitExit(t)
      BY <1>1, <3>1, QuietWaitExit DEF TypeInv, WatchInv, Exists, Held, Alive, KernelOK
    <3>2. CASE UNCHANGED kernel
      BY <3>2, QuietOther DEF TypeInv, WatchInv, Exists, Held, Alive, kernel
    <3> QED BY <1>4, <3>1, <3>2
  <2>3. mtids' \subseteq mtids /\ mtids' \subseteq Tids
    BY <1>4 DEF TypeInv, ControlOK
  <2>4. Members'
    <3>1. \A u \in Tids : stop[u] = "clone" => child[u] \in Tids
      BY DEF TypeInv, KernelOK
    <3> QED BY <1>1, <2>2, <2>3, <3>1 DEF WatchInv, Members, Leaving, Held
  <2>5. Working' /\ Reading' /\ NoCrash'
    <3>1. pc' = "poll" => todo' \subseteq mtids'
      BY <1>1, <1>4, <2>1 DEF WatchInv, Working
    <3> QED BY <2>1, <3>1 DEF Working, Reading, NoCrash, Injecting, Collecting
  <2>6. LeaderOut'
    BY <1>2, <2>1, <2>2, LeaderIsThread DEF WatchInv, LeaderOut, LeaderStays, Injecting
  <2> QED BY <2>1, <2>2, <2>4, <2>5, <2>6, Elsewhere DEF WatchInv, Collecting, Copying, Injecting, Releasing
<1> QED BY <1>3, <1>4 DEF Poll, t

\* A thread that answers the calls its stop is handled with is still in that stop.
LEMMA Answering ==
  ASSUME TypeInv, WatchInv, pc = "handle", StillThere
  PROVE  /\ tid \in mtids /\ tid \in todo /\ tid \in Tids /\ tid \in AliveThreads /\ Alive(tid)
         /\ stop[tid] = status /\ Stopped(tid) /\ tid \notin fresh /\ status \notin {"none", "exec"}
<1>1. /\ tid \in todo /\ tid \in mtids /\ tid \in Threads /\ tid \in Tids /\ ~Renamed(tid)
  BY DEF TypeInv, ControlOK, WatchInv, Working, Members, Leaving, Quiet, Renamed
<1>2. Alive(tid)
  BY <1>1 DEF StillThere, TypeInv, KernelOK, WatchInv, Quiet, Alive
<1>3. tid \in AliveThreads
  BY <1>1, <1>2 DEF AliveThreads
<1>4. stop[tid] = status /\ status # "none" /\ tid \notin fresh
  BY <1>3 DEF WatchInv, Reading, Read
<1> QED BY <1>1, <1>2, <1>3, <1>4 DEF Stopped, WatchInv, Quiet

LEMMA ResumeQuiet ==
  ASSUME TypeInv, WatchInv, pc = "handle", StillThere, NEW sig, NEW ts,
         \/ ts = {tid} /\ Continue(Just(tid, sig), FALSE)
         \/ ts = {} /\ UNCHANGED kernel
  PROVE  Quiet' /\ FatalKills' /\ Kept(ts) /\ traced' = traced
<1>1. CASE ts = {tid} /\ Continue(Just(tid, sig), FALSE)
  <2>1. {t \in DOMAIN Just(tid, sig) : Stopped(t)} = {tid} /\ DOMAIN Just(tid, sig) \subseteq Tids
    BY Answering DEF Just
  <2> QED BY <1>1, <2>1, QuietContinue DEF TypeInv, WatchInv
<1>2. CASE ts = {} /\ UNCHANGED kernel
  <2>1. Quiet' /\ FatalKills' /\ traced' = traced
    BY <1>2, QuietOther DEF TypeInv, WatchInv, kernel
  <2> QED BY <1>2, <2>1, KeptUnchanged
<1> QED BY <1>1, <1>2

LEMMA WatchHandleClone == TypeInv /\ WatchInv /\ HandleClone => WatchInv'
<1> SUFFICES ASSUME TypeInv, WatchInv, HandleClone PROVE WatchInv'
    OBVIOUS
<1> DEFINE c == child[tid]
<1>1. /\ pc = "handle" /\ tid \in mtids /\ tid \in Tids /\ stop[tid] = "clone" /\ status = "clone" /\ Exists(c)
      /\ c \in Tids /\ c # Leader
  BY Answering DEF HandleClone, Handling, TypeInv, EventsNamed, WatchInv, Quiet
<1>2. /\ Quiet' /\ FatalKills' /\ task' = task /\ child' = child
      /\ \A t \in Tids : stop'[t] = stop[t] \/ (t \in {tid, c} /\ stop'[t] = "none")
      /\ traced' = IF c \in Procs THEN traced \ {c} ELSE traced
  <2>1. AfterClone(tid, c \in Procs, exitSig = "none")
    BY DEF HandleClone
  <2>2. Quiet' /\ FatalKills'
    BY <1>1, <2>1, QuietAfterClone DEF TypeInv, WatchInv
  <2> QED BY <2>1, <2>2 DEF AfterClone, NotIn
<1>3. /\ pc' = "poll" /\ todo' = todo \ {tid} /\ UNCHANGED <<leaderExited, exitSig>>
      /\ mtids' = IF c \in Procs THEN mtids ELSE mtids \cup {c}
  BY DEF HandleClone, Handled, Goto, crash
<1>4. c \in Threads => Held(c)
  BY <1>1 DEF WatchInv, Members, Leaving
<1> HIDE DEF c
<1>5. Members'
  <2>1. \A t \in Threads : Held(t) => Held(t)'
    BY <1>2 DEF Held, Threads
  <2>2. \A t \in mtids' : t \in Threads /\ Exists(t)' /\ Held(t)'
    BY <1>1, <1>2, <1>3, <1>4, <2>1 DEF WatchInv, Members, Leaving, Exists, Threads
  <2>3. ASSUME NEW t \in Tids, stop'[t] = "clone", child'[t] \in Threads PROVE Held(child[t])'
    <3>1. stop[t] = "clone" /\ child[t] \in Threads /\ child'[t] = child[t]
      BY <1>2, <2>3
    <3>2. Held(child[t])
      BY <1>1, <3>1 DEF WatchInv, Members, Leaving
    <3> QED BY <2>1, <3>1, <3>2 DEF Held
  <2> QED BY <1>2, <2>2, <2>3 DEF Members, Held
<1>6. Working' /\ Reading' /\ NoCrash'
  BY <1>1, <1>3 DEF WatchInv, Working, Reading, NoCrash, Injecting, Collecting
<1>7. LeaderOut'
  BY <1>1, <1>2, <1>3, LeaderIsThread DEF WatchInv, LeaderOut, LeaderStays, Injecting, Alive
<1> QED BY <1>2, <1>3, <1>5, <1>6, <1>7, Elsewhere DEF WatchInv, Collecting, Copying, Injecting, Releasing

\* Every other stop leaves the set of threads alone.
LEMMA WatchHandle ==
  TypeInv /\ WatchInv
    /\ (HandleExit \/ HandleExec \/ HandleGroupStop \/ HandleInterrupt \/ HandleFatal \/ HandleSignal) => WatchInv'
<1> SUFFICES ASSUME TypeInv, WatchInv,
               HandleExit \/ HandleExec \/ HandleGroupStop \/ HandleInterrupt \/ HandleFatal \/ HandleSignal
             PROVE  WatchInv'
    OBVIOUS
<1>1. /\ pc = "handle" /\ StillThere /\ tid \in mtids /\ tid \in Tids /\ stop[tid] = status /\ status # "exec"
      /\ tid \in todo /\ mtids \subseteq Tids
  BY Answering DEF HandleExit, HandleExec, HandleGroupStop, HandleInterrupt, HandleFatal, HandleSignal, Handling,
                   TypeInv, ControlOK
<1>2. /\ pc' = "poll" /\ todo' = todo \ {tid} /\ mtids' = mtids
      /\ \/ leaderExited' => leaderExited
         \/ HandleExit /\ tid = Leader
      /\ exitSig' = exitSig \/ exitSig' # "none"
  <2>1. ~HandleExec
    BY <1>1 DEF HandleExec, Handling
  <2>2. CASE HandleExit
    BY <2>2 DEF HandleExit, Handled, Goto, crash
  <2>3. CASE HandleGroupStop \/ HandleInterrupt \/ HandleSignal
    <3>1. Handled /\ UNCHANGED <<thr, crash>>
      BY <2>3 DEF HandleGroupStop, HandleInterrupt, HandleSignal
    <3> QED BY <3>1 DEF Handled, Goto, thr, crash
  <2>4. CASE HandleFatal
    BY <2>4, SignalFacts DEF HandleFatal, Handling, Handled, Goto, thr, crash
  <2> QED BY <2>1, <2>2, <2>3, <2>4
<1>3. \E ts \in SUBSET {tid} :
        /\ Quiet' /\ FatalKills' /\ Kept(ts) /\ traced' = traced
        /\ HandleExit => (exitSig = "none" => ts = {tid})
  <2>1. CASE HandleGroupStop
    <3>1. Listen(tid) /\ stop[tid] = "group"
      BY <1>1, <2>1 DEF HandleGroupStop, Handling
    <3>2. /\ Quiet' /\ FatalKills' /\ UNCHANGED <<task, child, traced>>
          /\ stop' = [stop EXCEPT ![tid] = "none"] /\ fresh' = fresh \ {tid}
      BY <1>1, <3>1, QuietListen DEF TypeInv, WatchInv
    <3>3. Kept({tid})
      BY <1>1, <3>1, <3>2, LeaderIsThread DEF Kept, Exists, Alive, AliveThreads, Stopped, TypeInv, KernelOK
    <3>4. ~HandleExit
      BY <1>1, <2>1 DEF HandleExit, HandleGroupStop, Handling
    <3> QED BY <3>2, <3>3, <3>4
  <2>2. CASE ~HandleGroupStop
    <3>1. \E sig : \/ Continue(Just(tid, sig), FALSE)
                   \/ UNCHANGED kernel /\ (HandleExit => exitSig # "none")
      BY <1>1, <2>2 DEF HandleExit, HandleExec, HandleInterrupt, HandleFatal, HandleSignal, Handling, Resume
    <3>2. PICK sig : \/ Continue(Just(tid, sig), FALSE)
                     \/ UNCHANGED kernel /\ (HandleExit => exitSig # "none")
      BY <3>1
    <3>3. CASE Continue(Just(tid, sig), FALSE)
      BY <1>1, <3>3, ResumeQuiet
    <3>4. CASE UNCHANGED kernel /\ (HandleExit => exitSig # "none")
      BY <1>1, <3>4, ResumeQuiet
    <3> QED BY <3>2, <3>3, <3>4
  <2> QED BY <2>1, <2>2
<1>4. PICK ts \in SUBSET {tid} :
        /\ Quiet' /\ FatalKills' /\ Kept(ts) /\ traced' = traced
        /\ HandleExit => (exitSig = "none" => ts = {tid})
  BY <1>3
<1>5. Members'
  BY <1>1, <1>2, <1>4, MembersKept DEF TypeInv, WatchInv, Leaving
<1>6. Working' /\ Reading' /\ NoCrash'
  BY <1>1, <1>2 DEF WatchInv, Working, Reading, NoCrash, Injecting, Collecting
<1>7. LeaderStays'
  <2>1. CASE leaderExited' => leaderExited
    BY <1>1, <1>2, <1>4, <2>1, LeaderIsThread DEF Kept, AliveThreads, WatchInv, LeaderOut, LeaderStays
  <2>2. CASE HandleExit /\ tid = Leader
    <3>1. stop[Leader] = "exit" /\ exitSig' = exitSig
      BY <1>1, <2>2 DEF HandleExit, Handling, crash
    <3>2. exitSig = "none" => ~Alive(Leader)'
      BY <1>4, <2>2, <3>1, LeaderIsThread DEF Kept
    <3>3. Alive(Leader)' => stop'[Leader] = "exit"
      BY <1>4, <3>1, LeaderIsThread DEF Kept, AliveThreads
    <3> QED BY <3>1, <3>2, <3>3 DEF LeaderStays
  <2> QED BY <1>2, <2>1, <2>2
<1> QED BY <1>2, <1>4, <1>5, <1>6, <1>7, Elsewhere
        DEF WatchInv, LeaderOut, Collecting, Copying, Injecting, Releasing

LEMMA WatchHandleKilled == TypeInv /\ WatchInv /\ HandleKilled => WatchInv'
<1> SUFFICES ASSUME TypeInv, WatchInv, HandleKilled PROVE WatchInv'
    OBVIOUS
<1>1. /\ Quiet' /\ FatalKills' /\ UNCHANGED <<task, stop, fresh, child, traced>>
  BY QuietOther DEF TypeInv, WatchInv, HandleKilled, kernel
<1>2. pc = "handle" /\ tid \in Tids /\ tid \in todo /\ ~Alive(tid)
  BY DEF HandleKilled, StillThere, Renamed, TypeInv, ControlOK, WatchInv, Quiet, Working
<1>3. /\ pc' \in {"poll", "detach"} /\ (pc' = "poll" => todo' = todo \ {tid}) /\ mtids' = mtids
      /\ leaderExited' => leaderExited \/ tid = Leader
      /\ exitSig # "none" => exitSig' # "none"
  BY <1>2, SignalFacts DEF HandleKilled, Handled, Quit, Goto, crash
<1>4. Members' /\ Working' /\ Reading' /\ NoCrash'
  BY <1>1, <1>2, <1>3 DEF WatchInv, Members, Held, Exists, Working, Leaving, Reading, NoCrash, Injecting, Collecting
<1>5. LeaderOut'
  BY <1>1, <1>2, <1>3 DEF WatchInv, LeaderOut, LeaderStays, Injecting, Alive
<1> QED BY <1>1, <1>3, <1>4, <1>5, Elsewhere DEF WatchInv, Collecting, Copying, Injecting, Releasing

-----------------------------------------------------------------------------
(* collect_threads                                                         *)

LEMMA InCollection ==
  ASSUME pc' \in Collecting, HeldStill'
  PROVE  Phases'
  BY DEF Phases, Collecting, NewChild, Confirmed, Still, Gathered, Published, Copying, Releasing

\* A collection that fails goes on where its caller's own rules hold.
LEMMA FailsElsewhere ==
  ASSUME pc \in Collecting, WatchInv, CollectFails, exitSig' = exitSig
  PROVE  pc' \in {"kill", "restore"} /\ Phases' /\ Working' /\ Reading' /\ NoCrash'
<1>1. pc' \in {"kill", "restore"} /\ (pc' = "restore" => exitSig' = "none")
  BY DEF CollectFails, Goto, WatchInv, NoCrash
<1>2. Phases'
  BY <1>1, Elsewhere DEF Collecting, Copying, Injecting, Releasing
<1> QED BY <1>1, <1>2 DEF Working, Reading, NoCrash, Collecting, Injecting

LEMMA WatchCollectStart == TypeInv /\ WatchInv /\ CollectStart => WatchInv'
<1> SUFFICES ASSUME TypeInv, WatchInv, CollectStart PROVE WatchInv'
    OBVIOUS
<1>1. /\ Quiet' /\ FatalKills' /\ UNCHANGED <<task, stop, fresh, child, traced>>
  BY QuietOther DEF TypeInv, WatchInv, CollectStart, kernel
<1>2. /\ pc = "collect" /\ pc' = "list" /\ UNCHANGED <<mtids, leaderExited, exitSig>>
      /\ coll' = [NoCollection EXCEPT !.caller = IF exitSig = "none" THEN "dump" ELSE "crash"]
  BY DEF CollectStart, Goto, thr, crash
<1>3. coll'.held = {} /\ coll'.caller = IF exitSig = "none" THEN "dump" ELSE "crash"
  BY <1>2 DEF NoCollection
<1>4. Members' /\ Working' /\ LeaderOut' /\ Reading' /\ NoCrash'
  BY <1>1, <1>2, <1>3 DEF WatchInv, Members, Held, Exists, Working, Leaving, Reading, NoCrash, LeaderOut,
         LeaderStays, Alive, Injecting, Collecting
<1>5. HeldStill'
  BY <1>3 DEF HeldStill
<1> QED BY <1>1, <1>2, <1>4, <1>5, InCollection DEF WatchInv, Collecting

LEMMA WatchCollectList == TypeInv /\ WatchInv /\ CollectList => WatchInv'
<1> SUFFICES ASSUME TypeInv, WatchInv, CollectList PROVE WatchInv'
    OBVIOUS
<1> DEFINE new == Workers \ mtids
           dead == {t \in new : t \notin traced /\ ~Alive(t)}
           seized == {t \in new : \A u \in dead : t < u}
<1>1. pc = "list" /\ SeizeAll(seized) /\ mtids' = mtids \cup seized /\ UNCHANGED <<leaderExited, exitSig, coll>>
  BY DEF CollectList, crash
<1>2. Quiet' /\ FatalKills' /\ UNCHANGED <<task, stop, fresh, child>> /\ traced \subseteq traced'
  BY <1>1, QuietOther DEF TypeInv, WatchInv
<1>3. \A t \in seized : t \in Threads /\ Exists(t) /\ t \in traced'
  <2>1. ASSUME NEW t \in seized PROVE t \in Threads /\ Exists(t) /\ t \in traced'
    <3>1. t \in Threads /\ Exists(t)
      BY DEF Workers, Listed, Exists
    <3>2. t \notin dead
      BY <3>1, LeaderIsThread, ThreadAssumption DEF Tids
    <3>3. t \in traced \/ Alive(t)
      BY <3>2
    <3> HIDE DEF seized
    <3> QED BY <1>1, <3>1, <3>3 DEF SeizeAll
  <2> QED BY <2>1
<1> HIDE DEF seized
<1>4. Members'
  BY <1>1, <1>2, <1>3 DEF WatchInv, Members, Held, Exists, Leaving
<1>5. LeaderOut'
  <2>1. pc' \in {"kill", "restore", "stop"}
    BY DEF CollectList, CollectFails, Goto
  <2> QED BY <1>1, <1>2, <2>1 DEF WatchInv, LeaderOut, LeaderStays, Alive, Injecting
<1>6. Phases' /\ Working' /\ Reading' /\ NoCrash'
  <2>1. CASE CollectFails
    BY <1>1, <2>1, FailsElsewhere DEF Collecting
  <2>2. CASE todo' \subseteq mtids' /\ Goto("stop")
    <3>1. HeldStill'
      BY <1>1, <1>2, <2>2 DEF WatchInv, Phases, HeldStill, Collecting, Exists, AliveThreads, Alive, Stopped,
             CollectList, crash, Goto
    <3> QED BY <1>1, <2>2, <3>1, InCollection
            DEF Goto, Collecting, WatchInv, Working, Reading, NoCrash, Injecting
  <2> QED BY <2>1, <2>2 DEF CollectList
<1> QED BY <1>2, <1>4, <1>5, <1>6 DEF WatchInv

\* A stop that is recorded leaves every thread as it is.
LEMMA Recorded ==
  ASSUME TypeInv, WatchInv, pc \in Collecting, NEW t \in mtids, t \in fresh, RecordStop(t)
  PROVE  /\ Quiet' /\ FatalKills' /\ task' = task /\ child' = child
         /\ \A u \in Threads : stop'[u] = stop[u]
         /\ \A u \in Tids : stop'[u] \in {stop[u], "none"}
         /\ \A u \in Threads : Held(u) => Held(u)'
         /\ \A u \in mtids' : u \in Threads /\ Exists(u) /\ Held(u)
         /\ mtids \subseteq mtids' /\ Stopped(t)
         /\ coll'.held = coll.held \cup {t} /\ coll'.caller = coll.caller
         /\ coll'.fatal = "none" => coll.fatal = "none" /\ crashTid' = crashTid
<1> DEFINE c == child[t]
<1>1. t \in Tids /\ mtids \subseteq Tids /\ Stopped(t) /\ coll \in Collections
  BY DEF TypeInv, ControlOK, KernelOK
<1>2. \A u \in mtids : u \in Threads /\ Exists(u) /\ Held(u)
  BY DEF WatchInv, Members, Collecting, Leaving
<1>3. stop[t] = "clone" => c \in Tids /\ Exists(c) /\ (c \in Threads => Held(c))
  BY <1>1 DEF TypeInv, KernelOK, WatchInv, Quiet, Members, Collecting, Leaving
<1>4. /\ mtids' = IF stop[t] = "clone" /\ c \notin Procs THEN mtids \cup {c} ELSE mtids
      /\ IF stop[t] = "clone" /\ c \in Procs THEN AfterClone(t, TRUE, FALSE) ELSE WaitStop(t)
  BY DEF RecordStop
<1>5. /\ coll'.held = coll.held \cup {t} /\ coll'.caller = coll.caller
      /\ coll'.fatal = "none" => coll.fatal = "none" /\ crashTid' = crashTid
  <2>1. /\ coll' = [coll EXCEPT !.held = @ \cup {t},
                          !.grouped = IF stop[t] = "group" THEN @ \cup {t} ELSE @,
                          !.fatal = IF stop[t] \in Fatal /\ @ = "none" THEN stop[t] ELSE @,
                          !.relay[t] = IF stop[t] \in Signals \ Fatal THEN stop[t] ELSE @]
        /\ crashTid' = IF stop[t] \in Fatal /\ coll.fatal = "none" THEN t ELSE crashTid
    BY DEF RecordStop
  <2>2. \A s \in Fatal : s # "none"
    BY SignalFacts
  <2> QED BY <1>1, <2>1, <2>2 DEF Collections
<1>6. /\ Quiet' /\ FatalKills' /\ task' = task /\ child' = child
      /\ \A u \in Threads : stop'[u] = stop[u]
      /\ \A u \in Tids : stop'[u] \in {stop[u], "none"}
      /\ traced' = traced \/ (c \in Procs /\ traced' = traced \ {c})
  <2>1. CASE stop[t] = "clone" /\ c \in Procs
    <3>1. AfterClone(t, TRUE, FALSE)
      BY <1>4, <2>1
    <3>2. Quiet' /\ FatalKills'
      BY <1>1, <3>1, QuietAfterClone DEF TypeInv, WatchInv
    <3> QED BY <2>1, <3>1, <3>2, LeaderIsThread DEF AfterClone, NotIn, Threads
  <2>2. CASE ~(stop[t] = "clone" /\ c \in Procs)
    BY <1>1, <1>4, <2>2, QuietWaitStop DEF TypeInv, WatchInv, WaitStop
  <2> QED BY <2>1, <2>2
<1> HIDE DEF c
<1>7. \A u \in Threads : Held(u) => Held(u)'
  BY <1>6 DEF Held, Threads
<1>8. \A u \in mtids' : u \in Threads /\ Exists(u) /\ Held(u)
  BY <1>2, <1>3, <1>4 DEF Threads
<1> QED BY <1>1, <1>4, <1>5, <1>6, <1>7, <1>8

LEMMA WatchRecorded ==
  ASSUME TypeInv, WatchInv, pc \in Collecting, NEW t \in mtids, t \in fresh, RecordStop(t),
         pc' = "stop", todo' = todo \ {t}, todo \subseteq mtids, UNCHANGED <<leaderExited, exitSig>>
  PROVE  WatchInv'
<1>1. /\ Quiet' /\ FatalKills' /\ task' = task /\ child' = child
      /\ \A u \in Threads : stop'[u] = stop[u]
      /\ \A u \in Tids : stop'[u] \in {stop[u], "none"}
      /\ \A u \in Threads : Held(u) => Held(u)'
      /\ \A u \in mtids' : u \in Threads /\ Exists(u) /\ Held(u)
      /\ mtids \subseteq mtids' /\ Stopped(t)
      /\ coll'.held = coll.held \cup {t} /\ coll'.caller = coll.caller
      /\ coll'.fatal = "none" => coll.fatal = "none" /\ crashTid' = crashTid
  BY Recorded
<1>2. Members'
  <2>1. \A u \in Tids : stop'[u] = "clone" => stop[u] = "clone" /\ child[u] \in Tids
    BY <1>1 DEF TypeInv, KernelOK
  <2>2. \A u \in Tids : stop[u] = "clone" /\ child[u] \in Threads => Held(child[u])
    BY DEF WatchInv, Members, Collecting, Leaving
  <2>3. \A u \in Threads : Held(u) => u \in traced' \/ task'[u] = "gone"
    BY <1>1 DEF Held
  <2> QED BY <1>1, <2>1, <2>2, <2>3 DEF Members, Held, Exists
<1>3. LeaderOut' /\ Working' /\ Reading' /\ NoCrash'
  BY <1>1, LeaderIsThread DEF WatchInv, LeaderOut, LeaderStays, Alive, Working, Reading, NoCrash, Collecting,
         Injecting
<1>4. HeldStill'
  <2> SUFFICES ASSUME coll'.fatal = "none", NEW u \in coll'.held
               PROVE  Exists(u)' /\ (u \in AliveThreads' => Stopped(u)' \/ u = crashTid')
      BY DEF HeldStill
  <2>1. u \in Threads \cap {t} \/ u \in coll.held
    BY <1>1 DEF WatchInv, Members, Collecting, Leaving
  <2>2. Exists(u) /\ (u \in AliveThreads => Stopped(u) \/ u = crashTid)
    BY <1>1, <2>1 DEF WatchInv, Phases, HeldStill, Members, Collecting, Leaving
  <2>3. u \in AliveThreads' => u \in AliveThreads /\ u \in Threads
    BY <1>1 DEF AliveThreads, Alive
  <2> QED BY <1>1, <2>2, <2>3 DEF Exists, Stopped
<1> QED BY <1>1, <1>2, <1>3, <1>4, InCollection DEF WatchInv, Collecting

\* A thread that is gone is forgotten.
LEMMA WatchLost ==
  ASSUME TypeInv, WatchInv, pc \in Collecting, NEW t \in mtids, WaitExit(t) \/ UNCHANGED kernel,
         mtids' = mtids \ {t}, todo' = todo \ {t}, todo \subseteq mtids,
         UNCHANGED <<leaderExited, exitSig, coll, crashTid>>, pc' = "stop" \/ CollectFails
  PROVE  WatchInv'
<1>1. t \in Tids /\ mtids \subseteq Tids
  BY DEF TypeInv, ControlOK
<1>2. /\ Quiet' /\ FatalKills' /\ stop' = stop /\ child' = child /\ AliveThreads' = AliveThreads
      /\ \A u \in Tids : /\ Exists(u) => Exists(u)'
                         /\ Held(u) => Held(u)'
                         /\ Alive(u)' => Alive(u)
  <2>1. CASE WaitExit(t)
    BY <1>1, <2>1, QuietWaitExit DEF TypeInv, WatchInv, Exists, Held, Alive, KernelOK
  <2>2. CASE UNCHANGED kernel
    BY <2>2, QuietOther DEF TypeInv, WatchInv, Exists, Held, Alive, AliveThreads, kernel
  <2> QED BY <2>1, <2>2
<1>3. Members'
  <2>1. \A u \in Tids : stop[u] = "clone" => child[u] \in Tids
    BY DEF TypeInv, KernelOK
  <2> QED BY <1>1, <1>2, <2>1 DEF WatchInv, Members, Collecting, Leaving, Held
<1>4. pc' \in {"stop", "kill", "restore"}
  BY DEF CollectFails, Goto
<1>5. LeaderOut'
  BY <1>2, <1>4, LeaderIsThread DEF WatchInv, LeaderOut, LeaderStays, Injecting
<1>6. Phases' /\ Working' /\ Reading' /\ NoCrash'
  <2>1. CASE CollectFails
    BY <2>1, FailsElsewhere
  <2>2. CASE pc' = "stop"
    <3>1. HeldStill'
      <4>1. coll.held \subseteq Tids
        BY DEF TypeInv, ControlOK, Collections
      <4> QED BY <1>2, <4>1 DEF WatchInv, Phases, HeldStill, Stopped
    <3>2. Phases'
      BY <2>2, <3>1, InCollection DEF Collecting
    <3> QED BY <2>2, <3>2 DEF WatchInv, Working, Reading, NoCrash, Collecting, Injecting
  <2> QED BY <2>1, <2>2
<1> QED BY <1>2, <1>3, <1>5, <1>6 DEF WatchInv

\* A thread that answers, or is taken for the crashed one, is counted as stopped.
LEMMA WatchCounted ==
  ASSUME TypeInv, WatchInv, pc \in Collecting, NEW t \in mtids, UNCHANGED kernel,
         coll' = [coll EXCEPT !.held = @ \cup {t}], Stopped(t) \/ t = crashTid,
         pc' = "stop", todo' = todo \ {t}, todo \subseteq mtids,
         UNCHANGED <<leaderExited, exitSig, mtids, crashTid>>
  PROVE  WatchInv'
<1>1. /\ Quiet' /\ FatalKills' /\ UNCHANGED <<task, stop, fresh, child, traced>>
  BY QuietOther DEF TypeInv, WatchInv, kernel
<1>2. coll'.held = coll.held \cup {t} /\ coll'.fatal = coll.fatal /\ coll'.caller = coll.caller
  BY DEF TypeInv, ControlOK, Collections
<1>3. Members' /\ LeaderOut' /\ Working' /\ Reading' /\ NoCrash'
  BY <1>1, <1>2 DEF WatchInv, Members, LeaderOut, LeaderStays, Held, Exists, Alive, Working, Reading, NoCrash,
         Collecting, Injecting, Leaving
<1>4. HeldStill'
  BY <1>1, <1>2 DEF WatchInv, Phases, HeldStill, Members, Collecting, Leaving, Exists, AliveThreads, Alive,
         Stopped
<1> QED BY <1>1, <1>3, <1>4, InCollection DEF WatchInv, Collecting

\* Nothing is known yet of a thread that is waited for.
LEMMA WatchAwaited ==
  ASSUME TypeInv, WatchInv, pc \in Collecting, UNCHANGED kernel \/ \E t \in Tids : Interrupt(t),
         tid' \in todo, todo \subseteq mtids, pc' \in {"regs", "stopWait"} \/ CollectFails,
         UNCHANGED <<todo, leaderExited, exitSig, coll, mtids, crashTid>>
  PROVE  WatchInv'
<1>1. /\ Quiet' /\ FatalKills' /\ UNCHANGED <<task, stop, fresh, child>> /\ traced \subseteq traced'
  BY QuietOther DEF TypeInv, WatchInv, kernel
<1>2. Members'
  BY <1>1 DEF WatchInv, Members, Held, Exists, Collecting, Leaving
<1>3. pc' \in {"regs", "stopWait", "kill", "restore"}
  BY DEF CollectFails, Goto
<1>4. LeaderOut'
  BY <1>1, <1>3 DEF WatchInv, LeaderOut, LeaderStays, Alive, Injecting
<1>5. Phases' /\ Working' /\ Reading' /\ NoCrash'
  <2>1. CASE CollectFails
    BY <2>1, FailsElsewhere
  <2>2. CASE pc' \in {"regs", "stopWait"}
    <3>1. HeldStill'
      BY <1>1, <2>2 DEF WatchInv, Phases, HeldStill, Exists, AliveThreads, Alive, Stopped, Collecting
    <3>2. Phases'
      BY <2>2, <3>1, InCollection DEF Collecting
    <3> QED BY <2>2, <3>2 DEF WatchInv, Working, Reading, NoCrash, Collecting, Injecting
  <2> QED BY <2>1, <2>2
<1> QED BY <1>1, <1>2, <1>4, <1>5 DEF WatchInv

LEMMA WatchCollectPoll == TypeInv /\ WatchInv /\ CollectPoll => WatchInv'
<1> SUFFICES ASSUME TypeInv, WatchInv, CollectPoll PROVE WatchInv'
    OBVIOUS
<1> DEFINE t == LeastOf(todo)
<1>1. /\ t \in todo /\ t \in mtids /\ todo \subseteq mtids /\ pc = "stop" /\ pc \in Collecting /\ tid' = t
      /\ UNCHANGED <<leaderExited, exitSig>>
  BY LeastIsMember DEF TypeInv, ControlOK, CollectPoll, WatchInv, Working, Collecting
<1>2. CASE /\ t = crashTid /\ todo' = todo \ {t} /\ coll' = [coll EXCEPT !.held = @ \cup {t}]
           /\ UNCHANGED <<kernel, pc, mtids, crashTid, rc>>
  <2> HIDE DEF t
  <2> QED BY <1>1, <1>2, WatchCounted
<1>3. CASE t \in fresh /\ RecordStop(t) /\ todo' = todo \ {t} /\ UNCHANGED <<pc, rc>>
  <2> HIDE DEF t
  <2> QED BY <1>1, <1>3, WatchRecorded
<1>4. CASE /\ WaitExit(t) /\ mtids' = mtids \ {t} /\ todo' = todo \ {t} /\ UNCHANGED <<crashTid, coll>>
           /\ IF t = Leader THEN CollectFails ELSE UNCHANGED <<pc, rc>>
  <2> HIDE DEF t
  <2> QED BY <1>1, <1>4, WatchLost
<1>5. CASE Goto("regs") /\ UNCHANGED <<kernel, todo, mtids, crashTid, coll, rc>>
  <2> HIDE DEF t
  <2> QED BY <1>1, <1>5, WatchAwaited DEF Goto
<1> QED BY <1>2, <1>3, <1>4, <1>5 DEF CollectPoll

LEMMA WatchCollectRegs == TypeInv /\ WatchInv /\ CollectRegs => WatchInv'
<1> SUFFICES ASSUME TypeInv, WatchInv, CollectRegs PROVE WatchInv'
    OBVIOUS
<1>1. /\ tid \in todo /\ tid \in mtids /\ tid \in Tids /\ todo \subseteq mtids /\ pc \in Collecting
      /\ UNCHANGED <<tid, leaderExited, exitSig, crashTid>>
  BY DEF TypeInv, ControlOK, CollectRegs, WatchInv, Working, Collecting, crash
<1>2. CASE /\ Answers(tid) /\ Goto("stop") /\ todo' = todo \ {tid}
           /\ coll' = [coll EXCEPT !.held = @ \cup {tid}] /\ UNCHANGED <<kernel, mtids, rc>>
  BY <1>1, <1>2, WatchCounted DEF Answers, Goto
<1>3. CASE Interrupt(tid) /\ Goto("stopWait") /\ UNCHANGED <<todo, mtids, coll, rc>>
  BY <1>1, <1>3, WatchAwaited DEF Goto
<1>4. CASE UNCHANGED <<kernel, coll>> /\ mtids' = mtids \ {tid} /\ todo' = todo \ {tid} /\ Goto("stop")
  BY <1>1, <1>4, WatchLost DEF Goto
<1>5. CASE UNCHANGED <<kernel, coll>> /\ CollectFails /\ UNCHANGED <<todo, mtids>>
  BY <1>1, <1>5, WatchAwaited
<1> QED BY <1>2, <1>3, <1>4, <1>5 DEF CollectRegs

LEMMA WatchCollectWait == TypeInv /\ WatchInv /\ CollectWait => WatchInv'
<1> SUFFICES ASSUME TypeInv, WatchInv, CollectWait PROVE WatchInv'
    OBVIOUS
<1>1. /\ tid \in todo /\ tid \in mtids /\ tid \in Tids /\ todo \subseteq mtids /\ pc \in Collecting
      /\ UNCHANGED <<tid, leaderExited, exitSig>>
  BY DEF TypeInv, ControlOK, CollectWait, WatchInv, Working, Collecting
<1>2. CASE tid \in fresh /\ RecordStop(tid) /\ Goto("stop") /\ todo' = todo \ {tid}
  BY <1>1, <1>2, WatchRecorded DEF Goto
<1>3. CASE /\ WaitExit(tid) \/ UNCHANGED kernel
           /\ Goto("stop") /\ todo' = todo \ {tid} /\ mtids' = mtids \ {tid} /\ UNCHANGED <<crashTid, coll>>
  BY <1>1, <1>3, WatchLost DEF Goto
<1>4. CASE CollectFails /\ UNCHANGED <<kernel, todo, mtids, crashTid, coll>>
  BY <1>1, <1>4, WatchAwaited
<1> QED BY <1>2, <1>3, <1>4 DEF CollectWait

LEMMA WatchCollectConfirm == TypeInv /\ Accused /\ WatchInv /\ CollectConfirm => WatchInv'
<1> SUFFICES ASSUME TypeInv, Accused, WatchInv, CollectConfirm PROVE WatchInv'
    OBVIOUS
<1>1. /\ Quiet' /\ FatalKills' /\ UNCHANGED <<task, stop, fresh, child, traced>>
  BY QuietOther DEF TypeInv, WatchInv, CollectConfirm, kernel
<1>2. /\ pc = "stop" /\ pc' \in {"kill", "restore", "list", "abandon", "preserve", "core", "meta"}
      /\ UNCHANGED <<leaderExited, exitSig, crashTid>> /\ mtids' \subseteq mtids /\ coll \in Collections
  BY DEF CollectConfirm, CollectFails, Goto, crash, TypeInv, ControlOK
<1>3. Members'
  BY <1>1, <1>2 DEF WatchInv, Members, Leaving, Held, Exists
<1>4. LeaderOut'
  <2>1. pc' = "preserve" => todo' = Workers
    BY <1>2 DEF CollectConfirm, CollectFails, Goto
  <2> QED BY <1>1, <1>2, <2>1 DEF WatchInv, LeaderOut, LeaderStays, Alive, Injecting, Workers
<1>5. NoCrash'
  <2>1. pc' \in {"abandon", "preserve", "meta", "restore"} => coll.caller # "crash"
    <3>1. pc' \in {"abandon", "meta", "restore"} => coll.caller # "crash"
      BY <1>2 DEF CollectConfirm, CollectFails, Goto
    <3>2. pc' = "preserve" => crashTid = 0
      BY <1>2 DEF CollectConfirm, CollectFails, Goto
    <3> QED BY <1>2, <3>1, <3>2 DEF Accused, WatchInv, NoCrash, Collecting
  <2>2. pc' = "list" => coll'.caller = coll.caller
    BY <1>2 DEF CollectConfirm, CollectFails, Goto, Collections
  <2> QED BY <1>2, <2>1, <2>2 DEF WatchInv, NoCrash, Collecting, Injecting
<1>6. Working' /\ Reading'
  BY <1>2 DEF Working, Reading
<1>7. Phases'
  <2>1. CASE pc' \in {"kill", "restore", "abandon", "preserve"}
    BY <2>1, Elsewhere DEF Collecting, Copying, Injecting, Releasing
  <2>2. CASE pc' = "list"
    <3>1. coll' = [coll EXCEPT !.rounds = @ + 1]
      BY <2>2 DEF CollectConfirm, CollectFails, Goto
    <3>2. coll'.held = coll.held /\ coll'.fatal = coll.fatal
      BY <1>2, <3>1 DEF Collections
    <3>3. HeldStill'
      BY <1>1, <1>2, <3>2 DEF WatchInv, Phases, HeldStill, Collecting, Exists, AliveThreads, Alive, Stopped
    <3> QED BY <2>2, <3>3, InCollection DEF Collecting
  <2>3. CASE pc' \in {"core", "meta"}
    <3>1. /\ Workers \subseteq coll.held \cap mtids /\ coll.fatal = "none" /\ coll' = [coll EXCEPT !.tids = Workers]
          /\ mtids' = mtids \cap (Workers \cup (IF leaderExited THEN {Leader} ELSE {}))
      BY <2>3 DEF CollectConfirm, CollectFails, Goto
    <3>2. coll'.tids = Workers
      BY <1>2, <3>1 DEF Collections
    <3>3. ASSUME NEW t \in AliveThreads
          PROVE  t \in traced /\ (t \in Workers \/ (t = Leader /\ leaderExited))
                 /\ (Stopped(t) \/ (t = crashTid /\ t \in Workers))
      <4>1. t \in Listed /\ t \in Tids /\ Alive(t)
        BY LeaderIsThread DEF AliveThreads, Alive, Listed
      <4>2. CASE t \in Workers
        BY <1>2, <3>1, <3>3, <4>1, <4>2
           DEF WatchInv, Phases, HeldStill, Collecting, Members, Leaving, Held, Alive
      <4>3. CASE t \notin Workers
        BY <4>1, <4>3 DEF Workers, WatchInv, LeaderOut, LeaderStays, TypeInv, KernelOK, Stopped
      <4> QED BY <4>2, <4>3
    <3>4. Confirmed'
      BY <1>1, <1>2, <3>2, <3>3 DEF Confirmed, Standing, AliveThreads, Alive, Stopped
    <3>5. Gathered'
      BY <1>2, <3>1, <3>2 DEF Gathered
    <3>6. NewChild' /\ HeldStill' /\ Still' /\ Published'
      BY <2>3 DEF NewChild, HeldStill, Still, Published, Copying, Collecting, Releasing
    <3> QED BY <3>4, <3>5, <3>6 DEF Phases
  <2> QED BY <1>2, <2>1, <2>2, <2>3
<1> QED BY <1>1, <1>3, <1>4, <1>5, <1>6, <1>7 DEF WatchInv

-----------------------------------------------------------------------------
(* forkcore_m                                                              *)

\* A call that takes no thread from Arthur, and a step to a place with no more
\* to promise than where it comes from.
LEMMA WatchPlain ==
  ASSUME TypeInv, WatchInv, Quiet', FatalKills', pc \notin Leaving, NEW ts, Kept(ts), traced \subseteq traced',
         LeaderStays', mtids' \subseteq mtids, pc' \in Injecting => ~leaderExited',
         pc' \notin {"seizeEach", "poll", "handle", "stop", "regs", "stopWait", "preserve", "settle"},
         NoCrash', Phases'
  PROVE  WatchInv'
<1>1. Members'
  BY MembersKept DEF TypeInv, ControlOK, WatchInv
<1>2. Working' /\ LeaderOut' /\ Reading'
  BY DEF Working, LeaderOut, Reading
<1> QED BY <1>1, <1>2 DEF WatchInv

\* Nothing of the threads changes, and Arthur goes back to its loop.
LEMMA Home ==
  ASSUME TypeInv, WatchInv, Quiet', FatalKills', pc \notin Leaving, exitSig = "none", NEW ts, Kept(ts),
         traced \subseteq traced', UNCHANGED <<mtids, leaderExited, exitSig>>,
         pc' \in {"drain", "detach", "restore", "collect"}
  PROVE  WatchInv'
<1>1. LeaderStays'
  BY LeaderKept DEF WatchInv, LeaderOut
<1>2. Phases'
  BY Elsewhere DEF Collecting, Copying, Injecting, Releasing
<1>3. NoCrash'
  BY DEF NoCrash, Injecting, Collecting
<1> QED BY <1>1, <1>2, <1>3, WatchPlain DEF Injecting

LEMMA Returned ==
  ASSUME NEW v, ForkcoreReturns(v)
  PROVE  pc' \in {"drain", "detach"}
  BY DEF ForkcoreReturns, Quit, Goto

LEMMA WatchDumpStart == TypeInv /\ WatchInv /\ (DumpStart \/ Abandon) => WatchInv'
<1> SUFFICES ASSUME TypeInv, WatchInv, DumpStart \/ Abandon PROVE WatchInv'
    OBVIOUS
<1>1. /\ pc \in {"dump", "abandon"} /\ UNCHANGED <<mtids, leaderExited, exitSig>>
      /\ pc' \in {"drain", "detach", "collect"}
  BY Returned DEF DumpStart, Abandon, thr, crash, Goto
<1>2. UNCHANGED kernel \/ \E t \in Tids : Interrupt(t)
  BY DEF DumpStart, Abandon, Interrupt, TypeInv, KernelOK
<1>3. /\ Quiet' /\ FatalKills' /\ UNCHANGED <<task, stop, fresh, child>> /\ traced \subseteq traced'
  BY <1>2, QuietOther DEF TypeInv, WatchInv
<1>4. Kept({})
  BY <1>3, KeptUnchanged
<1>5. exitSig = "none" /\ pc \notin Leaving
  BY <1>1 DEF WatchInv, NoCrash, Leaving
<1> QED BY <1>1, <1>3, <1>4, <1>5, Home

LEMMA WatchPreserve == TypeInv /\ WatchInv /\ Preserve => WatchInv'
<1> SUFFICES ASSUME TypeInv, WatchInv, Preserve PROVE WatchInv'
    OBVIOUS
<1>1. /\ pc = "preserve" /\ UNCHANGED <<mtids, leaderExited, exitSig>> /\ exitSig = "none" /\ pc \notin Leaving
  BY DEF Preserve, thr, crash, WatchInv, NoCrash, Leaving
<1>2. CASE todo = {}
  <2>1. UNCHANGED kernel /\ pc' \in {"drain", "detach"}
    BY <1>2, Returned DEF Preserve
  <2>2. /\ Quiet' /\ FatalKills' /\ traced \subseteq traced' /\ Kept({})
    BY <2>1, QuietOther, KeptUnchanged DEF TypeInv, WatchInv
  <2> QED BY <1>1, <2>1, <2>2, Home
<1>3. CASE todo # {}
  <2> DEFINE t == LeastOf(todo)
  <2>1. t \in todo /\ t \in Tids /\ todo' = todo \ {t} /\ pc' = "preserve"
    BY <1>1, <1>3, LeastIsMember DEF TypeInv, ControlOK, Preserve
  <2>2. \/ Continue(Just(t, coll.relay[t]), FALSE)
        \/ Listen(t)
        \/ UNCHANGED kernel
    BY <1>3 DEF Preserve
  <2> HIDE DEF t
  <2>3. /\ Quiet' /\ FatalKills' /\ traced' = traced /\ child' = child
        /\ \A u \in Tids : /\ Exists(u) => Exists(u)'
                           /\ Held(u) => Held(u)'
                           /\ Alive(u)' => Alive(u)
                           /\ stop'[u] = "clone" => stop[u] = "clone"
    <3>1. CASE Continue(Just(t, coll.relay[t]), FALSE)
      <4>1. DOMAIN Just(t, coll.relay[t]) \subseteq Tids
        BY <2>1 DEF Just
      <4> QED BY <3>1, <4>1, QuietContinue DEF TypeInv, WatchInv, Kept, Held
    <3>2. CASE Listen(t)
      BY <2>1, <3>2, QuietListen DEF TypeInv, WatchInv, KernelOK, Exists, Held, Alive
    <3>3. CASE UNCHANGED kernel
      BY <3>3, QuietOther DEF TypeInv, WatchInv, Exists, Held, Alive, kernel
    <3> QED BY <2>2, <3>1, <3>2, <3>3
  <2>4. Members'
    <3>1. \A u \in Tids : stop[u] = "clone" => child[u] \in Tids
      BY DEF TypeInv, KernelOK
    <3>2. mtids \subseteq Tids
      BY DEF TypeInv, ControlOK
    <3> QED BY <1>1, <2>1, <2>3, <3>1, <3>2 DEF WatchInv, Members, Held
  <2>5. LeaderOut'
    BY <1>1, <2>1, <2>3, LeaderIsThread DEF WatchInv, LeaderOut, LeaderStays, Injecting
  <2>6. Working' /\ Reading' /\ NoCrash'
    BY <1>1, <2>1 DEF Working, Reading, NoCrash, Collecting, Injecting
  <2> QED BY <2>1, <2>3, <2>4, <2>5, <2>6, Elsewhere DEF WatchInv, Collecting, Copying, Injecting, Releasing
<1> QED BY <1>2, <1>3

LEMMA WatchRestore == TypeInv /\ WatchInv /\ Restore => WatchInv'
<1> SUFFICES ASSUME TypeInv, WatchInv, Restore PROVE WatchInv'
    OBVIOUS
<1>1. /\ pc = "restore" /\ UNCHANGED <<mtids, leaderExited, exitSig>> /\ exitSig = "none" /\ pc \notin Leaving
      /\ pc' \in {"drain", "detach"} /\ mtids \subseteq Tids
  BY Returned DEF Restore, thr, crash, WatchInv, NoCrash, Leaving, TypeInv, ControlOK
<1>2. \E ts : Quiet' /\ FatalKills' /\ traced' = traced /\ Kept(ts)
  BY <1>1, QuietContinue DEF Restore, TypeInv, WatchInv
<1> QED BY <1>1, <1>2, Home

LEMMA WatchMeta == TypeInv /\ WatchInv /\ Meta => WatchInv'
<1> SUFFICES ASSUME TypeInv, WatchInv, Meta PROVE WatchInv'
    OBVIOUS
<1>1. /\ pc = "meta" /\ UNCHANGED <<kernel, mtids, leaderExited, exitSig, coll, crashTid>> /\ exitSig = "none"
      /\ pc \notin Leaving /\ pc' \in {"loads", "inject", "restore"}
      /\ pc' = "inject" => ~leaderExited
      /\ pc' \in {"loads", "inject"} => \A t \in coll.tids : Stopped(t)
  BY DEF Meta, Goto, Answers, thr, crash, WatchInv, NoCrash, Leaving
<1>2. /\ Quiet' /\ FatalKills' /\ traced' = traced /\ Kept({})
      /\ UNCHANGED <<task, stop, fresh, child>>
  BY <1>1, QuietOther, KeptUnchanged DEF TypeInv, WatchInv, kernel
<1>3. CASE pc' = "restore"
  BY <1>1, <1>2, <1>3, Home
<1>4. CASE pc' \in {"loads", "inject"}
  <2>1. LeaderStays' /\ NoCrash'
    BY <1>1, <1>2, LeaderKept DEF WatchInv, LeaderOut, NoCrash, Collecting
  <2>2. Still'
    BY <1>1, <1>2, <1>4 DEF WatchInv, Phases, Confirmed, Still, Standing, Cloned, AliveThreads, Alive, Stopped
  <2>3. Gathered'
    BY <1>1 DEF WatchInv, Phases, Gathered
  <2>4. Phases'
    BY <1>4, <2>2, <2>3 DEF Phases, NewChild, HeldStill, Confirmed, Published, Collecting, Releasing
  <2> QED BY <1>1, <1>2, <1>4, <2>1, <2>4, WatchPlain DEF Injecting
<1> QED BY <1>1, <1>3, <1>4

\* Letting go all threads collected lets go every thread that lives.
LEMMA AllReleased ==
  ASSUME TypeInv, WatchInv, pc \in {"loads", "resume"}, exitSig = "none", mtids' = mtids,
         NEW f, DOMAIN f = coll.tids, Continue(f, FALSE)
  PROVE  /\ Quiet' /\ FatalKills' /\ traced' = traced /\ \E ts : Kept(ts)
         /\ \A t \in mtids' : ~(Alive(t)' /\ Stopped(t)')
         /\ pc = "resume" /\ ~leaderExited => stop'[Leader] # "clone"
<1>1. coll.tids \subseteq Tids /\ mtids \subseteq Tids
  BY DEF TypeInv, ControlOK, Collections
<1>2. Quiet' /\ FatalKills' /\ Kept({t \in coll.tids : Stopped(t)}) /\ traced' = traced
  BY <1>1, QuietContinue DEF TypeInv, WatchInv
<1>3. \A t \in Tids : (Alive(t)' => Alive(t)) /\ stop'[t] \in {stop[t], "none"}
                      /\ (t \in coll.tids => stop'[t] = "none")
  BY <1>2 DEF Kept, Stopped
<1>4. mtids \subseteq coll.tids \cup {t \in {Leader} : leaderExited}
  BY DEF WatchInv, Phases, Gathered
<1>5. leaderExited => ~Alive(Leader)
  BY DEF WatchInv, LeaderOut, LeaderStays
<1>6. ASSUME pc = "resume", ~leaderExited, stop'[Leader] = "clone" PROVE FALSE
  <2>1. stop[Leader] = "clone" /\ Leader \notin coll.tids
    BY <1>3, <1>6, LeaderIsThread
  <2>2. Leader \in AliveThreads
    BY <2>1, LeaderIsThread DEF TypeInv, KernelOK, WatchInv, Quiet, Stopped, AliveThreads, Alive
  <2>3. Cloned(crashTid, Leader)
    BY <1>6, <2>1, <2>2 DEF WatchInv, Phases, Still, Standing, Copying
  <2> QED BY <2>3 DEF Cloned, WatchInv, Quiet
<1>7. ASSUME NEW t \in mtids, Alive(t)' PROVE ~Stopped(t)'
  <2>1. t \in Tids /\ (t \in coll.tids \/ (t = Leader /\ leaderExited))
    BY <1>1, <1>4
  <2> QED BY <1>3, <1>5, <1>7, <2>1 DEF Stopped
<1> QED BY <1>2, <1>6, <1>7

LEMMA WatchLoads == TypeInv /\ WatchInv /\ Loads => WatchInv'
<1> SUFFICES ASSUME TypeInv, WatchInv, Loads PROVE WatchInv'
    OBVIOUS
<1>1. /\ pc = "loads" /\ UNCHANGED <<mtids, leaderExited, exitSig>> /\ exitSig = "none" /\ pc \notin Leaving
  BY DEF Loads, thr, crash, WatchInv, NoCrash, Leaving
<1>2. CASE Goto("commit") /\ Continue([t \in coll.tids |-> coll.relay[t]], FALSE)
  <2>1. /\ Quiet' /\ FatalKills' /\ traced' = traced /\ \E ts : Kept(ts)
        /\ \A t \in mtids' : ~(Alive(t)' /\ Stopped(t)')
    BY <1>1, <1>2, AllReleased
  <2>2. PICK ts : Kept(ts)
    BY <2>1
  <2>3. LeaderStays' /\ NoCrash'
    BY <1>1, <1>2, <2>2, LeaderKept DEF WatchInv, LeaderOut, NoCrash, Collecting, Goto
  <2>4. Published'
    BY <2>1 DEF Published
  <2>5. Phases'
    BY <1>2, <2>4 DEF Goto, Phases, NewChild, HeldStill, Confirmed, Still, Gathered, Collecting, Copying
  <2> QED BY <1>1, <1>2, <2>1, <2>2, <2>3, <2>5, WatchPlain DEF Goto, Injecting
<1>3. CASE Goto("restore") /\ UNCHANGED kernel
  <2>1. Quiet' /\ FatalKills' /\ traced \subseteq traced' /\ Kept({})
    BY <1>3, QuietOther, KeptUnchanged DEF TypeInv, WatchInv
  <2> QED BY <1>1, <1>3, <2>1, Home DEF Goto
<1> QED BY <1>2, <1>3 DEF Loads

LEMMA WatchResumeAll == TypeInv /\ WatchInv /\ ResumeAll => WatchInv'
<1> SUFFICES ASSUME TypeInv, WatchInv, ResumeAll PROVE WatchInv'
    OBVIOUS
<1>1. /\ pc = "resume" /\ UNCHANGED <<mtids, leaderExited, exitSig>> /\ exitSig = "none" /\ pc \notin Leaving
      /\ pc' = "child" /\ ~leaderExited
  BY DEF ResumeAll, thr, crash, WatchInv, NoCrash, Leaving, LeaderOut, Injecting, Goto
<1>2. /\ Quiet' /\ FatalKills' /\ traced' = traced /\ \E ts : Kept(ts)
      /\ \A t \in mtids' : ~(Alive(t)' /\ Stopped(t)')
      /\ stop'[Leader] # "clone"
  BY <1>1, AllReleased DEF ResumeAll
<1>3. PICK ts : Kept(ts)
  BY <1>2
<1>4. LeaderStays' /\ NoCrash'
  BY <1>1 DEF LeaderStays, NoCrash, Collecting, Injecting
<1>5. Published' /\ NewChild'
  BY <1>2 DEF Published, NewChild
<1>6. Phases'
  BY <1>1, <1>5 DEF Phases, HeldStill, Confirmed, Still, Gathered, Collecting, Copying
<1> QED BY <1>1, <1>2, <1>3, <1>4, <1>6, WatchPlain

\* An injected call leaves the leader stopped, by the call's end or by a signal.
LEMMA Injected ==
  ASSUME TypeInv, WatchInv, pc \in Injecting, NEW sig \in Signals \cup {"none"}, RunInjected(sig),
         UNCHANGED <<mtids, leaderExited>>
  PROVE  /\ Quiet' /\ FatalKills' /\ UNCHANGED <<task, child, traced>> /\ Stopped(Leader)'
         /\ \A t \in Tids : (Stopped(t) => Stopped(t)') /\ (t # Leader => stop'[t] = stop[t])
         /\ stop'[Leader] = (IF sig = "none" THEN "intr" ELSE sig) /\ stop'[Leader] \notin {"clone", "none"}
         /\ fresh' = fresh \ {Leader}
         /\ LeaderStays' /\ Members'
<1>1. /\ Quiet' /\ FatalKills' /\ UNCHANGED <<task, child, traced>>
      /\ stop' = [stop EXCEPT ![Leader] = IF sig = "none" THEN "intr" ELSE sig]
      /\ fresh' = fresh \ {Leader}
  BY QuietRunInjected DEF TypeInv, WatchInv
<1>2. stop'[Leader] = (IF sig = "none" THEN "intr" ELSE sig) /\ stop'[Leader] \notin {"clone", "none"}
      /\ \A t \in Tids : t # Leader => stop'[t] = stop[t]
  BY <1>1, LeaderIsThread, SignalFacts DEF TypeInv, KernelOK
<1>3. ~leaderExited /\ pc \notin Leaving
  BY DEF WatchInv, LeaderOut, Injecting, Leaving
<1>4. Members'
  BY <1>1, <1>2, <1>3 DEF WatchInv, Members, Held, Exists
<1> QED BY <1>1, <1>2, <1>3, <1>4 DEF LeaderStays, Stopped

LEMMA WatchInject == TypeInv /\ WatchInv /\ Inject => WatchInv'
<1> SUFFICES ASSUME TypeInv, WatchInv, Inject PROVE WatchInv'
    OBVIOUS
<1>1. /\ pc = "inject" /\ UNCHANGED <<mtids, leaderExited, exitSig>> /\ exitSig = "none"
      /\ ~leaderExited /\ pc \in Injecting
      /\ \/ pc' = "resume" /\ coll' = coll /\ crashTid' = crashTid
         \/ pc' \in {"restore", "drain", "detach"}
  BY Returned DEF Inject, thr, WatchInv, NoCrash, LeaderOut, Injecting, Goto
<1>2. \E sig \in Signals \cup {"none"} : RunInjected(sig)
  BY DEF Inject, PendingFor
<1>3. PICK sig \in Signals \cup {"none"} : RunInjected(sig)
  BY <1>2
<1>4. /\ Quiet' /\ FatalKills' /\ UNCHANGED <<task, child, traced>> /\ Stopped(Leader)'
      /\ \A t \in Tids : Stopped(t) => Stopped(t)'
  BY <1>1, <1>3, Injected
<1>5. Members'
  BY <1>1, <1>3, Injected
<1>6. Working' /\ LeaderOut' /\ Reading' /\ NoCrash'
  BY <1>1 DEF Working, LeaderOut, LeaderStays, Reading, NoCrash, Collecting
<1>7. Phases'
  <2>1. CASE pc' = "resume"
    <3>1. Still'
      <4> SUFFICES ASSUME NEW t \in AliveThreads' PROVE Stopped(t)' /\ Standing(t)'
          BY DEF Still
      <4>1. t \in AliveThreads /\ t \in Tids
        BY <1>4, LeaderIsThread DEF AliveThreads, Alive
      <4>2. Stopped(t) /\ Standing(t)
        BY <1>1, <4>1 DEF WatchInv, Phases, Still, Copying
      <4>3. crashTid \in Tids /\ Stopped(crashTid) => stop'[crashTid] # "none"
        BY <1>4 DEF Stopped
      <4>4. coll' = coll /\ crashTid' = crashTid /\ child' = child /\ ~leaderExited'
        BY <1>1, <1>4, <2>1
      <4> QED BY <1>1, <1>4, <4>1, <4>2, <4>3, <4>4 DEF Standing, Cloned, Stopped
    <3>2. Gathered'
      BY <1>1, <2>1 DEF WatchInv, Phases, Gathered
    <3> QED BY <2>1, <3>1, <3>2
            DEF Phases, NewChild, HeldStill, Confirmed, Published, Collecting, Releasing
  <2>2. CASE pc' \in {"restore", "drain", "detach"}
    BY <2>2, Elsewhere DEF Collecting, Copying, Injecting, Releasing
  <2> QED BY <1>1, <2>1, <2>2
<1> QED BY <1>4, <1>5, <1>6, <1>7 DEF WatchInv

\* The leader's exit status is read where no exit may have been noticed yet.
LEMMA WatchReaped ==
  ASSUME TypeInv, WatchInv, pc \notin Leaving, exitSig = "none", ~leaderExited, WaitExit(Leader),
         pc' \in {"drain", "detach", "restore"}, UNCHANGED <<mtids, leaderExited, exitSig>>
  PROVE  WatchInv'
<1>1. /\ Quiet' /\ FatalKills' /\ task' = [task EXCEPT ![Leader] = "gone"] /\ traced' = traced \ {Leader}
      /\ UNCHANGED <<stop, fresh, child>>
  BY QuietWaitExit, LeaderIsThread DEF TypeInv, WatchInv
<1>2. \A t \in Tids : (Exists(t) => Exists(t)') /\ (Held(t) => Held(t)')
  BY <1>1 DEF Exists, Held, TypeInv, KernelOK
<1>3. Members'
  <2>1. \A t \in Tids : stop[t] = "clone" => child[t] \in Tids
    BY DEF TypeInv, KernelOK
  <2>2. mtids \subseteq Tids
    BY DEF TypeInv, ControlOK
  <2> QED BY <1>1, <1>2, <2>1, <2>2 DEF WatchInv, Members, Held
<1>4. Working' /\ LeaderOut' /\ Reading' /\ NoCrash'
  BY <1>1 DEF Working, LeaderOut, LeaderStays, Reading, NoCrash, Injecting, Collecting
<1> QED BY <1>1, <1>3, <1>4, Elsewhere DEF WatchInv, Collecting, Copying, Injecting, Releasing

LEMMA WatchInjectInVain == TypeInv /\ WatchInv /\ (InjectInVain \/ InjectDeath) => WatchInv'
<1> SUFFICES ASSUME TypeInv, WatchInv, InjectInVain \/ InjectDeath PROVE WatchInv'
    OBVIOUS
<1>1. /\ pc = "inject" /\ UNCHANGED <<mtids, leaderExited, exitSig>> /\ exitSig = "none" /\ ~leaderExited
      /\ pc' \in {"restore", "drain", "detach"} /\ pc \notin Leaving
  BY Returned DEF InjectInVain, InjectDeath, thr, crash, WatchInv, NoCrash, LeaderOut, Injecting, Goto, Leaving
<1>2. CASE WaitExit(Leader)
  BY <1>1, <1>2, WatchReaped
<1>3. CASE ~WaitExit(Leader)
  <2>1. \E ts : Quiet' /\ FatalKills' /\ traced \subseteq traced' /\ Kept(ts)
    <3>1. CASE UNCHANGED kernel
      BY <3>1, QuietOther, KeptUnchanged DEF TypeInv, WatchInv
    <3>2. CASE Continue(Just(Leader, "none"), FALSE)
      <4>1. DOMAIN Just(Leader, "none") \subseteq Tids
        BY LeaderIsThread DEF Just
      <4> QED BY <3>2, <4>1, QuietContinue DEF TypeInv, WatchInv
    <3> QED BY <1>3, <3>1, <3>2 DEF InjectInVain, InjectDeath, kernel
  <2> QED BY <1>1, <2>1, Home
<1> QED BY <1>2, <1>3

\* While the child is written the target runs, watched by the kernel alone.
LEMMA WatchDumpChild == TypeInv /\ WatchInv /\ (DumpChild \/ Late) => WatchInv'
<1> SUFFICES ASSUME TypeInv, WatchInv, DumpChild \/ Late PROVE WatchInv'
    OBVIOUS
<1>1. /\ pc \in {"child", "late", "lateWait"}
      /\ pc \in Injecting /\ exitSig = "none" /\ ~leaderExited
      /\ UNCHANGED <<mtids, leaderExited, exitSig>>
      /\ \/ pc' \in {"late", "lateWait", "drain", "detach"}
         \/ pc = "child" /\ pc' = "finish"
  BY Returned DEF DumpChild, Late, thr, crash, Goto, WatchInv, NoCrash, LeaderOut, Injecting
<1>2. /\ Quiet' /\ FatalKills' /\ UNCHANGED <<task, stop, fresh, child>> /\ traced \subseteq traced'
  <2>1. UNCHANGED kernel \/ ChildDies \/ Interrupt(Leader)
    BY DEF DumpChild, Late
  <2> QED BY <2>1, QuietOther, LeaderIsThread DEF TypeInv, WatchInv
<1>3. Kept({}) /\ pc \notin Leaving
  BY <1>1, <1>2, KeptUnchanged DEF Injecting, Leaving
<1>4. CASE pc' \in {"drain", "detach"}
  BY <1>1, <1>2, <1>3, <1>4, Home
<1>5. CASE pc' \in {"late", "lateWait", "finish"}
  <2>1. LeaderStays' /\ NoCrash'
    BY <1>1, <1>5 DEF LeaderStays, NoCrash, Collecting
  <2>2. NewChild' /\ Published'
    BY <1>1, <1>2, <1>5 DEF WatchInv, Phases, NewChild, Published, Alive, Stopped, Releasing
  <2>3. Phases'
    BY <1>5, <2>2 DEF Phases, HeldStill, Confirmed, Still, Gathered, Collecting, Copying
  <2> QED BY <1>1, <1>2, <1>3, <1>5, <2>1, <2>3, WatchPlain
<1> QED BY <1>1, <1>4, <1>5

LEMMA WatchFinish == TypeInv /\ WatchInv /\ Finish => WatchInv'
<1> SUFFICES ASSUME TypeInv, WatchInv, Finish PROVE WatchInv'
    OBVIOUS
<1>1. /\ pc \in {"finish", "finishWait"} /\ UNCHANGED <<mtids, leaderExited, exitSig>>
      /\ exitSig = "none" /\ ~leaderExited /\ pc \notin Leaving
  BY DEF Finish, thr, crash, WatchInv, NoCrash, LeaderOut, Injecting, Leaving
<1>2. CASE /\ Leader \in fresh /\ WaitStop(Leader) /\ status' = stop[Leader] /\ Goto("settle")
  <2>1. Quiet' /\ FatalKills' /\ UNCHANGED <<task, traced, stop, child>> /\ fresh' = fresh \ {Leader}
    BY <1>2, QuietWaitStop, LeaderIsThread DEF TypeInv, WatchInv, WaitStop
  <2>2. Alive(Leader) /\ Stopped(Leader)
    BY <1>2, LeaderIsThread DEF TypeInv, KernelOK, WatchInv, Quiet, Alive
  <2>3. Members' /\ Working' /\ LeaderOut' /\ NoCrash'
    BY <1>1, <1>2, <2>1 DEF WatchInv, Members, Held, Exists, Leaving, Working, LeaderOut, LeaderStays, NoCrash,
                            Collecting, Goto
  <2>4. Reading'
    BY <1>2, <2>1, <2>2 DEF Reading, Read, Goto, Alive, Stopped
  <2>5. NewChild' /\ Published'
    BY <1>1, <1>2, <2>1 DEF WatchInv, Phases, NewChild, Published, Goto, Releasing, Alive, Stopped
  <2>6. Phases'
    BY <1>2, <2>5 DEF Phases, HeldStill, Confirmed, Still, Gathered, Collecting, Copying, Goto
  <2> QED BY <2>1, <2>3, <2>4, <2>6 DEF WatchInv
<1>3. CASE Interrupt(Leader) /\ Goto("finishWait")
  <2>1. /\ Quiet' /\ FatalKills' /\ UNCHANGED <<task, stop, fresh, child>> /\ traced \subseteq traced'
    BY <1>3, QuietOther, LeaderIsThread DEF TypeInv, WatchInv
  <2>2. Kept({}) /\ LeaderStays' /\ NoCrash'
    BY <1>1, <1>3, <2>1, KeptUnchanged DEF LeaderStays, NoCrash, Collecting, Goto
  <2>3. NewChild' /\ Published'
    BY <1>1, <1>3, <2>1 DEF WatchInv, Phases, NewChild, Published, Goto, Releasing, Alive, Stopped
  <2>4. Phases'
    BY <1>3, <2>3 DEF Phases, HeldStill, Confirmed, Still, Gathered, Collecting, Copying, Goto
  <2> QED BY <1>1, <1>3, <2>1, <2>2, <2>4, WatchPlain DEF Goto
<1>4. CASE pc' \in {"drain", "detach"} /\ (WaitExit(Leader) \/ UNCHANGED kernel)
  <2>1. CASE WaitExit(Leader)
    BY <1>1, <1>4, <2>1, WatchReaped
  <2>2. CASE UNCHANGED kernel
    <3>1. Quiet' /\ FatalKills' /\ traced \subseteq traced' /\ Kept({})
      BY <2>2, QuietOther, KeptUnchanged DEF TypeInv, WatchInv
    <3> QED BY <1>1, <1>4, <3>1, Home
  <2> QED BY <1>4, <2>1, <2>2
<1> QED BY <1>2, <1>3, <1>4, Returned DEF Finish

\* The leader is given back to itself when its stop is settled.
LEMMA WatchSettled ==
  ASSUME TypeInv, WatchInv, pc = "settle", pc' = "commit", Alive(Leader), Quiet', FatalKills',
         UNCHANGED <<mtids, leaderExited, exitSig>>, Members',
         \A t \in mtids \ {Leader} :
            Alive(t)' => Alive(t) /\ (t \in fresh => t \in fresh') /\ stop'[t] \in {stop[t], "none"},
         ~Stopped(Leader)' \/ shot'.result \in Fatal
  PROVE  WatchInv'
<1>1. ~leaderExited /\ exitSig = "none" /\ mtids \subseteq Tids
  BY DEF WatchInv, LeaderOut, NoCrash, Injecting, TypeInv, ControlOK
<1>2. Working' /\ LeaderOut' /\ Reading' /\ NoCrash'
  BY <1>1 DEF Working, LeaderOut, LeaderStays, Reading, NoCrash, Injecting, Collecting
<1>3. Published'
  <2> SUFFICES ASSUME NEW t \in mtids, Alive(t)', Stopped(t)'
               PROVE  t \in fresh' \/ (t = Leader /\ shot'.result \in Fatal)
      BY DEF Published
  <2>1. CASE t = Leader
    BY <2>1
  <2>2. CASE t # Leader
    BY <1>1, <2>2 DEF WatchInv, Phases, Published, Stopped, Releasing
  <2> QED BY <2>1, <2>2
<1>4. Phases'
  BY <1>3 DEF Phases, NewChild, HeldStill, Confirmed, Still, Gathered, Collecting, Copying
<1> QED BY <1>2, <1>4 DEF WatchInv

LEMMA WatchSettle == TypeInv /\ WatchInv /\ Settle => WatchInv'
<1> SUFFICES ASSUME TypeInv, WatchInv, Settle PROVE WatchInv'
    OBVIOUS
<1>1. /\ pc = "settle" /\ UNCHANGED <<mtids, leaderExited, exitSig>> /\ Alive(Leader) /\ pc \notin Leaving
      /\ stop[Leader] = status /\ Leader \notin fresh /\ Leader \in Tids /\ mtids \subseteq Tids
      /\ pc \in Injecting /\ exitSig = "none" /\ ~leaderExited /\ Stopped(Leader)
  BY LeaderIsThread DEF Settle, thr, crash, WatchInv, Reading, Read, AliveThreads, Leaving, TypeInv, ControlOK,
                        Injecting, NoCrash, LeaderOut, Stopped
<1>2. ASSUME NEW v, Settled(v)
      PROVE  pc' = "commit" /\ shot'.result = v
  BY <1>2 DEF Settled, Goto, TypeInv, ControlOK
<1>3. CASE status = "group" /\ Listen(Leader) /\ Settled("grouped")
  <2>1. /\ Quiet' /\ FatalKills' /\ UNCHANGED <<task, child, traced>>
        /\ stop' = [stop EXCEPT ![Leader] = "none"] /\ fresh' = fresh \ {Leader}
    BY <1>1, <1>3, QuietListen DEF TypeInv, WatchInv
  <2>2. stop'[Leader] = "none" /\ \A t \in Tids \ {Leader} : stop'[t] = stop[t]
    BY <1>1, <2>1 DEF TypeInv, KernelOK
  <2>3. Members'
    BY <1>1, <2>1, <2>2 DEF WatchInv, Members, Held, Exists
  <2> QED BY <1>1, <1>2, <1>3, <2>1, <2>2, <2>3, WatchSettled DEF Alive, Stopped
<1>4. CASE status = "clone" /\ AfterClone(Leader, TRUE, TRUE) /\ Settled("none")
  <2>1. PICK c \in Tids : c = child[Leader] /\ c \notin mtids /\ c # Leader
    BY <1>1, <1>4 DEF TypeInv, KernelOK, WatchInv, Quiet, Phases, NewChild
  <2>2. Quiet' /\ FatalKills'
    BY <1>1, <1>4, QuietAfterClone DEF TypeInv, WatchInv
  <2>3. /\ task' = task /\ child' = child /\ fresh' = fresh \ {Leader, c} /\ traced' = traced \ {c}
        /\ \A t \in Tids : stop'[t] = IF t \in {Leader, c} THEN "none" ELSE stop[t]
    BY <1>4, <2>1 DEF AfterClone, NotIn
  <2>4. Members'
    <3>1. \A t \in mtids : Held(t) => Held(t)'
      BY <2>1, <2>3 DEF Held
    <3>2. ASSUME NEW t \in Tids, stop'[t] = "clone", child'[t] \in Threads PROVE child[t] \in traced' \/ task'[child[t]] = "gone"
      <4>1. stop[t] = "clone" /\ t # Leader /\ child[t] \in Threads
        BY <2>3, <3>2
      <4>2. child[t] # c
        BY <1>1, <1>4, <2>1, <4>1 DEF WatchInv, Quiet
      <4> QED BY <1>1, <2>3, <4>1, <4>2 DEF WatchInv, Members, Held
    <3>3. \A t \in mtids : t \in Threads /\ Exists(t)' /\ Held(t)'
      BY <1>1, <2>3, <3>1 DEF WatchInv, Members, Exists
    <3> QED BY <1>1, <2>3, <3>2, <3>3 DEF Members, Held
  <2>5. \A t \in mtids \ {Leader} :
          Alive(t)' => Alive(t) /\ (t \in fresh => t \in fresh') /\ stop'[t] \in {stop[t], "none"}
    BY <1>1, <2>1, <2>3 DEF Alive
  <2> QED BY <1>1, <1>2, <1>4, <2>2, <2>3, <2>4, <2>5, WatchSettled DEF Stopped
<1>5. CASE \E sig : Continue(Just(Leader, sig), FALSE) /\ Settled("none")
  <2>1. PICK sig : Continue(Just(Leader, sig), FALSE)
    BY <1>5
  <2>2. DOMAIN Just(Leader, sig) = {Leader} /\ {t \in {Leader} : Stopped(t)} = {Leader}
    BY <1>1 DEF Just
  <2>3. Quiet' /\ FatalKills' /\ Kept({Leader}) /\ traced' = traced
    BY <1>1, <2>1, <2>2, QuietContinue DEF TypeInv, WatchInv
  <2>4. Members'
    BY <1>1, <2>3, MembersKept DEF TypeInv, WatchInv
  <2>5. \A t \in mtids \ {Leader} :
          Alive(t)' => Alive(t) /\ (t \in fresh => t \in fresh') /\ stop'[t] \in {stop[t], "none"}
    <3>1. mtids \subseteq Threads
      BY <1>1 DEF WatchInv, Members
    <3> QED BY <1>1, <2>3, <3>1 DEF Kept, AliveThreads
  <2>6. ~Stopped(Leader)'
    BY <1>1, <2>3 DEF Kept
  <2> QED BY <1>1, <1>2, <1>5, <2>3, <2>4, <2>5, <2>6, WatchSettled
<1>6. CASE status \in Fatal /\ UNCHANGED kernel /\ Settled(status)
  <2>1. Quiet' /\ FatalKills' /\ UNCHANGED <<task, stop, fresh, child, traced>>
    BY <1>6, QuietOther DEF TypeInv, WatchInv, kernel
  <2>2. Members'
    BY <1>1, <2>1 DEF WatchInv, Members, Held, Exists
  <2> QED BY <1>1, <1>2, <1>6, <2>1, <2>2, WatchSettled DEF Alive
<1>7. CASE \E s \in PendingFor(Leader) : RunInjected(s) /\ status' = s /\ UNCHANGED <<pc, shot>>
  <2>1. PICK s \in Signals : RunInjected(s) /\ status' = s /\ UNCHANGED <<pc, shot>>
    BY <1>7 DEF PendingFor
  <2>2. /\ Quiet' /\ FatalKills' /\ UNCHANGED <<task, child, traced>> /\ Members'
        /\ \A t \in Tids : t # Leader => stop'[t] = stop[t]
        /\ stop'[Leader] = s /\ s \notin {"clone", "none"} /\ fresh' = fresh \ {Leader}
    BY <1>1, <2>1, Injected, SignalFacts
  <2>3. Working' /\ LeaderOut' /\ NoCrash'
    BY <1>1, <2>1 DEF Working, LeaderOut, LeaderStays, NoCrash, Collecting
  <2>4. Reading'
    BY <1>1, <2>1, <2>2 DEF Reading, Read, Alive
  <2>5. NewChild' /\ Published'
    BY <1>1, <2>1, <2>2 DEF WatchInv, Phases, NewChild, Published, Alive, Stopped, Releasing
  <2>6. Phases'
    BY <1>1, <2>1, <2>5 DEF Phases, HeldStill, Confirmed, Still, Gathered, Collecting, Copying
  <2> QED BY <2>2, <2>3, <2>4, <2>6 DEF WatchInv
<1> QED BY <1>3, <1>4, <1>5, <1>6, <1>7 DEF Settle

LEMMA WatchSettleKilled == TypeInv /\ WatchInv /\ SettleKilled => WatchInv'
<1> SUFFICES ASSUME TypeInv, WatchInv, SettleKilled PROVE WatchInv'
    OBVIOUS
<1>1. /\ pc = "settle" /\ pc' = "commit" /\ UNCHANGED <<mtids, leaderExited, exitSig>> /\ ~Alive(Leader)
      /\ exitSig = "none" /\ ~leaderExited
  BY DEF SettleKilled, Goto, thr, crash, WatchInv, NoCrash, LeaderOut, Injecting
<1>2. Quiet' /\ FatalKills' /\ UNCHANGED <<task, stop, fresh, child, traced>> /\ Kept({})
  BY QuietOther, KeptUnchanged DEF TypeInv, WatchInv, SettleKilled, kernel
<1>3. LeaderStays' /\ NoCrash'
  BY <1>1 DEF LeaderStays, NoCrash, Collecting
<1>4. Published'
  BY <1>1, <1>2 DEF WatchInv, Phases, Published, Alive, Stopped, Releasing
<1>5. Phases'
  BY <1>1, <1>4 DEF Phases, NewChild, HeldStill, Confirmed, Still, Gathered, Collecting, Copying
<1> QED BY <1>1, <1>2, <1>3, <1>5, WatchPlain DEF Leaving, Injecting

LEMMA WatchCommit == TypeInv /\ WatchInv /\ Commit => WatchInv'
<1> SUFFICES ASSUME TypeInv, WatchInv, Commit PROVE WatchInv'
    OBVIOUS
<1>1. /\ pc = "commit" /\ UNCHANGED <<mtids, leaderExited, exitSig>> /\ exitSig = "none" /\ pc \notin Leaving
      /\ pc' \in {"drain", "detach"}
  BY Returned DEF Commit, thr, crash, WatchInv, NoCrash, Leaving
<1>2. Quiet' /\ FatalKills' /\ traced' = traced /\ Kept({})
  BY QuietOther, KeptUnchanged DEF TypeInv, WatchInv, Commit, kernel
<1> QED BY <1>1, <1>2, Home

-----------------------------------------------------------------------------
(* The crash                                                               *)

LEMMA WatchCore == TypeInv /\ WatchInv /\ (Core \/ CoreLoads) => WatchInv'
<1> SUFFICES ASSUME TypeInv, WatchInv, Core \/ CoreLoads PROVE WatchInv'
    OBVIOUS
<1>1. /\ pc \in {"core", "coreLoads"} /\ pc' \in {"coreLoads", "kill"} /\ (pc' = "coreLoads" => pc = "core")
      /\ UNCHANGED <<mtids, leaderExited, exitSig, coll, crashTid>>
      /\ pc' = "coreLoads" => \A t \in coll.tids : Stopped(t)
  BY DEF Core, CoreLoads, Goto, Answers, thr, crash
<1>2. Quiet' /\ FatalKills' /\ UNCHANGED <<task, stop, fresh, child, traced>> /\ Kept({})
  BY QuietOther, KeptUnchanged DEF TypeInv, WatchInv, Core, CoreLoads, kernel
<1>3. LeaderStays' /\ NoCrash'
  BY <1>1, <1>2, LeaderKept DEF WatchInv, LeaderOut, NoCrash, Collecting, Injecting
<1>4. Still'
  BY <1>1, <1>2 DEF WatchInv, Phases, Confirmed, Still, Standing, Cloned, AliveThreads, Alive, Stopped, Copying
<1>5. Phases'
  BY <1>1, <1>4 DEF Phases, NewChild, HeldStill, Confirmed, Gathered, Published, Collecting, Releasing
<1> QED BY <1>1, <1>2, <1>3, <1>5, WatchPlain DEF Leaving, Injecting

LEMMA WatchEnd == TypeInv /\ WatchInv /\ (KillCrashed \/ CoreCommit) => WatchInv'
<1> SUFFICES ASSUME TypeInv, WatchInv, KillCrashed \/ CoreCommit PROVE WatchInv'
    OBVIOUS
<1>1. /\ pc' \in {"coreCommit", "returned"} /\ UNCHANGED <<leaderExited, exitSig>> /\ mtids \subseteq Tids
  BY DEF KillCrashed, CoreCommit, Goto, thr, crash, TypeInv, ControlOK
<1>2. \E ts : Quiet' /\ FatalKills' /\ Kept(ts)
  <2>1. CASE KillCrashed
    <3>1. PICK S \in SUBSET mtids : Continue([t \in S |-> exitSig], TRUE)
      BY <2>1 DEF KillCrashed, ReleaseCrashed
    <3> QED BY <1>1, <3>1, QuietContinue DEF TypeInv, WatchInv
  <2>2. CASE CoreCommit
    BY <2>2, QuietOther, KeptUnchanged DEF TypeInv, WatchInv, CoreCommit
  <2> QED BY <2>1, <2>2
<1>3. LeaderStays'
  BY <1>1, <1>2, LeaderKept DEF WatchInv, LeaderOut
<1>4. Members' /\ Working' /\ LeaderOut' /\ Reading' /\ NoCrash'
  BY <1>1, <1>3 DEF Members, Working, LeaderOut, Reading, NoCrash, Leaving, Injecting, Collecting
<1> QED BY <1>1, <1>2, <1>4, Elsewhere DEF WatchInv, Collecting, Copying, Injecting, Releasing

-----------------------------------------------------------------------------
(* The theorems                                                            *)

\* Only the target calls exec.
LEMMA NoExecBefore == TypeInv /\ [Next]_vars /\ NoExecYet' => NoExecYet
<1> SUFFICES ASSUME TypeInv, [Next]_vars, NoExecYet' PROVE NoExecYet
    OBVIOUS
<1>1. CASE Watched
  BY <1>1, ExecsFall DEF Watched, TypeInv
<1>2. CASE ~Watched
  <2>1. quota' = quota
    <3>1. CASE UNCHANGED vars
      BY <3>1 DEF vars, kernel
    <3>2. CASE SeizeList \/ SeizeEach \/ SeizeEnd \/ RollbackNext \/ RollbackWait
           \/ DetachPoll \/ DetachRegs \/ DetachWait \/ DetachEnd
      BY <3>2 DEF SeizeList, SeizeEach, SeizeEnd, RollbackNext, RollbackWait, DetachPoll, DetachRegs, DetachWait,
         DetachEnd, Detached, LetGo, DetachWaited, ContinueThose, Interrupt, WaitExit, SeizeAll, kernel
    <3>3. CASE DrainStart \/ Poll \/ PassEnd \/ Dispatch \/ AwaitSignal \/ Request
      BY <3>3 DEF DrainStart, Poll, PassEnd, Dispatch, AwaitSignal, Request, WaitStop, WaitExit, TakeChld, kernel
    <3>4. CASE HandleClone \/ HandleExit \/ HandleExec \/ HandleGroupStop \/ HandleInterrupt
           \/ HandleFatal \/ HandleSignal \/ HandleKilled
      BY <3>4 DEF HandleClone, HandleExit, HandleExec, HandleGroupStop, HandleInterrupt, HandleFatal,
         HandleSignal, HandleKilled, Resume, AfterClone, Listen, Continue, ContinueThose, kernel
    <3>5. CASE CollectStart \/ CollectList \/ CollectPoll \/ CollectRegs \/ CollectWait \/ CollectConfirm
      BY <3>5 DEF CollectStart, CollectList, CollectPoll, CollectRegs, CollectWait, CollectConfirm, RecordStop,
         AfterClone, WaitStop, WaitExit, Interrupt, SeizeAll, kernel
    <3>6. CASE DumpStart \/ Abandon \/ Preserve \/ Restore \/ Meta \/ Loads
           \/ Inject \/ InjectInVain \/ InjectDeath \/ ResumeAll \/ DumpChild \/ Late
      BY <3>6 DEF DumpStart, Abandon, Preserve, Restore, Meta, Loads, Inject, InjectInVain, InjectDeath, ResumeAll,
         DumpChild, Late, Interrupt, Listen, Continue, ContinueThose, RunInjected, ChildDies, WaitExit, kernel
    <3>7. CASE Finish \/ Settle \/ SettleKilled \/ Commit \/ Core \/ CoreLoads \/ KillCrashed \/ CoreCommit
      BY <3>7 DEF Finish, Settle, SettleKilled, Commit, Core, CoreLoads, KillCrashed, CoreCommit, WaitStop, WaitExit,
         Interrupt, Listen, AfterClone, RunInjected, ReleaseCrashed, Continue, ContinueThose, kernel
    <3> QED BY <1>2, <3>1, <3>2, <3>3, <3>4, <3>5, <3>6, <3>7 DEF Next, Arthur
  <2> QED BY <2>1 DEF NoExecYet
<1> QED BY <1>1, <1>2

LEMMA WatchStep == TypeInv /\ TypeInv' /\ Accused /\ WatchInv /\ [Next]_vars /\ NoExecYet' => WatchInv'
<1> SUFFICES ASSUME TypeInv, TypeInv', Accused, WatchInv, [Next]_vars, NoExecYet' PROVE WatchInv'
    OBVIOUS
<1>1. CASE UNCHANGED vars
  BY <1>1 DEF vars, kernel, arthur, ctl, thr, crash, loop, WatchInv, Quiet, FatalKills, Members, Working, LeaderOut,
         LeaderStays, Reading, Read, NoCrash, Phases, NewChild, HeldStill, Confirmed, Still, Standing, Gathered,
         Published, Held, Exists, AliveThreads, Alive, Stopped, Cloned
<1>2. CASE SeizeList \/ SeizeEach \/ SeizeEnd \/ RollbackNext \/ RollbackWait
           \/ DetachPoll \/ DetachRegs \/ DetachWait \/ DetachEnd
  BY <1>2, WatchSeizeList, WatchSeizeEach, WatchSeizeEnd, WatchLeaving
<1>3. CASE DrainStart \/ Poll \/ PassEnd \/ Dispatch \/ AwaitSignal \/ Request
           \/ HandleClone \/ HandleExit \/ HandleExec \/ HandleGroupStop \/ HandleInterrupt
           \/ HandleFatal \/ HandleSignal \/ HandleKilled
  BY <1>3, WatchMainLoop, WatchPoll, WatchHandleClone, WatchHandle, WatchHandleKilled
<1>4. CASE CollectStart \/ CollectList \/ CollectPoll \/ CollectRegs \/ CollectWait \/ CollectConfirm
  BY <1>4, WatchCollectStart, WatchCollectList, WatchCollectPoll, WatchCollectRegs, WatchCollectWait,
     WatchCollectConfirm
<1>5. CASE DumpStart \/ Abandon \/ Preserve \/ Restore \/ Meta \/ Loads
           \/ Inject \/ InjectInVain \/ InjectDeath \/ ResumeAll \/ DumpChild \/ Late \/ Finish \/ Settle
           \/ SettleKilled \/ Commit
  BY <1>5, WatchDumpStart, WatchPreserve, WatchRestore, WatchMeta, WatchLoads, WatchInject, WatchInjectInVain,
     WatchResumeAll, WatchDumpChild, WatchFinish, WatchSettle, WatchSettleKilled, WatchCommit
<1>6. CASE Core \/ CoreLoads \/ KillCrashed \/ CoreCommit
  BY <1>6, WatchCore, WatchEnd
<1>7. CASE Watched
  BY <1>7, WatchTarget
<1> QED BY <1>1, <1>2, <1>3, <1>4, <1>5, <1>6, <1>7 DEF Next, Arthur

WatchedInv == Accused /\ (NoExecYet => WatchInv)

\* The inductive invariant: what Arthur knows of the threads it watches stays true
\* while they clone, exit and stop between any two of its system calls.
THEOREM WatchInvariant == Spec => []WatchedInv
<1>1. Init => WatchedInv
  BY WatchInit DEF WatchedInv, Accused, Init
<1>2. TypeInv /\ TypeInv' /\ WatchedInv /\ [Next]_vars => WatchedInv'
  BY AccusedStep, WatchStep, NoExecBefore DEF WatchedInv
<1> QED BY <1>1, <1>2, TypeInvariant, PTL DEF Spec

\* While memory is copied every thread of the process stands still and is in the
\* core, as long as none has called exec.
THEOREM MemoryStandsStill == Spec => [](NoExecYet => SnapshotIsStill)
<1>1. WatchedInv => (NoExecYet => SnapshotIsStill)
  BY DEF WatchedInv, WatchInv, Phases, Still, Standing, SnapshotIsStill
<1> QED BY <1>1, WatchInvariant, PTL

\* A snapshot is published only when every thread has been given back to itself,
\* has stopped anew, or stands at the signal that the crash is taken from.
THEOREM PublishedLate == Spec => [](NoExecYet => PublishedAfterRelease)
<1>1. WatchedInv => (NoExecYet => PublishedAfterRelease)
  BY DEF WatchedInv, WatchInv, Phases, Published, PublishedAfterRelease, Releasing
<1> QED BY <1>1, WatchInvariant, PTL
=============================================================================
