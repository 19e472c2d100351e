---------------------------- MODULE OneShotProofs ----------------------------
(***************************************************************************)
(* The properties of the direct snapshot, for any number of threads,       *)
(* rounds, signals and uninterruptible sleeps.                             *)
(*                                                                         *)
(* TypeOK needs that rounds are left (RoundsLeft).  Invariants of their    *)
(* own carry the rest:                                                     *)
(*   ReleaseInv, TracedInv  who is still traced while threads are let go;  *)
(*   StillInv   why a list with nothing new is the fixed point: the threads*)
(*              collected are held, so they cannot vanish under the readdir*)
(*              and it skips nobody; threads are created in order, so one  *)
(*              created meanwhile comes after the place of the readdir;    *)
(*   SignalInv  each thread still to be let go has the signal that stopped *)
(*              it noted beside it, and no signal stops two threads;       *)
(*   StopInv    where the SIGSTOP of an attach can still be.               *)
(***************************************************************************)
EXTENDS OneShot, WellFoundedInduction, TLAPS

-----------------------------------------------------------------------------
(* The thread with the least number                                        *)

LEMMA LeastIsMember ==
  ASSUME NEW S, S \subseteq Tids, S # {}
  PROVE  LeastOf(S) \in S
<1>1. S \subseteq Nat
  BY ThreadAssumption DEF Tids
<1>2. PICK t \in S : \A u \in S : ~(<<u, t>> \in OpToRel(<, Nat))
  BY <1>1, NatLessThanWellFounded, WFMin
<1>3. \A u \in S : ~(u < t)
  BY <1>1, <1>2 DEF OpToRel
<1>4. \A u \in S : t <= u
  BY <1>1, <1>3
<1> QED BY <1>4, Zenon DEF LeastOf

-----------------------------------------------------------------------------
(* Types                                                                   *)

TargetOK ==
  /\ task \in [Tids -> {"none", "run", "sleep", "zombie", "gone"}]
  /\ traced \subseteq Tids /\ stopPend \subseteq Tids
  /\ trap \in [Tids -> Traps] /\ aim \in [Ordinary -> Tids] /\ fate \in [Signals -> Fates]
  /\ jobStop \in BOOLEAN /\ sleeps \in 0 .. MaxSleeps

\* generate has begun to let the threads go, or has returned.
Ending == {"release", "commit", "returned", "exited"}

\* The rounds are counted until there are too many, which ends the capture.
RoundsLeft == pc \notin Ending => rounds < MaxRounds

LEMMA TypeInit == Init => TypeOK /\ RoundsLeft
<1> SUFFICES ASSUME Init PROVE TypeOK /\ RoundsLeft
    OBVIOUS
<1>1. /\ jobStop = FALSE /\ published = FALSE /\ overtaken = FALSE /\ broken = FALSE
  BY Zenon DEF Init, TargetInit
<1>2. jobStop \in BOOLEAN /\ published \in BOOLEAN /\ overtaken \in BOOLEAN /\ broken \in BOOLEAN
  BY <1>1, Zenon
<1> QED BY <1>2, ThreadAssumption, RoundAssumption DEF Init, TargetInit, TypeOK, Tids,
   Leader, Signals, Traps,
       Fates, Steps, RoundsLeft

LEMMA TypeTarget == TargetOK /\ Target => TargetOK'
<1> SUFFICES ASSUME TargetOK, Target PROVE TargetOK'
    OBVIOUS
<1> USE DEF TargetOK, Traps, Fates
<1>1. ASSUME NEW s \in Signals, Send(s) PROVE TargetOK'
  <2>1. CASE s = "CONT"
    <3>1. jobStop' \in BOOLEAN
      BY <1>1, <2>1, Zenon DEF Send
    <3> QED BY <1>1, <2>1, <3>1, SignalAssumption DEF Send, Signals
  <2>2. CASE s # "CONT"
    BY <1>1, <2>2, SignalAssumption DEF Send, Signals
  <2> QED BY <2>1, <2>2
<1>2. ASSUME NEW t \in Tids, React(t) PROVE TargetOK'
  BY <1>2 DEF React, Dequeue, Meet, Deliver, TakeStop, MeetStop, GroupTrap
<1>3. ASSUME NEW t \in Tids, Clone(t) \/ Exit(t) \/ Release(t) \/ Sleep(t) \/ Wake(t) PROVE TargetOK'
  BY <1>3, ThreadAssumption DEF Clone, Exit, Release, Sleep, Wake, Expire
<1>4. ASSUME Kill PROVE TargetOK'
  BY <1>4 DEF Kill, Expire
<1> QED BY <1>1, <1>2, <1>3, <1>4 DEF Target

LEMMA DetachTyped ==
  ASSUME TargetOK, NEW t \in Tids, NEW sig \in Traps, UNCHANGED target \/ SysDetach(t, sig)
  PROVE  TargetOK'
<1>1. CASE UNCHANGED target
  BY <1>1 DEF target, TargetOK
<1>2. CASE SysDetach(t, sig)
  BY <1>2 DEF SysDetach, TargetOK, Traps, Fates
<1> QED BY <1>1, <1>2

LEMMA TypeNext == TypeOK /\ RoundsLeft /\ [Next]_vars => TypeOK' /\ RoundsLeft'
<1> SUFFICES ASSUME TypeOK, RoundsLeft, [Next]_vars PROVE TypeOK' /\ RoundsLeft'
    OBVIOUS
<1> USE DEF TypeOK, RoundsLeft, Ending, Goto, Fail, target, arthur, Steps
<1>0. Leader \in Tids /\ 0 \in 0 .. MaxTid
  BY ThreadAssumption DEF Leader, Tids
<1>1. CASE Start
  BY <1>1, <1>0 DEF Start, ScanFor
<1>2. CASE ScanStep
  BY <1>2, ThreadAssumption DEF ScanStep, Listed, Tids
<1>3. CASE ScanEnd
  <2>1. rounds' \in 0 .. MaxRounds
    BY <1>3, RoundAssumption DEF ScanEnd
  <2>2. todo' \subseteq Tids
    BY <1>3 DEF ScanEnd
  <2>3. rc' \in {-1, 0} /\ pc' \in Steps
    BY <1>3 DEF ScanEnd
  <2>4. scan' \in {"none", "observe"}
    BY <1>3 DEF ScanEnd
  <2>5. RoundsLeft'
    BY <1>3, <2>1, RoundAssumption DEF ScanEnd
  <2> QED BY <1>3, <1>0, <2>1, <2>2, <2>3, <2>4, <2>5 DEF ScanEnd
<1>4. CASE Pick
  BY <1>4, LeastIsMember DEF Pick
<1>5. CASE AttachNext
  BY <1>5, LeastIsMember, ThreadAssumption DEF AttachNext, ScanFor
<1>6. CASE Attach
  <2>1. CASE CanAttach(tid)
    BY <1>6, <2>1 DEF Attach, SysAttach, Fates
  <2>2. CASE ~CanAttach(tid)
    BY <1>6, <2>2 DEF Attach, AttachFailed
  <2> QED BY <2>1, <2>2
<1>7. CASE Wait
  <2>1. CASE UNCHANGED target
    <3>1. overtaken' \in BOOLEAN
      BY <1>7, Zenon DEF Wait
    <3> QED BY <1>7, <2>1, <3>1 DEF Wait, AttachFailed, CanReap, SysReap
  <2>2. CASE SysReap(tid) /\ AttachFailed(IF waitErr = "none" THEN "ESRCH" ELSE waitErr)
             /\ UNCHANGED <<waitErr, status, overtaken, timedOut, tid, rounds, published, broken>>
    <3>1. pc = "wait"
      BY <1>7 DEF Wait
    <3> QED BY <2>2, <3>1 DEF AttachFailed, SysReap
  <2> QED BY <1>7, <2>1, <2>2 DEF Wait
<1>8. CASE Cont
  <2>1. jobStop' \in BOOLEAN
    BY <1>8, Zenon DEF Cont, SysCont
  <2> QED BY <1>8, <2>1 DEF Cont, SysCont, Fates
<1>9. CASE Undo
  <2>1. TargetOK
    BY DEF TargetOK
  <2>2. TargetOK'
    BY <1>9, <2>1, DetachTyped DEF Undo, Traps
  <2> QED BY <1>9, <2>2 DEF Undo, AttachFailed, TargetOK
<1>10. CASE Classify
  <2>1. CASE waitErr = "none" /\ UNCHANGED <<status, waitErr>>
             /\ Attached(IF status \in {"attach", "group"} THEN "none" ELSE status)
    <3>1. (IF status \in {"attach", "group"} THEN "none" ELSE status) \in Signals \cup {"none"}
      BY DEF Traps
    <3> QED BY <1>10, <2>1, <3>1, <1>0 DEF Classify, Attached, ScanFor
  <2>2. CASE ~(waitErr = "none" /\ UNCHANGED <<status, waitErr>>
             /\ Attached(IF status \in {"attach", "group"} THEN "none" ELSE status))
    BY <1>10, <2>2 DEF Classify, Traps
  <2> QED BY <2>1, <2>2
<1>11. CASE GiveUp
  <2>1. TargetOK
    BY DEF TargetOK
  <2>2. TargetOK'
    BY <1>11, <2>1, DetachTyped DEF GiveUp, DetachOk, DetachGone, DetachBroken
  <2>3. broken' \in BOOLEAN
    BY <1>11, Zenon DEF GiveUp, DetachOk, DetachGone, DetachBroken
  <2> QED BY <1>11, <2>2, <2>3 DEF GiveUp, AttachFailed, TargetOK
<1>12. CASE WriteStage
  BY <1>12 DEF WriteStage, AfterStage, Writing
<1>13. CASE WriteThread
  BY <1>13 DEF WriteThread
<1>14. CASE ReleaseOne
  <2>1. TargetOK
    BY DEF TargetOK
  <2>2. PICK t \in todo : todo' = todo \ {t} /\
                          \/ (DetachOk(t, relay[t]) \/ DetachGone(t)) /\ UNCHANGED rc
                          \/ DetachBroken(t) /\ rc' = -1
    BY <1>14 DEF ReleaseOne
  <2>3. TargetOK'
    BY <2>1, <2>2, DetachTyped DEF DetachOk, DetachGone, DetachBroken, Traps
  <2>4. broken' \in BOOLEAN
    BY <2>2, Zenon DEF DetachOk, DetachGone, DetachBroken
  <2> QED BY <1>14, <2>2, <2>3, <2>4 DEF ReleaseOne, TargetOK
<1>15. CASE ReleaseDone
  BY <1>15 DEF ReleaseDone
<1>16. CASE Commit
  BY <1>16 DEF Commit
<1>17. CASE ProcessExit
  BY <1>17 DEF ProcessExit, SysTracerExit, Fates, Traps
<1>18. CASE Environment
  BY <1>18, TypeTarget DEF Environment, TargetOK
<1>19. CASE UNCHANGED vars
  BY <1>19 DEF vars
<1> QED BY <1>1, <1>2, <1>3, <1>4, <1>5, <1>6, <1>7, <1>8, <1>9, <1>10, <1>11, <1>12, <1>13,
       <1>14, <1>15, <1>16, <1>17, <1>18, <1>19 DEF Next, Arthur

\* Every variable keeps its type, for any number of threads, rounds and signals.
THEOREM TypeCorrect == Spec => []TypeOK
<1>1. Init => TypeOK /\ RoundsLeft
  BY TypeInit
<1>2. TypeOK /\ RoundsLeft /\ [Next]_vars => (TypeOK /\ RoundsLeft)'
  BY TypeNext
<1> QED BY <1>1, <1>2, PTL DEF Spec

-----------------------------------------------------------------------------
(* The release                                                             *)

\* What is already let go while the threads are released, and once they are.
Freed(S) == \A t \in S : t \notin traced

ReleaseInv ==
  /\ pc = "release" /\ rc = 0 => Freed(collected \ todo)
  /\ pc = "commit" => Freed(collected)
  /\ published => pc \in {"returned", "exited"} /\ Freed(collected)

\* What Arthur's calls do to the set of traced threads and the output.
LEMMA ReleaseNext == ReleaseInv /\ [Next]_vars => ReleaseInv'
<1> SUFFICES ASSUME ReleaseInv, [Next]_vars PROVE ReleaseInv'
    OBVIOUS
<1> USE DEF ReleaseInv, Freed, Goto, Fail, target, arthur
<1>1. CASE Start \/ ScanStep \/ ScanEnd \/ Pick \/ AttachNext
  BY <1>1 DEF Start, ScanFor, ScanStep, ScanEnd, Pick, AttachNext
<1>2. CASE Attach \/ Wait \/ Cont \/ Undo
  BY <1>2 DEF Attach, SysAttach, Wait, SysReap, Cont, SysCont, Undo, SysDetach, AttachFailed
<1>3. CASE Classify \/ GiveUp
  BY <1>3 DEF Classify, Attached, ScanFor, GiveUp, AttachFailed, DetachOk, DetachGone,
     DetachBroken, SysDetach
<1>4. CASE WriteStage \/ WriteThread
  BY <1>4 DEF WriteStage, WriteThread, AfterStage, Writing
<1>5. CASE ReleaseOne
  BY <1>5 DEF ReleaseOne, DetachOk, DetachGone, DetachBroken, SysDetach
<1>6. CASE ReleaseDone \/ Commit \/ ProcessExit
  BY <1>6 DEF ReleaseDone, Commit, ProcessExit, SysTracerExit
<1>7. CASE Environment
  <2>1. traced' = traced
    BY <1>7 DEF Environment, Target, React, Send, Dequeue, Meet, TakeStop, MeetStop,
       GroupTrap,
       Clone, Exit, Release, Sleep, Wake, Kill
  <2> QED BY <1>7, <2>1 DEF Environment
<1>8. CASE UNCHANGED vars
  BY <1>8 DEF vars
<1> QED BY <1>1, <1>2, <1>3, <1>4, <1>5, <1>6, <1>7, <1>8 DEF Next, Arthur

\* The output appears only after every captured thread was let go, whatever failed.
THEOREM ReleasedFirst == Spec => []PublishedMeansReleased
<1>1. Init => ReleaseInv
  BY DEF Init, ReleaseInv
<1>2. ReleaseInv => PublishedMeansReleased
  BY DEF ReleaseInv, PublishedMeansReleased, Freed
<1> QED BY <1>1, <1>2, ReleaseNext, PTL DEF Spec

-----------------------------------------------------------------------------
(* Nobody is left traced                                                   *)

\* A traced thread Arthur need not let go: its attach timed out, or a detach of
\* a stopped thread failed.
Lost(t) == broken \/ t \in timedOut

\* pt_attach is at work on a thread it has attached.
Attaching == pc \in {"wait", "classify", "giveUp"}

TracedInv ==
  /\ pc \in {"cont", "undo"} => tid \in timedOut
  /\ pc \notin Ending =>
       \A t \in traced : Lost(t) \/ t \in collected \/ (Attaching /\ t = tid)
  /\ pc = "release" => \A t \in traced : Lost(t) \/ t \in todo
  /\ pc \in {"commit", "returned"} => \A t \in traced : Lost(t)

LEMMA TracedNext == TracedInv /\ [Next]_vars => TracedInv'
<1> SUFFICES ASSUME TracedInv, [Next]_vars PROVE TracedInv'
    OBVIOUS
<1> USE DEF TracedInv, Lost, Attaching, Ending, Goto, Fail, target, arthur
<1>1. CASE Start \/ ScanStep \/ ScanEnd \/ Pick \/ AttachNext
  BY <1>1 DEF Start, ScanFor, ScanStep, ScanEnd, Pick, AttachNext
<1>2. CASE Attach
  BY <1>2 DEF Attach, SysAttach, AttachFailed
<1>3. CASE Wait
  BY <1>3 DEF Wait, SysReap, AttachFailed
<1>4. CASE Cont \/ Undo
  BY <1>4 DEF Cont, SysCont, Undo, SysDetach, AttachFailed
<1>5. CASE Classify
  BY <1>5 DEF Classify, Attached, ScanFor
<1>6. CASE GiveUp
  BY <1>6 DEF GiveUp, AttachFailed, DetachOk, DetachGone, DetachBroken, SysDetach
<1>7. CASE WriteStage \/ WriteThread
  BY <1>7 DEF WriteStage, WriteThread, AfterStage, Writing
<1>8. CASE ReleaseOne
  BY <1>8 DEF ReleaseOne, DetachOk, DetachGone, DetachBroken, SysDetach
<1>9. CASE ReleaseDone \/ Commit \/ ProcessExit
  BY <1>9 DEF ReleaseDone, Commit, ProcessExit, SysTracerExit
<1>10. CASE Environment
  <2>1. traced' = traced
    BY <1>10 DEF Environment, Target, React, Send, Dequeue, Meet, TakeStop, MeetStop,
       GroupTrap,
       Clone, Exit, Release, Sleep, Wake, Kill
  <2> QED BY <1>10, <2>1 DEF Environment
<1>11. CASE UNCHANGED vars
  BY <1>11 DEF vars
<1> QED BY <1>1, <1>2, <1>3, <1>4, <1>5, <1>6, <1>7, <1>8, <1>9, <1>10, <1>11 DEF Next, Arthur

\* Whichever way generate ends, it traces no live thread but one whose attach timed out.
THEOREM NobodyLeftTraced == Spec => []NothingLeftTraced
<1>1. Init => TracedInv
  BY DEF Init, TargetInit, TracedInv, Ending
<1>2. TracedInv => NothingLeftTraced
  BY DEF TracedInv, NothingLeftTraced, Lost
<1> QED BY <1>1, <1>2, TracedNext, PTL DEF Spec

-----------------------------------------------------------------------------
(* The fixed point of collect_threads                                      *)

\* Threads are numbered in the order of their creation.
CreationOrder == \A m, n \in Tids : n < m /\ task[n] = "none" => task[m] = "none"

\* The leader is released as the last thread.
LeaderLast == task[Leader] = "gone" => \A t \in Tids : ~Alive(t)

\* A thread Arthur holds: it cannot vanish, and does not run.
Captive(t) == t \in traced /\ task[t] \in {"run", "sleep", "zombie"} /\ (Alive(t) => Trapped(t))

\* What a thread may do to a set of held ones: nothing.
LEMMA TargetMoves ==
  ASSUME TargetOK, Target, CreationOrder, LeaderLast
  PROVE  /\ CreationOrder' /\ LeaderLast'
         /\ \A t \in Tids : Captive(t) => Captive(t)'
         /\ \A t \in Tids : task[t] # "none" => task'[t] # "none"
         /\ \A t \in Tids : Alive(t)' /\ ~Alive(t) =>
              /\ \E u \in Tids : Active(u)
              /\ \A m \in Tids : task[m] # "none" => m < t
         /\ \A t \in traced : task[t] # "gone" => task'[t] # "gone"
<1> USE DEF TargetOK, CreationOrder, LeaderLast, Captive, Alive, Trapped, Leader
<1>0. Leader \in Tids /\ Tids \subseteq Nat
  BY ThreadAssumption DEF Tids
<1> DEFINE Goal ==
         /\ CreationOrder' /\ LeaderLast'
         /\ \A t \in Tids : Captive(t) => Captive(t)'
         /\ \A t \in Tids : task[t] # "none" => task'[t] # "none"
         /\ \A t \in Tids : Alive(t)' /\ ~Alive(t) =>
              /\ \E u \in Tids : Active(u)
              /\ \A m \in Tids : task[m] # "none" => m < t
         /\ \A t \in traced : task[t] # "gone" => task'[t] # "gone"
<1>1. ASSUME NEW s \in Signals, Send(s) PROVE Goal
  BY <1>1 DEF Send
<1>2. ASSUME NEW t \in Tids, React(t) PROVE Goal
  <2>1. task' = task /\ traced' = traced
    BY <1>2 DEF React, Dequeue, Meet, TakeStop, MeetStop, GroupTrap
  <2>2. \A u \in Tids : Trapped(u) => Trapped(u)'
    BY <1>2 DEF React, Dequeue, Meet, TakeStop, MeetStop, GroupTrap, Active
  <2> QED BY <2>1, <2>2
<1>3. ASSUME NEW t \in Tids, Clone(t) PROVE Goal
  <2>1. PICK n \in Tids : /\ task[n] = "none" /\ \A m \in Tids : m < n => task[m] # "none"
                          /\ task' = [task EXCEPT ![n] = "run"]
    BY <1>3 DEF Clone
  <2>2. \A m \in Tids : task[m] # "none" => m < n
    BY <2>1, <1>0
  <2>3. Active(t) /\ Alive(t) /\ UNCHANGED <<traced, trap>>
    BY <1>3 DEF Clone, Active
  <2> QED BY <1>0, <2>1, <2>2, <2>3
<1>4. ASSUME NEW t \in Tids, Exit(t) \/ Sleep(t) \/ Wake(t) PROVE Goal
  <2>1. /\ Alive(t) /\ (Wake(t) \/ ~Trapped(t)) /\ UNCHANGED <<traced, trap>>
        /\ \/ task' = [task EXCEPT ![t] = "zombie"]
           \/ task' = [task EXCEPT ![t] = "sleep"]
           \/ task' = [task EXCEPT ![t] = "run"]
    BY <1>4 DEF Exit, Sleep, Wake, Active
  <2>2. \A u \in Tids : task'[u] = task[u] \/ (u = t /\ task'[u] \in {"zombie", "sleep", "run"})
    BY <2>1
  <2>3. \A u \in Tids : Captive(u) => Captive(u)'
    BY <1>4, <2>1, <2>2 DEF Exit, Sleep, Wake, Active
  <2>4. CreationOrder' /\ LeaderLast'
    BY <1>0, <2>1, <2>2
  <2> QED BY <2>1, <2>2, <2>3, <2>4
<1>5. ASSUME NEW t \in Tids, Release(t) PROVE Goal
  BY <1>5 DEF Release, Listed
<1>6. ASSUME Kill PROVE Goal
  BY <1>6 DEF Kill
<1> QED BY <1>1, <1>2, <1>3, <1>4, <1>5, <1>6 DEF Target

AttachSteps == {"attach", "wait", "cont", "undo", "classify", "giveUp"}

\* Where generate stands while it has no control thread, and once it has one.
Chosen ==
  /\ pc \in {"start", "pick"} \/ (pc = "scan" /\ scan = "candidates") => collected = {}
  /\ pc \in {"next"} \cup Writing \/ (pc = "scan" /\ scan # "candidates") => collected # {}
  /\ collected = {} => unavailable = {}
  /\ collected # {} =>
       /\ control \in collected
       /\ control # Leader => Leader \in unavailable

\* A thread is attached once: neither the current one nor those still to do
\* have been collected or given up.
Once ==
  /\ collected \cap unavailable = {}
  /\ pc \in AttachSteps => tid \notin collected \cup unavailable
  /\ pc \in AttachSteps \cup {"next"} /\ collected # {} =>
       /\ todo \cap (collected \cup unavailable) = {}
       /\ pc # "next" => tid \notin todo

\* The threads collected so far cannot run, nor can the one just waited for.
AllHeld ==
  /\ \A t \in collected : Captive(t)
  /\ pc \in {"wait", "classify"} => tid \in traced /\ task[tid] \notin {"none", "gone"}
  /\ pc = "classify" /\ Alive(tid) => Trapped(tid)

\* A list that names only held threads (and a leader) has missed no live one.
ListComplete ==
  pc = "scan" =>
    /\ cursor # 0 => cursor \in seen /\ task[cursor] # "none"
    /\ seen \subseteq collected \cup {Leader} =>
         \A u \in Tids : Alive(u) /\ u <= cursor => u \in seen

StillInv ==
  /\ CreationOrder /\ LeaderLast
  /\ pc \notin Ending => Chosen /\ Once /\ AllHeld /\ ListComplete /\ SnapshotIsStill

LEMMA StillInit == Init => StillInv
<1> SUFFICES ASSUME Init PROVE StillInv
    OBVIOUS
<1> USE DEF Init, TargetInit
<1>1. CreationOrder /\ LeaderLast
  BY ThreadAssumption DEF CreationOrder, LeaderLast, Tids, Leader, Alive
<1> QED BY <1>1 DEF StillInv, Chosen, Once, AllHeld, ListComplete, SnapshotIsStill,
   Writing, AttachSteps

\* What the target does leaves the invariant alone.
LEMMA StillEnvironment ==
  ASSUME TypeOK, StillInv, Environment
  PROVE  StillInv'
<1>1. TargetOK /\ Target /\ UNCHANGED arthur /\ CreationOrder /\ LeaderLast
  BY DEF TypeOK, TargetOK, Environment, StillInv
<1>2. /\ CreationOrder' /\ LeaderLast'
      /\ \A t \in Tids : Captive(t) => Captive(t)'
      /\ \A t \in Tids : task[t] # "none" => task'[t] # "none"
      /\ \A t \in Tids : Alive(t)' /\ ~Alive(t) =>
           /\ \E u \in Tids : Active(u)
           /\ \A m \in Tids : task[m] # "none" => m < t
      /\ \A t \in traced : task[t] # "gone" => task'[t] # "gone"
  BY <1>1, TargetMoves
<1>3. traced' = traced
  BY <1>1 DEF Target, React, Send, Dequeue, Meet, TakeStop, MeetStop, GroupTrap,
       Clone, Exit, Release, Sleep, Wake, Kill
<1> SUFFICES ASSUME pc \notin Ending
    PROVE  (Chosen /\ Once /\ AllHeld /\ ListComplete /\ SnapshotIsStill)'
  BY <1>1, <1>2 DEF StillInv, arthur
<1>4. Chosen /\ Once /\ AllHeld /\ ListComplete /\ SnapshotIsStill
  BY DEF StillInv
<1>5. Chosen' /\ Once'
  BY <1>1, <1>4 DEF Chosen, Once, arthur
<1>6. AllHeld'
  <2>1. pc = "classify" => Captive(tid)
    BY <1>1, <1>4 DEF AllHeld, Captive, TypeOK, TargetOK
  <2> QED BY <1>1, <1>2, <1>3, <1>4, <2>1 DEF AllHeld, Captive, TypeOK, arthur
<1>7. ListComplete'
  <2>1. pc = "scan" /\ cursor # 0 => cursor \in Tids
    BY <1>4 DEF ListComplete, TypeOK
  <2>2. cursor \in Nat /\ Tids \subseteq Nat
    BY ThreadAssumption DEF TypeOK, Tids
  <2> QED BY <1>1, <1>2, <1>4, <2>1, <2>2 DEF ListComplete, arthur, Tids
<1>8. SnapshotIsStill'
  <2> SUFFICES ASSUME pc \in Writing, unavailable \ {Leader} = {}, NEW t \in Tids, Alive(t)'
      PROVE t \in collected /\ Trapped(t)'
    BY <1>1 DEF SnapshotIsStill, arthur
  <2>1. \A u \in Tids : Alive(u) => u \in collected /\ Trapped(u)
    BY <1>4 DEF SnapshotIsStill
  <2>2. ~ \E u \in Tids : Active(u)
    BY <2>1 DEF Active, Alive
  <2>3. t \in collected
    BY <1>2, <2>1, <2>2
  <2> QED BY <1>2, <1>4, <2>3 DEF AllHeld, Captive
<1> QED BY <1>5, <1>6, <1>7, <1>8

\* A call that touches no thread and moves neither the list nor the threads held.
LEMMA HeldStay ==
  ASSUME TypeOK, UNCHANGED <<task, traced, trap>>
  PROVE  /\ CreationOrder => CreationOrder'
         /\ LeaderLast => LeaderLast'
         /\ \A t \in Tids : Captive(t) => Captive(t)'
BY DEF CreationOrder, LeaderLast, Captive, Alive, Trapped

\* The place of a readdir that has only met held threads, or the leader, is not lost.
LEMMA PlaceKept ==
  ASSUME TypeOK, LeaderLast, ListComplete, pc = "scan", \A t \in collected : Captive(t),
         seen \subseteq collected \cup {Leader}, cursor # 0, cursor \notin Listed
  PROVE  \A u \in Tids : ~Alive(u)
<1>1. cursor \in seen /\ cursor \in Tids /\ task[cursor] # "none"
  BY DEF ListComplete, TypeOK
<1>2. task[cursor] = "gone"
  BY <1>1 DEF Listed, TypeOK
<1>3. cursor \notin collected
  BY <1>2 DEF Captive
<1> QED BY <1>1, <1>2, <1>3 DEF LeaderLast

LEMMA ScanStepComplete ==
  ASSUME TypeOK, LeaderLast, ListComplete, ScanStep, \A t \in collected : Captive(t)
  PROVE  ListComplete'
<1>1. PICK t \in Listed : /\ t > cursor
                          /\ cursor = 0 \/ cursor \in Listed => \A u \in Listed : u > cursor => t <= u
                          /\ cursor' = t /\ seen' = seen \cup {t}
  BY DEF ScanStep
<1>2. pc = "scan" /\ UNCHANGED <<pc, task, collected>>
  BY DEF ScanStep, target
<1>3. t \in Tids /\ Tids \subseteq Nat /\ cursor \in Nat /\ task[t] # "none"
  BY ThreadAssumption DEF Tids, Listed, TypeOK
<1> SUFFICES ASSUME seen' \subseteq collected \cup {Leader}, NEW u \in Tids, Alive(u), u <= t
    PROVE u \in seen'
  BY <1>1, <1>2, <1>3 DEF ListComplete, Alive
<1>4. seen \subseteq collected \cup {Leader}
  BY <1>1
<1>5. CASE u <= cursor
  BY <1>1, <1>2, <1>4, <1>5 DEF ListComplete
<1>6. CASE u > cursor /\ (cursor = 0 \/ cursor \in Listed)
  <2>1. u \in Listed
    BY DEF Listed, Alive
  <2>2. u = t
    BY <1>1, <1>3, <1>6, <2>1
  <2> QED BY <1>1, <2>2
<1>7. CASE cursor # 0 /\ cursor \notin Listed
  BY <1>2, <1>4, <1>7, PlaceKept
<1> QED BY <1>3, <1>5, <1>6, <1>7

\* A confirming list that ends with only held threads leaves no other thread alive.
LEMMA ScanEndComplete ==
  ASSUME TypeOK, LeaderLast, ListComplete, Chosen, pc = "scan", collected # {},
         \A t \in collected : Captive(t), AtEnd, seen \subseteq collected \cup unavailable,
         control # Leader => task[Leader] = "zombie", unavailable \ {Leader} = {}
  PROVE  \A u \in Tids : Alive(u) => u \in collected
<1> SUFFICES ASSUME NEW u \in Tids, Alive(u) PROVE u \in collected
    OBVIOUS
<1>1. seen \subseteq collected \cup {Leader}
  OBVIOUS
<1>2. u \in Listed /\ Tids \subseteq Nat /\ cursor \in Nat
  BY ThreadAssumption DEF Listed, Alive, Tids, TypeOK
<1>3. {v \in Listed : v > cursor} = {}
  BY <1>1, PlaceKept DEF AtEnd
<1>4. u <= cursor
  BY <1>2, <1>3
<1>5. u \in seen
  BY <1>1, <1>4 DEF ListComplete
<1>6. Leader \in collected \/ ~Alive(Leader)
  BY DEF Chosen, Alive
<1> QED BY <1>1, <1>5, <1>6

LEMMA StillNext == TypeOK /\ StillInv /\ [Next]_vars => StillInv'
<1> SUFFICES ASSUME TypeOK, StillInv, [Next]_vars PROVE StillInv'
    OBVIOUS
<1> DEFINE Rest == Chosen /\ Once /\ AllHeld /\ ListComplete /\ SnapshotIsStill
<1>0. /\ CreationOrder /\ LeaderLast /\ (pc \notin Ending => Rest)
      /\ Leader \in Tids
  BY ThreadAssumption DEF StillInv, Tids, Leader
<1> USE DEF Goto, Fail, target, arthur
<1>1. CASE Start
  BY <1>0, <1>1 DEF Start, ScanFor, StillInv, Chosen, Once, AllHeld, ListComplete,
     SnapshotIsStill,
     Ending, Writing, AttachSteps, TypeOK, CreationOrder, LeaderLast, Alive, Captive, Trapped,
     Tids
<1>2. CASE ScanStep
  <2>1. /\ pc = "scan" /\ pc' = pc /\ UNCHANGED <<task, traced, trap, scan, collected, unavailable, control>>
        /\ Rest
    BY <1>0, <1>2 DEF ScanStep, Ending
  <2>2. CreationOrder' /\ LeaderLast' /\ \A t \in Tids : Captive(t) => Captive(t)'
    BY <1>0, <2>1, HeldStay
  <2>3. Chosen' /\ Once' /\ AllHeld' /\ SnapshotIsStill'
    BY <2>1, <2>2 DEF Chosen, Once, AllHeld, SnapshotIsStill, TypeOK, AttachSteps, Writing
  <2>4. ListComplete'
    BY <1>0, <1>2, <2>1, ScanStepComplete DEF AllHeld
  <2> QED BY <2>1, <2>2, <2>3, <2>4 DEF StillInv
<1>3. CASE ScanEnd
  <2>1. /\ pc = "scan" /\ UNCHANGED <<task, traced, trap, collected, unavailable, control>> /\ Rest
    BY <1>0, <1>3 DEF ScanEnd, Ending
  <2>2. CreationOrder' /\ LeaderLast' /\ \A t \in Tids : Captive(t) => Captive(t)'
    BY <1>0, <2>1, HeldStay
  <2>3. CASE pc' \in Ending
    BY <2>2, <2>3 DEF StillInv
  <2>4. CASE pc' \notin Ending
    <3>1. pc' \in {"pick", "next", "scan", "procMeta"} /\ (pc' = "scan" => scan' = "observe")
      BY <1>3, <2>4 DEF ScanEnd, Ending
    <3>2. Chosen'
      BY <1>3, <2>1, <2>4 DEF ScanEnd, Chosen, Writing, Ending
    <3>3. Once' /\ AllHeld'
      BY <1>3, <2>1, <2>2, <3>1 DEF ScanEnd, Once, AllHeld, AttachSteps, TypeOK
    <3>4. ListComplete'
      BY <1>3, ThreadAssumption DEF ScanEnd, ListComplete, Tids
    <3>5. SnapshotIsStill'
      <4>1. CASE pc' # "procMeta"
        BY <3>1, <4>1 DEF SnapshotIsStill, Writing
      <4>2. CASE pc' = "procMeta"
        <5>1. /\ AtEnd /\ control \in seen /\ seen \subseteq collected \cup unavailable
              /\ control # Leader => task[Leader] = "zombie"
              /\ collected # {}
          BY <1>3, <2>1, <4>2 DEF ScanEnd, Chosen
        <5> QED BY <1>0, <2>1, <5>1, ScanEndComplete DEF SnapshotIsStill, AllHeld, Alive,
           Trapped, Captive
      <4> QED BY <4>1, <4>2
    <3> QED BY <2>2, <3>2, <3>3, <3>4, <3>5 DEF StillInv
  <2> QED BY <2>3, <2>4
<1>4. CASE Pick
  BY <1>0, <1>4, LeastIsMember DEF Pick, StillInv, Chosen, Once, AllHeld, ListComplete,
     SnapshotIsStill,
     Ending, Writing, AttachSteps, TypeOK, CreationOrder, LeaderLast, Alive, Captive, Trapped
<1>5. CASE AttachNext
  <2>1. /\ pc = "next" /\ UNCHANGED <<task, traced, trap, collected, unavailable, control>> /\ Rest
    BY <1>0, <1>5 DEF AttachNext, Ending
  <2>2. CreationOrder' /\ LeaderLast' /\ \A t \in Tids : Captive(t) => Captive(t)'
    BY <1>0, <2>1, HeldStay
  <2>3. CASE todo = {}
    <3>1. pc' = "scan" /\ scan' = "confirm" /\ cursor' = 0 /\ seen' = {}
      BY <1>5, <2>3 DEF AttachNext, ScanFor
    <3>2. ListComplete'
      BY <3>1, ThreadAssumption DEF ListComplete, Tids
    <3> QED BY <2>1, <2>2, <3>1, <3>2 DEF StillInv, Chosen, Once, AllHeld, SnapshotIsStill,
            AttachSteps, Writing, TypeOK
  <2>4. CASE todo # {}
    <3>1. /\ pc' = "attach" /\ tid' = LeastOf(todo) /\ todo' = todo \ {LeastOf(todo)}
          /\ LeastOf(todo) \in todo
      BY <1>5, <2>4, LeastIsMember DEF AttachNext, TypeOK
    <3> QED BY <2>1, <2>2, <3>1 DEF StillInv, Chosen, Once, AllHeld, SnapshotIsStill,
            AttachSteps, Writing, TypeOK, ListComplete
  <2> QED BY <2>3, <2>4
<1>6. CASE Attach
  BY <1>0, <1>6 DEF Attach, CanAttach, SysAttach, AttachFailed, StillInv, Chosen, Once,
     AllHeld, ListComplete, SnapshotIsStill,
     Ending, Writing, AttachSteps, TypeOK, CreationOrder, LeaderLast, Alive, Captive, Trapped,
     Choosing
<1>7. CASE Wait
  <2>1. pc = "wait" /\ tid' = tid /\ Rest
    BY <1>0, <1>7 DEF Wait, Ending
  <2>2. CASE UNCHANGED target /\ pc' \in {"wait", "cont", "classify"}
             /\ UNCHANGED <<control, scan, cursor, seen, todo, collected, unavailable>>
             /\ (pc' = "classify" => Trapped(tid))
    <3>1. CreationOrder' /\ LeaderLast' /\ \A t \in Tids : Captive(t) => Captive(t)'
      BY <1>0, <2>2, HeldStay
    <3> QED BY <2>1, <2>2, <3>1 DEF StillInv, Chosen, Once, AllHeld, ListComplete,
       SnapshotIsStill,
            AttachSteps, Writing, TypeOK, Trapped, Alive
  <2>3. CASE CanReap(tid) /\ SysReap(tid)
             /\ AttachFailed(IF waitErr = "none" THEN "ESRCH" ELSE waitErr)
    <3>1. CreationOrder' /\ LeaderLast' /\ \A t \in collected : Captive(t) => Captive(t)'
      <4>1. task' = [task EXCEPT ![tid] = "gone"] /\ traced' = traced \ {tid} /\ trap' = trap
            /\ task[tid] = "zombie" /\ (tid = Leader => Listed = {Leader})
        BY <2>3 DEF SysReap, CanReap
      <4>2. \A t \in Tids : t # tid => task'[t] = task[t]
        BY <4>1
      <4>3. tid \in Tids /\ tid \notin collected /\ collected \subseteq Tids /\ task'[tid] = "gone"
        BY <2>1, <4>1 DEF Once, AttachSteps, TypeOK
      <4>4. CreationOrder'
        BY <1>0, <4>1, <4>2, <4>3 DEF CreationOrder
      <4>5. LeaderLast'
        BY <1>0, <4>1, <4>2, <4>3 DEF LeaderLast, Alive, Listed
      <4> QED BY <4>1, <4>2, <4>3, <4>4, <4>5 DEF Captive, Alive, Trapped
    <3>2. CASE pc' \in Ending
      BY <3>1, <3>2 DEF StillInv
    <3>3. CASE pc' \notin Ending
      BY <1>0, <2>1, <2>3, <3>1, <3>3 DEF AttachFailed, Choosing, Ending, StillInv, Chosen,
         Once, AllHeld,
         ListComplete, SnapshotIsStill, AttachSteps, Writing, TypeOK
    <3> QED BY <3>2, <3>3
  <2> QED BY <1>7, <2>2, <2>3 DEF Wait
<1>8. CASE Cont
  BY <1>0, <1>8 DEF Cont, SysCont, StillInv, Chosen, Once, AllHeld, ListComplete,
     SnapshotIsStill,
     Ending, Writing, AttachSteps, TypeOK, CreationOrder, LeaderLast, Alive, Captive, Trapped,
     Choosing
<1>9. CASE Undo
  BY <1>0, <1>9 DEF Undo, SysDetach, AttachFailed, StillInv, Chosen, Once, AllHeld,
     ListComplete, SnapshotIsStill,
     Ending, Writing, AttachSteps, TypeOK, CreationOrder, LeaderLast, Alive, Captive, Trapped,
     Choosing
<1>10. CASE Classify
  <2>1. pc = "classify" /\ tid' = tid /\ UNCHANGED <<task, traced, trap>> /\ Rest
    BY <1>0, <1>10 DEF Classify, Ending
  <2>2. CreationOrder' /\ LeaderLast' /\ \A t \in Tids : Captive(t) => Captive(t)'
    BY <1>0, <2>1, HeldStay
  <2>3. Captive(tid) /\ tid \in Tids
    BY <2>1 DEF AllHeld, Captive, TypeOK
  <2>4. CASE pc' = "giveUp" /\ UNCHANGED <<control, scan, cursor, seen, todo, collected, unavailable>>
    BY <2>1, <2>2, <2>4 DEF StillInv, Chosen, Once, AllHeld, ListComplete, SnapshotIsStill,
       AttachSteps, Writing, TypeOK
  <2>5. CASE Attached(IF status \in {"attach", "group"} THEN "none" ELSE status)
    <3>1. collected' = collected \cup {tid} /\ tid \notin collected \cup unavailable
      BY <2>1, <2>5 DEF Attached, Once, AttachSteps
    <3>2. AllHeld'
      BY <2>1, <2>2, <2>3, <2>5, <3>1 DEF Attached, ScanFor, AllHeld, TypeOK
    <3>3. CASE Choosing
      <4>1. /\ pc' = "scan" /\ scan' = "observe" /\ cursor' = 0 /\ seen' = {} /\ control' = tid
            /\ collected' = {tid} /\ unavailable' = IF tid # Leader THEN {Leader} ELSE {}
        BY <2>5, <3>1, <3>3 DEF Attached, ScanFor, Choosing
      <4>2. ListComplete'
        BY <4>1, ThreadAssumption DEF ListComplete, Tids
      <4> QED BY <2>2, <3>2, <4>1, <4>2 DEF StillInv, Chosen, Once, SnapshotIsStill,
         AttachSteps, Writing
    <3>4. CASE ~Choosing
      <4>1. pc' = "next" /\ UNCHANGED <<control, scan, cursor, seen, todo, unavailable>>
        BY <2>5, <3>4 DEF Attached
      <4> QED BY <2>1, <2>2, <3>1, <3>2, <3>4, <4>1 DEF StillInv, Chosen, Once,
         ListComplete, SnapshotIsStill,
              AttachSteps, Writing, Choosing
    <3> QED BY <3>3, <3>4
  <2> QED BY <1>10, <2>4, <2>5 DEF Classify
<1>11. CASE GiveUp
  BY <1>0, <1>11 DEF GiveUp, DetachOk, DetachGone, DetachBroken, SysDetach, AttachFailed,
     StillInv, Chosen, Once, AllHeld, ListComplete, SnapshotIsStill,
     Ending, Writing, AttachSteps, TypeOK, CreationOrder, LeaderLast, Alive, Captive, Trapped,
     Choosing
<1>12. CASE WriteStage \/ WriteThread
  BY <1>0, <1>12 DEF WriteStage, WriteThread, AfterStage, StillInv, Chosen, Once, AllHeld,
     ListComplete, SnapshotIsStill,
     Ending, Writing, AttachSteps, TypeOK, CreationOrder, LeaderLast, Alive, Captive, Trapped,
     Choosing
<1>13. CASE ReleaseOne \/ ReleaseDone \/ Commit \/ ProcessExit
  BY <1>0, <1>13 DEF ReleaseOne, DetachOk, DetachGone, DetachBroken, SysDetach,
     ReleaseDone, Commit,
     ProcessExit, SysTracerExit, StillInv, Ending, CreationOrder, LeaderLast, Alive
<1>14. CASE Environment
  BY <1>14, StillEnvironment
<1>15. CASE UNCHANGED vars
  BY <1>0, <1>15 DEF vars, StillInv, Chosen, Once, AllHeld, ListComplete, SnapshotIsStill,
     Ending, Writing, AttachSteps, TypeOK, CreationOrder, LeaderLast, Alive, Captive, Trapped,
     Choosing
<1> QED BY <1>1, <1>2, <1>3, <1>4, <1>5, <1>6, <1>7, <1>8, <1>9, <1>10, <1>11, <1>12, <1>13,
       <1>14, <1>15 DEF Next, Arthur

\* While Arthur writes, and unless it has given up on a thread, every live thread
\* of the target is stopped and has its registers in the file: however threads
\* clone, exit and sleep while they are listed and attached.
THEOREM SnapshotStandsStill == Spec => []SnapshotIsStill
<1>1. Init => TypeOK /\ RoundsLeft /\ StillInv
  BY TypeInit, StillInit
<1>2. TypeOK /\ RoundsLeft /\ StillInv /\ [Next]_vars => (TypeOK /\ RoundsLeft /\ StillInv)'
  BY TypeNext, StillNext
<1>3. StillInv => SnapshotIsStill
  BY DEF StillInv, SnapshotIsStill, Ending, Writing
<1> QED BY <1>1, <1>2, <1>3, PTL DEF Spec

-----------------------------------------------------------------------------
(* Signals                                                                 *)

\* The threads Arthur has still to let go, each with its signal.
Owed == IF pc \notin Ending THEN collected ELSE IF pc = "release" THEN todo ELSE {}

\* What a stop is about: a signal of the target's own, or nothing to pass on.
Own(stop) == IF stop \in {"attach", "group"} THEN "none" ELSE stop

\* A signal stops one thread, which is where it waits.
OneTrapEach ==
  /\ \A t \in Tids : trap[t] \in Signals => fate[trap[t]] \in {"trapped", "expired"}
  /\ \A t, u \in Tids : trap[t] \in Signals /\ trap[t] = trap[u] => t = u

\* Every thread Arthur owes its freedom has its signal noted beside it.
Noted ==
  /\ \A t \in Owed : Captive(t) /\ (Trapped(t) => relay[t] = Own(trap[t]))
  /\ pc \in {"classify", "giveUp"} => Captive(tid)
  /\ pc = "classify" /\ Trapped(tid) => status = trap[tid]
  /\ pc = "giveUp" /\ Trapped(tid) => status = "none" \/ (status = trap[tid] /\ status \in Signals)

SignalInv == OneTrapEach /\ Noted

\* What a step may do to a signal.
FateMoves(losing) ==
  \A s \in Signals : /\ fate'[s] # fate[s] => fate'[s] # "twice" /\ (fate'[s] = "discarded" => losing)
                     /\ fate[s] = "delivered" => fate'[s] = "delivered"

LEMMA SignalInit == Init => SignalInv
BY SignalAssumption DEF Init, TargetInit, SignalInv, OneTrapEach, Noted, Owed, Ending,
   Signals, Trapped

LEMMA TargetSignals ==
  ASSUME TargetOK, Target, OneTrapEach
  PROVE  /\ OneTrapEach' /\ FateMoves(FALSE)
         /\ \A t \in Tids : Captive(t) => trap'[t] \in {trap[t], "none"}
<1> DEFINE Goal == /\ OneTrapEach' /\ FateMoves(FALSE)
                   /\ \A t \in Tids : Captive(t) => trap'[t] \in {trap[t], "none"}
<1> USE SignalAssumption DEF TargetOK, OneTrapEach, FateMoves, Captive, Alive, Trapped
<1>1. ASSUME NEW s \in Signals, Send(s) PROVE Goal
  BY <1>1 DEF Send, Signals
<1>2. ASSUME NEW t \in Tids, NEW s \in Signals, Dequeue(t, s) PROVE Goal
  <2>1. fate[s] = "pending" /\ ~Trapped(t) /\ Alive(t)
    BY <1>2 DEF Dequeue, Meet, Active
  <2>2. CASE t \in traced
    BY <1>2, <2>1, <2>2 DEF Dequeue, Meet, Active
  <2>3. CASE t \notin traced
    BY <1>2, <2>1, <2>3 DEF Dequeue, Meet, Deliver, Active
  <2> QED BY <2>2, <2>3
<1>3. ASSUME NEW t \in Tids, TakeStop(t) \/ GroupTrap(t) PROVE Goal
  BY <1>3 DEF TakeStop, MeetStop, GroupTrap, Active, Signals
<1>4. ASSUME NEW t \in Tids, Clone(t) \/ Release(t) \/ Sleep(t) \/ Wake(t) PROVE Goal
  BY <1>4 DEF Clone, Release, Sleep, Wake
<1>5. ASSUME NEW t \in Tids, Exit(t) PROVE Goal
  BY <1>5 DEF Exit, Expire
<1>6. ASSUME Kill PROVE Goal
  BY <1>6 DEF Kill, Expire, Signals
<1> QED BY <1>1, <1>2, <1>3, <1>4, <1>5, <1>6 DEF Target, React

\* A detach that passes on the signal of the stop, or none.
LEMMA DetachSignals ==
  ASSUME TargetOK, OneTrapEach, NEW t \in Tids, NEW sig, Trapped(t), SysDetach(t, sig),
         sig = "none" \/ (sig = trap[t] /\ sig \in Signals)
  PROVE  /\ OneTrapEach'
         /\ FateMoves(sig # Own(trap[t]))
         /\ \A u \in Tids : u # t => (Captive(u) => Captive(u)') /\ trap'[u] = trap[u]
BY SignalAssumption DEF SysDetach, TargetOK, OneTrapEach, FateMoves, Captive, Alive, Trapped,
   Own, Signals

\* A step that leaves stops and fates alone keeps what is known of them.
LEMMA FatesStay ==
  ASSUME OneTrapEach, UNCHANGED <<trap, fate>>
  PROVE  OneTrapEach' /\ FateMoves(FALSE)
BY DEF OneTrapEach, FateMoves

LEMMA SignalNext ==
  ASSUME TypeOK, StillInv, SignalInv, [Next]_vars
  PROVE  SignalInv' /\ FateMoves(pc \in {"undo", "giveUp"})
<1> DEFINE Goal == SignalInv' /\ FateMoves(pc \in {"undo", "giveUp"})
<1>0. /\ OneTrapEach /\ Noted /\ TargetOK
      /\ pc \notin Ending => Chosen /\ Once /\ AllHeld
      /\ "none" \notin Signals /\ "attach" \notin Signals /\ "group" \notin Signals
  BY SignalAssumption DEF SignalInv, TypeOK, TargetOK, StillInv, Signals
<1> USE DEF Goto, Fail, target, arthur
<1>1. CASE UNCHANGED target /\ Owed' \subseteq Owed /\ relay' = relay
           /\ pc' \notin {"classify", "giveUp"}
  BY <1>0, <1>1, FatesStay DEF SignalInv, Noted, Captive, Alive, Trapped, FateMoves
<1>2. CASE Start \/ ScanStep \/ ScanEnd \/ Pick \/ AttachNext
  <2>1. UNCHANGED target /\ Owed' \subseteq Owed /\ relay' = relay /\ pc' \notin {"classify", "giveUp"}
    BY <1>2 DEF Start, ScanFor, ScanStep, ScanEnd, Pick, AttachNext, Owed, Ending
  <2> QED BY <1>1, <2>1
<1>3. CASE WriteStage \/ WriteThread \/ Commit
  <2>1. UNCHANGED target /\ Owed' \subseteq Owed /\ relay' = relay /\ pc' \notin {"classify", "giveUp"}
    BY <1>3 DEF WriteStage, WriteThread, Commit, AfterStage, Writing, Owed, Ending
  <2> QED BY <1>1, <2>1
<1>4. CASE ReleaseDone
  BY <1>0, <1>4, FatesStay DEF ReleaseDone, SignalInv, Noted, Owed, Ending, FateMoves
<1>5. CASE Attach
  BY <1>0, <1>5 DEF Attach, SysAttach, AttachFailed, SignalInv, Noted, OneTrapEach,
     FateMoves, Owed, Ending,
     Captive, Alive, Trapped, TargetOK
<1>6. CASE Wait
  BY <1>0, <1>6 DEF Wait, SysReap, AttachFailed, SignalInv, Noted, OneTrapEach, FateMoves,
     Owed, Ending,
     Captive, Alive, Trapped, TypeOK, AllHeld, Once, AttachSteps
<1>7. CASE Cont
  BY <1>0, <1>7 DEF Cont, SysCont, SignalInv, Noted, OneTrapEach, FateMoves, Owed, Ending,
     Captive, Alive, Trapped, TypeOK
<1>8. CASE Undo
  <2>1. /\ pc = "undo" /\ tid \in Tids /\ tid \notin collected /\ Owed' \subseteq collected
        /\ Owed = collected /\ relay' = relay /\ pc' \notin {"classify", "giveUp"}
    BY <1>0, <1>8 DEF Undo, AttachFailed, Owed, Ending, Once, AttachSteps, TypeOK
  <2>2. CASE Trapped(tid)
    <3>1. /\ OneTrapEach' /\ FateMoves(TRUE)
          /\ \A u \in Tids : u # tid => (Captive(u) => Captive(u)') /\ trap'[u] = trap[u]
      BY <1>0, <1>8, <2>1, <2>2, DetachSignals DEF Undo, FateMoves
    <3> QED BY <1>0, <2>1, <3>1 DEF SignalInv, Noted, FateMoves, Trapped, TypeOK
  <2>3. CASE ~Trapped(tid)
    <3>1. UNCHANGED target
      BY <1>8, <2>3 DEF Undo
    <3> QED BY <1>1, <2>1, <3>1
  <2> QED BY <2>2, <2>3
<1>9. CASE Classify
  BY <1>0, <1>9, FatesStay DEF Classify, Attached, ScanFor, SignalInv, Noted, Owed, Ending,
     FateMoves,
     Captive, Alive, Trapped, TypeOK, Own, Traps
<1>10. CASE GiveUp
  <2>1. /\ pc = "giveUp" /\ tid \in Tids /\ tid \notin collected /\ Owed' \subseteq collected
        /\ Owed = collected /\ relay' = relay /\ pc' \notin {"classify", "giveUp"}
    BY <1>0, <1>10 DEF GiveUp, AttachFailed, Owed, Ending, Once, AttachSteps, TypeOK
  <2>2. CASE DetachOk(tid, status)
    <3>1. /\ OneTrapEach' /\ FateMoves(TRUE)
          /\ \A u \in Tids : u # tid => (Captive(u) => Captive(u)') /\ trap'[u] = trap[u]
      BY <1>0, <2>1, <2>2, DetachSignals DEF DetachOk, Noted, FateMoves
    <3> QED BY <1>0, <2>1, <3>1 DEF SignalInv, Noted, FateMoves, Trapped, TypeOK
  <2>3. CASE DetachGone(tid) \/ DetachBroken(tid)
    <3>1. UNCHANGED target
      BY <2>3 DEF DetachGone, DetachBroken
    <3> QED BY <1>1, <2>1, <3>1
  <2> QED BY <1>10, <2>2, <2>3 DEF GiveUp
<1>11. CASE ReleaseOne
  <2>1. PICK t \in todo : /\ todo' = todo \ {t}
                          /\ DetachOk(t, relay[t]) \/ DetachGone(t) \/ DetachBroken(t)
    BY <1>11 DEF ReleaseOne
  <2>2. /\ Owed' = Owed \ {t} /\ t \in Owed /\ t \in Tids /\ Owed \subseteq Tids
        /\ relay' = relay /\ pc' \notin {"classify", "giveUp"}
    BY <1>11, <2>1 DEF ReleaseOne, Owed, Ending, TypeOK
  <2>3. CASE DetachOk(t, relay[t])
    <3>1. relay[t] = Own(trap[t]) /\ Trapped(t)
      BY <1>0, <2>2, <2>3 DEF Noted, DetachOk
    <3>2. relay[t] = "none" \/ (relay[t] = trap[t] /\ relay[t] \in Signals)
      BY <1>0, <2>2, <3>1 DEF Own, TypeOK, Traps, Trapped
    <3>3. /\ OneTrapEach' /\ FateMoves(relay[t] # Own(trap[t]))
          /\ \A u \in Tids : u # t => (Captive(u) => Captive(u)') /\ trap'[u] = trap[u]
      BY <1>0, <2>2, <2>3, <3>1, <3>2, DetachSignals DEF DetachOk
    <3> QED BY <1>0, <2>2, <3>1, <3>3 DEF SignalInv, Noted, FateMoves, Trapped, TypeOK
  <2>4. CASE DetachGone(t) \/ DetachBroken(t)
    <3>1. UNCHANGED target
      BY <2>4 DEF DetachGone, DetachBroken
    <3> QED BY <1>1, <2>2, <3>1
  <2> QED BY <2>1, <2>3, <2>4
<1>12. CASE ProcessExit
  BY <1>0, <1>12 DEF ProcessExit, SysTracerExit, SignalInv, Noted, OneTrapEach, Owed,
     Ending, FateMoves, TypeOK
<1>13. CASE Environment
  <2>1. /\ OneTrapEach' /\ FateMoves(FALSE) /\ UNCHANGED arthur
        /\ \A t \in Tids : Captive(t) => trap'[t] \in {trap[t], "none"}
    BY <1>0, <1>13, TargetSignals DEF Environment
  <2>2. \A t \in Tids : Captive(t) => Captive(t)'
    BY <1>0, <1>13, TargetMoves DEF Environment, StillInv
  <2> QED BY <1>0, <2>1, <2>2 DEF SignalInv, Noted, Owed, FateMoves, Trapped, TypeOK
<1>14. CASE UNCHANGED vars
  BY <1>0, <1>14, FatesStay DEF vars, SignalInv, Noted, Owed, FateMoves, Captive, Alive, Trapped
<1> QED BY <1>2, <1>3, <1>4, <1>5, <1>6, <1>7, <1>8, <1>9, <1>10, <1>11, <1>12, <1>13, <1>14
        DEF Next, Arthur

\* A signal met on the way into a capture is delivered once, however the capture
\* ends; only the detach of a thread that pt_attach gives up on may drop one.
THEOREM SignalsAreRelayed == Spec => SignalsRelayed
<1> DEFINE Inv == TypeOK /\ RoundsLeft /\ StillInv /\ SignalInv
<1>1. Init => Inv
  BY TypeInit, StillInit, SignalInit
<1>2. Inv /\ [Next]_vars => Inv'
  BY TypeNext, StillNext, SignalNext
<1>3. Inv /\ [Next]_vars => [RelaysSignals]_vars
  BY SignalNext DEF RelaysSignals, FateMoves
<1> QED BY <1>1, <1>2, <1>3, PTL DEF Spec, SignalsRelayed

-----------------------------------------------------------------------------
(* Whose stop it is                                                        *)

\* A stop the target's user asked for, or one the capture owns up to.
Excused == ("STOP" \in Signals /\ fate["STOP"] = "delivered") \/ overtaken \/ broken

\* The SIGSTOP of an attach is pending, or has stopped its thread, only while
\* Arthur is at work on that thread or owes it its freedom.
StopInv ==
  /\ jobStop => Excused
  /\ \A t \in Tids : Trapped(t) => t \in traced /\ Alive(t)
  /\ \A t \in stopPend : Alive(t) /\ trap[t] # "attach"
  /\ \A t \in stopPend : overtaken \/ (pc \in {"wait", "cont"} /\ t = tid)
  /\ pc \in {"wait", "cont"} => tid \in traced
  /\ \A t \in Tids : trap[t] = "attach" =>
       overtaken \/ broken \/ t \in Owed \/ (pc \in AttachSteps \ {"attach"} /\ t = tid)

\* What the target does: only a SIGSTOP stops it, and an attach's only while Arthur waits.
LEMMA TargetStops ==
  ASSUME TypeOK, StopInv, SignalInv, Environment
  PROVE  StopInv'
<1>0. /\ TargetOK /\ OneTrapEach /\ Target /\ UNCHANGED arthur
  BY DEF TypeOK, TargetOK, SignalInv, Environment
<1>1. FateMoves(FALSE)
  BY <1>0, TargetSignals
<1>2. Excused => Excused'
  BY <1>0, <1>1 DEF Excused, FateMoves, arthur
<1>3. Owed' = Owed
  BY <1>0 DEF Owed, arthur
<1>4. "attach" \notin Signals /\ "none" \notin Signals
  BY SignalAssumption DEF Signals
<1> USE DEF TargetOK, StopInv, Alive, Trapped, arthur
<1>5. ASSUME NEW s \in Signals, Send(s) PROVE StopInv'
  BY <1>0, <1>2, <1>3, <1>5 DEF Send
<1>6. ASSUME NEW t \in Tids, NEW s \in Signals, Dequeue(t, s) PROVE StopInv'
  <2>1. CASE t \in traced
    BY <1>0, <1>2, <1>3, <1>4, <1>6, <2>1 DEF Dequeue, Meet, Active
  <2>2. CASE t \notin traced
    <3>1. jobStop' => Excused'
      BY <1>0, <1>2, <1>6, <2>2 DEF Dequeue, Meet, Deliver, Excused
    <3> QED BY <1>0, <1>3, <1>6, <2>2, <3>1 DEF Dequeue, Meet, Active
  <2> QED BY <2>1, <2>2
<1>7. ASSUME NEW t \in Tids, TakeStop(t) PROVE StopInv'
  <2>1. CASE t \in traced
    BY <1>0, <1>2, <1>3, <1>7, <2>1 DEF TakeStop, MeetStop, Active, AttachSteps
  <2>2. CASE t \notin traced
    <3>1. overtaken
      BY <1>7, <2>2 DEF TakeStop, MeetStop
    <3>2. Excused'
      BY <1>0, <3>1 DEF Excused
    <3> QED BY <1>0, <1>3, <1>7, <2>2, <3>2 DEF TakeStop, MeetStop
  <2> QED BY <2>1, <2>2
<1>8. ASSUME NEW t \in Tids, GroupTrap(t) PROVE StopInv'
  BY <1>0, <1>2, <1>3, <1>8 DEF GroupTrap
<1>9. ASSUME NEW t \in Tids, Clone(t) \/ Release(t) \/ Sleep(t) \/ Wake(t) PROVE StopInv'
  BY <1>0, <1>2, <1>3, <1>9 DEF Clone, Release, Sleep, Wake, Active
<1>10. ASSUME NEW t \in Tids, Exit(t) PROVE StopInv'
  BY <1>0, <1>2, <1>3, <1>10 DEF Exit, Active
<1>11. ASSUME Kill PROVE StopInv'
  BY <1>0, <1>2, <1>3, <1>11 DEF Kill
<1> QED BY <1>0, <1>5, <1>6, <1>7, <1>8, <1>9, <1>10, <1>11 DEF Target, React

\* A detach stops the process only with a SIGSTOP of the user's that it passes on.
LEMMA DetachStops ==
  ASSUME TypeOK, OneTrapEach, StopInv, NEW t \in Tids, NEW sig, DetachOk(t, sig),
         sig = "none" \/ (sig = trap[t] /\ sig \in Signals), FateMoves(TRUE)
  PROVE  /\ jobStop' => Excused \/ ("STOP" \in Signals /\ fate'["STOP"] = "delivered")
         /\ traced' = traced \ {t} /\ trap' = [trap EXCEPT ![t] = "none"]
         /\ UNCHANGED <<task, stopPend>>
<1> USE DEF DetachOk, SysDetach
<1>1. sig \in Stops => sig = "STOP" /\ sig \in Signals /\ sig = trap[t]
  BY SignalAssumption DEF Stops, Signals
<1>2. CASE sig = "STOP"
  <2>1. fate["STOP"] # "delivered" /\ "STOP" \in Signals /\ trap[t] = "STOP"
    BY <1>1, <1>2 DEF OneTrapEach, Stops
  <2>2. fate'["STOP"] = "delivered"
    BY <1>2, <2>1 DEF TypeOK
  <2> QED BY <2>1, <2>2
<1>3. CASE sig # "STOP"
  <2>1. jobStop' => jobStop
    BY <1>1, <1>3
  <2>2. jobStop' => Excused
    BY <2>1 DEF StopInv
  <2> QED BY <2>2
<1> QED BY <1>2, <1>3

LEMMA StopNext ==
  ASSUME TypeOK, StillInv, SignalInv, StopInv, [Next]_vars
  PROVE  StopInv'
<1>0. /\ OneTrapEach /\ Noted
      /\ pc \notin Ending => Once /\ AllHeld
      /\ "none" \notin Signals /\ "attach" \notin Signals /\ "group" \notin Signals
      /\ FateMoves(TRUE)
  BY SignalNext, SignalAssumption DEF SignalInv, StillInv, Signals, FateMoves
<1> USE DEF Goto, Fail, target, arthur
<1>1. CASE Start \/ ScanStep \/ ScanEnd \/ Pick \/ AttachNext
  BY <1>1 DEF Start, ScanFor, ScanStep, ScanEnd, Pick, AttachNext, StopInv, Excused, Owed,
     Ending, Alive, Trapped,
     AttachSteps
<1>2. CASE WriteStage \/ WriteThread \/ Commit \/ ReleaseDone
  BY <1>2 DEF WriteStage, WriteThread, AfterStage, Writing, Commit, ReleaseDone, StopInv,
     Excused, Owed, Ending,
     Alive, Trapped, AttachSteps
<1>3. CASE Attach
  <2>1. pc = "attach" /\ Owed = collected
    BY <1>3 DEF Attach, Owed, Ending
  <2>2. CASE CanAttach(tid) /\ SysAttach(tid) /\ pc' = "wait"
             /\ UNCHANGED <<collected, tid, overtaken, broken>>
    <3>1. Excused => Excused'
      BY <1>0, <2>2 DEF Excused, FateMoves
    <3>2. Owed' = collected
      BY <2>2 DEF Owed, Ending
    <3>3. tid \in Tids /\ ~Trapped(tid) /\ Alive(tid)
      BY <2>2 DEF CanAttach, TypeOK, StopInv
    <3> QED BY <2>1, <2>2, <3>1, <3>2, <3>3 DEF StopInv, SysAttach, Alive, Trapped,
       AttachSteps
  <2>3. CASE UNCHANGED <<target, collected, tid, overtaken, broken>> /\ pc' \in {"pick", "next", "release"}
             /\ Owed' = collected
    BY <2>1, <2>3 DEF StopInv, Excused, Alive, Trapped, AttachSteps
  <2> QED BY <1>3, <2>2, <2>3 DEF Attach, AttachFailed, Owed, Ending
<1>4. CASE Wait
  <2>1. /\ pc = "wait" /\ tid' = tid /\ broken' = broken /\ collected' = collected /\ tid \in Tids
        /\ Owed = collected
    BY <1>4 DEF Wait, Owed, Ending, AttachFailed, TypeOK
  <2>2. Owed' = collected
    BY <1>4, <2>1 DEF Wait, Owed, Ending, AttachFailed
  <2>3. CASE pc' = "classify" /\ UNCHANGED target
             /\ overtaken' = (overtaken \/ (trap[tid] # "attach" /\ tid \in stopPend))
    <3>1. /\ overtaken => overtaken'
          /\ trap[tid] # "attach" /\ tid \in stopPend => overtaken'
      BY <2>3, Zenon
    <3>2. Excused => Excused'
      BY <2>1, <2>3, <3>1 DEF Excused
    <3> QED BY <2>1, <2>2, <2>3, <3>1, <3>2 DEF StopInv, Alive, Trapped, AttachSteps
  <2>4. CASE CanReap(tid) /\ SysReap(tid) /\ pc' \in {"pick", "next", "release"} /\ overtaken' = overtaken
    <3>1. tid \notin stopPend /\ trap[tid] = "none"
      BY <2>1, <2>4 DEF StopInv, Alive, CanReap, Trapped
    <3> QED BY <1>0, <2>1, <2>2, <2>4, <3>1 DEF StopInv, Excused, SysReap, Alive, Trapped,
       AttachSteps, TypeOK
  <2>5. CASE pc' \in {"cont", "wait"} /\ UNCHANGED <<target, overtaken>>
    BY <2>1, <2>2, <2>5 DEF StopInv, Excused, Alive, Trapped, AttachSteps
  <2> QED BY <1>4, <2>3, <2>4, <2>5 DEF Wait, AttachFailed
<1>5. CASE Cont
  BY <1>0, <1>5 DEF Cont, SysCont, StopInv, Excused, Owed, Ending, Alive, Trapped,
     AttachSteps, TypeOK
<1>6. CASE Undo
  BY <1>0, <1>6, DetachStops DEF Undo, DetachOk, AttachFailed, StopInv, Excused, Owed,
     Ending, Alive, Trapped,
     AttachSteps, TypeOK, FateMoves
<1>7. CASE Classify
  BY <1>0, <1>7 DEF Classify, Attached, ScanFor, StopInv, Excused, Owed, Ending, Alive,
     Trapped,
     AttachSteps, TypeOK
<1>8. CASE GiveUp
  <2>1. /\ pc = "giveUp" /\ UNCHANGED <<tid, overtaken, collected>> /\ tid \in Tids /\ Owed = collected
        /\ Owed' = collected /\ pc' \in {"pick", "next", "release"}
    BY <1>8 DEF GiveUp, AttachFailed, Owed, Ending, TypeOK
  <2>2. CASE DetachOk(tid, status)
    <3>1. status = "none" \/ (status = trap[tid] /\ status \in Signals)
      BY <1>0, <2>1, <2>2 DEF DetachOk, Noted
    <3>2. /\ jobStop' => Excused \/ ("STOP" \in Signals /\ fate'["STOP"] = "delivered")
          /\ traced' = traced \ {tid} /\ trap' = [trap EXCEPT ![tid] = "none"]
          /\ UNCHANGED <<task, stopPend, broken>>
      BY <1>0, <2>1, <2>2, <3>1, DetachStops DEF DetachOk
    <3>3. jobStop' => Excused'
      BY <1>0, <2>1, <2>2, <3>2 DEF Excused, DetachOk, FateMoves
    <3> QED BY <2>1, <3>2, <3>3 DEF StopInv, Alive, Trapped, AttachSteps, TypeOK
  <2>3. CASE DetachGone(tid)
    <3>1. trap[tid] # "attach" /\ UNCHANGED <<target, broken>>
      BY <2>3 DEF DetachGone, Trapped
    <3> QED BY <2>1, <3>1 DEF StopInv, Excused, Alive, Trapped, AttachSteps
  <2>4. CASE DetachBroken(tid)
    <3>1. broken' /\ UNCHANGED target
      BY <2>4 DEF DetachBroken
    <3> QED BY <2>1, <3>1 DEF StopInv, Excused, Alive, Trapped, AttachSteps
  <2> QED BY <1>8, <2>2, <2>3, <2>4 DEF GiveUp
<1>9. CASE ReleaseOne
  <2>1. PICK t \in todo : /\ todo' = todo \ {t}
                          /\ DetachOk(t, relay[t]) \/ DetachGone(t) \/ DetachBroken(t)
    BY <1>9 DEF ReleaseOne
  <2>2. /\ pc = "release" /\ UNCHANGED <<pc, overtaken>> /\ t \in Tids /\ t \in Owed
        /\ Owed' = Owed \ {t}
    BY <1>9, <2>1 DEF ReleaseOne, Owed, Ending, TypeOK
  <2>3. CASE DetachOk(t, relay[t])
    <3>1. relay[t] = "none" \/ (relay[t] = trap[t] /\ relay[t] \in Signals)
      BY <1>0, <2>2, <2>3 DEF Own, TypeOK, Traps, Noted, DetachOk, Trapped
    <3>2. /\ jobStop' => Excused \/ ("STOP" \in Signals /\ fate'["STOP"] = "delivered")
          /\ traced' = traced \ {t} /\ trap' = [trap EXCEPT ![t] = "none"]
          /\ UNCHANGED <<task, stopPend, broken>>
      BY <1>0, <2>2, <2>3, <3>1, DetachStops DEF DetachOk
    <3>3. jobStop' => Excused'
      BY <1>0, <2>2, <2>3, <3>2 DEF Excused, DetachOk, FateMoves
    <3> QED BY <2>2, <3>2, <3>3 DEF StopInv, Alive, Trapped, AttachSteps, TypeOK
  <2>4. CASE DetachGone(t)
    <3>1. trap[t] # "attach" /\ UNCHANGED <<target, broken>>
      BY <2>4 DEF DetachGone, Trapped
    <3> QED BY <2>2, <3>1 DEF StopInv, Excused, Alive, Trapped, AttachSteps
  <2>5. CASE DetachBroken(t)
    <3>1. broken' /\ UNCHANGED target
      BY <2>5 DEF DetachBroken
    <3> QED BY <2>2, <3>1 DEF StopInv, Excused, Alive, Trapped, AttachSteps
  <2> QED BY <2>1, <2>3, <2>4, <2>5
<1>10. CASE ProcessExit
  BY <1>0, <1>10, SignalAssumption DEF ProcessExit, SysTracerExit, StopInv, Excused, Owed,
     Ending, Alive, Trapped,
     AttachSteps, TypeOK, FateMoves, Stops, Signals, Traps
<1>11. CASE Environment
  BY <1>11, TargetStops
<1>12. CASE UNCHANGED vars
  BY <1>12 DEF vars, StopInv, Excused, Owed, Alive, Trapped
<1> QED BY <1>1, <1>2, <1>3, <1>4, <1>5, <1>6, <1>7, <1>8, <1>9, <1>10, <1>11,
   <1>12 DEF Next, Arthur

\* A target that is stopped after the capture was stopped by its user, unless a
\* signal overtook the SIGSTOP of an attach or a detach failed.
THEOREM StopsAreTheUsers == Spec => []StopsAreOurs
<1> DEFINE Inv == TypeOK /\ RoundsLeft /\ StillInv /\ SignalInv /\ StopInv
<1>1. Init => Inv
  <2> SUFFICES ASSUME Init PROVE SignalInv /\ StopInv
      BY TypeInit, StillInit
  <2>1. SignalInv
    BY SignalInit
  <2>2. jobStop = FALSE
    BY Zenon DEF Init, TargetInit
  <2> QED BY <2>1, <2>2 DEF Init, TargetInit, StopInv, Trapped
<1>2. Inv /\ [Next]_vars => Inv'
  BY TypeNext, StillNext, SignalNext, StopNext
<1>3. Inv => StopsAreOurs
  BY DEF StopInv, Excused, StopsAreOurs
<1> QED BY <1>1, <1>2, <1>3, PTL DEF Spec
=============================================================================
