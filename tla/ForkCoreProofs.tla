---------------------------- MODULE ForkCoreProofs ----------------------------
(***************************************************************************)
(* What the fork snapshot owes the target, for any number of threads,      *)
(* signals and sleeps: it is given back as it was, nothing of the          *)
(* injection is in the file, no copy of it is left, and its signals reach  *)
(* it.                                                                     *)
(*                                                                         *)
(* Five inductive invariants, each proved from those before it:            *)
(*   ForkTypeOK  the types;                                                *)
(*   ImageInv    what the leader executes and what in it is not its own,   *)
(*               and that what pt_call saved covers it;                    *)
(*   ChildInv    where the copy stands, from the fork event to its end;    *)
(*   CopyInv     what the copy's memory is the memory of;                  *)
(*   RelayInv    who holds the signal of the stop that Arthur keeps the    *)
(*               leader in.                                                *)
(***************************************************************************)
EXTENDS ForkCore, OneShotProofs

-----------------------------------------------------------------------------
(* Types                                                                   *)

ForkStops == Traps \cup {"fork", "fault", "halt"}
ForkSteps == Steps \cup
  {"call", "shell", "poke", "putBack", "restore", "free", "memory", "skip", "terminate",
   "reattach", "rewait", "recont", "reundo", "rejudge", "reset", "redetach", "settle"}

ThreadsOK ==
  /\ task \in [Tids -> {"none", "run", "sleep", "zombie", "gone"}]
  /\ traced \subseteq Tids /\ stopPend \subseteq Tids
  /\ trap \in [Tids -> ForkStops] /\ aim \in [Ordinary -> Tids] /\ fate \in [Signals -> Fates]
  /\ jobStop \in BOOLEAN /\ sleeps \in 0 .. MaxSleeps
  /\ \A t \in Tids : Trapped(t) => task[t] = "run" /\ t \in traced
  /\ task[Leader] # "none"

RemoteOK ==
  /\ image \in [where : {"app", "mmap", "munmap", "fork", "forked", "landed", "waitpid", "diverted"},
                dirty : SUBSET (Scratch \cup {"regs"}), restart : BOOLEAN,
                ret : {"none", "good", "bad"}]
  /\ call \in [fn : {"none", "mmap", "fork", "munmap", "waitpid"},
               at : {"save", "enter", "resume", "wait", "stopped", "halt", "haltWait",
                     "fail", "finish", "done"},
               status : ForkStops, saved : SUBSET Scratch, sig : ForkStops,
               forked : BOOLEAN, result : {"none", "failed", "good", "bad"}]
  /\ child \in [state : {"none", "new", "stopped", "dying", "dead", "zombie", "reaped"},
                traced : BOOLEAN, dirty : SUBSET Scratch, still : BOOLEAN,
                at : {"int3", "exit"}, core : BOOLEAN]
  /\ sysCore \in BOOLEAN /\ haltPend \in BOOLEAN /\ wedged \in BOOLEAN
  /\ chldAction \in {"default", "ignore", "handler"} /\ swallowed \in ForkStops

Killing == {"skip", "terminate"}

\* There is a function to call, and a place to go on from.
Placed == /\ pc = "call" => call.fn # "none"
          /\ pc \in Killing => after # "none"

ArthurOK ==
  /\ pc \in ForkSteps /\ control \in Tids /\ tid \in Tids
  /\ status \in ForkStops /\ waitErr \in {"none", "ESRCH", "ETIMEDOUT", "other"}
  /\ scan \in {"none", "candidates", "observe", "confirm"}
  /\ cursor \in 0 .. MaxTid /\ seen \subseteq Tids /\ todo \subseteq Tids
  /\ collected \subseteq Tids /\ unavailable \subseteq Tids
  /\ relay \in [Tids -> ForkStops]
  /\ rounds \in 0 .. MaxRounds /\ rc \in {-1, 0} /\ published \in BOOLEAN
  /\ timedOut \subseteq Tids /\ overtaken \in BOOLEAN /\ broken \in BOOLEAN
  /\ RoundsLeft /\ Placed

LocalOK ==
  /\ plan \in {"undecided", "direct", "fork"} /\ detachSig \in ForkStops
  /\ after \in {"none", "restore", "returned", "reattach"}
  /\ restored \in BOOLEAN /\ snapshot \in {"none", "clean", "polluted"}

ForkTypeOK == ThreadsOK /\ RemoteOK /\ ArthurOK /\ LocalOK

-----------------------------------------------------------------------------
(* Where forkcore stands                                                   *)

Early == {"start", "scan", "pick", "next", "attach", "wait", "cont", "undo",
          "classify", "giveUp", "procMeta", "threadMeta", "loads", "elf", "tail"}
Last == {"reattach", "rewait", "recont", "reundo", "rejudge", "reset", "redetach", "settle"}

\* The target is on its way to be restored after a failure, or the capture fails.
Failing ==
  \/ rc = -1
  \/ pc = "restore"
  \/ pc \in Killing /\ after = "restore"
  \/ /\ pc = "call" /\ call.fn \in {"mmap", "fork"}
     /\ call.at = "fail" \/ (call.at = "done" /\ call.result = "failed")

\* Until the plan is to fork, nothing has been done to the target's memory.
Untouched ==
  /\ plan # "fork" =>
       /\ image.where = "app" /\ image.dirty = {} /\ call = NoCall /\ child = NoChild
       /\ ~haltPend /\ ~wedged /\ restored /\ swallowed = "none"
       /\ pc \in Steps /\ after = "none" /\ detachSig = "none"
  /\ plan = "fork" => pc \notin Early /\ (pc = "release" => rc = -1)

\* A failure is on its way out.
Settled ==
  /\ rc = -1 => \/ pc \in {"release", "returned", "exited", "free"}
                \/ pc \in Killing /\ after = "returned"
  /\ pc \in Killing /\ after = "returned" => rc = -1

\* What the leader executes, at each step of a call.
Executing ==
  /\ pc = "call" /\ call.at \in {"resume", "wait", "stopped", "halt", "haltWait"} =>
       \/ image.where \in {call.fn, "diverted", "landed"}
       \/ call.fn = "fork" /\ image.where = "forked"
  /\ pc = "call" /\ call.at \in {"wait", "halt", "haltWait", "stopped"} =>
       /\ trap[Leader] = "fault" => image.where = "landed"
       /\ call.at = "stopped" /\ call.status = "fault" => image.where = "landed"
  /\ pc = "call" /\ call.at = "finish" => image.where = "landed"
  /\ pc = "call" /\ call.at = "done" /\ call.result # "failed" => image.where = "landed"
  /\ image.where = "fork" => Failing \/ (pc = "call" /\ call.fn = "fork")

\* Arthur has the leader for the time of a call, and keeps what it overwrites.
Saved ==
  pc = "call" /\ call.at \in {"enter", "resume", "wait", "stopped", "halt", "haltWait", "finish"} =>
    call.saved = Scratch
Tracing ==
  /\ pc \in {"shell", "poke"} => Leader \in traced
  /\ pc = "call" /\ (call.at \notin {"fail", "done"} \/ (call.at = "done" /\ call.result # "failed")) =>
       Leader \in traced

\* The leader is alive and Arthur could stop it.
Ours == Alive(Leader) /\ ~wedged
Borrowed == \/ pc \in {"call", "shell", "poke", "putBack", "restore", "reset"}
            \/ pc \in Killing /\ after = "restore"
Unsaved == IF pc # "call" \/ call.at \in {"save", "enter", "done"} THEN {} ELSE call.saved
Restoring ==
  Ours => IF Borrowed
          THEN /\ image.dirty \subseteq Unsaved \cup {"regs"}
               /\ Held \/ (pc = "call" /\ call.at \in {"wait", "halt", "haltWait"} /\ Leader \in traced)
          ELSE image.where = "app" /\ image.dirty = {}
ImageInv == Untouched /\ Settled /\ Executing /\ Saved /\ Tracing /\ Restoring

-----------------------------------------------------------------------------
(* The child                                                               *)

Forking == pc = "call" /\ call.fn = "fork"
AfterFork == pc \in {"poke", "putBack", "free", "memory"} \cup Killing \/ (pc = "call" /\ call.fn = "munmap")

\* There is none before the leader runs the shell code, and the leader only goes
\* forward once it is there.
Unborn ==
  pc = "shell" \/ (pc = "call" /\ call.fn = "mmap") \/ (Forking /\ call.at \in {"save", "enter"}) =>
    child = NoChild /\ image.where \notin {"fork", "forked"} /\ (Forking => ~call.forked)
Born ==
  /\ child.state = "stopped" => child.traced
  /\ Forking /\ child.traced => image.where \in {"forked", "landed"}
  /\ Forking /\ image.where = "landed" /\ child.traced => image.ret = "good"

\* The fork event is seen by the call of the shell code and no other.
Event ==
  /\ trap[Leader] = "fork" => Forking \/ Failing
  /\ Forking /\ trap[Leader] = "fork" => image.where = "forked"
  /\ pc = "call" /\ call.at = "stopped" /\ call.status = "fork" => Forking
  /\ Forking /\ (call.forked \/ (call.at = "stopped" /\ call.status = "fork")) =>
       /\ image.where \in {"forked", "landed"}
       /\ image.where = "landed" => image.ret = "good"
       /\ call.at = "done" => call.result \in {"failed", "good"}
  /\ swallowed = "fork" => Failing

\* Arthur knows of the child it has to end.
Known ==
  Ours /\ ~sysCore /\ child.traced =>
    \/ swallowed = "fork" \/ ~restored
    \/ Forking /\ call.forked
    \/ Forking /\ trap[Leader] = "fork" /\ call.at \in {"wait", "halt", "haltWait"}
    \/ Forking /\ trap[Leader] = "fork" /\ call.at = "stopped" /\ call.status = "fork"
    \/ AfterFork

\* The child of a capture that goes well ends by exit(0).
Ends ==
  ~sysCore /\ ~Failing /\ pc # "exited" =>
    /\ ~child.core
    /\ child.state = "new" => child.traced /\ (Forking \/ pc = "poke")
    /\ child.state = "dying" => child.at = "exit"
    /\ pc = "terminate" /\ child.state = "stopped" => child.at = "exit"

ChildInv == Unborn /\ Born /\ Event /\ Known /\ Ends

-----------------------------------------------------------------------------
(* The memory of the child                                                 *)

BeforeFork == pc = "shell" \/ (pc = "call" /\ call.fn \in {"mmap", "fork"})

\* The leader enters the shell code with its red zone as it was.
Unspoiled ==
  ~Failing =>
    /\ BeforeFork \/ pc = "poke" => ~wedged
    /\ image.where = "fork" => "red" \notin image.dirty

\* Nobody runs until the child is there.
OthersStill ==
  ~Failing /\ BeforeFork =>
    /\ unavailable = {} => \A t \in Tids \ {Leader} : Alive(t) => Trapped(t)
    /\ image.where = "app" => Held \/ ~Alive(Leader)

\* The memory is in the file.
Finished == \/ pc \in Last \/ (pc = "commit" /\ plan = "fork") \/ (pc = "call" /\ call.fn = "waitpid")
            \/ (pc \in Killing /\ after = "reattach")

\* The child is the target as it stood still, but for the word that Poke puts back.
Copied ==
  ~Failing /\ ~sysCore =>
    /\ child.still \/ unavailable # {}
    /\ child.dirty \subseteq {"slot"}
    /\ AfterFork /\ pc # "poke" => child.dirty = {}
    /\ Finished => snapshot = "clean"

Clean == /\ published => pc \in {"returned", "exited"}
         /\ SnapshotUnpolluted

\* Unless it makes the target fork, forkcore does what generate does.
Collects == plan # "fork" => TypeOK /\ RoundsLeft /\ StillInv /\ SignalInv

CopyInv == Unspoiled /\ OthersStill /\ Copied /\ Clean /\ Collects

LEMMA StopFacts ==
  /\ Signals \subseteq ForkStops /\ "chld" \in Signals /\ "chld" \in Ordinary
  /\ Signals \cap {"none", "attach", "group", "halt", "fork", "fault"} = {}
  /\ Core \subseteq Signals /\ "chld" \notin Core
  BY SignalAssumption, CoreAssumption, ChildAssumption DEF Signals, ForkStops, Traps

LEMMA LeaderTid == Leader \in Tids /\ 0 \in 0 .. MaxTid
  BY ThreadAssumption DEF Leader, Tids

LEMMA ForkTypeInit == ForkInit => ForkTypeOK
<1> SUFFICES ASSUME ForkInit PROVE ForkTypeOK
    OBVIOUS
<1>1. /\ jobStop = FALSE /\ published = FALSE /\ overtaken = FALSE /\ broken = FALSE
      /\ haltPend = FALSE /\ wedged = FALSE /\ restored = TRUE
  BY Zenon DEF ForkInit, RemoteInit, Init, TargetInit
<1>2. /\ jobStop \in BOOLEAN /\ published \in BOOLEAN /\ overtaken \in BOOLEAN /\ broken \in BOOLEAN
      /\ haltPend \in BOOLEAN /\ wedged \in BOOLEAN /\ restored \in BOOLEAN
  BY <1>1, Zenon
<1>3. ThreadsOK
  BY <1>2, LeaderTid, ThreadAssumption
     DEF ForkInit, Init, TargetInit, ThreadsOK, ForkStops, Traps, Fates, Tids, Leader, Signals, Trapped
<1>4. call = NoCall /\ child = NoChild
      /\ image = [where |-> "app", dirty |-> {}, restart |-> FALSE, ret |-> "none"]
  BY DEF ForkInit, RemoteInit
<1>5. /\ "none" \in ForkStops /\ sysCore \in BOOLEAN /\ chldAction = "default" /\ swallowed = "none"
  BY DEF ForkInit, RemoteInit, ForkStops, Traps
<1>6. RemoteOK
  BY <1>2, <1>4, <1>5 DEF RemoteOK, NoCall, NoChild, Scratch
<1>7. ArthurOK
  BY <1>2, <1>5, LeaderTid, RoundAssumption DEF ForkInit, Init, ArthurOK, RoundsLeft, Placed, Killing, ForkSteps, Steps
<1>8. LocalOK
  BY <1>2, <1>5 DEF ForkInit, LocalOK
<1> QED BY <1>3, <1>6, <1>7, <1>8 DEF ForkTypeOK

-----------------------------------------------------------------------------
(* What the kernel does                                                    *)

\* What a step of the kernel may do to the threads: it traces no other one, wakes
\* no dead one, and takes none out of its stop but by a kill.
KernelStep ==
  /\ ThreadsOK' /\ traced' = traced
  /\ \A t \in Tids : task[t] # "none" => task'[t] # "none" /\ (Alive(t)' => Alive(t))
  /\ \A t \in Tids : Alive(t)' /\ Trapped(t) => trap'[t] = trap[t]

LEMMA StepsOfThreads ==
  ASSUME ThreadsOK
  PROVE  /\ \A s \in Signals : Send(s) => KernelStep
         /\ \A t \in Tids : MeetStop(t) /\ task[t] = "run" /\ ~Trapped(t) => KernelStep
         /\ \A t \in Tids : \A s \in Signals : Meet(t, s) /\ task[t] = "run" /\ ~Trapped(t) => KernelStep
         /\ \A t \in Tids : GroupTrap(t) \/ Clone(t) \/ Exit(t) \/ Release(t) \/ Sleep(t) \/ Wake(t) =>
              KernelStep
         /\ Kill => KernelStep
<1> USE StopFacts, LeaderTid DEF KernelStep, ThreadsOK, Alive, Trapped, Fates, ForkStops, Traps
<1>1. ASSUME NEW s \in Signals, Send(s) PROVE KernelStep
  <2>1. UNCHANGED <<task, traced, trap, sleeps>> /\ stopPend' \subseteq Tids
    BY <1>1 DEF Send
  <2>2. jobStop' \in BOOLEAN
    <3>1. s = "CONT" => jobStop' = FALSE
      BY <1>1, Zenon DEF Send
    <3>2. s # "CONT" => jobStop' = jobStop
      BY <1>1 DEF Send
    <3> QED BY <3>1, <3>2, Zenon
  <2>3. aim' \in [Ordinary -> Tids]
    BY <1>1 DEF Send
  <2>4. fate' \in [Signals -> Fates]
    BY <1>1 DEF Send
  <2> QED BY <2>1, <2>2, <2>3, <2>4
<1>2. ASSUME NEW t \in Tids, MeetStop(t), task[t] = "run", ~Trapped(t) PROVE KernelStep
  <2>1. jobStop' \in BOOLEAN
    BY <1>2, Zenon DEF MeetStop
  <2> QED BY <1>2, <2>1 DEF MeetStop
<1>3. ASSUME NEW t \in Tids, NEW s \in Signals, Meet(t, s), task[t] = "run", ~Trapped(t) PROVE KernelStep
  <2>1. jobStop' \in BOOLEAN
    BY <1>3, Zenon DEF Meet, Deliver
  <2> QED BY <1>3, <2>1 DEF Meet, Deliver
<1>4. ASSUME NEW t \in Tids, GroupTrap(t) PROVE KernelStep
  BY <1>4 DEF GroupTrap
<1>5. ASSUME NEW t \in Tids, Clone(t) PROVE KernelStep
  BY <1>5 DEF Clone, Active
<1>6. ASSUME NEW t \in Tids, Exit(t) PROVE KernelStep
  BY <1>6 DEF Exit, Expire, Active
<1>7. ASSUME NEW t \in Tids, Release(t) \/ Sleep(t) \/ Wake(t) PROVE KernelStep
  BY <1>7, ThreadAssumption DEF Release, Sleep, Wake, Active
<1>8. ASSUME Kill PROVE KernelStep
  <2>1. jobStop' \in BOOLEAN
    BY <1>8, Zenon DEF Kill
  <2> QED BY <1>8, <2>1 DEF Kill, Expire
<1> QED BY <1>1, <1>2, <1>3, <1>4, <1>5, <1>6, <1>7, <1>8

\* What the target may do between two calls of Arthur: nothing to the image, unless
\* the leader forks or comes back from the function it executes.
Plain == UNCHANGED <<image, child>> /\ (trap'[Leader] = trap[Leader] \/ trap'[Leader] \notin {"fork", "fault"})
Landing ==
  /\ Running /\ image.where \notin {"app", "landed"}
  /\ image'.where = "landed" /\ (image.where = "forked" => image'.ret = "good")
  /\ image'.dirty \subseteq image.dirty \cup {"red", "xstate"}
  /\ Alive(Leader)' => Leader \in traced /\ trap'[Leader] = "fault"
  /\ child' = child \/ (child.state = "zombie" /\ child' = [child EXCEPT !.state = "reaped"])
Forked ==
  /\ Running /\ Forks /\ image'.where = "forked" /\ image'.dirty = image.dirty
  /\ image'.ret = image.ret
  /\ task' = task
ChildMoves == ChildSteps /\ UNCHANGED <<task, traced, trap, image>>

RemoteStep ==
  /\ KernelStep /\ RemoteOK'
  /\ UNCHANGED <<call, sysCore, chldAction, swallowed, wedged>>
  /\ \A t \in Tids : Alive(t)' /\ ~Alive(t) =>
       \E u \in Tids : Active(u) /\ (u = Leader => image.where = "app")
  /\ Plain \/ Landing \/ Forked \/ ChildMoves

Children == [state : {"none", "new", "stopped", "dying", "dead", "zombie", "reaped"},
             traced : BOOLEAN, dirty : SUBSET Scratch, still : BOOLEAN,
             at : {"int3", "exit"}, core : BOOLEAN]
\* A child whose death has been reported.
Reported(core) == [state |-> IF chldAction = "ignore" THEN "reaped" ELSE "zombie", traced |-> FALSE,
                   dirty |-> {}, still |-> TRUE, at |-> "int3", core |-> core]

LEMMA ReportTyped ==
  ASSUME ThreadsOK, RemoteOK, NEW d \in BOOLEAN,
         Report([child EXCEPT !.core = d]) \/ (Report(child) /\ d = child.core)
  PROVE  /\ aim' \in [Ordinary -> Tids] /\ fate' \in [Signals -> Fates]
         /\ child' = Reported(d) /\ child' \in Children
         /\ \A s \in Signals \ {"chld"} : fate'[s] = fate[s]
<1>0. child \in Children
  BY DEF RemoteOK, Children
<1>1. child' = [NoChild EXCEPT !.core = d, !.state = IF chldAction = "ignore" THEN "reaped" ELSE "zombie"]
  BY <1>0 DEF Report, Children
<1>2. child' = Reported(d)
  BY <1>1 DEF NoChild, Reported
<1>3. child' \in Children
  BY <1>2 DEF Reported, Children
<1>4. fate' \in [Signals -> Fates] /\ \A s \in Signals \ {"chld"} : fate'[s] = fate[s]
  BY StopFacts DEF Report, ThreadsOK, Fates
<1>5. aim' \in [Ordinary -> Tids]
  BY StopFacts DEF Report, ThreadsOK
<1> QED BY <1>2, <1>3, <1>4, <1>5

LEMMA ChildTyped ==
  ASSUME ThreadsOK, RemoteOK, ChildSteps
  PROVE  /\ KernelStep /\ RemoteOK'
         /\ UNCHANGED <<task, traced, trap, image, call, sysCore, chldAction, swallowed, wedged>>
<1>0. UNCHANGED <<task, traced, stopPend, trap, jobStop, sleeps,
                  image, call, sysCore, haltPend, chldAction, swallowed, wedged>>
  BY DEF ChildSteps
<1>1. child \in Children
  BY DEF RemoteOK, Children
<1>3. /\ aim' \in [Ordinary -> Tids] /\ fate' \in [Signals -> Fates] /\ child' \in Children
  <2>1. CASE ChildMeets /\ UNCHANGED <<fate, aim>>
    BY <1>1, <2>1 DEF ChildMeets, ThreadsOK, Children
  <2>2. CASE ChildRuns
    <3>1. CASE child.state = "new" /\ child.traced /\ child' = [child EXCEPT !.state = "stopped"] /\ UNCHANGED <<fate, aim>>
      BY <1>1, <3>1 DEF ThreadsOK, Children
    <3>2. CASE Report([child EXCEPT !.core = child.at = "int3"])
      <4>1. PICK d \in BOOLEAN : d = (child.at = "int3")
        OBVIOUS
      <4>2. Report([child EXCEPT !.core = d])
        BY <3>2, <4>1
      <4> QED BY <4>2, ReportTyped
    <3>3. CASE \E d \in {FALSE, child.at = "int3"} : Report([child EXCEPT !.core = d])
      <4>1. PICK d \in {FALSE, child.at = "int3"} : Report([child EXCEPT !.core = d])
        BY <3>3
      <4>2. d \in BOOLEAN
        BY <4>1
      <4> QED BY <4>1, <4>2, ReportTyped
    <3>4. CASE child' = [child EXCEPT !.state = "dead"] /\ UNCHANGED <<fate, aim>>
      BY <1>1, <3>4 DEF ThreadsOK, Children
    <3> QED BY <2>2, <3>1, <3>2, <3>3, <3>4 DEF ChildRuns
  <2> QED BY <2>1, <2>2 DEF ChildSteps
<1>4. KernelStep
  BY <1>0, <1>3 DEF KernelStep, ThreadsOK, Alive, Trapped
<1>5. RemoteOK'
  BY <1>0, <1>3 DEF RemoteOK, Children
<1> QED BY <1>0, <1>4, <1>5

LEMMA ReturnsTyped ==
  ASSUME ThreadsOK, RemoteOK, Running, NEW v \in {"good", "bad"}, Returns(v), image.where \notin {"app", "landed"},
         image.where = "forked" => v = "good",
         UNCHANGED <<traced, aim, sleeps>>
  PROVE  /\ KernelStep /\ \A t \in Tids : Alive(t)' => Alive(t)
         /\ image' \in [where : {"landed"}, dirty : SUBSET (Scratch \cup {"regs"}),
                        restart : BOOLEAN, ret : {"good", "bad"}]
         /\ image'.dirty \subseteq image.dirty \cup {"red", "xstate"}
         /\ image'.ret = v
         /\ Alive(Leader)' => Leader \in traced /\ trap'[Leader] = "fault"
<1>1. image' = [image EXCEPT !.where = "landed", !.ret = v,
                            !.dirty = @ \cup IF image.where = "forked" THEN {} ELSE {"red", "xstate"}]
  BY DEF Returns
<1>2. image' \in [where : {"landed"}, dirty : SUBSET (Scratch \cup {"regs"}),
                        restart : BOOLEAN, ret : {"good", "bad"}]
      /\ image'.dirty \subseteq image.dirty \cup {"red", "xstate"} /\ image'.ret = v
  BY <1>1 DEF RemoteOK, Scratch
<1>3. CASE Leader \in traced
  BY <1>2, <1>3, LeaderTid DEF Returns, KernelStep, ThreadsOK, Running, Held, Alive, Trapped, ForkStops
<1>4. CASE Leader \notin traced
  <2>1. jobStop' \in BOOLEAN
    BY <1>4, Zenon DEF Returns
  <2> QED BY <1>2, <1>4, <2>1, LeaderTid, StopFacts
      DEF Returns, KernelStep, ThreadsOK, Running, Held, Alive, Trapped, ForkStops, Traps, Expire, Fates
<1> QED BY <1>3, <1>4

LEMMA InjectedTyped ==
  ASSUME ThreadsOK, RemoteOK, Injected
  PROVE  /\ KernelStep /\ RemoteOK' /\ \A t \in Tids : Alive(t)' => Alive(t)
         /\ Landing \/ Forked
<1>0. /\ UNCHANGED <<traced, aim, sleeps, call, sysCore, haltPend, chldAction, swallowed, wedged>>
      /\ Running /\ child \in Children
  BY DEF Injected, RemoteOK, Children
<1>1. CASE Forks
  <2>1. UNCHANGED <<task, stopPend, fate, jobStop>>
    BY <1>1 DEF Forks
  <2>2. PICK f \in BOOLEAN : f = (~sysCore /\ Leader \in traced)
    OBVIOUS
  <2>3. trap' = [trap EXCEPT ![Leader] = IF f THEN "fork" ELSE @]
    BY <1>1, <2>2, Zenon DEF Forks
  <2>4. PICK g \in BOOLEAN : g = (\A t \in Tids \ {Leader} : Alive(t) => Trapped(t))
    OBVIOUS
  <2>5. child' = [NoChild EXCEPT !.state = "new", !.traced = f,
                    !.dirty = image.dirty \cap {"slot", "red"}, !.still = g]
    BY <1>1, <2>2, <2>4 DEF Forks
  <2>6. child' \in Children
    BY <2>5 DEF NoChild, Children, Scratch
  <2>7. image' = [image EXCEPT !.where = "forked"]
    BY <1>1 DEF Forks
  <2>8. KernelStep
    BY <1>0, <2>1, <2>2, <2>3, LeaderTid
       DEF KernelStep, ThreadsOK, Running, Held, Alive, Trapped, ForkStops
  <2>9. RemoteOK' /\ image'.where = "forked" /\ image'.dirty = image.dirty /\ image'.ret = image.ret
    BY <1>0, <2>6, <2>7 DEF RemoteOK, Children
  <2> QED BY <1>0, <1>1, <2>1, <2>8, <2>9 DEF Forked, Alive
<1>2. ASSUME NEW v \in {"good", "bad"}, Returns(v), image.where \notin {"app", "landed"},
             image.where = "forked" => v = "good",
             child' = child \/ (child.state = "zombie" /\ child' = [child EXCEPT !.state = "reaped"])
      PROVE  KernelStep /\ RemoteOK' /\ (\A t \in Tids : Alive(t)' => Alive(t)) /\ Landing
  <2>1. /\ KernelStep /\ \A t \in Tids : Alive(t)' => Alive(t)
        /\ image' \in [where : {"landed"}, dirty : SUBSET (Scratch \cup {"regs"}),
                        restart : BOOLEAN, ret : {"good", "bad"}]
        /\ image'.dirty \subseteq image.dirty \cup {"red", "xstate"}
        /\ image'.ret = v
        /\ Alive(Leader)' => Leader \in traced /\ trap'[Leader] = "fault"
    BY <1>0, <1>2, ReturnsTyped
  <2>2. child' \in Children
    BY <1>0, <1>2 DEF Children
  <2>3. RemoteOK'
    BY <1>0, <2>1, <2>2 DEF RemoteOK, Children
  <2> QED BY <1>0, <1>2, <2>1, <2>3 DEF Landing
<1>3. \/ Forks
      \/ \E v \in {"good", "bad"} :
           /\ Returns(v) /\ image.where \notin {"app", "landed"} /\ (image.where = "forked" => v = "good")
           /\ child' = child \/ (child.state = "zombie" /\ child' = [child EXCEPT !.state = "reaped"])
  BY DEF Injected
<1> QED BY <1>1, <1>2, <1>3

LEMMA HaltTyped ==
  ASSUME ThreadsOK, RemoteOK, HaltStop
  PROVE  KernelStep /\ RemoteOK' /\ (\A t \in Tids : Alive(t)' => Alive(t)) /\ Plain
<1>1. jobStop' \in BOOLEAN /\ haltPend' = FALSE
  BY Zenon DEF HaltStop, ThreadsOK
<1>2. /\ UNCHANGED <<task, traced, stopPend, aim, fate, sleeps, image, call, child,
                     sysCore, chldAction, swallowed, wedged>>
      /\ trap' = trap \/ (task[Leader] = "run" /\ ~Held /\ Leader \in traced /\ trap' = [trap EXCEPT ![Leader] = "halt"])
  BY DEF HaltStop
<1>3. KernelStep /\ Plain /\ \A t \in Tids : Alive(t)' => Alive(t)
  BY <1>1, <1>2, LeaderTid DEF KernelStep, ThreadsOK, Held, Alive, Trapped, ForkStops, Plain
<1>4. RemoteOK'
  <2>1. haltPend' \in BOOLEAN
    BY <1>1
  <2> QED BY <1>2, <2>1 DEF RemoteOK
<1> QED BY <1>3, <1>4

LEMMA RemoteMoves ==
  ASSUME ThreadsOK, RemoteOK, RemoteTarget
  PROVE  RemoteStep
<1>0. UNCHANGED <<call, sysCore, chldAction, swallowed, wedged>>
  <2>1. CASE UNCHANGED remote
    BY <2>1 DEF remote
  <2>2. CASE Injected
    BY <2>2 DEF Injected
  <2>3. CASE HaltStop
    BY <2>3 DEF HaltStop
  <2>4. CASE ChildSteps
    BY <2>4 DEF ChildSteps
  <2> QED BY <2>1, <2>2, <2>3, <2>4 DEF RemoteTarget
<1> DEFINE Started == \A t \in Tids : Alive(t)' /\ ~Alive(t) =>
                        \E u \in Tids : Active(u) /\ (u = Leader => image.where = "app")
<1>1. ASSUME NEW s \in Signals \ {"chld"}, Send(s), haltPend' = (haltPend /\ s # "CONT"),
             UNCHANGED <<image, call, child, sysCore, chldAction, swallowed, wedged>>
      PROVE  KernelStep /\ RemoteOK' /\ Started /\ Plain
  <2>1. haltPend' \in BOOLEAN
    BY <1>1
  <2>2. UNCHANGED <<task, trap>>
    BY <1>1 DEF Send
  <2> QED BY <1>1, <2>1, <2>2, StepsOfThreads DEF RemoteOK, Plain, Alive
<1>2. ASSUME UNCHANGED remote,
             \/ \E t \in Tids : \/ TakeStop(t) \/ Release(t) \/ Sleep(t) \/ Wake(t)
                                \/ \E s \in Signals : Dequeue(t, s)
                                \/ (t = Leader => image.where = "app") /\ (GroupTrap(t) \/ Clone(t) \/ Exit(t))
             \/ Disturbed \/ Kill
      PROVE  KernelStep /\ RemoteOK' /\ Started /\ Plain
  <2>0. RemoteOK' /\ UNCHANGED <<image, child>>
    BY <1>2 DEF remote, RemoteOK
  <2>1. ASSUME NEW t \in Tids, TakeStop(t) \/ (t = Leader /\ Running /\ MeetStop(t))
        PROVE  KernelStep /\ Started /\ Plain
    <3>1. MeetStop(t) /\ task[t] = "run" /\ ~Trapped(t)
      BY <2>1 DEF TakeStop, Active, Running, Held
    <3>2. task' = task /\ (trap' = trap \/ trap' = [trap EXCEPT ![t] = "attach"])
      BY <3>1 DEF MeetStop
    <3> QED BY <2>0, <3>1, <3>2, StepsOfThreads, LeaderTid DEF Alive, Plain, ThreadsOK
  <2>2. ASSUME NEW t \in Tids, NEW s \in Signals, Dequeue(t, s) \/ (t = Leader /\ Running /\ Meet(t, s))
        PROVE  KernelStep /\ Started /\ Plain
    <3>1. Meet(t, s) /\ task[t] = "run" /\ ~Trapped(t)
      BY <2>2 DEF Dequeue, Active, Running, Held
    <3>2. task' = task /\ (trap' = trap \/ trap' = [trap EXCEPT ![t] = s])
      BY <3>1 DEF Meet
    <3>3. s \notin {"fork", "fault"}
      BY StopFacts
    <3> QED BY <2>0, <3>1, <3>2, <3>3, StepsOfThreads, LeaderTid DEF Alive, Plain, ThreadsOK
  <2>3. ASSUME NEW t \in Tids, Release(t) \/ Sleep(t) \/ Wake(t)
        PROVE  KernelStep /\ Started /\ Plain
    BY <2>0, <2>3, StepsOfThreads, LeaderTid DEF Alive, Plain, ThreadsOK, Release, Sleep, Wake, Active
  <2>4. ASSUME NEW t \in Tids, t = Leader => image.where = "app", GroupTrap(t) \/ Clone(t) \/ Exit(t)
        PROVE  KernelStep /\ Started /\ Plain
    <3>1. CASE GroupTrap(t)
      BY <2>0, <2>4, <3>1, StepsOfThreads, LeaderTid DEF Alive, Plain, ThreadsOK, GroupTrap
    <3>2. CASE Clone(t)
      BY <2>0, <2>4, <3>2, StepsOfThreads, LeaderTid DEF Plain, Clone
    <3>3. CASE Exit(t)
      BY <2>0, <2>4, <3>3, StepsOfThreads, LeaderTid DEF Alive, Plain, ThreadsOK, Exit
    <3> QED BY <2>4, <3>1, <3>2, <3>3
  <2>5. ASSUME Kill PROVE KernelStep /\ Started /\ Plain
    BY <2>0, <2>5, StepsOfThreads, LeaderTid DEF Alive, Plain, ThreadsOK, Kill
  <2>6. Disturbed => Running /\ (MeetStop(Leader) \/ \E s \in Signals : Meet(Leader, s))
    BY DEF Disturbed
  <2> QED BY <1>2, <2>0, <2>1, <2>2, <2>3, <2>4, <2>5, <2>6, LeaderTid
<1>3. CASE Injected
  BY <1>0, <1>3, InjectedTyped DEF RemoteStep
<1>4. CASE HaltStop
  BY <1>0, <1>4, HaltTyped DEF RemoteStep
<1>5. CASE ChildSteps
  <2>1. /\ KernelStep /\ RemoteOK' /\ UNCHANGED <<task, traced, trap, image>>
    BY <1>5, ChildTyped
  <2>2. \A t \in Tids : Alive(t)' => Alive(t)
    BY <2>1 DEF Alive
  <2> QED BY <1>0, <1>5, <2>1, <2>2 DEF RemoteStep, ChildMoves
<1> QED BY <1>0, <1>1, <1>2, <1>3, <1>4, <1>5 DEF RemoteTarget, RemoteStep

-----------------------------------------------------------------------------
(* What the system calls of Arthur do to the threads                       *)

LEMMA CallsOfThreads ==
  ASSUME ThreadsOK
  PROVE  /\ \A t \in Tids : CanAttach(t) /\ SysAttach(t) => ThreadsOK'
         /\ \A t \in Tids : CanReap(t) /\ SysReap(t) => ThreadsOK'
         /\ \A t \in Tids : \A sig \in ForkStops : SysDetach(t, sig) => ThreadsOK'
         /\ SysCont => ThreadsOK'
         /\ SysTracerExit => ThreadsOK'
         /\ UNCHANGED target => ThreadsOK'
<1> USE LeaderTid DEF ThreadsOK, Alive, Trapped, Fates
<1>1. ASSUME NEW t \in Tids, CanAttach(t), SysAttach(t) PROVE ThreadsOK'
  BY <1>1 DEF CanAttach, SysAttach
<1>2. ASSUME NEW t \in Tids, CanReap(t), SysReap(t) PROVE ThreadsOK'
  BY <1>2 DEF CanReap, SysReap
<1>3. ASSUME NEW t \in Tids, NEW sig \in ForkStops, SysDetach(t, sig) PROVE ThreadsOK'
  <2>1. jobStop' \in BOOLEAN
    BY <1>3, Zenon DEF SysDetach
  <2>2. fate' \in [Signals -> Fates]
    BY <1>3 DEF SysDetach
  <2> QED BY <1>3, <2>1, <2>2 DEF SysDetach, ForkStops, Traps
<1>4. ASSUME SysCont PROVE ThreadsOK'
  <2>1. jobStop' \in BOOLEAN
    BY <1>4, Zenon DEF SysCont
  <2> QED BY <1>4, <2>1 DEF SysCont
<1>5. ASSUME SysTracerExit PROVE ThreadsOK'
  <2>1. jobStop' \in BOOLEAN
    BY <1>5, Zenon DEF SysTracerExit
  <2> QED BY <1>5, <2>1 DEF SysTracerExit, ForkStops, Traps
<1>6. ASSUME UNCHANGED target PROVE ThreadsOK'
  BY <1>6 DEF target
<1> QED BY <1>1, <1>2, <1>3, <1>4, <1>5, <1>6

LEMMA AlarmTyped ==
  ASSUME ArthurOK, ThreadsOK, NEW t \in Tids, NEW sig \in ForkStops,
         DetachOk(t, sig) \/ DetachGone(t) \/ DetachBroken(t)
  PROVE  ThreadsOK' /\ broken' \in BOOLEAN
<1>1. CASE DetachOk(t, sig)
  BY <1>1, CallsOfThreads DEF DetachOk, ArthurOK
<1>2. CASE DetachGone(t)
  BY <1>2, CallsOfThreads DEF DetachGone, ArthurOK
<1>3. CASE DetachBroken(t)
  <2>1. broken' \in BOOLEAN
    BY <1>3, Zenon DEF DetachBroken
  <2> QED BY <1>3, <2>1, CallsOfThreads DEF DetachBroken
<1> QED BY <1>1, <1>2, <1>3

-----------------------------------------------------------------------------
(* The types                                                               *)

LEMMA SharedTyped ==
  ASSUME ForkTypeOK, Shared
  PROVE  ForkTypeOK'
<1>0. ThreadsOK /\ RemoteOK /\ ArthurOK /\ LocalOK
  BY DEF ForkTypeOK
<1>1. RemoteOK' /\ LocalOK'
  BY <1>0 DEF Shared, remote, local, RemoteOK, LocalOK
<1>2. /\ Leader \in Tids /\ 0 \in 0 .. MaxTid /\ "none" \in ForkStops
      /\ \A S : S \subseteq Tids /\ S # {} => LeastOf(S) \in Tids
  BY LeaderTid, LeastIsMember DEF ForkStops, Traps
<1> USE <1>0, <1>2 DEF ArthurOK, RoundsLeft, Placed, Killing, Ending, Goto, Fail, ForkSteps, Steps
<1>4. CASE ScanStep
  <2>1. ThreadsOK'
    BY <1>4, CallsOfThreads DEF ScanStep
  <2>2. ArthurOK'
    BY <1>4, ThreadAssumption DEF ScanStep, Listed, Tids
  <2> QED BY <1>1, <2>1, <2>2 DEF ForkTypeOK
<1>5. CASE ScanEnd
  <2>1. rounds' \in 0 .. MaxRounds /\ todo' \subseteq Tids
    BY <1>5, RoundAssumption DEF ScanEnd
  <2>2. rc' \in {-1, 0} /\ pc' \in Steps /\ scan' \in {"none", "observe"}
    BY <1>5 DEF ScanEnd
  <2>3. RoundsLeft'
    BY <1>5, <2>1, RoundAssumption DEF ScanEnd
  <2>4. /\ cursor' = 0 /\ seen' = {}
        /\ UNCHANGED <<target, control, tid, status, waitErr, collected, unavailable, relay,
                      published, timedOut, overtaken, broken>>
    BY <1>5 DEF ScanEnd
  <2>5. ThreadsOK'
    BY <2>4, CallsOfThreads
  <2>6. ArthurOK'
    BY <2>1, <2>2, <2>3, <2>4
  <2> QED BY <1>1, <2>5, <2>6 DEF ForkTypeOK
<1>6. CASE Pick \/ AttachNext
  <2>1. UNCHANGED target
    BY <1>6 DEF Pick, AttachNext
  <2>2. ThreadsOK'
    BY <2>1, CallsOfThreads
  <2>3. ArthurOK'
    BY <1>6 DEF Pick, AttachNext, ScanFor
  <2> QED BY <1>1, <2>2, <2>3 DEF ForkTypeOK
<1>7. CASE Attach
  <2>1. ThreadsOK'
    BY <1>7, CallsOfThreads DEF Attach
  <2>2. ArthurOK'
    BY <1>7 DEF Attach, AttachFailed
  <2> QED BY <1>1, <2>1, <2>2 DEF ForkTypeOK
<1>8. CASE Wait
  <2>1. ThreadsOK'
    BY <1>8, CallsOfThreads DEF Wait
  <2>2. overtaken' \in BOOLEAN
    BY <1>8, Zenon DEF Wait
  <2>3. ArthurOK'
    BY <1>8, <2>2 DEF Wait, AttachFailed, ThreadsOK
  <2> QED BY <1>1, <2>1, <2>3 DEF ForkTypeOK
<1>9. CASE Cont
  BY <1>1, <1>9, CallsOfThreads DEF Cont, ForkTypeOK
<1>10. CASE Undo
  <2>1. ThreadsOK'
    BY <1>10, CallsOfThreads DEF Undo
  <2>2. ArthurOK'
    BY <1>10 DEF Undo, AttachFailed
  <2> QED BY <1>1, <2>1, <2>2 DEF ForkTypeOK
<1>11. CASE Classify
  <2>1. ThreadsOK'
    BY <1>11, CallsOfThreads DEF Classify
  <2>2. CASE waitErr = "none" /\ UNCHANGED <<status, waitErr>>
             /\ Attached(IF status \in {"attach", "group"} THEN "none" ELSE status)
    <3>1. (IF status \in {"attach", "group"} THEN "none" ELSE status) \in ForkStops
      OBVIOUS
    <3>2. relay' \in [Tids -> ForkStops]
      BY <2>2, <3>1 DEF Attached
    <3>3. ArthurOK'
      BY <1>11, <2>2, <3>2 DEF Classify, Attached, ScanFor
    <3> QED BY <1>1, <2>1, <3>3 DEF ForkTypeOK
  <2>3. CASE ~(waitErr = "none" /\ UNCHANGED <<status, waitErr>>
             /\ Attached(IF status \in {"attach", "group"} THEN "none" ELSE status))
    <3>1. ArthurOK'
      BY <1>11, <2>3 DEF Classify
    <3> QED BY <1>1, <2>1, <3>1 DEF ForkTypeOK
  <2> QED BY <2>2, <2>3
<1>12. CASE GiveUp
  <2>1. ThreadsOK' /\ broken' \in BOOLEAN
    BY <1>12, AlarmTyped DEF GiveUp
  <2>2. ArthurOK'
    BY <1>12, <2>1 DEF GiveUp, AttachFailed
  <2> QED BY <1>1, <2>1, <2>2 DEF ForkTypeOK
<1>13. CASE ReleaseOne
  <2>1. PICK t \in todo : todo' = todo \ {t} /\
                          \/ (DetachOk(t, relay[t]) \/ DetachGone(t)) /\ UNCHANGED rc
                          \/ DetachBroken(t) /\ rc' = -1
    BY <1>13 DEF ReleaseOne
  <2>2. ThreadsOK' /\ broken' \in BOOLEAN
    BY <2>1, AlarmTyped
  <2>3. ArthurOK'
    BY <1>13, <2>1, <2>2 DEF ReleaseOne
  <2> QED BY <1>1, <2>2, <2>3 DEF ForkTypeOK
<1>14. CASE WriteThread \/ ReleaseDone \/ Commit
  <2>1. UNCHANGED target
    BY <1>14 DEF WriteThread, ReleaseDone, Commit
  <2>2. ThreadsOK'
    BY <2>1, CallsOfThreads
  <2>3. CASE WriteThread
    BY <1>1, <2>2, <2>3 DEF WriteThread, ForkTypeOK
  <2>4. CASE ReleaseDone
    <3>1. relay' \in [Tids -> ForkStops]
      BY <2>4 DEF ReleaseDone
    <3> QED BY <1>1, <2>2, <2>4, <3>1 DEF ReleaseDone, ForkTypeOK
  <2>5. CASE Commit
    BY <1>1, <2>2, <2>5 DEF Commit, ForkTypeOK
  <2> QED BY <1>14, <2>3, <2>4, <2>5
<1>15. CASE WriteStage
  <2>1. ThreadsOK'
    BY <1>15, CallsOfThreads DEF WriteStage
  <2>2. ArthurOK'
    BY <1>15 DEF WriteStage, AfterStage, Writing
  <2> QED BY <1>1, <2>1, <2>2 DEF ForkTypeOK
<1> QED BY <1>4, <1>5, <1>6, <1>7, <1>8, <1>9, <1>10, <1>11, <1>12, <1>13, <1>14, <1>15 DEF Shared

\* What forkcore writes into the variables of the call is of their type.
Images == [where : {"app", "mmap", "munmap", "fork", "forked", "landed", "waitpid", "diverted"},
           dirty : SUBSET (Scratch \cup {"regs"}), restart : BOOLEAN,
           ret : {"none", "good", "bad"}]
CallRecords == [fn : {"none", "mmap", "fork", "munmap", "waitpid"},
                at : {"save", "enter", "resume", "wait", "stopped", "halt", "haltWait",
                      "fail", "finish", "done"},
                status : ForkStops, saved : SUBSET Scratch, sig : ForkStops,
                forked : BOOLEAN, result : {"none", "failed", "good", "bad"}]

LEMMA CallForms ==
  ASSUME ThreadsOK, RemoteOK
  PROVE  /\ image \in Images /\ call \in CallRecords /\ child \in Children
         /\ PutBack \in Images /\ NoCall \in CallRecords
         /\ \A f \in {"mmap", "fork", "munmap", "waitpid"} : CallBegin(f) => call' \in CallRecords
         /\ Intercepted \in ForkStops /\ "none" \in ForkStops
<1>1. image \in Images /\ call \in CallRecords /\ child \in Children
  BY DEF RemoteOK, Images, CallRecords, Children
<1>2. "none" \in ForkStops
  BY DEF ForkStops, Traps
<1>3. PutBack \in Images
  BY <1>1 DEF PutBack, Images
<1>4. NoCall \in CallRecords
  BY <1>2 DEF NoCall, CallRecords
<1>5. \A f \in {"mmap", "fork", "munmap", "waitpid"} : CallBegin(f) => call' \in CallRecords
  BY <1>2 DEF CallBegin, NoCall, CallRecords
<1>6. Intercepted \in ForkStops
  BY <1>1, <1>2, LeaderTid DEF Intercepted, Probe, CallRecords, ThreadsOK
<1> QED BY <1>1, <1>2, <1>3, <1>4, <1>5, <1>6

LEMMA InjectionTyped ==
  ASSUME ForkTypeOK,
         \/ Begin \/ Refuse \/ Plan \/ MmapDone \/ WriteShell \/ ForkDone \/ Poke
         \/ MunmapDone \/ PutBackRegs \/ Restore
  PROVE  ForkTypeOK'
<1>0. ThreadsOK /\ RemoteOK /\ ArthurOK /\ LocalOK
  BY DEF ForkTypeOK
<1>1. /\ image \in Images /\ call \in CallRecords /\ child \in Children
      /\ PutBack \in Images /\ NoCall \in CallRecords
      /\ \A f \in {"mmap", "fork", "munmap", "waitpid"} : CallBegin(f) => call' \in CallRecords
      /\ Intercepted \in ForkStops /\ "none" \in ForkStops
  BY <1>0, CallForms
<1>2. UNCHANGED target
  BY DEF Begin, Start, Refuse, Plan, MmapDone, WriteShell, ForkDone, Poke, MunmapDone,
         PutBackRegs, Restore, KeepsTarget, KeepsForCall
<1>3. ThreadsOK'
  BY <1>0, <1>2, CallsOfThreads
<1>4. CASE Begin
  <2>1. UNCHANGED <<remote, after, detachSig, restored, snapshot>> /\ plan' \in {"undecided", "direct", "fork"}
    BY <1>0, <1>4 DEF Begin, LocalOK
  <2>2. RemoteOK' /\ LocalOK'
    BY <1>0, <2>1 DEF remote, RemoteOK, LocalOK
  <2>3. ASSUME Start PROVE ArthurOK'
    BY <1>0, <2>3, LeaderTid, RoundAssumption DEF Start, ScanFor, ArthurOK, RoundsLeft, Placed, Killing, Ending, Goto, ForkSteps, Steps
  <2>4. ASSUME Fail, KeepsTarget, Keeps, UNCHANGED <<status, waitErr, relay>> PROVE ArthurOK'
    BY <1>0, <2>4 DEF Fail, KeepsTarget, Keeps, KeepsArthur, ArthurOK, RoundsLeft, Placed, Killing, Ending, Goto, ForkSteps, Steps
  <2> QED BY <1>3, <1>4, <2>2, <2>3, <2>4 DEF Begin, ForkTypeOK
<1>5. ASSUME ~Begin
      PROVE  /\ pc' \in ForkSteps /\ status' \in ForkStops /\ todo' \subseteq Tids /\ rc' \in {-1, 0}
             /\ UNCHANGED waitErr /\ relay' \in [Tids -> ForkStops]
             /\ pc \notin Ending
             /\ KeepsArthur /\ UNCHANGED <<broken, sysCore, haltPend, wedged, swallowed>>
  BY <1>0, <1>1, <1>5 DEF Refuse, Plan, MmapDone, WriteShell, ForkDone, Poke, MunmapDone,
         PutBackRegs, Restore, KeepsTarget, KeepsForCall, Keeps, KeepsArthur, KeepsCall, Done, Goto, Fail,
         ArthurOK, ForkSteps, Steps, Ending, local
<1>6. ASSUME ~Begin PROVE ArthurOK'
  <2>1. (pc' = "call" => call'.fn # "none") /\ (pc' \in Killing => after' # "none")
    BY <1>6 DEF Refuse, Plan, MmapDone, WriteShell, ForkDone, Poke, MunmapDone,
       PutBackRegs, Restore, CallBegin, NoCall, Goto, Fail, Killing, KeepsForCall
  <2> QED BY <1>0, <1>5, <1>6, <2>1 DEF ArthurOK, RoundsLeft, Placed, Killing, KeepsArthur
<1>7. ASSUME ~Begin PROVE LocalOK'
  BY <1>0, <1>1, <1>7 DEF Refuse, Plan, MmapDone, WriteShell, ForkDone, Poke, MunmapDone,
         PutBackRegs, Restore, KeepsForCall, local, LocalOK
<1>8. ASSUME ~Begin
      PROVE  image' \in Images /\ call' \in CallRecords /\ child' \in Children
             /\ chldAction' \in {"default", "ignore", "handler"}
  <2>1. chldAction' \in {"default", "ignore", "handler"}
    BY <1>0, <1>8 DEF Refuse, Plan, MmapDone, WriteShell, ForkDone, Poke, MunmapDone,
         PutBackRegs, Restore, KeepsForCall, Keeps, RemoteOK
  <2>2. call' \in CallRecords
    BY <1>1, <1>8 DEF Refuse, Plan, MmapDone, WriteShell, ForkDone, Poke, MunmapDone,
         PutBackRegs, Restore, KeepsCall
  <2>3. image' \in Images
    <3>1. CASE Plan
      BY <1>0, <1>1, <3>1 DEF Plan, RemoteOK, Images
    <3> QED BY <1>1, <1>8, <3>1 DEF Refuse, MmapDone, WriteShell, ForkDone, Poke, MunmapDone,
         PutBackRegs, Restore, KeepsCall
  <2>4. child' \in Children
    <3>1. CASE Poke
      BY <1>1, <3>1 DEF Poke, Children
    <3> QED BY <1>1, <1>8, <3>1 DEF Refuse, Plan, MmapDone, WriteShell, ForkDone, MunmapDone,
         PutBackRegs, Restore
  <2> QED BY <2>1, <2>2, <2>3, <2>4
<1>9. ASSUME ~Begin PROVE RemoteOK'
  BY <1>0, <1>5, <1>8, <1>9 DEF RemoteOK, Images, CallRecords, Children
<1> QED BY <1>3, <1>4, <1>6, <1>7, <1>9 DEF ForkTypeOK

\* The steps of pt_call, each with what it leaves alone.
LEMMA CallCases ==
  ASSUME Calls
  PROVE  /\ pc = "call" /\ UNCHANGED <<arthur, local, child, sysCore, chldAction>>
         /\ \/ /\ CallSave \/ CallEnter \/ CallFail \/ CallFinish
               /\ UNCHANGED <<target, haltPend, swallowed, wedged>>
            \/ /\ CallResume \/ CallWait
               /\ UNCHANGED <<image, haltPend, swallowed, wedged>>
            \/ /\ CallStopped(~sysCore /\ call.fn = "waitpid")
               /\ UNCHANGED <<target, image, haltPend, swallowed, wedged>>
            \/ CallExpires /\ UNCHANGED <<target, image, wedged>>
            \/ CallHalt /\ UNCHANGED <<target, image, swallowed, wedged>>
            \/ CallHaltWait /\ UNCHANGED <<image, haltPend>>
<1> USE DEF Calls, CallStep
<1>1. pc = "call" /\ UNCHANGED <<arthur, local, child, sysCore, chldAction>>
  OBVIOUS
<1>2. CASE /\ CallSave \/ CallEnter \/ CallFail \/ CallFinish
           /\ UNCHANGED <<haltPend, swallowed, wedged>>
  <2>1. UNCHANGED target
    BY <1>2 DEF CallSave, CallEnter, CallFail, CallFinish
  <2> QED BY <1>1, <1>2, <2>1
<1>3. CASE /\ CallResume \/ CallWait
           /\ UNCHANGED <<haltPend, swallowed, wedged>>
  <2>1. UNCHANGED image
    BY <1>3 DEF CallResume, CallWait
  <2> QED BY <1>1, <1>3, <2>1
<1>4. CASE (CallStopped(~sysCore /\ call.fn = "waitpid") \/ CallExpires) /\ UNCHANGED wedged
  <2>1. CASE CallStopped(~sysCore /\ call.fn = "waitpid")
    <3>1. UNCHANGED <<target, image, haltPend, swallowed>>
      BY <2>1 DEF CallStopped
    <3> QED BY <1>1, <1>4, <2>1, <3>1
  <2>2. CASE CallExpires
    <3>1. UNCHANGED <<target, image>>
      BY <2>2 DEF CallExpires
    <3> QED BY <1>1, <1>4, <2>2, <3>1
  <2> QED BY <1>4, <2>1, <2>2
<1>5. CASE CallHalt /\ UNCHANGED <<swallowed, wedged>>
  <2>1. UNCHANGED <<target, image>>
    BY <1>5 DEF CallHalt
  <2> QED BY <1>1, <1>5, <2>1
<1>6. CASE CallHaltWait /\ UNCHANGED haltPend
  <2>1. UNCHANGED image
    BY <1>6 DEF CallHaltWait
  <2> QED BY <1>1, <1>6, <2>1
<1> QED BY <1>2, <1>3, <1>4, <1>5, <1>6

LEMMA CallTyped ==
  ASSUME ForkTypeOK, Calls
  PROVE  ForkTypeOK'
<1>0. ThreadsOK /\ RemoteOK /\ ArthurOK /\ LocalOK
  BY DEF ForkTypeOK
<1>1. /\ image \in Images /\ call \in CallRecords /\ child \in Children
  BY <1>0, CallForms
<1>2. UNCHANGED <<arthur, local, child, sysCore, chldAction>>
  BY CallCases
<1>3. LocalOK' /\ (call'.fn = call.fn => ArthurOK')
  BY <1>0, <1>2 DEF arthur, local, ArthurOK, LocalOK, RoundsLeft, Placed
<1>4. ThreadsOK'
  <2>1. CASE UNCHANGED target
    BY <1>0, <2>1, CallsOfThreads
  <2>2. CASE CallResume
    <3>1. CASE Held
      <4>1. fate' \in [Signals -> Fates]
        BY <1>0, <2>2, <3>1 DEF CallResume, ThreadsOK, Fates
      <4>2. trap' \in [Tids -> ForkStops] /\ \A t \in Tids : trap'[t] = trap[t] \/ trap'[t] = "none"
        BY <1>0, <2>2, <3>1, CallForms DEF CallResume, ThreadsOK
      <4> QED BY <1>0, <2>2, <4>1, <4>2 DEF CallResume, ThreadsOK, Trapped
    <3>2. CASE ~Held
      BY <1>0, <2>2, <3>2 DEF CallResume, ThreadsOK, Trapped
    <3> QED BY <3>1, <3>2
  <2>3. CASE CallWait \/ CallHaltWait
    BY <1>0, <2>3, LeaderTid, CallsOfThreads DEF CallWait, CallHaltWait
  <2> QED BY <2>1, <2>2, <2>3, CallCases
<1>5. call' \in CallRecords /\ call'.fn = call.fn
  <2>1. trap[Leader] \in ForkStops
    BY <1>0, LeaderTid DEF ThreadsOK
  <2>2. CASE CallSave
    <3>1. PICK S \in SUBSET Scratch, l \in {"enter", "fail"} :
             call' = [call EXCEPT !.at = l, !.saved = S] \/ call' = [call EXCEPT !.at = l]
      BY <2>2 DEF CallSave, CallGoto, Scratch
    <3> QED BY <1>1, <3>1 DEF CallRecords
  <2>5. CASE CallEnter \/ CallResume \/ CallWait \/ CallExpires \/ CallHalt \/ CallHaltWait
    <3>1. PICK l \in {"resume", "fail", "wait", "stopped", "halt", "haltWait"} :
             \/ call' = [call EXCEPT !.at = l]
             \/ call' = [call EXCEPT !.at = l, !.status = trap[Leader]]
      BY <2>5 DEF CallEnter, CallResume, CallWait, CallExpires, CallHalt, CallHaltWait, CallGoto
    <3> QED BY <1>1, <2>1, <3>1 DEF CallRecords
  <2>3. CASE CallFail \/ CallFinish
    BY <1>1, <2>3 DEF CallFail, CallFinish, CallRecords, Images
  <2>4. CASE CallStopped(~sysCore /\ call.fn = "waitpid")
    <3>1. PICK f \in BOOLEAN : f = (call.forked \/ call.status = "fork")
      OBVIOUS
    <3>2. \/ \E l \in {"finish", "fail"} : call' = [call EXCEPT !.at = l]
          \/ call' = [call EXCEPT !.at = "fail", !.sig = call.status]
          \/ call' = [call EXCEPT !.at = "resume", !.forked = f]
      <4>1. (call.forked \/ call.status = "fork") = f
        BY <3>1
      <4> QED BY <2>4, <4>1, Zenon DEF CallStopped, CallGoto
    <3> QED BY <1>1, <3>2 DEF CallRecords
  <2> QED BY <2>2, <2>3, <2>4, <2>5, CallCases
<1>6. image' \in Images
  <2>1. CASE CallFail \/ CallFinish
    BY <1>1, <2>1 DEF CallFail, CallFinish, Images
  <2>2. CASE CallEnter
    <3>1. call.fn \in {"mmap", "fork", "munmap", "waitpid"}
      BY <1>0, <1>1, CallCases DEF CallRecords, ArthurOK, Placed
    <3>2. PICK w \in {"mmap", "fork", "munmap", "waitpid", "diverted"} :
             w = IF image.where = "app" /\ image.restart THEN "diverted" ELSE call.fn
      BY <3>1
    <3>3. \/ image' = [image EXCEPT !.where = w, !.dirty = @ \cup {"slot", "regs"}]
          \/ UNCHANGED image
      BY <2>2, <3>2 DEF CallEnter
    <3> QED BY <1>1, <3>3 DEF Images, Scratch
  <2>3. CASE CallSave
    BY <1>1, <2>3 DEF CallSave
  <2> QED BY <1>1, <2>1, <2>2, <2>3, CallCases
<1>7. haltPend' \in BOOLEAN /\ wedged' \in BOOLEAN /\ swallowed' \in ForkStops
  <2>1. \A s : Consumed(s) \in ForkStops
    BY <1>0, StopFacts DEF Consumed, RemoteOK, ForkStops
  <2>2. haltPend' \in BOOLEAN /\ wedged' \in BOOLEAN
    <3>1. haltPend \in BOOLEAN /\ wedged \in BOOLEAN
      BY <1>0, Zenon DEF RemoteOK
    <3>2. CallExpires \/ CallHalt => haltPend' \in BOOLEAN
      BY <3>1, Zenon DEF CallExpires, CallHalt
    <3>3. CallHaltWait => wedged' \in BOOLEAN
      BY <3>1, Zenon DEF CallHaltWait
    <3> QED BY <3>1, <3>2, <3>3, CallCases, Zenon
  <2>3. swallowed' \in ForkStops
    <3>1. CallExpires \/ CallHaltWait => swallowed' = swallowed \/ \E s : swallowed' = Consumed(s)
      BY DEF CallExpires, CallHaltWait
    <3>2. swallowed \in ForkStops
      BY <1>0 DEF RemoteOK
    <3> QED BY <2>1, <3>1, <3>2, CallCases
  <2> QED BY <2>2, <2>3
<1>8. RemoteOK'
  <2>1. /\ sysCore' \in BOOLEAN /\ chldAction' \in {"default", "ignore", "handler"}
        /\ child' \in Children
    BY <1>0, <1>1, <1>2 DEF RemoteOK
  <2> QED BY <1>5, <1>6, <1>7, <2>1, Zenon DEF RemoteOK, Images, CallRecords, Children
<1> QED BY <1>3, <1>4, <1>5, <1>8 DEF ForkTypeOK

LEMMA ReleaseTyped ==
  ASSUME ForkTypeOK, FreeOne \/ FreeDone \/ Memory \/ SkipInt3 \/ Terminate \/ Settle \/ Leave
  PROVE  ForkTypeOK'
<1>0. ThreadsOK /\ RemoteOK /\ ArthurOK /\ LocalOK
  BY DEF ForkTypeOK
<1>1. image \in Images /\ call \in CallRecords /\ child \in Children /\ "none" \in ForkStops
  BY <1>0, CallForms
<1> USE DEF Keeps, KeepsArthur, Goto
<1>2. ASSUME UNCHANGED <<image, call, sysCore, haltPend, chldAction, swallowed, wedged>>, child' \in Children
      PROVE  RemoteOK'
  BY <1>0, <1>2 DEF RemoteOK, Children
<1>3. ASSUME UNCHANGED child, KeepsCall, UNCHANGED <<sysCore, chldAction>> PROVE RemoteOK'
  BY <1>1, <1>2, <1>3 DEF KeepsCall
<1>4. CASE FreeOne
  <2>1. PICK t \in todo :
          \E sig \in ForkStops :
             /\ todo' = todo \ {t}
             /\ \/ (DetachOk(t, sig) \/ DetachGone(t)) /\ UNCHANGED rc
                \/ DetachBroken(t) /\ rc' = -1
    <3>1. PICK t \in todo :
            LET sig == IF t = Leader /\ detachSig # "none" THEN detachSig ELSE relay[t] IN
             /\ todo' = todo \ {t}
             /\ \/ (DetachOk(t, sig) \/ DetachGone(t)) /\ UNCHANGED rc
                \/ DetachBroken(t) /\ rc' = -1
      BY <1>4 DEF FreeOne
    <3>2. (IF t = Leader /\ detachSig # "none" THEN detachSig ELSE relay[t]) \in ForkStops
      BY <1>0 DEF ArthurOK, LocalOK
    <3> QED BY <3>1, <3>2
  <2>2. ThreadsOK' /\ broken' \in BOOLEAN
    BY <1>0, <2>1, AlarmTyped DEF ArthurOK
  <2>3. ArthurOK'
    BY <1>0, <1>4, <2>1, <2>2 DEF FreeOne, ArthurOK, RoundsLeft, Placed, Killing, KeepsCall
  <2>4. LocalOK' /\ RemoteOK'
    BY <1>0, <1>3, <1>4 DEF FreeOne, local, LocalOK
  <2> QED BY <2>2, <2>3, <2>4 DEF ForkTypeOK
<1>5. CASE FreeDone
  <2>1. ThreadsOK'
    BY <1>0, <1>5, CallsOfThreads DEF FreeDone, KeepsTarget
  <2>2. relay' \in [Tids -> ForkStops]
    BY <1>1, <1>5 DEF FreeDone
  <2>3. /\ pc = "free"
        /\ \/ pc' \in {"returned", "memory"}
           \/ pc' \in {"terminate", "skip"} /\ after' \in {"returned", "reattach"}
    <3>1. CASE rc # 0
      BY <1>5, <3>1 DEF FreeDone
    <3>2. CASE rc = 0
      BY <1>5, <3>2 DEF FreeDone
    <3> QED BY <3>1, <3>2
  <2>4. ArthurOK'
    <3>1. /\ UNCHANGED <<control, tid, status, waitErr, scan, cursor, seen, todo, collected,
                        unavailable, rounds, rc, published, timedOut, overtaken, broken>>
      BY <1>5 DEF FreeDone, KeepsTarget
    <3>2. pc' \in ForkSteps /\ RoundsLeft' /\ Placed'
      BY <1>0, <2>3, <3>1 DEF ArthurOK, RoundsLeft, Placed, Killing, Ending, ForkSteps, Steps
    <3> QED BY <1>0, <2>2, <3>1, <3>2 DEF ArthurOK
  <2>5. LocalOK' /\ RemoteOK'
    BY <1>0, <1>1, <1>3, <1>5 DEF FreeDone, LocalOK
  <2> QED BY <2>1, <2>4, <2>5 DEF ForkTypeOK
<1>6. CASE Memory
  <2>1. ThreadsOK'
    BY <1>0, <1>6, CallsOfThreads DEF Memory, KeepsTarget
  <2>2. ArthurOK'
    BY <1>0, <1>6 DEF Memory, KeepsTarget, ArthurOK, RoundsLeft, Placed, Killing, Ending, ForkSteps
  <2>3. LocalOK' /\ RemoteOK'
    BY <1>0, <1>3, <1>6 DEF Memory, LocalOK
  <2> QED BY <2>1, <2>2, <2>3 DEF ForkTypeOK
<1>7. CASE SkipInt3
  <2>1. ThreadsOK'
    BY <1>0, <1>7, CallsOfThreads DEF SkipInt3
  <2>2. pc' \in {"terminate", "restore", "returned", "reattach"} /\ (pc' = "terminate" => after' # "none")
    BY <1>0, <1>7 DEF SkipInt3, LocalOK, ArthurOK, Placed, Killing
  <2>3. ArthurOK' /\ LocalOK'
    BY <1>0, <1>7, <2>2 DEF SkipInt3, KeepsForChild, ArthurOK, LocalOK, RoundsLeft, Placed, Killing, Ending, ForkSteps, Steps
  <2>4. child' \in Children
    BY <1>1, <1>7 DEF SkipInt3, Children
  <2>5. RemoteOK'
    BY <1>2, <1>7, <2>4 DEF SkipInt3, KeepsForChild, KeepsCall
  <2> QED BY <2>1, <2>3, <2>5 DEF ForkTypeOK
<1>8. CASE Terminate
  <2>1. \/ UNCHANGED <<target, child>>
        \/ UNCHANGED target /\ \/ child' = [child EXCEPT !.state = "dying", !.traced = FALSE]
                               \/ child' = [child EXCEPT !.state = "dying"]
        \/ Report(child) /\ UNCHANGED <<task, traced, stopPend, trap, jobStop, sleeps>>
    BY <1>8 DEF Terminate
  <2>2. child' \in Children /\ ThreadsOK'
    <3>1. CASE UNCHANGED <<target, child>>
      BY <1>0, <1>1, <3>1, CallsOfThreads
    <3>2. CASE UNCHANGED target /\ \/ child' = [child EXCEPT !.state = "dying", !.traced = FALSE]
                                   \/ child' = [child EXCEPT !.state = "dying"]
      BY <1>0, <1>1, <3>2, CallsOfThreads DEF Children
    <3>3. CASE Report(child) /\ UNCHANGED <<task, traced, stopPend, trap, jobStop, sleeps>>
      <4>1. PICK d \in BOOLEAN : d = child.core
        BY <1>1 DEF Children
      <4>2. aim' \in [Ordinary -> Tids] /\ fate' \in [Signals -> Fates] /\ child' \in Children
        BY <1>0, <3>3, <4>1, ReportTyped
      <4> QED BY <1>0, <3>3, <4>2 DEF ThreadsOK, Trapped
    <3> QED BY <2>1, <3>1, <3>2, <3>3
  <2>3. restored' \in BOOLEAN
    <3>1. restored' = restored \/ restored' = FALSE
      BY <1>8, Zenon DEF Terminate
    <3> QED BY <1>0, <3>1, Zenon DEF LocalOK
  <2>4. \/ pc' = "terminate" /\ after' = after /\ pc = "terminate"
        \/ pc' = after /\ after' = "none" /\ pc = "terminate"
    BY <1>8 DEF Terminate
  <2>5. ArthurOK' /\ after' \in {"none", "restore", "returned", "reattach"}
    BY <1>0, <1>8, <2>4 DEF Terminate, KeepsForChild, ArthurOK, LocalOK, RoundsLeft, Placed, Killing, Ending, ForkSteps, Steps
  <2>6. LocalOK'
    BY <1>0, <1>8, <2>3, <2>5 DEF Terminate, KeepsForChild, LocalOK
  <2>7. RemoteOK'
    BY <1>2, <1>8, <2>2 DEF Terminate, KeepsForChild, KeepsCall
  <2> QED BY <2>2, <2>5, <2>6, <2>7 DEF ForkTypeOK
<1>9. CASE Settle
  <2>1. ThreadsOK'
    BY <1>0, <1>9, CallsOfThreads DEF Settle, KeepsTarget
  <2>2. pc = "settle" /\ pc' \in {"commit", "returned"} /\ rc' \in {-1, 0}
    BY <1>0, <1>9 DEF Settle, ArthurOK
  <2>3. ArthurOK' /\ LocalOK'
    BY <1>0, <1>1, <1>9, <2>2 DEF Settle, KeepsTarget, ArthurOK, LocalOK, RoundsLeft, Placed, Killing, Ending, ForkSteps, Steps
  <2>4. RemoteOK'
    BY <1>3, <1>9 DEF Settle
  <2> QED BY <2>1, <2>3, <2>4 DEF ForkTypeOK
<1>10. CASE Leave
  <2>1. ThreadsOK'
    BY <1>0, <1>10, CallsOfThreads DEF Leave, ProcessExit
  <2>2. ArthurOK' /\ LocalOK'
    BY <1>0, <1>10 DEF Leave, ProcessExit, local, ArthurOK, LocalOK, RoundsLeft, Placed, Killing, Ending, ForkSteps, Steps
  <2>3. child' \in Children
    BY <1>1, <1>10 DEF Leave, Children
  <2>4. RemoteOK'
    BY <1>2, <1>10, <2>3 DEF Leave, KeepsCall
  <2> QED BY <2>1, <2>2, <2>4 DEF ForkTypeOK
<1> QED BY <1>4, <1>5, <1>6, <1>7, <1>8, <1>9, <1>10

LEMMA ReapTyped ==
  ASSUME ForkTypeOK,
         \/ Reattach \/ Rewait \/ Recont \/ Reundo \/ Rejudge \/ WaitpidDone \/ Reset \/ Redetach
  PROVE  ForkTypeOK'
<1>0. ThreadsOK /\ RemoteOK /\ ArthurOK /\ LocalOK
  BY DEF ForkTypeOK
<1>1. /\ image \in Images /\ call \in CallRecords /\ child \in Children
      /\ PutBack \in Images /\ NoCall \in CallRecords
      /\ \A f \in {"mmap", "fork", "munmap", "waitpid"} : CallBegin(f) => call' \in CallRecords
      /\ Intercepted \in ForkStops /\ "none" \in ForkStops
  BY <1>0, CallForms
<1>2. Leader \in Tids /\ trap[Leader] \in ForkStops
  BY <1>0, LeaderTid DEF ThreadsOK
<1>3. /\ pc' \in {"rewait", "rejudge", "reundo", "recont", "settle", "redetach", "reset", "call"}
      /\ pc \in {"reattach", "rewait", "recont", "reundo", "rejudge", "reset", "redetach", "call"}
      /\ Keeps /\ UNCHANGED <<todo, relay, rc, child, plan, after, snapshot>>
  BY DEF Reattach, Rewait, Recont, Reundo, Rejudge, WaitpidDone, Reset, Redetach,
         KeepsForReap, KeepsForCall, Done, Goto
<1>4. ThreadsOK' /\ broken' \in BOOLEAN
  <2>1. broken \in BOOLEAN
    BY <1>0, Zenon DEF ArthurOK
  <2>2. CASE UNCHANGED <<target, broken>>
    BY <1>0, <2>1, <2>2, CallsOfThreads
  <2>3. CASE Reattach \/ Rewait
    BY <1>0, <1>2, <2>1, <2>3, CallsOfThreads DEF Reattach, Rewait
  <2>4. CASE Recont
    BY <1>0, <2>1, <2>4, CallsOfThreads DEF Recont
  <2>5. CASE Reundo
    BY <1>0, <1>2, <2>5, AlarmTyped DEF Reundo, ArthurOK
  <2>6. CASE Redetach
    BY <1>0, <1>2, <2>6, AlarmTyped DEF Redetach, LocalOK
  <2> QED BY <2>2, <2>3, <2>4, <2>5, <2>6 DEF Rejudge, WaitpidDone, Reset, KeepsForCall, KeepsTarget
<1>5. /\ status' \in ForkStops /\ detachSig' \in ForkStops
      /\ waitErr' \in {"none", "ESRCH", "ETIMEDOUT", "other"}
  BY <1>0, <1>1, <1>2 DEF Reattach, Rewait, Recont, Reundo, Rejudge, WaitpidDone, Reset, Redetach,
     KeepsForCall, ArthurOK, LocalOK
<1>6. restored' \in BOOLEAN
  <2>1. restored \in BOOLEAN
    BY <1>0, Zenon DEF LocalOK
  <2>2. CASE Reset
    BY <2>1, <2>2, Zenon DEF Reset
  <2>3. CASE Redetach
    BY <2>1, <2>3, Zenon DEF Redetach
  <2> QED BY <2>1, <2>2, <2>3 DEF Reattach, Rewait, Recont, Reundo, Rejudge, WaitpidDone, KeepsForCall
<1>7. image' \in Images /\ call' \in CallRecords /\ (pc' = "call" => call'.fn # "none")
  <2>1. CASE Rejudge
    BY <1>1, <2>1 DEF Rejudge, Images, CallBegin, NoCall, Goto
  <2> QED BY <1>1, <2>1 DEF Reattach, Rewait, Recont, Reundo, WaitpidDone, Reset, Redetach,
          KeepsForCall, KeepsCall, Goto
<1>8. haltPend' \in BOOLEAN /\ UNCHANGED <<swallowed, wedged>>
  <2>1. haltPend' = haltPend \/ haltPend' = FALSE
    BY Zenon DEF Reattach, Rewait, Recont, Reundo, Rejudge, WaitpidDone, Reset, Redetach,
       KeepsForCall, KeepsCall
  <2>2. haltPend' \in BOOLEAN
    BY <1>0, <2>1, Zenon DEF RemoteOK
  <2> QED BY <2>2 DEF Reattach, Rewait, Recont, Reundo, Rejudge, WaitpidDone, Reset, Redetach,
       KeepsForCall, KeepsCall
<1>9. RemoteOK'
  BY <1>0, <1>3, <1>7, <1>8 DEF RemoteOK, Images, CallRecords, Keeps
<1>10. ArthurOK'
  <2>1. pc' \in ForkSteps /\ RoundsLeft' /\ Placed'
    BY <1>0, <1>3, <1>7 DEF ArthurOK, RoundsLeft, Placed, Killing, Ending, ForkSteps, Keeps, KeepsArthur
  <2> QED BY <1>0, <1>3, <1>4, <1>5, <2>1 DEF ArthurOK, Keeps, KeepsArthur
<1>11. LocalOK'
  BY <1>0, <1>3, <1>5, <1>6 DEF LocalOK
<1> QED BY <1>4, <1>9, <1>10, <1>11 DEF ForkTypeOK

LEMMA EnvironmentMoves ==
  ASSUME ForkTypeOK, ForkEnvironment
  PROVE  RemoteStep /\ ForkTypeOK'
<1>1. RemoteStep
  BY RemoteMoves DEF ForkEnvironment, ForkTypeOK
<1>2. ArthurOK' /\ LocalOK'
  BY <1>1 DEF ForkEnvironment, ForkTypeOK, RemoteStep, arthur, local, ArthurOK, LocalOK, RoundsLeft, Placed
<1> QED BY <1>1, <1>2 DEF RemoteStep, KernelStep, ForkTypeOK

LEMMA ForkTypeNext == ForkTypeOK /\ [ForkNext]_forkVars => ForkTypeOK'
<1> SUFFICES ASSUME ForkTypeOK, [ForkNext]_forkVars PROVE ForkTypeOK'
    OBVIOUS
<1>1. CASE UNCHANGED forkVars
  BY <1>1, CallsOfThreads DEF forkVars, vars, remote, local, arthur, ForkTypeOK, RemoteOK, ArthurOK,
     LocalOK, RoundsLeft, Placed
<1>2. CASE ForkArthur
  BY <1>2, SharedTyped, InjectionTyped, CallTyped, ReleaseTyped, ReapTyped DEF ForkArthur
<1>3. CASE ForkEnvironment
  BY <1>3, EnvironmentMoves
<1> QED BY <1>1, <1>2, <1>3 DEF ForkNext

\* Every variable of the fork snapshot keeps its type, for any number of threads,
\* signals, rounds and sleeps.
THEOREM ForkTypeCorrect == ForkSpec => []ForkTypeOK
  BY ForkTypeInit, ForkTypeNext, PTL DEF ForkSpec

-----------------------------------------------------------------------------
(* The target is given back as it was                                      *)

LEMMA ImageInit == ForkInit => ImageInv
<1> SUFFICES ASSUME ForkInit PROVE ImageInv
    OBVIOUS
<1>1. /\ pc = "start" /\ rc = 0 /\ plan = "undecided" /\ after = "none" /\ detachSig = "none"
      /\ call = NoCall /\ child = NoChild /\ swallowed = "none"
      /\ image = [where |-> "app", dirty |-> {}, restart |-> FALSE, ret |-> "none"]
  BY DEF ForkInit, Init, RemoteInit
<1>2. ~haltPend /\ ~wedged /\ restored
  BY Zenon DEF ForkInit, RemoteInit
<1>3. Untouched
  BY <1>1, <1>2 DEF Untouched, Steps
<1> QED BY <1>1, <1>2, <1>3 DEF ImageInv, Settled, Executing, Saved, Tracing, Restoring, Borrowed, Killing,
     Failing

\* The kernel neither starts a halt of Arthur nor a child.
LEMMA RemoteIdle ==
  ASSUME ThreadsOK, RemoteOK, RemoteTarget
  PROVE  (haltPend' => haltPend) /\ (child = NoChild /\ image.where = "app" => child' = child)
<1>1. ASSUME NEW s \in Signals \ {"chld"}, haltPend' = (haltPend /\ s # "CONT"),
             UNCHANGED <<image, call, child, sysCore, chldAction, swallowed, wedged>>
      PROVE  (haltPend' => haltPend) /\ child' = child
  BY <1>1, Zenon
<1>2. UNCHANGED remote => (haltPend' => haltPend) /\ child' = child
  BY DEF remote
<1>3. HaltStop => (haltPend' => haltPend) /\ child' = child
  BY DEF HaltStop
<1>4. Injected => UNCHANGED haltPend /\ image.where # "app"
  BY DEF Injected, Forks
<1>5. ChildSteps => UNCHANGED haltPend /\ child # NoChild
  <2>1. ChildSteps => child.state # "none" /\ UNCHANGED haltPend
    BY DEF ChildSteps, ChildRuns, ChildMeets
  <2> QED BY <2>1 DEF NoChild
<1> QED BY <1>1, <1>2, <1>3, <1>4, <1>5 DEF RemoteTarget

LEMMA ImageEnvironment ==
  ASSUME ForkTypeOK, ImageInv, ForkEnvironment
  PROVE  ImageInv'
<1>0. /\ ThreadsOK /\ RemoteOK /\ ArthurOK /\ LocalOK /\ RemoteTarget
      /\ Untouched /\ Settled /\ Executing /\ Saved /\ Tracing /\ Restoring
  BY DEF ForkTypeOK, ImageInv, ForkEnvironment
<1>1. RemoteStep /\ UNCHANGED <<arthur, local, call, wedged, swallowed>> /\ traced' = traced
  BY EnvironmentMoves DEF ForkEnvironment, RemoteStep, KernelStep
<1>2. UNCHANGED <<pc, rc, plan, after, detachSig, restored>>
  BY <1>1 DEF arthur, local
<1>3. /\ Ours' => Ours
      /\ Ours' /\ Held => trap'[Leader] = trap[Leader]
  BY <1>0, <1>1, LeaderTid DEF RemoteStep, KernelStep, Ours, Held, ThreadsOK
<1>4. /\ Plain \/ ChildMoves => UNCHANGED image
      /\ Landing => ~Held /\ image.where \notin {"app", "landed"}
      /\ Forked => ~Held /\ image.where = "fork" /\ image'.where = "forked" /\ image'.dirty = image.dirty
  BY DEF Plain, ChildMoves, Landing, Forked, Running, Forks
<1>5. Untouched'
  <2>1. plan # "fork" => UNCHANGED image /\ child' = child /\ (haltPend' => haltPend)
    BY <1>0, <1>1, <1>4, RemoteIdle DEF Untouched, RemoteStep
  <2> QED BY <1>0, <1>1, <1>2, <2>1 DEF Untouched
<1>6. Failing' = Failing /\ (pc = "call" => rc # -1)
  BY <1>0, <1>1, <1>2 DEF Failing, Settled, Killing
<1>7. Settled' /\ Saved' /\ Tracing'
  BY <1>0, <1>1, <1>2 DEF Settled, Saved, Tracing
<1>8. Executing'
  <2>1. image'.where = "fork" => image.where = "fork"
    BY <1>1, <1>4 DEF RemoteStep, Landing
  <2>2. pc = "call" /\ call.at \notin {"fail", "done"} => ~Failing
    BY <1>6 DEF Failing, Killing
  <2>3. image.where = "landed" => image'.where = "landed"
    BY <1>1, <1>4 DEF RemoteStep
  <2>4. image'.where \in {image.where, "landed"} \/ (image.where = "fork" /\ image'.where = "forked")
    BY <1>1, <1>4 DEF RemoteStep, Landing
  <2>5. trap'[Leader] = "fault" => trap[Leader] = "fault" \/ image'.where = "landed"
    <3>1. Forked => trap'[Leader] # "fault"
      BY <1>0, LeaderTid DEF Forked, Forks, Running, Held, Trapped, ThreadsOK
    <3> QED BY <1>1, <3>1 DEF RemoteStep, Plain, Landing, ChildMoves
  <2> QED BY <1>0, <1>1, <1>2, <1>6, <2>1, <2>2, <2>3, <2>4, <2>5 DEF Executing
<1>9. Restoring'
  <2> SUFFICES ASSUME Ours' PROVE Restoring'
    BY DEF Restoring
  <2>1. Ours /\ Borrowed' = Borrowed /\ Unsaved' = Unsaved
    BY <1>1, <1>2, <1>3 DEF Borrowed, Unsaved
  <2>2. CASE ~Borrowed
    BY <1>0, <1>1, <1>4, <2>1, <2>2 DEF Restoring, RemoteStep
  <2>3. CASE Borrowed /\ Held
    <3>1. UNCHANGED image
      BY <1>1, <1>4, <2>3 DEF RemoteStep
    <3>2. Held'
      BY <1>3, <2>3 DEF Held, Trapped
    <3> QED BY <1>0, <2>1, <2>3, <3>1, <3>2 DEF Restoring
  <2>4. CASE Borrowed /\ ~Held
    <3>1. pc = "call" /\ call.at \in {"wait", "halt", "haltWait"} /\ Leader \in traced
      BY <1>0, <2>1, <2>4 DEF Restoring
    <3>2. Unsaved = Scratch
      BY <1>0, <3>1 DEF Saved, Unsaved
    <3>3. image'.dirty \subseteq image.dirty \cup {"red", "xstate"}
      BY <1>1, <1>4 DEF RemoteStep, Landing
    <3> QED BY <1>0, <1>1, <1>2, <2>1, <2>4, <3>1, <3>2, <3>3 DEF Restoring, Scratch
  <2> QED BY <2>2, <2>3, <2>4
<1> QED BY <1>5, <1>7, <1>8, <1>9 DEF ImageInv

\* No system call of Arthur brings a thread back.
LEMMA NobodyRevived ==
  ASSUME ForkTypeOK, ForkArthur
  PROVE  \A t \in Tids : Alive(t)' => Alive(t)
<1>0. task \in [Tids -> {"none", "run", "sleep", "zombie", "gone"}] /\ Leader \in Tids /\ tid \in Tids
  BY LeaderTid DEF ForkTypeOK, ThreadsOK, ArthurOK
<1>1. ASSUME UNCHANGED task \/ (\E t \in Tids : SysReap(t)) PROVE \A t \in Tids : Alive(t)' => Alive(t)
  BY <1>0, <1>1 DEF SysReap, Alive
<1>2. Begin \/ Refuse \/ Plan \/ MmapDone \/ WriteShell \/ ForkDone \/ Poke \/ MunmapDone
      \/ PutBackRegs \/ Restore \/ FreeDone \/ Memory \/ SkipInt3 \/ Settle \/ Rejudge
      \/ WaitpidDone \/ Reset => UNCHANGED task
  BY DEF Begin, Start, Refuse, Plan, MmapDone, WriteShell, ForkDone, Poke, MunmapDone, PutBackRegs,
     Restore, FreeDone, Memory, SkipInt3, Settle, Rejudge, WaitpidDone, Reset, KeepsTarget,
     KeepsForCall, target
<1>3. FreeOne \/ Reattach \/ Recont \/ Reundo \/ Redetach \/ Leave => UNCHANGED task
  BY DEF FreeOne, Reattach, Recont, Reundo, Redetach, Leave, DetachOk, DetachGone, DetachBroken,
     SysDetach, SysAttach, SysCont, ProcessExit, SysTracerExit, target
<1>4. Terminate => UNCHANGED task
  BY DEF Terminate, target
<1>5. Rewait => UNCHANGED task \/ SysReap(Leader)
  BY DEF Rewait, target
<1>6. Calls => UNCHANGED task \/ SysReap(Leader)
  <2>1. UNCHANGED target \/ CallResume => UNCHANGED task
    BY DEF target, CallResume
  <2>2. CallWait \/ CallHaltWait => UNCHANGED task \/ SysReap(Leader)
    BY DEF target, CallWait, CallHaltWait
  <2> QED BY <2>1, <2>2, CallCases
<1>7. Shared => UNCHANGED task \/ SysReap(tid)
  <2>1. ScanStep \/ ScanEnd \/ Pick \/ AttachNext \/ Attach \/ Wait \/ Cont \/ Undo \/ Classify
        => UNCHANGED task \/ SysReap(tid)
    BY DEF ScanStep, ScanEnd, Pick, AttachNext, Attach, Wait, Cont, Undo, Classify,
       SysAttach, SysCont, SysDetach, target
  <2>2. GiveUp \/ WriteThread \/ ReleaseOne \/ ReleaseDone \/ Commit \/ WriteStage => UNCHANGED task
    BY DEF GiveUp, WriteThread, ReleaseOne, ReleaseDone, Commit, WriteStage, DetachOk, DetachGone,
       DetachBroken, SysDetach, target
  <2> QED BY <2>1, <2>2 DEF Shared
<1> QED BY <1>0, <1>1, <1>2, <1>3, <1>4, <1>5, <1>6, <1>7 DEF ForkArthur

LEMMA ImageShared ==
  ASSUME ForkTypeOK, ImageInv, Begin \/ Refuse \/ Shared
  PROVE  ImageInv'
<1>0. /\ ArthurOK /\ Untouched /\ Settled /\ Executing /\ Saved /\ Tracing /\ Restoring
  BY DEF ForkTypeOK, ImageInv
<1>1. UNCHANGED <<remote, after, detachSig, restored>>
  BY DEF Begin, Refuse, Shared, local, remote, Keeps, KeepsCall
<1>2. pc \in Steps /\ pc' \in Steps /\ (plan' = "fork" => plan = "fork")
  <2>1. pc \in Steps /\ (plan' = "fork" => plan = "fork")
    BY DEF Begin, Start, Fail, Refuse, Shared, local, ScanStep, ScanEnd, Pick, AttachNext, Attach, Wait, Cont,
       Undo, Classify, GiveUp, WriteThread, ReleaseOne, ReleaseDone, Commit, WriteStage, Writing, Steps
  <2>2. pc' \in Steps
    BY <2>1 DEF Begin, Start, Fail, Refuse, Shared, ScanStep, ScanEnd, Pick, AttachNext, Attach, Wait, Cont,
       Undo, Classify, GiveUp, WriteThread, ReleaseOne, ReleaseDone, Commit, WriteStage, AfterStage, Writing,
       Steps, Goto, ScanFor, Attached, AttachFailed
  <2> QED BY <2>1, <2>2
<1>3. /\ rc = -1 => rc' = -1
      /\ rc' = -1 => pc' \in {"release", "returned"}
  <2>1. rc = -1 => pc \in {"release", "returned", "exited"}
    BY <1>0, <1>2 DEF Settled, Killing, Steps
  <2>2. CASE Begin \/ Refuse
    BY <2>1, <2>2 DEF Begin, Refuse, Start, Fail, Goto
  <2>3. CASE ScanStep \/ ScanEnd \/ Pick \/ AttachNext \/ Attach \/ Wait \/ Cont
    BY <2>1, <2>3 DEF ScanStep, ScanEnd, Pick, AttachNext, Attach, Wait, Cont, Fail, Goto, AttachFailed
  <2>4. CASE Undo \/ Classify \/ GiveUp \/ WriteThread \/ WriteStage
    BY <2>1, <2>4 DEF Undo, Classify, GiveUp, WriteThread, WriteStage, Writing, Fail, Goto, Attached, AttachFailed
  <2>5. CASE ReleaseOne \/ ReleaseDone \/ Commit
    BY <1>0, <2>1, <2>5 DEF ReleaseOne, ReleaseDone, Commit, Goto, ArthurOK
  <2> QED BY <2>2, <2>3, <2>4, <2>5 DEF Shared
<1>4. plan = "fork" => /\ pc \in {"release", "commit"} /\ (pc' = "release" => rc' = -1)
                       /\ pc' \in {"release", "commit", "returned"} /\ plan' = "fork"
  <2> SUFFICES ASSUME plan = "fork"
               PROVE  /\ pc \in {"release", "commit"} /\ (pc' = "release" => rc' = -1)
                      /\ pc' \in {"release", "commit", "returned"} /\ plan' = "fork"
    OBVIOUS
  <2>1. pc \notin Early /\ (pc = "release" => rc = -1)
    BY <1>0 DEF Untouched
  <2>2. ReleaseOne \/ ReleaseDone \/ Commit
    BY <2>1 DEF Begin, Refuse, Shared, ScanStep, ScanEnd, Pick, AttachNext, Attach, Wait, Cont,
       Undo, Classify, GiveUp, WriteThread, WriteStage, Writing, Early
  <2>3. plan' = "fork"
    BY <2>1 DEF Begin, Refuse, Shared, local, Early
  <2> QED BY <1>3, <2>1, <2>2, <2>3 DEF ReleaseOne, ReleaseDone, Commit, Goto
<1>5. Ours' => Ours
  BY <1>1, NobodyRevived, LeaderTid DEF ForkArthur, Ours, remote
<1> USE <1>0, <1>1, <1>2
<1>6. Untouched'
  BY <1>3, <1>4 DEF Untouched, remote, Early
<1>7. Settled'
  BY <1>3 DEF Settled, Killing, Steps
<1>8. Executing'
  BY <1>3, <1>4 DEF Executing, Failing, Untouched, remote, Killing, Steps
<1>9. Saved' /\ Tracing'
  BY DEF Saved, Tracing, Steps
<1>10. Restoring'
  BY <1>5 DEF Restoring, Borrowed, Killing, Steps, remote
<1> QED BY <1>6, <1>7, <1>8, <1>9, <1>10 DEF ImageInv

LEMMA ImageCalls ==
  ASSUME ForkTypeOK, ImageInv, Calls
  PROVE  ImageInv'
<1>0. /\ ThreadsOK /\ RemoteOK /\ ArthurOK /\ LocalOK
      /\ Untouched /\ Settled /\ Executing /\ Saved /\ Tracing /\ Restoring
  BY DEF ForkTypeOK, ImageInv
<1>1. call \in CallRecords /\ image \in Images
  BY <1>0, CallForms
<1>2. /\ pc = "call" /\ UNCHANGED <<pc, rc, plan, after, detachSig, restored>>
      /\ UNCHANGED <<arthur, local, child, sysCore, chldAction>>
  BY CallCases DEF arthur, local
<1>3. plan = "fork" /\ rc # -1
  BY <1>0, <1>2 DEF Untouched, Settled, Steps, Killing
<1>4. call'.fn = call.fn
  <2>1. CASE CallSave \/ CallEnter \/ CallResume \/ CallWait \/ CallExpires \/ CallHalt \/ CallHaltWait
    BY <1>1, <2>1 DEF CallSave, CallEnter, CallResume, CallWait, CallExpires, CallHalt,
       CallHaltWait, CallGoto, CallRecords
  <2>2. CASE CallFail \/ CallFinish \/ CallStopped(~sysCore /\ call.fn = "waitpid")
    BY <1>1, <2>2 DEF CallFail, CallFinish, CallStopped, CallGoto, CallRecords
  <2> QED BY <2>1, <2>2, CallCases
<1>5. Untouched' /\ Settled'
  BY <1>0, <1>2, <1>3 DEF Untouched, Settled, Early, Killing
<1>6. Ours' => Ours
  <2>1. CASE UNCHANGED wedged
    BY <2>1, NobodyRevived, LeaderTid DEF ForkArthur, Ours
  <2>2. CASE CallHaltWait
    <3>1. CASE UNCHANGED wedged
      BY <2>1, <3>1
    <3>2. CASE wedged' = TRUE
      BY <3>2 DEF Ours
    <3> QED BY <2>2, <3>1, <3>2 DEF CallHaltWait
  <2> QED BY <2>1, <2>2, CallCases
\* What a step of pt_call turns the call and the image into.
<1>7. \/ /\ call.at = "save" /\ UNCHANGED <<target, image>>
         /\ \/ Held /\ call'.at = "enter" /\ call'.saved = Scratch
            \/ call'.at = "fail"
      \/ /\ call.at = "enter" /\ UNCHANGED target /\ call'.saved = call.saved
         /\ \/ /\ call'.at = "resume" /\ image'.where \in {call.fn, "diverted"}
               /\ image'.dirty = image.dirty \cup {"slot", "regs"}
            \/ call'.at = "fail" /\ UNCHANGED image
      \/ /\ call.at = "resume" /\ UNCHANGED <<image, traced>> /\ call'.saved = call.saved
         /\ \/ Held /\ call'.at = "wait" /\ trap'[Leader] = "none"
            \/ ~Held /\ call'.at = "fail" /\ UNCHANGED trap
      \/ /\ call.at = "wait" /\ UNCHANGED image /\ call'.saved = call.saved
         /\ \/ Held /\ call'.at = "stopped" /\ call'.status = trap[Leader] /\ UNCHANGED target
            \/ CanReap(Leader) /\ SysReap(Leader) /\ call'.at = "fail"
            \/ call'.at = "halt" /\ UNCHANGED target
      \/ /\ call.at = "stopped" /\ UNCHANGED <<target, image>> /\ call'.saved = call.saved
         /\ \/ call.status = "fault" /\ call'.at = "finish"
            \/ call'.at \in {"fail", "resume"}
      \/ /\ call.at = "halt" /\ UNCHANGED <<target, image>> /\ call'.saved = call.saved
         /\ \/ task[Leader] = "gone" /\ call'.at = "fail"
            \/ call'.at = "haltWait"
      \/ /\ call.at = "haltWait" /\ call'.at = "fail" /\ UNCHANGED image /\ call'.saved = call.saved
         /\ \/ Held /\ UNCHANGED target
            \/ CanReap(Leader) /\ SysReap(Leader)
            \/ wedged' = TRUE /\ UNCHANGED target
      \/ /\ call.at \in {"fail", "finish"} /\ UNCHANGED target /\ call'.at = "done"
         /\ call.at = "fail" => call'.result = "failed"
         /\ image'.where = image.where
         /\ Held => image'.dirty = image.dirty \ call.saved
  <2>1. CASE CallSave
    BY <1>1, <2>1 DEF CallSave, CallGoto, CallRecords, Scratch
  <2>2. CASE CallEnter
    BY <1>1, <2>2 DEF CallEnter, CallGoto, CallRecords, Images
  <2>3. CASE CallResume
    BY <1>0, <1>1, <2>3, LeaderTid, CallCases DEF CallResume, CallGoto, CallRecords, ThreadsOK
  <2>4. CASE CallWait
    BY <1>1, <2>4 DEF CallWait, CallGoto, CallRecords
  <2>5. CASE CallExpires
    BY <1>1, <2>5 DEF CallExpires, CallGoto, CallRecords
  <2>6. CASE CallStopped(~sysCore /\ call.fn = "waitpid")
    BY <1>1, <2>6 DEF CallStopped, CallGoto, CallRecords
  <2>7. CASE CallHalt
    BY <1>1, <2>7 DEF CallHalt, CallGoto, CallRecords
  <2>8. CASE CallHaltWait
    BY <1>1, <2>8 DEF CallHaltWait, CallGoto, CallRecords
  <2>9. CASE CallFail \/ CallFinish
    BY <1>1, <2>9 DEF CallFail, CallFinish, CallRecords, Images
  <2> QED BY <2>1, <2>2, <2>3, <2>4, <2>5, <2>6, <2>7, <2>8, <2>9, CallCases
<1>8. Saved'
  BY <1>0, <1>2, <1>7 DEF Saved
<1>9. Tracing'
  <2>1. /\ traced' = traced \/ call'.at = "fail"
        /\ call'.at \notin {"fail", "done"} => call.at \notin {"fail", "done"}
        /\ call'.at = "done" /\ call'.result # "failed" => call.at = "finish"
    BY <1>7 DEF target
  <2> QED BY <1>0, <1>2, <2>1 DEF Tracing
<1>10. Restoring'
  <2> SUFFICES ASSUME Ours' PROVE Restoring'
    BY DEF Restoring
  <2>1. /\ Ours /\ image.dirty \subseteq Unsaved \cup {"regs"}
        /\ Held \/ (call.at \in {"wait", "halt", "haltWait"} /\ Leader \in traced)
    BY <1>0, <1>2, <1>6 DEF Restoring, Borrowed
  <2>2. Borrowed' /\ ~(CanReap(Leader) /\ SysReap(Leader)) /\ wedged' # TRUE /\ task[Leader] # "gone"
    BY <1>0, <1>2, <2>1, LeaderTid DEF Borrowed, Ours, Alive, CanReap
  <2>3. image'.dirty \subseteq Unsaved' \cup {"regs"}
    <3>1. CASE call.at = "enter" /\ call'.at = "resume"
      BY <1>0, <1>1, <1>2, <1>7, <2>1, <3>1 DEF Unsaved, Saved, Scratch
    <3>2. CASE call.at \in {"fail", "finish"}
      BY <1>2, <1>7, <2>1, <3>2 DEF Unsaved
    <3>3. CASE call.at \notin {"fail", "finish"} /\ UNCHANGED image
      <4>1. call.at = "save" \/ (call'.saved = call.saved /\ call'.at \notin {"save", "enter", "done"})
        BY <1>7, <3>3
      <4>2. Unsaved \subseteq Unsaved'
        BY <1>2, <3>3, <4>1 DEF Unsaved
      <4> QED BY <2>1, <3>3, <4>2
    <3> QED BY <1>7, <3>1, <3>2, <3>3
  <2>4. Held' \/ (call'.at \in {"wait", "halt", "haltWait"} /\ Leader \in traced')
    <3>1. CASE UNCHANGED target /\ Held
      BY <3>1 DEF target, Held, Trapped
    <3>2. CASE call.at = "resume" /\ Held
      BY <1>0, <1>2, <1>7, <3>2 DEF Tracing
    <3>3. CASE ~Held
      BY <1>7, <2>1, <2>2, <3>3 DEF target
    <3> QED BY <1>7, <2>2, <3>1, <3>2, <3>3
  <2> QED BY <1>2, <2>2, <2>3, <2>4 DEF Restoring
<1>11. Executing'
  <2>1. call'.at \in {"resume", "wait", "stopped", "halt", "haltWait"} =>
           image'.where \in {call'.fn, "diverted", "landed"} \/ (call'.fn = "fork" /\ image'.where = "forked")
    BY <1>0, <1>2, <1>4, <1>7 DEF Executing
  <2>2. call'.at \in {"wait", "halt", "haltWait", "stopped"} =>
           /\ trap'[Leader] = "fault" => image'.where = "landed"
           /\ call'.at = "stopped" /\ call'.status = "fault" => image'.where = "landed"
    BY <1>0, <1>2, <1>7 DEF Executing, target
  <2>3. call'.at = "finish" \/ (call'.at = "done" /\ call'.result # "failed") => image'.where = "landed"
    BY <1>0, <1>2, <1>7 DEF Executing
  <2>4. image'.where = "fork" => Failing' \/ call'.fn = "fork"
    <3>1. CASE call.at = "enter" /\ call'.at = "resume"
      BY <1>4, <1>7, <3>1
    <3>2. CASE ~(call.at = "enter" /\ call'.at = "resume")
      <4>1. image'.where = image.where
        BY <1>7, <3>2
      <4>2. Failing /\ ~(call.fn = "fork") => call.at \in {"fail", "done"} /\ call.fn = "mmap"
        BY <1>2, <1>3 DEF Failing, Killing
      <4>3. call.at \in {"fail", "done"} => call'.at = "done" /\ call'.result = "failed"
        BY <1>7
      <4> QED BY <1>0, <1>2, <1>4, <4>1, <4>2, <4>3 DEF Executing, Failing
    <3> QED BY <3>1, <3>2
  <2> QED BY <1>2, <2>1, <2>2, <2>3, <2>4 DEF Executing
<1> QED BY <1>5, <1>8, <1>9, <1>10, <1>11 DEF ImageInv

\* pt_setregs of a leader that is held with nothing but its registers changed.
LEMMA PutBackClean ==
  ASSUME RemoteOK, image' = PutBack
  PROVE  /\ Held /\ image.dirty \subseteq {"regs"} => image'.where = "app" /\ image'.dirty = {}
         /\ image'.where \in {"app", image.where}
  BY DEF RemoteOK, PutBack, Scratch

LEMMA ImageInjection ==
  ASSUME ForkTypeOK, ImageInv,
         Plan \/ MmapDone \/ WriteShell \/ ForkDone \/ Poke \/ MunmapDone \/ PutBackRegs \/ Restore
  PROVE  ImageInv'
<1>0. /\ ThreadsOK /\ RemoteOK /\ ArthurOK /\ LocalOK
      /\ Untouched /\ Settled /\ Executing /\ Saved /\ Tracing /\ Restoring
  BY DEF ForkTypeOK, ImageInv
<1>1. UNCHANGED <<target, wedged, restored>>
  BY DEF Plan, MmapDone, WriteShell, ForkDone, Poke, MunmapDone, PutBackRegs, Restore,
         KeepsTarget, KeepsForCall, local
<1>2. (Ours' => Ours) /\ (Held => Held') /\ (Held => Leader \in traced) /\ traced' = traced
  BY <1>0, <1>1, LeaderTid DEF target, Ours, Alive, Held, Trapped, ThreadsOK
<1>3. /\ pc \in {"loads", "call", "shell", "poke", "putBack", "restore"} /\ rc # -1
      /\ pc # "loads" => plan = "fork" /\ plan' = "fork"
  BY <1>0 DEF Plan, MmapDone, WriteShell, ForkDone, Poke, MunmapDone, PutBackRegs, Restore,
     KeepsForCall, Done, Untouched, Settled, Killing, Steps, local
<1> USE <1>0, <1>1, <1>3 DEF Goto, Fail
<1>4. CASE Plan
  <2>1. /\ plan # "fork" /\ image.where = "app" /\ image.dirty = {} /\ call = NoCall /\ child = NoChild
        /\ ~haltPend /\ ~wedged /\ swallowed = "none" /\ after = "none" /\ detachSig = "none" /\ restored
    BY <1>4 DEF Plan, Untouched
  <2>2. UNCHANGED <<child, haltPend, wedged, swallowed, after, detachSig>>
    BY <1>4 DEF Plan
  <2>3. image'.where = "app" /\ image'.dirty = {}
    BY <1>4, <2>1 DEF Plan, RemoteOK
  <2>4. \/ UNCHANGED <<pc, rc, call>> /\ plan' = "direct"
        \/ Held /\ plan' = "fork" /\ pc' = "call" /\ rc' = rc /\ call' = [NoCall EXCEPT !.fn = "mmap", !.at = "save"]
        \/ pc' = "release" /\ rc' = -1 /\ UNCHANGED <<plan, call>>
    BY <1>4 DEF Plan, CallBegin
  <2>5. pc = "loads" /\ plan = "undecided"
    BY <1>4 DEF Plan
  <2>6. Untouched'
    BY <2>1, <2>2, <2>3, <2>4, <2>5 DEF Untouched, Steps, Early
  <2>7. Settled' /\ Executing' /\ Saved'
    BY <2>3, <2>4, <2>5 DEF Settled, Executing, Saved, Killing, NoCall
  <2>8. Tracing' /\ Restoring'
    BY <1>2, <2>3, <2>4, <2>5 DEF Tracing, Restoring, Borrowed, NoCall, Killing
  <2> QED BY <2>6, <2>7, <2>8 DEF ImageInv
\* Once the target is prepared every failure leads to its restoration.
<1>5. ASSUME ~Plan
      PROVE  /\ pc # "loads" /\ plan' = "fork"
             /\ pc' \in {"shell", "restore", "call", "poke", "terminate", "skip", "putBack", "free", "release"}
             /\ pc' \in Killing => after' = "restore"
             /\ pc' = "call" => call'.at = "save" /\ pc \in {"shell", "poke"}
             /\ pc' \in {"shell", "poke"} => pc = "call" /\ call.at = "done" /\ call.result # "failed"
             /\ rc' = -1 <=> pc' = "release"
             /\ pc' \in {"free", "release"} \/ UNCHANGED image
             /\ pc = "call" => call.at = "done" /\ (call.result = "failed" => pc' \notin {"shell", "poke"})
  <2>1. CASE MmapDone
    BY <2>1 DEF MmapDone, KeepsForCall, Done, Killing
  <2>2. CASE WriteShell
    BY <2>2 DEF WriteShell, KeepsForCall, Killing, CallBegin, NoCall
  <2>3. CASE ForkDone
    BY <2>3 DEF ForkDone, KeepsForCall, Done, Killing
  <2>4. CASE Poke
    BY <2>4 DEF Poke, KeepsForCall, Killing, CallBegin, NoCall
  <2>5. CASE MunmapDone
    BY <2>5 DEF MunmapDone, KeepsForCall, Done, Killing
  <2>6. CASE PutBackRegs
    BY <2>6 DEF PutBackRegs, Killing
  <2>7. CASE Restore
    BY <2>7 DEF Restore, Killing, local
  <2> QED BY <1>5, <2>1, <2>2, <2>3, <2>4, <2>5, <2>6, <2>7
<1>6. ASSUME ~Plan PROVE Untouched' /\ Settled' /\ Saved' /\ Tracing'
  BY <1>2, <1>5, <1>6 DEF Untouched, Settled, Saved, Tracing, Early, Killing
<1>7. ASSUME ~Plan PROVE Executing'
  <2>1. image'.where = "fork" => image.where = "fork"
    BY <1>5, <1>7, PutBackClean DEF PutBackRegs, Restore, MmapDone, WriteShell, ForkDone, Poke, MunmapDone
  <2>2. image.where = "fork" /\ pc = "call" => call.result = "failed" /\ call.fn \in {"mmap", "fork"}
    BY <1>5, <1>7 DEF Executing, Failing, Killing, RemoteOK
  <2>3. image.where = "fork" /\ pc # "call" => pc = "restore"
    BY <1>5, <1>7 DEF Executing, Failing, Killing
  <2>4. image.where = "fork" => Failing'
    <3>1. pc = "restore" => rc' = -1
      BY <1>7 DEF Restore, MmapDone, WriteShell, ForkDone, Poke, MunmapDone, PutBackRegs, Done
    <3>2. pc = "call" /\ call.fn \in {"mmap", "fork"} /\ call.result = "failed" =>
            pc' = "restore" \/ (pc' = "terminate" /\ after' = "restore")
      BY <1>7 DEF Restore, MmapDone, WriteShell, ForkDone, Poke, MunmapDone, PutBackRegs, Done
    <3> QED BY <2>2, <2>3, <3>1, <3>2 DEF Failing, Killing
  <2> QED BY <1>5, <1>7, <2>1, <2>4 DEF Executing
<1>8. ASSUME ~Plan PROVE Restoring'
  <2> SUFFICES ASSUME Ours' PROVE Restoring'
    BY DEF Restoring
  <2>1. Borrowed /\ Unsaved = {}
    BY <1>5, <1>8 DEF Borrowed, Unsaved
  <2>2. Held /\ image.dirty \subseteq {"regs"}
    BY <1>2, <1>5, <1>8, <2>1 DEF Restoring
  <2>3. CASE pc' \in {"free", "release"}
    <3>1. image' = PutBack \/ ~Held
      BY <1>8, <2>3 DEF MmapDone, WriteShell, ForkDone, Poke, MunmapDone, PutBackRegs, Restore
    <3> QED BY <2>2, <2>3, <3>1, PutBackClean DEF Restoring, Borrowed, Killing
  <2>4. CASE pc' \notin {"free", "release"}
    <3>1. Borrowed'
      BY <1>5, <1>8, <2>4 DEF Borrowed, Killing
    <3> QED BY <1>2, <1>5, <1>8, <2>2, <2>4, <3>1 DEF Restoring
  <2> QED BY <2>3, <2>4
<1> QED BY <1>4, <1>6, <1>7, <1>8 DEF ImageInv

LEMMA ImageRelease ==
  ASSUME ForkTypeOK, ImageInv,
         FreeOne \/ FreeDone \/ Memory \/ SkipInt3 \/ Terminate \/ Settle \/ Leave
  PROVE  ImageInv'
<1>0. /\ ThreadsOK /\ RemoteOK /\ ArthurOK /\ LocalOK
      /\ Untouched /\ Settled /\ Executing /\ Saved /\ Tracing /\ Restoring
  BY DEF ForkTypeOK, ImageInv
<1>1. UNCHANGED <<image, call, haltPend, swallowed, wedged, plan>>
  BY DEF FreeOne, FreeDone, Memory, SkipInt3, Terminate, Settle, Leave, KeepsForChild, KeepsCall, local
<1>2. Ours' => Ours
  BY <1>1, NobodyRevived, LeaderTid DEF ForkArthur, Ours
<1>3. CASE Leave
  <2>1. pc = "returned" /\ pc' = "exited" /\ UNCHANGED <<rc, after, detachSig, restored>>
    BY <1>3 DEF Leave, ProcessExit, Goto, local
  <2>2. child = NoChild => child' = child
    <3>1. child = NoChild => child.traced = FALSE /\ child.state = "none"
      BY DEF NoChild
    <3>2. child.traced = FALSE => child' = [child EXCEPT !.traced = FALSE, !.state = child.state]
      BY <1>3 DEF Leave
    <3> QED BY <3>1, <3>2 DEF NoChild
  <2>3. Untouched'
    BY <1>0, <1>1, <2>1, <2>2 DEF Untouched, Steps, Early
  <2>4. Settled' /\ Saved' /\ Tracing'
    BY <1>0, <2>1 DEF Settled, Saved, Tracing, Killing
  <2>5. Executing'
    BY <1>0, <1>1, <2>1 DEF Executing, Failing, Killing
  <2>6. Restoring'
    BY <1>0, <1>1, <1>2, <2>1 DEF Restoring, Borrowed, Killing
  <2> QED BY <2>3, <2>4, <2>5, <2>6 DEF ImageInv
\* These steps come after the plan to fork; a failure stays one.
<1>4. ASSUME ~Leave
      PROVE  /\ plan = "fork" /\ pc \in {"free", "memory", "skip", "terminate", "settle"}
             /\ pc' \in {"free", "memory", "skip", "terminate", "returned", "restore", "reattach", "commit"}
             /\ rc = -1 => rc' = -1 /\ (pc = "free" \/ (pc \in Killing /\ after = "returned"))
             /\ pc \in Killing => rc' = rc /\ (pc' = after \/ (pc' \in Killing /\ after' = after))
             /\ pc' \in Killing => pc \in Killing \/ after' \in {"returned", "reattach"}
             /\ rc' = -1 => pc' \in {"free", "returned"} \/ (pc' \in Killing /\ after' = "returned")
             /\ pc' \in Killing /\ after' = "returned" => rc' = -1
             /\ pc' = "restore" => pc \in Killing /\ after = "restore"
  <2>1. CASE FreeOne
    BY <1>0, <2>1 DEF FreeOne, Killing, Untouched, Settled, Steps, local
  <2>2. CASE FreeDone
    BY <1>0, <2>2 DEF FreeDone, Killing, Untouched, Settled, Steps, Goto, ArthurOK
  <2>3. CASE Memory
    BY <1>0, <2>3 DEF Memory, Killing, Untouched, Settled, Steps, Goto
  <2>4. CASE SkipInt3
    BY <1>0, <2>4 DEF SkipInt3, KeepsForChild, Killing, Untouched, Settled, Steps, Goto, LocalOK, ArthurOK, Placed
  <2>5. CASE Terminate
    BY <1>0, <2>5 DEF Terminate, KeepsForChild, Killing, Untouched, Settled, Steps, Goto, LocalOK, ArthurOK, Placed
  <2>6. CASE Settle
    BY <1>0, <2>6 DEF Settle, Killing, Untouched, Settled, Steps, Goto
  <2> QED BY <1>4, <2>1, <2>2, <2>3, <2>4, <2>5, <2>6
<1>5. ASSUME ~Leave PROVE Untouched' /\ Settled' /\ Saved' /\ Tracing'
  BY <1>1, <1>4, <1>5 DEF Untouched, Settled, Saved, Tracing, Early, Killing
<1>6. ASSUME ~Leave PROVE Executing'
  <2>1. image.where = "fork" => Failing
    BY <1>0, <1>4, <1>6 DEF Executing
  <2>2. Failing => Failing'
    BY <1>4, <1>6 DEF Failing, Killing
  <2> QED BY <1>1, <1>4, <1>6, <2>1, <2>2 DEF Executing
<1>7. ASSUME ~Leave PROVE Restoring'
  <2>1. Borrowed' <=> Borrowed
    BY <1>0, <1>4, <1>7 DEF Borrowed, Killing, LocalOK
  <2>2. Held => Held' \/ pc = "free"
    <3>1. FreeDone \/ Memory \/ SkipInt3 \/ Terminate \/ Settle => UNCHANGED trap
      BY DEF FreeDone, Memory, SkipInt3, Terminate, Settle, KeepsTarget, target
    <3>2. FreeOne => pc = "free"
      BY DEF FreeOne
    <3> QED BY <1>7, <3>1, <3>2 DEF Held, Trapped
  <2>3. Unsaved = {} /\ Unsaved' = {}
    BY <1>4, <1>7 DEF Unsaved, Killing
  <2> QED BY <1>0, <1>1, <1>2, <1>4, <1>7, <2>1, <2>2, <2>3 DEF Restoring, Borrowed, Killing
<1> QED BY <1>3, <1>5, <1>6, <1>7 DEF ImageInv

LEMMA ImageReap ==
  ASSUME ForkTypeOK, ImageInv,
         \/ Reattach \/ Rewait \/ Recont \/ Reundo \/ Rejudge \/ WaitpidDone \/ Reset \/ Redetach
  PROVE  ImageInv'
<1>0. /\ ThreadsOK /\ RemoteOK /\ ArthurOK /\ LocalOK
      /\ Untouched /\ Settled /\ Executing /\ Saved /\ Tracing /\ Restoring
  BY DEF ForkTypeOK, ImageInv
<1>1. UNCHANGED <<swallowed, wedged, plan, rc>> /\ (WaitpidDone \/ UNCHANGED after)
  BY DEF Reattach, Rewait, Recont, Reundo, Rejudge, WaitpidDone, Reset, Redetach, KeepsForReap,
     KeepsForCall, KeepsCall
<1>2. Ours' => Ours
  BY <1>1, NobodyRevived, LeaderTid DEF ForkArthur, Ours
<1>3. /\ pc \in {"reattach", "rewait", "recont", "reundo", "rejudge", "reset", "redetach", "call"}
      /\ pc' \in {"rewait", "rejudge", "reundo", "recont", "settle", "redetach", "reset", "call"}
      /\ pc = "call" => pc' = "reset" /\ call.at = "done" /\ call.fn = "waitpid"
      /\ pc = "reset" => pc' = "redetach"
      /\ pc' = "call" => pc = "rejudge" /\ call'.at = "save"
      /\ pc' = "reset" => pc \in {"rejudge", "call"}
  BY DEF Reattach, Rewait, Recont, Reundo, Rejudge, WaitpidDone, Reset, Redetach, Done, Goto,
     CallBegin, NoCall
<1>4. plan = "fork" /\ rc # -1
  BY <1>0, <1>3 DEF Untouched, Settled, Steps, Killing
<1>5. image.where # "fork"
  BY <1>0, <1>3, <1>4 DEF Executing, Failing, Killing
<1>6. CASE Reset
  <2>1. /\ pc = "reset" /\ image' = PutBack
    BY <1>6 DEF Reset
  <2>2. Ours' => image'.where = "app" /\ image'.dirty = {}
    BY <1>0, <1>2, <2>1, PutBackClean DEF Restoring, Borrowed, Unsaved
  <2>3. image'.where # "fork"
    BY <1>0, <1>5, <2>1, PutBackClean
  <2>4. pc' = "redetach"
    BY <1>3, <2>1
  <2> QED BY <1>1, <1>4, <2>2, <2>3, <2>4
          DEF ImageInv, Untouched, Settled, Executing, Saved, Tracing, Restoring, Borrowed, Early, Killing
<1>7. CASE ~Reset
  <2>1. image'.where = image.where /\ image'.dirty = image.dirty
    BY <1>0, <1>7 DEF Reattach, Rewait, Recont, Reundo, Rejudge, WaitpidDone, Redetach,
       KeepsForCall, KeepsCall, RemoteOK
  <2>2. pc' \in {"reset", "call"} => /\ Held \/ pc = "call"
                                     /\ UNCHANGED target
    BY <1>7 DEF Reattach, Rewait, Recont, Reundo, Rejudge, WaitpidDone, Redetach, Goto, KeepsTarget, KeepsForCall, Done
  <2>3. Untouched' /\ Settled' /\ Saved' /\ Executing'
    BY <1>1, <1>3, <1>4, <1>5, <2>1 DEF Untouched, Settled, Saved, Executing, Early, Killing
  <2>4. Tracing'
    <3>1. pc' = "call" => Held /\ UNCHANGED target
      BY <1>3, <2>2
    <3>2. Held => Leader \in traced
      BY <1>0, LeaderTid DEF ThreadsOK, Held
    <3> QED BY <1>3, <3>1, <3>2 DEF Tracing, target
  <2>5. Restoring'
    <3> SUFFICES ASSUME Ours' PROVE Restoring'
      BY DEF Restoring
    <3>1. CASE pc = "call"
      <4>1. Held /\ image.dirty \subseteq {"regs"}
        BY <1>0, <1>2, <1>3, <3>1 DEF Restoring, Borrowed, Unsaved
      <4> QED BY <1>3, <2>1, <2>2, <3>1, <4>1 DEF Restoring, Borrowed, Held, Trapped, target
    <3>2. CASE pc # "call"
      <4>1. image.where = "app" /\ image.dirty = {}
        <5>1. pc # "reset"
          BY <1>7 DEF Reattach, Rewait, Recont, Reundo, Rejudge, WaitpidDone, Redetach, Done
        <5> QED BY <1>0, <1>2, <1>3, <3>2, <5>1 DEF Restoring, Borrowed, Killing
      <4> QED BY <1>3, <2>1, <2>2, <3>2, <4>1 DEF Restoring, Borrowed, Held, Trapped, target, Killing
    <3> QED BY <3>1, <3>2
  <2> QED BY <2>3, <2>4, <2>5 DEF ImageInv
<1> QED BY <1>6, <1>7

LEMMA ImageNext == ForkTypeOK /\ ImageInv /\ [ForkNext]_forkVars => ImageInv'
<1> SUFFICES ASSUME ForkTypeOK, ImageInv, [ForkNext]_forkVars PROVE ImageInv'
    OBVIOUS
<1>1. CASE UNCHANGED forkVars
  BY <1>1 DEF forkVars, vars, target, arthur, remote, local, ImageInv, Untouched, Settled, Executing, Failing,
     Saved, Tracing, Restoring, Ours, Borrowed, Unsaved, Held, Trapped, Alive
<1>2. CASE ForkArthur
  BY <1>2, ImageShared, ImageInjection, ImageCalls, ImageRelease, ImageReap DEF ForkArthur
<1>3. CASE ForkEnvironment
  BY <1>3, ImageEnvironment
<1> QED BY <1>1, <1>2, <1>3 DEF ForkNext

\* Whatever happens during an injection - the call fails, hangs, is interrupted by a
\* signal, its thread dies - the target runs free again only with its own registers,
\* stack and extended state (the comments on the recovery of pt_call).
THEOREM GivenBackAsItWas == ForkSpec => []TargetRestored
<1>1. ForkTypeOK /\ ImageInv => TargetRestored
  <2> SUFFICES ASSUME ForkTypeOK, ImageInv, Alive(Leader), ~wedged, Leader \notin traced \/ pc = "returned"
               PROVE  image.where = "app" /\ image.dirty = {}
    BY DEF TargetRestored
  <2>1. Ours /\ Restoring /\ (Held => Leader \in traced)
    BY LeaderTid DEF Ours, ImageInv, Held, ForkTypeOK, ThreadsOK
  <2>2. ~Borrowed
    BY <2>1 DEF Restoring, Borrowed, Killing
  <2> QED BY <2>1, <2>2 DEF Restoring
<1> QED BY <1>1, ForkTypeInit, ForkTypeNext, ImageInit, ImageNext, PTL DEF ForkSpec

-----------------------------------------------------------------------------
(* No copy of the target is left                                           *)

LEMMA FailingStays ==
  ASSUME ForkTypeOK, ImageInv, [ForkNext]_forkVars, Failing
  PROVE  Failing'
<1>0. ArthurOK /\ LocalOK /\ Untouched /\ Settled
  BY DEF ForkTypeOK, ImageInv
<1>1. CASE UNCHANGED forkVars
  BY <1>1 DEF forkVars, vars, arthur, remote, local, Failing
<1>2. CASE ForkEnvironment
  BY <1>2, EnvironmentMoves DEF ForkEnvironment, RemoteStep, arthur, local, Failing
<1>3. CASE Begin \/ Refuse \/ Shared
  <2>1. rc = -1 => rc' = -1
    <3>1. CASE Begin \/ Refuse
      BY <1>0, <3>1 DEF Begin, Refuse, Start, Fail, Goto
    <3>2. CASE ScanStep \/ ScanEnd \/ Pick \/ AttachNext \/ Attach \/ Wait \/ Cont
      BY <1>0, <3>2 DEF ScanStep, ScanEnd, Pick, AttachNext, Attach, Wait, Cont, Fail, Goto, AttachFailed
    <3>3. CASE Undo \/ Classify \/ GiveUp \/ WriteThread \/ WriteStage
      BY <1>0, <3>3 DEF Undo, Classify, GiveUp, WriteThread, WriteStage, Fail, Goto, Attached, AttachFailed
    <3>4. CASE ReleaseOne \/ ReleaseDone
      BY <1>0, <3>4 DEF ReleaseOne, ReleaseDone, Goto
    <3>5. CASE Commit
      BY <1>0, <3>5 DEF Commit, Settled, Killing
    <3> QED BY <1>3, <3>1, <3>2, <3>3, <3>4, <3>5 DEF Shared
  <2>2. pc \in Steps
    BY <1>3 DEF Begin, Start, Fail, Refuse, Shared, ScanStep, ScanEnd, Pick, AttachNext, Attach, Wait, Cont,
       Undo, Classify, GiveUp, WriteThread, ReleaseOne, ReleaseDone, Commit, WriteStage, Writing, Steps
  <2> QED BY <2>1, <2>2 DEF Failing, Steps, Killing
<1>4. CASE Plan
  BY <1>0, <1>4 DEF Plan, Failing, Killing, Fail, Goto
<1>5. CASE Calls
  <2>1. UNCHANGED <<pc, rc, after>> /\ pc = "call"
    BY <1>5, CallCases DEF arthur, local
  <2>2. call \in CallRecords
    BY CallForms DEF ForkTypeOK
  <2>3. call.at \in {"fail", "done"} => call'.fn = call.fn /\ call'.at = "done" /\ call'.result = "failed"
    BY <1>5, <2>2, CallCases DEF CallSave, CallEnter, CallFail, CallFinish, CallResume, CallWait, CallStopped,
       CallExpires, CallHalt, CallHaltWait, CallRecords
  <2> QED BY <2>1, <2>3 DEF Failing, Killing
<1>6. CASE MmapDone \/ WriteShell \/ ForkDone \/ Poke \/ MunmapDone \/ PutBackRegs \/ Restore
  <2>1. rc # -1
    BY <1>0, <1>6 DEF MmapDone, WriteShell, ForkDone, Poke, MunmapDone, PutBackRegs, Restore, Done,
       Settled, Killing
  <2> QED BY <1>6, <2>1 DEF MmapDone, WriteShell, ForkDone, Poke, MunmapDone, PutBackRegs, Restore, Done,
       Failing, Killing, Goto, Fail, KeepsForCall
<1>7. CASE FreeOne \/ FreeDone \/ Memory \/ Settle \/ Leave
  BY <1>0, <1>7 DEF FreeOne, FreeDone, Memory, Settle, Leave, ProcessExit, Failing, Settled, Killing, local
<1>8. CASE SkipInt3 \/ Terminate
  BY <1>0, <1>8 DEF SkipInt3, Terminate, KeepsForChild, Failing, Settled, Killing, Goto, ArthurOK, LocalOK
<1>9. CASE \/ Reattach \/ Rewait \/ Recont \/ Reundo \/ Rejudge \/ WaitpidDone \/ Reset \/ Redetach
  <2>1. ~Failing
    BY <1>0, <1>9 DEF Reattach, Rewait, Recont, Reundo, Rejudge, WaitpidDone, Reset, Redetach, Done,
       Failing, Settled, Killing
  <2> QED BY <2>1
<1> QED BY <1>1, <1>2, <1>3, <1>4, <1>5, <1>6, <1>7, <1>8, <1>9 DEF ForkNext, ForkArthur

LEMMA ChildInit == ForkInit => ChildInv
<1> SUFFICES ASSUME ForkInit PROVE ChildInv
    OBVIOUS
<1>1. /\ pc = "start" /\ rc = 0 /\ child = NoChild /\ swallowed = "none"
      /\ trap = [t \in Tids |-> "none"]
  BY DEF ForkInit, Init, TargetInit, RemoteInit
<1>2. trap[Leader] = "none"
  BY <1>1, LeaderTid
<1> QED BY <1>1, <1>2 DEF ChildInv, Unborn, Born, Event, Known, Ends, Forking, NoChild

\* What becomes of the child of itself, or with the help of others.
LEMMA ChildAlone ==
  ASSUME ThreadsOK, RemoteOK, ChildSteps
  PROVE  /\ child.state # "none" /\ child' \in Children /\ child'.state # "new"
         /\ child'.traced => child.traced
         /\ child'.state = "stopped" => child'.traced
         /\ child'.state = "stopped" => child.state = "new"
         /\ child'.state = "dying" => child'.at = "exit"
         /\ child'.core => \/ child.core
                           \/ child.state = "new" /\ ~child.traced
                           \/ child.state = "dying" /\ child.at = "int3"
         /\ (child.still => child'.still) /\ child'.dirty \subseteq child.dirty
<1>0. RemoteOK'
  BY ChildTyped
<1>1. child \in Children /\ child' \in Children
  BY <1>0, Zenon DEF RemoteOK, Children
<1>2. CASE ChildMeets
  <2>1. CASE child.state \in {"new", "stopped"} /\ child' = [child EXCEPT !.state = "dying", !.at = "exit"]
    BY <1>1, <2>1 DEF Children
  <2>2. CASE child.state = "zombie" /\ child' = [child EXCEPT !.state = "reaped"]
    BY <1>1, <2>2 DEF Children
  <2> QED BY <1>2, <2>1, <2>2 DEF ChildMeets
<1>3. CASE child.state = "new" /\ child.traced /\ child' = [child EXCEPT !.state = "stopped"]
  BY <1>1, <1>3 DEF Children
<1>4. CASE child.state = "new" /\ ~child.traced /\ Report([child EXCEPT !.core = child.at = "int3"])
  <2>1. PICK d \in BOOLEAN : d = (child.at = "int3")
    OBVIOUS
  <2>2. Report([child EXCEPT !.core = d])
    BY <1>4, <2>1
  <2>3. child' = Reported(d)
    BY <2>2, ReportTyped
  <2> QED BY <1>1, <1>4, <2>3 DEF Reported
<1>5. CASE /\ child.state = "dying" /\ ~child.traced
           /\ \E d \in {FALSE, child.at = "int3"} : Report([child EXCEPT !.core = d])
  <2>1. PICK d \in {FALSE, child.at = "int3"} : Report([child EXCEPT !.core = d])
    BY <1>5
  <2>2. d \in BOOLEAN
    BY <2>1
  <2>3. child' = Reported(d)
    BY <2>1, <2>2, ReportTyped
  <2>4. d => child.at = "int3"
    BY <2>1
  <2> QED BY <1>1, <1>5, <2>3, <2>4 DEF Reported
<1>6. CASE child.state = "dying" /\ child.traced /\ child' = [child EXCEPT !.state = "dead"]
  BY <1>1, <1>6 DEF Children
<1> QED BY <1>2, <1>3, <1>4, <1>5, <1>6 DEF ChildSteps, ChildRuns

\* The child the leader makes.
LEMMA ChildMade ==
  ASSUME RemoteOK, Forks
  PROVE  /\ child'.state = "new" /\ ~child'.core
         /\ child'.traced <=> ~sysCore /\ Leader \in traced
         /\ child'.dirty = image.dirty \cap {"slot", "red"}
         /\ child'.still <=> \A t \in Tids \ {Leader} : Alive(t) => Trapped(t)
<1>1. PICK f \in BOOLEAN : f = (~sysCore /\ Leader \in traced)
  OBVIOUS
<1>2. PICK g \in BOOLEAN : g = (\A t \in Tids \ {Leader} : Alive(t) => Trapped(t))
  OBVIOUS
<1>3. child' = [NoChild EXCEPT !.state = "new", !.traced = f,
                  !.dirty = image.dirty \cap {"slot", "red"}, !.still = g]
  BY <1>1, <1>2, Zenon DEF Forks
<1> QED BY <1>1, <1>2, <1>3 DEF NoChild

LEMMA ChildEnvironment ==
  ASSUME ForkTypeOK, ImageInv, ChildInv, ForkEnvironment
  PROVE  ChildInv'
<1>0. /\ ThreadsOK /\ RemoteOK /\ ArthurOK /\ LocalOK
      /\ Executing /\ Tracing /\ Restoring /\ Settled
      /\ Unborn /\ Born /\ Event /\ Known /\ Ends
  BY DEF ForkTypeOK, ImageInv, ChildInv
<1>1. /\ RemoteStep /\ traced' = traced /\ ThreadsOK' /\ RemoteOK'
      /\ UNCHANGED <<pc, rc, after, restored, call, sysCore, wedged, swallowed>>
  BY EnvironmentMoves DEF ForkEnvironment, RemoteStep, KernelStep, arthur, local
<1>2. /\ Failing' = Failing /\ Forking' = Forking /\ AfterFork' = AfterFork
  BY <1>1 DEF Failing, Forking, AfterFork
<1>3. /\ Ours' => Ours
      /\ Ours' /\ Held => trap'[Leader] = trap[Leader]
  BY <1>0, <1>1, LeaderTid DEF RemoteStep, KernelStep, Ours, Held, ThreadsOK
<1>4. trap'[Leader] = "fork" => Alive(Leader)'
  BY <1>1, LeaderTid DEF ThreadsOK, Trapped, Alive
<1>5. CASE Plain
  <2>1. UNCHANGED <<image, child>> /\ (trap'[Leader] = "fork" => trap[Leader] = "fork")
    BY <1>5 DEF Plain
  <2>2. Unborn' /\ Born' /\ Ends'
    BY <1>0, <1>1, <1>2, <2>1 DEF Unborn, Born, Ends
  <2>3. Event'
    BY <1>0, <1>1, <1>2, <2>1 DEF Event
  <2>4. Known'
    BY <1>0, <1>1, <1>2, <1>3, <2>1 DEF Known, Held, Trapped
  <2> QED BY <2>2, <2>3, <2>4 DEF ChildInv
<1>6. CASE Landing
  <2>1. /\ image.where \notin {"app", "landed"} /\ image'.where = "landed"
        /\ image.where = "forked" => image'.ret = "good"
        /\ trap'[Leader] # "fork" /\ ~Held
    BY <1>4, <1>6 DEF Landing, Running
  <2>2. child' = child \/ (child.state = "zombie" /\ child' = [child EXCEPT !.state = "reaped"])
    BY <1>6 DEF Landing
  <2>3. /\ child = NoChild => child' = child
        /\ child'.traced = child.traced /\ child'.core = child.core /\ child'.at = child.at
        /\ child'.state \in {child.state, "reaped"}
    BY <1>0, <2>2 DEF NoChild, RemoteOK
  <2>4. Unborn' /\ Born' /\ Ends'
    BY <1>0, <1>1, <1>2, <2>1, <2>3 DEF Unborn, Born, Ends
  <2>5. Event'
    BY <1>0, <1>1, <1>2, <2>1 DEF Event
  <2>6. Known'
    BY <1>0, <1>1, <1>2, <1>3, <2>1, <2>3 DEF Known, Held, Trapped
  <2> QED BY <2>4, <2>5, <2>6 DEF ChildInv
<1>7. CASE Forked
  <2>1. /\ image.where = "fork" /\ image'.where = "forked" /\ ~Held /\ Forks
    BY <1>7 DEF Forked, Forks, Running
  <2>2. Failing \/ Forking
    BY <1>0, <2>1 DEF Executing, Forking
  <2>3. trap'[Leader] = "fork" \/ trap'[Leader] = trap[Leader]
    BY <1>0, <2>1, LeaderTid DEF Forks, ThreadsOK
  <2>4. trap[Leader] = "none"
    BY <2>1 DEF Held, Trapped
  <2>5. Unborn' /\ Born'
    BY <1>0, <1>1, <1>2, <2>1, ChildMade DEF Unborn, Born, Forking
  <2>6. Event'
    BY <1>0, <1>1, <1>2, <2>1, <2>2, <2>4 DEF Event
  <2>7. Known'
    <3> SUFFICES ASSUME Ours', ~sysCore, child'.traced PROVE Known'
      BY <1>1 DEF Known
    <3>1. Borrowed /\ ~Held
      BY <1>0, <1>3, <2>1 DEF Restoring
    <3>2. pc = "call" /\ call.at \in {"wait", "halt", "haltWait"} /\ Leader \in traced
      BY <1>0, <1>3, <3>1 DEF Restoring
    <3>3. call.fn = "fork"
      BY <1>0, <2>1, <3>2 DEF Executing
    <3>4. trap'[Leader] = "fork"
      BY <1>0, <2>1, <3>2, LeaderTid DEF Forks, ThreadsOK
    <3> QED BY <1>1, <3>2, <3>3, <3>4 DEF Known, Forking
  <2>8. Ends'
    <3> SUFFICES ASSUME ~sysCore, ~Failing PROVE child'.traced /\ Forking
      BY <1>1, <1>2, <2>1, ChildMade, <1>0 DEF Ends
    <3>1. Forking /\ call.at # "fail" /\ (call.at = "done" => call.result # "failed")
      BY <2>2 DEF Failing, Forking
    <3>2. Leader \in traced
      BY <1>0, <3>1 DEF Tracing, Forking
    <3> QED BY <1>0, <2>1, <3>1, <3>2, ChildMade
  <2> QED BY <2>5, <2>6, <2>7, <2>8 DEF ChildInv
<1>8. CASE ChildMoves
  <2>1. ChildSteps /\ UNCHANGED <<trap, image>>
    BY <1>8 DEF ChildMoves
  <2>2. child.state # "none"
    BY <1>0, <2>1, ChildAlone
  <2>3. child # NoChild
    BY <2>2 DEF NoChild
  <2>4. Unborn' /\ Born'
    BY <1>0, <1>1, <1>2, <2>1, <2>3, ChildAlone DEF Unborn, Born
  <2>5. Event'
    BY <1>0, <1>1, <1>2, <2>1 DEF Event
  <2>6. Known'
    BY <1>0, <1>1, <1>2, <1>3, <2>1, ChildAlone DEF Known
  <2>7. Ends'
    BY <1>0, <1>1, <1>2, <2>1, ChildAlone DEF Ends, Forking
  <2> QED BY <2>4, <2>5, <2>6, <2>7 DEF ChildInv
<1> QED BY <1>1, <1>5, <1>6, <1>7, <1>8 DEF RemoteStep

LEMMA ChildShared ==
  ASSUME ForkTypeOK, ImageInv, ChildInv, Begin \/ Refuse \/ Shared
  PROVE  ChildInv'
<1>0. /\ ThreadsOK /\ RemoteOK /\ ArthurOK /\ LocalOK /\ Untouched
      /\ Unborn /\ Born /\ Event /\ Known /\ Ends
  BY DEF ForkTypeOK, ImageInv, ChildInv
<1>1. UNCHANGED <<remote, after, detachSig, restored>>
  BY DEF Begin, Refuse, Shared, local, remote, Keeps, KeepsCall
<1>2. UNCHANGED <<image, call, child, sysCore, wedged, swallowed, restored>>
  BY <1>1 DEF remote
<1>3. pc \in Steps /\ pc' \in Steps
  <2>1. pc \in Steps
    BY DEF Begin, Start, Fail, Refuse, Shared, ScanStep, ScanEnd, Pick, AttachNext, Attach, Wait, Cont,
       Undo, Classify, GiveUp, WriteThread, ReleaseOne, ReleaseDone, Commit, WriteStage, Writing, Steps
  <2>2. pc' \in Steps
    BY <2>1 DEF Begin, Start, Fail, Refuse, Shared, ScanStep, ScanEnd, Pick, AttachNext, Attach, Wait, Cont,
       Undo, Classify, GiveUp, WriteThread, ReleaseOne, ReleaseDone, Commit, WriteStage, AfterStage, Writing,
       Steps, Goto, ScanFor, Attached, AttachFailed
  <2> QED BY <2>1, <2>2
<1>4. Failing => Failing'
  BY FailingStays DEF ForkNext, ForkArthur
<1>5. Ours' => Ours
  BY <1>2, NobodyRevived, LeaderTid DEF ForkArthur, Ours
<1>6. trap'[Leader] = "fork" => trap[Leader] = "fork"
  <2>1. Begin \/ Refuse \/ ScanStep \/ ScanEnd \/ Pick \/ AttachNext \/ Attach \/ Wait \/ Cont
        => UNCHANGED trap
    BY DEF Begin, Start, Refuse, KeepsTarget, ScanStep, ScanEnd, Pick, AttachNext, Attach, Wait, Cont,
       SysAttach, SysReap, SysCont, target
  <2>2. Classify \/ WriteThread \/ ReleaseDone \/ Commit \/ WriteStage => UNCHANGED trap
    BY DEF Classify, WriteThread, ReleaseDone, Commit, WriteStage, target
  <2>3. Undo \/ GiveUp \/ ReleaseOne => trap' = trap \/ \E t \in Tids : trap' = [trap EXCEPT ![t] = "none"]
    BY <1>0 DEF ArthurOK, Undo, GiveUp, ReleaseOne, DetachOk, DetachGone, DetachBroken, SysDetach, target
  <2> QED BY <1>0, <2>1, <2>2, <2>3, LeaderTid DEF Shared, ThreadsOK
<1>7. ~Forking /\ ~Forking' /\ ~AfterFork /\ ~AfterFork' /\ pc \notin {"shell", "call", "poke", "exited"}
      /\ pc' \notin {"shell", "call", "poke", "terminate"}
  <2>1. pc # "exited"
    BY DEF Begin, Refuse, Shared, ScanStep, ScanEnd, Pick, AttachNext, Attach, Wait, Cont,
       Undo, Classify, GiveUp, WriteThread, ReleaseOne, ReleaseDone, Commit, WriteStage, Writing
  <2> QED BY <1>3, <2>1 DEF Forking, AfterFork, Steps, Killing
<1>8. Unborn' /\ Born' /\ Ends'
  BY <1>0, <1>2, <1>4, <1>7 DEF Unborn, Born, Ends
<1>9. Event'
  BY <1>0, <1>2, <1>4, <1>6, <1>7 DEF Event
<1>10. Known'
  BY <1>0, <1>2, <1>5, <1>7 DEF Known
<1> QED BY <1>8, <1>9, <1>10 DEF ChildInv

LEMMA ChildCalls ==
  ASSUME ForkTypeOK, ImageInv, ChildInv, Calls
  PROVE  ChildInv'
<1>0. /\ ThreadsOK /\ RemoteOK /\ ArthurOK /\ LocalOK /\ Settled /\ Executing
      /\ Unborn /\ Born /\ Event /\ Known /\ Ends
  BY DEF ForkTypeOK, ImageInv, ChildInv
<1>1. call \in CallRecords /\ image \in Images
  BY <1>0, CallForms
<1>2. /\ pc = "call" /\ UNCHANGED <<pc, rc, after, restored, child, sysCore>>
  BY CallCases DEF arthur, local
\* What a step of pt_call learns of the fork, and what it does to the image.
<1>3. /\ call'.fn = call.fn /\ image'.ret = image.ret
      /\ (call.forked => call'.forked)
      /\ call'.forked => call.forked \/ (call.at = "stopped" /\ call.status = "fork" /\ call'.at = "resume")
      /\ call'.at = "stopped" => call.at = "wait" /\ call'.status = trap[Leader] /\ UNCHANGED trap
      /\ call'.at = "done" => call'.result = "failed" \/ (call.at = "finish" /\ call'.result = image.ret)
      /\ image'.where = image.where \/ (call.at = "enter" /\ call'.at = "resume" /\ image'.where \in {call.fn, "diverted"})
      /\ call'.at # "save" /\ (call'.at = "enter" => call.at = "save")
      /\ call.at = "enter" => call'.at \in {"resume", "fail"}
  <2>1. CASE CallSave
    BY <1>1, <2>1 DEF CallSave, CallGoto, CallRecords
  <2>2. CASE CallEnter
    BY <1>1, <2>2 DEF CallEnter, CallGoto, CallRecords, Images
  <2>3. CASE CallResume \/ CallWait
    <3>1. UNCHANGED image
      BY <2>3, CallCases DEF CallResume, CallWait
    <3>2. CallWait => UNCHANGED trap
      BY DEF CallWait, SysReap, target
    <3> QED BY <1>1, <2>3, <3>1, <3>2 DEF CallResume, CallWait, CallGoto, CallRecords
  <2>4. CASE CallStopped(~sysCore /\ call.fn = "waitpid")
    <3>1. UNCHANGED image
      BY <2>4 DEF CallStopped
    <3>2. PICK f \in BOOLEAN : f = (call.forked \/ call.status = "fork")
      OBVIOUS
    <3>3. /\ call.at = "stopped"
          /\ \/ \E l \in {"finish", "fail"} : call' = [call EXCEPT !.at = l]
             \/ call' = [call EXCEPT !.at = "fail", !.sig = call.status]
             \/ call' = [call EXCEPT !.at = "resume", !.forked = f]
      <4>1. (call.forked \/ call.status = "fork") = f
        BY <3>2
      <4> QED BY <2>4, <4>1, Zenon DEF CallStopped, CallGoto
    <3> QED BY <1>1, <3>1, <3>2, <3>3 DEF CallRecords
  <2>5. CASE CallExpires \/ CallHalt \/ CallHaltWait
    <3>1. UNCHANGED image
      BY <2>5, CallCases DEF CallExpires, CallHalt, CallHaltWait
    <3> QED BY <1>1, <2>5, <3>1 DEF CallExpires, CallHalt, CallHaltWait, CallGoto, CallRecords
  <2>6. CASE CallFail \/ CallFinish
    BY <1>1, <2>6 DEF CallFail, CallFinish, CallRecords, Images
  <2> QED BY <2>1, <2>2, <2>3, <2>4, <2>5, <2>6, CallCases
\* What it does to the stop of the leader, and to the one it gives up.
<1>4. trap'[Leader] = "fork" => trap[Leader] = "fork"
  <2>1. UNCHANGED target \/ CallWait \/ CallHaltWait => UNCHANGED trap
    BY DEF target, CallWait, CallHaltWait, SysReap
  <2>2. CallResume => trap' = trap \/ trap' = [trap EXCEPT ![Leader] = "none"]
    BY DEF CallResume
  <2> QED BY <1>0, <2>1, <2>2, CallCases, LeaderTid DEF ThreadsOK
<1>5. swallowed' = "fork" /\ swallowed # "fork" =>
        /\ call'.at = "fail"
        /\ \/ call.at = "stopped" /\ call.status = "fork"
           \/ call.at = "haltWait" /\ trap[Leader] = "fork"
  <2>1. CASE CallExpires
    BY <1>1, <2>1 DEF CallExpires, Consumed, CallGoto, CallRecords
  <2>2. CASE CallHaltWait
    BY <1>1, <2>2 DEF CallHaltWait, Consumed, CallGoto, CallRecords
  <2> QED BY <2>1, <2>2, CallCases
<1>6. /\ Failing => Failing'
      /\ Failing => call.at \in {"fail", "done"}
  <2>1. Failing => Failing'
    BY FailingStays DEF ForkNext, ForkArthur
  <2> QED BY <1>0, <1>2, <2>1 DEF Failing, Settled, Killing
<1>7. Forking' = Forking
  BY <1>2, <1>3 DEF Forking
<1>8. Unborn'
  BY <1>0, <1>2, <1>3, <1>7 DEF Unborn, Forking
<1>9. Forking /\ call.at = "enter" => child = NoChild /\ ~call.forked /\ image.where \notin {"fork", "forked"}
  BY <1>0 DEF Unborn
<1>10. Born'
  BY <1>0, <1>2, <1>3, <1>7, <1>9 DEF Born, NoChild
<1>11. Event'
  <2>1. trap'[Leader] = "fork" => Forking' \/ Failing'
    BY <1>0, <1>4, <1>6, <1>7 DEF Event
  <2>2. Forking' /\ trap'[Leader] = "fork" => image'.where = "forked"
    BY <1>0, <1>3, <1>4, <1>7, <1>9 DEF Event
  <2>3. pc' = "call" /\ call'.at = "stopped" /\ call'.status = "fork" =>
          Forking' /\ image'.where = "forked"
    BY <1>0, <1>3, <1>6, <1>7 DEF Event
  <2>4. Forking' /\ (call'.forked \/ (call'.at = "stopped" /\ call'.status = "fork")) =>
          /\ image'.where \in {"forked", "landed"}
          /\ image'.where = "landed" => image'.ret = "good"
          /\ call'.at = "done" => call'.result \in {"failed", "good"}
    <3>1. CASE call'.forked
      BY <1>0, <1>2, <1>3, <1>7, <1>9, <3>1 DEF Event, Executing
    <3>2. CASE call'.at = "stopped" /\ call'.status = "fork"
      BY <1>2, <2>3, <3>2
    <3> QED BY <3>1, <3>2
  <2>5. swallowed' = "fork" => Failing'
    <3>1. CASE swallowed = "fork"
      BY <1>0, <1>6, <3>1 DEF Event
    <3>2. CASE swallowed # "fork" /\ swallowed' = "fork"
      <4>1. call'.at = "fail" /\ Forking
        BY <1>0, <1>2, <1>5, <1>6, <3>2 DEF Event
      <4> QED BY <1>2, <1>3, <4>1 DEF Failing, Forking
    <3> QED BY <3>1, <3>2
  <2> QED BY <2>1, <2>2, <2>3, <2>4, <2>5 DEF Event
<1>12. Known'
  <2> SUFFICES ASSUME Ours', ~sysCore, child.traced PROVE Known'
    BY <1>2 DEF Known
  <2>1. Ours
    <3>1. wedged => wedged'
      <4>1. CallHaltWait => wedged' = TRUE \/ UNCHANGED wedged
        BY DEF CallHaltWait
      <4> QED BY <4>1, CallCases
    <3> QED BY <3>1, NobodyRevived, LeaderTid DEF ForkArthur, Ours
  <2>2. Alive(Leader) /\ ~CanReap(Leader) /\ task[Leader] # "gone"
    BY <2>1 DEF Ours, Alive, CanReap
  <2>3. CASE swallowed = "fork"
    <3>1. call.at \in {"fail", "done"}
      BY <1>0, <1>6, <2>3 DEF Event
    <3>2. UNCHANGED swallowed
      BY <3>1, CallCases DEF CallExpires, CallHaltWait
    <3> QED BY <2>3, <3>2 DEF Known
  <2>4. CASE ~restored
    BY <1>2, <2>4 DEF Known
  <2>5. CASE Forking /\ call.forked
    BY <1>3, <1>7, <2>5 DEF Known
  <2>6. CASE Forking /\ trap[Leader] = "fork" /\ call.at = "wait"
    <3>1. Held
      BY <2>6 DEF Held, Trapped
    <3>2. CallWait
      BY <2>6, CallCases DEF CallSave, CallEnter, CallResume, CallStopped, CallExpires, CallHalt, CallHaltWait,
         CallFail, CallFinish
    <3>3. call' = [call EXCEPT !.at = "stopped", !.status = trap[Leader]] /\ UNCHANGED target
      BY <2>2, <3>1, <3>2 DEF CallWait, Hangs
    <3>4. call'.at = "stopped" /\ call'.status = "fork" /\ trap'[Leader] = "fork"
      BY <1>1, <2>6, <3>3 DEF CallRecords, target
    <3> QED BY <1>7, <2>6, <3>4 DEF Known
  <2>7. CASE Forking /\ trap[Leader] = "fork" /\ call.at = "halt"
    <3>1. CallHalt /\ UNCHANGED target
      BY <2>7, CallCases DEF CallSave, CallEnter, CallResume, CallStopped, CallExpires, CallWait, CallHaltWait,
         CallFail, CallFinish
    <3>2. call'.at = "haltWait"
      BY <1>1, <2>2, <3>1 DEF CallHalt, CallGoto, CallRecords
    <3> QED BY <1>7, <2>7, <3>1, <3>2 DEF Known, target
  <2>8. CASE Forking /\ trap[Leader] = "fork" /\ call.at = "haltWait"
    <3>1. Held
      BY <2>8 DEF Held, Trapped
    <3>2. CallHaltWait
      BY <2>8, CallCases DEF CallSave, CallEnter, CallResume, CallStopped, CallExpires, CallWait, CallHalt,
         CallFail, CallFinish
    <3>3. swallowed' = Consumed(trap[Leader])
      BY <2>2, <3>1, <3>2 DEF CallHaltWait
    <3> QED BY <2>8, <3>3 DEF Known, Consumed
  <2>9. CASE Forking /\ trap[Leader] = "fork" /\ call.at = "stopped" /\ call.status = "fork"
    <3>1. Held
      BY <2>9 DEF Held, Trapped
    <3>2. CASE CallExpires
      BY <2>9, <3>2 DEF Known, CallExpires, Consumed
    <3>3. CASE CallStopped(~sysCore /\ call.fn = "waitpid")
      <4>1. "fork" \notin Core
        BY StopFacts
      <4>2. call' = [call EXCEPT !.at = "resume", !.forked = TRUE]
        BY <2>9, <3>1, <3>3, <4>1 DEF CallStopped, CallGoto
      <4>3. call'.forked
        BY <1>1, <4>2 DEF CallRecords
      <4> QED BY <1>7, <2>9, <4>3 DEF Known
    <3>4. CallExpires \/ CallStopped(~sysCore /\ call.fn = "waitpid")
      BY <2>9, CallCases DEF CallSave, CallEnter, CallResume, CallWait, CallHalt, CallHaltWait,
         CallFail, CallFinish
    <3> QED BY <3>2, <3>3, <3>4
  <2>10. CASE AfterFork
    BY <1>2, <1>3, <2>10 DEF Known, AfterFork, Killing
  <2> QED BY <1>0, <1>2, <2>1, <2>3, <2>4, <2>5, <2>6, <2>7, <2>8, <2>9, <2>10 DEF Known
<1>13. Ends'
  BY <1>0, <1>2, <1>6, <1>7 DEF Ends
<1> QED BY <1>8, <1>10, <1>11, <1>12, <1>13 DEF ChildInv

LEMMA ChildInjection ==
  ASSUME ForkTypeOK, ImageInv, ChildInv,
         Plan \/ MmapDone \/ WriteShell \/ ForkDone \/ Poke \/ MunmapDone \/ PutBackRegs \/ Restore
  PROVE  ChildInv'
<1>0. /\ ThreadsOK /\ RemoteOK /\ ArthurOK /\ LocalOK /\ Untouched /\ Settled /\ Executing
      /\ Unborn /\ Born /\ Event /\ Known /\ Ends
  BY DEF ForkTypeOK, ImageInv, ChildInv
<1>1. UNCHANGED <<task, trap, sysCore, swallowed, wedged, restored>>
  BY DEF Plan, MmapDone, WriteShell, ForkDone, Poke, MunmapDone, PutBackRegs, Restore, KeepsForCall,
     KeepsTarget, Keeps, target, local
<1>2. (Failing => Failing') /\ (Ours' => Ours)
  BY <1>1, FailingStays DEF ForkNext, ForkArthur, Ours, Alive
<1>3. CASE Plan
  <2>1. child = NoChild /\ image.where = "app" /\ UNCHANGED child /\ pc = "loads" /\ swallowed = "none"
    BY <1>0, <1>3 DEF Plan, Untouched
  <2>2. image'.where = "app" /\ ~Forking' /\ ~Forking
    BY <1>0, <1>3, <2>1 DEF Plan, Forking, Fail, Goto, CallBegin, NoCall, RemoteOK
  <2>3. pc' = "call" => call'.at = "save"
    BY <1>3, <2>1 DEF Plan, Fail, Goto, CallBegin, NoCall
  <2> QED BY <1>0, <1>1, <1>2, <2>1, <2>2, <2>3 DEF ChildInv, Unborn, Born, Event, Known, Ends, NoChild
<1>4. CASE MmapDone
  <2>1. pc = "call" /\ call.fn = "mmap" /\ pc' \in {"shell", "restore"} /\ UNCHANGED <<child, image>>
    BY <1>4 DEF MmapDone, Done, Goto
  <2> QED BY <1>0, <1>1, <1>2, <2>1 DEF ChildInv, Unborn, Born, Event, Known, Ends, NoChild, Forking
<1>5. CASE WriteShell
  <2>1. pc = "shell" /\ UNCHANGED <<child, image, rc>> /\ ~Failing /\ ~Forking
    BY <1>0, <1>5 DEF WriteShell, KeepsForCall, Failing, Settled, Killing, Forking
  <2>2. child = NoChild /\ image.where \notin {"fork", "forked"} /\ trap[Leader] # "fork" /\ swallowed # "fork"
    BY <1>0, <2>1 DEF Unborn, Event
  <2>3. \/ pc' = "call" /\ call'.fn = "fork" /\ call'.at = "save" /\ ~call'.forked
        \/ pc' = "restore"
    BY <1>5 DEF WriteShell, CallBegin, NoCall, Goto
  <2> QED BY <1>1, <2>1, <2>2, <2>3 DEF ChildInv, Unborn, Born, Event, Known, Ends, NoChild, Forking
<1>6. CASE ForkDone
  <2>1. Forking /\ call.at = "done" /\ UNCHANGED <<child, image, rc, call>>
    BY <1>6 DEF ForkDone, Done, Forking, KeepsForCall
  <2>2. \/ call.result = "good" /\ pc' = "poke"
        \/ call.result = "failed" /\ call.forked /\ ~sysCore /\ pc' = "terminate" /\ after' = "restore"
        \/ call.result # "good" /\ ~(call.result = "failed" /\ call.forked /\ ~sysCore) /\ pc' = "restore"
    BY <1>6, Zenon DEF ForkDone, Goto
  <2>3. call.result = "good" => trap[Leader] # "fork"
    BY <1>0, <2>1 DEF Event, Executing, Forking
  <2>4. Failing' \/ (call.result = "good" /\ pc' = "poke")
    BY <2>2 DEF Failing, Killing
  <2>5. ~Forking' /\ pc' \notin {"shell", "call"}
    BY <2>2 DEF Forking
  <2>6. Unborn' /\ Born' /\ Event'
    BY <1>0, <1>1, <1>2, <2>1, <2>3, <2>4, <2>5 DEF Unborn, Born, Event
  <2>7. Known'
    <3> SUFFICES ASSUME Ours, ~sysCore, child.traced, swallowed # "fork", restored PROVE AfterFork'
      BY <1>1, <1>2, <2>1 DEF Known
    <3>1. call.forked
      BY <1>0, <2>1 DEF Known, AfterFork, Killing, Forking
    <3>2. call.result \in {"failed", "good"}
      BY <1>0, <2>1, <3>1 DEF Event
    <3> QED BY <2>2, <3>1, <3>2 DEF AfterFork, Killing
  <2>8. Ends'
    BY <1>0, <1>1, <1>2, <2>1, <2>4 DEF Ends, Forking
  <2> QED BY <2>6, <2>7, <2>8 DEF ChildInv
<1>7. CASE Poke
  <2>1. pc = "poke" /\ UNCHANGED <<image, rc>> /\ ~Failing /\ ~Forking
    BY <1>0, <1>7 DEF Poke, KeepsForCall, Failing, Settled, Killing, Forking
  <2>2. trap[Leader] # "fork" /\ swallowed # "fork"
    BY <1>0, <2>1 DEF Event
  <2>3. /\ child'.state = child.state /\ child'.traced = child.traced /\ child'.core = child.core
        /\ \/ pc' = "call" /\ call'.fn = "munmap" /\ call'.at = "save" /\ (sysCore \/ child.state = "stopped")
           \/ pc' = "skip" /\ after' = "restore" /\ ~sysCore
    <3>1. child' = child \/ child' = [child EXCEPT !.dirty = @ \ {"slot"}]
      BY <1>7 DEF Poke
    <3>2. child'.state = child.state /\ child'.traced = child.traced /\ child'.core = child.core
      BY <1>0, <3>1 DEF RemoteOK
    <3> QED BY <1>7, <3>2 DEF Poke, CallBegin, NoCall, Goto
  <2>4. ~Forking' /\ AfterFork' /\ pc' \notin {"shell", "terminate", "poke"}
        /\ (pc' = "call" => call'.fn = "munmap" /\ call'.at = "save")
    BY <2>3 DEF Forking, AfterFork, Killing
  <2>5. pc' = "skip" => Failing'
    BY <2>3 DEF Failing, Killing
  <2> QED BY <1>0, <1>1, <2>1, <2>2, <2>3, <2>4, <2>5 DEF ChildInv, Unborn, Born, Event, Known, Ends
<1>8. CASE MunmapDone \/ PutBackRegs
  <2>1. /\ pc = "putBack" \/ (pc = "call" /\ call.fn = "munmap")
        /\ UNCHANGED <<child, rc>> /\ ~Forking /\ AfterFork
    BY <1>8 DEF MunmapDone, PutBackRegs, Done, Forking, AfterFork, KeepsForCall
  <2>2. ~Failing
    BY <1>0, <2>1 DEF Failing, Settled, Killing
  <2>3. /\ pc' \in {"putBack", "free"} \/ (pc' = "restore" /\ sysCore)
           \/ (pc' = "terminate" /\ after' = "restore")
    BY <1>8 DEF MunmapDone, PutBackRegs, Goto
  <2>4. ~Forking' /\ (AfterFork' \/ sysCore) /\ (pc' = "terminate" => Failing')
    BY <2>3 DEF Forking, AfterFork, Failing, Killing
  <2>5. trap[Leader] # "fork" /\ swallowed # "fork"
    BY <1>0, <2>1, <2>2 DEF Event
  <2> QED BY <1>0, <1>1, <2>1, <2>2, <2>3, <2>4, <2>5 DEF ChildInv, Unborn, Born, Event, Known, Ends
<1>9. CASE Restore
  <2>1. pc = "restore" /\ pc' = "release" /\ rc' = -1 /\ UNCHANGED child
    BY <1>9 DEF Restore, Fail, Goto
  <2>2. Failing' /\ ~Forking' /\ ~Forking /\ ~AfterFork
    BY <2>1 DEF Failing, Forking, AfterFork, Killing
  <2> QED BY <1>0, <1>1, <1>2, <2>1, <2>2 DEF ChildInv, Unborn, Born, Event, Known, Ends
<1> QED BY <1>3, <1>4, <1>5, <1>6, <1>7, <1>8, <1>9

LEMMA ChildRelease ==
  ASSUME ForkTypeOK, ImageInv, ChildInv,
         FreeOne \/ FreeDone \/ Memory \/ SkipInt3 \/ Terminate \/ Settle \/ Leave
  PROVE  ChildInv'
<1>0. /\ ThreadsOK /\ RemoteOK /\ ArthurOK /\ LocalOK /\ Untouched /\ Settled
      /\ Unborn /\ Born /\ Event /\ Known /\ Ends
  BY DEF ForkTypeOK, ImageInv, ChildInv
<1>1. UNCHANGED <<image, call, swallowed, wedged, sysCore>>
  BY DEF FreeOne, FreeDone, Memory, SkipInt3, Terminate, Settle, Leave, KeepsForChild, KeepsCall, Keeps
<1>2. (Failing => Failing') /\ (Ours' => Ours)
  BY <1>1, NobodyRevived, FailingStays, LeaderTid DEF ForkNext, ForkArthur, Ours
<1>3. trap'[Leader] = "fork" => trap[Leader] = "fork"
  <2>1. FreeDone \/ Memory \/ SkipInt3 \/ Terminate \/ Settle => UNCHANGED trap
    BY DEF FreeDone, Memory, SkipInt3, Terminate, Settle, KeepsTarget, target
  <2>2. ASSUME FreeOne PROVE trap' = trap \/ \E t \in Tids : trap' = [trap EXCEPT ![t] = "none"]
    <3>1. PICK t \in todo : \/ \E sig \in {detachSig, relay[t]} : DetachOk(t, sig)
                            \/ DetachGone(t) \/ DetachBroken(t)
      BY <2>2 DEF FreeOne
    <3>2. t \in Tids
      BY <1>0 DEF ArthurOK
    <3> QED BY <3>1, <3>2 DEF DetachOk, DetachGone, DetachBroken, SysDetach, target
  <2>3. Leave => trap' = [t \in Tids |-> "none"]
    BY DEF Leave, ProcessExit, SysTracerExit
  <2> QED BY <1>0, <2>1, <2>2, <2>3, LeaderTid DEF ThreadsOK
<1>4. /\ pc \in {"free", "memory", "skip", "terminate", "settle", "returned"}
      /\ pc' \in {"free", "memory", "skip", "terminate", "returned", "restore", "reattach", "commit", "exited"}
  BY <1>0 DEF FreeOne, FreeDone, Memory, SkipInt3, Terminate, Settle, Leave, KeepsForChild, ProcessExit, Goto,
     LocalOK, ArthurOK, Placed, Killing
<1>5. ~Forking /\ ~Forking' /\ pc' \notin {"call", "shell", "poke"}
  BY <1>4 DEF Forking
<1>6. child' \in Children
  BY ForkTypeNext DEF ForkNext, ForkArthur, ForkTypeOK, RemoteOK, Children
<1>7. Event' /\ Unborn'
  BY <1>0, <1>1, <1>2, <1>3, <1>5 DEF Event, Unborn
\* What these steps do to the child.
<1>8. CASE FreeOne \/ FreeDone \/ Memory \/ Settle
  <2>1. UNCHANGED <<child, restored>>
    BY <1>8 DEF FreeOne, FreeDone, Memory, Settle, local
  <2>2. Known'
    <3>1. ~sysCore /\ AfterFork => AfterFork'
      BY <1>0, <1>8 DEF AfterFork, FreeOne, FreeDone, Memory, Settle, Goto, Killing
    <3> QED BY <1>0, <1>1, <1>2, <1>5, <2>1, <3>1 DEF Known
  <2>3. Ends'
    <3>1. pc' = "terminate" => Failing'
      BY <1>0, <1>8 DEF FreeOne, FreeDone, Memory, Settle, Goto, ArthurOK, Failing, Killing
    <3>2. pc \notin {"exited", "poke"}
      BY <1>4
    <3> QED BY <1>0, <1>1, <1>2, <1>5, <2>1, <3>1, <3>2 DEF Ends
  <2> QED BY <1>0, <1>5, <1>7, <2>1, <2>2, <2>3 DEF Born, ChildInv
<1>9. CASE SkipInt3
  <2>1. /\ child'.state = child.state /\ child'.traced = child.traced /\ child'.core = child.core
        /\ child.state = "stopped" => child'.at = "exit"
        /\ child.state # "stopped" => child' = child
    BY <1>0, <1>9 DEF SkipInt3, Born, RemoteOK
  <2>2. ~sysCore => AfterFork'
    BY <1>9 DEF SkipInt3, AfterFork, Killing, Goto
  <2>3. pc = "skip" /\ UNCHANGED restored
    BY <1>9 DEF SkipInt3
  <2> QED BY <1>0, <1>1, <1>2, <1>5, <1>7, <2>1, <2>2, <2>3 DEF ChildInv, Born, Known, Ends
<1>10. CASE Terminate
  <2>0. pc = "terminate" /\ pc' \in {"terminate", after} /\ after # "terminate"
    BY <1>0, <1>10 DEF Terminate, Goto, LocalOK
  <2>1. child \in Children /\ (child.state = "stopped" => child.traced)
    BY <1>0 DEF RemoteOK, Born, Children
  <2>2. /\ child'.state = "stopped" => child'.traced
        /\ child'.traced => restored' = FALSE \/ (pc' = "terminate" /\ UNCHANGED restored)
        /\ child'.core = child.core /\ (child'.state = "new" => child.state = "new")
        /\ child'.state = "dying" => \/ child.state = "new"
                                    \/ (child.state \in {"stopped", "dying"} /\ child'.at = child.at)
        /\ pc' = "terminate" => child.state = "new"
    <3>1. CASE ~child.traced /\ pc' = after /\ UNCHANGED child
      BY <2>0, <2>1, <3>1
    <3>2. CASE child.traced /\ child.state = "stopped" /\ pc' = after
               /\ child' = [child EXCEPT !.state = "dying", !.traced = FALSE]
      BY <2>0, <2>1, <3>2 DEF Children
    <3>3. CASE child.traced /\ child.state = "new" /\ pc' = pc /\ UNCHANGED restored
               /\ child' = [child EXCEPT !.state = "dying"]
      BY <2>0, <2>1, <3>3 DEF Children
    <3>4. CASE child.traced /\ child.state = "dead" /\ Report(child) /\ pc' = after
      <4>1. PICK d \in BOOLEAN : d = child.core
        BY <2>1 DEF Children
      <4>2. child' = Reported(d)
        BY <1>0, <3>4, <4>1, ReportTyped
      <4> QED BY <2>0, <3>4, <4>1, <4>2 DEF Reported
    <3>5. CASE child.traced /\ child.state = "dying" /\ pc' = after /\ restored' = FALSE /\ UNCHANGED child
      BY <2>0, <2>1, <3>5
    <3> QED BY <1>10, <3>1, <3>2, <3>3, <3>4, <3>5 DEF Terminate, Goto
  <2>3. Born' /\ Known'
    BY <1>0, <1>5, <2>2 DEF Born, Known, AfterFork, Killing
  <2>4. Ends'
    <3> SUFFICES ASSUME ~sysCore, ~Failing
                 PROVE  /\ ~child'.core /\ child'.state # "new"
                        /\ child'.state = "dying" => child'.at = "exit"
                        /\ pc' # "terminate"
      BY <1>1, <1>2 DEF Ends
    <3>1. /\ ~child.core /\ child.state # "new" /\ (child.state \in {"dying", "stopped"} => child.at = "exit")
      BY <1>0, <1>5, <2>0 DEF Ends
    <3> QED BY <2>2, <3>1
  <2> QED BY <1>7, <2>3, <2>4 DEF ChildInv
<1>11. CASE Leave
  <2>1. pc' = "exited"
    BY <1>11 DEF Leave, ProcessExit, Goto
  <2>2. ~child'.traced /\ child'.state # "stopped"
    <3>1. child.traced \/ child.state # "stopped"
      BY <1>0 DEF Born
    <3>2. child' = [child EXCEPT !.traced = FALSE, !.state =
                 IF ~child.traced THEN @
                 ELSE IF child.state \in {"new", "stopped"} THEN "new" ELSE "dying"]
      BY <1>11 DEF Leave
    <3> QED BY <1>0, <3>1, <3>2 DEF RemoteOK
  <2> QED BY <1>5, <1>7, <2>1, <2>2 DEF ChildInv, Born, Known, Ends
<1> QED BY <1>8, <1>9, <1>10, <1>11

LEMMA ChildReap ==
  ASSUME ForkTypeOK, ImageInv, ChildInv,
         \/ Reattach \/ Rewait \/ Recont \/ Reundo \/ Rejudge \/ WaitpidDone \/ Reset \/ Redetach
  PROVE  ChildInv'
<1>0. /\ ThreadsOK /\ RemoteOK /\ ArthurOK /\ LocalOK /\ Untouched /\ Settled
      /\ Unborn /\ Born /\ Event /\ Known /\ Ends
  BY DEF ForkTypeOK, ImageInv, ChildInv
<1>1. UNCHANGED <<child, swallowed, wedged, rc, sysCore>> /\ (restored' => restored)
  <2>1. UNCHANGED <<child, swallowed, wedged, rc, sysCore>>
    BY DEF Reattach, Rewait, Recont, Reundo, Rejudge, WaitpidDone, Reset, Redetach, KeepsForReap,
       KeepsForCall, KeepsCall, Keeps
  <2>2. restored' => restored
    BY Zenon DEF Reattach, Rewait, Recont, Reundo, Rejudge, WaitpidDone, Reset, Redetach, KeepsForCall
  <2> QED BY <2>1, <2>2
<1>2. /\ pc \in Last \/ (pc = "call" /\ call.fn = "waitpid")
      /\ pc' \in Last \/ (pc' = "call" /\ call'.fn = "waitpid" /\ call'.at = "save")
  BY DEF Reattach, Rewait, Recont, Reundo, Rejudge, WaitpidDone, Reset, Redetach, Done, Goto,
     CallBegin, NoCall, Last
<1>3. /\ ~Forking /\ ~Forking' /\ ~AfterFork /\ pc' \notin {"shell", "terminate", "poke"} /\ pc \notin {"poke", "exited"}
      /\ pc' = "call" => call'.fn = "waitpid" /\ call'.at = "save"
  BY <1>2 DEF Forking, AfterFork, Last, Killing
<1>4. ~Failing
  BY <1>0, <1>2 DEF Failing, Settled, Killing, Last
<1>5. trap'[Leader] # "fork" /\ swallowed # "fork"
  <2>1. trap[Leader] # "fork" /\ swallowed # "fork"
    BY <1>0, <1>3, <1>4 DEF Event
  <2>2. trap' = trap \/ trap' = [trap EXCEPT ![Leader] = "none"]
    BY DEF Reattach, Rewait, Recont, Reundo, Rejudge, WaitpidDone, Reset, Redetach, KeepsTarget, target,
       KeepsForCall, SysAttach, SysReap, SysCont, SysDetach, DetachOk, DetachGone, DetachBroken
  <2> QED BY <1>0, <2>1, <2>2, LeaderTid DEF ThreadsOK
<1>6. Ours' => Ours
  BY <1>1, NobodyRevived, LeaderTid DEF ForkArthur, Ours
<1> QED BY <1>0, <1>1, <1>3, <1>4, <1>5, <1>6 DEF ChildInv, Unborn, Born, Event, Known, Ends

LEMMA ChildNext == ForkTypeOK /\ ImageInv /\ ChildInv /\ [ForkNext]_forkVars => ChildInv'
<1> SUFFICES ASSUME ForkTypeOK, ImageInv, ChildInv, [ForkNext]_forkVars PROVE ChildInv'
    OBVIOUS
<1>1. CASE UNCHANGED forkVars
  BY <1>1 DEF forkVars, vars, target, arthur, remote, local, ChildInv, Unborn, Born, Event, Known, Ends,
     Forking, AfterFork, Failing, Ours, Alive
<1>2. CASE ForkArthur
  BY <1>2, ChildShared, ChildCalls, ChildInjection, ChildRelease, ChildReap DEF ForkArthur
<1>3. CASE ForkEnvironment
  BY <1>3, ChildEnvironment
<1> QED BY <1>1, <1>2, <1>3 DEF ForkNext

\* Whichever way mode 0 ends, no traced copy of the target is left, unless the leader
\* could not be stopped, the fork event was lost with a stop, or the clean-up failed
\* and was reported; and a capture that succeeds leaves no core file of the copy.
THEOREM CopyEnded == ForkSpec => []NoChildLeft
<1>1. ForkTypeOK /\ ChildInv => NoChildLeft
  <2> SUFFICES ASSUME ForkTypeOK, ChildInv, pc = "returned", ~sysCore, Alive(Leader)
               PROVE  /\ child.traced => wedged \/ swallowed = "fork" \/ ~restored
                      /\ rc = 0 => ~child.core
    BY DEF NoChildLeft
  <2>1. child.traced => wedged \/ swallowed = "fork" \/ ~restored
    BY DEF ChildInv, Known, Ours, Forking, AfterFork, Killing
  <2>2. rc = 0 => ~child.core
    BY DEF ChildInv, Ends, Failing, Killing
  <2> QED BY <2>1, <2>2
<1> QED BY <1>1, ForkTypeInit, ForkTypeNext, ImageInit, ImageNext, ChildInit, ChildNext, PTL DEF ForkSpec

-----------------------------------------------------------------------------
(* The memory in the file                                                  *)

LEMMA CopyInit == ForkInit => CopyInv
<1> SUFFICES ASSUME ForkInit PROVE CopyInv
    OBVIOUS
<1>1. Init /\ pc = "start" /\ child = NoChild /\ image.where = "app"
  BY DEF ForkInit, Init, RemoteInit
<1>2. ~published
  BY Zenon DEF ForkInit, Init
<1>3. Collects
  BY <1>1, TypeInit, StillInit, SignalInit DEF Collects
<1> QED BY <1>1, <1>2, <1>3 DEF CopyInv, Unspoiled, OthersStill, Copied, Clean, Finished, Last, Killing,
     BeforeFork, AfterFork, NoChild, SnapshotUnpolluted

\* A step that leaves the threads alone, and goes on or gives up.
LEMMA GivesUp ==
  ASSUME TypeOK, RoundsLeft, StillInv, SignalInv, pc \in {"start", "loads"},
         KeepsTarget, KeepsArthur, UNCHANGED <<waitErr, relay>>, status' \in {"none", status},
         Fail \/ UNCHANGED <<pc, rc, todo>>
  PROVE  TypeOK' /\ RoundsLeft' /\ StillInv' /\ SignalInv' /\ FateMoves(FALSE)
<1> USE DEF KeepsTarget, KeepsArthur, target, Fail, Goto
<1>1. TypeOK'
  BY SignalAssumption DEF TypeOK, Traps, Steps
<1>2. RoundsLeft'
  BY DEF RoundsLeft, Ending
<1>3. StillInv'
  BY DEF StillInv, CreationOrder, LeaderLast, Chosen, Once, AllHeld, ListComplete, SnapshotIsStill, Ending, Captive,
     Alive, Trapped, Writing, AttachSteps
<1>4. Owed' = Owed
  BY DEF Owed, Ending
<1>5. SignalInv' /\ FateMoves(FALSE)
  BY <1>4 DEF SignalInv, OneTrapEach, Noted, FateMoves, Captive, Alive, Trapped
<1> QED BY <1>1, <1>2, <1>3, <1>5

\* What a step does that does not end in a fork.
LEMMA CollectsSteps ==
  ASSUME ForkTypeOK, ImageInv, Collects, [ForkNext]_forkVars, plan' # "fork"
  PROVE  /\ plan # "fork" /\ TypeOK' /\ RoundsLeft' /\ StillInv' /\ SignalInv'
         /\ FateMoves(pc \in {"undo", "giveUp"})
<1>0. /\ ArthurOK /\ LocalOK /\ Untouched /\ Settled
  BY DEF ForkTypeOK, ImageInv
<1>1. plan # "fork"
  <2>1. ForkArthur => plan' = plan \/ Begin \/ Plan
    BY DEF ForkArthur, Refuse, Shared, Calls, MmapDone, WriteShell, ForkDone, Poke, MunmapDone,
       PutBackRegs, Restore, FreeOne, FreeDone, Memory, SkipInt3, Terminate, Reattach, Rewait, Recont, Reundo,
       Rejudge, WaitpidDone, Reset, Redetach, Settle, Leave, KeepsForCall, KeepsForChild, KeepsForReap, local
  <2>2. plan = "fork" => pc # "start"
    BY <1>0 DEF Untouched, Early
  <2> QED BY <2>1, <2>2 DEF Begin, Plan, ForkNext, ForkEnvironment, forkVars, local
<1>2. /\ TypeOK /\ RoundsLeft /\ StillInv /\ SignalInv
  BY <1>1 DEF Collects
<1>3. /\ image.where = "app" /\ child = NoChild /\ ~haltPend /\ pc \in Steps
  BY <1>0, <1>1 DEF Untouched
<1>4. CASE [Next]_vars
  BY <1>1, <1>2, <1>4, TypeNext, StillNext, SignalNext
<1>5. CASE UNCHANGED forkVars
  BY <1>4, <1>5 DEF forkVars
<1>6. CASE ForkEnvironment
  <2>1. RemoteTarget /\ UNCHANGED arthur
    BY <1>6 DEF ForkEnvironment
  <2>2. ~Injected /\ ~HaltStop /\ ~ChildSteps /\ ~Disturbed
    BY <1>3 DEF Injected, Forks, HaltStop, ChildSteps, ChildRuns, ChildMeets, Disturbed, NoChild
  <2>3. Target
    BY <2>1, <2>2 DEF RemoteTarget, Target, React
  <2> QED BY <1>4, <2>1, <2>3 DEF Next, Environment
<1>7. CASE ForkArthur
  <2>1. Begin \/ Refuse \/ Shared \/ Plan \/ Leave
    BY <1>3, <1>7 DEF ForkArthur, Calls, MmapDone, WriteShell, ForkDone, Poke,
       MunmapDone, PutBackRegs, Restore, FreeOne, FreeDone, Memory, SkipInt3, Terminate, Reattach,
       Rewait, Recont, Reundo, Rejudge, WaitpidDone, Reset, Redetach, Settle, Done, Steps
  <2>2. CASE Refuse
    <3>1. WriteStage
      BY <2>2 DEF Refuse, WriteStage, Writing, KeepsTarget, Keeps, KeepsArthur
    <3> QED BY <1>4, <3>1 DEF Next, Arthur
  <2>3. CASE Shared \/ Leave
    BY <1>4, <2>3 DEF Shared, Leave, Next, Arthur
  <2>4. CASE Begin
    <3>1. Start \/ (Fail /\ KeepsTarget /\ Keeps /\ UNCHANGED <<status, waitErr, relay>>)
      BY <2>4 DEF Begin
    <3>2. pc = "start"
      BY <2>4 DEF Begin
    <3>3. FateMoves(FALSE) => FateMoves(pc \in {"undo", "giveUp"})
      BY DEF FateMoves
    <3> QED BY <1>1, <1>2, <1>4, <3>1, <3>2, <3>3, GivesUp DEF Keeps, Next, Arthur
  <2>5. CASE Plan
    <3>1. /\ pc = "loads" /\ KeepsTarget /\ KeepsArthur /\ status' = "none" /\ UNCHANGED <<waitErr, relay>>
          /\ Fail \/ UNCHANGED <<pc, rc, todo>>
      BY <2>5 DEF Plan
    <3>2. FateMoves(FALSE) => FateMoves(pc \in {"undo", "giveUp"})
      BY DEF FateMoves
    <3> QED BY <1>1, <1>2, <3>1, <3>2, GivesUp
  <2> QED BY <2>1, <2>2, <2>3, <2>4, <2>5
<1> QED BY <1>5, <1>6, <1>7 DEF ForkNext

LEMMA CollectsNext ==
  ASSUME ForkTypeOK, ImageInv, Collects, [ForkNext]_forkVars
  PROVE  Collects'
BY CollectsSteps DEF Collects

\* The steps that lead to the fork.
LEMMA ForkFollows ==
  ASSUME ForkTypeOK, ForkArthur
  PROVE  /\ BeforeFork' => Plan \/ Calls \/ MmapDone \/ WriteShell
         /\ pc' = "poke" => ForkDone
<1>0. ArthurOK /\ LocalOK
  BY DEF ForkTypeOK
<1>1. CASE Begin \/ Refuse \/ Shared
  <2>1. pc' \in Steps
    BY <1>0, <1>1 DEF Begin, Start, Fail, Refuse, Shared, ScanStep, ScanEnd, Pick, AttachNext, Attach, Wait, Cont,
       Undo, Classify, GiveUp, WriteThread, ReleaseOne, ReleaseDone, Commit, WriteStage, AfterStage, Writing,
       Steps, Goto, ScanFor, Attached, AttachFailed
  <2> QED BY <2>1 DEF BeforeFork, Steps
<1>2. CASE Plan \/ Calls
  BY <1>2, CallCases DEF Plan, Fail, Goto, arthur
<1>3. CASE MmapDone \/ WriteShell \/ ForkDone \/ Poke \/ MunmapDone \/ PutBackRegs \/ Restore
  BY <1>3 DEF MmapDone, WriteShell, ForkDone, Poke, MunmapDone, PutBackRegs, Restore, Fail, Goto, CallBegin,
     NoCall, BeforeFork
<1>4. CASE FreeOne \/ FreeDone \/ Memory \/ SkipInt3 \/ Terminate \/ Settle \/ Leave
  BY <1>0, <1>4 DEF FreeOne, FreeDone, Memory, SkipInt3, Terminate, Settle, Leave, ProcessExit, KeepsForChild,
     Goto, LocalOK, ArthurOK, Placed, Killing, BeforeFork
<1>5. CASE \/ Reattach \/ Rewait \/ Recont \/ Reundo \/ Rejudge \/ WaitpidDone \/ Reset \/ Redetach
  BY <1>5 DEF Reattach, Rewait, Recont, Reundo, Rejudge, WaitpidDone, Reset, Redetach, Goto, CallBegin,
     NoCall, BeforeFork
<1> QED BY <1>1, <1>2, <1>3, <1>4, <1>5 DEF ForkArthur

\* Outside of a call Arthur does nothing to the image but to put the registers back.
LEMMA ImageKept ==
  ASSUME RemoteOK, ForkArthur, ~Calls
  PROVE  /\ image'.where \in {image.where, "app"} /\ image'.dirty \subseteq image.dirty
         /\ wedged' = wedged
<1>1. image' = image \/ image' = PutBack \/ \E r \in BOOLEAN : image' = [image EXCEPT !.restart = r]
  <2>1. Begin \/ Refuse \/ Shared \/ MmapDone \/ WriteShell \/ ForkDone \/ Poke \/ MunmapDone => image' = image
    BY DEF Begin, Refuse, Shared, MmapDone, WriteShell, ForkDone, Poke, MunmapDone, KeepsCall, remote
  <2>2. FreeOne \/ FreeDone \/ Memory \/ SkipInt3 \/ Terminate \/ Settle \/ Leave => image' = image
    BY DEF FreeOne, FreeDone, Memory, SkipInt3, Terminate, Settle, Leave, KeepsForChild, KeepsCall
  <2>3. Plan \/ Rejudge => image' = image \/ \E r \in BOOLEAN : image' = [image EXCEPT !.restart = r]
    BY DEF Plan, Rejudge, RemoteOK
  <2>4. Reattach \/ Rewait \/ Recont \/ Reundo \/ WaitpidDone \/ Redetach => image' = image
    BY DEF Reattach, Rewait, Recont, Reundo, WaitpidDone, Redetach, KeepsCall
  <2>5. PutBackRegs \/ Restore \/ Reset => image' = image \/ image' = PutBack
    BY DEF PutBackRegs, Restore, Reset
  <2> QED BY <2>1, <2>2, <2>3, <2>4, <2>5 DEF ForkArthur
<1>2. wedged' = wedged
  BY DEF ForkArthur, Begin, Refuse, Shared, Plan, MmapDone, WriteShell, ForkDone, Poke, MunmapDone,
     PutBackRegs, Restore, FreeOne, FreeDone, Memory, SkipInt3, Terminate, Reattach, Rewait, Recont, Reundo,
     Rejudge, WaitpidDone, Reset, Redetach, Settle, Leave, KeepsForCall, KeepsForChild, KeepsForReap, KeepsCall, remote
<1>3. CASE image' = PutBack
  BY <1>2, <1>3 DEF PutBack, RemoteOK
<1>4. CASE \E r \in BOOLEAN : image' = [image EXCEPT !.restart = r]
  BY <1>2, <1>4 DEF RemoteOK
<1> QED BY <1>1, <1>2, <1>3, <1>4

LEMMA UnspoiledNext ==
  ASSUME ForkTypeOK, ImageInv, Unspoiled, [ForkNext]_forkVars
  PROVE  Unspoiled'
<1> SUFFICES ASSUME ~Failing' PROVE /\ (BeforeFork \/ pc = "poke")' => ~wedged'
                                    /\ image'.where = "fork" => "red" \notin image'.dirty
  BY DEF Unspoiled
<1>0. /\ ThreadsOK /\ RemoteOK /\ ArthurOK /\ LocalOK /\ Untouched /\ Restoring
      /\ BeforeFork \/ pc = "poke" => ~wedged
      /\ image.where = "fork" => "red" \notin image.dirty
  BY FailingStays DEF ForkTypeOK, ImageInv, Unspoiled
<1>1. CASE UNCHANGED forkVars
  BY <1>0, <1>1 DEF forkVars, vars, arthur, remote, BeforeFork
<1>2. CASE ForkEnvironment
  <2>1. RemoteStep /\ UNCHANGED <<pc, call, wedged>>
    BY <1>2, EnvironmentMoves DEF ForkEnvironment, RemoteStep, arthur
  <2>2. image'.where = "fork" => image' = image
    BY <2>1 DEF RemoteStep, Plain, Landing, Forked, ChildMoves
  <2> QED BY <1>0, <2>1, <2>2 DEF BeforeFork
<1>3. CASE Calls
  <2>1. call \in CallRecords /\ image \in Images /\ pc = "call" /\ UNCHANGED pc
    BY <1>0, <1>3, CallForms, CallCases DEF arthur
  <2>0. CallHaltWait \/ wedged' = wedged
    BY <1>3, CallCases
  <2>2. CASE CallHaltWait
    <3>1. call'.at = "fail" /\ call'.fn = call.fn /\ image' = image
      BY <2>1, <2>2 DEF CallHaltWait, CallGoto, CallRecords
    <3>2. ~BeforeFork'
      BY <2>1, <3>1 DEF Failing, BeforeFork
    <3> QED BY <1>0, <2>1, <3>1, <3>2
  <2>3. CASE CallEnter
    <3>1. call'.fn = call.fn /\ wedged' = wedged
      BY <2>0, <2>1, <2>3 DEF CallEnter, CallHaltWait, CallGoto, CallRecords
    <3>2. CASE UNCHANGED image
      BY <1>0, <2>1, <3>1, <3>2 DEF BeforeFork
    <3>3. CASE /\ Held
               /\ image' = [image EXCEPT
                     !.where = IF image.where = "app" /\ image.restart THEN "diverted" ELSE call.fn,
                     !.dirty = @ \cup {"slot", "regs"}]
      <4>1. image'.where = "fork" => BeforeFork
        BY <2>1, <3>3 DEF BeforeFork, Images
      <4>2. Alive(Leader)
        BY <1>0, <3>3, LeaderTid DEF Held, ThreadsOK, Alive
      <4>3. BeforeFork => image.dirty \subseteq {"regs"}
        BY <1>0, <2>1, <2>3, <4>2 DEF Restoring, Ours, Borrowed, Unsaved, CallEnter
      <4> QED BY <1>0, <2>1, <3>1, <3>3, <4>1, <4>3 DEF BeforeFork, Images
    <3> QED BY <2>3, <3>2, <3>3 DEF CallEnter
  <2>4. ASSUME ~CallHaltWait, ~CallEnter
        PROVE  /\ wedged' = wedged /\ call'.fn = call.fn
               /\ image'.where = image.where /\ image'.dirty \subseteq image.dirty
    <3>1. wedged' = wedged
      BY <2>0, <2>4
    <3>2. CASE CallFail \/ CallFinish
      <4>1. call'.fn = call.fn
        BY <2>1, <3>2 DEF CallFail, CallFinish, CallRecords
      <4>2. image'.where = image.where /\ image'.dirty \subseteq image.dirty
        BY <2>1, <3>2 DEF CallFail, CallFinish, Images
      <4> QED BY <3>1, <4>1, <4>2
    <3>3. CASE CallStopped(~sysCore /\ call.fn = "waitpid")
      BY <2>1, <3>1, <3>3 DEF CallStopped, CallGoto, CallRecords
    <3>4. CASE CallSave \/ CallResume \/ CallWait \/ CallExpires \/ CallHalt
      <4>1. image' = image
        BY <3>4 DEF CallSave, CallResume, CallWait, CallExpires, CallHalt
      <4> QED BY <2>1, <3>1, <3>4, <4>1 DEF CallSave, CallResume, CallWait, CallExpires, CallHalt, CallGoto, CallRecords
    <3> QED BY <1>3, <2>4, <3>2, <3>3, <3>4, CallCases
  <2> QED BY <1>0, <2>1, <2>2, <2>3, <2>4 DEF BeforeFork
<1>4. CASE ForkArthur /\ ~Calls
  <2>1. image'.where = "fork" => "red" \notin image'.dirty
    BY <1>0, <1>4, ImageKept
  <2>2. BeforeFork' \/ pc' = "poke" => ~wedged
    <3>1. Plan => ~wedged
      BY <1>0 DEF Plan, Untouched
    <3>2. MmapDone \/ WriteShell \/ ForkDone => BeforeFork
      BY DEF MmapDone, WriteShell, ForkDone, Done, BeforeFork
    <3> QED BY <1>0, <1>4, <3>1, <3>2, ForkFollows
  <2> QED BY <1>0, <1>4, <2>1, <2>2, ImageKept
<1> QED BY <1>1, <1>2, <1>3, <1>4 DEF ForkNext

LEMMA OthersNext ==
  ASSUME ForkTypeOK, ImageInv, Collects, OthersStill, [ForkNext]_forkVars
  PROVE  OthersStill'
<1> SUFFICES ASSUME ~Failing', BeforeFork'
             PROVE  /\ unavailable' = {} => \A t \in Tids \ {Leader} : Alive(t)' => Trapped(t)'
                    /\ image'.where = "app" => Held' \/ ~Alive(Leader)'
  BY DEF OthersStill
<1>0. /\ ThreadsOK /\ RemoteOK /\ ArthurOK /\ LocalOK /\ Settled /\ Executing
      /\ BeforeFork => /\ unavailable = {} => \A t \in Tids \ {Leader} : Alive(t) => Trapped(t)
                       /\ image.where = "app" => Held \/ ~Alive(Leader)
  BY FailingStays DEF ForkTypeOK, ImageInv, OthersStill
<1>1. CASE UNCHANGED forkVars
  BY <1>0, <1>1 DEF forkVars, vars, target, arthur, remote, BeforeFork, Alive, Trapped, Held
<1>2. CASE ForkEnvironment
  <2>1. RemoteStep /\ UNCHANGED <<pc, call, unavailable>>
    BY <1>2, EnvironmentMoves DEF ForkEnvironment, RemoteStep, arthur
  <2>2. BeforeFork
    BY <2>1 DEF BeforeFork
  <2>3. image'.where = "app" => image.where = "app"
    BY <2>1 DEF RemoteStep, Plain, Landing, Forked, ChildMoves
  <2>4. image'.where = "app" => Held' \/ ~Alive(Leader)'
    BY <1>0, <2>1, <2>2, <2>3, LeaderTid DEF RemoteStep, KernelStep, ThreadsOK, Held, Trapped
  <2>5. ASSUME unavailable = {}, NEW t \in Tids \ {Leader}, Alive(t)' PROVE Trapped(t)'
    <3>1. \A u \in Tids : Active(u) => u = Leader /\ image.where # "app"
      BY <1>0, <2>2, <2>5 DEF Active, Alive, Held
    <3>2. Alive(t)
      BY <2>1, <2>5, <3>1 DEF RemoteStep
    <3> QED BY <1>0, <2>1, <2>2, <2>5, <3>2 DEF RemoteStep, KernelStep, Trapped
  <2> QED BY <2>1, <2>4, <2>5
<1>3. CASE Calls
  <2>1. /\ pc = "call" /\ UNCHANGED <<pc, unavailable>> /\ call \in CallRecords
    BY <1>0, <1>3, CallForms, CallCases DEF arthur
  <2>2. CASE CallResume
    <3>1. /\ call.at = "resume" /\ call'.fn = call.fn /\ image' = image /\ task' = task
          /\ trap' = trap \/ trap' = [trap EXCEPT ![Leader] = "none"]
      BY <2>1, <2>2 DEF CallResume, CallGoto, CallRecords
    <3>2. BeforeFork
      BY <2>1, <3>1 DEF BeforeFork
    <3>3. image.where # "app"
      BY <1>0, <2>1, <3>1, <3>2 DEF Executing, BeforeFork
    <3> QED BY <1>0, <2>1, <3>1, <3>2, <3>3, LeaderTid DEF ThreadsOK, Alive, Trapped
  <2>3. ASSUME ~CallResume
        PROVE  /\ UNCHANGED target \/ SysReap(Leader)
               /\ call'.fn = call.fn
               /\ image'.where = "app" => image.where = "app"
    <3>1. CASE CallFail \/ CallFinish
      BY <1>0, <2>1, <3>1 DEF CallFail, CallFinish, CallRecords, RemoteOK
    <3>2. CASE CallStopped(~sysCore /\ call.fn = "waitpid")
      BY <2>1, <3>2 DEF CallStopped, CallGoto, CallRecords
    <3>3. CASE CallSave \/ CallWait \/ CallExpires \/ CallHalt \/ CallHaltWait
      <4>1. image' = image /\ (UNCHANGED target \/ SysReap(Leader))
        BY <3>3 DEF CallSave, CallWait, CallExpires, CallHalt, CallHaltWait
      <4> QED BY <2>1, <3>3, <4>1 DEF CallSave, CallWait, CallExpires, CallHalt, CallHaltWait, CallGoto, CallRecords
    <3>4. CASE CallEnter
      <4>1. call.fn # "app"
        BY <2>1 DEF CallRecords
      <4> QED BY <1>0, <2>1, <3>4, <4>1 DEF CallEnter, CallGoto, CallRecords, RemoteOK
    <3> QED BY <1>3, <2>3, <3>1, <3>2, <3>3, <3>4, CallCases
  <2>4. UNCHANGED target \/ SysReap(Leader) =>
          UNCHANGED trap /\ \A t \in Tids : Alive(t)' => Alive(t)
    BY <1>0, LeaderTid DEF ThreadsOK, target, SysReap, Alive
  <2>5. CASE ~CallResume
    <3>1. BeforeFork
      BY <2>1, <2>3, <2>5 DEF BeforeFork
    <3> QED BY <1>0, <2>1, <2>3, <2>4, <2>5, <3>1, LeaderTid DEF Held, Trapped
  <2> QED BY <2>2, <2>5
<1>4. CASE Plan
  <2>1. pc = "loads" /\ plan = "undecided" /\ UNCHANGED <<target, unavailable>>
    BY <1>4 DEF Plan, KeepsTarget, KeepsArthur
  <2>2. rc = 0
    BY <1>0, <2>1 DEF Settled, ArthurOK, Killing
  <2>3. SnapshotIsStill
    BY <2>1, <2>2 DEF Collects, StillInv, Ending
  <2>4. Held
    BY <1>4, <2>1 DEF Plan, Fail, Goto, BeforeFork
  <2> QED BY <2>1, <2>3, <2>4 DEF SnapshotIsStill, Writing, target, Alive, Trapped, Held
<1>5. CASE MmapDone \/ WriteShell
  <2>1. BeforeFork /\ UNCHANGED <<target, image, unavailable>>
    BY <1>5 DEF MmapDone, WriteShell, Done, BeforeFork, KeepsForCall, KeepsTarget, Keeps, KeepsArthur
  <2> QED BY <1>0, <2>1 DEF target, Alive, Trapped, Held
<1> QED BY <1>1, <1>2, <1>3, <1>4, <1>5, ForkFollows DEF ForkNext

\* What Arthur does to the child: it puts the word back, and ends it.
LEMMA ChildKept ==
  ASSUME ForkTypeOK, ForkArthur
  PROVE  /\ child.still => child'.still
         /\ child'.dirty \subseteq child.dirty
         /\ Poke => sysCore \/ Failing' \/ child'.dirty \subseteq child.dirty \ {"slot"}
<1>0. ThreadsOK /\ RemoteOK /\ child \in Children
  BY DEF ForkTypeOK, RemoteOK, Children
<1>1. child' = child \/ Poke \/ SkipInt3 \/ Terminate \/ Leave
  BY CallCases DEF ForkArthur, Begin, Refuse, Shared, Plan, MmapDone, WriteShell, ForkDone, MunmapDone,
     PutBackRegs, Restore, FreeOne, FreeDone, Memory, Reattach, Rewait, Recont, Reundo,
     Rejudge, WaitpidDone, Reset, Redetach, Settle, KeepsForReap, remote
<1>2. CASE Poke
  <2>1. child' = child \/ child' = [child EXCEPT !.dirty = @ \ {"slot"}]
    BY <1>2 DEF Poke
  <2>2. sysCore \/ child' = [child EXCEPT !.dirty = @ \ {"slot"}] \/ (pc' = "skip" /\ after' = "restore")
    BY <1>2 DEF Poke, Goto
  <2>3. pc' = "skip" /\ after' = "restore" => Failing'
    BY DEF Failing, Killing
  <2> QED BY <1>0, <2>1, <2>2, <2>3 DEF Children
<1>3. CASE SkipInt3
  <2>1. child' = child \/ child' = [child EXCEPT !.at = "exit"]
    BY <1>3 DEF SkipInt3
  <2>2. ~Poke
    BY <1>3 DEF Poke, SkipInt3
  <2> QED BY <1>0, <2>1, <2>2 DEF Children
<1>4. CASE Terminate
  <2>1. \/ child' = child \/ child' = [child EXCEPT !.state = "dying", !.traced = FALSE]
        \/ child' = [child EXCEPT !.state = "dying"] \/ Report(child)
    BY <1>4 DEF Terminate
  <2>2. ASSUME Report(child) PROVE child'.still = TRUE /\ child'.dirty = {}
    <3>1. PICK d \in BOOLEAN : d = child.core
      BY <1>0 DEF Children
    <3>2. child' = Reported(d)
      BY <1>0, <2>2, <3>1, ReportTyped
    <3> QED BY <3>2 DEF Reported
  <2>3. ~Poke
    BY <1>4 DEF Poke, Terminate
  <2> QED BY <1>0, <2>1, <2>2, <2>3 DEF Children
<1>5. CASE Leave
  <2>1. child' = [child EXCEPT !.traced = FALSE, !.state =
                    IF ~child.traced THEN @
                    ELSE IF child.state \in {"new", "stopped"} THEN "new" ELSE "dying"]
    BY <1>5 DEF Leave
  <2>2. child'.still = child.still /\ child'.dirty = child.dirty
    BY <1>0, <2>1 DEF Children
  <2>3. ~Poke
    BY <1>5 DEF Poke, Leave, ProcessExit
  <2> QED BY <2>2, <2>3
<1> QED BY <1>1, <1>2, <1>3, <1>4, <1>5

\* The steps that go well lead from the fork to the file, and from there to its end.
LEMMA CaptureFollows ==
  ASSUME ForkTypeOK, ImageInv, ForkArthur, ~sysCore, ~Failing'
  PROVE  /\ AfterFork' /\ pc' # "poke" => AfterFork /\ (pc = "poke" => Poke)
         /\ Finished' => Finished \/ Memory
         /\ plan = "fork" => unavailable' = unavailable
         /\ snapshot' = snapshot \/ Memory
<1>0. ArthurOK /\ LocalOK /\ Untouched /\ Settled
  BY DEF ForkTypeOK, ImageInv
<1>1. CASE Begin \/ Refuse \/ Shared
  <2>1. /\ plan = "fork" => pc \in {"release", "commit"} /\ (pc = "release" => rc = -1)
        /\ plan' = "fork" => plan = "fork"
    BY <1>0, <1>1 DEF Untouched, Early, Begin, Start, Fail, Refuse, Shared, local, ScanStep, ScanEnd, Pick,
       AttachNext, Attach, Wait, Cont, Undo, Classify, GiveUp, WriteThread, ReleaseOne, ReleaseDone, Commit,
       WriteStage, Writing
  <2>2. plan = "fork" => ReleaseOne \/ ReleaseDone \/ Commit
    BY <1>1, <2>1 DEF Begin, Refuse, Shared, ScanStep, ScanEnd, Pick, AttachNext, Attach, Wait, Cont,
       Undo, Classify, GiveUp, WriteThread, WriteStage, Writing
  <2>3. pc' \in Steps
    BY <1>0, <1>1 DEF Begin, Start, Fail, Refuse, Shared, ScanStep, ScanEnd, Pick, AttachNext, Attach, Wait, Cont,
       Undo, Classify, GiveUp, WriteThread, ReleaseOne, ReleaseDone, Commit, WriteStage, AfterStage, Writing,
       Steps, Goto, ScanFor, Attached, AttachFailed
  <2>4. plan = "fork" => pc' # "commit" /\ unavailable' = unavailable
    BY <2>1, <2>2 DEF ReleaseOne, ReleaseDone, Commit, Goto
  <2>5. snapshot' = snapshot
    BY <1>1 DEF Begin, Refuse, Shared, local
  <2> QED BY <2>1, <2>3, <2>4, <2>5 DEF AfterFork, Finished, Killing, Last, Steps
<1>2. CASE Plan
  BY <1>2 DEF Plan, Fail, Goto, CallBegin, NoCall, AfterFork, Finished, Killing, Last
<1>3. CASE Calls
  <2>1. pc = "call" /\ UNCHANGED <<pc, plan, after, snapshot, unavailable>>
    BY <1>3, CallCases DEF arthur, local
  <2>2. call'.fn = call.fn
    <3>1. call \in CallRecords
      BY CallForms DEF ForkTypeOK
    <3>2. CASE CallSave \/ CallEnter \/ CallResume \/ CallWait \/ CallExpires \/ CallHalt \/ CallHaltWait
      BY <3>1, <3>2 DEF CallSave, CallEnter, CallResume, CallWait, CallExpires, CallHalt,
         CallHaltWait, CallGoto, CallRecords
    <3>3. CASE CallFail \/ CallFinish \/ CallStopped(~sysCore /\ call.fn = "waitpid")
      BY <3>1, <3>3 DEF CallFail, CallFinish, CallStopped, CallGoto, CallRecords
    <3> QED BY <1>3, <3>2, <3>3, CallCases
  <2> QED BY <2>1, <2>2 DEF AfterFork, Finished, Killing
<1>4. CASE MmapDone \/ WriteShell \/ ForkDone \/ Poke \/ MunmapDone \/ PutBackRegs \/ Restore
  <2>1. UNCHANGED <<snapshot, unavailable>> /\ ~Memory
    BY <1>4 DEF MmapDone, WriteShell, ForkDone, Poke, MunmapDone, PutBackRegs, Restore, Memory, Done,
       KeepsForCall, Keeps, KeepsArthur, local
  <2>2. CASE MmapDone \/ WriteShell \/ Restore
    BY <2>1, <2>2 DEF MmapDone, WriteShell, Restore, Goto, Fail, CallBegin, NoCall, AfterFork, Finished,
       Killing, Last
  <2>3. CASE ForkDone
    <3>1. pc' \in {"poke", "restore"} \/ (pc' = "terminate" /\ after' = "restore")
      BY <2>3, Zenon DEF ForkDone, Goto
    <3> QED BY <2>1, <3>1 DEF Failing, AfterFork, Finished, Killing, Last
  <2>4. CASE Poke \/ MunmapDone \/ PutBackRegs
    BY <2>1, <2>4 DEF Poke, MunmapDone, PutBackRegs, Done, Goto, CallBegin, NoCall, AfterFork, Finished,
       Killing, Last, KeepsForCall
  <2> QED BY <1>4, <2>2, <2>3, <2>4
<1>5. CASE FreeOne \/ FreeDone \/ Memory \/ SkipInt3 \/ Terminate \/ Settle \/ Leave
  <2>1. UNCHANGED <<unavailable, plan>> /\ (snapshot' = snapshot \/ Memory)
    BY <1>5 DEF FreeOne, FreeDone, Memory, SkipInt3, Terminate, Settle, Leave, ProcessExit, Keeps, KeepsArthur,
       KeepsForChild, local
  <2>2. CASE FreeOne \/ FreeDone
    BY <1>0, <2>1, <2>2 DEF FreeOne, FreeDone, Goto, AfterFork, Finished, Killing, Last, local, LocalOK
  <2>3. CASE Memory
    BY <2>1, <2>3 DEF Memory, AfterFork, Killing
  <2>4. CASE SkipInt3 \/ Terminate
    BY <1>0, <2>1, <2>4 DEF SkipInt3, Terminate, KeepsForChild, Goto, AfterFork, Finished, Killing, Last, LocalOK,
       ArthurOK, Placed
  <2>5. CASE Settle \/ Leave
    BY <2>1, <2>5 DEF Settle, Leave, ProcessExit, Goto, AfterFork, Finished, Killing, Last
  <2> QED BY <1>5, <2>2, <2>3, <2>4, <2>5
<1>6. CASE \/ Reattach \/ Rewait \/ Recont \/ Reundo \/ Rejudge \/ WaitpidDone \/ Reset \/ Redetach
  <2>1. UNCHANGED <<snapshot, unavailable>>
    BY <1>6 DEF Reattach, Rewait, Recont, Reundo, Rejudge, WaitpidDone, Reset, Redetach, KeepsForReap,
       KeepsForCall, Keeps, KeepsArthur
  <2>2. Finished
    BY <1>6 DEF Reattach, Rewait, Recont, Reundo, Rejudge, WaitpidDone, Reset, Redetach, Done, Finished, Last
  <2>3. ~AfterFork'
    BY <1>6 DEF Reattach, Rewait, Recont, Reundo, Rejudge, WaitpidDone, Reset, Redetach, Goto, CallBegin, NoCall,
       AfterFork, Killing
  <2> QED BY <2>1, <2>2, <2>3
<1> QED BY <1>1, <1>2, <1>3, <1>4, <1>5, <1>6 DEF ForkArthur

LEMMA CopiedNext ==
  ASSUME ForkTypeOK, ImageInv, Unspoiled, OthersStill, Copied, [ForkNext]_forkVars
  PROVE  Copied'
<1>1. sysCore' = sysCore
  <2>1. ForkArthur => sysCore' = sysCore
    BY CallCases DEF ForkArthur, Begin, Refuse, Shared, Plan, MmapDone, WriteShell, ForkDone, Poke, MunmapDone,
       PutBackRegs, Restore, FreeOne, FreeDone, Memory, SkipInt3, Terminate, Reattach, Rewait, Recont, Reundo,
       Rejudge, WaitpidDone, Reset, Redetach, Settle, Leave, KeepsForCall, KeepsForChild, KeepsForReap, Keeps, remote
  <2>2. ForkEnvironment => sysCore' = sysCore
    BY EnvironmentMoves DEF RemoteStep
  <2> QED BY <2>1, <2>2 DEF ForkNext, forkVars, remote
<1> SUFFICES ASSUME ~Failing', ~sysCore
             PROVE  /\ child'.still \/ unavailable' # {}
                    /\ child'.dirty \subseteq {"slot"}
                    /\ AfterFork' /\ pc' # "poke" => child'.dirty = {}
                    /\ Finished' => snapshot' = "clean"
  BY <1>1 DEF Copied
<1>0. /\ ThreadsOK /\ RemoteOK /\ ArthurOK /\ LocalOK /\ Untouched /\ Executing
      /\ ~Failing
      /\ child.still \/ unavailable # {}
      /\ child.dirty \subseteq {"slot"}
      /\ AfterFork /\ pc # "poke" => child.dirty = {}
      /\ Finished => snapshot = "clean"
  BY FailingStays DEF ForkTypeOK, ImageInv, Copied
<1>2. CASE UNCHANGED forkVars
  BY <1>0, <1>2 DEF forkVars, vars, arthur, remote, local, AfterFork, Finished
<1>3. CASE ForkEnvironment
  <2>1. /\ RemoteStep /\ UNCHANGED <<unavailable, snapshot>>
        /\ AfterFork' = AfterFork /\ Finished' = Finished /\ pc' = pc
    BY <1>3, EnvironmentMoves DEF ForkEnvironment, RemoteStep, arthur, local, AfterFork, Finished
  <2>2. CASE Plain
    BY <1>0, <2>1, <2>2 DEF Plain
  <2>3. CASE Landing
    <3>1. child' = child \/ child' = [child EXCEPT !.state = "reaped"]
      BY <2>3 DEF Landing
    <3>2. child'.still = child.still /\ child'.dirty = child.dirty
      BY <1>0, <3>1 DEF RemoteOK
    <3> QED BY <1>0, <2>1, <3>2
  <2>4. CASE ChildMoves
    BY <1>0, <2>1, <2>4, ChildAlone DEF ChildMoves
  <2>5. CASE Forked
    <3>1. image.where = "fork" /\ Forks
      BY <2>5 DEF Forked, Forks
    <3>2. Forking /\ BeforeFork
      BY <1>0, <3>1 DEF Executing, Forking, BeforeFork
    <3>3. child'.dirty = image.dirty \cap {"slot", "red"}
          /\ (child'.still <=> \A t \in Tids \ {Leader} : Alive(t) => Trapped(t))
      BY <1>0, <3>1, ChildMade
    <3>4. "red" \notin image.dirty
      BY <1>0, <3>1 DEF Unspoiled
    <3>5. child'.still \/ unavailable # {}
      BY <1>0, <3>2, <3>3 DEF OthersStill
    <3>6. ~AfterFork /\ ~Finished
      BY <3>2 DEF Forking, AfterFork, Finished, Killing, Last
    <3> QED BY <2>1, <3>3, <3>4, <3>5, <3>6
  <2> QED BY <2>1, <2>2, <2>3, <2>4, <2>5 DEF RemoteStep
<1>4. CASE ForkArthur
  <2>1. child'.still \/ unavailable' # {}
    <3>1. CASE plan = "fork"
      BY <1>0, <1>4, <3>1, ChildKept, CaptureFollows
    <3>2. CASE plan # "fork"
      <4>1. child.still
        BY <1>0, <3>2 DEF Untouched, NoChild
      <4> QED BY <1>4, <4>1, ChildKept
    <3> QED BY <3>1, <3>2
  <2>2. child'.dirty \subseteq {"slot"}
    BY <1>0, <1>4, ChildKept
  <2>3. AfterFork' /\ pc' # "poke" => child'.dirty = {}
    <3>1. AfterFork' /\ pc' # "poke" => AfterFork /\ (pc = "poke" => Poke)
      BY <1>4, CaptureFollows
    <3> QED BY <1>0, <1>4, <3>1, ChildKept
  <2>4. Finished' => snapshot' = "clean"
    <3>1. CASE Memory
      <4>1. child.dirty = {}
        BY <1>0, <3>1 DEF Memory, AfterFork
      <4>2. rc' = -1 => Failing'
        BY DEF Failing
      <4> QED BY <1>0, <3>1, <4>1, <4>2 DEF Memory
    <3>2. CASE ~Memory
      BY <1>0, <1>4, <3>2, CaptureFollows
    <3> QED BY <3>1, <3>2
  <2> QED BY <2>1, <2>2, <2>3, <2>4
<1> QED BY <1>2, <1>3, <1>4 DEF ForkNext

LEMMA CleanNext ==
  ASSUME ForkTypeOK, ImageInv, Copied, Clean, [ForkNext]_forkVars
  PROVE  Clean'
<1>0. ArthurOK /\ LocalOK /\ Untouched /\ Settled /\ (published => pc \in {"returned", "exited"})
      /\ SnapshotUnpolluted
  BY DEF ForkTypeOK, ImageInv, Clean
<1>1. CASE UNCHANGED forkVars
  BY <1>0, <1>1 DEF forkVars, vars, arthur, remote, local, Clean, SnapshotUnpolluted
<1>2. CASE ForkEnvironment
  <2>1. UNCHANGED <<published, pc, plan, snapshot, sysCore>>
    BY <1>2, EnvironmentMoves DEF ForkEnvironment, RemoteStep, arthur, local
  <2> QED BY <1>0, <2>1 DEF Clean, SnapshotUnpolluted
<1>3. CASE Leave
  <2>1. UNCHANGED <<published, plan, snapshot, sysCore>> /\ pc' = "exited"
    BY <1>3 DEF Leave, ProcessExit, Goto, local
  <2> QED BY <1>0, <2>1 DEF Clean, SnapshotUnpolluted
<1>4. CASE ForkArthur /\ ~Leave
  <2>1. pc \notin {"returned", "exited"}
    BY <1>0, <1>4, CallCases DEF ForkArthur, Begin, Refuse, Shared, Plan, MmapDone, WriteShell, ForkDone, Poke,
       MunmapDone, PutBackRegs, Restore, FreeOne, FreeDone, Memory, SkipInt3, Terminate, Reattach,
       Rewait, Recont, Reundo, Rejudge, WaitpidDone, Reset, Redetach, Settle, Done,
       ScanStep, ScanEnd, Pick, AttachNext, Attach, Wait, Cont, Undo, Classify, GiveUp, WriteThread, ReleaseOne,
       ReleaseDone, Commit, WriteStage, Writing
  <2>2. ~published
    BY <1>0, <2>1
  <2>3. CASE Shared /\ Commit
    <3>1. pc = "commit" /\ pc' = "returned" /\ UNCHANGED <<plan, snapshot, sysCore>>
      BY <2>3 DEF Shared, Commit, Goto, remote, local
    <3>2. ~Failing
      BY <1>0, <3>1 DEF Settled, Failing, Killing
    <3>3. plan = "fork" /\ ~sysCore => snapshot = "clean"
      BY <3>1, <3>2 DEF Copied, Finished
    <3> QED BY <3>1, <3>3 DEF Clean, SnapshotUnpolluted
  <2>4. CASE ~(Shared /\ Commit)
    <3>1. published' = published
      <4>1. Begin \/ Refuse \/ Plan \/ Calls => published' = published
        BY CallCases DEF Begin, Start, Refuse, Plan, Keeps, KeepsArthur, arthur
      <4>2. Shared => published' = published
        BY <2>4 DEF Shared, ScanStep, ScanEnd, Pick, AttachNext, Attach, Wait, Cont, Undo, Classify, GiveUp,
           WriteThread, ReleaseOne, ReleaseDone, WriteStage
      <4>3. MmapDone \/ WriteShell \/ ForkDone \/ Poke \/ MunmapDone \/ PutBackRegs \/ Restore \/ FreeOne
            \/ FreeDone \/ Memory \/ SkipInt3 \/ Terminate \/ Settle => published' = published
        BY DEF MmapDone, WriteShell, ForkDone, Poke, MunmapDone, PutBackRegs, Restore, FreeOne, FreeDone, Memory,
           SkipInt3, Terminate, Settle, KeepsForCall, KeepsForChild, Keeps, KeepsArthur
      <4>4. Reattach \/ Rewait \/ Recont \/ Reundo \/ Rejudge \/ WaitpidDone \/ Reset \/ Redetach
            => published' = published
        BY DEF Reattach, Rewait, Recont, Reundo, Rejudge, WaitpidDone, Reset, Redetach, KeepsForReap,
           KeepsForCall, Keeps, KeepsArthur
      <4> QED BY <1>4, <4>1, <4>2, <4>3, <4>4 DEF ForkArthur
    <3> QED BY <2>2, <3>1 DEF Clean, SnapshotUnpolluted
  <2> QED BY <2>3, <2>4
<1> QED BY <1>1, <1>2, <1>3, <1>4 DEF ForkNext

LEMMA CopyNext == ForkTypeOK /\ ImageInv /\ CopyInv /\ [ForkNext]_forkVars => CopyInv'
  BY UnspoiledNext, OthersNext, CopiedNext, CleanNext, CollectsNext DEF CopyInv

\* A published file of mode 0 shows the memory of the moment at which every thread
\* stood still, and none of the words that the injection wrote into the target.
THEOREM FileIsTheTarget == ForkSpec => []SnapshotUnpolluted
<1>1. CopyInv => SnapshotUnpolluted
  BY DEF CopyInv, Clean
<1> QED BY <1>1, ForkTypeInit, ForkTypeNext, ImageInit, ImageNext, CopyInit, CopyNext, PTL DEF ForkSpec

-----------------------------------------------------------------------------
(* The signals                                                             *)

\* A signal of the leader's that forkcore may drop.
Forfeit(s) == (s = "chld" /\ chldAction # "handler") \/ s = swallowed \/ s \in Foreign \/ wedged

\* The leader is in a stop of which sig has to be passed on: the stop is lost
\* only if it may be, and nothing else is delivered in its place.
Kept(sig) == /\ trap[Leader] \in Signals => sig = trap[Leader] \/ Forfeit(trap[Leader])
             /\ sig # "none" => sig = trap[Leader]

\* The same where the probe of a failed call will find a crash.
Probed(sig) == /\ trap[Leader] \in Signals =>
                    \/ sig = trap[Leader] \/ trap[Leader] \in Core \/ Forfeit(trap[Leader])
               /\ sig # "none" => sig = trap[Leader]

\* The threads that forkcore has still to let go for the first time.
Calling == pc = "call" /\ call.fn # "waitpid"
Undone == pc = "restore" \/ (pc \in Killing /\ after = "restore")
ForkOwed == IF Calling \/ Undone \/ pc \in {"shell", "poke", "putBack"} THEN collected
            ELSE IF pc \in {"free", "release"} THEN todo ELSE {}

Others == \A t \in ForkOwed \ {Leader} :
            task[t] # "none" /\ (Alive(t) => Trapped(t) /\ relay[t] = Own(trap[t]))

\* Of the stop of the leader, in a call.
InCall ==
  pc = "call" /\ Alive(Leader) =>
    /\ call.at \in {"save", "enter", "resume"} => Kept("none")
    /\ call.at = "stopped" => Held /\ trap[Leader] = call.status
    /\ call.at = "finish" \/ (call.at = "done" /\ call.result # "failed") => trap[Leader] = "fault"
    /\ call.at = "fail" \/ (call.at = "done" /\ call.result = "failed") => Probed(call.sig)
    /\ call.at # "fail" /\ ~(call.at = "done" /\ call.result = "failed") => call.sig = "none"

\* And outside of one.
Between ==
  Alive(Leader) =>
    /\ pc \in {"shell", "poke"} => trap[Leader] = "fault"
    /\ Undone => Probed(call.sig)
    /\ pc \in {"putBack", "reset", "redetach"} \/ (pc = "free" /\ Leader \in todo) => Kept(detachSig)
    /\ pc \in {"redetach", "rejudge"} \/ (pc \in {"free", "release"} /\ Leader \in todo) => Held \/ wedged
    /\ pc = "release" /\ Leader \in todo => Kept(relay[Leader])
    /\ pc = "rejudge" => Held /\ status = Own(trap[Leader])
    /\ pc = "reundo" /\ status # "none" => status = trap[Leader]

\* Nothing is left over from an earlier stop.
Cleared ==
  /\ pc # "release" => relay[Leader] = "none"
  /\ pc \in {"call", "shell", "poke", "memory", "reattach", "rewait", "rejudge"} \/ (pc \in Killing /\ after # "restore") =>
       detachSig = "none"
  /\ pc \notin {"rejudge", "reundo"} => status = "none"
  /\ pc = "putBack" => call.sig = "none"

Passed == plan = "fork" => OneTrapEach /\ Others /\ InCall /\ Between /\ Cleared

\* The leader is attached first, and stands for the target.
LeaderFirst ==
  plan = "undecided" /\ pc \notin Ending =>
    /\ control = Leader
    /\ collected = {} => tid = Leader /\ pc \in {"start"} \cup AttachSteps
    /\ pc \in {"threadMeta", "loads"} => relay[Leader] = "none"

RelayInv == LeaderFirst /\ Passed

\* What forkcore may do to a signal.
Losing(s) == pc \in {"undo", "giveUp", "reundo"} \/ Forfeit(s)
FatesKept ==
  \A s \in Signals : fate'[s] # fate[s] => fate'[s] # "twice" /\ (fate'[s] = "discarded" => Losing(s))

\* What the target does to its signals: nothing is lost, nothing comes twice.
LEMMA KernelSignals ==
  ASSUME ThreadsOK, RemoteOK, RemoteTarget, OneTrapEach
  PROVE  OneTrapEach' /\ FateMoves(FALSE)
<1> DEFINE Goal == OneTrapEach' /\ FateMoves(FALSE)
<1> USE StopFacts, LeaderTid DEF ThreadsOK, OneTrapEach, FateMoves, Alive, Trapped
<1>1. ASSUME NEW s \in Signals, Send(s) PROVE Goal
  BY <1>1 DEF Send
<1>2. ASSUME NEW t \in Tids, NEW s \in Signals, Meet(t, s), ~Trapped(t) PROVE Goal
  <2>1. fate[s] = "pending"
    BY <1>2 DEF Meet
  <2>2. CASE t \in traced
    BY <1>2, <2>1, <2>2 DEF Meet
  <2>3. CASE t \notin traced
    BY <1>2, <2>1, <2>3 DEF Meet, Deliver
  <2> QED BY <2>2, <2>3
<1>3. ASSUME NEW t \in Tids, MeetStop(t) \/ GroupTrap(t) PROVE Goal
  BY <1>3 DEF MeetStop, GroupTrap
<1>4. ASSUME NEW t \in Tids, Clone(t) \/ Release(t) \/ Sleep(t) \/ Wake(t) PROVE Goal
  BY <1>4 DEF Clone, Release, Sleep, Wake
<1>5. ASSUME NEW t \in Tids, Exit(t) PROVE Goal
  BY <1>5 DEF Exit, Expire
<1>6. ASSUME Kill PROVE Goal
  BY <1>6 DEF Kill, Expire
<1>7. CASE Injected
  <2>1. Forks \/ \E v \in {"good", "bad"} : Returns(v)
    BY <1>7 DEF Injected
  <2>2. CASE Forks
    BY <2>2 DEF Forks
  <2>3. ASSUME NEW v \in {"good", "bad"}, Returns(v) PROVE Goal
    BY <2>3 DEF Returns, Expire
  <2> QED BY <2>1, <2>2, <2>3
<1>8. CASE HaltStop
  BY <1>8 DEF HaltStop
<1>9. CASE ChildSteps
  <2>1. trap' = trap
    BY <1>9 DEF ChildSteps
  <2>2. \/ fate' = fate
        \/ fate' = [fate EXCEPT !["chld"] = "expired"] /\ fate["chld"] = "unsent"
        \/ fate' = [fate EXCEPT !["chld"] = "pending"] /\ fate["chld"] = "unsent"
    BY <1>9 DEF ChildSteps, ChildRuns, Report
  <2> QED BY <2>1, <2>2
<1>10. Disturbed => MeetStop(Leader) \/ \E s \in Signals : Meet(Leader, s) /\ ~Trapped(Leader)
  BY DEF Disturbed, Running, Held
<1> QED BY <1>1, <1>2, <1>3, <1>4, <1>5, <1>6, <1>7, <1>8, <1>9, <1>10
        DEF RemoteTarget, TakeStop, Dequeue, Active

\* A detach that passes on the signal of the stop, or none.
LEMMA DetachPasses ==
  ASSUME ThreadsOK, OneTrapEach, NEW t \in Tids, NEW sig, DetachOk(t, sig), sig \in {"none", trap[t]}
  PROVE  /\ OneTrapEach'
         /\ \A s \in Signals : fate'[s] # fate[s] =>
              fate'[s] # "twice" /\ (fate'[s] = "discarded" => s = trap[t] /\ sig = "none")
         /\ trap' = [trap EXCEPT ![t] = "none"] /\ task' = task
BY StopFacts DEF DetachOk, SysDetach, ThreadsOK, OneTrapEach, Trapped

\* Stops and fates stay as they are.
LEMMA SignalsStay ==
  ASSUME OneTrapEach, UNCHANGED <<trap, fate>>
  PROVE  OneTrapEach' /\ FatesKept
BY DEF OneTrapEach, FatesKept

LEMMA RelayInit == ForkInit => RelayInv
BY DEF ForkInit, Init, RelayInv, LeaderFirst, Passed, Ending

\* Unless it has forked, forkcore begins with the leader and turns a signal of its down.
LEMMA LeaderFirstNext ==
  ASSUME ForkTypeOK, ImageInv, Collects, LeaderFirst, [ForkNext]_forkVars
  PROVE  LeaderFirst'
<1> SUFFICES ASSUME plan' = "undecided", pc' \notin Ending
             PROVE  /\ control' = Leader
                    /\ collected' = {} => tid' = Leader /\ pc' \in {"start"} \cup AttachSteps
                    /\ pc' \in {"threadMeta", "loads"} => relay'[Leader] = "none"
  BY DEF LeaderFirst
<1>0. ArthurOK /\ Untouched /\ plan # "fork" /\ Chosen' /\ StillInv
  BY CollectsSteps DEF ForkTypeOK, ImageInv, StillInv, Collects
<1>1. CASE UNCHANGED <<arthur, local>>
  BY <1>0, <1>1 DEF arthur, local, LeaderFirst, Ending
<1>2. CASE ForkArthur
  <2>1. Begin \/ Refuse \/ Shared \/ Plan \/ Leave
    BY <1>0, <1>2 DEF ForkArthur, Calls, MmapDone, WriteShell, ForkDone, Poke, Untouched,
       MunmapDone, PutBackRegs, Restore, FreeOne, FreeDone, Memory, SkipInt3, Terminate, Reattach,
       Rewait, Recont, Reundo, Rejudge, WaitpidDone, Reset, Redetach, Settle, Done, Steps
  <2>2. CASE Begin
    BY <1>0, <2>2 DEF Begin, Start, Fail, Goto, LeaderFirst, Ending, AttachSteps
  <2>3. CASE Refuse \/ Leave \/ Plan
    BY <2>3 DEF Refuse, Leave, Plan, Fail, Goto, ProcessExit, Ending, KeepsTarget, KeepsArthur, CallBegin
  <2>4. CASE Shared
    <3>1. plan = "undecided" /\ LeaderFirst
      BY <2>4 DEF Shared, local
    <3>2. CASE ReleaseOne \/ ReleaseDone \/ Commit
      BY <3>2 DEF ReleaseOne, ReleaseDone, Commit, Goto, Ending
    <3>3. CASE ScanStep \/ ScanEnd \/ Pick \/ AttachNext
      BY <1>0, <3>1, <3>3 DEF ScanStep, ScanEnd, Pick, AttachNext, Fail, Goto, ScanFor, LeaderFirst, Ending, AttachSteps
    <3>4. CASE Attach \/ Wait \/ Cont \/ Undo \/ GiveUp
      BY <1>0, <3>1, <3>4 DEF Attach, Wait, Cont, Undo, GiveUp, AttachFailed, Choosing, Fail, Goto, LeaderFirst,
         Ending, AttachSteps
    <3>5. CASE Classify
      BY <1>0, <3>1, <3>5, LeaderTid DEF Classify, Attached, ScanFor, Choosing, Fail, Goto, LeaderFirst, Ending, AttachSteps
    <3>6. CASE WriteThread
      BY <1>0, <3>1, <3>6 DEF WriteThread, Fail, Goto, LeaderFirst, Ending, AttachSteps
    <3>7. CASE WriteStage /\ (pc = "procMeta" /\ plan = "undecided" => relay[Leader] = "none")
                          /\ (pc = "loads" => plan = "direct")
      BY <1>0, <3>1, <3>7 DEF WriteStage, AfterStage, Writing, Fail, Goto, LeaderFirst, Ending, AttachSteps
    <3> QED BY <2>4, <3>2, <3>3, <3>4, <3>5, <3>6, <3>7 DEF Shared
  <2> QED BY <2>1, <2>2, <2>3, <2>4
<1> QED BY <1>1, <1>2 DEF ForkNext, ForkEnvironment, forkVars, vars

\* The injection begins with a leader whose stop owes the target nothing.
LEMMA PassedBegins ==
  ASSUME ForkTypeOK, ImageInv, Collects, LeaderFirst, Plan, plan' = "fork"
  PROVE  Passed' /\ FatesKept
<1>1. /\ pc = "loads" /\ plan = "undecided" /\ pc' = "call" /\ CallBegin("mmap")
      /\ UNCHANGED <<target, collected, relay, detachSig>> /\ status' = "none"
  BY DEF Plan, Fail, Goto, KeepsTarget, KeepsArthur
<1>2. TypeOK /\ StillInv /\ SignalInv /\ Untouched /\ ArthurOK
  BY <1>1 DEF Collects, ImageInv, ForkTypeOK
<1>3. /\ call'.fn = "mmap" /\ call'.at = "save" /\ call'.sig = "none" /\ call'.result = "none"
  BY <1>1 DEF CallBegin, NoCall
<1>4. /\ \A t \in collected : Captive(t) /\ (Trapped(t) => relay[t] = Own(trap[t]))
      /\ Leader \in collected /\ relay[Leader] = "none" /\ detachSig = "none"
  BY <1>1, <1>2 DEF StillInv, SignalInv, Noted, Owed, Ending, LeaderFirst, Untouched, Chosen, Writing
<1>5. trap[Leader] \notin Signals
  BY <1>4, StopFacts DEF Own, Trapped
<1>6. OneTrapEach' /\ FatesKept
  BY <1>1, <1>2, SignalsStay DEF SignalInv, target
<1>7. Others'
  BY <1>1, <1>3, <1>4 DEF Others, ForkOwed, Calling, Undone, Captive, Alive, Trapped, target
<1>8. InCall'
  BY <1>1, <1>3, <1>5 DEF InCall, Kept, target
<1>9. Between' /\ Cleared'
  BY <1>1, <1>4 DEF Between, Cleared, Undone, Killing
<1> QED BY <1>6, <1>7, <1>8, <1>9 DEF Passed

LEMMA PassedEnvironment ==
  ASSUME ForkTypeOK, ImageInv, Passed, plan = "fork", ForkEnvironment
  PROVE  Passed' /\ FatesKept
<1>0. /\ ThreadsOK /\ RemoteOK /\ Restoring /\ OneTrapEach /\ Others /\ InCall /\ Between /\ Cleared
      /\ UNCHANGED <<arthur, local>> /\ RemoteTarget
  BY DEF ForkTypeOK, ImageInv, Passed, ForkEnvironment
<1>1. /\ KernelStep /\ UNCHANGED <<call, sysCore, chldAction, swallowed, wedged>>
  BY <1>0, RemoteMoves DEF RemoteStep
<1>2. OneTrapEach' /\ FatesKept
  <2>1. OneTrapEach' /\ FateMoves(FALSE)
    BY <1>0, KernelSignals
  <2> QED BY <2>1 DEF FateMoves, FatesKept
<1>3. Others'
  <2>1. ForkOwed' = ForkOwed /\ ForkOwed \subseteq Tids
    BY <1>0, <1>1 DEF ForkOwed, Calling, Undone, arthur, local, ForkTypeOK, ArthurOK
  <2> QED BY <1>0, <1>1, <2>1 DEF Others, KernelStep, Alive, Trapped, arthur
<1>4. /\ Alive(Leader)' => Alive(Leader)
      /\ Alive(Leader)' /\ trap[Leader] # "none" => trap'[Leader] = trap[Leader]
      /\ Alive(Leader)' /\ Borrowed => wedged \/ Held
           \/ (pc = "call" /\ call.at \in {"wait", "halt", "haltWait"})
  BY <1>0, <1>1, LeaderTid DEF KernelStep, ThreadsOK, Held, Trapped, Restoring, Ours
<1>5. wedged => \A s \in Signals : Forfeit(s)'
  BY <1>1 DEF Forfeit
<1>6. \A s \in Signals : Forfeit(s)' <=> Forfeit(s)
  BY <1>1 DEF Forfeit
<1>7. InCall'
  BY <1>0, <1>1, <1>4, <1>5, <1>6, StopFacts DEF InCall, Kept, Probed, Borrowed, Held, Trapped, arthur
<1>8. Between'
  <2> SUFFICES ASSUME Alive(Leader)' PROVE Between'
    BY DEF Between
  <2>1. UNCHANGED <<pc, todo, status, relay, after, detachSig, call>> /\ (Undone' <=> Undone)
    BY <1>0, <1>1 DEF arthur, local, Undone
  <2>2. CASE Held
    BY <1>0, <1>4, <1>6, <2>1, <2>2 DEF Between, Kept, Probed, Held, Trapped
  <2>3. CASE ~Held /\ wedged
    <3>1. wedged'
      BY <1>1, <2>3
    <3> QED BY <1>0, <1>4, <1>5, <2>1, <2>3, <3>1 DEF Between, Kept, Probed, Held, Trapped
  <2>4. CASE ~Held /\ ~wedged
    <3>1. ~Undone /\ pc \notin {"shell", "poke", "putBack", "reset"}
      BY <1>4, <2>4 DEF Borrowed, Undone, Killing
    <3> QED BY <1>0, <1>4, <2>1, <2>4, <3>1 DEF Between, Kept, Held, Trapped
  <2> QED BY <2>2, <2>3, <2>4
<1>9. Cleared'
  BY <1>0, <1>1 DEF Cleared, arthur, local
<1> QED BY <1>2, <1>3, <1>7, <1>8, <1>9 DEF Passed

\* A call looks at each stop of the leader: it lets none go of which a signal is still
\* to be passed on, and tells its caller of the one that ends it.
LEMMA PassedCalls ==
  ASSUME ForkTypeOK, ImageInv, Passed, plan = "fork", Calls
  PROVE  Passed' /\ FatesKept
<1>0. /\ ThreadsOK /\ RemoteOK /\ Restoring /\ OneTrapEach /\ Others /\ InCall /\ Between /\ Cleared
      /\ ForkOwed \subseteq Tids
  BY DEF ForkTypeOK, ArthurOK, ImageInv, Passed, ForkOwed
<1>1. /\ pc = "call" /\ UNCHANGED <<arthur, local, sysCore, chldAction>> /\ call \in CallRecords /\ plan' = plan
  BY <1>0, CallForms, CallCases DEF local
<1>2. CASE CallResume
  <2>1. /\ call.at = "resume" /\ UNCHANGED <<task, traced, swallowed, wedged>>
        /\ trap' = trap \/ trap' = [trap EXCEPT ![Leader] = "none"]
        /\ call'.fn = call.fn /\ call'.sig = call.sig /\ call'.result = call.result
        /\ \/ Held /\ call'.at = "wait"
           \/ ~Held /\ call'.at = "fail" /\ UNCHANGED <<trap, fate>>
    BY <1>1, <1>2, CallCases DEF CallResume, CallGoto, CallRecords, CallSave, CallEnter, CallFail, CallFinish,
       CallStopped, CallExpires, CallHalt, CallHaltWait
  <2>2. OneTrapEach' /\ FatesKept
    <3>1. CASE Held
      <4>1. Alive(Leader)
        BY <1>0, <3>1, LeaderTid DEF ThreadsOK, Held, Alive
      <4>2. trap[Leader] \in Signals => Forfeit(trap[Leader])
        BY <1>0, <1>1, <2>1, <4>1, StopFacts DEF InCall, Kept
      <4>3. /\ trap' = [trap EXCEPT ![Leader] = "none"]
            /\ fate' = [s \in Signals |-> IF s = trap[Leader] THEN "discarded" ELSE fate[s]]
        BY <1>2, <3>1 DEF CallResume
      <4> QED BY <1>0, <4>2, <4>3, LeaderTid, StopFacts DEF ThreadsOK, OneTrapEach, FatesKept, Losing
    <3>2. CASE ~Held
      BY <1>0, <2>1, <3>2, SignalsStay
    <3> QED BY <3>1, <3>2
  <2>3. InCall'
    <3>1. Alive(Leader)' => Alive(Leader)
      BY <2>1 DEF Alive
    <3>2. CASE Held
      BY <1>0, <1>1, <2>1, <3>1, <3>2 DEF InCall
    <3>3. CASE ~Held /\ Alive(Leader)
      <4>1. wedged
        BY <1>0, <1>1, <2>1, <3>3 DEF Restoring, Ours, Borrowed
      <4>2. wedged' /\ trap' = trap /\ call'.sig = "none" /\ call'.at = "fail"
        BY <1>0, <1>1, <2>1, <3>3, <4>1 DEF InCall
      <4> QED BY <4>2 DEF InCall, Probed, Forfeit
    <3> QED BY <3>1, <3>2, <3>3 DEF InCall
  <2> QED BY <1>0, <1>1, <2>1, <2>2, <2>3, LeaderTid
          DEF Passed, Others, Between, Cleared, ForkOwed, Calling, Undone, Killing, ThreadsOK, Alive, Trapped, arthur, local
<1>3. CASE ~CallResume
  <2>1. /\ UNCHANGED <<trap, fate>> /\ call'.fn = call.fn
        /\ UNCHANGED task \/ (task' = [task EXCEPT ![Leader] = "gone"])
    <3>1. UNCHANGED target \/ SysReap(Leader)
      BY <1>3, CallCases DEF CallWait, CallHaltWait
    <3>2. call'.fn = call.fn
      BY <1>1, <1>3, CallCases DEF CallSave, CallEnter, CallFail, CallFinish, CallWait,
         CallStopped, CallExpires, CallHalt, CallHaltWait, CallGoto, CallRecords
    <3> QED BY <3>1, <3>2 DEF target, SysReap
  <2>2. OneTrapEach' /\ FatesKept
    BY <1>0, <2>1, SignalsStay
  <2>3. Alive(Leader)' => Alive(Leader) /\ UNCHANGED task
    BY <1>0, <2>1, LeaderTid DEF ThreadsOK, Alive
  <2>4. SUFFICES ASSUME Alive(Leader)' PROVE InCall'
    BY <1>0, <1>1, <2>1, <2>2, LeaderTid
       DEF Passed, Others, Between, Cleared, ForkOwed, Calling, Undone, Killing, ThreadsOK, Alive, Trapped, arthur, local,
           InCall
  <2>5. CASE CallSave \/ CallEnter
    <3>1. /\ UNCHANGED <<swallowed, wedged>>
          /\ call.at \in {"save", "enter"} /\ call'.at \in {"enter", "resume", "fail"}
          /\ call'.sig = call.sig /\ call'.result = call.result
      BY <1>1, <2>5, CallCases DEF CallSave, CallEnter, CallGoto, CallRecords, CallResume, CallWait, CallFail, CallFinish,
         CallStopped, CallExpires, CallHalt, CallHaltWait
    <3>2. Kept("none")' /\ call.sig = "none"
      BY <1>0, <1>1, <2>1, <2>3, <2>4, <3>1 DEF InCall, Kept, Forfeit
    <3> QED BY <3>1, <3>2 DEF InCall, Kept, Probed
  <2>6. CASE CallWait
    <3>1. /\ call.at = "wait" /\ call'.sig = call.sig /\ call'.result = call.result
          /\ \/ call'.at = "stopped" /\ Held /\ call'.status = trap[Leader]
             \/ CanReap(Leader) /\ SysReap(Leader)
             \/ call'.at = "halt"
      BY <1>1, <2>6 DEF CallWait, CallGoto, CallRecords
    <3>2. ~SysReap(Leader)
      BY <1>0, <2>3, <2>4, LeaderTid DEF SysReap, ThreadsOK, Alive
    <3> QED BY <1>0, <1>1, <2>1, <2>3, <2>4, <3>1, <3>2 DEF InCall, Held, Trapped
  <2>7. CASE CallStopped(~sysCore /\ call.fn = "waitpid") /\ UNCHANGED <<swallowed, wedged>>
    <3>1. /\ call.at = "stopped" /\ Held /\ trap[Leader] = call.status /\ call.sig = "none" /\ call.result \in {"none", "failed", "good", "bad"}
      BY <1>0, <1>1, <2>3, <2>4, <2>7 DEF InCall, CallStopped, CallRecords
    <3>2. CASE call.status = "fault" /\ CallGoto("finish")
      BY <1>1, <2>1, <3>1, <3>2 DEF CallGoto, CallRecords, InCall
    <3>3. CASE call.status \in Core /\ CallGoto("fail")
      <4>1. call'.at = "fail" /\ call'.sig = "none"
        BY <1>1, <3>1, <3>3 DEF CallGoto, CallRecords
      <4>2. trap'[Leader] \in Core
        BY <2>1, <3>1, <3>3
      <4> QED BY <4>1, <4>2 DEF InCall, Probed
    <3>4. CASE call' = [call EXCEPT !.at = "fail", !.sig = call.status]
      <4>1. call'.at = "fail" /\ call'.sig = trap[Leader]
        BY <1>1, <3>1, <3>4 DEF CallRecords
      <4> QED BY <2>1, <4>1 DEF InCall, Probed
    <3>5. CASE /\ call.status = "fork" \/ OwnChild(call.status, ~sysCore /\ call.fn = "waitpid")
               /\ call' = [call EXCEPT !.at = "resume", !.forked = @ \/ call.status = "fork"]
      <4>1. call'.at = "resume" /\ call'.sig = call.sig /\ call'.result = call.result
        BY <1>1, <3>5 DEF CallRecords
      <4>2. Kept("none")'
        BY <1>1, <2>1, <3>1, <3>5, StopFacts DEF Kept, Forfeit, OwnChild
      <4> QED BY <3>1, <4>1, <4>2 DEF InCall
    <3> QED BY <2>7, <3>1, <3>2, <3>3, <3>4, <3>5 DEF CallStopped
  <2>8. CASE CallExpires
    <3>1. /\ call.at = "stopped" /\ trap[Leader] = call.status /\ call.sig = "none" /\ swallowed' = Consumed(call.status)
          /\ call'.at = "fail" /\ call'.sig = "none"
      BY <1>0, <1>1, <2>3, <2>4, <2>8 DEF InCall, CallExpires, CallGoto, CallRecords
    <3>2. trap[Leader] \in Signals => swallowed' = trap[Leader]
      BY <3>1 DEF Consumed
    <3> QED BY <2>1, <3>1, <3>2 DEF InCall, Probed, Forfeit
  <2>9. CASE CallHalt
    <3>1. call.at = "halt" /\ call'.at = "haltWait" /\ call'.sig = call.sig /\ call'.result = call.result
      BY <1>1, <2>3, <2>4, <2>9 DEF CallHalt, CallGoto, CallRecords, Alive
    <3> QED BY <1>0, <1>1, <2>3, <2>4, <3>1 DEF InCall
  <2>10. CASE CallHaltWait
    <3>1. /\ call.at = "haltWait" /\ call'.at = "fail" /\ call'.sig = call.sig
          /\ \/ swallowed' = Consumed(trap[Leader])
             \/ SysReap(Leader)
             \/ wedged'
      BY <1>1, <2>10 DEF CallHaltWait, CallGoto, CallRecords
    <3>2. ~SysReap(Leader)
      BY <1>0, <2>3, <2>4, LeaderTid DEF SysReap, ThreadsOK, Alive
    <3>3. call.sig = "none"
      BY <1>0, <1>1, <2>3, <2>4, <3>1 DEF InCall
    <3>4. trap[Leader] \in Signals => swallowed' = trap[Leader] \/ wedged'
      BY <3>1, <3>2 DEF Consumed
    <3> QED BY <2>1, <3>1, <3>3, <3>4 DEF InCall, Probed, Forfeit
  <2>11. CASE (CallFail \/ CallFinish) /\ UNCHANGED <<swallowed, wedged>>
    <3>1. /\ call.at \in {"fail", "finish"} /\ call'.at = "done" /\ call'.sig = call.sig
          /\ call.at = "fail" => call'.result = "failed"
          /\ call.at = "finish" => call'.result = IF Held THEN image.ret ELSE "failed"
      <4>1. CASE CallFail
        BY <1>1, <4>1 DEF CallFail, CallRecords
      <4>2. CASE CallFinish
        BY <1>1, <4>2 DEF CallFinish, CallRecords
      <4> QED BY <2>11, <4>1, <4>2, Zenon
    <3>2. CASE call.at = "fail"
      <4>1. Probed(call.sig)
        BY <1>0, <1>1, <2>3, <2>4, <3>2 DEF InCall
      <4>2. call'.at = "done" /\ call'.result = "failed" /\ call'.sig = call.sig
        BY <3>1, <3>2
      <4> QED BY <1>1, <2>1, <2>11, <4>1, <4>2 DEF InCall, Probed, Forfeit
    <3>3. CASE call.at = "finish"
      <4>1. trap[Leader] = "fault" /\ Held /\ call.sig = "none"
        BY <1>0, <1>1, <2>3, <2>4, <3>3 DEF InCall, Held, Trapped
      <4>2. call'.result # "failed"
        BY <1>0, <3>1, <3>3, <4>1 DEF RemoteOK
      <4> QED BY <2>1, <3>1, <4>1, <4>2 DEF InCall
    <3> QED BY <3>1, <3>2, <3>3
  <2> QED BY <1>3, <2>5, <2>6, <2>7, <2>8, <2>9, <2>10, <2>11, CallCases
<1> QED BY <1>2, <1>3

\* The signal of the stop in which a call has failed, or a crash nobody has looked at.
LEMMA ProbeKeeps ==
  ASSUME ThreadsOK, Probed(call.sig)
  PROVE  Kept(Intercepted)
BY StopFacts, LeaderTid DEF Probed, Kept, Intercepted, Probe, Held, Trapped, Forfeit, ThreadsOK

\* Between two calls the stop stays as it is, and its signal goes to who needs it next.
LEMMA PassedInjection ==
  ASSUME ForkTypeOK, ImageInv, Passed, plan = "fork",
         MmapDone \/ WriteShell \/ ForkDone \/ Poke \/ MunmapDone \/ PutBackRegs \/ Restore
  PROVE  Passed' /\ FatesKept
<1>0. /\ ThreadsOK /\ RemoteOK /\ Restoring /\ OneTrapEach /\ Others /\ InCall /\ Between /\ Cleared
      /\ ForkOwed \subseteq Tids
  BY DEF ForkTypeOK, ArthurOK, ImageInv, Passed, ForkOwed
<1>1. /\ UNCHANGED <<target, collected, status, chldAction, swallowed, wedged, plan>>
      /\ pc \notin {"rejudge", "reundo"}
      /\ pc' \in {"shell", "restore", "call", "poke", "terminate", "skip", "putBack", "free", "release"}
      /\ pc' = "call" => call'.fn # "waitpid" /\ CallBegin(call'.fn)
      /\ pc' \in Killing => after' = "restore"
      /\ pc' \in {"free", "release"} => todo' = collected
      /\ pc' = "release" \/ relay' = relay
      /\ pc' \in {"putBack", "free", "release", "restore", "terminate", "skip"} \/ detachSig' = detachSig
  BY DEF MmapDone, WriteShell, ForkDone, Poke, MunmapDone, PutBackRegs, Restore, KeepsForCall, KeepsTarget, Keeps,
     KeepsArthur, Goto, CallBegin, NoCall, Fail, Killing, Done, local
<1>2. OneTrapEach' /\ FatesKept
  BY <1>0, <1>1, SignalsStay DEF target
<1>3. Others'
  <2>1. ForkOwed = collected
    BY DEF MmapDone, WriteShell, ForkDone, Poke, MunmapDone, PutBackRegs, Restore, Done, ForkOwed, Calling, Undone
  <2>2. ForkOwed' \subseteq collected
    BY <1>1 DEF ForkOwed, Calling, Undone
  <2>3. \A t \in Tids \ {Leader} : relay'[t] = relay[t]
    BY <1>0, <1>1 DEF Restore, MmapDone, WriteShell, ForkDone, Poke, MunmapDone, PutBackRegs, ForkTypeOK, ArthurOK,
       KeepsForCall
  <2> QED BY <1>0, <1>1, <2>1, <2>2, <2>3 DEF Others, Alive, Trapped, target
<1>4. ASSUME Alive(Leader)
      PROVE  /\ pc' \in {"shell", "poke", "call"} => trap[Leader] = "fault"
             /\ Undone' => Probed(call'.sig)
             /\ pc' = "putBack" => Kept(detachSig')
             /\ pc' = "free" => Held /\ Kept(detachSig')
             /\ pc' = "release" => (Held \/ wedged) /\ Kept(relay'[Leader])
  <2>1. trap[Leader] \notin Signals => Kept("none")
    BY DEF Kept
  <2>2. CASE MmapDone \/ ForkDone
    <3>1. /\ pc = "call" /\ call.at = "done" /\ call' = call
          /\ Undone' \/ (pc' \in {"shell", "poke"} /\ call.result = "good")
          /\ pc' \in {"shell", "poke", "restore", "terminate"}
      BY <2>2 DEF MmapDone, ForkDone, Done, Goto, Undone, Killing
    <3>2. CASE call.result = "failed"
      BY <1>0, <1>4, <3>1, <3>2 DEF InCall, Undone, Killing
    <3>3. CASE call.result # "failed"
      <4>1. trap[Leader] = "fault" /\ call.sig = "none"
        BY <1>0, <1>4, <3>1, <3>3 DEF InCall
      <4> QED BY <3>1, <4>1, StopFacts DEF Probed
    <3> QED BY <3>2, <3>3
  <2>3. CASE WriteShell \/ Poke
    <3>1. trap[Leader] = "fault"
      BY <1>0, <1>4, <2>3 DEF WriteShell, Poke, Between
    <3>2. pc' = "call" \/ call'.sig = "none"
      BY <2>3 DEF WriteShell, Poke, Goto, NoCall
    <3>3. pc' \in {"call", "restore", "skip"}
      BY <2>3 DEF WriteShell, Poke, Goto
    <3> QED BY <3>1, <3>2, <3>3, StopFacts DEF Probed, Undone, Killing
  <2>4. CASE MunmapDone
    <3>1. pc = "call" /\ call.at = "done" /\ pc' = "putBack" /\ detachSig' = IF call.result = "failed" THEN Intercepted ELSE "none"
      BY <2>4 DEF MunmapDone, Done, Goto
    <3>2. call.result = "failed" => Kept(Intercepted)
      BY <1>0, <1>4, <3>1, ProbeKeeps DEF InCall
    <3>3. call.result # "failed" => Kept("none")
      BY <1>0, <1>4, <2>1, <3>1, StopFacts DEF InCall
    <3> QED BY <3>1, <3>2, <3>3 DEF Undone, Killing
  <2>5. CASE PutBackRegs
    <3>1. /\ pc = "putBack" /\ call' = call /\ detachSig' = detachSig
          /\ (pc' = "free" /\ Held) \/ (pc' \in {"restore", "terminate"} /\ ~Held)
      BY <2>5 DEF PutBackRegs, Goto
    <3>2. Kept(detachSig) /\ call.sig = "none"
      BY <1>0, <1>4, <3>1 DEF Between, Cleared
    <3>3. ~Held => Probed("none")
      BY StopFacts DEF Probed, Held, Trapped
    <3> QED BY <3>1, <3>2, <3>3 DEF Undone, Killing
  <2>6. CASE Restore
    <3>1. /\ pc = "restore" /\ pc' = "release" /\ relay[Leader] = "none"
          /\ relay' = IF Intercepted = "none" THEN relay ELSE [relay EXCEPT ![Leader] = Intercepted]
      BY <1>0, <2>6 DEF Restore, Fail, Goto, Cleared
    <3>2. relay'[Leader] = Intercepted
      BY <3>1, LeaderTid DEF ForkTypeOK, ArthurOK
    <3>3. Kept(Intercepted)
      BY <1>0, <1>4, <3>1, ProbeKeeps DEF Between, Undone
    <3>4. Held \/ wedged
      BY <1>0, <1>4, <3>1 DEF Restoring, Ours, Borrowed
    <3> QED BY <3>1, <3>2, <3>3, <3>4 DEF Undone, Killing
  <2> QED BY <2>2, <2>3, <2>4, <2>5, <2>6
<1>5. InCall' /\ Between'
  <2>1. SUFFICES ASSUME Alive(Leader) PROVE InCall' /\ Between'
    BY <1>1 DEF InCall, Between, Alive, target
  <2>2. InCall'
    <3>1. pc' = "call" => call'.at = "save" /\ call'.sig = "none" /\ call'.result = "none"
      BY <1>1 DEF CallBegin, NoCall
    <3> QED BY <1>1, <1>4, <2>1, <3>1, StopFacts DEF InCall, Kept, target
  <2> QED BY <1>1, <1>4, <2>1, <2>2 DEF Between, Kept, Probed, Forfeit, Undone, Killing, Held, Trapped, target
<1>6. Cleared'
  <2>1. pc' # "release" => relay'[Leader] = "none"
    BY <1>0, <1>1 DEF Cleared, MmapDone, WriteShell, ForkDone, Poke, MunmapDone, PutBackRegs, Restore, Done
  <2>2. pc' \in {"call", "shell", "poke"} => detachSig' = "none"
    BY <1>0, <1>1 DEF Cleared, MmapDone, WriteShell, ForkDone, Poke, MunmapDone, PutBackRegs, Restore, Done, Fail, Goto
  <2>3. pc' = "putBack" => call'.sig = "none"
    BY DEF MmapDone, WriteShell, ForkDone, Poke, MunmapDone, PutBackRegs, Restore, NoCall, Fail, Goto
  <2>4. status' = "none"
    BY <1>0, <1>1 DEF Cleared
  <2> QED BY <1>1, <2>1, <2>2, <2>3, <2>4 DEF Cleared, Killing
<1> QED BY <1>1, <1>2, <1>3, <1>5, <1>6 DEF Passed

\* A thread is let go with the signal of its stop.
LEMMA PassedDetach ==
  ASSUME ForkTypeOK, ImageInv, Passed, plan = "fork", FreeOne \/ (ReleaseOne /\ UNCHANGED <<remote, local>>)
  PROVE  Passed' /\ FatesKept
<1>0. /\ ThreadsOK /\ Restoring /\ OneTrapEach /\ Others /\ InCall /\ Between /\ Cleared
      /\ todo \subseteq Tids
  BY DEF ForkTypeOK, ArthurOK, ImageInv, Passed
<1>1. /\ pc \in {"free", "release"} /\ pc' = pc
      /\ UNCHANGED <<status, relay, detachSig, call, chldAction, swallowed, wedged, plan, after>>
  BY DEF FreeOne, ReleaseOne, Keeps, KeepsCall, remote, local
<1>2. PICK t \in todo :
        LET sig == IF pc = "free" /\ t = Leader /\ detachSig # "none" THEN detachSig ELSE relay[t] IN
        /\ todo' = todo \ {t}
        /\ DetachOk(t, sig) \/ UNCHANGED target
  BY <1>0 DEF FreeOne, ReleaseOne, DetachGone, DetachBroken
<1>3. PICK sig \in ForkStops :
        /\ sig = IF pc = "free" /\ t = Leader /\ detachSig # "none" THEN detachSig ELSE relay[t]
        /\ DetachOk(t, sig) \/ UNCHANGED target
  BY <1>0, <1>2 DEF ForkTypeOK, ArthurOK, LocalOK
<1>4. ForkOwed = todo /\ ForkOwed' = todo'
  BY <1>1 DEF ForkOwed, Calling, Undone, Killing
<1>5. CASE UNCHANGED target
  <2>1. OneTrapEach' /\ FatesKept
    BY <1>0, <1>5, SignalsStay DEF target
  <2>2. Others' /\ InCall' /\ Cleared'
    BY <1>0, <1>1, <1>2, <1>4, <1>5 DEF Others, InCall, Cleared, Alive, Trapped, target, Killing
  <2>3. Between'
    BY <1>0, <1>1, <1>2, <1>5 DEF Between, Kept, Forfeit, Undone, Killing, Alive, Held, Trapped, target
  <2> QED BY <2>1, <2>2, <2>3 DEF Passed
<1>6. CASE DetachOk(t, sig)
  <2>1. t \in Tids /\ Trapped(t) /\ Alive(t)
    BY <1>0, <1>6 DEF DetachOk, ThreadsOK, Alive
  <2>2. CASE t # Leader
    <3>1. sig = Own(trap[t])
      BY <1>0, <1>3, <1>4, <2>1, <2>2 DEF Others
    <3>2. /\ OneTrapEach'
          /\ \A s \in Signals : fate'[s] # fate[s] =>
               fate'[s] # "twice" /\ (fate'[s] = "discarded" => s = trap[t] /\ sig = "none")
          /\ trap' = [trap EXCEPT ![t] = "none"] /\ task' = task
      <4>1. sig \in {"none", trap[t]}
        BY <3>1 DEF Own
      <4> QED BY <1>0, <1>6, <2>1, <4>1, DetachPasses
    <3>3. FatesKept
      BY <3>1, <3>2, StopFacts DEF Own, FatesKept
    <3>4. Others' /\ InCall' /\ Cleared'
      BY <1>0, <1>1, <1>2, <1>4, <3>2 DEF Others, InCall, Cleared, Alive, Trapped, ThreadsOK, Killing
    <3>5. Between'
      BY <1>0, <1>1, <1>2, <2>2, <3>2, LeaderTid
         DEF Between, Kept, Forfeit, Undone, Killing, Alive, Held, Trapped, ThreadsOK
    <3> QED BY <3>2, <3>3, <3>4, <3>5 DEF Passed
  <2>3. CASE t = Leader
    <3>1. Kept(sig)
      <4>1. pc = "free" => relay[Leader] = "none"
        BY <1>0 DEF Cleared
      <4>2. sig = IF pc = "free" THEN detachSig ELSE relay[Leader]
        BY <1>3, <2>3, <4>1
      <4> QED BY <1>0, <1>1, <2>1, <2>3, <4>2 DEF Between
    <3>2. sig \in {"none", trap[t]}
      BY <2>3, <3>1 DEF Kept
    <3>3. /\ OneTrapEach'
          /\ \A s \in Signals : fate'[s] # fate[s] =>
               fate'[s] # "twice" /\ (fate'[s] = "discarded" => s = trap[t] /\ sig = "none")
          /\ trap' = [trap EXCEPT ![t] = "none"] /\ task' = task
      BY <1>0, <1>6, <2>1, <3>2, DetachPasses
    <3>4. FatesKept
      BY <2>3, <3>1, <3>3, StopFacts DEF Kept, FatesKept, Losing
    <3>5. Others' /\ InCall' /\ Cleared'
      BY <1>0, <1>1, <1>2, <1>4, <3>3 DEF Others, InCall, Cleared, Alive, Trapped, ThreadsOK, Killing
    <3>6. Between'
      BY <1>1, <1>2, <2>3 DEF Between, Undone, Killing
    <3> QED BY <3>3, <3>4, <3>5, <3>6 DEF Passed
  <2> QED BY <2>2, <2>3
<1> QED BY <1>3, <1>5, <1>6

\* Once every thread has been let go the signals are the target's own affair.
LEMMA PassedRelease ==
  ASSUME ForkTypeOK, ImageInv, Passed, plan = "fork",
         \/ (ReleaseDone \/ Commit) /\ UNCHANGED <<remote, local>>
         \/ FreeDone \/ Memory \/ SkipInt3 \/ Terminate \/ Settle \/ Leave
  PROVE  Passed' /\ FatesKept
<1>0. /\ ThreadsOK /\ RemoteOK /\ OneTrapEach /\ Others /\ InCall /\ Between /\ Cleared
      /\ collected \subseteq Tids
  BY DEF ForkTypeOK, ArthurOK, ImageInv, Passed
<1>1. CASE Leave
  <2>1. /\ pc' = "exited" /\ UNCHANGED <<status, relay, call, local>> /\ trap' = [t \in Tids |-> "none"]
        /\ fate' = [s \in Signals |-> IF \E t \in Tids : trap[t] = s THEN "delivered" ELSE fate[s]]
        /\ pc = "returned"
    BY <1>1 DEF Leave, ProcessExit, SysTracerExit, Goto, KeepsCall
  <2>2. OneTrapEach' /\ FatesKept
    BY <1>0, <2>1, StopFacts DEF OneTrapEach, FatesKept, ThreadsOK
  <2>3. Others' /\ InCall' /\ Between' /\ Cleared'
    BY <1>0, <2>1 DEF Others, ForkOwed, Calling, Undone, InCall, Between, Cleared, Killing, local
  <2> QED BY <2>2, <2>3 DEF Passed
<1>2. CASE ~Leave
  <2>1. /\ UNCHANGED <<task, traced, trap, collected, status, chldAction, swallowed, wedged, call, plan>>
        /\ pc \in {"release", "commit", "free", "memory", "skip", "terminate", "settle"}
        /\ pc' \in {"commit", "returned", "terminate", "skip", "memory", "restore", "reattach"}
        /\ relay' = relay \/ relay'[Leader] = "none"
        /\ pc \in Killing => relay' = relay
        /\ UNCHANGED fate \/ (Terminate /\ Report(child))
    BY <1>0, <1>2, LeaderTid DEF ForkTypeOK, LocalOK, ArthurOK, Placed, Killing, ReleaseDone, Commit, FreeDone, Memory, SkipInt3, Terminate, Settle,
       Goto, Keeps, KeepsArthur, KeepsTarget, KeepsCall, KeepsForChild, remote, local, target
  <2>2. Undone' => Undone
    BY <1>2 DEF Undone, Killing, ReleaseDone, Commit, FreeDone, Memory, SkipInt3, Terminate, Settle, Goto, local
  <2>3. OneTrapEach' /\ FatesKept
    <3>1. CASE UNCHANGED fate
      BY <1>0, <2>1, <3>1, SignalsStay
    <3>2. CASE Report(child)
      <4>1. \/ fate' = fate
            \/ fate' = [fate EXCEPT !["chld"] = "expired"] /\ fate["chld"] = "unsent"
            \/ fate' = [fate EXCEPT !["chld"] = "pending"] /\ fate["chld"] = "unsent"
        BY <3>2 DEF Report
      <4> QED BY <1>0, <2>1, <4>1, StopFacts DEF OneTrapEach, FatesKept, ThreadsOK
    <3> QED BY <2>1, <3>1, <3>2
  <2>4. Others'
    <3>1. Undone' \/ ForkOwed' = {}
      BY <2>1 DEF ForkOwed, Calling
    <3>2. Undone' => ForkOwed' = collected /\ ForkOwed = collected /\ relay' = relay
      BY <2>1, <2>2 DEF ForkOwed, Undone, Killing
    <3> QED BY <1>0, <2>1, <3>1, <3>2 DEF Others, Alive, Trapped
  <2>5. InCall' /\ Between'
    BY <1>0, <2>1, <2>2 DEF InCall, Between, Probed, Forfeit, Undone, Killing, Alive
  <2>6. Cleared'
    <3>1. relay'[Leader] = "none"
      BY <1>0, <1>2, <2>1, LeaderTid DEF Cleared, ReleaseDone, Commit, FreeDone, Memory, SkipInt3, Terminate, Settle,
         KeepsForChild, Keeps
    <3>2. pc' \in {"memory", "reattach"} \/ (pc' \in Killing /\ after' # "restore") => detachSig' = "none"
      BY <1>0, <1>2 DEF Cleared, Killing, ReleaseDone, Commit, FreeDone, Memory, SkipInt3, Terminate, Settle,
         KeepsForChild, Keeps, Goto, local
    <3> QED BY <1>0, <2>1, <3>1, <3>2 DEF Cleared
  <2> QED BY <2>1, <2>3, <2>4, <2>5, <2>6 DEF Passed
<1> QED BY <1>1, <1>2

\* The second attach passes on what its stop was for.
LEMMA PassedReap ==
  ASSUME ForkTypeOK, ImageInv, Passed, plan = "fork",
         Reattach \/ Rewait \/ Recont \/ Reundo \/ Rejudge \/ WaitpidDone \/ Reset \/ Redetach
  PROVE  Passed' /\ FatesKept
<1>0. /\ ThreadsOK /\ RemoteOK /\ Restoring /\ OneTrapEach /\ Others /\ InCall /\ Between /\ Cleared
  BY DEF ForkTypeOK, ImageInv, Passed
<1>1. /\ UNCHANGED <<relay, sysCore, chldAction, swallowed, wedged, plan>>
      /\ pc \in {"reattach", "rewait", "recont", "reundo", "rejudge", "call", "reset", "redetach"}
      /\ pc' \in {"rewait", "recont", "reundo", "rejudge", "call", "reset", "redetach", "settle"}
      /\ pc' = "call" => CallBegin("waitpid")
  BY DEF Reattach, Rewait, Recont, Reundo, Rejudge, WaitpidDone, Reset, Redetach, Done, Goto, KeepsForReap, KeepsForCall,
     KeepsCall, Keeps
<1>2. Others'
  <2>1. ForkOwed' = {}
    <3>1. pc' = "call" => call'.fn = "waitpid"
      BY <1>1 DEF CallBegin, NoCall
    <3> QED BY <1>1, <3>1 DEF ForkOwed, Calling, Undone, Killing
  <2> QED BY <2>1 DEF Others
<1>3. /\ pc' \in {"rewait", "rejudge", "call"} => detachSig' = "none"
      /\ pc' \notin {"rejudge", "reundo"} => status' = "none"
  BY <1>0 DEF Cleared, Reattach, Rewait, Recont, Reundo, Rejudge, WaitpidDone, Reset, Redetach, Done, Goto, KeepsForCall
<1>4. Cleared'
  BY <1>0, <1>1, <1>3 DEF Cleared, Killing
<1>5. CASE Reattach \/ Recont
  <2>1. /\ UNCHANGED <<task, trap>>
        /\ pc' \in {"rewait", "settle"} \/ (pc' = "reundo" /\ status' = "none")
        /\ \A s \in Signals : fate'[s] = fate[s] \/ (fate[s] = "pending" /\ fate'[s] = "expired")
    BY <1>0, <1>5 DEF Reattach, Recont, SysAttach, SysCont, ThreadsOK, Goto, target, Cleared
  <2>2. OneTrapEach' /\ FatesKept
    BY <1>0, <2>1, StopFacts DEF OneTrapEach, FatesKept, ThreadsOK
  <2>3. InCall' /\ Between'
    BY <2>1 DEF InCall, Between, Undone, Killing
  <2> QED BY <1>2, <1>4, <2>2, <2>3 DEF Passed
<1>6. CASE Rewait
  <2>1. /\ UNCHANGED <<trap, fate>> /\ (UNCHANGED task \/ ~Alive(Leader)')
    BY <1>0, <1>6, LeaderTid DEF Rewait, SysReap, ThreadsOK, Alive, target
  <2>2. \/ pc' \in {"rewait", "recont", "settle"}
        \/ Held /\ pc' \in {"rejudge", "reundo"} /\ status' = Own(trap[Leader])
    <3>1. waitErr = "none" \/ waitErr # "none"
      OBVIOUS
    <3> QED BY <1>6, <3>1 DEF Rewait, Goto, Own
  <2>3. OneTrapEach' /\ FatesKept
    BY <1>0, <2>1, SignalsStay
  <2>4. InCall' /\ Between'
    BY <2>1, <2>2 DEF InCall, Between, Undone, Killing, Own, Held, Trapped
  <2> QED BY <1>2, <1>4, <2>3, <2>4 DEF Passed
<1>7. CASE Reundo \/ Redetach
  <2>1. PICK sig \in ForkStops :
          /\ sig = IF pc = "reundo" THEN status ELSE detachSig
          /\ DetachOk(Leader, sig) \/ UNCHANGED target
    BY <1>7 DEF ForkTypeOK, ArthurOK, LocalOK, Reundo, Redetach, DetachGone, DetachBroken
  <2>2. pc' = "settle" /\ pc \in {"reundo", "redetach"}
    BY <1>7 DEF Reundo, Redetach, Goto
  <2>3. OneTrapEach' /\ FatesKept
    <3>1. CASE UNCHANGED target
      BY <1>0, <3>1, SignalsStay DEF target
    <3>2. CASE DetachOk(Leader, sig)
      <4>1. Alive(Leader)
        BY <1>0, <3>2, LeaderTid DEF DetachOk, ThreadsOK, Alive
      <4>2. sig \in {"none", trap[Leader]} /\ (pc = "reundo" \/ Kept(sig))
        BY <1>0, <2>1, <2>2, <4>1 DEF Between, Kept
      <4>3. /\ OneTrapEach'
            /\ \A s \in Signals : fate'[s] # fate[s] =>
                 fate'[s] # "twice" /\ (fate'[s] = "discarded" => s = trap[Leader] /\ sig = "none")
        BY <1>0, <3>2, <4>2, LeaderTid, DetachPasses
      <4> QED BY <4>2, <4>3, StopFacts DEF Kept, FatesKept, Losing
    <3> QED BY <2>1, <3>1, <3>2
  <2>4. InCall' /\ Between'
    BY <2>2 DEF InCall, Between, Undone, Killing
  <2> QED BY <1>2, <1>4, <2>3, <2>4 DEF Passed
<1>8. CASE Rejudge \/ WaitpidDone \/ Reset
  <2>1. UNCHANGED target
    BY <1>8 DEF Rejudge, WaitpidDone, Reset, KeepsTarget, KeepsForCall
  <2>2. OneTrapEach' /\ FatesKept
    BY <1>0, <2>1, SignalsStay DEF target
  <2>3. ASSUME Alive(Leader)
        PROVE  /\ pc' = "call" => Kept("none")
               /\ pc' \in {"reset", "redetach"} => Kept(detachSig')
               /\ pc' = "redetach" => Held \/ wedged
               /\ pc' \in {"call", "reset", "redetach"}
    <3>1. CASE Rejudge
      <4>1. Held /\ status = Own(trap[Leader]) /\ detachSig = "none"
        BY <1>0, <2>3, <3>1 DEF Rejudge, Between, Cleared
      <4>2. CASE status # "none" /\ detachSig' = status /\ pc' = "redetach"
        BY <4>1, <4>2 DEF Own, Kept
      <4>3. CASE (status = "none" \/ OwnChild(status, ~sysCore)) /\ detachSig' = "none" /\ pc' \in {"reset", "call"}
        <5>1. trap[Leader] \in Signals => Forfeit(trap[Leader])
          BY <4>1, <4>3, StopFacts DEF Own, OwnChild, Forfeit
        <5> QED BY <4>3, <5>1 DEF Kept
      <4> QED BY <3>1, <4>1, <4>2, <4>3 DEF Rejudge, Goto
    <3>2. CASE WaitpidDone
      <4>1. pc = "call" /\ call.at = "done" /\ pc' = "reset" /\ detachSig' = IF call.result = "failed" THEN Intercepted ELSE "none"
        BY <3>2 DEF WaitpidDone, Done, Goto
      <4>2. call.result = "failed" => Kept(Intercepted)
        BY <1>0, <2>3, <4>1, ProbeKeeps DEF InCall
      <4>3. call.result # "failed" => Kept("none")
        BY <1>0, <2>3, <4>1, StopFacts DEF InCall, Kept
      <4> QED BY <4>1, <4>2, <4>3
    <3>3. CASE Reset
      <4>1. pc = "reset" /\ pc' = "redetach" /\ detachSig' = detachSig
        BY <3>3 DEF Reset, Goto
      <4> QED BY <1>0, <2>3, <4>1 DEF Between, Restoring, Ours, Borrowed
    <3> QED BY <1>8, <3>1, <3>2, <3>3
  <2>4. SUFFICES ASSUME Alive(Leader) PROVE InCall' /\ Between'
    BY <1>2, <1>4, <2>1, <2>2 DEF Passed, InCall, Between, Alive, target
  <2>5. InCall'
    <3>1. pc' = "call" => call'.at = "save" /\ call'.sig = "none"
      BY <1>1 DEF CallBegin, NoCall
    <3> QED BY <1>1, <2>1, <2>3, <2>4, <3>1 DEF InCall, Kept, Forfeit, target
  <2> QED BY <1>1, <2>1, <2>3, <2>4, <2>5 DEF Between, Kept, Forfeit, Undone, Killing, Held, Trapped, target
<1> QED BY <1>5, <1>6, <1>7, <1>8

\* A step of forkcore keeps the signals, or is one of those that may lose one.
LEMMA RelayNext ==
  ASSUME ForkTypeOK, ImageInv, Collects, RelayInv, [ForkNext]_forkVars
  PROVE  RelayInv' /\ FatesKept
<1>0. LeaderFirst /\ Passed /\ LeaderFirst'
  BY LeaderFirstNext DEF RelayInv
<1>1. CASE plan' # "fork"
  <2>1. FateMoves(pc \in {"undo", "giveUp"})
    BY <1>1, CollectsSteps
  <2>2. FatesKept
    BY <2>1 DEF FateMoves, FatesKept, Losing
  <2> QED BY <1>0, <1>1, <2>2 DEF RelayInv, Passed
<1>2. CASE plan' = "fork"
  <2>1. CASE UNCHANGED forkVars
    <3>1. Passed' <=> Passed
      BY <2>1 DEF Passed, OneTrapEach, Others, InCall, Between, Cleared, ForkOwed, Calling, Undone, Kept, Probed, Forfeit,
         Held, Trapped, Alive, Killing, forkVars, vars, target, arthur, remote, local
    <3> QED BY <1>0, <2>1, <3>1 DEF RelayInv, FatesKept, forkVars, vars, target
  <2>2. CASE ForkEnvironment
    <3>1. plan = "fork"
      BY <1>2, <2>2 DEF ForkEnvironment, local
    <3> QED BY <1>0, <2>2, <3>1, PassedEnvironment DEF RelayInv
  <2>3. CASE Plan
    BY <1>0, <1>2, <2>3, PassedBegins DEF RelayInv
  <2>4. CASE ForkArthur /\ ~Plan
    <3>1. plan = "fork"
      BY <1>2, <2>4 DEF ForkArthur, Begin, Refuse, Shared, Calls, MmapDone, WriteShell, ForkDone, Poke, MunmapDone,
         PutBackRegs, Restore, FreeOne, FreeDone, Memory, SkipInt3, Terminate, Reattach, Rewait, Recont, Reundo,
         Rejudge, WaitpidDone, Reset, Redetach, Settle, Leave, KeepsForCall, KeepsForChild, KeepsForReap, local
    <3>2. pc \notin Early
      BY <3>1 DEF ImageInv, Untouched
    <3>3. Shared => (ReleaseOne \/ ReleaseDone \/ Commit) /\ UNCHANGED <<remote, local>>
      BY <3>2 DEF Shared, Early, ScanStep, ScanEnd, Pick, AttachNext, Attach, Wait, Cont, Undo, Classify, GiveUp,
         WriteThread, WriteStage, Writing
    <3>4. ~Begin /\ ~Refuse
      BY <3>2 DEF Begin, Refuse, Early
    <3>5. \/ Calls
          \/ MmapDone \/ WriteShell \/ ForkDone \/ Poke \/ MunmapDone \/ PutBackRegs \/ Restore
          \/ FreeOne \/ (ReleaseOne /\ UNCHANGED <<remote, local>>)
          \/ (ReleaseDone \/ Commit) /\ UNCHANGED <<remote, local>>
          \/ FreeDone \/ Memory \/ SkipInt3 \/ Terminate \/ Settle \/ Leave
          \/ Reattach \/ Rewait \/ Recont \/ Reundo \/ Rejudge \/ WaitpidDone \/ Reset \/ Redetach
      BY <2>4, <3>3, <3>4 DEF ForkArthur
    <3>6. Passed' /\ FatesKept
      BY <1>0, <3>1, <3>5, PassedCalls, PassedInjection, PassedDetach, PassedRelease, PassedReap
    <3> QED BY <1>0, <3>6 DEF RelayInv
  <2> QED BY <2>1, <2>2, <2>3, <2>4 DEF ForkNext
<1> QED BY <1>1, <1>2

\* What forkcore may do to a signal that stops the target.  It never comes twice;
\* it is lost only where the attach itself gives up, where a stop went unread after
\* a timeout, where it is the SIGCHLD of the child that nobody would notice, or
\* where it is a crash that pt_call takes for one of its own making (Foreign).
THEOREM SignalsComeThrough == ForkSpec => [][FatesKept]_forkVars
<1> DEFINE Inv == ForkTypeOK /\ ImageInv /\ Collects /\ RelayInv
<1>1. ForkInit => Inv
  BY ForkTypeInit, ImageInit, CopyInit, RelayInit DEF CopyInv
<1>2. Inv /\ [ForkNext]_forkVars => Inv'
  BY ForkTypeNext, ImageNext, CollectsNext, RelayNext
<1>3. Inv /\ [ForkNext]_forkVars => [FatesKept]_forkVars
  BY RelayNext
<1> QED BY <1>1, <1>2, <1>3, PTL DEF ForkSpec

\* Where every crash signal comes from a process, each signal that stops the target
\* while Arthur has it reaches it exactly once, with the exceptions just named.
THEOREM InterceptedArrive == Foreign = {} => (ForkSpec => InterceptedRelayed)
<1> SUFFICES ASSUME Foreign = {} PROVE ForkSpec => InterceptedRelayed
  OBVIOUS
<1> DEFINE Arrives == \A s \in Signals : fate'[s] # fate[s] =>
             /\ fate'[s] # "twice"
             /\ fate'[s] = "discarded" =>
                  \/ pc \in {"undo", "giveUp", "reundo"}
                  \/ s = "chld" /\ chldAction # "handler"
                  \/ s = swallowed \/ wedged
<1>1. [FatesKept]_forkVars => [Arrives]_forkVars
  BY DEF FatesKept, Losing, Forfeit
<1> QED BY <1>1, SignalsComeThrough, PTL DEF InterceptedRelayed
=============================================================================
