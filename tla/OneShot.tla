------------------------------ MODULE OneShot -------------------------------
(***************************************************************************)
(* The direct snapshot of src/src/core.cc (mode 1, and the fallback of the *)
(* other modes): Coredump::generate with pt_attach, pt_detach and the      *)
(* one-shot branch of collect_threads.  Arthur stops every thread of the   *)
(* target, writes metadata and memory, lets the threads go with the        *)
(* signals it intercepted, and only then publishes the file (AtomicOutput  *)
(* has the publication itself).                                            *)
(*                                                                         *)
(* One action is one system call of Arthur with the code around it; the    *)
(* target (Ptrace) moves between any two of them.                          *)
(***************************************************************************)
EXTENDS Ptrace

CONSTANT MaxRounds      \* the 64 rounds of collect_threads

ASSUME RoundAssumption == MaxRounds \in Nat \ {0}

VARIABLES pc,
          control,     \* control_tid
          tid,         \* the thread pt_attach works on
          status,      \* the stop its pt_wait returned
          waitErr,     \* wait_errno of pt_attach
          scan,        \* what the thread list is read for
          cursor, seen,\* position of the readdir, and the names it returned
          todo,        \* threads the current loop has still to handle
          collected,   \* _process._thrd_pid, which is also "stopped"
          unavailable, \* threads collect_threads gave up on
          relay,       \* _monitor_relay_signals
          rounds,      \* iterations of collect_threads
          rc,          \* value generate will return
          published,   \* the output was committed
          timedOut,    \* history: threads whose attach timed out
          overtaken,   \* history: an attach was answered by another stop
          broken       \* history: a PTRACE_DETACH failed for good

arthur == <<pc, control, tid, status, waitErr, scan, cursor, seen, todo, collected,
            unavailable, relay, rounds, rc, published, timedOut, overtaken, broken>>
vars == <<target, arthur>>

Steps == {"start", "scan", "pick", "next", "attach", "wait", "cont", "undo",
          "classify", "giveUp", "procMeta", "threadMeta", "loads", "elf", "tail",
          "release", "commit", "returned", "exited"}
Writing == {"procMeta", "threadMeta", "loads", "elf", "tail"}
LeastOf(S) == CHOOSE t \in S : \A u \in S : t <= u

Init ==
  /\ TargetInit
  /\ pc = "start" /\ control = Leader /\ tid = Leader
  /\ status = "none" /\ waitErr = "none"
  /\ scan = "none" /\ cursor = 0 /\ seen = {} /\ todo = {}
  /\ collected = {} /\ unavailable = {}
  /\ relay = [t \in Tids |-> "none"]
  /\ rounds = 0 /\ rc = 0 /\ published = FALSE
  /\ timedOut = {} /\ overtaken = FALSE /\ broken = FALSE

Goto(l) == pc' = l
\* Mutant of Fail: a failure path that forgets to detach.
FailWithoutRelease == Goto("returned") /\ rc' = -1 /\ todo' = {}

\* Every failure of generate detaches what was collected, then returns -1.
Fail == Goto("release") /\ rc' = -1 /\ todo' = collected

-----------------------------------------------------------------------------
(* list_task_tids                                                          *)

ScanFor(what) ==
  /\ Goto("scan") /\ scan' = what /\ cursor' = 0 /\ seen' = {}

\* readdir returns the next listed thread.  When the thread it returned last
\* is gone the kernel has lost its place: the list may end there.
ScanStep ==
  /\ pc = "scan"
  /\ \E t \in {u \in Listed : u > cursor} :
       /\ cursor = 0 \/ cursor \in Listed => \A u \in Listed : u > cursor => t <= u
       /\ cursor' = t /\ seen' = seen \cup {t}
  /\ UNCHANGED <<target, pc, control, tid, status, waitErr, scan, todo, collected,
                 unavailable, relay, rounds, rc, published, timedOut, overtaken, broken>>

AtEnd == {u \in Listed : u > cursor} = {} \/ (cursor # 0 /\ cursor \notin Listed)

\* What collect_threads and generate do with a complete list.
ScanEnd ==
  /\ pc = "scan" /\ AtEnd
  /\ cursor' = 0 /\ seen' = {}
  /\ \/ /\ scan = "candidates"
        /\ Goto("pick") /\ scan' = "none" /\ todo' = seen \ {Leader} /\ UNCHANGED <<rounds, rc>>
     \/ /\ scan \in {"observe", "confirm"} /\ control \notin seen
        /\ Fail /\ scan' = "none" /\ UNCHANGED rounds
     \/ /\ scan = "observe" /\ control \in seen
        /\ Goto("next") /\ scan' = "none" /\ todo' = seen \ (collected \cup unavailable)
        /\ UNCHANGED <<rounds, rc>>
     \/ /\ scan = "confirm" /\ control \in seen /\ seen \subseteq collected \cup unavailable
        /\ UNCHANGED rounds /\ scan' = "none"
        /\ IF control # Leader /\ task[Leader] # "zombie" THEN Fail
           ELSE Goto("procMeta") /\ todo' = {} /\ UNCHANGED rc
     \/ /\ scan = "confirm" /\ control \in seen /\ ~(seen \subseteq collected \cup unavailable)
        /\ rounds' = rounds + 1
        /\ IF rounds' = MaxRounds THEN Fail /\ scan' = "none"
           ELSE Goto("scan") /\ scan' = "observe" /\ todo' = {} /\ UNCHANGED rc
  /\ UNCHANGED <<target, control, tid, status, waitErr, collected, unavailable, relay,
                 published, timedOut, overtaken, broken>>

-----------------------------------------------------------------------------
(* generate: choice of the control thread; collect_threads: the next one   *)

Start ==
  /\ pc = "start"
  /\ IF task[Leader] = "zombie" THEN ScanFor("candidates") /\ UNCHANGED tid
     ELSE Goto("attach") /\ tid' = Leader /\ UNCHANGED <<scan, cursor, seen>>
  /\ UNCHANGED <<target, control, status, waitErr, todo, collected, unavailable, relay,
                 rounds, rc, published, timedOut, overtaken, broken>>

\* A live worker stands in for a leader that has exited.
Pick ==
  /\ pc = "pick"
  /\ \/ todo = {} /\ Fail /\ UNCHANGED tid
     \/ /\ todo # {} /\ todo' = todo \ {LeastOf(todo)} /\ UNCHANGED rc
        /\ IF task[LeastOf(todo)] = "zombie" THEN UNCHANGED <<pc, tid>>
           ELSE Goto("attach") /\ tid' = LeastOf(todo)
  /\ UNCHANGED <<target, control, status, waitErr, scan, cursor, seen, collected,
                 unavailable, relay, rounds, published, timedOut, overtaken, broken>>

\* Mutant of AttachNext: take the first list as final.
AttachNextNoConfirm ==
  /\ pc = "next"
  /\ \/ /\ todo = {} /\ Goto("procMeta") /\ UNCHANGED <<tid, scan, cursor, seen, todo>>
     \/ /\ todo # {} /\ Goto("attach") /\ tid' = LeastOf(todo)
        /\ todo' = todo \ {LeastOf(todo)} /\ UNCHANGED <<scan, cursor, seen>>
  /\ UNCHANGED <<target, control, status, waitErr, collected, unavailable, relay,
                 rounds, rc, published, timedOut, overtaken, broken>>

AttachNext ==
  /\ pc = "next"
  /\ \/ todo = {} /\ ScanFor("confirm") /\ UNCHANGED <<tid, todo>>
     \/ /\ todo # {} /\ Goto("attach") /\ tid' = LeastOf(todo)
        /\ todo' = todo \ {LeastOf(todo)} /\ UNCHANGED <<scan, cursor, seen>>
  /\ UNCHANGED <<target, control, status, waitErr, collected, unavailable, relay,
                 rounds, rc, published, timedOut, overtaken, broken>>

-----------------------------------------------------------------------------
(* pt_attach                                                               *)

Choosing == collected = {}  \* generate has no control thread yet

\* pt_attach succeeded: its caller keeps the thread and the signal to relay.
Attached(sig) ==
  /\ collected' = collected \cup {tid} /\ relay' = [relay EXCEPT ![tid] = sig]
  /\ IF Choosing
     THEN /\ control' = tid /\ ScanFor("observe") /\ todo' = {}
          /\ unavailable' = IF tid # Leader THEN {Leader} ELSE {}
     ELSE Goto("next") /\ UNCHANGED <<control, scan, cursor, seen, todo, unavailable>>
  /\ UNCHANGED rc

\* pt_attach failed with errno e: skip the thread, note it, or give up.
AttachFailed(e) ==
  /\ IF e \in {"ESRCH", "EAGAIN"} /\ ~(Choosing /\ tid = Leader)
     THEN /\ Goto(IF Choosing THEN "pick" ELSE "next") /\ UNCHANGED <<rc, todo>>
          /\ unavailable' = IF e = "EAGAIN" /\ ~Choosing THEN unavailable \cup {tid}
                            ELSE unavailable
     ELSE Fail /\ UNCHANGED unavailable
  /\ UNCHANGED <<control, scan, cursor, seen, collected, relay>>

Attach ==
  /\ pc = "attach"
  /\ IF CanAttach(tid)
     THEN /\ SysAttach(tid) /\ Goto("wait") /\ waitErr' = "none"
          /\ UNCHANGED <<control, scan, cursor, seen, todo, collected, unavailable, relay, rc>>
     ELSE /\ AttachFailed(IF task[tid] = "gone" THEN "ESRCH" ELSE "EPERM")
          /\ UNCHANGED <<target, waitErr>>
  /\ UNCHANGED <<tid, status, rounds, published, timedOut, overtaken, broken>>

\* pt_wait: poll until the thread stops or has exited, for at most 10 s.  An
\* error of waitpid itself is not taken for a stop: pt_attach waits once more.
Wait ==
  /\ pc = "wait"
  /\ \/ /\ Trapped(tid)
        /\ status' = trap[tid] /\ Goto("classify")
        /\ overtaken' = (overtaken \/ (trap[tid] # "attach" /\ tid \in stopPend))
        /\ UNCHANGED <<target, waitErr, control, scan, cursor, seen, todo, collected,
                       unavailable, relay, rc, timedOut>>
     \/ /\ CanReap(tid) /\ SysReap(tid)
        /\ AttachFailed(IF waitErr = "none" THEN "ESRCH" ELSE waitErr)
        /\ UNCHANGED <<waitErr, status, overtaken, timedOut>>
     \/ /\ ~Trapped(tid) /\ ~CanReap(tid) /\ (task[tid] # "run" \/ tid \notin stopPend)
        /\ Goto("cont") /\ waitErr' = IF waitErr = "none" THEN "ETIMEDOUT" ELSE waitErr
        /\ timedOut' = timedOut \cup {tid}
        /\ UNCHANGED <<target, status, control, scan, cursor, seen, todo, collected,
                       unavailable, relay, rc, overtaken>>
     \/ /\ waitErr = "none" /\ waitErr' = "other" /\ Goto("wait")
        /\ UNCHANGED <<target, status, control, scan, cursor, seen, todo, collected,
                       unavailable, relay, rc, timedOut, overtaken>>
  /\ UNCHANGED <<tid, rounds, published, broken>>

\* The deadline passed: SIGCONT cancels the pending SIGSTOP, then an attempt to
\* detach, which fails on a thread that is not in a ptrace-stop.
Cont ==
  /\ pc = "cont" /\ SysCont /\ Goto("undo")
  /\ UNCHANGED <<control, tid, status, waitErr, scan, cursor, seen, todo, collected,
                 unavailable, relay, rounds, rc, published, timedOut, overtaken, broken>>

Undo ==
  /\ pc = "undo"
  /\ IF Trapped(tid) THEN SysDetach(tid, "none") ELSE UNCHANGED target
  /\ AttachFailed(IF waitErr = "ETIMEDOUT" THEN "EAGAIN" ELSE waitErr)
  /\ UNCHANGED <<tid, status, waitErr, rounds, published, timedOut, overtaken, broken>>

\* Mutant of Classify: every SIGSTOP is taken for the one of PTRACE_ATTACH.
ClassifyNoSiginfo ==
  /\ pc = "classify" /\ waitErr = "none"
  /\ Attached(IF status \in {"attach", "group", "STOP"} THEN "none" ELSE status)
  /\ UNCHANGED <<target, tid, status, waitErr, rounds, published, timedOut, overtaken, broken>>

\* Mutant of Classify: keep whatever stop was reported.
ClassifyNothing ==
  /\ pc = "classify" /\ waitErr = "none" /\ Attached(status)
  /\ UNCHANGED <<target, tid, status, waitErr, rounds, published, timedOut, overtaken, broken>>

\* Whose stop was it?  The attach SIGSTOP has kernel siginfo, a group-stop has
\* none; everything else belongs to the target and is relayed.
Classify ==
  /\ pc = "classify"
  /\ LET ours == status \in {"attach", "group"}
         own  == IF ours THEN "none" ELSE status IN
     \/ /\ Trapped(tid) \/ status \notin {"attach", "group", "STOP"}
        /\ IF waitErr = "none" THEN Attached(own) /\ UNCHANGED <<status, waitErr>>
           ELSE /\ Goto("giveUp") /\ status' = own
                /\ UNCHANGED <<control, scan, cursor, seen, todo, collected, unavailable,
                               relay, rc, waitErr>>
     \/ /\ status \in {"attach", "group", "STOP"}
        /\ Goto("giveUp") /\ status' = "none"
        /\ waitErr' = IF waitErr # "none" THEN waitErr
                       ELSE IF Trapped(tid) THEN "other" ELSE "ESRCH"
        /\ UNCHANGED <<control, scan, cursor, seen, todo, collected, unavailable, relay, rc>>
  /\ UNCHANGED <<target, tid, rounds, published, timedOut, overtaken, broken>>

-----------------------------------------------------------------------------
(* pt_detach: a thread that is gone, or no longer ours, is not a failure   *)

DetachOk(t, sig) == Trapped(t) /\ SysDetach(t, sig) /\ UNCHANGED broken
DetachGone(t) == ~Trapped(t) /\ t \notin traced /\ UNCHANGED <<target, broken>>
DetachBroken(t) == t \in traced /\ broken' = TRUE /\ UNCHANGED target

\* Mutant of GiveUp: leave the thread in its stop.
GiveUpNoDetach ==
  /\ pc = "giveUp" /\ AttachFailed(waitErr)
  /\ UNCHANGED <<target, tid, status, waitErr, rounds, published, timedOut, overtaken, broken>>

GiveUp ==
  /\ pc = "giveUp"
  /\ DetachOk(tid, status) \/ DetachGone(tid) \/ DetachBroken(tid)
  /\ AttachFailed(waitErr)
  /\ UNCHANGED <<tid, status, waitErr, rounds, published, timedOut, overtaken>>

-----------------------------------------------------------------------------
(* generate: the file, the release of the threads, the publication         *)

AfterStage == [procMeta |-> "threadMeta", threadMeta |-> "loads", loads |-> "elf",
               elf |-> "tail", tail |-> "release"]

\* Each stage fails when the target has died under it or the disk is full.
WriteStage ==
  /\ pc \in Writing /\ (pc = "threadMeta" => todo = {})
  /\ \/ /\ pc \in {"procMeta", "loads"} => Alive(control)
        /\ Goto(AfterStage[pc])
        /\ todo' = IF pc \in {"procMeta", "tail"} THEN collected ELSE {}
        /\ UNCHANGED rc
     \/ pc # "threadMeta" /\ Fail
  /\ UNCHANGED <<target, control, tid, status, waitErr, scan, cursor, seen, collected,
                 unavailable, relay, rounds, published, timedOut, overtaken, broken>>

\* WriteThreadMeta needs the registers of a stopped thread; control_tid first.
WriteThread ==
  /\ pc = "threadMeta" /\ todo # {}
  /\ LET t == IF control \in todo THEN control ELSE LeastOf(todo) IN
     \/ Trapped(t) /\ todo' = todo \ {t} /\ UNCHANGED <<pc, rc>>
     \/ Fail
  /\ UNCHANGED <<target, control, tid, status, waitErr, scan, cursor, seen, collected,
                 unavailable, relay, rounds, published, timedOut, overtaken, broken>>

\* Mutant of ReleaseOne: a thread that cannot be detached is not reported.
ReleaseOneIgnoresFailure ==
  /\ pc = "release"
  /\ \E t \in todo : /\ todo' = todo \ {t}
                     /\ DetachOk(t, relay[t]) \/ DetachGone(t) \/ DetachBroken(t)
  /\ UNCHANGED <<pc, control, tid, status, waitErr, scan, cursor, seen, collected,
                 unavailable, relay, rounds, rc, published, timedOut, overtaken>>

\* detach_collected_threads: every thread, with the signal it was about to get.
ReleaseOne ==
  /\ pc = "release"
  /\ \E t \in todo :
       /\ todo' = todo \ {t}
       /\ \/ (DetachOk(t, relay[t]) \/ DetachGone(t)) /\ UNCHANGED rc
          \/ DetachBroken(t) /\ rc' = -1
  /\ UNCHANGED <<pc, control, tid, status, waitErr, scan, cursor, seen, collected,
                 unavailable, relay, rounds, published, timedOut, overtaken>>

ReleaseDone ==
  /\ pc = "release" /\ todo = {}
  /\ Goto(IF rc = 0 THEN "commit" ELSE "returned")
  /\ relay' = [t \in Tids |-> "none"]
  /\ UNCHANGED <<target, control, tid, status, waitErr, scan, cursor, seen, todo, collected,
                 unavailable, rounds, rc, published, timedOut, overtaken, broken>>

\* commit_atomic_lz4; a failed directory sync reports -1 after publication.
Commit ==
  /\ pc = "commit" /\ Goto("returned")
  /\ \/ published' = TRUE /\ rc' \in {0, -1}
     \/ rc' = -1 /\ UNCHANGED published
  /\ UNCHANGED <<target, control, tid, status, waitErr, scan, cursor, seen, todo, collected,
                 unavailable, relay, rounds, timedOut, overtaken, broken>>

ProcessExit ==
  /\ pc = "returned" /\ SysTracerExit /\ Goto("exited")
  /\ UNCHANGED <<control, tid, status, waitErr, scan, cursor, seen, todo, collected,
                 unavailable, relay, rounds, rc, published, timedOut, overtaken, broken>>

Arthur == \/ Start \/ ScanStep \/ ScanEnd \/ Pick \/ AttachNext \/ Attach \/ Wait
          \/ Cont \/ Undo \/ Classify \/ GiveUp \/ WriteStage \/ WriteThread
          \/ ReleaseOne \/ ReleaseDone \/ Commit \/ ProcessExit

Environment == Target /\ UNCHANGED arthur

Next == Arthur \/ Environment

Spec == Init /\ [][Next]_vars

-----------------------------------------------------------------------------
(* Properties                                                              *)

\* The values the variables take.
TypeOK ==
  /\ task \in [Tids -> {"none", "run", "sleep", "zombie", "gone"}]
  /\ traced \subseteq Tids /\ stopPend \subseteq Tids
  /\ trap \in [Tids -> Traps] /\ aim \in [Ordinary -> Tids] /\ fate \in [Signals -> Fates]
  /\ jobStop \in BOOLEAN /\ sleeps \in 0 .. MaxSleeps
  /\ pc \in Steps /\ control \in Tids /\ tid \in Tids
  /\ status \in Traps /\ waitErr \in {"none", "ESRCH", "ETIMEDOUT", "other"}
  /\ scan \in {"none", "candidates", "observe", "confirm"}
  /\ cursor \in 0 .. MaxTid /\ seen \subseteq Tids /\ todo \subseteq Tids
  /\ collected \subseteq Tids /\ unavailable \subseteq Tids
  /\ relay \in [Tids -> Signals \cup {"none"}]
  /\ rounds \in 0 .. MaxRounds /\ rc \in {-1, 0} /\ published \in BOOLEAN
  /\ timedOut \subseteq Tids /\ overtaken \in BOOLEAN /\ broken \in BOOLEAN

\* The fixed point of collect_threads: while Arthur writes, every live thread is
\* stopped and has its metadata in the file, unless a thread could not be
\* stopped and so may go on creating others.
SnapshotIsStill ==
  pc \in Writing /\ unavailable \ {Leader} = {} =>
    \A t \in Tids : Alive(t) => t \in collected /\ Trapped(t)

\* What a step may do to a signal: only the detach of a thread that pt_attach
\* gives up on may drop one, and none is delivered twice.
RelaysSignals ==
  \A s \in Signals : fate'[s] # fate[s] =>
    fate'[s] # "twice" /\ (fate'[s] = "discarded" => pc \in {"undo", "giveUp"})

\* A signal that stopped a thread on its way into pt_attach reaches the target
\* exactly once, whichever way the capture ends.
SignalsRelayed == [][RelaysSignals]_vars

\* Whichever way generate ends, it has let go of every thread it could stop.
NothingLeftTraced ==
  pc = "returned" /\ ~broken =>
    \A t \in traced : Alive(t) => t \in timedOut

\* The file is published only after every captured thread runs free again.
PublishedMeansReleased == published => \A t \in collected : t \notin traced \/ ~Alive(t)

\* An undisturbed capture leaves the target running: it ends group-stopped only
\* if someone stopped it, or another stop overtook the attach SIGSTOP.
StopsAreOurs ==
  pc \in {"returned", "exited"} /\ jobStop =>
    \/ "STOP" \in Signals /\ fate["STOP"] = "delivered"
    \/ overtaken \/ broken

\* pt_detach's comment: PTRACE_DETACH already resumes the thread.  A target that
\* nobody stopped runs on after a capture that succeeded.  The code does not keep
\* this when a signal overtakes the SIGSTOP of the attach (README, section 4).
NotLeftStopped ==
  pc = "exited" /\ rc = 0 /\ jobStop => "STOP" \in Signals /\ fate["STOP"] = "delivered"
=============================================================================
