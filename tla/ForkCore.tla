------------------------------ MODULE ForkCore -------------------------------
(***************************************************************************)
(* Coredump::forkcore of src/src/core.cc, modes 0 and 2.  Arthur stops the *)
(* target and writes its metadata as the direct snapshot does (OneShot).   *)
(* It then makes the leader fork (RemoteCall), lets the target go, and     *)
(* writes the memory out of the stopped child (mode 0) or leaves that to   *)
(* the kernel (mode 2).  Last it attaches the leader again, to make it     *)
(* reap the child.  Where a fork cannot be used, mode 0 writes the memory  *)
(* of the target itself, as OneShot does.                                  *)
(***************************************************************************)
EXTENDS OneShot, RemoteCall

VARIABLES plan,      \* how the memory will be written
          after,     \* where forkcore goes on when the child is terminated
          detachSig, \* detach_signal
          restored,  \* the target and the child could be cleaned up
          snapshot   \* what the memory in the file shows

local == <<plan, after, detachSig, restored, snapshot>>
forkVars == <<vars, remote, local>>

ForkInit ==
  /\ Init /\ RemoteInit
  /\ plan = "undecided" /\ after = "none" /\ detachSig = "none"
  /\ restored = TRUE /\ snapshot = "none"

\* What the steps below leave alone.
KeepsArthur == UNCHANGED <<control, tid, scan, cursor, seen, collected, unavailable,
                           rounds, published, timedOut, overtaken>>
Keeps == KeepsArthur /\ UNCHANGED <<sysCore, chldAction>>
KeepsTarget == UNCHANGED <<target, broken>>
KeepsCall == UNCHANGED <<image, call, haltPend, swallowed, wedged>>

-----------------------------------------------------------------------------
(* Up to the plan, and from the release of the threads to the end          *)

\* Mode 0 takes the direct snapshot of a target whose leader has exited.
Begin ==
  /\ pc = "start"
  /\ IF task[Leader] # "zombie" THEN Start /\ UNCHANGED plan
     ELSE IF sysCore THEN Fail /\ UNCHANGED plan /\ KeepsTarget /\ Keeps
                          /\ UNCHANGED <<status, waitErr, relay>>
     ELSE Start /\ plan' = "direct"
  /\ UNCHANGED <<remote, after, detachSig, restored, snapshot>>

\* No fork is injected once the first attach has intercepted a signal.
Refuse ==
  /\ pc = "procMeta" /\ plan = "undecided" /\ relay[Leader] # "none" /\ Fail
  /\ KeepsTarget /\ Keeps /\ KeepsCall /\ UNCHANGED <<child, status, waitErr, relay, local>>

\* The steps that forkcore shares with generate.
Shared ==
  /\ \/ ScanStep \/ ScanEnd \/ Pick \/ AttachNext \/ Attach \/ Wait \/ Cont \/ Undo
        \/ Classify \/ GiveUp \/ WriteThread \/ ReleaseOne \/ ReleaseDone \/ Commit
     \/ /\ pc = "procMeta" /\ plan = "undecided" => relay[Leader] = "none"
        /\ pc = "loads" => plan = "direct"
        /\ WriteStage
  /\ UNCHANGED <<remote, local>>

\* fork_snapshot_requires_direct_capture: special mappings and a system call that
\* would be restarted; mode 0 then writes the target's own memory, mode 2 goes on.
Plan ==
  /\ pc = "loads" /\ plan = "undecided"
  /\ \/ ~sysCore /\ plan' = "direct" /\ UNCHANGED <<pc, rc, todo, image, call, chldAction>>
     \/ /\ Held /\ plan' = "fork" /\ Goto("call") /\ CallBegin("mmap")
        /\ \E r \in {FALSE, sysCore} : image' = [image EXCEPT !.restart = r]
        /\ chldAction' \in {"default", "ignore", "handler"} /\ UNCHANGED <<rc, todo>>
     \/ Fail /\ UNCHANGED <<plan, image, call, chldAction>>
  /\ status' = "none" /\ KeepsTarget /\ KeepsArthur
  /\ UNCHANGED <<sysCore, child, waitErr, relay, haltPend, swallowed, wedged,
                 after, detachSig, restored, snapshot>>

-----------------------------------------------------------------------------
(* The injected calls                                                      *)

Calls ==
  /\ pc = "call" /\ CallStep(~sysCore /\ call.fn = "waitpid")
  /\ UNCHANGED <<arthur, local>>

Done(f) == pc = "call" /\ call.fn = f /\ call.at = "done"
KeepsForCall == /\ KeepsTarget /\ Keeps
                /\ UNCHANGED <<status, waitErr, todo, relay, rc, haltPend, swallowed, wedged,
                               plan, restored, snapshot>>

\* mmap returns a page for the shell code, or something that cannot be one.
MmapDone ==
  /\ Done("mmap") /\ Goto(IF call.result = "good" THEN "shell" ELSE "restore")
  /\ KeepsForCall /\ UNCHANGED <<image, call, child, after, detachSig>>

\* pt_write of the shell code, through /proc/<pid>/mem.
WriteShell ==
  /\ pc = "shell"
  /\ \/ Alive(Leader) /\ Goto("call") /\ CallBegin("fork")
     \/ Goto("restore") /\ call' = NoCall
  /\ KeepsForCall /\ UNCHANGED <<image, child, after, detachSig>>

\* Mutant of ForkDone: a child born before the call failed is forgotten.
ForkDoneForgets ==
  /\ Done("fork") /\ Goto(IF call.result = "good" THEN "poke" ELSE "restore")
  /\ KeepsForCall /\ UNCHANGED <<image, call, child, after, detachSig>>

\* The call may fail after the child is there; then the child goes first.
ForkDone ==
  /\ Done("fork")
  /\ LET orphan == call.result = "failed" /\ call.forked /\ ~sysCore IN
     /\ Goto(CASE call.result = "good" -> "poke" [] orphan -> "terminate" [] OTHER -> "restore")
     /\ after' = IF orphan THEN "restore" ELSE "none"
  /\ KeepsForCall /\ UNCHANGED <<image, call, child, detachSig>>

\* Mutant of Poke: a child that cannot be repaired is good enough.
PokeBestEffort ==
  /\ pc = "poke" /\ Goto("call") /\ CallBegin("munmap") /\ UNCHANGED after
  /\ child' = IF child.traced /\ child.state = "stopped"
              THEN [child EXCEPT !.dirty = @ \ {"slot"}] ELSE child
  /\ KeepsForCall /\ UNCHANGED <<image, detachSig>>

\* The child is a copy of the target with the return address 0 in it.  Arthur
\* puts the word back, which needs a traced child that has come to its stop.
Poke ==
  /\ pc = "poke"
  /\ \/ /\ child.traced /\ child.state = "stopped"
        /\ child' = [child EXCEPT !.dirty = @ \ {"slot"}]
        /\ Goto("call") /\ CallBegin("munmap") /\ UNCHANGED after
     \/ sysCore /\ Goto("call") /\ CallBegin("munmap") /\ UNCHANGED <<child, after>>
     \/ /\ ~sysCore /\ child.state # "stopped"
        /\ Goto("skip") /\ after' = "restore" /\ call' = NoCall /\ UNCHANGED child
  /\ KeepsForCall /\ UNCHANGED <<image, detachSig>>

\* munmap is best effort; a signal that ended it goes with the leader.
MunmapDone ==
  /\ Done("munmap") /\ Goto("putBack") /\ call' = NoCall
  /\ detachSig' = IF call.result = "failed" THEN Intercepted ELSE "none"
  /\ KeepsForCall /\ UNCHANGED <<image, child, after>>

-----------------------------------------------------------------------------
(* The target goes free                                                    *)

PutBackRegs ==
  /\ pc = "putBack"
  /\ \/ Held /\ image' = PutBack /\ Goto("free") /\ todo' = collected /\ UNCHANGED after
     \/ /\ ~Held /\ UNCHANGED <<image, todo>>
        /\ IF sysCore THEN Goto("restore") /\ UNCHANGED after
           ELSE Goto("terminate") /\ after' = "restore"
  /\ KeepsTarget /\ Keeps
  /\ UNCHANGED <<status, waitErr, relay, rc, call, child, haltPend, swallowed, wedged,
                 plan, detachSig, restored, snapshot>>

\* Every failed injection: registers, then restore_target_after_fail.
Restore ==
  /\ pc = "restore" /\ image' = PutBack /\ Fail /\ call' = NoCall
  /\ relay' = IF Intercepted = "none" THEN relay ELSE [relay EXCEPT ![Leader] = Intercepted]
  /\ KeepsTarget /\ Keeps
  /\ UNCHANGED <<status, waitErr, child, haltPend, swallowed, wedged, local>>

FreeOne ==
  /\ pc = "free"
  /\ \E t \in todo :
       LET sig == IF t = Leader /\ detachSig # "none" THEN detachSig ELSE relay[t] IN
       /\ todo' = todo \ {t}
       /\ \/ (DetachOk(t, sig) \/ DetachGone(t)) /\ UNCHANGED rc
          \/ DetachBroken(t) /\ rc' = -1
  /\ Keeps /\ KeepsCall /\ UNCHANGED <<pc, status, waitErr, relay, child, local>>

\* Once a thread could not be freed the snapshot is not worth finishing.
FreeDone ==
  /\ pc = "free" /\ todo = {} /\ detachSig' = "none"
  /\ relay' = [t \in Tids |-> "none"]
  /\ Goto(IF rc # 0 THEN IF sysCore THEN "returned" ELSE "terminate"
          ELSE IF sysCore THEN "skip" ELSE "memory")
  /\ after' = IF rc # 0 /\ ~sysCore THEN "returned"
              ELSE IF rc = 0 /\ sysCore THEN "reattach" ELSE "none"
  /\ KeepsTarget /\ Keeps /\ KeepsCall
  /\ UNCHANGED <<status, waitErr, todo, rc, child, plan, restored, snapshot>>

-----------------------------------------------------------------------------
(* The child                                                               *)

\* WriteLoads from the child, then the rest of the file; each may fail.
Memory ==
  /\ pc = "memory" /\ Goto("skip")
  /\ \/ /\ child.traced /\ child.state \in {"new", "stopped"}
        /\ snapshot' = IF child.dirty = {} /\ (child.still \/ unavailable # {})
                       THEN "clean" ELSE "polluted"
        /\ after' = "reattach" /\ UNCHANGED rc
     \/ rc' = -1 /\ after' = "returned" /\ UNCHANGED snapshot
  /\ KeepsTarget /\ Keeps /\ KeepsCall
  /\ UNCHANGED <<status, waitErr, todo, relay, child, plan, detachSig, restored>>

KeepsForChild == /\ Keeps /\ KeepsCall
                 /\ UNCHANGED <<status, waitErr, todo, relay, rc, broken, plan, detachSig, snapshot>>

\* pt_child_skip_int3: whatever the child still executes is exit(0).
SkipInt3 ==
  /\ pc = "skip" /\ IF sysCore THEN Goto(after) /\ after' = "none"
                    ELSE Goto("terminate") /\ UNCHANGED after
  /\ child' = IF child.traced /\ child.state = "stopped" THEN [child EXCEPT !.at = "exit"] ELSE child
  /\ KeepsForChild /\ UNCHANGED <<target, restored>>

\* pt_terminate_tracee: detach with SIGKILL, else kill and wait for a second.
Terminate ==
  /\ pc = "terminate"
  /\ \/ /\ ~child.traced /\ Goto(after) /\ after' = "none"
        /\ UNCHANGED <<target, child, restored>>
     \/ /\ child.traced /\ child.state = "stopped" /\ Goto(after) /\ after' = "none"
        /\ child' = [child EXCEPT !.state = "dying", !.traced = FALSE]
        /\ UNCHANGED <<target, restored>>
     \/ /\ child.traced /\ child.state = "new"
        /\ child' = [child EXCEPT !.state = "dying"]
        /\ UNCHANGED <<target, pc, after, restored>>
     \/ /\ child.traced /\ child.state = "dead" /\ Report(child) /\ Goto(after) /\ after' = "none"
        /\ UNCHANGED <<task, traced, stopPend, trap, jobStop, sleeps, restored>>
     \/ /\ child.traced /\ child.state = "dying" /\ Goto(after) /\ after' = "none"
        /\ restored' = FALSE /\ UNCHANGED <<target, child>>
  /\ KeepsForChild

-----------------------------------------------------------------------------
(* The leader reaps the child                                              *)

KeepsForReap == Keeps /\ UNCHANGED <<todo, relay, rc, child, plan, after, snapshot>>

Reattach ==
  /\ pc = "reattach" /\ waitErr' = "none"
  /\ IF CanAttach(Leader) THEN SysAttach(Leader) /\ Goto("rewait")
     ELSE Goto("settle") /\ UNCHANGED target
  /\ KeepsForReap /\ KeepsCall /\ UNCHANGED <<status, broken, detachSig, restored>>

\* pt_wait of pt_attach, and whose stop it was; see Wait and Classify.
Rewait ==
  /\ pc = "rewait"
  /\ \/ /\ Held /\ Goto(IF waitErr = "none" THEN "rejudge" ELSE "reundo")
        /\ status' = IF trap[Leader] \in {"attach", "group"} THEN "none" ELSE trap[Leader]
        /\ UNCHANGED <<target, waitErr>>
     \/ CanReap(Leader) /\ SysReap(Leader) /\ Goto("settle") /\ UNCHANGED <<status, waitErr>>
     \/ /\ ~Held /\ ~CanReap(Leader) /\ (task[Leader] # "run" \/ Leader \notin stopPend)
        /\ Goto("recont") /\ status' = "none" /\ UNCHANGED <<target, waitErr>>
     \/ waitErr = "none" /\ waitErr' = "other" /\ UNCHANGED <<target, pc, status>>
  /\ KeepsForReap /\ KeepsCall /\ UNCHANGED <<broken, detachSig, restored>>

Recont ==
  /\ pc = "recont" /\ SysCont /\ haltPend' = FALSE /\ Goto("reundo")
  /\ KeepsForReap
  /\ UNCHANGED <<status, waitErr, broken, detachSig, restored, image, call, swallowed, wedged>>

\* The attach is given up; the file is good all the same.
Reundo ==
  /\ pc = "reundo" /\ Goto("settle") /\ status' = "none" /\ waitErr' = "none"
  /\ DetachOk(Leader, status) \/ DetachGone(Leader) \/ DetachBroken(Leader)
  /\ KeepsForReap /\ KeepsCall /\ UNCHANGED <<detachSig, restored>>

\* A signal of the target is relayed and the child left to it, unless it is the
\* child's own SIGCHLD; nothing is injected into a restartable system call.
Rejudge ==
  /\ pc = "rejudge"
  /\ \/ /\ status # "none" /\ ~OwnChild(status, ~sysCore)
        /\ detachSig' = status /\ Goto("redetach") /\ UNCHANGED <<image, call>>
     \/ /\ status = "none" \/ OwnChild(status, ~sysCore)
        /\ UNCHANGED detachSig
        /\ \/ Held /\ Goto("reset") /\ UNCHANGED <<image, call>>
           \/ /\ Held /\ Goto("call") /\ CallBegin("waitpid")
              /\ image' = [image EXCEPT !.restart = FALSE]
           \/ ~Held /\ Goto("redetach") /\ UNCHANGED <<image, call>>
  /\ KeepsTarget /\ KeepsForReap
  /\ status' = "none" /\ UNCHANGED <<waitErr, haltPend, swallowed, wedged, restored>>

WaitpidDone ==
  /\ Done("waitpid") /\ Goto("reset") /\ call' = NoCall
  /\ detachSig' = IF call.result = "failed" THEN Intercepted ELSE "none"
  /\ KeepsForCall /\ UNCHANGED <<image, child, after>>

Reset ==
  /\ pc = "reset" /\ image' = PutBack /\ restored' = (restored /\ Held) /\ Goto("redetach")
  /\ KeepsTarget /\ KeepsForReap
  /\ UNCHANGED <<status, waitErr, call, haltPend, swallowed, wedged, detachSig>>

Redetach ==
  /\ pc = "redetach" /\ Goto("settle")
  /\ \/ (DetachOk(Leader, detachSig) \/ DetachGone(Leader)) /\ UNCHANGED restored
     \/ DetachBroken(Leader) /\ restored' = FALSE
  /\ KeepsForReap /\ KeepsCall /\ UNCHANGED <<status, waitErr, detachSig>>

\* A target that could not be put right costs the file.
Settle ==
  /\ pc = "settle"
  /\ IF restored THEN Goto("commit") /\ UNCHANGED rc ELSE Goto("returned") /\ rc' = -1
  /\ detachSig' = "none"
  /\ KeepsTarget /\ Keeps /\ KeepsCall
  /\ UNCHANGED <<status, waitErr, todo, relay, child, plan, after, restored, snapshot>>

\* The kernel detaches the child too, if Arthur still traces it.
Leave ==
  /\ ProcessExit
  /\ child' = [child EXCEPT !.traced = FALSE, !.state =
                 IF ~child.traced THEN @
                 ELSE IF child.state \in {"new", "stopped"} THEN "new" ELSE "dying"]
  /\ KeepsCall /\ UNCHANGED <<sysCore, chldAction, local>>

-----------------------------------------------------------------------------
ForkArthur == \/ Begin \/ Refuse \/ Shared \/ Plan \/ Calls \/ MmapDone \/ WriteShell
              \/ ForkDone \/ Poke \/ MunmapDone \/ PutBackRegs \/ Restore \/ FreeOne
              \/ FreeDone \/ Memory \/ SkipInt3 \/ Terminate \/ Reattach \/ Rewait
              \/ Recont \/ Reundo \/ Rejudge \/ WaitpidDone \/ Reset \/ Redetach
              \/ Settle \/ Leave

\* What becomes of the target once forkcore has returned is not looked at.
ForkEnvironment == pc \notin {"returned", "exited"} /\ RemoteTarget /\ UNCHANGED <<arthur, local>>

ForkNext == ForkArthur \/ ForkEnvironment
ForkSpec == ForkInit /\ [][ForkNext]_forkVars

\* Arthur never blocks, a thread handles what is pending for it, the injected
\* code runs when nothing stops it, and so does the child.
ForkFairSpec ==
  /\ ForkSpec /\ WF_forkVars(ForkArthur)
  /\ \A t \in Tids : WF_forkVars(React(t) /\ UNCHANGED <<arthur, remote, local>>)
  /\ WF_forkVars(Injected /\ UNCHANGED <<arthur, local>>)
  /\ WF_forkVars(HaltStop /\ UNCHANGED <<arthur, local>>)

-----------------------------------------------------------------------------
(* Properties                                                              *)

\* The comments on pt_call's recovery: whatever happens during an injection, the
\* target runs free again only as it was, with its own registers, stack and
\* extended state.  Only a leader that could not be stopped is beyond that.
TargetRestored ==
  Alive(Leader) /\ ~wedged /\ (Leader \notin traced \/ pc = "returned") =>
    image.where = "app" /\ image.dirty = {}

\* A published mode-0 file shows the memory of the moment at which every thread
\* stood still, and nothing of what Arthur wrote into the target to get it.
SnapshotUnpolluted == published /\ plan = "fork" /\ ~sysCore => snapshot = "clean"

\* A signal that stops the target while Arthur has it reaches the target exactly
\* once, also when it ends an injected call; except the SIGCHLD of the child
\* where nobody would notice, and a stop used up by pt_stop_if_running.
InterceptedRelayed ==
  [][\A s \in Signals : fate'[s] # fate[s] =>
       /\ fate'[s] # "twice"
       /\ fate'[s] = "discarded" =>
            \/ pc \in {"undo", "giveUp", "reundo"}
            \/ s = "chld" /\ chldAction # "handler"
            \/ s = swallowed \/ wedged]_forkVars

\* Whichever way mode 0 ends, it leaves no copy of the target behind, and no
\* core file of the copy when it reports success.
NoChildLeft ==
  pc = "returned" /\ ~sysCore /\ Alive(Leader) =>
    /\ child.traced => wedged \/ swallowed = "fork" \/ ~restored
    /\ rc = 0 => ~child.core

\* Arthur gives the target back, whatever the target does and wherever the calls
\* it makes there hang: every wait of forkcore and pt_call has a deadline.
Terminates == <>(pc = "exited")
=============================================================================
