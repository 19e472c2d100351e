---------------------------- MODULE AtomicOutput ----------------------------
(***************************************************************************)
(* How Arthur publishes an output file (src/src/core.cc, the functions     *)
(* create_atomic_output .. commit_atomic_file and the failure paths of     *)
(* their callers): write a private temporary file beside the output path,  *)
(* make its bytes durable, then move it to the output name.                *)
(*                                                                         *)
(* One action is one system call with the code around it.  Other producers *)
(* may install or remove a file at the output name between any two calls,  *)
(* the kernel may write the directory back at any moment, any call may     *)
(* fail, and the machine may crash.  The file system is external: a        *)
(* directory maps two names to inode numbers, in memory (dir) and on disk  *)
(* (ddir).                                                                 *)
(***************************************************************************)
EXTENDS Integers, FiniteSets

CONSTANTS Inodes,       \* inode numbers of the output file system
          NoInode,      \* what a name that does not exist maps to
          MaxPeerSteps, \* bound on the steps of other producers
          ReuseInodes   \* whether a freed inode number is handed out again

ASSUME InodeAssumption == NoInode \notin Inodes
ASSUME BoundAssumption == MaxPeerSteps \in Nat /\ ReuseInodes \in BOOLEAN

VARIABLES dir, ddir,    \* name -> inode, in memory and on disk
          owner,        \* inode -> whose file it holds
          data, ddata,  \* contents of Arthur's file, in memory and on disk
          fd,           \* Arthur holds its temporary file open
          state,        \* struct AtomicOutputState
          pc, rc,       \* next call, and the value returned (1: none yet)
          faults,       \* history: the calls that failed
          superseded,   \* history: a producer changed the name after publication
          peerSteps     \* steps taken by other producers

fsVars == <<dir, ddir, owner, data, ddata>>
vars == <<dir, ddir, owner, data, ddata, fd, state, pc, rc, faults,
          superseded, peerSteps>>

Names == {"final", "temp"}
Owners == {"free", "gone", "peer", "special", "old", "mine"}
Contents == {"empty", "partial", "complete"}
Handle == Inodes \cup {NoInode}
Steps == {"inspect", "mkstemp", "secure", "write", "sync", "close", "recheck",
          "exchange", "validate", "rollback", "dropOld", "noreplace", "link",
          "dropLink", "syncDir", "abort", "returned", "crashed"}
Published == {"dropOld", "dropLink", "syncDir"}

Holds(d, name, who) == d[name] # NoInode /\ owner[d[name]] = who
Linked(i, d) == \E n \in Names : d[n] = i

\* An inode number with no name, in memory or on disk, and no open descriptor
\* goes back to the allocator.
Collect(own, d, dd, open) ==
  [i \in Inodes |->
     IF Linked(i, d) \/ Linked(i, dd) \/ (open /\ own[i] = "mine") THEN own[i]
     ELSE IF own[i] \in {"free", "gone"} \/ ReuseInodes
          THEN (IF own[i] = "gone" THEN "gone" ELSE "free")
          ELSE "gone"]

Swap(d) == [d EXCEPT !["final"] = d["temp"], !["temp"] = d["final"]]

Init ==
  /\ owner \in [Inodes -> {"free", "peer", "special"}]
  /\ Cardinality({i \in Inodes : owner[i] # "free"}) <= 1
  /\ dir = [n \in Names |->
              IF n = "final" /\ \E i \in Inodes : owner[i] # "free"
              THEN CHOOSE i \in Inodes : owner[i] # "free" ELSE NoInode]
  /\ ddir = dir
  /\ data = "empty" /\ ddata = "empty" /\ fd = FALSE
  /\ state = [replace_existing |-> FALSE, initial_inode |-> NoInode]
  /\ pc = "inspect" /\ rc = 1
  /\ faults = {} /\ superseded = FALSE /\ peerSteps = 0

Goto(l) == pc' = l /\ UNCHANGED rc
Return(v) == pc' = "returned" /\ rc' = v
Fault(f) == faults' = faults \cup {f}

-----------------------------------------------------------------------------
(* create_atomic_output, open_atomic_lz4, open_atomic_file                 *)

\* Mutant of Inspect: the state of a fresh output is left half initialised.
InspectUninitialised ==
  /\ pc = "inspect" /\ dir["final"] = NoInode
  /\ state' = [replace_existing |-> FALSE]
  /\ Goto("mkstemp")
  /\ UNCHANGED <<fsVars, fd, faults, superseded, peerSteps>>

\* lstat(final_path): refuse anything but a regular file, remember its inode.
Inspect ==
  /\ pc = "inspect"
  /\ \/ /\ dir["final"] = NoInode
        /\ state' = [replace_existing |-> FALSE, initial_inode |-> NoInode]
        /\ Goto("mkstemp") /\ UNCHANGED <<owner, faults>>
     \/ /\ dir["final"] # NoInode /\ ~Holds(dir, "final", "special")
        /\ state' = [replace_existing |-> TRUE, initial_inode |-> dir["final"]]
        /\ owner' = [owner EXCEPT ![dir["final"]] = "old"]
        /\ Goto("mkstemp") /\ UNCHANGED faults
     \/ /\ Holds(dir, "final", "special")
        /\ Return(-1) /\ UNCHANGED <<owner, state, faults>>
     \/ Return(-1) /\ Fault("lstat") /\ UNCHANGED <<owner, state>>
  /\ UNCHANGED <<dir, ddir, data, ddata, fd, superseded, peerSteps>>

\* mkstemp beside the output path.
MkTemp ==
  /\ pc = "mkstemp"
  /\ \/ \E i \in {j \in Inodes : owner[j] = "free"} :
          /\ dir' = [dir EXCEPT !["temp"] = i]
          /\ owner' = [owner EXCEPT ![i] = "mine"]
          /\ fd' = TRUE /\ Goto("secure") /\ UNCHANGED faults
     \/ Return(-1) /\ Fault("mkstemp") /\ UNCHANGED <<dir, owner, fd>>
  /\ UNCHANGED <<ddir, data, ddata, state, superseded, peerSteps>>

\* fchmod, then OpenFd or fdopen; a failure closes and unlinks (Abort).
Secure ==
  /\ pc = "secure"
  /\ \/ Goto("write") /\ UNCHANGED faults
     \/ Goto("abort") /\ Fault("open")
  /\ UNCHANGED <<fsVars, fd, state, superseded, peerSteps>>

\* The capture or the decoder fills the file; on a failure its caller closes
\* the stream and unlinks the temporary file.
Write ==
  /\ pc = "write"
  /\ \/ data' = "partial" /\ Goto("write") /\ UNCHANGED faults
     \/ data' = "complete" /\ Goto("sync") /\ UNCHANGED faults
     \/ data' = "partial" /\ Goto("abort") /\ Fault("write")
  /\ UNCHANGED <<dir, ddir, owner, ddata, fd, state, superseded, peerSteps>>

\* Every failure before publication: close(fd), unlink(temp_path), return -1.
Abort ==
  /\ pc = "abort"
  /\ fd' = FALSE
  /\ \/ /\ dir' = [dir EXCEPT !["temp"] = NoInode]
        /\ UNCHANGED faults
     \/ Fault("unlink") /\ UNCHANGED dir
  /\ owner' = Collect(owner, dir', ddir, FALSE)
  /\ Return(-1)
  /\ UNCHANGED <<ddir, data, ddata, state, superseded, peerSteps>>

-----------------------------------------------------------------------------
(* commit_atomic_lz4, commit_atomic_file: flush and fsync, then close; both *)
(* run, and only when both succeed does the file move to its name.         *)

\* Mutant of Sync: flush the stream without fsync.
SyncFlushOnly ==
  /\ pc = "sync" /\ Goto("close")
  /\ UNCHANGED <<fsVars, fd, state, faults, superseded, peerSteps>>

Sync ==
  /\ pc = "sync"
  /\ \/ ddata' = data /\ UNCHANGED faults
     \/ ddata' \in {ddata, "partial"} /\ Fault("fsync")
  /\ Goto("close")
  /\ UNCHANGED <<dir, ddir, owner, data, fd, state, superseded, peerSteps>>

\* Mutant of Close: return without unlinking the temporary file.
CloseNoUnlink ==
  /\ pc = "close" /\ fd' = FALSE
  /\ \/ /\ Goto(IF "fsync" \in faults THEN "abort"
                ELSE IF state.replace_existing THEN "recheck" ELSE "noreplace")
        /\ UNCHANGED faults
     \/ Return(-1) /\ Fault("close")
  /\ UNCHANGED <<fsVars, state, superseded, peerSteps>>

Close ==
  /\ pc = "close"
  /\ fd' = FALSE
  /\ \/ UNCHANGED faults
     \/ Fault("close")
  /\ Goto(IF faults' \cap {"fsync", "close"} # {} THEN "abort"
          ELSE IF state.replace_existing THEN "recheck" ELSE "noreplace")
  /\ UNCHANGED <<fsVars, state, superseded, peerSteps>>

-----------------------------------------------------------------------------
(* commit_atomic_path, an output file existed when the capture began       *)

\* lstat again: the same inode must still be there.
Recheck ==
  /\ pc = "recheck"
  /\ \/ dir["final"] = state.initial_inode /\ Goto("exchange") /\ UNCHANGED faults
     \/ dir["final"] # state.initial_inode /\ Goto("abort") /\ UNCHANGED faults
     \/ Goto("abort") /\ Fault("lstat")
  /\ UNCHANGED <<fsVars, fd, state, superseded, peerSteps>>

\* renameat2(RENAME_EXCHANGE) needs both names.
Exchange ==
  /\ pc = "exchange"
  /\ \/ dir["final"] # NoInode /\ dir' = Swap(dir) /\ Goto("validate") /\ UNCHANGED faults
     \/ Goto("abort") /\ Fault("exchange") /\ UNCHANGED dir
  /\ UNCHANGED <<ddir, owner, data, ddata, fd, state, superseded, peerSteps>>

\* Mutant of Validate: trust the check made before the exchange.
ValidateNothing ==
  /\ pc = "validate" /\ Goto("dropOld")
  /\ UNCHANGED <<fsVars, fd, state, faults, superseded, peerSteps>>

\* lstat(temp_path): was the displaced file the one seen at the start?
Validate ==
  /\ pc = "validate"
  /\ \/ dir["temp"] = state.initial_inode /\ Goto("dropOld") /\ UNCHANGED faults
     \/ dir["temp"] # state.initial_inode /\ Goto("rollback") /\ UNCHANGED faults
     \/ Goto("rollback") /\ Fault("lstat")
  /\ UNCHANGED <<fsVars, fd, state, superseded, peerSteps>>

\* Exchange back; when that fails the displaced file stays at temp_path.
Rollback ==
  /\ pc = "rollback"
  /\ \/ dir["final"] # NoInode /\ dir' = Swap(dir) /\ Goto("abort") /\ UNCHANGED faults
     \/ Return(-1) /\ Fault("rollback") /\ UNCHANGED dir
  /\ UNCHANGED <<ddir, owner, data, ddata, fd, state, superseded, peerSteps>>

\* unlink(temp_path) after an exchange or a link.
DropTemp(l) ==
  /\ pc = l
  /\ \/ dir' = [dir EXCEPT !["temp"] = NoInode] /\ UNCHANGED faults
     \/ Fault("cleanup") /\ UNCHANGED dir
  /\ owner' = Collect(owner, dir', ddir, fd)
  /\ Goto("syncDir")
  /\ UNCHANGED <<ddir, data, ddata, fd, state, superseded, peerSteps>>

-----------------------------------------------------------------------------
(* commit_atomic_path, the name was free when the capture began            *)

\* Mutant of NoReplace: a plain rename.
NoReplaceOverwrites ==
  /\ pc = "noreplace"
  /\ dir' = [dir EXCEPT !["final"] = dir["temp"], !["temp"] = NoInode]
  /\ Goto("syncDir")
  /\ UNCHANGED <<ddir, owner, data, ddata, fd, state, faults, superseded, peerSteps>>

\* renameat2(RENAME_NOREPLACE); a kernel without it falls back to link.
NoReplace ==
  /\ pc = "noreplace"
  /\ \/ /\ dir["final"] = NoInode
        /\ dir' = [dir EXCEPT !["final"] = dir["temp"], !["temp"] = NoInode]
        /\ Goto("syncDir") /\ UNCHANGED faults
     \/ dir["final"] # NoInode /\ Goto("abort") /\ UNCHANGED <<dir, faults>>
     \/ Goto("link") /\ UNCHANGED <<dir, faults>>
     \/ Goto("abort") /\ Fault("rename") /\ UNCHANGED dir
  /\ UNCHANGED <<ddir, owner, data, ddata, fd, state, superseded, peerSteps>>

Link ==
  /\ pc = "link"
  /\ \/ /\ dir["final"] = NoInode
        /\ dir' = [dir EXCEPT !["final"] = dir["temp"]]
        /\ Goto("dropLink") /\ UNCHANGED faults
     \/ dir["final"] # NoInode /\ Goto("abort") /\ UNCHANGED <<dir, faults>>
     \/ Goto("abort") /\ Fault("rename") /\ UNCHANGED dir
  /\ UNCHANGED <<ddir, owner, data, ddata, fd, state, superseded, peerSteps>>

\* Mutant of SyncDir: report success without syncing the directory.
SyncDirSkipped ==
  /\ pc = "syncDir" /\ Return(0)
  /\ UNCHANGED <<fsVars, fd, state, faults, superseded, peerSteps>>

\* sync_output_directory, then the return value of the whole commit.
SyncDir ==
  /\ pc = "syncDir"
  /\ \/ /\ ddir' = dir /\ owner' = Collect(owner, dir, dir, fd)
        /\ Return(IF "cleanup" \in faults THEN -1 ELSE 0) /\ UNCHANGED faults
     \/ Return(-1) /\ Fault("dirsync") /\ UNCHANGED <<ddir, owner>>
  /\ UNCHANGED <<dir, data, ddata, fd, state, superseded, peerSteps>>

-----------------------------------------------------------------------------
(* The environment                                                         *)

\* Another producer renames a finished file of its own over the output name,
\* or removes what is there.  It never touches Arthur's temporary name.
Peer ==
  /\ pc # "crashed" /\ peerSteps < MaxPeerSteps
  /\ peerSteps' = peerSteps + 1
  /\ \/ \E i \in {j \in Inodes : owner[j] = "free"} :
          /\ dir' = [dir EXCEPT !["final"] = i]
          /\ owner' = Collect([owner EXCEPT ![i] = "peer"], dir', ddir, fd)
     \/ /\ dir["final"] # NoInode
        /\ dir' = [dir EXCEPT !["final"] = NoInode]
        /\ owner' = Collect(owner, dir', ddir, fd)
  /\ superseded' = (superseded \/ pc \in Published \cup {"validate", "returned"})
  /\ UNCHANGED <<ddir, data, ddata, fd, state, pc, rc, faults>>

\* The kernel writes the directory, or the bytes of Arthur's file, to disk.
Writeback ==
  /\ pc # "crashed"
  /\ \/ ddir' = dir /\ owner' = Collect(owner, dir, dir, fd) /\ UNCHANGED ddata
     \/ ddata' = data /\ UNCHANGED <<ddir, owner>>
  /\ UNCHANGED <<dir, data, fd, state, pc, rc, faults, superseded, peerSteps>>

\* Power loss: what is on disk is what is left.
Crash ==
  /\ pc # "crashed"
  /\ pc' = "crashed" /\ fd' = FALSE
  /\ dir' = ddir /\ data' = ddata
  /\ UNCHANGED <<ddir, owner, ddata, state, rc, faults, superseded, peerSteps>>

Arthur == \/ Inspect \/ MkTemp \/ Secure \/ Write \/ Sync \/ Close \/ Abort
          \/ Recheck \/ Exchange \/ Validate \/ Rollback \/ DropTemp("dropOld")
          \/ NoReplace \/ Link \/ DropTemp("dropLink") \/ SyncDir

Next == Arthur \/ Peer \/ Writeback \/ Crash

Spec == Init /\ [][Next]_vars

\* Arthur is one thread that never waits here: each call returns.
FairSpec == Spec /\ WF_vars(Arthur)

-----------------------------------------------------------------------------
(* Properties                                                              *)

\* The values the variables take.
TypeOK ==
  /\ dir \in [Names -> Handle] /\ ddir \in [Names -> Handle]
  /\ owner \in [Inodes -> Owners]
  /\ data \in Contents /\ ddata \in Contents /\ fd \in BOOLEAN
  /\ state \in [replace_existing : BOOLEAN, initial_inode : Handle]
  /\ pc \in Steps /\ rc \in {-1, 0, 1}
  /\ faults \subseteq {"lstat", "mkstemp", "open", "write", "unlink", "fsync",
                       "close", "exchange", "rollback", "cleanup", "rename",
                       "dirsync"}
  /\ superseded \in BOOLEAN /\ peerSteps \in 0 .. MaxPeerSteps

\* Whoever opens the output name, before or after a power loss at any moment,
\* never finds a partial file of Arthur's: fsync comes before every rename.
FinalNeverTorn ==
  /\ Holds(dir, "final", "mine") => data = "complete"
  /\ Holds(ddir, "final", "mine") => ddata = "complete"

\* commit_atomic_path returned 0: unless another producer has taken the name
\* since, the output name on disk is the complete file, also after a crash.
SuccessIsDurable ==
  rc = 0 /\ ~superseded => /\ Holds(dir, "final", "mine")
                           /\ Holds(ddir, "final", "mine")
                           /\ ddata = "complete"

\* What the output name leads to, in the directory d with bytes b in Arthur's file.
Look(d, name, b) ==
  IF d[name] = NoInode THEN "absent"
  ELSE IF owner[d[name]] = "mine" THEN IF b = "complete" THEN "whole" ELSE "torn"
  ELSE IF owner[d[name]] = "old" THEN "old" ELSE "foreign"

\* The protocol seen from outside; between the exchange and its validation the
\* displaced file is at the temporary name.
Shown == Look(dir, "final", data)
Kept == Look(ddir, "final", ddata)
Displaced == IF pc \in {"validate", "rollback"} THEN Look(dir, "temp", data) ELSE "none"
Verdict == IF pc = "inspect" THEN "idle"
           ELSE IF pc = "crashed" THEN "lost"
           ELSE IF pc # "returned" THEN "busy"
           ELSE IF rc = 0 THEN "ok" ELSE "failed"
Outside == INSTANCE Publication WITH
  shown <- Shown, kept <- Kept, displaced <- Displaced, verdict <- Verdict,
  rivals <- peerSteps, overtaken <- superseded

\* The fifteen calls of the commit implement Publication: no reader and no crash
\* point ever finds the name torn, or absent where a file was replaced; only the
\* file found at the start is dropped; a failure before the commit point leaves the
\* name alone; and success means that the disk has the whole output.
Publishes == Outside!Spec

\* Whatever fails, the temporary name is gone when Arthur returns, unless the
\* call that removes it failed.
NoTempLeft ==
  pc = "returned" /\ faults \cap {"unlink", "cleanup", "rollback"} = {} =>
    dir["temp"] = NoInode

\* The file a committed exchange drops is the one that was there at the start.
DisplacedWasInitial == pc = "dropOld" => Holds(dir, "temp", "old")

ArthurStep == pc' # pc /\ pc' # "crashed"
Foreign(i) == owner[i] \in {"peer", "special"} /\ Linked(i, dir)

\* Another producer's file, and a path that is not a regular file, keep a name
\* at every step of Arthur, except that the unlink after an exchange back may
\* drop a file that was installed between the two exchanges.
KeepsForeign ==
  \A i \in Inodes : Foreign(i) /\ ArthurStep =>
    \/ Linked(i, dir')
    \/ pc = "abort" /\ dir["temp"] = i
LossOnlyInRollback == [][KeepsForeign]_vars
=============================================================================
