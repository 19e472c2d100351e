------------------------- MODULE AtomicOutputProofs -------------------------
(***************************************************************************)
(* Theorems about AtomicOutput, for any number of inodes and any number of *)
(* steps of other producers.                                               *)
(*                                                                         *)
(* TypeOK is inductive as it stands.  The rest follows from one inductive  *)
(* invariant, IInv: FinalNeverTorn alone is not preserved by the renames,  *)
(* which need to know that both copies of the bytes were complete before   *)
(* the first of them ran (Durable), and SuccessIsDurable has to know where *)
(* Arthur's file is at every step of the commit (HeldAtTemp,               *)
(* HeldAtFinal).                                                           *)
(***************************************************************************)
EXTENDS AtomicOutput, TLAPS

Complete == data = "complete" /\ ddata = "complete"

\* A name, in memory or on disk, never points at an inode in the allocator.
NamesHoldFiles ==
  \A n \in Names : /\ dir[n] # NoInode => owner[dir[n]] \notin {"free", "gone"}
                   /\ ddir[n] # NoInode => owner[ddir[n]] \notin {"free", "gone"}

\* What is known of the bytes at each step: nothing leaves "close" for the
\* commit unless both fsync and close succeeded.
Durable ==
  /\ pc = "sync" => data = "complete"
  /\ pc = "close" => data = "complete" /\ ("fsync" \notin faults => ddata = "complete")
  /\ pc \in {"recheck", "exchange", "validate", "rollback", "dropOld",
             "noreplace", "link", "dropLink", "syncDir"} => Complete
  /\ rc = 0 => Complete

\* Arthur's file is at the output name only once its bytes are durable.
HiddenUntilComplete ==
  pc \in {"inspect", "mkstemp", "secure", "write", "sync", "close"} \/ ~Complete =>
    ~Holds(dir, "final", "mine") /\ ~Holds(ddir, "final", "mine")

HeldAtTemp ==
  pc \in {"secure", "write", "sync", "close", "recheck", "exchange", "noreplace",
          "link", "dropLink"} => Holds(dir, "temp", "mine")

HeldAtFinal ==
  ~superseded =>
    /\ pc \in {"validate", "dropOld", "dropLink", "syncDir"} => Holds(dir, "final", "mine")
    /\ rc = 0 => Holds(dir, "final", "mine") /\ Holds(ddir, "final", "mine")

ReturnedOnly == rc = 0 => pc \in {"returned", "crashed"}

IInv == /\ TypeOK /\ NamesHoldFiles /\ Durable /\ HiddenUntilComplete
        /\ HeldAtTemp /\ HeldAtFinal /\ ReturnedOnly

\* The inode seen at the start keeps its owner, or is gone for good.
InitialInodeKept ==
  /\ pc \in {"inspect", "mkstemp"} => dir["temp"] = NoInode
  /\ state.replace_existing => /\ state.initial_inode # NoInode
                               /\ owner[state.initial_inode] \in {"old", "gone"}
  /\ pc \in {"recheck", "exchange", "validate", "rollback", "dropOld"} =>
       state.replace_existing
  /\ pc \in {"validate", "rollback"} => dir["temp"] # NoInode

DInv == IInv /\ InitialInodeKept /\ DisplacedWasInitial

-----------------------------------------------------------------------------
(* The inode allocator, and the initial states                             *)

\* Collect takes back only inodes that nothing refers to, and never gives an
\* inode to an owner it did not have.
LEMMA CollectKeeps ==
  ASSUME NEW own \in [Inodes -> Owners], NEW d, NEW dd, NEW open
  PROVE  /\ Collect(own, d, dd, open) \in [Inodes -> Owners]
         /\ \A i \in Inodes :
              /\ Linked(i, d) \/ Linked(i, dd) => Collect(own, d, dd, open)[i] = own[i]
              /\ Collect(own, d, dd, open)[i] \in {own[i], "free", "gone"}
              /\ ~ReuseInodes /\ own[i] # "free" =>
                   Collect(own, d, dd, open)[i] \in {own[i], "gone"}
  BY DEF Collect, Owners

LEMMA InitDirectory == Init => /\ dir \in [Names -> Handle] /\ dir["temp"] = NoInode
                               /\ dir["final"] # NoInode => owner[dir["final"]] # "free"
<1> SUFFICES ASSUME Init
             PROVE  /\ dir \in [Names -> Handle] /\ dir["temp"] = NoInode
                    /\ dir["final"] # NoInode => owner[dir["final"]] # "free"
    OBVIOUS
<1>1. CASE \E i \in Inodes : owner[i] # "free"
  <2> DEFINE c == CHOOSE i \in Inodes : owner[i] # "free"
  <2>1. c \in Inodes /\ owner[c] # "free"
    BY <1>1
  <2>2. dir = [n \in Names |-> IF n = "final" THEN c ELSE NoInode]
    BY <1>1 DEF Init
  <2> HIDE DEF c
  <2> QED BY <2>1, <2>2 DEF Names, Handle
<1>2. CASE ~ \E i \in Inodes : owner[i] # "free"
  <2>1. dir = [n \in Names |-> NoInode]
    BY <1>2 DEF Init
  <2> QED BY <2>1 DEF Names, Handle
<1> QED BY <1>1, <1>2

-----------------------------------------------------------------------------
(* The values the variables take                                           *)

LEMMA TypeInit == Init => TypeOK
<1> SUFFICES ASSUME Init PROVE TypeOK
    OBVIOUS
<1>1. dir \in [Names -> Handle] /\ ddir \in [Names -> Handle]
  BY InitDirectory DEF Init
<1>2. owner \in [Inodes -> Owners]
  BY DEF Init, Owners
<1>3. state \in [replace_existing : BOOLEAN, initial_inode : Handle]
  BY DEF Init, Handle
<1>4. data \in Contents /\ ddata \in Contents /\ pc \in Steps
  BY DEF Init, Contents, Steps
<1>5. fd \in BOOLEAN /\ superseded \in BOOLEAN
  BY Zenon DEF Init
<1>6. rc \in {-1, 0, 1} /\ faults = {} /\ peerSteps \in 0 .. MaxPeerSteps
  BY BoundAssumption DEF Init
<1> QED BY <1>1, <1>2, <1>3, <1>4, <1>5, <1>6 DEF TypeOK

LEMMA TypeNext == TypeOK /\ [Next]_vars => TypeOK'
<1> SUFFICES ASSUME TypeOK, [Next]_vars PROVE TypeOK'
    OBVIOUS
<1> USE DEF TypeOK, Goto, Return, Fault, Handle, Names, Contents, Steps, fsVars
<1>1. CASE Inspect
  <2>1. owner' \in [Inodes -> Owners]
    BY <1>1 DEF Inspect, Owners
  <2>2. state' \in [replace_existing : BOOLEAN, initial_inode : Handle]
    <3>1. \/ state' = [replace_existing |-> FALSE, initial_inode |-> NoInode]
          \/ state' = [replace_existing |-> TRUE, initial_inode |-> dir["final"]]
          \/ state' = state
      BY <1>1, Zenon DEF Inspect
    <3>2. dir["final"] \in Handle /\ NoInode \in Handle
      OBVIOUS
    <3>3. state \in [replace_existing : BOOLEAN, initial_inode : Handle]
      OBVIOUS
    <3>4. /\ [replace_existing |-> FALSE, initial_inode |-> NoInode]
               \in [replace_existing : BOOLEAN, initial_inode : Handle]
          /\ [replace_existing |-> TRUE, initial_inode |-> dir["final"]]
               \in [replace_existing : BOOLEAN, initial_inode : Handle]
      BY <3>2
    <3> HIDE DEF TypeOK, Handle
    <3> QED BY <3>1, <3>3, <3>4, Zenon
  <2> QED BY <2>1, <2>2, <1>1 DEF Inspect
<1>2. CASE MkTemp
  <2>1. owner' \in [Inodes -> Owners]
    BY <1>2 DEF MkTemp, Owners
  <2>2. dir' \in [Names -> Handle]
    BY <1>2 DEF MkTemp
  <2> QED BY <2>1, <2>2, <1>2 DEF MkTemp
<1>3. CASE Secure
  BY <1>3 DEF Secure
<1>4. CASE Write
  BY <1>4 DEF Write
<1>5. CASE Sync
  BY <1>5 DEF Sync
<1>6. CASE Close
  BY <1>6 DEF Close
<1>7. CASE Abort
  <2>1. owner' \in [Inodes -> Owners]
    BY <1>7, CollectKeeps DEF Abort
  <2> QED BY <2>1, <1>7 DEF Abort
<1>8. CASE Recheck
  BY <1>8 DEF Recheck
<1>9. CASE Exchange
  BY <1>9 DEF Exchange, Swap
<1>10. CASE Validate
  BY <1>10 DEF Validate
<1>11. CASE Rollback
  BY <1>11 DEF Rollback, Swap
<1>12. CASE DropTemp("dropOld") \/ DropTemp("dropLink")
  <2>1. owner' \in [Inodes -> Owners]
    BY <1>12, CollectKeeps DEF DropTemp
  <2> QED BY <2>1, <1>12 DEF DropTemp
<1>13. CASE NoReplace
  <2>1. dir' \in [Names -> Handle]
    BY <1>13 DEF NoReplace
  <2> QED BY <1>13, <2>1 DEF NoReplace
<1>14. CASE Link
  BY <1>14 DEF Link
<1>15. CASE SyncDir
  <2>1. owner' \in [Inodes -> Owners]
    BY <1>15, CollectKeeps DEF SyncDir
  <2> QED BY <2>1, <1>15 DEF SyncDir
<1>16. CASE Peer
  <2>1. dir' \in [Names -> Handle]
    BY <1>16 DEF Peer
  <2>3. \A i \in Inodes : [owner EXCEPT ![i] = "peer"] \in [Inodes -> Owners]
    BY DEF Owners
  <2>2. owner' \in [Inodes -> Owners]
    <3>1. \/ \E i \in Inodes : owner' = Collect([owner EXCEPT ![i] = "peer"], dir', ddir, fd)
          \/ owner' = Collect(owner, dir', ddir, fd)
      BY <1>16 DEF Peer
    <3>2. ASSUME NEW i \in Inodes,
                 owner' = Collect([owner EXCEPT ![i] = "peer"], dir', ddir, fd)
          PROVE  owner' \in [Inodes -> Owners]
      <4> DEFINE o == [owner EXCEPT ![i] = "peer"]
      <4>1. o \in [Inodes -> Owners]
        BY <2>3
      <4> HIDE DEF o
      <4>2. Collect(o, dir', ddir, fd) \in [Inodes -> Owners]
        BY <4>1, CollectKeeps
      <4> QED BY <3>2, <4>2 DEF o
    <3>3. Collect(owner, dir', ddir, fd) \in [Inodes -> Owners]
      BY CollectKeeps
    <3> QED BY <3>1, <3>2, <3>3, Zenon
  <2> QED BY <2>1, <2>2, <1>16, BoundAssumption DEF Peer
<1>17. CASE Writeback
  BY <1>17, CollectKeeps DEF Writeback
<1>18. CASE Crash
  BY <1>18 DEF Crash
<1>19. CASE UNCHANGED vars
  BY <1>19 DEF vars
<1> QED BY <1>1, <1>2, <1>3, <1>4, <1>5, <1>6, <1>7, <1>8, <1>9, <1>10, <1>11,
        <1>12, <1>13, <1>14, <1>15, <1>16, <1>17, <1>18, <1>19
    DEF Next, Arthur

\* Type correctness: every variable keeps to its set of values.
THEOREM TypeCorrect == Spec => []TypeOK
  BY TypeInit, TypeNext, PTL DEF Spec

-----------------------------------------------------------------------------
(* No torn output, and a success that survives a crash                     *)

LEMMA IInvInit == Init => IInv
<1> SUFFICES ASSUME Init PROVE IInv
    OBVIOUS
<1>1. TypeOK /\ dir["temp"] = NoInode
  BY TypeInit, InitDirectory
<1>2. /\ pc = "inspect" /\ rc = 1 /\ ddir = dir
      /\ owner \in [Inodes -> {"free", "peer", "special"}]
      /\ dir["final"] # NoInode => owner[dir["final"]] # "free"
  BY InitDirectory DEF Init
<1>3. dir["final"] # NoInode => owner[dir["final"]] \in {"peer", "special"}
  BY <1>1, <1>2 DEF TypeOK, Names, Handle
<1>4. NamesHoldFiles
  BY <1>1, <1>2, <1>3 DEF NamesHoldFiles, Names
<1>5. HiddenUntilComplete
  BY <1>2, <1>3 DEF HiddenUntilComplete, Holds
<1>6. Durable /\ HeldAtTemp /\ HeldAtFinal /\ ReturnedOnly
  BY <1>2 DEF Durable, HeldAtTemp, HeldAtFinal, ReturnedOnly
<1> QED BY <1>1, <1>4, <1>5, <1>6 DEF IInv

\* Withdrawing the temporary file takes an inode back only when it has no name.
LEMMA AbortKeeps ==
  ASSUME TypeOK, Abort
  PROVE  \A i \in Inodes : /\ Linked(i, dir') \/ Linked(i, ddir) => owner'[i] = owner[i]
                           /\ owner'[i] \in {owner[i], "free", "gone"}
                           /\ ~ReuseInodes /\ owner[i] # "free" => owner'[i] \in {owner[i], "gone"}
<1>1. owner' = Collect(owner, dir', ddir, FALSE)
  BY Zenon DEF Abort
<1>2. ASSUME NEW open, owner' = Collect(owner, dir', ddir, open)
      PROVE  \A i \in Inodes : /\ Linked(i, dir') \/ Linked(i, ddir) => owner'[i] = owner[i]
                               /\ owner'[i] \in {owner[i], "free", "gone"}
                               /\ ~ReuseInodes /\ owner[i] # "free" => owner'[i] \in {owner[i], "gone"}
  BY <1>2, CollectKeeps DEF TypeOK
<1> QED BY <1>1, <1>2, Zenon

\* Another producer's step changes no owner but that of a free inode, unless
\* the inode has lost its last name.
LEMMA PeerKeeps ==
  ASSUME TypeOK, Peer
  PROVE  /\ dir'["final"] # NoInode => owner'[dir'["final"]] = "peer"
         /\ \A j \in Inodes :
              /\ (Linked(j, dir') \/ Linked(j, ddir)) /\ owner[j] # "free" =>
                   owner'[j] = owner[j]
              /\ owner'[j] \in {owner[j], "free", "gone", "peer"}
              /\ owner'[j] = "peer" => owner[j] \in {"free", "peer"}
              /\ ~ReuseInodes /\ owner[j] # "free" => owner'[j] \in {owner[j], "gone"}
<1>1. PICK o \in [Inodes -> Owners] :
        /\ owner' = Collect(o, dir', ddir, fd)
        /\ \A j \in Inodes : o[j] = owner[j] \/ (owner[j] = "free" /\ o[j] = "peer")
        /\ dir'["final"] # NoInode => o[dir'["final"]] = "peer"
  <2>1. CASE owner' = Collect(owner, dir', ddir, fd) /\ dir'["final"] = NoInode
    BY <2>1 DEF TypeOK
  <2>2. ASSUME NEW i \in Inodes, owner[i] = "free", dir' = [dir EXCEPT !["final"] = i],
               owner' = Collect([owner EXCEPT ![i] = "peer"], dir', ddir, fd)
        PROVE  \E o \in [Inodes -> Owners] :
                  /\ owner' = Collect(o, dir', ddir, fd)
                  /\ \A j \in Inodes : o[j] = owner[j] \/ (owner[j] = "free" /\ o[j] = "peer")
                  /\ dir'["final"] # NoInode => o[dir'["final"]] = "peer"
    <3>1. [owner EXCEPT ![i] = "peer"] \in [Inodes -> Owners]
      BY DEF TypeOK, Owners
    <3>2. /\ \A j \in Inodes : [owner EXCEPT ![i] = "peer"][j] = owner[j]
               \/ (owner[j] = "free" /\ [owner EXCEPT ![i] = "peer"][j] = "peer")
          /\ dir'["final"] # NoInode => [owner EXCEPT ![i] = "peer"][dir'["final"]] = "peer"
      BY <2>2 DEF TypeOK, Names
    <3> QED BY <2>2, <3>1, <3>2, Zenon
  <2>3. \/ owner' = Collect(owner, dir', ddir, fd) /\ dir'["final"] = NoInode
        \/ \E i \in Inodes :
             /\ owner[i] = "free" /\ dir' = [dir EXCEPT !["final"] = i]
             /\ owner' = Collect([owner EXCEPT ![i] = "peer"], dir', ddir, fd)
    BY DEF Peer, TypeOK, Names
  <2> QED BY <2>1, <2>2, <2>3
<1>2. dir' \in [Names -> Handle]
  BY DEF Peer, TypeOK, Names, Handle
<1>3. \A j \in Inodes :
        /\ Linked(j, dir') \/ Linked(j, ddir) => owner'[j] = o[j]
        /\ owner'[j] \in {o[j], "free", "gone"}
        /\ ~ReuseInodes /\ o[j] # "free" => owner'[j] \in {o[j], "gone"}
  BY <1>1, CollectKeeps
<1> QED BY <1>1, <1>2, <1>3 DEF Linked, Names, Handle

LEMMA IInvNext == IInv /\ [Next]_vars => IInv'
<1> SUFFICES ASSUME IInv, [Next]_vars PROVE IInv'
    OBVIOUS
<1>0. TypeOK /\ TypeOK'
  BY TypeNext DEF IInv
<1> USE <1>0 DEF IInv, Goto, Return, Fault, fsVars, Complete, Holds
<1>1. CASE Inspect
  <2>1. NamesHoldFiles'
    BY <1>1 DEF Inspect, NamesHoldFiles, TypeOK, Names, Handle
  <2>2. Durable'
    BY <1>1 DEF Inspect, Durable
  <2>3. HiddenUntilComplete'
    BY <1>1 DEF Inspect, NamesHoldFiles, Durable, HiddenUntilComplete, TypeOK, Names, Handle
  <2>4. HeldAtTemp'
    BY <1>1 DEF Inspect, HeldAtTemp, NamesHoldFiles, TypeOK, Names, Handle
  <2>5. HeldAtFinal'
    BY <1>1 DEF Inspect, HeldAtFinal, HeldAtTemp, ReturnedOnly, TypeOK, Names, Handle
  <2>6. ReturnedOnly'
    BY <1>1 DEF Inspect, ReturnedOnly
  <2> QED BY <2>1, <2>2, <2>3, <2>4, <2>5, <2>6
<1>2. CASE MkTemp
  <2>1. NamesHoldFiles'
    BY <1>2 DEF MkTemp, NamesHoldFiles, TypeOK, Names, Handle
  <2>2. Durable'
    BY <1>2 DEF MkTemp, Durable
  <2>3. HiddenUntilComplete'
    BY <1>2 DEF MkTemp, NamesHoldFiles, Durable, HiddenUntilComplete, TypeOK, Names, Handle
  <2>4. HeldAtTemp'
    BY <1>2, InodeAssumption DEF MkTemp, HeldAtTemp, NamesHoldFiles, TypeOK, Names, Handle
  <2>5. HeldAtFinal'
    BY <1>2 DEF MkTemp, HeldAtFinal, HeldAtTemp, ReturnedOnly, TypeOK, Names, Handle
  <2>6. ReturnedOnly'
    BY <1>2 DEF MkTemp, ReturnedOnly
  <2> QED BY <2>1, <2>2, <2>3, <2>4, <2>5, <2>6
<1>3. CASE Secure
  BY <1>3 DEF Secure, NamesHoldFiles, Durable, HiddenUntilComplete, HeldAtTemp,
    HeldAtFinal, ReturnedOnly
<1>4. CASE Write
  BY <1>4 DEF Write, NamesHoldFiles, Durable, HiddenUntilComplete, HeldAtTemp,
    HeldAtFinal, ReturnedOnly
<1>5. CASE Sync
  BY <1>5 DEF Sync, NamesHoldFiles, Durable, HiddenUntilComplete, HeldAtTemp,
    HeldAtFinal, ReturnedOnly
<1>6. CASE Close
  BY <1>6 DEF Close, NamesHoldFiles, Durable, HiddenUntilComplete, HeldAtTemp,
    HeldAtFinal, ReturnedOnly
<1>7. CASE Abort
  <2>8. dir'["final"] = dir["final"] /\ dir'["temp"] \in {NoInode, dir["temp"]} /\ ddir' = ddir
    BY <1>7 DEF Abort, TypeOK, Names
  <2>1. NamesHoldFiles'
    BY <1>7, AbortKeeps, <2>8 DEF NamesHoldFiles, TypeOK, Names, Handle, Linked
  <2>2. Durable'
    BY <1>7 DEF Abort, Durable, Linked
  <2>3. HiddenUntilComplete'
    BY <1>7, AbortKeeps, <2>8 DEF Abort, NamesHoldFiles, Durable, HiddenUntilComplete, TypeOK, Names, Handle, Linked
  <2>4. HeldAtTemp'
    BY <1>7 DEF Abort, HeldAtTemp, NamesHoldFiles, TypeOK, Names, Handle, Linked
  <2>5. HeldAtFinal'
    BY <1>7, CollectKeeps DEF Abort, HeldAtFinal, HeldAtTemp, ReturnedOnly, TypeOK, Names, Handle, Linked
  <2>6. ReturnedOnly'
    BY <1>7 DEF Abort, ReturnedOnly, Linked
  <2> QED BY <2>1, <2>2, <2>3, <2>4, <2>5, <2>6
<1>8. CASE Recheck
  BY <1>8 DEF Recheck, NamesHoldFiles, Durable, HiddenUntilComplete, HeldAtTemp,
    HeldAtFinal, ReturnedOnly
<1>9. CASE Exchange
  <2>1. NamesHoldFiles'
    BY <1>9 DEF Exchange, NamesHoldFiles, TypeOK, Names, Handle, Swap
  <2>2. Durable'
    BY <1>9 DEF Exchange, Durable, Swap
  <2>3. HiddenUntilComplete'
    BY <1>9 DEF Exchange, NamesHoldFiles, Durable, HiddenUntilComplete, TypeOK, Names, Handle, Swap
  <2>4. HeldAtTemp'
    BY <1>9 DEF Exchange, HeldAtTemp, NamesHoldFiles, TypeOK, Names, Handle, Swap
  <2>5. HeldAtFinal'
    BY <1>9 DEF Exchange, HeldAtFinal, HeldAtTemp, ReturnedOnly, TypeOK, Names, Handle, Swap
  <2>6. ReturnedOnly'
    BY <1>9 DEF Exchange, ReturnedOnly, Swap
  <2> QED BY <2>1, <2>2, <2>3, <2>4, <2>5, <2>6
<1>10. CASE Validate
  BY <1>10 DEF Validate, NamesHoldFiles, Durable, HiddenUntilComplete, HeldAtTemp,
    HeldAtFinal, ReturnedOnly
<1>11. CASE Rollback
  <2>1. NamesHoldFiles'
    BY <1>11 DEF Rollback, NamesHoldFiles, TypeOK, Names, Handle, Swap
  <2>2. Durable'
    BY <1>11 DEF Rollback, Durable, Swap
  <2>3. HiddenUntilComplete'
    BY <1>11 DEF Rollback, NamesHoldFiles, Durable, HiddenUntilComplete, TypeOK, Names, Handle, Swap
  <2>4. HeldAtTemp'
    BY <1>11 DEF Rollback, HeldAtTemp, NamesHoldFiles, TypeOK, Names, Handle, Swap
  <2>5. HeldAtFinal'
    BY <1>11 DEF Rollback, HeldAtFinal, HeldAtTemp, ReturnedOnly, TypeOK, Names, Handle, Swap
  <2>6. ReturnedOnly'
    BY <1>11 DEF Rollback, ReturnedOnly, Swap
  <2> QED BY <2>1, <2>2, <2>3, <2>4, <2>5, <2>6
<1>12. CASE DropTemp("dropOld") \/ DropTemp("dropLink")
  <2>1. NamesHoldFiles'
    BY <1>12, CollectKeeps DEF DropTemp, NamesHoldFiles, TypeOK, Names, Handle, Linked
  <2>2. Durable'
    BY <1>12 DEF DropTemp, Durable, Linked
  <2>3. HiddenUntilComplete'
    BY <1>12, CollectKeeps DEF DropTemp, NamesHoldFiles, Durable, HiddenUntilComplete, TypeOK, Names, Handle, Linked
  <2>4. HeldAtTemp'
    BY <1>12, CollectKeeps DEF DropTemp, HeldAtTemp, NamesHoldFiles, TypeOK, Names, Handle, Linked
  <2>5. HeldAtFinal'
    BY <1>12, CollectKeeps DEF DropTemp, HeldAtFinal, HeldAtTemp, ReturnedOnly, TypeOK, Names, Handle, Linked
  <2>6. ReturnedOnly'
    BY <1>12 DEF DropTemp, ReturnedOnly, Linked
  <2> QED BY <2>1, <2>2, <2>3, <2>4, <2>5, <2>6
<1>13. CASE NoReplace
  <2>1. NamesHoldFiles'
    BY <1>13 DEF NoReplace, NamesHoldFiles, TypeOK, Names, Handle
  <2>2. Durable'
    BY <1>13 DEF NoReplace, Durable
  <2>3. HiddenUntilComplete'
    BY <1>13 DEF NoReplace, NamesHoldFiles, Durable, HiddenUntilComplete, TypeOK, Names, Handle
  <2>4. HeldAtTemp'
    BY <1>13 DEF NoReplace, HeldAtTemp, NamesHoldFiles, TypeOK, Names, Handle
  <2>5. HeldAtFinal'
    BY <1>13 DEF NoReplace, HeldAtFinal, HeldAtTemp, ReturnedOnly, TypeOK, Names, Handle
  <2>6. ReturnedOnly'
    BY <1>13 DEF NoReplace, ReturnedOnly
  <2> QED BY <2>1, <2>2, <2>3, <2>4, <2>5, <2>6
<1>14. CASE Link
  <2>1. NamesHoldFiles'
    BY <1>14 DEF Link, NamesHoldFiles, TypeOK, Names, Handle
  <2>2. Durable'
    BY <1>14 DEF Link, Durable
  <2>3. HiddenUntilComplete'
    BY <1>14 DEF Link, NamesHoldFiles, Durable, HiddenUntilComplete, TypeOK, Names, Handle
  <2>4. HeldAtTemp'
    BY <1>14 DEF Link, HeldAtTemp, NamesHoldFiles, TypeOK, Names, Handle
  <2>5. HeldAtFinal'
    BY <1>14 DEF Link, HeldAtFinal, HeldAtTemp, ReturnedOnly, TypeOK, Names, Handle
  <2>6. ReturnedOnly'
    BY <1>14 DEF Link, ReturnedOnly
  <2> QED BY <2>1, <2>2, <2>3, <2>4, <2>5, <2>6
<1>15. CASE SyncDir
  <2>1. NamesHoldFiles'
    BY <1>15, CollectKeeps DEF SyncDir, NamesHoldFiles, TypeOK, Names, Handle, Linked
  <2>2. Durable'
    BY <1>15 DEF SyncDir, Durable, Linked
  <2>3. HiddenUntilComplete'
    BY <1>15, CollectKeeps DEF SyncDir, NamesHoldFiles, Durable, HiddenUntilComplete, TypeOK, Names, Handle, Linked
  <2>4. HeldAtTemp'
    BY <1>15, CollectKeeps DEF SyncDir, HeldAtTemp, NamesHoldFiles, TypeOK, Names, Handle, Linked
  <2>5. HeldAtFinal'
    BY <1>15, CollectKeeps DEF SyncDir, HeldAtFinal, HeldAtTemp, ReturnedOnly, TypeOK, Names, Handle, Linked
  <2>6. ReturnedOnly'
    BY <1>15 DEF SyncDir, ReturnedOnly, Linked
  <2> QED BY <2>1, <2>2, <2>3, <2>4, <2>5, <2>6
<1>16. CASE Peer
  <2>7. /\ dir'["temp"] = dir["temp"]
        /\ UNCHANGED <<ddir, data, ddata, pc, rc, faults>>
        /\ superseded' = (superseded \/ pc \in Published \cup {"validate", "returned"})
        /\ pc # "crashed"
    BY <1>16 DEF Peer, TypeOK, Names
  <2>1. NamesHoldFiles'
    BY <1>16, <2>7, PeerKeeps DEF NamesHoldFiles, TypeOK, Names, Handle, Linked
  <2>2. Durable'
    BY <2>7 DEF Durable
  <2>3. HiddenUntilComplete'
    BY <1>16, <2>7, PeerKeeps DEF HiddenUntilComplete, TypeOK, Names, Handle
  <2>4. HeldAtTemp'
    BY <1>16, <2>7, PeerKeeps DEF HeldAtTemp, TypeOK, Names, Handle, Linked
  <2>5. HeldAtFinal'
    BY <2>7 DEF HeldAtFinal, ReturnedOnly, Published
  <2>6. ReturnedOnly'
    BY <2>7 DEF ReturnedOnly
  <2> QED BY <2>1, <2>2, <2>3, <2>4, <2>5, <2>6
<1>17. CASE Writeback
  <2>1. NamesHoldFiles'
    BY <1>17, CollectKeeps DEF Writeback, NamesHoldFiles, TypeOK, Names, Handle, Linked
  <2>2. Durable'
    BY <1>17 DEF Writeback, Durable, Linked
  <2>3. HiddenUntilComplete'
    BY <1>17, CollectKeeps DEF Writeback, NamesHoldFiles, Durable, HiddenUntilComplete, TypeOK, Names, Handle, Linked
  <2>4. HeldAtTemp'
    BY <1>17, CollectKeeps DEF Writeback, HeldAtTemp, NamesHoldFiles, TypeOK, Names, Handle, Linked
  <2>5. HeldAtFinal'
    BY <1>17, CollectKeeps DEF Writeback, HeldAtFinal, HeldAtTemp, ReturnedOnly, TypeOK, Names, Handle, Linked
  <2>6. ReturnedOnly'
    BY <1>17 DEF Writeback, ReturnedOnly, Linked
  <2> QED BY <2>1, <2>2, <2>3, <2>4, <2>5, <2>6
<1>18. CASE Crash
  <2>1. NamesHoldFiles'
    BY <1>18 DEF Crash, NamesHoldFiles, TypeOK, Names, Handle
  <2>2. Durable'
    BY <1>18 DEF Crash, Durable
  <2>3. HiddenUntilComplete'
    BY <1>18 DEF Crash, NamesHoldFiles, Durable, HiddenUntilComplete, TypeOK, Names, Handle
  <2>4. HeldAtTemp'
    BY <1>18 DEF Crash, HeldAtTemp, NamesHoldFiles, TypeOK, Names, Handle
  <2>5. HeldAtFinal'
    BY <1>18 DEF Crash, HeldAtFinal, HeldAtTemp, ReturnedOnly, TypeOK, Names, Handle
  <2>6. ReturnedOnly'
    BY <1>18 DEF Crash, ReturnedOnly
  <2> QED BY <2>1, <2>2, <2>3, <2>4, <2>5, <2>6
<1>19. CASE UNCHANGED vars
  BY <1>19 DEF vars, NamesHoldFiles, Durable, HiddenUntilComplete, HeldAtTemp,
    HeldAtFinal, ReturnedOnly
<1> QED BY <1>1, <1>2, <1>3, <1>4, <1>5, <1>6, <1>7, <1>8, <1>9, <1>10, <1>11, <1>12, <1>13, <1>14, <1>15, <1>16, <1>17, <1>18, <1>19
    DEF Next, Arthur

\* A reader of the output name never meets a partial file of Arthur's, before
\* or after a power loss: nothing is renamed until fsync and close succeeded.
THEOREM NeverTorn == Spec => []FinalNeverTorn
<1>1. IInv => FinalNeverTorn
  BY DEF IInv, HiddenUntilComplete, FinalNeverTorn, Complete
<1> QED BY <1>1, IInvInit, IInvNext, PTL DEF Spec

\* Once commit_atomic_path has returned 0 the complete file is at the output
\* name on disk, until another producer replaces it.
THEOREM Durability == Spec => []SuccessIsDurable
<1>1. IInv => SuccessIsDurable
  BY DEF IInv, Durable, HeldAtFinal, SuccessIsDurable, Complete
<1> QED BY <1>1, IInvInit, IInvNext, PTL DEF Spec

-----------------------------------------------------------------------------
(* Nothing of another producer is lost, when inode numbers are not reused  *)

LEMMA DInvInit == ~ReuseInodes /\ Init => DInv
<1> SUFFICES ASSUME Init PROVE DInv
    OBVIOUS
<1>1. IInv /\ dir["temp"] = NoInode
  BY IInvInit, InitDirectory
<1>2. pc = "inspect" /\ state.replace_existing = FALSE
  BY DEF Init
<1> QED BY <1>1, <1>2 DEF DInv, InitialInodeKept, DisplacedWasInitial

LEMMA DInvNext == ~ReuseInodes /\ DInv /\ [Next]_vars => DInv'
<1> SUFFICES ASSUME ~ReuseInodes, DInv, [Next]_vars
             PROVE  InitialInodeKept' /\ DisplacedWasInitial'
    BY IInvNext DEF DInv
<1>0. TypeOK /\ TypeOK' /\ NamesHoldFiles /\ HeldAtTemp /\ ReturnedOnly
  BY TypeNext DEF DInv, IInv
<1> USE <1>0 DEF DInv, Goto, Return, Fault, fsVars, Holds, InitialInodeKept,
       DisplacedWasInitial, TypeOK, Names, Handle
<1>1. CASE Inspect
  BY <1>1 DEF Inspect
<1>2. CASE MkTemp
  BY <1>2 DEF MkTemp
<1>3. CASE Secure
  BY <1>3 DEF Secure
<1>4. CASE Write
  BY <1>4 DEF Write
<1>5. CASE Sync
  BY <1>5 DEF Sync
<1>6. CASE Close
  BY <1>6 DEF Close
<1>7. CASE Abort
  BY <1>7, AbortKeeps DEF Abort, Linked
<1>8. CASE Recheck
  BY <1>8 DEF Recheck
<1>9. CASE Exchange
  BY <1>9 DEF Exchange, Swap
<1>10. CASE Validate
  BY <1>10 DEF Validate, NamesHoldFiles
<1>11. CASE Rollback
  BY <1>11 DEF Rollback, Swap
<1>12. CASE DropTemp("dropOld") \/ DropTemp("dropLink")
  BY <1>12, CollectKeeps DEF DropTemp, Linked
<1>13. CASE NoReplace
  <2>1. dir' \in [Names -> Handle]
    BY <1>13 DEF NoReplace
  <2> QED BY <1>13, <2>1 DEF NoReplace
<1>14. CASE Link
  BY <1>14 DEF Link
<1>15. CASE SyncDir
  BY <1>15, CollectKeeps DEF SyncDir, Linked
<1>16. CASE Peer
  BY <1>16, PeerKeeps DEF Peer, Linked
<1>17. CASE Writeback
  BY <1>17, CollectKeeps DEF Writeback, Linked
<1>18. CASE Crash
  BY <1>18 DEF Crash
<1>19. CASE UNCHANGED vars
  BY <1>19 DEF vars
<1> QED BY <1>1, <1>2, <1>3, <1>4, <1>5, <1>6, <1>7, <1>8, <1>9, <1>10, <1>11, <1>12, <1>13, <1>14, <1>15, <1>16, <1>17, <1>18, <1>19
    DEF Next, Arthur

\* Where a freed inode number is not handed out again, the file a committed
\* exchange drops is the one commit_atomic_path was asked to replace.
THEOREM DropsOnlyTheInitial ==
  ASSUME ~ReuseInodes PROVE Spec => []DisplacedWasInitial
<1>1. DInv => DisplacedWasInitial
  BY DEF DInv
<1>2. Init => DInv
  BY DInvInit
<1>3. DInv /\ [Next]_vars => DInv'
  BY DInvNext
<1> QED BY <1>1, <1>2, <1>3, PTL DEF Spec

\* Under the same condition Arthur takes the last name of another producer's
\* file at one place only, the unlink after an exchange back.
THEOREM LossOnlyThere ==
  ASSUME ~ReuseInodes PROVE Spec => LossOnlyInRollback
<1>1. DInv /\ [Next]_vars => [KeepsForeign]_vars
  <2> SUFFICES ASSUME DInv, Next PROVE KeepsForeign
      OBVIOUS
  <2> SUFFICES ASSUME NEW i \in Inodes, Foreign(i), ArthurStep, pc # "abort" \/ dir["temp"] # i
               PROVE  Linked(i, dir')
      BY DEF KeepsForeign
  <2>0. TypeOK /\ HeldAtTemp /\ InitialInodeKept /\ DisplacedWasInitial
    BY DEF DInv, IInv
  <2> USE <2>0 DEF Goto, Return, Fault, fsVars, Holds, Foreign, Linked, ArthurStep,
         TypeOK, Names, Handle
  <2>1. CASE Inspect \/ Secure \/ Write \/ Sync \/ Close \/ Recheck \/ Validate \/ SyncDir
    BY <2>1 DEF Inspect, Secure, Write, Sync, Close, Recheck, Validate, SyncDir
  <2>2. CASE MkTemp
    BY <2>2, InodeAssumption DEF MkTemp, InitialInodeKept
  <2>3. CASE Abort
    BY <2>3 DEF Abort
  <2>4. CASE Exchange \/ Rollback
    BY <2>4 DEF Exchange, Rollback, Swap
  <2>5. CASE DropTemp("dropOld") \/ DropTemp("dropLink")
    BY <2>5 DEF DropTemp, HeldAtTemp, DisplacedWasInitial
  <2>6. CASE NoReplace \/ Link
    BY <2>6, InodeAssumption DEF NoReplace, Link
  <2>7. CASE Peer \/ Writeback \/ Crash
    BY <2>7 DEF Peer, Writeback, Crash
  <2> QED BY <2>1, <2>2, <2>3, <2>4, <2>5, <2>6, <2>7 DEF Next, Arthur
<1>2. Init => DInv
  BY DInvInit
<1>3. DInv /\ [Next]_vars => DInv'
  BY DInvNext
<1> QED BY <1>1, <1>2, <1>3, PTL DEF Spec, LossOnlyInRollback

-----------------------------------------------------------------------------
(* The temporary name                                                      *)

\* Before Arthur has made its file, and after it has moved or unlinked it.
TempGone ==
  \/ pc \in {"inspect", "mkstemp"}
  \/ pc \in {"syncDir", "returned"} /\ faults \cap {"unlink", "cleanup", "rollback"} = {}

TInv == TypeOK /\ (TempGone => dir["temp"] = NoInode)

LEMMA TInvNext == TInv /\ [Next]_vars => TInv'
<1> SUFFICES ASSUME TInv, [Next]_vars, TempGone' PROVE dir'["temp"] = NoInode
    BY TypeNext DEF TInv
<1>0. TypeOK /\ (TempGone => dir["temp"] = NoInode)
  BY DEF TInv
<1> USE <1>0 DEF TempGone, TypeOK, Names, Goto, Return, Fault, fsVars
<1>1. CASE Inspect \/ MkTemp \/ Secure \/ Write \/ Sync \/ Close \/ Recheck \/ Exchange
  BY <1>1 DEF Inspect, MkTemp, Secure, Write, Sync, Close, Recheck, Exchange
<1>2. CASE Abort
  BY <1>2 DEF Abort
<1>3. CASE Validate \/ Rollback
  BY <1>3 DEF Validate, Rollback
<1>4. CASE DropTemp("dropOld") \/ DropTemp("dropLink")
  BY <1>4 DEF DropTemp
<1>5. CASE NoReplace \/ Link
  BY <1>5 DEF NoReplace, Link
<1>6. CASE SyncDir
  BY <1>6 DEF SyncDir
<1>7. CASE Peer \/ Writeback \/ Crash
  BY <1>7 DEF Peer, Writeback, Crash
<1>8. CASE UNCHANGED vars
  BY <1>8 DEF vars
<1> QED BY <1>1, <1>2, <1>3, <1>4, <1>5, <1>6, <1>7, <1>8 DEF Next, Arthur

\* When Arthur returns the temporary file has lost its name, unless the call that
\* was to take the name away has failed.
THEOREM TempWithdrawn == Spec => []NoTempLeft
<1>1. Init => TInv
  <2> SUFFICES ASSUME Init PROVE TInv
      OBVIOUS
  <2> QED BY TypeInit, InitDirectory DEF TInv
<1>2. TInv /\ [Next]_vars => TInv'
  BY TInvNext
<1>3. TInv => NoTempLeft
  BY DEF TInv, TempGone, NoTempLeft
<1> QED BY <1>1, <1>2, <1>3, PTL DEF Spec

-----------------------------------------------------------------------------
(***************************************************************************)
(* AtomicOutput implements Publication: the initial states map to initial  *)
(* states, and every system call of Arthur, every step of another producer,*)
(* every write-back and a power loss map to a step of Publication or to    *)
(* none.  DInv says which inode is where.  What the mapping needs besides  *)
(* is that Arthur's file is not at the output name yet when the exchange   *)
(* puts it there.                                                          *)
(***************************************************************************)
NotYetThere == pc \in {"recheck", "exchange"} => ~Holds(dir, "final", "mine")

RInv == DInv /\ NotYetThere

-----------------------------------------------------------------------------
LEMMA RInvInit == ~ReuseInodes /\ Init => RInv
<1> SUFFICES ASSUME ~ReuseInodes, Init PROVE DInv /\ NotYetThere
    BY DEF RInv
<1>1. DInv
  BY DInvInit
<1>2. pc = "inspect"
  BY DEF Init
<1> QED BY <1>1, <1>2 DEF NotYetThere

LEMMA RInvNext == ~ReuseInodes /\ RInv /\ [Next]_vars => RInv'
<1> SUFFICES ASSUME ~ReuseInodes, RInv, [Next]_vars PROVE NotYetThere'
    BY DInvNext DEF RInv
<1>0. TypeOK /\ HiddenUntilComplete /\ NotYetThere
  BY DEF RInv, DInv, IInv
<1> USE <1>0 DEF NotYetThere, TypeOK, Names, Handle, Holds, Goto, Return, fsVars
<1>1. CASE pc' \notin {"recheck", "exchange"}
  BY <1>1
<1>2. CASE Close
  BY <1>2 DEF Close, HiddenUntilComplete
<1>3. CASE Recheck
  BY <1>3 DEF Recheck
<1>4. CASE Peer
  BY <1>4, PeerKeeps DEF Peer
<1>5. CASE Writeback
  BY <1>5, CollectKeeps DEF Writeback, Linked
<1>6. CASE UNCHANGED vars
  BY <1>6 DEF vars
<1>7. pc' \in {"recheck", "exchange"} => Close \/ Recheck \/ Peer \/ Writeback \/ UNCHANGED vars
  BY DEF Next, Arthur, Inspect, MkTemp, Secure, Write, Sync, Abort, Exchange, Validate,
         Rollback, DropTemp, NoReplace, Link, SyncDir, Crash
<1> QED BY <1>1, <1>2, <1>3, <1>4, <1>5, <1>6, <1>7

-----------------------------------------------------------------------------
LEMMA MapsInit == Init => Outside!Init
<1> SUFFICES ASSUME Init PROVE Outside!Init
    OBVIOUS
<1>1. Shown \in {"absent", "foreign"}
  BY InitDirectory DEF Init, Shown, Look, Names, Handle
<1>2. Kept = Shown
  BY DEF Init, Shown, Kept, Look
<1>3. Displaced = "none" /\ Verdict = "idle" /\ peerSteps = 0
  BY DEF Init, Displaced, Verdict
<1>4. superseded = FALSE
  BY Zenon DEF Init
<1> QED BY <1>1, <1>2, <1>3, <1>4, Zenon DEF Outside!Init

\* Every step of AtomicOutput is a step of Publication, or changes nothing it shows.
LEMMA MapsNext == ~ReuseInodes /\ RInv /\ [Next]_vars => [Outside!Next]_Outside!pubVars
<1> SUFFICES ASSUME ~ReuseInodes, RInv, [Next]_vars PROVE Outside!Next \/ UNCHANGED Outside!pubVars
    OBVIOUS
<1>0. /\ TypeOK /\ NamesHoldFiles /\ Durable /\ HiddenUntilComplete /\ HeldAtTemp
      /\ HeldAtFinal /\ InitialInodeKept /\ NotYetThere
  BY DEF RInv, DInv, IInv
<1> DEFINE Same == UNCHANGED <<superseded, peerSteps>>
<1> USE <1>0 DEF TypeOK, Names, Handle, Goto, Return, Fault, fsVars
<1>1. CASE Inspect
  <2>1. Shown' \in {Shown, "old"} /\ (Shown = "absent" => Shown' = "absent")
    BY <1>1 DEF Inspect, Shown, Look, HiddenUntilComplete, Holds
  <2>2. Kept' \in {Kept, "old"} /\ (Kept = "absent" => Kept' = "absent")
    BY <1>1 DEF Inspect, Kept, Look, HiddenUntilComplete, Holds
  <2>3. Displaced = "none" /\ Displaced' = "none" /\ Verdict = "idle" /\ Same
    BY <1>1 DEF Inspect, Displaced, Verdict
  <2>4. CASE pc' = "mkstemp"
    <3>1. Verdict' = "busy"
      BY <2>4 DEF Verdict
    <3> QED BY <2>1, <2>2, <2>3, <3>1 DEF Outside!Next, Outside!Begin
  <2>5. CASE pc' # "mkstemp"
    <3>1. Verdict' = "failed"
      BY <1>1, <2>5 DEF Inspect, Verdict
    <3>2. UNCHANGED <<Shown, Kept>>
      BY <1>1, <2>5 DEF Inspect, Shown, Kept, Look
    <3> QED BY <2>3, <3>1, <3>2 DEF Outside!Next, Outside!Fail
  <2> QED BY <2>4, <2>5
<1>2. CASE MkTemp \/ Secure \/ Write \/ Sync \/ Close \/ Recheck
  <2>1. UNCHANGED <<Shown, Kept>>
    BY <1>2 DEF MkTemp, Secure, Write, Sync, Close, Recheck, Shown, Kept, Look,
       NamesHoldFiles, HiddenUntilComplete, Holds
  <2>2. Displaced = "none" /\ Displaced' = "none" /\ Verdict = "busy" /\ Same
        /\ Verdict' \in {"busy", "failed"}
    BY <1>2 DEF MkTemp, Secure, Write, Sync, Close, Recheck, Displaced, Verdict
  <2> QED BY <2>1, <2>2 DEF Outside!Next, Outside!Fail, Outside!pubVars
<1>3. CASE Abort
  <2>1. UNCHANGED <<Shown, Kept>>
    BY <1>3, AbortKeeps DEF Abort, Shown, Kept, Look, Linked
  <2>2. Displaced = "none" /\ Displaced' = "none" /\ Verdict = "busy" /\ Same
        /\ Verdict' = "failed"
    BY <1>3 DEF Abort, Displaced, Verdict
  <2> QED BY <2>1, <2>2 DEF Outside!Next, Outside!Fail
<1>4. CASE Exchange
  <2>1. Kept' = Kept /\ Verdict = "busy" /\ Verdict' = "busy" /\ Displaced = "none" /\ Same
    BY <1>4 DEF Exchange, Kept, Look, Displaced, Verdict
  <2>2. CASE dir' = Swap(dir) /\ pc' = "validate" /\ dir["final"] # NoInode
    <3>1. Shown \notin {"whole", "absent"} /\ Shown' = "whole" /\ Displaced' = Shown
      BY <1>4, <2>2 DEF Exchange, Swap, Shown, Displaced, Look, NotYetThere, Durable, Complete,
         HeldAtTemp, Holds
    <3> QED BY <2>1, <3>1 DEF Outside!Next, Outside!Publish
  <2>3. CASE dir' = dir /\ pc' = "abort"
    <3>1. Shown' = Shown /\ Displaced' = "none"
      BY <1>4, <2>3 DEF Exchange, Shown, Look, Displaced
    <3> QED BY <2>1, <3>1 DEF Outside!pubVars
  <2> QED BY <1>4, <2>2, <2>3 DEF Exchange
<1>5. CASE Validate
  <2>1. UNCHANGED <<Shown, Kept>> /\ Verdict = "busy" /\ Verdict' = "busy" /\ Same
    BY <1>5 DEF Validate, Shown, Kept, Look, Verdict
  <2>2. CASE pc' = "dropOld"
    <3>1. Displaced = "old" /\ Displaced' = "none"
      BY <1>5, <2>2 DEF Validate, Displaced, Look, InitialInodeKept, NamesHoldFiles
    <3> QED BY <2>1, <3>1 DEF Outside!Next, Outside!Settle
  <2>3. CASE pc' = "rollback"
    <3>1. Displaced' = Displaced
      BY <1>5, <2>3 DEF Validate, Displaced, Look
    <3> QED BY <2>1, <3>1 DEF Outside!pubVars
  <2> QED BY <1>5, <2>2, <2>3 DEF Validate
<1>6. CASE Rollback
  <2>1. Kept' = Kept /\ Verdict = "busy" /\ Displaced' = "none" /\ Same
    BY <1>6 DEF Rollback, Kept, Look, Verdict, Displaced
  <2>2. CASE dir' = Swap(dir) /\ pc' = "abort"
    <3>1. Displaced # "none" /\ Shown' = Displaced /\ Verdict' = "busy"
      BY <1>6, <2>2 DEF Rollback, Swap, Shown, Displaced, Look, Verdict
    <3> QED BY <2>1, <3>1 DEF Outside!Next, Outside!Withdraw
  <2>3. CASE dir' = dir /\ pc' = "returned" /\ rc' = -1
    <3>1. Shown' = Shown /\ Verdict' = "failed"
      BY <1>6, <2>3 DEF Rollback, Shown, Look, Verdict
    <3> QED BY <2>1, <3>1 DEF Outside!Next, Outside!Fail
  <2> QED BY <1>6, <2>2, <2>3 DEF Rollback
<1>7. CASE DropTemp("dropOld") \/ DropTemp("dropLink")
  <2>1. UNCHANGED <<Shown, Kept>>
    BY <1>7, CollectKeeps DEF DropTemp, Shown, Kept, Look, Linked
  <2>2. UNCHANGED <<Displaced, Verdict>> /\ Same
    BY <1>7 DEF DropTemp, Displaced, Verdict
  <2> QED BY <2>1, <2>2 DEF Outside!pubVars
<1>8. CASE NoReplace \/ Link
  <2>1. Kept' = Kept /\ Verdict = "busy" /\ Verdict' = "busy" /\ Displaced = "none"
        /\ Displaced' = "none" /\ Same
    BY <1>8 DEF NoReplace, Link, Kept, Look, Verdict, Displaced
  <2>2. CASE dir["final"] = NoInode /\ dir'["final"] = dir["temp"]
    <3>1. Shown = "absent" /\ Shown' = "whole"
      BY <1>8, <2>2 DEF NoReplace, Link, Shown, Look, Durable, Complete, HeldAtTemp, Holds
    <3> QED BY <2>1, <3>1 DEF Outside!Next, Outside!Publish
  <2>3. CASE dir' = dir
    <3>1. Shown' = Shown
      BY <1>8, <2>3 DEF NoReplace, Link, Shown, Look
    <3> QED BY <2>1, <3>1 DEF Outside!pubVars
  <2> QED BY <1>8, <2>2, <2>3 DEF NoReplace, Link
<1>9. CASE SyncDir
  <2>1. Shown' = Shown /\ Displaced = "none" /\ Displaced' = "none" /\ Verdict = "busy" /\ Same
    BY <1>9, CollectKeeps DEF SyncDir, Shown, Look, Linked, Displaced, Verdict
  <2>2. CASE ddir' = dir /\ owner' = Collect(owner, dir, dir, fd)
    <3>1. Kept' = Shown
      BY <1>9, <2>2, CollectKeeps DEF SyncDir, Kept, Shown, Look, Linked, Durable, Complete
    <3>2. superseded \/ Shown = "whole"
      BY <1>9 DEF SyncDir, Shown, Look, HeldAtFinal, Durable, Complete, Holds
    <3>3. Verdict' \in {"ok", "failed"}
      BY <1>9 DEF SyncDir, Verdict
    <3> QED BY <2>1, <3>1, <3>2, <3>3 DEF Outside!Next, Outside!Succeed, Outside!Fail
  <2>3. CASE rc' = -1 /\ UNCHANGED <<ddir, owner>>
    <3>1. Kept' = Kept /\ Verdict' = "failed"
      BY <1>9, <2>3 DEF SyncDir, Kept, Look, Verdict
    <3> QED BY <2>1, <3>1 DEF Outside!Next, Outside!Fail
  <2> QED BY <1>9, <2>2, <2>3 DEF SyncDir
<1>10. CASE Peer
  <2>1. Shown' \in {"absent", "foreign"}
    BY <1>10, PeerKeeps DEF Shown, Look
  <2>2. Kept' = Kept
    BY <1>10, PeerKeeps DEF Peer, Kept, Look, Linked, NamesHoldFiles
  <2>3. Displaced' = Displaced
    <3>1. dir'["temp"] = dir["temp"]
      BY <1>10 DEF Peer
    <3> QED BY <1>10, <3>1, PeerKeeps DEF Peer, Displaced, Look, Linked, NamesHoldFiles
  <2>4. Verdict' = Verdict /\ Verdict # "lost" /\ peerSteps' = peerSteps + 1
    BY <1>10 DEF Peer, Verdict
  <2>5. superseded' \in {superseded, TRUE}
    BY <1>10, Zenon DEF Peer
  <2> QED BY <2>1, <2>2, <2>3, <2>4, <2>5 DEF Outside!Next, Outside!Others
<1>11. CASE Writeback
  <2>1. Shown' = Shown /\ Displaced' = Displaced
    BY <1>11, CollectKeeps DEF Writeback, Shown, Displaced, Look, Linked
  <2>2. Kept' \in {Kept, Shown}
    BY <1>11, CollectKeeps DEF Writeback, Kept, Shown, Look, Linked, HiddenUntilComplete,
       Complete, Holds
  <2>3. Verdict' = Verdict /\ Verdict # "lost" /\ Same
    BY <1>11 DEF Writeback, Verdict
  <2> QED BY <2>1, <2>2, <2>3 DEF Outside!Next, Outside!Flush, Outside!pubVars
<1>12. CASE Crash
  <2>1. Shown' = Kept /\ Kept' = Kept /\ Displaced' = "none"
    BY <1>12 DEF Crash, Shown, Kept, Displaced, Look
  <2>2. Verdict # "lost" /\ Verdict' = "lost" /\ Same
    BY <1>12 DEF Crash, Verdict
  <2> QED BY <2>1, <2>2 DEF Outside!Next, Outside!PowerLoss
<1>13. CASE UNCHANGED vars
  BY <1>13 DEF vars, Outside!pubVars, Shown, Kept, Displaced, Verdict, Look
<1> QED BY <1>1, <1>2, <1>3, <1>4, <1>5, <1>6, <1>7, <1>8, <1>9, <1>10, <1>11, <1>12, <1>13
    DEF Next, Arthur

\* The calls of Arthur's commit, in the order in which the code makes them and with
\* every failure it handles, keep the promise of Publication: the output name shows
\* nothing, a file of somebody's, or the whole output, and only the file found at
\* the start is given up for it, where freed inode numbers are not handed out again.
THEOREM ImplementsPublication ==
  ASSUME ~ReuseInodes PROVE Spec => Publishes
<1>1. Init => RInv
  BY RInvInit
<1>2. RInv /\ [Next]_vars => RInv'
  BY RInvNext
<1>3. RInv /\ [Next]_vars => [Outside!Next]_Outside!pubVars
  BY MapsNext
<1> QED BY <1>1, <1>2, <1>3, MapsInit, PTL DEF Spec, Publishes, Outside!Spec
=============================================================================
