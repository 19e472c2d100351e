# Arthur: models, checks and proofs

Arthur (`src/`) captures a core dump of a running Linux process.  It stops the
threads of the target with ptrace, writes their state and the memory of the
process into a compressed file (an *acore*), lets the target go on, and later
turns an acore into an ELF core.  This directory holds TLA+ specifications of
its concurrent parts and of its file format, the TLC runs that check them, and
proofs checked by TLAPS.

## 1. Inventory

| component | where | state | operations | status |
|---|---|---|---|---|
| output publication | `core.cc` 79-450 | temporary file, `AtomicOutputState`, the output directory | `create_atomic_output`, `open_atomic_*`, `commit_atomic_*`, `sync_output_directory`, failure paths of the callers | `AtomicOutput`, `Publication` |
| ptrace primitives | `core.cc` 864-1864 | none of their own | `pt_wait`, `pt_attach`, `pt_detach`, `trace_ownership`, `pt_int`, `pt_cont`, `pt_stop_if_running`, `pt_terminate_tracee`, `pt_call`, `pt_write`, `pt_child_skip_int3` | inside `OneShot`, `Monitor`, `RemoteCall`, `ForkCore` |
| direct snapshot (mode 1) | `core.cc` 2729-2800, 3110-3186, 4132-4310 | `_process._thrd_pid`, `_monitor_relay_signals` | `generate`, `collect_threads` (one-shot branch), `list_task_tids`, `detach_collected_threads` | `OneShot` |
| monitor mode (mode 3) | `core.cc` 2804-3108, 3188-3253, 5067-6878 | `_monitor_tids`, `_monitor_leader_exited`, `_monitor_crash_tid`, `_monitor_relay_signals`, `_monitor_recovery_failed`, locals of `monitor` | `monitor_threads`, `drain_monitor_events`, `detach_monitored_threads`, `collect_threads` (monitor branch), `forkcore_m`, `restore_target_after_fail`, `kill_crashed` | `Monitor` |
| fork snapshot (modes 0, 2) | `core.cc` 4318-5060 | `_core_pid`, saved registers, `detach_signal` | `forkcore` | `ForkCore` |
| remote calls | `core.cc` 534-860, 1172-1760 | saved registers, stack words, xstate | `get_remote_sym_address`, `pt_call` | `RemoteCall` (x86-64); the symbol search only reads the target |
| compressed stream | `lz4.cc` | two 64 KB buffers, decode ring, terminal flags | `Lz4Stream` writer and reader | `Lz4Stream`, `StreamWriter`, `Lz4Reader`, `DecodeRing` |
| acore format, decompression | `core.cc` 2341-2720, 3255-4118, 6880-7400 | position in the stream, program headers | `Write*`, `Read*`, `decompress` | `Acore` |
| ELF core writer | `core.cc` 1886-2320, `elf.h` | notes | `Note`, `GenerateNotes` | not modelled |
| /proc parsers | `proc.cc` | none | `ReadStat`, `ReadMaps`, ... | not modelled |
| command line | `arthur.cc` | options | `main` | not planned: sequential, no state |

How they interact.  `main` picks a mode and calls `generate`, `forkcore` or
`monitor`.  Each opens the output through `open_atomic_lz4`, stops the threads,
writes records through `Lz4Stream`, lets the threads go and calls
`commit_atomic_lz4`.  The target runs concurrently with all of it; the kernel
delivers signals, stops and deaths between any two system calls of Arthur.
Monitor mode also receives SIGUSR1 (take a snapshot), SIGTERM and SIGINT (let
go), which it reads with `sigwaitinfo` only.

What is hard.  There is one thread in Arthur, but three kinds of concurrency
around it: the threads of the target (they clone, exit, sleep uninterruptibly,
receive signals while Arthur enumerates and stops them), other producers of the
same output file, and the machine (power loss between two calls).  A wait status
is consumed once; a stop that is resumed before its status was read loses the
signal it reported.  Every failure path must undo what was done so far, for
every thread.  PROJECT.json lists the hazards line by line with the properties
aimed at them.

What makes the components correct:

* publication: the output name never leads to a partial file, a reported success
  survives power loss, a failure leaves the old file, nobody else's file is lost;
* a snapshot: no thread runs while it is taken and none is missing; the target
  gets each of its signals exactly once; it is let go on every path, and the
  file appears only after that;
* an injected call: whatever interrupts it, the target runs free again only with
  its own registers, stack and extended state, no copy of it is left, and the
  memory in the file shows nothing of the injection;
* monitor mode: every thread is watched, no stop goes unread, no thread stays
  frozen, job control is left alone, a crash is captured and stays a crash,
  SIGTERM ends the monitoring;
* the format: what was written is what is read, and damage is refused.

## 2. Modules

    Publication             what an output name promises (abstract)
      AtomicOutput          the publication of a file   MCAtomicOutput
        AtomicOutputProofs  its theorems; that it implements Publication
    Ptrace                  target and kernel, PTRACE_ATTACH   (external)
      OneShot               the direct snapshot         MCOneShot
        OneShotProofs       its theorems
      RemoteCall            an injected call
        ForkCore            OneShot with RemoteCall     MCForkCore
          ForkCoreProofs    its theorems
    Seize                   target and kernel, PTRACE_SEIZE    (external)
      Monitor               monitor mode                MCMonitor
        MonitorProofs       its types
          MonitorWatchProofs  snapshots are still and published late
            MonitorCrashProofs  a crash kills
              MonitorVigilProofs  what is watched, relayed, told and let go
    Lz4Stream               the calls of the stream's writer
      StreamWriter          any client of them          MCStreamWriter
      Lz4Reader             the calls of its reader
        Acore               capture and conversion      MCAcore
    DecodeRing              the reader's history ring   MCDecodeRing
      DecodeRingProofs      its theorems

A composed module EXTENDS the module of its environment: `OneShot` extends
`Ptrace`, `Monitor` extends `Seize`, `ForkCore` extends `OneShot` and `RemoteCall`.
An action is one system call of Arthur with the code around it, up to the next call whose order matters; `pc` names the
next call.  The environment moves between any two actions.  A definition whose
comment says *Mutant of X* is a plausible bug of X; it is used by no
specification, and a run shows that its property rejects it.

### Publication

What the output name promises, without inodes or system calls: it shows nothing, the
file found at the start (`old`), somebody else's or the `whole` output, and there is
no value for a part of one.  Its actions are to begin, publish, settle, withdraw,
succeed or fail, and what other producers and a power loss do.  `AtomicOutput`
implements it (`Publishes`) under the mapping `Shown` (what the output name leads
to), `Kept` (the same on disk), `Displaced` (what the exchange moved to the temporary
name, until it has been judged) and `Verdict` (what the caller has been told).

### AtomicOutput

`dir` and `ddir` map the names *final* and *temp* to inode numbers, in memory
and on disk; `owner` says whose file an inode holds (`mine`: Arthur's, `old`:
the one found at the start, `peer`: another producer's, `special`: not a regular
file).  `Inspect`..`Secure` are `create_atomic_output`; `Write` and `Abort` the
callers; `Sync` and `Close` the two flavours of `commit_atomic_lz4`/`_file`;
`Recheck`, `Exchange`, `Validate`, `Rollback`, `NoReplace`, `Link`, `SyncDir` are
`commit_atomic_path`.  `Peer` installs or removes a file at the output name,
`Writeback` flushes the directory, `Crash` loses what is not on disk.  Every
call may fail (`faults` remembers which did).

### Ptrace and OneShot

`Ptrace` is the kernel's side of PTRACE_ATTACH: the state of each task, the
SIGSTOP that the attach leaves pending (`stopPend`), the stop a thread is in
(`trap`), where each signal is (`fate`).  `OneShot` follows `generate`: choice of
the control thread (`Start`, `Pick`), `list_task_tids` entry by entry
(`ScanStep`; a readdir whose position has vanished may end early), `pt_attach`
(`Attach`, `Wait`, `Cont`, `Undo`, `Classify`, `GiveUp`), the stages of the file
(`WriteStage`, `WriteThread`), the release and the commit.  Publication is one
step here: `AtomicOutput` has it in detail.

### RemoteCall and ForkCore

`RemoteCall` is `pt_call` on x86-64: save what will be changed, install the call,
resume, wait, judge the stop, and put everything back.  `image` is what the leader
executes and what in it is not the target's: `dirty` has the parts Arthur has
overwritten (the stack slot, the red zone, the extended state, the registers).  The leader returns to address 0 and faults, forks, blocks in the call,
meets a signal, enters a syscall restart or is killed, between any two actions.
`call` has the locals of `pt_call`, `swallowed` the stop that `pt_stop_if_running`
used up, `wedged` says that the leader could not be stopped.

`ForkCore` is `forkcore`, modes 0 and 2: the threads are collected as in `OneShot`
(`Shared` are its very actions); then the choice of the way (`Plan`), the calls of
`mmap`, of the shell code that forks, and of `munmap` (`Calls`, `MmapDone`,
`WriteShell`, `ForkDone`, `Poke`, `MunmapDone`, `PutBackRegs`), the cleanup of a
failure (`Restore`), the release of the threads, the memory (`Memory`), the end of
the child (`SkipInt3`, `Terminate`) and the second attach that makes the leader reap
it (`Reattach` .. `Redetach`).  Abstractions:

* `Plan` chooses between fork and direct snapshot: maps, symbols and register state
  decide it in the code, and are only read.  How the target disposes of SIGCHLD
  (`chldAction`) is fixed there too.
* Copying the child's memory out is one step, `Memory`: nobody else can run the
  child, and the file's failures are those of `OneShot` and `AtomicOutput`.
* The target gets SIGCHLD once, for the child; its other children are not there.
* `Core` are the ordinary signals that dump core, `Foreign` those of them whose
  `si_code` is neither SI_USER nor SI_TKILL.  A SIGSEGV that somebody sends by
  hand would be taken for the end of the call; it is not among them.
* A system call the leader was in restarts or does not: nondeterministic.
* Once `forkcore` has returned, the target is no longer followed.

### Seize and Monitor

`Seize` is the kernel's side of PTRACE_SEIZE with TRACECLONE, TRACEEXIT and TRACEEXEC.
`stop[t]` is the stop a thread is in and `fresh` the threads whose wait status
has not been read; `Continue` is PTRACE_CONT or PTRACE_DETACH of a set of
threads, which discards the signal of a stop unless it passes the signal on.
`fate` follows each signal from `pending` over `trapped` to `delivered`,
`discarded` or `twice`.

An exec (`Exec`, `Die`, `ExecDone`) kills the other threads, which pass through their
exit stop if they are traced, waits until each of them has been released, and gives
the caller the tid of the leader; the old leader leaves no status.  Until the exec
event has been waited for, ptrace refuses the renamed thread, as Linux does since
5.13 (`Renamed`, `Answers`).  PTRACE_SEIZE waits for an exec under way, which holds
the same lock.  An exec takes the handlers away; therefore a run with exec has no
`Caught` signals.

| code | actions |
|---|---|
| `monitor_threads` | `SeizeList`, `SeizeEach`, `SeizeEnd`, `RollbackNext`, `RollbackWait` |
| `drain_monitor_events` | `DrainStart`, `Poll`, `Handle*`, `PassEnd` |
| main loop of `monitor` | `Dispatch`, `AwaitSignal` |
| `detach_monitored_threads` | `DetachPoll`, `DetachRegs`, `DetachWait`, `DetachEnd` |
| `collect_threads` | `CollectStart`, `CollectList`, `CollectPoll`, `CollectRegs`, `CollectWait`, `CollectConfirm`, `Preserve` |
| `forkcore_m` | `DumpStart`, `Abandon`, `Meta`, `Loads`, `Inject`, `InjectInVain`, `InjectDeath`, `ResumeAll`, `DumpChild`, `Late`, `Finish`, `Settle`, `SettleKilled`, `Commit` |
| `restore_target_after_fail` | `Restore` |
| crash path of `monitor` | `Core`, `CoreLoads`, `KillCrashed`, `CoreCommit` |

Abstractions, and why they hide nothing the properties look at:

* `list_task_tids` and the loops that PTRACE_CONT a set of threads are one step.
  `OneShot` has the readdir in steps; between two PTRACE_CONT of such a loop the
  threads already resumed may run, which they may also do right after the loop.
  The detach loop of `kill_crashed` is one step too, but its race is kept: any
  threads after the first one detached at a signal may be overtaken by the death
  it starts.
* SIGUSR1 and SIGTERM arrive at `pc = "wait"` only: nothing reads them elsewhere.
* The three injected calls (`mmap`, `fork`, `munmap`) are one action, `Inject`:
  they all end in success, in a restore after a failure, in an ordinary signal
  that is relayed, or in a fatal signal that is handed to the crash path.  A leader that
  dies is found dead at once by the first of the calls (`InjectDeath`: whoever can read its
  status returns the death) or only by the main loop, after a restore (`InjectInVain`).
* The choice between direct and forked snapshot depends on maps and symbols of
  the target: it is nondeterministic (`Meta`).  A thread that is not stopped when its
  registers are read (2631) fails the snapshot, and the core of a crash; one that
  dies before its memory is opened (3622-3629) fails `Loads` and `CoreLoads`.
* The fallback of the crash path that kills the process when the crashed thread has
  vanished (6766) is not there.
* A core-dumping signal is in `Fatal` when its disposition is the default and in
  `Caught` when it has a handler or is ignored; reading the disposition does not
  fail.
* Once a thread is resumed out of a group-stop with PTRACE_CONT the whole group
  is taken to run.  The kernel leaves the other threads stopped; for the property
  at stake, that only the user ends a group-stop, the first thread decides.
* Once monitor has returned, the target is no longer followed.

### Lz4Stream and StreamWriter

A stream object is a record: `file` (what has been written), `err` (the error
indicator of the FILE), `open`, `buf` (the current block), `slot` and `dict` (which
of the two buffers is filled and which the encoder refers to), `index`, `type`,
`sums`.  Each public call is an operator from a stream to the set of streams it may
leave behind, with its return value in `rc`, because any `fwrite` may come back
short, `fflush`, `fsync` and `fclose` may fail and so may the codec.  `Then` is the
sequence of two calls of which the first may fail.  The file is a sequence of
cells, one for each `fwrite`.  `StreamWriter` is any client of these calls, also one
that goes on after a failure or opens the object again; its bytes are numbered, so
that a lost, repeated, moved or relabelled byte is seen.

Compression is the identity on the bytes of a block.  That is sound only if the
reader's decoder finds the history the encoder referred to; this is what
`DecodeRing` is about, and `DictionaryIntact` on the side of the encoder.

### DecodeRing

`ring`, `offset` are `_decode_ring`, `_decode_offset`; `ext` is what the library
remembers of the stretch before the last wrap.  A cell holds the number of the byte
it contains.  `Decode(n, s)` decodes a block of n bytes and overwrites s cells after
it, as the library may, within the BLOCK_SIZE bytes it is offered.  `Source` is the
cell from which the library copies for a match.

### Lz4Reader and Acore

`Lz4Reader` has the calls of the reader in the same style.  A read that does not
start where a cell starts is out of step with the file; it finds nothing it accepts.
The model does not compute what such bytes would decode to: CRC32 and the tests of
length and type are taken to recognise them.  The checksum covers the header and
the *decoded* bytes (`block_checksum`), so a block whose history is gone fails it in
the code; in the model such a block is taken to decode as it was, which lets
through more than the code does.

`Acore` follows `generate` and then `decompress`: the actions of `Writer` are the
calls of `generate` in their order, `OpenFile` is the damage that may have been done
to the published file, those of `Reader` are `VerifyFileHeader`, `ReadMeta` (four
actions), the part of `decompress` before the memory is read (`Prepare`),
`ReadLoads`, `ReadElfHeader` (two actions), the comparison with the maps
(`CheckLayout`) and the tail.  A byte stands for a field.  `Damaged` is every
truncation, at a field or inside one, every stretch of fields removed, every
stretch of up to `MaxRepeat` fields repeated, fields appended, and every field
altered: its type, flag, checksum, size, count, version or architecture.  Damage
is in one place; two blocks that change places are not covered.

## 3. Runs

Bounds: every run has two threads, which is
the least at which an enumeration, a stop or a detach can be overtaken by *another*
thread: at the start, or, in `monitor_dump`, by a clone that may come at any time (in
`fork_foreign_signal` one is enough).  Other runs about clones allow one or two new tasks.  One signal of each kind suffices, because
the properties speak of one signal at a time and signals do not interact except
SIGSTOP with SIGCONT, which are both there where job control is asked about; two
fatal signals are used where the second crash matters.  `MaxRounds` replaces the
64 of the source by 2 to 4: one round more than the number of new threads, so
that both convergence and giving up happen.  `MaxExits`, `MaxSleeps`,
`MaxExecs`, `MaxDumps`, `MaxPeerSteps` bound how often the environment acts.

| run | states | question |
|---|---|---|
| `atomic_output` | 10.8 k | is a file published whole, durably, and without loss of others' files, whatever fails and whenever power is lost; does the protocol implement `Publication` |
| `one_shot` | 1.1 M | is the direct snapshot still, complete, and returned to the target with its signals |
| `fork_core` | 1.3 M | modes 0 and 2: is the target given back as it was, with its signals, whatever meets the injected calls; is the snapshot clean, the child gone; does the capture end |
| `fork_foreign_signal` | - | and with a core-dump signal that the kernel sends (it is dropped, section 4) |
| `monitor` | 1.9 M | watching alone: nobody forgotten, every signal relayed, what Arthur knows of job control is true, nothing left traced; processes split off, exits, a kill, a fatal signal |
| `monitor_threads` | 1.0 M | is every thread watched while threads clone, exit, sleep and call exec; two crashes, a full disk |
| `monitor_dump` | 5.6 M | a SIGUSR1 snapshot of a thread that may clone a second one, with a group-stop, a kill, an exit, a fatal signal, a handled core-dumping one and a thread that may not wake: it is still, is published after the release, and keeps the signals and the group-stop it has read |
| `monitor_live` | 504 k | a snapshot leaves no thread stopped however it fails, stops are read, crashes end the run, SIGTERM is obeyed, with a snapshot on a disk that may be full, an exec and a thread that may not wake |
| `stream_writer` | 1.3 M | whatever calls a client makes, and whatever fails: is every byte in the file once, in order, under its type, and is an error remembered |
| `decode_ring` | 19 k | with a decoder whose overrun exceeds by two bytes what the ring's margin absorbs: does every match find its bytes, but for the last two of the window |
| `decode_ring_slop` | - | and does one at the far end of the window, with an overrun a byte too large (it does not, section 4) |
| `acore` | 1.4 M | is what is converted exactly what was captured, is an undamaged file refused only for an I/O error, and is damage always refused |

The passing runs of monitor mode are divided so that each property is checked
wherever it holds; section 4 says under which constants it does not.
Three of them have a weaker form that snapshots do keep: `ReadSignalsRelayed` and
`ReadGroupStopKept` are about what Arthur has read, and `SnapshotForgetsNobody` is what is left
of `NobodyForgotten`.  The last is checked for two threads that create no others: one created
during a snapshot may be let go unwatched.

The stream runs scale 64 KB down to blocks of three bytes, which is enough for data
that fits, that fits an empty block only, and that takes two blocks, each written
with and without room; five calls are one more than any hazard needs (fill, fail,
close, open, write).  The ring has blocks of 1 to 5 bytes, a window of 6, so that
the history spans several blocks, and 36 bytes, which wrap it three times and more;
the margin of 14 bytes is scaled to 0 and the overrun of 31 to 4, more than the
margin absorbs, as in the library; the proof is for all values.  `acore` has
a process of two threads and three regions, one of them not captured, with a maps
file, a region and program headers of two blocks each, and one of one thread.

`fork_core` has no uninterruptible sleep and no SIGSTOP: what they do to the attach
and to the collection is what `one_shot` asks.  What it adds is a signal, the SIGCHLD
of the child, a kill and a call that blocks, at every point of the injection.  With
`MaxSleeps = 1` its properties, `Terminates` among them, also hold of one thread (0.6 M
states), and of two without the kill (3.2 M), which takes longer than a run here should.

Deadlock checking is off, except in `acore`, whose end is a stuttering step: Arthur
returns, the target dies, the machine
stops.  That Arthur itself never gets stuck is what the liveness properties say.

Fairness.  `WF(Arthur)`: Arthur is one sequential program whose calls all
return; `pt_wait` polls with WNOHANG and a deadline of ten seconds, so no wait
is unbounded, except `sigwaitinfo`, which is enabled only when a signal is
there.  `WF(React(t))`: a thread that can run handles what is pending for it.
In `Seize` that
includes a thread dying of an exec, and the end of an exec that waits for nobody.
In `ForkCore` the injected code runs on while nothing stops it, the child acts
(`WF` of `Injected`), and the SIGSTOP of `pt_stop_if_running` arrives (`HaltStop`); an
injected call that blocks may block for ever.  Nothing is assumed of a thread in
uninterruptible sleep (it need not wake), nor that anybody sends a signal, exits,
clones or calls exec.  `Terminates` of `fork_core` covers the direct snapshot too, which
is one of its plans.

## 4. What the runs found

`decode_ring_slop` shows a comment of the source contradicted.  The decoder of the
LZ4 library the build links (1.9.3) copies in pieces of 32 bytes and may write up to
31 bytes past the last byte of a block, inside the BLOCK_SIZE bytes it was offered.
The ring has 14 bytes more than 64 KB and one block, which absorbs an overrun of 16
bytes at most; by the theorem of section 5, all matches up to 65520 bytes back are
safe from the other 15 bytes, and only those farther back are at risk.  With a short block right after a wrap, the 31
bytes can hit the oldest part of the 64 KB the next match may refer to.  A program linked
against `src/lib/liblz4-x64.a` with blocks of 15 to 29, 65536 and 65536 bytes and a
match at distance 65535 decodes wrongly in a ring of this size.  The stream of
`Write` and `PutFile` can have such block sizes; those of a real capture rarely
line up so.  With checksums (version 4 and later) the file is refused, so a good
acore could not be converted; without them the core would be wrong.

`fork_foreign_signal` shows a second one.  When a core-dump signal other than SIGSEGV
stops the leader during an injected call, `pt_call` fails (`core.cc` 1601-1607) without
telling its caller the signal.  The caller asks `probe_crash_stop`, which accepts
only what a process sent (`si_code` SI_USER or SI_TKILL), and so a SIGQUIT from the
terminal or a SIGXCPU is detached with signal 0: it is lost.  The comment at 1613-1615
demands that a stop unrelated to the call be relayed.

Exec in monitor mode (`MaxExecs = 1`) has three behaviours that no passing run has, or
that its property excepts:

* `NobodyForgotten`, with a task that can still be created: a thread stops at its
  clone event, and before Arthur reads that a sibling's exec kills it; the clone
  event is replaced by the exit event (`core.cc` 6349; 6326-6327 says that the wait
  statuses retain their event codes).  Arthur traces the new thread but does not know
  it; it stops at its own exit, and the exec waits for it until Arthur ends.  A small
  ptrace program shows the same on Linux 6.18: the caller stays in state D.
* `NothingLeftTraced`: when the leader has exited, `detach_monitored_threads` passes
  over it (6230-6238); an exec of a worker at that moment gives its tid to a live
  thread that stays traced until Arthur ends.
* `StopsAreRead`: while Arthur seizes the threads one
  by one, an exec waits for a thread already seized to leave its exit stop, and the next
  PTRACE_SEIZE (2832) waits for the exec.  Also seen on Linux 6.18.  `StopsAreRead` excepts
  this by name (`Entangled`), and `monitor_live` shows that nothing else with an exec of
  one of two threads keeps Arthur from reading.

`CrashIsFatal` speaks of runs in which exec was not used: a crash of one thread may be
overtaken by the exec of another, and then the new program lives on.

Four more comments are contradicted by behaviours that TLC finds under constants
no passing run uses.  They are left out of the runs, and can be seen by putting the
named property into a cfg:

* `NotLeftStopped` of `OneShot` (`Ordinary = {s1}`): a signal that overtakes the
  SIGSTOP of PTRACE_ATTACH leaves that SIGSTOP pending, and the target stops after a
  capture that succeeded (`core.cc` 1818; 943 says the detach resumes it).
* `SignalsRelayed` of `Monitor` with `MaxDumps = 1`: a stop that arrives between
  `waitpid` and `PTRACE_GETREGS` is counted as stopped without being read; its
  signal is dropped (`core.cc` 3023; 6212 says GETREGS proves no such thing).
* `NobodyForgotten` with `MaxDumps = 1`, `DiskFull = TRUE` and a fatal signal: a
  failing commit forgets the crash seen after the dump; the leader stays in a
  consumed stop, and no event of it will come (`core.cc` 6091).
* `LeaderExitKnown` with `MaxDumps = 1` and `MaxExits = 1`: a leader's exit that a
  snapshot consumes is not remembered (`core.cc` 5844).

Exceptions that the passing properties state, because the code has them:

* `LossOnlyInRollback`: a file another producer installs between the two exchanges
  of a rollback is unlinked.  `Publishes` is checked with `ReuseInodes = FALSE`; with
  `TRUE` an inode number that is handed out again defeats the identity check, and
  TLC finds it violated.
* `InterceptedRelayed`: a stop that `pt_stop_if_running` consumes when a call has
  passed its deadline loses its signal (`swallowed`), or, in `NoChildLeft`, the event of
  the fork; a leader that cannot be stopped at all (`wedged`) is out of Arthur's hands.
  The SIGSTOP by which Arthur stops it can be left pending, as can that of the second
  attach, and then stop the target.  When a call fails, the page mapped into the
  target can stay mapped; `TargetRestored` is about what the target executes, not
  about that page.
* `SignalsRelayed` of `OneShot`: the cleanup of a timed-out attach may drop a
  signal that stopped the thread after the last poll.
* `NothingLeftTraced` of `Monitor` speaks of runs that began to watch: the rollback
  of a failed start forgets threads that were cloned meanwhile.  It excepts a
  thread that would not stop for its detach (`history.gaveUp`) and a process whose parent was
  killed before its clone event was read.  Like
  `JobControlKnown` it is checked without snapshots; with `MaxDumps = 1` TLC finds both
  violated, since a snapshot consumes stops of its own (5831-6080).
* `JobControlKnown` speaks of a process that has settled: every thread has answered the
  group-stop or sleeps uninterruptibly, and Arthur has read all there is.  A
  thread that has not stopped yet may be the one whose stop tells Arthur.  An exec may
  end the thread that would have told of the end.
* `SnapshotIsStill` of `Monitor` excepts the thread that the clone event of
  `_monitor_crash_tid` has created.  That member is set when a collection meets a
  fatal stop (2958, 3000) and never reset: after a snapshot that failed, later
  collections count the thread as held at once.  If it runs its registers fail the
  snapshot (2631), a group-stop is no longer put back (3078), a crash of another
  thread is written under the wrong tid, and a thread that it creates between the
  confirmation and its registers is missing from the file.
* `EveryThreadWatched` and `LeaderExitKnown` except runs in which a thread vanished before its seize
  (`history.vanished`): `monitor_threads` stops when a round has seized nobody
  (2811-2860), although the vanished thread may have cloned another.
* `NobodyForgotten` excepts a process whose parent was killed before its clone event was
  read (`Unannounced`): it stays stopped at its birth, traced, until Arthur ends.
* `EveryThreadWatched` is checked, and `GroupStopKept` proved, without snapshots, and
  `EveryThreadWatched` excepts the thread whose exec event is unread.  With
  `MaxDumps = 1` TLC finds both violated: a thread the leader creates while the
  snapshot is written is detached unwatched, and an unread group-stop is resumed.
* `ReadGroupStopKept`, which is checked with a snapshot, excepts the two ways in which a
  snapshot does end a group-stop: a stop that GETREGS has counted and waitpid has
  not told (3023), and a collection that has read the group-stop of one thread and gives
  up on another, which sleeps: only a collection that succeeds puts the threads back
  into it (3078), and `restore_target_after_fail` resumes them (3191).
* `SnapshotForgetsNobody` excepts the leader at the fatal signal that a failing commit
  has forgotten (6091).
* `ReadSignalsRelayed` excepts a fatal signal that a collection has read before it
  gives up on another thread, one in uninterruptible sleep: the record of the stop goes to
  `_monitor_crash_tid` only (2958, 3000), and `restore_target_after_fail` relays only
  what is in `_monitor_relay_signals` (3191), so the crashed thread is resumed
  without its signal.  It is checked, and proved, with `DiskFull = FALSE`: with `TRUE`,
  TLC finds that a commit that fails forgets the fatal signal seen after the dump (6091); the
  leader stays in that stop, and the next snapshot or the detach of SIGTERM resumes it
  without the signal.

Two more behaviours of the code that no property excludes: an attach candidate
that timed out while `generate` looked for a control thread is attached again by
`collect_threads`, which fails; and a crash may end without a core, when another
thread stops at a signal of its own while the crash is collected or when the
first detach with the fatal signal kills the threads still to be detached.

## 5. Proofs

`AtomicOutputProofs` proves, for any set of inodes and any number of steps of other producers:

| theorem | statement |
|---|---|
| `TypeCorrect` | `Spec => []TypeOK` |
| `NeverTorn` | `Spec => []FinalNeverTorn` |
| `Durability` | `Spec => []SuccessIsDurable` |
| `DropsOnlyTheInitial` | `~ReuseInodes => (Spec => []DisplacedWasInitial)` |
| `LossOnlyThere` | `~ReuseInodes => (Spec => LossOnlyInRollback)` |
| `TempWithdrawn` | `Spec => []NoTempLeft` |
| `ImplementsPublication` | `~ReuseInodes => (Spec => Publishes)` |

Assumptions: `NoInode` is not an inode, the bound is a natural number.

`TypeOK` is inductive.  `FinalNeverTorn` is not: a rename preserves it only if
the bytes were complete in memory *and* on disk before it.  The invariant `IInv`
adds that names never point at inodes in the allocator (`NamesHoldFiles`), what
is known of the bytes at each step (`Durable`: nothing leaves the close for the
commit unless fsync and close succeeded) and where Arthur's file is.  `DInv` adds
that the inode remembered at the start still holds the old file, which needs
that freed numbers are not handed out again (section 4 says what happens
otherwise).  The safety of each action is a step of its own; the
environment (`Peer`, `Writeback`, `Crash`) is covered like Arthur's calls.
`TempWithdrawn` follows where the temporary name is along the failure paths.

The refinement needs `RInv`: `DInv`, and that Arthur's file is not at the output name
before the exchange puts it there (`NotYetThere`).  There is one lemma per group of
actions; each action maps to the action of `Publication` the code is meant to
perform or to a stutter, and each failure to `Fail`, which may change nothing.

`OneShotProofs` proves, for any number of threads, rounds, signals and sleeps:

| theorem | statement |
|---|---|
| `TypeCorrect` | `Spec => []TypeOK` |
| `ReleasedFirst` | `Spec => []PublishedMeansReleased` |
| `NobodyLeftTraced` | `Spec => []NothingLeftTraced` |
| `SnapshotStandsStill` | `Spec => []SnapshotIsStill` |
| `SignalsAreRelayed` | `Spec => SignalsRelayed` |
| `StopsAreTheUsers` | `Spec => []StopsAreOurs` |

None of the five after `TypeCorrect` is inductive.  `TracedInv` and `ReleaseInv` say who
is still traced at each step, so that nobody is left when the work list is empty.
`StillInv` is the argument of `collect_threads` that the source only sketches: a pass over
`/proc/<pid>/task` that shows nothing new is complete, because every thread known
so far is held and so cannot vanish from under the readdir, and a thread created
meanwhile has a higher number and comes after the readdir's place.  `SignalInv` says
that each thread still to be let go has the signal that stopped it beside it, and
that no signal stops two threads.  `StopInv` says where the SIGSTOP of an attach can
still be.

`DecodeRingProofs` proves, for every block size, window, margin and overrun:

| theorem | statement |
|---|---|
| `RingTypeCorrect` | `RingSpec => []RingTypeOK` |
| `WindowIsKept` | `RingSpec => []NearMatchesResolve` |

The theorem has no hypothesis on the overrun `Slop`.  What of it exceeds `Margin + 2`,
`Excess`, shortens the window in which matches are promised to resolve: for the linked
library, whose margin is 14 and whose overrun goes up to 31, from 65535 to 65520 bytes.
`NearMatchesResolve` speaks of the next block and is not inductive.  The invariant says
where the decoded bytes are: the stretch before `offset` holds the last `offset`
bytes without a gap, the external dictionary holds the bytes before that from where
the current stretch ends plus the overrun, and together they are at least a window
(the dictionary is large enough because a wrap happens only when fewer than
BlockSize bytes are left).  Two lemmas carry the arithmetic: a wrap is late
(`WrapIsLate`), and a decode keeps what the window needs (`DecodeKeeps`).  The
bound is exact: `decode_ring_slop` finds a match one byte farther that does not resolve.

`ForkCoreProofs` proves, for any number of threads, rounds, signals and sleeps:

| theorem | statement |
|---|---|
| `ForkTypeCorrect` | `ForkSpec => []ForkTypeOK` |
| `GivenBackAsItWas` | `ForkSpec => []TargetRestored` |
| `CopyEnded` | `ForkSpec => []NoChildLeft` |
| `FileIsTheTarget` | `ForkSpec => []SnapshotUnpolluted` |
| `SignalsComeThrough` | `ForkSpec => [][FatesKept]_forkVars` |
| `InterceptedArrive` | `Foreign = {} => (ForkSpec => InterceptedRelayed)` |

Assumptions: those of the modules, among them that the names of the stops Arthur
distinguishes are not names of signals (`ChildAssumption`) and that SIGCHLD dumps no core.
The target may be killed, create threads, receive signals, block in the injected call or restart
a system call between any two steps.

* `TargetRestored` looks at the end of a call only.  `ImageInv` follows the call from
  its first write: what the leader executes at each step of `pt_call` (`Executing`), that
  everything overwritten is in what the call saved, the registers in what `forkcore` saved
  (`Restoring`), and that the saved copy is complete before anything is written (`Saved`).
  A leader that is neither dead nor out of reach is held, or is just waited for (`Held`).
* `NoChildLeft` needs, of every step at which the copy is alive, the place from which Arthur knows of it
  (`Known`): the fork event is in the leader's stop, in what `wait` returned, in
  `call.forked`, or in the control flow behind `ForkDone`.  The two places at which it
  can be lost are the exceptions the property names.  No other call can see the event (`Event`).
* `SnapshotUnpolluted` is about the moment of the fork: `Unspoiled` (the red zone is
  back before the shell code runs), `OthersStill` (no other thread has run since the
  collection), `Copied` (what is left of the injection in the copy is the one word that
  `Poke` puts back).  For the collection itself it uses the invariant of the direct snapshot:
  until the plan is made, each step of `ForkSpec` is a step of `Spec` as far as the
  threads go, so `StillInv` is preserved by the lemma of `OneShotProofs` (`Collects`).
* `InterceptedRelayed` looks at one step and says nothing of where the signal is
  meanwhile.  `RelayInv` does: from the stop of the leader at the collection to its last
  detach the signal it stopped at is what the call returns (`call.sig`), what the probe for a crash
  will find in the leader, what `detachSig` or `relay` holds for the next detach, or
  one that `forkcore` may drop (`Forfeit`).  `Cleared` adds that none of these places holds
  a signal of an earlier stop.  `SignalsComeThrough` states the result with `Foreign`
  (crash signals whose `si_code` is not of a process) among what may be lost;
  `InterceptedArrive` is the property itself, without them.  The hypothesis is
  exact: `fork_foreign_signal` violates the property with one such signal.  Until the
  plan is made the argument is `SignalInv` of the direct snapshot.

The modules about monitor mode prove, for any number of threads, signals, exits,
snapshots and rounds:

| theorem | statement |
|---|---|
| `MonitorProofs.TypeInvariant`, `TypeCorrect` | `Spec => []TypeInv`, `Spec => []TypeOK` |
| `MonitorWatchProofs.WatchInvariant` | `Spec => []WatchedInv` |
| `MonitorWatchProofs.MemoryStandsStill` | `Spec => [](NoExecYet => SnapshotIsStill)` |
| `MonitorWatchProofs.PublishedLate` | `Spec => [](NoExecYet => PublishedAfterRelease)` |
| `MonitorCrashProofs.CrashInvariant` | `Spec => []CrashWatched` |
| `MonitorCrashProofs.CrashKills` | `Spec => []CrashIsFatal` |
| `MonitorVigilProofs.HandledIsTrue` | `MaxDumps = 0 => (Spec => []WatchedTrue)` |
| `MonitorVigilProofs.GroupStopLasts` | `MaxDumps = 0 => (Spec => GroupStopKept)` |
| `MonitorVigilProofs.WatchIsComplete` | `MaxDumps = 0 => (Spec => []EveryThreadWatched)` |
| `MonitorVigilProofs.LeaderExitIsKnown` | `MaxDumps = 0 => (Spec => []LeaderExitKnown)` |
| `MonitorVigilProofs.SignalsAreRelayed` | `MaxDumps = 0 => (Spec => SignalsRelayed)` |
| `MonitorVigilProofs.NobodyIsForgotten` | `MaxDumps = 0 => (Spec => [](NoExecYet => NobodyForgotten))` |
| `MonitorVigilProofs.NothingStaysTraced` | `MaxDumps = 0 => (Spec => [](NoExecYet => NothingLeftTraced))` |
| `MonitorVigilProofs.JobControlIsKnown` | `MaxDumps = 0 => (Spec => [](NoExecYet => JobControlKnown))` |
| `MonitorVigilProofs.SignalsReadAreRelayed` | `~DiskFull => (Spec /\ []NoExecYet => ReadSignalsRelayed)` |

These are the safety properties that the runs check of `Monitor`, but for two about snapshots.
`NoExecYet` says that no thread has called exec so far; the target may be of any size and may
clone, exit, sleep, stop and be killed at any point.  (`CrashIsFatal` has that hypothesis in
its statement.)  Exec is included in `HandledIsTrue`, `GroupStopLasts`, `WatchIsComplete`,
`LeaderExitIsKnown` and `SignalsAreRelayed`.  The
hypotheses mark where the code keeps the property: with a snapshot TLC finds each of the
seven properties under `MaxDumps = 0` violated, after an exec the three under `NoExecYet`, and
with a full disk `ReadSignalsRelayed` (section 4).  The one that is not known to be needed is `NoExecYet`
in `SignalsReadAreRelayed`: TLC finds no violation by an exec of one of two threads; the proof
rests on `WatchInv`, which has it.  The
assumptions are those of the modules; that the words Arthur uses for results are not
names of fatal signals is one of them (`MonitorAssumption`).

* Types.  `KernelOK` is the kernel's part: only a traced thread is in a ptrace-stop, only
  a stop can be unread, a clone event names a new task.  The wait status
  Arthur has taken and works on stays true until it resumes the thread: a frozen
  thread leaves its stop by a kill only.
* `SnapshotIsStill` is not inductive.  `WatchInv` follows the threads Arthur knows: each
  is traced until it is gone (`Members`); what it has read of a stop still holds
  (`Reading`); each thread a collection counts as held is stopped, has exited, or is
  `_monitor_crash_tid` (`HeldStill`); once a round has found nobody new, all live threads are in the list
  and stay stopped while Arthur works on it (`Confirmed`, `Still`), because a thread that
  stands still clones nobody.  It was this proof that showed the
  exception about `_monitor_crash_tid` of section 4.
* `CrashIsFatal` needs that the fatal signal is never dropped between the moment Arthur
  reads it and its delivery: at the crash, in what a snapshot returned, in a
  collection, in its result (`Doomed`).  That in turn needs that no other list of Arthur's
  resumes the thread standing at it: `Newborns` (of a clone event still to be handled the new
  thread is where its birth left it, and a list that contains it contains its
  parent), `LeaderKnown` and `Pristine`.
* Without snapshots (`NoSnapshots`) an exec can be allowed, because of what is kept
  of it: `Ranked` orders the tasks by their birth and says that only an exec
  puts one thread in the place of another.  From it follows `ReadTrue`: what Arthur
  handles is the stop at which the thread stands.  `GroupStopKept` is a
  consequence: a thread that is resumed for an event or a signal stands in no group-stop.
  No run checks it: in `monitor` the bugs that break it also break `JobControlKnown`, and
  `monitor_dump` checks the form that snapshots keep.
* `EveryThreadWatched` speaks of the moment Arthur goes to sleep.  `Watch` follows the
  rounds of `monitor_threads` and the passes of `drain_monitor_events`: who is
  traced is in `monitored_tids`, is announced by a clone event in the stop of its parent, or
  ends an exec (`Roster`); a new thread stays where it was born until that
  event is handled, so it announces nobody itself (`Births`); a round that seized nobody new
  has left out nobody that a listed thread could still create (`Complete`).
  `Lost` is the pass in which an exec has taken the leader's tid and Arthur does not know yet.
* `SignalsRelayed` needs, of each thread that stands at a signal, that Arthur has yet to
  read it, is handling it, or keeps it for the crash (`Sworn`), and that no two threads
  stand at the same one (`TrueFates`).  New threads, and members that an exec has
  renamed, are held at no signal (`NewHeld`, `HeldMembers`).
* `NobodyForgotten` and `NothingLeftTraced` share `Rest`.  `AllTold` says that a stop that
  Arthur has read is one that it is handling; `Awake` is the argument about SIGCHLD: a
  stop that is not announced by a pending SIGCHLD is one that the pass under way is
  still to reach, or that an event of such a thread will put into the list.
  `Accounted(S)` says who is left when the tasks `S` have been let go: nobody, but the
  child of a clone event in `S`, an orphan or a thread given up.  `todo`
  is such an `S` through the rollback, the detach and the release of a crash.
* `JobControlKnown` compares two flags.  `Ends` names for a set flag a thread that will tell
  when the group-stop is over, `Behind` for a clear one a thread that will tell of it: one
  that stands at the stop unread, or has yet to stop and will.  Each call of
  Arthur that resumes a thread has to leave such a teller.  This proof showed that the premise of
  the property has to cover every thread, and not the listening ones only; with two threads that
  makes no difference.
* `ReadSignalsRelayed` has snapshots.  `RelayInv` says of every signal that waitpid has
  told Arthur of what it means to do about it (`Tended`): the stop is being handled, `coll.relay` has
  it, it is the fatal one of a collection, of an injected call or of what a snapshot
  returned, or it is known as the crash.  `RelaysStand` is the converse: what a collection means
  to relay is what its threads stand at, so nothing is delivered twice.
  The exceptions of section 4 came out of the two cases that could not be proved.

Only model-checked:

* `NothingLost`, `RecordsWhole`, `DictionaryIntact`, `ErrorsStick`, `RoundTrip` and `Integrity`.  What they
  say is what the loops of `Lz4Stream` compute, which are recursive operators and folds over
  sequences: a proof needs induction over data, which none of the provers
  can do, and recursive operators keep theorems out of these modules.
* All liveness: `Terminates` of both snapshots, `StopsAreRead`, `CrashEnds` and `TermObeyed`.
  The provers do not handle ENABLED, on which fairness rests.
* `ReadGroupStopKept` and `SnapshotForgetsNobody`.  Their invariants would follow each group-stop
  and each stopped thread through a collection and its failures, as `RelayInv` does
  each signal.

Neither proved nor checked by a run: `SnapshotIsStill`, `PublishedAfterRelease` and `ReadSignalsRelayed`
after an exec (`monitor_dump` has `MaxExecs = 0`).

## 6. Not modelled, and why

* Errors of GETEVENTMSG, but for the one on a leader that was killed at its clone event
  after the dump (`SettleKilled`), and of reads of `/proc/<pid>/status`: they end the
  monitoring through the same detach path as the errors that are modelled.
* `forkcore_m` with the kernel's core (`sys_core`), the choice of the name of a
  snapshot, and the warnings of mode 2 about limits and core_pattern.
* `get_remote_sym_address`, the maps and the parsers of `/proc/<pid>`: they read, and
  change no state; what they may find is a nondeterministic choice where control
  depends on it.  aarch64: other registers and no red zone, the same protocol.
* The notes of the ELF core: their contents follow from the parsed metadata;
  `OutputFails` is all of the core's writing that the control of `decompress` depends on.
* Acore files of two damaged places, blocks that change places, and bytes out of step
  that happen to pass a checksum.
* `test_compress` and `test_decompress`, which use the same calls of the stream.
* `arthur.cc`, `inc.h`, `elf_defs.h`: no state; layouts only.  The LZ4 library is
  third-party.

## 7. Plan

Done: `AtomicOutput`, `Publication` and their proofs; `Ptrace`, `OneShot` and its
proofs; `Seize`, `Monitor`, with exec, and the proofs of all its safety properties but two;
`RemoteCall`, `ForkCore` and its proofs; `Lz4Stream`, `StreamWriter`, `Lz4Reader`;
`DecodeRing` and its proofs; `Acore`.  Next:

1. `WatchInv` of `Monitor` after an exec, with what `Ranked` says of it, so that the
   properties of snapshots lose the hypothesis `NoExecYet` where the code allows it.
2. Proofs of `ReadGroupStopKept` and `SnapshotForgetsNobody`, and what else snapshots keep
   of the properties proved for `MaxDumps = 0`.
3. An abstract stream of bytes that the writer implements, in a form without
   recursion that can be proved about.
4. `forkcore_m` over `RemoteCall`, in place of the one step `Inject`.
5. Versions 1 to 5 of the format as written by older programs, and the output core
   of a conversion composed with `AtomicOutput`.
6. Operators for the parsers and size checks whose boundaries matter.
