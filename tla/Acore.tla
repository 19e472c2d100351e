------------------------------- MODULE Acore --------------------------------
(***************************************************************************)
(* The acore format: what the capture (generate, and in the same order     *)
(* forkcore and the monitor) writes through Lz4Stream, and what            *)
(* Coredump::decompress (src/src/core.cc) accepts and makes of it.         *)
(*                                                                         *)
(* The target is chosen at the start.  It is captured with any write       *)
(* failing; a published file may then be damaged in one place; then it is  *)
(* converted with any read or write failing.  A byte stands for a field of *)
(* the code: the name of the field and the two numbers the reader compares.*)
(***************************************************************************)
EXTENDS Lz4Reader

CONSTANTS MaxThreads,   \* the most threads a process has
          Targets,      \* processes: threads, the sizes of the memory regions,
                        \* whether a crash is being dumped
          CmdlineLen,   \* bytes of the command line
          MaxRepeat     \* bound: the fields of a stretch that is repeated

ASSUME AcoreAssumption ==
  /\ MaxThreads \in Nat /\ CmdlineLen \in Nat /\ MaxRepeat \in Nat
  /\ \A t \in Targets : /\ t.threads \in 1..MaxThreads /\ t.crash \in 0..1
                         /\ t.layout \in Seq(Nat)

VARIABLES target,       \* the captured process
          w, r,         \* the stream written, and the stream read
          pc, n,        \* the next step, and which file, thread or region it is at
          final,        \* the published file
          core          \* what has been read of it: process, files, threads,
                        \* loads, ehdr, phdrs
vars == <<target, w, r, pc, n, final, core>>

Pid == 1
Version == 6
X64 == 1
ProcTypes == <<"cmdline", "auxv", "maps", "environ", "io", "limits", "stat">>

Sum(sizes) == FoldLeft(LAMBDA a, b : a + b, 0, sizes)

-----------------------------------------------------------------------------
(* The target, in the bytes that describe it.                              *)

AcoreHeader == <<<<"acore", Version, X64>>>>

ProcessData == <<<<"pid", Pid, 0>>, <<"threads", target.threads, 0>>,
                 <<"creds", 0, target.crash>>>>

ThreadData(t) == <<<<"tid", t, IF t = 1 THEN target.crash ELSE 0>>, <<"regs", t, 0>>,
                   <<"masks", t, 0>>>>

\* struct ProcFile: the header and the contents.
ProcFile(type, id, contents) == <<<<type, id, Len(contents)>>>> \o contents

MapsOf(sizes) == [i \in DOMAIN sizes |-> <<"region", i, sizes[i]>>]

ProcessFile(i) ==
  ProcFile(ProcTypes[i], Pid,
           CASE ProcTypes[i] = "maps" -> MapsOf(target.layout)
             [] ProcTypes[i] = "cmdline" -> [k \in 1..CmdlineLen |-> <<"arg", k, 0>>]
             [] OTHER -> <<>>)
ThreadStat(t) == ProcFile("stat", t, <<>>)

Memory(i) == [k \in 1..target.layout[i] |-> <<"mem", i, k>>]

\* expected_load_phdrs: a segment for each region, at the sum of the sizes before it.
LoadPhdrs(sizes) ==
  [i \in DOMAIN sizes |-> <<"phdr", Sum(SubSeq(sizes, 1, i - 1)), sizes[i]>>]
ElfHeader(sizes) == <<<<"ehdr", Len(sizes), X64>>>>

Captured == [process |-> ProcessData,
             files |-> [i \in DOMAIN ProcTypes |-> ProcessFile(i)],
             threads |-> [t \in 1..target.threads |-> <<ThreadData(t), ThreadStat(t)>>],
             loads |-> FlattenSeq([i \in DOMAIN target.layout |-> Memory(i)]),
             ehdr |-> ElfHeader(target.layout)[1],
             phdrs |-> LoadPhdrs(target.layout)]
NothingRead == [process |-> <<>>, files |-> <<>>, threads |-> <<>>, loads |-> <<>>,
                ehdr |-> <<>>, phdrs |-> <<>>]

Init ==
  /\ target \in Targets
  /\ w = Fresh /\ r = FreshReader(<<>>)
  /\ pc = "header" /\ n = 1
  /\ final = <<>> /\ core = NothingRead

-----------------------------------------------------------------------------
(* Writing.  A call that fails ends the capture: the stream is closed and the *)
(* temporary file removed.                                                    *)

Each(v, fields) ==
  FoldLeft(LAMBDA S, f : Then(S, LAMBDA u : Write(u, <<f>>)), {v}, fields)

\* SetBlock, one Write for each field, Flush.
Section(v, t, fields) ==
  Then(Then(SetBlock(v, t), LAMBDA u : Each(u, fields)), LAMBDA u : Flush(u))

Wrote(outcomes, next, k) ==
  /\ w' \in outcomes
  /\ IF w'.rc < 0 THEN pc' = "aborted" /\ UNCHANGED n ELSE pc' = next /\ n' = k
  /\ UNCHANGED <<target, r, final, core>>

\* WriteRaw by a caller that compares the count.
Field(v, s) == {IF u.rc = Len(s) THEN u ELSE Fail(u) : u \in WriteRaw(v, s)}

WriteFileHeader ==
  /\ pc = "header"
  /\ Wrote(Then(Field(w, AcoreHeader), LAMBDA v : EnableBlockChecksums(v, TRUE)),
           "process", 1)

WriteProcess ==
  /\ pc = "process"
  /\ Wrote(Section(w, "process", ProcessData), "file", 1)

WriteProcessFile ==
  /\ pc = "file"
  /\ LET last == n = Len(ProcTypes)
         f == ProcessFile(n)
     IN  Wrote(PutFile(w, <<<<"size", Len(f), 0>>>>, f),
               IF last THEN "thread" ELSE "file", IF last THEN 1 ELSE n + 1)

WriteThreadMeta ==
  /\ pc = "thread"
  /\ LET last == n = target.threads
         f == ThreadStat(n)
     IN  Wrote(Then(Section(w, "thread", ThreadData(n)),
                    LAMBDA v : PutFile(v, <<<<"size", Len(f), 0>>>>, f)),
               IF last THEN "loads" ELSE "thread", IF last THEN 1 ELSE n + 1)

\* A region that cannot be read is refused at the end of the process's memory;
\* unreadable pages are zeros like any other contents.
WriteLoads ==
  /\ pc = "loads"
  /\ LET last == n = Len(target.layout)
         m == Memory(n)
         pieces == {i \in 1..Len(m) : i % BlockSize = 1 % BlockSize}
     IN  Wrote(IF Sum(target.layout) = 0 THEN {Fail(w)}
               ELSE {Fail(w)} \cup
                    Then(SetBlock(w, "loads"),
                         LAMBDA v : FoldLeft(LAMBDA S, i :
                                      Then(S, LAMBDA u :
                                        WriteBlock(u, FirstChunk(SubSeq(m, i, Len(m))),
                                                   "loads")),
                                      {v}, SetToSortSeq(pieces, <))),
               IF last THEN "elf" ELSE "loads", IF last THEN 1 ELSE n + 1)

WriteElfHeader ==
  /\ pc = "elf"
  /\ Wrote(Section(w, "elf", ElfHeader(target.layout) \o LoadPhdrs(target.layout)),
           "tail", 1)

WriteTailMark ==
  /\ pc = "tail"
  /\ Wrote(Field(w, TailMark), "sync", 1)

\* commit_atomic_lz4: Sync and Close both run, and both must succeed.
SyncStream ==
  /\ pc = "sync"
  /\ w' \in Sync(w)
  /\ pc' = IF w'.rc < 0 THEN "aborted" ELSE "close"
  /\ UNCHANGED <<target, r, n, final, core>>

CloseStream ==
  /\ pc = "close"
  /\ w' \in Close(w)
  /\ IF w'.rc < 0 THEN pc' = "aborted" /\ UNCHANGED final
     ELSE pc' = "published" /\ final' = w'.file
  /\ UNCHANGED <<target, r, n, core>>

-----------------------------------------------------------------------------
(* Damage: the published file is truncated, extended, or has one field       *)
(* altered, or a stretch of it removed or repeated.                          *)

\* What may become of a field of the same length.  A block header whose size has
\* changed, or half a field, is torn: what follows is out of step.
Altered(c) ==
  {Torn} \cup
  CASE c.k = "hdr" -> {Header(t, c.c) : t \in BlockTypes \ {c.t}} \cup {Header(c.t, 1 - c.c)}
    [] c.k = "data" -> {Data(<<<<"?", 0, 0>>>> \o Tail(c.d)), Data(Tail(c.d))}
    [] c.k = "raw" -> {Raw(<<<<c.d[1][1], c.d[1][2] + i, c.d[1][3] + j>>>>) :
                         i \in {-6, -3, -1, 1}, j \in {0, 1}}
    [] OTHER -> {}

Damaged(f) ==
  {SubSeq(f, 1, i) : i \in 0..(Len(f) - 1)}
  \cup {SubSeq(f, 1, i) \o <<Torn>> : i \in 0..(Len(f) - 1)}
  \cup {Append(f, c) : c \in {Torn, Raw(TailMark), f[1], Header("loads", 0)}}
  \cup UNION {{[f EXCEPT ![i] = c] : c \in Altered(f[i])} : i \in DOMAIN f}
  \cup {SubSeq(f, 1, i) \o SubSeq(f, j, Len(f)) : <<i, j>> \in
          {p \in (0..Len(f)) \X (1..Len(f)) : p[2] > p[1] + 1}}
  \cup {SubSeq(f, 1, j) \o SubSeq(f, i, Len(f)) : <<i, j>> \in
          {p \in (1..Len(f)) \X (1..Len(f)) : p[1] <= p[2] /\ p[2] - p[1] < MaxRepeat}}

\* Another process converts: nothing is left of the writer.
OpenFile ==
  /\ pc = "published"
  /\ w' = Fresh
  /\ \E f \in {final} \cup (Damaged(final) \ {final}) : r' = FreshReader(f)
  /\ pc' = "verify" /\ n' = 1
  /\ UNCHANGED <<target, final, core>>

-----------------------------------------------------------------------------
(* Reading.  A refusal ends the conversion: its temporary file is removed.    *)

Step(s, next, k, c) ==
  /\ r' = s /\ pc' = next /\ n' = k /\ core' = c
  /\ UNCHANGED <<target, w, final>>
Refused(s) == Step([FreshReader(s.file) EXCEPT !.io = s.io], "refused", 0, NothingRead)

\* A write to the core that comes back short.
OutputFails == Refused(IoError(r))

FormatVersion == At(r, 1).d[1][2]

VerifyFileHeader ==
  /\ pc = "verify"
  /\ \E s \in ReadRaw(r) :
       IF /\ s.got /\ s.obj[1][1] = "acore"
          /\ s.obj[1][2] \in 1..Version /\ s.obj[1][3] \in 0..1
       THEN Step(IF s.obj[1][2] >= 4 THEN Checksummed(s) ELSE s, "meta", 1, core)
       ELSE Refused(s)

\* Versions before 5 had no credentials in the PROCESS block.
ReadProcess ==
  /\ pc = "meta"
  /\ \E s \in ReadBlock(r) :
       IF /\ s.got /\ s.hdr.t = "process" /\ s.hdr.c = 0
          /\ Len(s.obj) = IF FormatVersion >= 5 THEN 3 ELSE 2
          /\ s.obj[1][2] > 0
       THEN Step(s, "files", 1, [core EXCEPT !.process = s.obj])
       ELSE Refused(s)

\* Every file is asked for, whether or not the ones before it were found.
ReadProcessFile ==
  /\ pc = "files"
  /\ \E s \in GetFile(r) :
       LET last == IF FormatVersion >= 6 THEN 7 ELSE 6
       IN  Step(s, IF n = last THEN "identify" ELSE "files",
                IF n = last THEN n ELSE n + 1,
                [core EXCEPT !.files = Append(@, IF s.got THEN s.obj ELSE <<>>)])

\* The files are of the kinds and the process they are read as, in that order.
IdentifyFiles ==
  /\ pc = "identify"
  /\ IF /\ \A i \in 1..n : /\ core.files[i] # <<>>
                           /\ core.files[i][1][1] = ProcTypes[i]
                           /\ core.files[i][1][2] = core.process[1][2]
        /\ core.process[2][2] \in 1..MaxThreads
     THEN Step(r, "threads", 1, core) ELSE Refused(r)

ThreadIds == {core.threads[i][1][1][2] : i \in DOMAIN core.threads}

\* One thread: its block, whose identity is new and whose signal agrees with the
\* crash when it is the first, and its stat file.
ReadThread ==
  /\ pc = "threads"
  /\ \E s \in ReadBlock(r) :
       LET td == s.obj
           last == n = core.process[2][2]
       IN  IF /\ s.got /\ s.hdr.t = "thread" /\ s.hdr.c = 0
              /\ Len(td) = IF FormatVersion >= 3 THEN 3 ELSE 2
              /\ FormatVersion >= 5 /\ core.process[3][3] # 0 /\ n = 1
                   => td[1][3] = core.process[3][3]
              /\ td[1][2] \notin ThreadIds \cup {0}
           THEN \E f \in GetFile(s) :
                  IF f.got /\ f.obj[1][1] = "stat" /\ f.obj[1][2] = td[1][2]
                  THEN Step(f, IF last THEN "parse" ELSE "threads", n + 1,
                            [core EXCEPT !.threads = Append(@, <<td, f.obj>>)])
                  ELSE Refused(f)
           ELSE Refused(s)

\* The sizes of the regions, from the maps file.
Regions == [i \in 1..(Len(core.files[3]) - 1) |-> core.files[3][i + 1][3]]

\* ParseAll, expected_load_phdrs, makeroom, GenerateNotes; before version 6 the
\* leader must be among the threads.
Prepare ==
  /\ pc = "parse"
  /\ \/ IF Regions # <<>> /\ (FormatVersion < 6 => core.process[1][2] \in ThreadIds)
        THEN Step(r, "readloads", 1, core) ELSE Refused(r)
     \/ OutputFails

\* Mutant of ReadLoads: the block that reaches the budget is refused as well.
ReadLoadsTight ==
  /\ pc = "readloads"
  /\ \/ \E s \in Peek(r) :
          IF ~s.got THEN Refused(s)
          ELSE IF s.hdr.t # "loads" THEN Step(s, "readelf", 1, core)
          ELSE \E b \in ReadBlock(s) :
                 IF b.got /\ Len(core.loads) + Len(b.obj) < Sum(Regions)
                 THEN Step(b, "readloads", 1, [core EXCEPT !.loads = @ \o b.obj])
                 ELSE Refused(b)
     \/ OutputFails

\* One LOADS block, as long as one follows.
ReadLoads ==
  /\ pc = "readloads"
  /\ \/ \E s \in Peek(r) :
          IF ~s.got THEN Refused(s)
          ELSE IF s.hdr.t # "loads" THEN Step(s, "readelf", 1, core)
          ELSE \E b \in ReadBlock(s) :
                 IF b.got /\ Len(core.loads) + Len(b.obj) <= Sum(Regions)
                 THEN Step(b, "readloads", 1, [core EXCEPT !.loads = @ \o b.obj])
                 ELSE Refused(b)
     \/ OutputFails

\* Segments of an ELF block, within the budget of the maps.
ElfFits(phdrs) ==
  /\ \A i \in DOMAIN phdrs : phdrs[i][1] = "phdr"
  /\ Len(core.phdrs) + Len(phdrs) <= Len(Regions)

ReadElfHeader ==
  /\ pc = "readelf"
  /\ \E b \in ReadBlock(r) :
       IF /\ b.got /\ b.hdr.t = "elf" /\ b.hdr.c = 0
          /\ b.obj[1][1] = "ehdr" /\ b.obj[1][3] = At(r, 1).d[1][3]
          /\ ElfFits(Tail(b.obj))
       THEN Step(b, "moreelf", 1, [core EXCEPT !.ehdr = b.obj[1], !.phdrs = Tail(b.obj)])
       ELSE Refused(b)

\* Blocks that continue the program headers, as long as one follows.
ReadElfMore ==
  /\ pc = "moreelf"
  /\ \E s \in Peek(r) :
       IF ~s.got THEN Refused(s)
       ELSE IF s.hdr.t # "elf" THEN Step(s, "check", 1, core)
       ELSE \E b \in ReadBlock(s) :
              IF b.got /\ ElfFits(b.obj)
              THEN Step(b, "moreelf", 1, [core EXCEPT !.phdrs = @ \o b.obj])
              ELSE Refused(b)

\* The segments are those of the maps, as many as the header says, and the memory
\* is as long as they are.
CheckLayout ==
  /\ pc = "check"
  /\ \/ IF /\ core.phdrs = LoadPhdrs(Regions) /\ core.ehdr[2] = Len(Regions)
           /\ Len(core.loads) = Sum(Regions)
        THEN Step(r, "readtail", 1, core) ELSE Refused(r)
     \/ OutputFails

ReadTail ==
  /\ pc = "readtail"
  /\ \E s \in ReadBlock(r) :
       IF s.got \/ ~s.tail THEN Refused(s)
       ELSE \E e \in VerifyPhysicalEof(s) :
              IF e.got THEN Step(e, "accepted", 1, core) ELSE Refused(e)

\* The capture or the conversion is over.
Done == pc \in {"aborted", "accepted", "refused"} /\ UNCHANGED vars

Writer == WriteFileHeader \/ WriteProcess \/ WriteProcessFile \/ WriteThreadMeta
          \/ WriteLoads \/ WriteElfHeader \/ WriteTailMark \/ SyncStream \/ CloseStream
Reader == VerifyFileHeader \/ ReadProcess \/ ReadProcessFile \/ IdentifyFiles
          \/ ReadThread \/ Prepare \/ ReadLoads \/ ReadElfHeader \/ ReadElfMore
          \/ CheckLayout \/ ReadTail
Next == Writer \/ OpenFile \/ Reader \/ Done
Spec == Init /\ [][Next]_vars

-----------------------------------------------------------------------------
\* Conversion gives back exactly what was captured, and refuses an undamaged file
\* only when a read or a write fails: what generate writes under all its block
\* boundaries is what decompress reads under all its checks (core.cc 4132-4310,
\* 6880-7155).
RoundTrip ==
  /\ pc = "accepted" => core = Captured
  /\ pc = "refused" /\ r.file = final => r.io

\* A file that was damaged anywhere is never converted: no combination of the
\* checks on types, continuation flags, sizes, counts, checksums, layout, tail and
\* end of file lets a truncated, extended, altered or spliced one through
\* (core.cc 3255-3579, 3869-4037, 6990-7140).
Integrity == pc = "accepted" => r.file = final
=============================================================================
