----------------------------- MODULE Lz4Stream ------------------------------
(***************************************************************************)
(* The writer half of Lz4Stream (src/src/lz4.cc): what each of its calls   *)
(* does to the stream object and to the file below it.                     *)
(*                                                                         *)
(* A stream is a record.  A call is the set of records it may leave        *)
(* behind, each with its return value in rc, since any write to the file   *)
(* may come back short and the codec may fail.  The file is a sequence of  *)
(* cells, one for each fwrite: the header of a block (type t, continuation *)
(* flag c), its data, its checksum, or a raw field; a write that came back *)
(* short leaves a torn cell.  Compression is the identity on the bytes of  *)
(* a block: that the reader can undo it is the subject of DecodeRing.      *)
(***************************************************************************)
EXTENDS Integers, Sequences, SequencesExt

CONSTANTS BlockSize,    \* BLOCK_SIZE
          MaxFile       \* MAX_PROC_FILE_SIZE

ASSUME StreamAssumption == BlockSize \in Nat \ {0} /\ MaxFile \in Nat

BlockTypes == {"process", "thread", "file", "loads", "elf"}

Header(t, c) == [k |-> "hdr", t |-> t, c |-> c, d |-> <<>>]
Data(s) == [k |-> "data", t |-> "", c |-> 0, d |-> s]
Crc(t, c, s) == [k |-> "crc", t |-> t, c |-> c, d |-> s]
Raw(s) == [k |-> "raw", t |-> "", c |-> 0, d |-> s]
Torn == [k |-> "torn", t |-> "", c |-> 0, d |-> <<>>]

\* ResetState and InitCodec: a stream just opened on an empty file.  buf is what
\* the current block holds, slot its place in _blocks, dict the slot of the block
\* the encoder compressed last and still refers to.
Fresh == [file |-> <<>>, err |-> FALSE, open |-> TRUE, buf |-> <<>>,
          slot |-> 0, dict |-> -1, index |-> 0, type |-> "process",
          sums |-> FALSE, rc |-> 0]

Ret(w, n) == [w EXCEPT !.rc = n]
Fail(w) == Ret(w, -1)

\* The calls a function makes in a row; the first that fails ends it.
Then(S, F(_)) == UNION {IF w.rc < 0 THEN {w} ELSE F(w) : w \in S}

\* fwrite: everything, or less and the error indicator stays set.
FWrite(w, cell) ==
  {Ret([w EXCEPT !.file = Append(@, cell)], 0),
   Fail([w EXCEPT !.file = Append(@, Torn), !.err = TRUE])}

\* Mutant of NextBlock: the encoder's dictionary is the block being filled.
NextBlockSame(w) == [w EXCEPT !.buf = <<>>, !.index = @ + 1]

\* The block is sealed and the other buffer becomes the current one.
NextBlock(w) == [w EXCEPT !.buf = <<>>, !.index = @ + 1, !.slot = 1 - @]

\* The current block goes to the file as header, data and checksum.  When the
\* codec fails nothing is written and the block keeps its bytes.
Compress(w, t, c) ==
  IF w.buf = <<>> THEN {Ret(w, 0)}
  ELSE LET encoded == [w EXCEPT !.dict = w.slot]
       IN  {Fail(w)} \cup
           Then(Then(Then(FWrite(encoded, Header(t, c)),
                LAMBDA v : FWrite(v, Data(w.buf))),
                LAMBDA v : IF w.sums THEN FWrite(v, Crc(t, c, w.buf)) ELSE {v}),
                LAMBDA v : {Ret(NextBlock(v), Len(w.buf))})

\* Mutant of Flush: an empty block is fine whatever happened before.
FlushForgiving(w) ==
  IF ~w.open THEN {Fail(w)}
  ELSE IF w.buf = <<>> THEN {Ret(w, 0)}
  ELSE IF w.err THEN {Fail(w)}
  ELSE Then(Compress(w, w.type, 0), LAMBDA v : {Ret(v, 0)})

Flush(w) ==
  IF ~w.open \/ w.err THEN {Fail(w)}
  ELSE Then(Compress(w, w.type, 0), LAMBDA v : {Ret(v, 0)})

SetBlock(w, t) ==
  IF ~w.open THEN {Fail(w)}
  ELSE Then(IF t # w.type /\ w.buf # <<>> THEN Flush(w) ELSE {Ret(w, 0)},
            LAMBDA v : {Ret([v EXCEPT !.type = t], 0)})

EnableBlockChecksums(w, on) ==
  IF ~w.open THEN {Fail(w)}
  ELSE IF w.sums = on THEN {Ret(w, 0)}
  ELSE IF w.index # 0 \/ w.buf # <<>> THEN {Fail(w)}
  ELSE {Ret([w EXCEPT !.sums = on], 0)}

\* Block::Write on the current block: it fits, or nothing is taken.
Fits(w, s) == Len(s) <= BlockSize - Len(w.buf)
Buffer(w, s) == Ret([w EXCEPT !.buf = @ \o s], Len(s))

FirstChunk(s) == SubSeq(s, 1, IF Len(s) < BlockSize THEN Len(s) ELSE BlockSize)
OtherChunks(s) == SubSeq(s, BlockSize + 1, Len(s))

\* The loops of Write and WriteBlock: a block is cleared, filled and sealed.
RECURSIVE WriteChunks(_, _)
WriteChunks(w, s) ==
  IF s = <<>> THEN {w}
  ELSE Then(Flush([w EXCEPT !.buf = FirstChunk(s)]),
            LAMBDA v : WriteChunks(v, OtherChunks(s)))

RECURSIVE CompressChunks(_, _, _, _)
CompressChunks(w, s, t, c) ==
  IF s = <<>> THEN {w}
  ELSE Then(Compress([w EXCEPT !.buf = FirstChunk(s)], t, c),
            LAMBDA v : CompressChunks(v, OtherChunks(s), t, 1))

\* Mutant of Write: the current block is filled up before the next one.
WriteFilling(w, s) ==
  IF ~w.open \/ w.err THEN {Fail(w)}
  ELSE IF Fits(w, s) THEN {Buffer(w, s)}
  ELSE LET room == BlockSize - Len(w.buf)
       IN  Then(Flush([w EXCEPT !.buf = @ \o SubSeq(s, 1, room)]),
                LAMBDA v : Then(WriteChunks(v, SubSeq(s, room + 1, Len(s))),
                                LAMBDA u : {Ret(u, Len(s))}))

\* Small data joins the current block, or seals it and starts the next; it is
\* never divided.  Data of at least a block is written in blocks of its own.
Write(w, s) ==
  IF ~w.open \/ (s # <<>> /\ w.err) THEN {Fail(w)}
  ELSE IF s = <<>> THEN {Ret(w, 0)}
  ELSE IF Fits(w, s) THEN {Buffer(w, s)}
  ELSE Then(Flush(w),
            LAMBDA v : IF Len(s) < BlockSize THEN {Buffer(v, s)}
                       ELSE Then(WriteChunks(v, s), LAMBDA u : {Ret(u, Len(s))}))

WriteBlock(w, s, t) ==
  IF ~w.open THEN {Fail(w)}
  ELSE Then(Flush(w), LAMBDA v : Then(CompressChunks(v, s, t, 0),
                                      LAMBDA u : {Ret(u, Len(s))}))

\* A field outside the blocks.  A short write is reported by its count, not by -1.
WriteRaw(w, s) ==
  IF ~w.open \/ (s # <<>> /\ w.err) THEN {Fail(w)}
  ELSE IF s = <<>> THEN {Ret(w, 0)}
  ELSE Then(IF w.buf # <<>> THEN Flush(w) ELSE {Ret(w, 0)},
            LAMBDA v : {Ret(u, IF u.rc < 0 THEN 0 ELSE Len(s)) :
                          u \in FWrite(v, Raw(s))})

\* A file of /proc: its size (sz, a raw field) and its bytes s as FILE blocks.
PutFile(w, sz, s) ==
  IF ~w.open \/ Len(s) > MaxFile THEN {Fail(w)}
  ELSE Then(Then(Flush(w), LAMBDA v : {IF u.rc = Len(sz) THEN u ELSE Fail(u) :
                                         u \in WriteRaw(v, sz)}),
            LAMBDA v : WriteBlock(v, s, "file"))

\* fflush may fail, and so may fsync, which leaves no error indicator.
Sync(w) ==
  IF ~w.open THEN {Fail(w)}
  ELSE Then(Flush(w), LAMBDA v : {v, Fail(v),
                                  Fail([v EXCEPT !.file = Append(@, Torn),
                                                 !.err = TRUE])})

\* fclose runs whether or not the last flush failed, and reports only what goes
\* wrong in itself.
Close(w) ==
  IF ~w.open THEN {Ret(w, 0)}
  ELSE LET shut(v) == [v EXCEPT !.open = FALSE]
       IN  UNION {{shut(v), Fail(shut([v EXCEPT !.file = Append(@, Torn),
                                                !.err = TRUE]))} : v \in Flush(w)}

\* Mutant of Open: the buffers of the last stream are not cleared.
OpenUncleared(w) ==
  IF w.open THEN {Fail(w)} ELSE {Fail(w), [Fresh EXCEPT !.buf = w.buf]}

\* No stream is open.
Idle == [Fresh EXCEPT !.open = FALSE]

\* Open and OpenFd: refused while a stream is active or for a bad descriptor;
\* otherwise everything of the last stream is reset, also when the file then cannot
\* be opened.
Open(w) == IF w.open THEN {Fail(w)} ELSE {Fail(w), Fail(Idle), Fresh}
=============================================================================
