----------------------------- MODULE Lz4Reader ------------------------------
(***************************************************************************)
(* The reader half of Lz4Stream (src/src/lz4.cc), over the cells that the  *)
(* writer of Lz4Stream leaves in a file, or over what has become of them.  *)
(*                                                                         *)
(* As for the writer, a call is the set of records it may leave behind,    *)
(* since any read may end in an I/O error.  got says whether a block, a    *)
(* field or a file was returned, and obj holds it.  A read that does not   *)
(* start at the cell it expects is out of step with the file, and finds    *)
(* nothing it accepts: the length, decoding and checksum tests of the code *)
(* are taken to recognise bytes that are not what they should be.          *)
(***************************************************************************)
EXTENDS Lz4Stream

\* BlockHeader::TailMark, the last field of a stream.
TailMark == <<<<"tail", 0, 0>>>>
NoHeader == [k |-> "none", t |-> "none", c |-> 0, d |-> <<>>]

\* A stream just opened for reading.  io: an I/O error has occurred.
FreshReader(file) ==
  [file |-> file, pos |-> 1, clean |-> TRUE, tail |-> FALSE, sums |-> FALSE,
   io |-> FALSE, got |-> FALSE, hdr |-> NoHeader, obj |-> <<>>]

Give(r, n, s) == [r EXCEPT !.pos = @ + n, !.got = TRUE, !.obj = s]
Refuse(r) == [r EXCEPT !.got = FALSE, !.obj = <<>>]
Spoil(r) == [Refuse(r) EXCEPT !.clean = FALSE]
IoError(r) == [r EXCEPT !.io = TRUE]

At(r, i) == IF i \in DOMAIN r.file THEN r.file[i] ELSE NoHeader
Present(r, i, k) == At(r, i).k = k

\* EnableBlockChecksums before the first block is read.
Checksummed(r) == [r EXCEPT !.sums = TRUE]

\* A whole block at the position: header, data that decodes to something, and
\* the checksum of both when the stream has them.
BlockAt(r) ==
  LET h == At(r, r.pos)
      s == At(r, r.pos + 1).d
  IN  /\ Present(r, r.pos, "hdr") /\ Present(r, r.pos + 1, "data") /\ s # <<>>
      /\ r.sums => At(r, r.pos + 2) = Crc(h.t, h.c, s)

BlockCells(r) == IF r.sums THEN 3 ELSE 2

\* The next block.  Nothing follows a damaged block or the tail mark, however often
\* the caller asks; the end of the file between two blocks is a clean end, unless
\* the error indicator is set.
ReadBlock(r) ==
  IF ~r.clean \/ r.tail THEN {Refuse(r)}
  ELSE {IoError(Spoil(r))} \cup
       IF ~(r.pos \in DOMAIN r.file) THEN {IF r.io THEN Spoil(r) ELSE Refuse(r)}
       ELSE IF At(r, r.pos) = Raw(TailMark)
         THEN {[Refuse(r) EXCEPT !.tail = TRUE, !.pos = @ + 1]}
       ELSE IF BlockAt(r)
         THEN {[Give(r, BlockCells(r), At(r, r.pos + 1).d) EXCEPT !.hdr = At(r, r.pos)]}
       ELSE {Spoil(r)}

\* A raw field.
ReadRaw(r) ==
  {IoError(Refuse(r)),
   IF Present(r, r.pos, "raw") THEN Give(r, 1, At(r, r.pos).d)
   ELSE [Refuse(r) EXCEPT !.pos = @ + 1]}

\* The type of the block at the position, which does not move; "none" where fewer
\* bytes are left than a header takes, or when reading them failed.  The position
\* may fail to be restored.
Peek(r) ==
  LET found(h) == [r EXCEPT !.got = TRUE, !.hdr = h]
  IN  {IoError(Spoil(r)), IoError(found(NoHeader)),
       found(IF Present(r, r.pos, "hdr") THEN At(r, r.pos) ELSE NoHeader)}

\* Mutant of VerifyPhysicalEof: whatever follows the tail mark is ignored.
VerifyNothing(r) == {[r EXCEPT !.got = r.tail /\ r.clean]}

\* The tail mark has been read, nothing follows it, and no read has ever failed.
VerifyPhysicalEof(r) ==
  IF ~r.tail \/ ~r.clean THEN {Spoil(r)}
  ELSE {IoError(Spoil(r)),
        IF r.pos \in DOMAIN r.file \/ r.io THEN Spoil(r) ELSE [r EXCEPT !.got = TRUE]}

\* The blocks of a file of size bytes, acc of which have been read: the first starts
\* a record, the others continue it, and none has more than is missing.
RECURSIVE FileBlocks(_, _, _)
FileBlocks(r, acc, size) ==
  IF Len(acc) >= size THEN {Give(r, 0, acc)}
  ELSE UNION {IF /\ b.got /\ b.hdr.t = "file"
                 /\ (b.hdr.c # 0) = (acc # <<>>)
                 /\ Len(b.obj) <= size - Len(acc)
              THEN FileBlocks(b, acc \o b.obj, size)
              ELSE {Refuse(b)} : b \in ReadBlock(r)}

\* A file of /proc: its size, its blocks, and the size in its own header, which is
\* the first byte <<type, pid, f_size>>.
GetFile(r) ==
  LET sized == UNION {IF /\ f.got /\ f.obj[1][1] = "size" /\ f.obj[1][2] \in 1..MaxFile
                      THEN FileBlocks(f, <<>>, f.obj[1][2]) ELSE {Refuse(f)} :
                        f \in ReadRaw(r)}
  IN  {IF f.got /\ Len(f.obj) # 1 + f.obj[1][3] THEN Refuse(f) ELSE f : f \in sized}
=============================================================================
