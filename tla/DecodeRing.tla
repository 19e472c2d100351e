----------------------------- MODULE DecodeRing -----------------------------
(***************************************************************************)
(* The history ring of the LZ4 reader (Lz4Stream::ReadBlock in             *)
(* src/src/lz4.cc).  Each block is decoded in place, next to the one       *)
(* before it, or at the beginning of the ring when fewer than BlockSize    *)
(* bytes are left.  A block may refer to any of the last Window decoded    *)
(* bytes, and they have to be in the ring, unmodified, where               *)
(* LZ4_decompress_safe_continue looks for them: in the stretch that ends   *)
(* where the block starts, or before the last wrap, in the stretch of ext  *)
(* bytes that it calls the external dictionary.                            *)
(*                                                                         *)
(* The decoded stream is abstracted to its positions: a cell of the ring   *)
(* holds the number of the byte it contains, and 0 when it holds none.     *)
(* The library is external; it may scribble up to Slop bytes past the      *)
(* last decoded byte, within the BlockSize bytes it was offered.           *)
(***************************************************************************)
EXTENDS Integers

CONSTANTS BlockSize,    \* bytes of a block before compression
          Window,       \* the farthest a match may reach back
          Margin,       \* what the ring has beyond Window + 1 + BlockSize
          Slop,         \* how far past its last byte the decoder may write
          MaxBytes      \* bound on the decoded bytes

ASSUME RingAssumption ==
  /\ BlockSize \in Nat \ {0} /\ Window \in Nat \ {0}
  /\ Margin \in Nat /\ Slop \in Nat /\ MaxBytes \in Nat

VARIABLES ring,         \* _decode_ring
          offset,       \* _decode_offset
          ext,          \* LZ4_streamDecode_t: bytes of the external dictionary
          total,        \* bytes decoded so far
          clean         \* _eof_clean: no decode has failed

ringVars == <<ring, offset, ext, total, clean>>

\* LZ4_decoderRingBufferSize(BLOCK_SIZE): 65536 + 14 + BLOCK_SIZE.
RingSize == Window + 1 + Margin + BlockSize
Cells == 0..(RingSize - 1)

\* Mutant of Start: wrap as if there were two block buffers.
StartEarly == IF offset + 2 * BlockSize > RingSize THEN 0 ELSE offset

\* Where the next block is decoded.
Start == IF RingSize - offset < BlockSize THEN 0 ELSE offset

\* A block that does not continue the last one makes that stretch the dictionary.
NextExt == IF Start = offset THEN ext ELSE offset

\* Cells the decoder may have scribbled on once k bytes of a block are decoded.
Scribbled(k, s) == {p \in Cells : /\ Start + k <= p /\ p < Start + k + s
                                  /\ p < Start + BlockSize}

RingInit ==
  /\ ring = [p \in Cells |-> 0]
  /\ offset = 0 /\ ext = 0 /\ total = 0
  /\ clean = TRUE

\* A block of n bytes decodes; s bytes past it are overwritten.
Decode(n, s) ==
  /\ ring' = [p \in Cells |->
                IF Start <= p /\ p < Start + n THEN total + (p - Start) + 1
                ELSE IF p \in Scribbled(n, s) THEN 0
                ELSE ring[p]]
  /\ offset' = Start + n
  /\ ext' = NextExt
  /\ total' = total + n
  /\ UNCHANGED clean

\* A damaged block: s bytes are overwritten, nothing is accepted, and every
\* later read is refused.
DecodeFails(s) ==
  /\ ring' = [p \in Cells |-> IF p \in Scribbled(0, s) THEN 0 ELSE ring[p]]
  /\ clean' = FALSE
  /\ UNCHANGED <<offset, ext, total>>

DecodeSome == \E n \in 1..BlockSize, s \in 0..Slop :
                 clean /\ total + n <= MaxBytes /\ Decode(n, s)
DecodeFail == \E s \in 0..BlockSize : clean /\ DecodeFails(s)

RingNext == DecodeSome \/ DecodeFail
RingSpec == RingInit /\ [][RingNext]_ringVars

-----------------------------------------------------------------------------
\* The cell the library reads for a match d bytes back when k bytes of the next
\* block are decoded.
Source(k, d) == LET p == Start + k - d IN IF p >= 0 THEN p ELSE NextExt + p

\* What that cell holds at that time.
Seen(k, d) ==
  LET p == Source(k, d)
  IN  IF Start <= p /\ p < Start + k THEN total + (p - Start) + 1
      ELSE IF p \in Scribbled(k, Slop) \/ p \notin Cells THEN 0
      ELSE ring[p]

\* The ring is well typed, and the decoder's position is inside it.
RingTypeOK ==
  /\ ring \in [Cells -> 0..MaxBytes]
  /\ offset \in 0..RingSize /\ ext \in 0..RingSize
  /\ total \in 0..MaxBytes /\ clean \in BOOLEAN

\* Whatever the sizes of the blocks so far, a match anywhere in the next block and
\* as far back as the format allows finds the byte it means: neither the wrap, nor
\* the block being decoded, nor the decoder's scribbling has overwritten it
\* (lz4.cc 742-754).
MatchesResolve ==
  clean => \A k \in 0..(BlockSize - 1), d \in 1..Window :
             d <= total + k => Seen(k, d) = total + k + 1 - d

\* By how much the decoder's scribbling exceeds what the ring's margin absorbs.
Excess == IF Slop > Margin + 2 THEN Slop - Margin - 2 ELSE 0

\* Whatever the sizes of the blocks so far, and however far past a block the
\* decoder scribbles, the scribbling costs the far end of the window and nothing
\* else: a match that leaves out the last Excess bytes of the window finds the
\* byte it means, next to the wrap as anywhere (lz4.cc 742-754).
NearMatchesResolve ==
  clean => \A k \in 0..(BlockSize - 1), d \in 1..(Window - Excess) :
             d <= total + k => Seen(k, d) = total + k + 1 - d
=============================================================================
