-------------------------- MODULE DecodeRingProofs --------------------------
(***************************************************************************)
(* For every block size, window, margin and overrun of the decoder: what   *)
(* Lz4Stream::ReadBlock's ring keeps of the window.  The margin of the     *)
(* library's ring size absorbs an overrun of Margin + 2 bytes, and what    *)
(* the decoder scribbles beyond that costs the far end of the window.      *)
(***************************************************************************)
EXTENDS DecodeRing, TLAPS

\* The stretch since the last wrap holds the newest bytes, in order.
PrefixHeld == \A p \in Cells : p < offset => ring[p] = total - offset + p + 1

\* Beyond what has been scribbled on, the dictionary holds the bytes before them.
DictionaryHeld ==
  \A p \in Cells : offset + Slop <= p /\ p < ext
                     => ring[p] = total - offset - ext + p + 1

\* A dictionary is missing only before the first wrap, and it is large: the wrap
\* came when fewer than BlockSize bytes were left.
DictionaryLarge ==
  \/ ext = 0 /\ total = offset
  \/ ext > RingSize - BlockSize /\ total >= ext + offset

IInv == clean => PrefixHeld /\ DictionaryHeld /\ DictionaryLarge

-----------------------------------------------------------------------------
\* The decoder's position stays in the ring, and so does every block it starts.
LEMMA StartInside ==
  ASSUME offset \in 0..RingSize
  PROVE  Start \in 0..RingSize /\ Start + BlockSize <= RingSize
  BY RingAssumption DEF Start, RingSize

\* RingTypeOK of DecodeRing: the ring, its cursors and its counters are well typed.
THEOREM RingTypeCorrect == RingSpec => []RingTypeOK
<1>1. RingInit => RingTypeOK
  BY RingAssumption DEF RingInit, RingTypeOK, RingSize, Cells
<1>2. RingTypeOK /\ [RingNext]_ringVars => RingTypeOK'
  <2> SUFFICES ASSUME RingTypeOK, [RingNext]_ringVars PROVE RingTypeOK'
    OBVIOUS
  <2>0. Start \in 0..RingSize /\ Start + BlockSize <= RingSize
    BY StartInside DEF RingTypeOK
  <2>1. CASE DecodeSome
    <3>1. PICK n \in 1..BlockSize, s \in 0..Slop :
             clean /\ total + n <= MaxBytes /\ Decode(n, s)
      BY <2>1 DEF DecodeSome
    <3>2. offset' \in 0..RingSize /\ ext' \in 0..RingSize /\ total' \in 0..MaxBytes
      BY <2>0, <3>1, RingAssumption DEF Decode, NextExt, RingTypeOK, RingSize
    <3>3. ring' \in [Cells -> 0..MaxBytes]
      <4> SUFFICES ASSUME NEW p \in Cells PROVE ring'[p] \in 0..MaxBytes
        BY <3>1 DEF Decode
      <4> QED
        BY <2>0, <3>1, RingAssumption DEF Decode, RingTypeOK, RingSize, Cells
    <3> QED
      BY <3>1, <3>2, <3>3 DEF RingTypeOK, Decode
  <2>2. CASE DecodeFail
    <3>1. PICK s \in 0..BlockSize : DecodeFails(s)
      BY <2>2 DEF DecodeFail
    <3>2. ring' \in [Cells -> 0..MaxBytes]
      <4> SUFFICES ASSUME NEW p \in Cells PROVE ring'[p] \in 0..MaxBytes
        BY <3>1 DEF DecodeFails
      <4> QED
        BY <3>1, RingAssumption DEF DecodeFails, RingTypeOK
    <3> QED
      BY <3>1, <3>2 DEF DecodeFails, RingTypeOK
  <2>3. CASE UNCHANGED ringVars
    BY <2>3 DEF ringVars, RingTypeOK
  <2> QED
    BY <2>1, <2>2, <2>3 DEF RingNext
<1> QED
  BY <1>1, <1>2, PTL DEF RingSpec

-----------------------------------------------------------------------------
\* The first block of a stretch begins where the last wrap left a full window
\* behind it; any other continues its stretch.
LEMMA WrapIsLate ==
  ASSUME offset \in 0..RingSize
  PROVE  \/ Start = offset /\ NextExt = ext
         \/ Start = 0 /\ NextExt = offset /\ offset > RingSize - BlockSize
  BY RingAssumption DEF Start, NextExt, RingSize

\* Decoding one more block keeps the newest bytes in order and the dictionary
\* before them.
LEMMA DecodeKeeps ==
  ASSUME RingTypeOK, IInv, clean, NEW n \in 1..BlockSize, NEW s \in 0..Slop,
         Decode(n, s)
  PROVE  IInv'
<1>0. /\ Start \in 0..RingSize /\ Start + BlockSize <= RingSize
      /\ offset \in Nat /\ total \in Nat /\ ext \in Nat
  BY StartInside, RingAssumption DEF RingTypeOK, RingSize
<1>1. PrefixHeld /\ DictionaryHeld /\ DictionaryLarge
  BY DEF IInv
<1>2. CASE Start = offset /\ NextExt = ext
  <2>1. PrefixHeld'
    BY <1>0, <1>1, <1>2, RingAssumption DEF PrefixHeld, Decode, Cells, RingSize, Scribbled
  <2>2. DictionaryHeld'
    BY <1>0, <1>1, <1>2, RingAssumption
       DEF DictionaryHeld, Decode, Cells, RingSize, Scribbled
  <2>3. DictionaryLarge'
    BY <1>0, <1>1, <1>2, RingAssumption DEF DictionaryLarge, Decode, RingSize
  <2> QED
    BY <2>1, <2>2, <2>3 DEF IInv
<1>3. CASE Start = 0 /\ NextExt = offset /\ offset > RingSize - BlockSize
  <2>1. PrefixHeld'
    BY <1>0, <1>1, <1>3, RingAssumption DEF PrefixHeld, Decode, Cells, RingSize, Scribbled
  <2>2. DictionaryHeld'
    BY <1>0, <1>1, <1>3, RingAssumption
       DEF PrefixHeld, DictionaryHeld, Decode, Cells, RingSize, Scribbled
  <2>3. DictionaryLarge'
    BY <1>0, <1>1, <1>3, RingAssumption DEF DictionaryLarge, Decode, RingSize
  <2> QED
    BY <2>1, <2>2, <2>3 DEF IInv
<1> QED
  BY <1>2, <1>3, WrapIsLate DEF RingTypeOK

LEMMA Inductive == RingSpec => []IInv
<1>1. RingInit => IInv
  BY RingAssumption
     DEF RingInit, IInv, PrefixHeld, DictionaryHeld, DictionaryLarge, Cells, RingSize
<1>2. RingTypeOK /\ IInv /\ [RingNext]_ringVars => IInv'
  <2> SUFFICES ASSUME RingTypeOK, IInv, [RingNext]_ringVars PROVE IInv'
    OBVIOUS
  <2>1. CASE DecodeSome
    BY <2>1, DecodeKeeps DEF DecodeSome
  <2>2. CASE DecodeFail
    BY <2>2 DEF DecodeFail, DecodeFails, IInv
  <2>3. CASE UNCHANGED ringVars
    BY <2>3 DEF ringVars, IInv, PrefixHeld, DictionaryHeld, DictionaryLarge
  <2> QED
    BY <2>1, <2>2, <2>3 DEF RingNext
<1> QED
  BY <1>1, <1>2, RingTypeCorrect, PTL DEF RingSpec

-----------------------------------------------------------------------------
\* In any state of the invariant, a match finds its byte.
LEMMA WindowKept ==
  ASSUME RingTypeOK, IInv PROVE NearMatchesResolve
<1> SUFFICES ASSUME clean, NEW k \in 0..(BlockSize - 1), NEW d \in 1..(Window - Excess),
                    d <= total + k
             PROVE  Seen(k, d) = total + k + 1 - d
  BY DEF NearMatchesResolve
<1>d. Excess \in Nat /\ d \in 1..Window /\ d + Excess <= Window /\ Slop <= Margin + 2 + Excess
  BY RingAssumption DEF Excess
<1>0. /\ Start \in 0..RingSize /\ Start + BlockSize <= RingSize
      /\ offset \in Nat /\ total \in Nat /\ ext \in Nat
      /\ offset <= RingSize /\ ext <= RingSize
  BY StartInside, RingAssumption DEF RingTypeOK, RingSize
<1>1. PrefixHeld /\ DictionaryHeld /\ DictionaryLarge
  BY DEF IInv
<1>2. CASE Start + k - d >= 0
  <2>1. Source(k, d) = Start + k - d
    BY <1>0, <1>d, <1>2 DEF Source
  <2>2. CASE d <= k
    BY <1>0, <1>d, <2>1, <2>2, RingAssumption DEF Seen, Scribbled
  <2>3. CASE d > k
    <3>1. Start = offset
      BY <1>0, <1>d, <1>2, <2>3, WrapIsLate, RingAssumption
    <3>2. Start + k - d \in Cells /\ Start + k - d < offset
      BY <1>0, <1>d, <1>2, <2>3, <3>1, RingAssumption DEF Cells, RingSize
    <3> QED
      BY <1>0, <1>d, <1>1, <2>1, <2>3, <3>1, <3>2, RingAssumption
         DEF Seen, Scribbled, PrefixHeld
  <2> QED
    BY <2>2, <2>3, RingAssumption
<1>3. CASE Start + k - d < 0
  <2>1. Source(k, d) = NextExt + Start + k - d
    BY <1>0, <1>d, <1>3, WrapIsLate, RingAssumption DEF Source
  <2>2. NextExt > RingSize - BlockSize
    BY <1>0, <1>d, <1>1, <1>3, WrapIsLate, RingAssumption DEF DictionaryLarge
  <2>3. Source(k, d) >= Start + k + Slop
    BY <1>0, <1>d, <2>1, <2>2, WrapIsLate, RingAssumption DEF RingSize
  <2>4. Source(k, d) \in Cells /\ Source(k, d) < NextExt
    <3>1. NextExt \in Nat /\ NextExt <= RingSize
      BY <1>0, <1>d, WrapIsLate
    <3> QED
      BY <1>0, <1>d, <1>3, <2>1, <2>3, <3>1, RingAssumption DEF Cells, RingSize
  <2>5. Seen(k, d) = ring[Source(k, d)]
    BY <1>0, <1>d, <2>3, <2>4, RingAssumption DEF Seen, Scribbled, Cells
  <2>6. CASE Start = offset /\ NextExt = ext
    BY <1>0, <1>d, <1>1, <2>1, <2>3, <2>4, <2>5, <2>6, RingAssumption DEF DictionaryHeld
  <2>7. CASE Start = 0 /\ NextExt = offset
    BY <1>0, <1>d, <1>1, <2>1, <2>4, <2>5, <2>7, RingAssumption DEF PrefixHeld
  <2> QED
    BY <1>0, <1>d, <2>6, <2>7, WrapIsLate
<1> QED
  BY <1>0, <1>d, <1>2, <1>3, RingAssumption

\* NearMatchesResolve of DecodeRing: with the library's ring size, every match of
\* a stream of blocks of any sizes that stays Excess bytes inside the window finds
\* its byte, whatever the decoder's overrun is (lz4.cc 742-754).
THEOREM WindowIsKept == RingSpec => []NearMatchesResolve
<1>1. RingTypeOK /\ IInv => NearMatchesResolve
  BY WindowKept
<1> QED
  BY <1>1, RingTypeCorrect, Inductive, PTL
=============================================================================
