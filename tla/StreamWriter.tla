---------------------------- MODULE StreamWriter ----------------------------
(***************************************************************************)
(* Any client of the writer of Lz4Stream: its public calls in any order,   *)
(* on one stream object that may be closed and opened again, with any      *)
(* write failing.  The client may ignore failures.                         *)
(***************************************************************************)
EXTENDS Lz4Stream

CONSTANTS Sizes,        \* the lengths of the data a call is given
          Types,        \* the block types used
          MaxCalls      \* bound on the calls

ASSUME ClientAssumption ==
  Sizes \subseteq Nat /\ Types \subseteq BlockTypes /\ MaxCalls \in Nat

VARIABLES w,            \* the stream
          told,         \* history: the bytes given since the last open, tagged,
                        \* until a call fails
          failed,       \* history: a call since the last open has failed
          call,         \* history: what the last call was: "data", "seal" or "other"
          calls         \* number of calls

vars == <<w, told, failed, call, calls>>

\* The n bytes of a call's data, told apart from those of any other call.
Bytes(n) == [i \in 1..n |-> <<calls, i, n>>]
SizePrefix == <<<<calls, 0, 1>>>>

\* Bytes with the kind of block or field they belong to.
Tag(s, t) == [i \in DOMAIN s |-> <<t, s[i]>>]

Init ==
  /\ w = Fresh /\ told = <<>>
  /\ failed = FALSE /\ call = "other" /\ calls = 0

\* One call of kind c: it leaves one of the streams in outcomes, succeeds if it
\* returns at least ok, and has been given the tagged bytes s.
Call(c, outcomes, ok, s) ==
  /\ calls < MaxCalls
  /\ calls' = calls + 1
  /\ w' \in outcomes
  /\ call' = c
  /\ failed' = (failed \/ w'.rc < ok)
  /\ told' = IF failed' THEN <<>> ELSE told \o s

DoWrite == \E n \in Sizes : Call("data", Write(w, Bytes(n)), n, Tag(Bytes(n), w.type))
DoWriteBlock == \E n \in Sizes, t \in Types :
                  Call("data", WriteBlock(w, Bytes(n), t), n, Tag(Bytes(n), t))
DoWriteRaw == Call("data", WriteRaw(w, Bytes(1)), 1, Tag(Bytes(1), "raw"))
DoPutFile == \E n \in Sizes :
               Call("data", PutFile(w, SizePrefix, Bytes(n)), n,
                    Tag(SizePrefix, "raw") \o Tag(Bytes(n), "file"))
DoSetBlock == \E t \in Types : Call("other", SetBlock(w, t), 0, <<>>)
DoEnable == \E on \in BOOLEAN : Call("other", EnableBlockChecksums(w, on), 0, <<>>)
DoFlush == Call("seal", Flush(w), 0, <<>>)
DoSync == Call("seal", Sync(w), 0, <<>>)
DoClose == Call("seal", Close(w), 0, <<>>)

\* A stream opened again starts from nothing.
DoOpen ==
  /\ calls < MaxCalls /\ calls' = calls + 1
  /\ w' \in Open(w) /\ call' = "other"
  /\ failed' = (w'.rc < 0) /\ told' = <<>>

Next == DoWrite \/ DoWriteBlock \/ DoWriteRaw \/ DoPutFile \/ DoSetBlock \/ DoEnable
        \/ DoFlush \/ DoSync \/ DoClose \/ DoOpen
Spec == Init /\ [][Next]_vars

-----------------------------------------------------------------------------
\* What the reader will find: the bytes of the cells, each tagged with the type in
\* the header before it.
Content(file) ==
  FoldLeftDomain(LAMBDA s, i :
                   s \o CASE file[i].k = "raw" -> Tag(file[i].d, "raw")
                          [] file[i].k = "data" -> Tag(file[i].d, file[i - 1].t)
                          [] OTHER -> <<>>,
                 <<>>, file)

Cells(k) == {i \in DOMAIN w.file : w.file[i].k = k}

\* As long as every call has succeeded, the file and the current block hold exactly
\* the bytes given since the stream was opened, once each, in the order given, under
\* the type they were given with, raw fields in their places; and a successful Close
\* leaves nothing in the block (lz4.cc 68-81, 221-251, 319-325, 420-427, 480-518).
NothingLost ==
  ~failed => /\ Content(w.file) \o Tag(w.buf, w.type) = told
             /\ ~w.err /\ Cells("torn") = {}
             /\ w.open \/ w.buf = <<>>

\* Data shorter than a block is in one block, wherever it was put: readers take a
\* structure out of a block with one Block::Read, which does not cross blocks
\* (lz4.cc 480-497).
RecordsWhole ==
  \A i \in Cells("data") : \A b \in ToSet(w.file[i].d) :
    b[3] < BlockSize => \A j \in 1..b[3] : <<b[1], j, b[3]>> \in ToSet(w.file[i].d)

\* The block the encoder refers to is never the one being filled, unless no block
\* will be compressed any more (lz4.cc 617-655 and the two buffers of lz4.h).
DictionaryIntact == w.open /\ w.dict = w.slot => w.err

\* Once a write to the file has come back short, no later call that is given data
\* and none that seals the file claims success, not even with an empty block: the
\* caller cannot commit a file with a hole (lz4.cc 383-387).
ErrorsStick ==
  [][w.err /\ w.open /\ call' \in {"data", "seal"} => w'.rc < 0]_vars
=============================================================================
