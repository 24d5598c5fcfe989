------------------------------- MODULE Buffer -------------------------------
(***************************************************************************)
(* net/Buffer: the bytes of a connection in one vector, between two        *)
(* indices, with room left in front for headers.  Cell i of the vector is  *)
(* buffer_[i + 1] here.  Operations that call others (append, shrink) are  *)
(* written as functions of a whole buffer, so that they compose as in the  *)
(* code.                                                                   *)
(*                                                                         *)
(* What the code asserts of its arguments are guards, because callers keep *)
(* to them; what it asserts of its own state is a property.  An integer    *)
(* is its bytes in memory, least significant first (ByteQueue).  readFd    *)
(* has no body in the repository.                                          *)
(***************************************************************************)
EXTENDS Naturals, Sequences

CONSTANTS kCheapPrepend, kInitialSize,
          Data,         \* the byte strings that are written
          Ints,         \* the integers that are written, as host memory
          Lens,         \* the lengths that are asked for
          CR, LF,
          MaxReadable   \* bound: bytes in the buffer

ASSUME BufferAssumption ==
    /\ kCheapPrepend \in Nat
    /\ kInitialSize \in Nat
    /\ MaxReadable \in Nat
    /\ Data \subseteq Seq(Nat)
    /\ Ints \subseteq Seq(Nat)
    /\ Lens \subseteq Nat
    /\ CR \in Nat /\ LF \in Nat

VARIABLES buf,   \* the object: buffer_, readerIndex_, writerIndex_
          call   \* the last operation: its name, argument and answer

vars == <<buf, call>>

-----------------------------------------------------------------------------

ReadableBytes(b) == b.writerIndex_ - b.readerIndex_
WritableBytes(b) == Len(b.buffer_) - b.writerIndex_
PrependableBytes(b) == b.readerIndex_

\* The readable bytes, as a string.
ToStringPiece(b) == SubSeq(b.buffer_, b.readerIndex_ + 1, b.writerIndex_)

\* The vector's cells are zero until they are written.
NewBuffer(initialSize) ==
    [buffer_      |-> [i \in 1..kCheapPrepend + initialSize |-> 0],
     readerIndex_ |-> kCheapPrepend,
     writerIndex_ |-> kCheapPrepend]

\* std::copy of d to cell at and the ones behind it.
Copy(s, at, d) ==
    [i \in 1..Len(s) |-> IF at < i /\ i <= at + Len(d) THEN d[i - at] ELSE s[i]]

Resize(s, n) == [i \in 1..n |-> IF i <= Len(s) THEN s[i] ELSE 0]

RetrieveAll(b) == [b EXCEPT !.readerIndex_ = kCheapPrepend,
                            !.writerIndex_ = kCheapPrepend]

Retrieve(b, len) ==
    IF len < ReadableBytes(b) THEN [b EXCEPT !.readerIndex_ = @ + len]
                              ELSE RetrieveAll(b)

\* Room in front is counted as free although kCheapPrepend of it is not.
MustGrow_PrependFree(b, len) ==
    WritableBytes(b) + PrependableBytes(b) < len

MustGrow(b, len) ==
    WritableBytes(b) + PrependableBytes(b) < len + kCheapPrepend

\* The indices move to the front, the bytes stay where they are.
MakeSpace_NoCopy(b, len) ==
    IF MustGrow(b, len)
    THEN [b EXCEPT !.buffer_ = Resize(@, b.writerIndex_ + len)]
    ELSE [b EXCEPT !.readerIndex_ = kCheapPrepend,
                   !.writerIndex_ = kCheapPrepend + ReadableBytes(b)]

MakeSpace(b, len) ==
    IF MustGrow(b, len)
    THEN [b EXCEPT !.buffer_ = Resize(@, b.writerIndex_ + len)]
    ELSE [b EXCEPT !.buffer_ = Copy(@, kCheapPrepend, ToStringPiece(b)),
                   !.readerIndex_ = kCheapPrepend,
                   !.writerIndex_ = kCheapPrepend + ReadableBytes(b)]

EnsureWritableBytes(b, len) ==
    IF WritableBytes(b) < len THEN MakeSpace(b, len) ELSE b

HasWritten(b, len) == [b EXCEPT !.writerIndex_ = @ + len]

\* The caller, or append, puts d at beginWrite().
WriteAtEnd(b, d) == [b EXCEPT !.buffer_ = Copy(@, b.writerIndex_, d)]

AppendBytes(b, d) ==
    HasWritten(WriteAtEnd(EnsureWritableBytes(b, Len(d)), d), Len(d))

PrependBytes(b, d) ==
    [b EXCEPT !.readerIndex_ = @ - Len(d),
              !.buffer_ = Copy(@, b.readerIndex_ - Len(d), d)]

Shrunk(b, reserve) ==
    AppendBytes(EnsureWritableBytes(NewBuffer(kInitialSize),
                                    ReadableBytes(b) + reserve),
                ToStringPiece(b))

\* htobe and betoh on a little-endian host: the bytes change their order.
SwapBytes(x) == [i \in 1..Len(x) |-> x[Len(x) + 1 - i]]

\* The first len readable bytes.
Front(b, len) == SubSeq(b.buffer_, b.readerIndex_ + 1, b.readerIndex_ + len)

\* std::search and memchr from start up to beginWrite(), as offsets from
\* peek().
Found(b, p, start) ==
    {i \in b.readerIndex_ + start..b.writerIndex_ - Len(p) :
        \A j \in 1..Len(p) : b.buffer_[i + j] = p[j]}

Search(b, p, start) ==
    LET found == Found(b, p, start) IN
    IF found = {} THEN <<>>
    ELSE <<(CHOOSE i \in found : \A k \in found : i <= k) - b.readerIndex_>>

-----------------------------------------------------------------------------
(* The operations.  Fits is the model's bound, not a guard of the code.    *)

Init ==
    /\ \E initialSize \in Lens : buf = NewBuffer(initialSize)
    /\ call = <<"new", <<>>, <<>>>>

Fits(len) == ReadableBytes(buf) + len <= MaxReadable

Append_(d) ==
    /\ Fits(Len(d))
    /\ buf' = AppendBytes(buf, d)
    /\ call' = <<"append", d, <<>>>>

\* The caller has written d behind the readable bytes, then hasWritten.
WriteDirectly(d) ==
    /\ Fits(Len(d))
    /\ Len(d) <= WritableBytes(buf)
    /\ buf' = HasWritten(WriteAtEnd(buf, d), Len(d))
    /\ call' = <<"append", d, <<>>>>

AppendInt(x) ==
    /\ Fits(Len(x))
    /\ buf' = AppendBytes(buf, SwapBytes(x))
    /\ call' = <<"appendInt", x, <<>>>>

Prepend(d) ==
    /\ Fits(Len(d))
    /\ Len(d) <= PrependableBytes(buf)
    /\ buf' = PrependBytes(buf, d)
    /\ call' = <<"prepend", d, <<>>>>

PrependInt(x) ==
    /\ Fits(Len(x))
    /\ Len(x) <= PrependableBytes(buf)
    /\ buf' = PrependBytes(buf, SwapBytes(x))
    /\ call' = <<"prependInt", x, <<>>>>

EnsureWritable(len) ==
    /\ Fits(len)
    /\ buf' = EnsureWritableBytes(buf, len)
    /\ call' = <<"ensureWritableBytes", <<len>>, <<>>>>

Shrink(reserve) ==
    /\ Fits(reserve)
    /\ buf' = Shrunk(buf, reserve)
    /\ call' = <<"shrink", <<reserve>>, <<>>>>

Unwrite(len) ==
    /\ len <= ReadableBytes(buf)
    /\ buf' = [buf EXCEPT !.writerIndex_ = @ - len]
    /\ call' = <<"unwrite", <<len>>, <<>>>>

\* retrieve, retrieveUntil, retrieveInt*, retrieveAll.
RetrieveBytes(len) ==
    /\ len <= ReadableBytes(buf)
    /\ buf' = Retrieve(buf, len)
    /\ call' = <<"retrieve", <<len>>, <<>>>>

RetrieveAsString(len) ==
    /\ len <= ReadableBytes(buf)
    /\ buf' = Retrieve(buf, len)
    /\ call' = <<"retrieveAsString", <<len>>, Front(buf, len)>>

ReadInt(len) ==
    /\ len <= ReadableBytes(buf)
    /\ buf' = Retrieve(buf, len)
    /\ call' = <<"readInt", <<len>>, SwapBytes(Front(buf, len))>>

PeekInt(len) ==
    /\ len <= ReadableBytes(buf)
    /\ buf' = buf
    /\ call' = <<"peekInt", <<len>>, SwapBytes(Front(buf, len))>>

FindCRLF(start) ==
    /\ start <= ReadableBytes(buf)
    /\ buf' = buf
    /\ call' = <<"findCRLF", <<start>>, Search(buf, <<CR, LF>>, start)>>

FindEOL(start) ==
    /\ start <= ReadableBytes(buf)
    /\ buf' = buf
    /\ call' = <<"findEOL", <<start>>, Search(buf, <<LF>>, start)>>

Next ==
    \/ \E d \in Data : Append_(d) \/ WriteDirectly(d) \/ Prepend(d)
    \/ \E x \in Ints : AppendInt(x) \/ PrependInt(x)
    \/ \E len \in Lens :
          \/ EnsureWritable(len)
          \/ Shrink(len)
          \/ Unwrite(len)
          \/ RetrieveBytes(len)
          \/ RetrieveAsString(len)
          \/ ReadInt(len)
          \/ PeekInt(len)
          \/ FindCRLF(len)
          \/ FindEOL(len)

Spec == Init /\ [][Next]_vars

-----------------------------------------------------------------------------
(* Properties *)

\* The two indices stay in order inside the vector, and whatever length is
\* asked for next, the assertions of ensureWritableBytes (Buffer.h:147) and
\* makeSpace (286, 292) hold.
IndicesInOrder ==
    /\ buf.readerIndex_ <= buf.writerIndex_
    /\ buf.writerIndex_ <= Len(buf.buffer_)
    /\ \A len \in Lens : WritableBytes(buf) < len =>
          LET after == MakeSpace(buf, len) IN
          /\ MustGrow(buf, len) \/ kCheapPrepend < buf.readerIndex_
          /\ WritableBytes(after) >= len
          /\ ReadableBytes(after) = ReadableBytes(buf)

\* Whatever resizing and moving happens inside, the buffer is a queue of
\* bytes: nothing is lost, repeated or reordered, integers are read back as
\* they were written and lie in network order, and searches find the first
\* match.
Queue == INSTANCE ByteQueue WITH content <- ToStringPiece(buf)

ImplementsByteQueue == Queue!QueueSpec
=============================================================================
