----------------------------- MODULE DataProofs -----------------------------
(***************************************************************************)
(* Proofs about the sequential parts of the library: Buffer, for every     *)
(* prepend size, initial size, alphabet and set of lengths; LogStream's    *)
(* lines, for any number of loggers, zones and pieces; the formulas of     *)
(* Date and TimeZone, for every day since March of the year -4800, every   *)
(* second of it and every well-formed zone; the digits of every integer;   *)
(* and the rounded sizes, for every number in the range of the units.      *)
(***************************************************************************)
EXTENDS MCData, WellFoundedInduction, TLAPS

BufferType == [buffer_ : Seq(Nat), readerIndex_ : Nat, writerIndex_ : Nat]

\* The indices are in order, and the vector has room for a header.
Sound(b) ==
    /\ b \in BufferType
    /\ b.readerIndex_ <= b.writerIndex_
    /\ b.writerIndex_ <= Len(b.buffer_)
    /\ kCheapPrepend <= Len(b.buffer_)

\* What the operators return.
LEMMA NewBufferSound ==
    ASSUME NEW n \in Nat
    PROVE  /\ Sound(NewBuffer(n))
           /\ ReadableBytes(NewBuffer(n)) = 0
           /\ WritableBytes(NewBuffer(n)) = n
  BY BufferAssumption DEF NewBuffer, Sound, BufferType, ReadableBytes, WritableBytes

LEMMA CopyType ==
    ASSUME NEW s \in Seq(Nat), NEW at \in Nat, NEW d \in Seq(Nat)
    PROVE  /\ Copy(s, at, d) \in Seq(Nat)
           /\ Len(Copy(s, at, d)) = Len(s)
  BY DEF Copy

\* The cells that a copy fills, and the others.
LEMMA CopyInside ==
    ASSUME NEW s \in Seq(Nat), NEW at \in Nat, NEW d \in Seq(Nat),
           at + Len(d) <= Len(s), NEW i \in 1..Len(d)
    PROVE  Copy(s, at, d)[at + i] = d[i]
<1>1. /\ at + i \in 1..Len(s) /\ at < at + i
      /\ at + i <= at + Len(d) /\ at + i - at = i
  OBVIOUS
<1> QED  BY <1>1 DEF Copy

LEMMA CopyOutside ==
    ASSUME NEW s \in Seq(Nat), NEW at \in Nat, NEW d \in Seq(Nat),
           NEW i \in 1..Len(s), i <= at \/ at + Len(d) < i
    PROVE  Copy(s, at, d)[i] = s[i]
<1>1. ~(at < i /\ i <= at + Len(d))
  OBVIOUS
<1> QED  BY <1>1 DEF Copy

LEMMA ResizeType ==
    ASSUME NEW s \in Seq(Nat), NEW n \in Nat
    PROVE  Resize(s, n) \in Seq(Nat) /\ Len(Resize(s, n)) = n
  BY DEF Resize

\* The fields of a sound buffer, for steps that do not look further into it.
HasFields(b) ==
    /\ b.buffer_ \in Seq(Nat)
    /\ Len(b.buffer_) \in Nat
    /\ b.readerIndex_ \in Nat
    /\ b.writerIndex_ \in Nat
    /\ ReadableBytes(b) \in Nat
    /\ WritableBytes(b) \in Nat
    /\ b.writerIndex_ = b.readerIndex_ + ReadableBytes(b)
    /\ Len(b.buffer_) = b.writerIndex_ + WritableBytes(b)
    /\ kCheapPrepend <= Len(b.buffer_)

LEMMA Fields == ASSUME NEW b, Sound(b) PROVE HasFields(b)
  BY DEF Sound, BufferType, HasFields, ReadableBytes, WritableBytes

LEMMA PieceType ==
    ASSUME NEW b, Sound(b)
    PROVE  /\ ToStringPiece(b) \in Seq(Nat)
           /\ Len(ToStringPiece(b)) = ReadableBytes(b)
  BY SMTT(60) DEF Sound, BufferType, ToStringPiece, ReadableBytes

LEMMA SwapType ==
    ASSUME NEW x \in Seq(Nat)
    PROVE  SwapBytes(x) \in Seq(Nat) /\ Len(SwapBytes(x)) = Len(x)
  BY DEF SwapBytes

\* Two strings are equal when they agree byte by byte.
LEMMA SameBytes ==
    ASSUME NEW s \in Seq(Nat), NEW t \in Seq(Nat), Len(s) = Len(t),
           \A i \in 1..Len(s) : s[i] = t[i]
    PROVE  s = t
  OBVIOUS

\* Byte i of the readable part.
LEMMA PieceByte ==
    ASSUME NEW b, Sound(b), NEW i \in 1..ReadableBytes(b)
    PROVE  /\ ToStringPiece(b)[i] = b.buffer_[b.readerIndex_ + i]
           /\ b.readerIndex_ + i \in 1..Len(b.buffer_)
  BY SMTT(60) DEF Sound, BufferType, ToStringPiece, ReadableBytes

-----------------------------------------------------------------------------
(* Consuming *)

LEMMA RetrieveAllSound ==
    ASSUME NEW b, Sound(b)
    PROVE  Sound(RetrieveAll(b)) /\ ToStringPiece(RetrieveAll(b)) = <<>>
<1> DEFINE after == RetrieveAll(b)
<1>1. /\ after \in BufferType
      /\ after.buffer_ = b.buffer_
      /\ after.readerIndex_ = kCheapPrepend
      /\ after.writerIndex_ = kCheapPrepend
  BY BufferAssumption DEF Sound, BufferType, RetrieveAll
<1> HIDE DEF after
<1>2. SubSeq(after.buffer_, kCheapPrepend + 1, kCheapPrepend) = <<>>
  BY <1>1, BufferAssumption DEF BufferType
<1>3. Sound(after) /\ ToStringPiece(after) = <<>>
  BY <1>1, <1>2, BufferAssumption DEF Sound, ToStringPiece
<1> QED  BY <1>3 DEF after

LEMMA RetrieveSound ==
    ASSUME NEW b, Sound(b), NEW len \in Nat, len <= ReadableBytes(b)
    PROVE  /\ Sound(Retrieve(b, len))
           /\ ToStringPiece(Retrieve(b, len))
                 = SubSeq(ToStringPiece(b), len + 1, ReadableBytes(b))
<1>1. CASE len < ReadableBytes(b)
  <2> DEFINE after == Retrieve(b, len)
  <2>1. after = [b EXCEPT !.readerIndex_ = @ + len]
    BY <1>1 DEF Retrieve
  <2>10. /\ after \in BufferType
        /\ after.buffer_ = b.buffer_
        /\ after.readerIndex_ = b.readerIndex_ + len
        /\ after.writerIndex_ = b.writerIndex_
    BY <2>1 DEF Sound, BufferType
  <2>2. Sound(after) /\ ReadableBytes(after) = ReadableBytes(b) - len
    <3> HIDE DEF after
    <3> QED  BY <1>1, <2>10 DEF Sound, BufferType, ReadableBytes
  <2>3. \A i \in 1..ReadableBytes(after) :
           ToStringPiece(after)[i] = ToStringPiece(b)[len + i]
    <3> SUFFICES ASSUME NEW i \in 1..ReadableBytes(after)
                 PROVE  ToStringPiece(after)[i] = ToStringPiece(b)[len + i]
      OBVIOUS
    <3>1. ToStringPiece(after)[i] = after.buffer_[after.readerIndex_ + i]
      BY <2>2, PieceByte
    <3>2. len + i \in 1..ReadableBytes(b)
      BY <2>2 DEF Sound, BufferType, ReadableBytes
    <3>3. ToStringPiece(b)[len + i] = b.buffer_[b.readerIndex_ + (len + i)]
      BY <3>2, PieceByte
    <3> QED  BY <2>1, <3>1, <3>3 DEF Sound, BufferType
  <2>4. ToStringPiece(b) \in Seq(Nat) /\ Len(ToStringPiece(b)) = ReadableBytes(b)
    BY PieceType
  <2>5. ToStringPiece(after) \in Seq(Nat) /\ Len(ToStringPiece(after)) = ReadableBytes(after)
    BY <2>2, PieceType
  <2>6. ReadableBytes(b) \in Nat
    BY DEF Sound, BufferType, ReadableBytes
  <2> HIDE DEF after
  <2>7. ToStringPiece(after) = SubSeq(ToStringPiece(b), len + 1, ReadableBytes(b))
    BY <1>1, <2>2, <2>3, <2>4, <2>5, <2>6
  <2> QED  BY <2>2, <2>7 DEF after
<1>2. CASE len = ReadableBytes(b)
  <2>1. Retrieve(b, len) = RetrieveAll(b)
    BY <1>2 DEF Retrieve
  <2>2. SubSeq(ToStringPiece(b), len + 1, ReadableBytes(b)) = <<>>
    BY <1>2, PieceType
  <2> QED  BY <2>1, <2>2, RetrieveAllSound
<1> QED  BY <1>1, <1>2 DEF Sound, BufferType, ReadableBytes

LEMMA FrontBytes ==
    ASSUME NEW b, Sound(b), NEW len \in Nat, len <= ReadableBytes(b)
    PROVE  Front(b, len) = SubSeq(ToStringPiece(b), 1, len)
  BY SMTT(60) DEF Front, ToStringPiece, Sound, BufferType, ReadableBytes
-----------------------------------------------------------------------------
(* Making room *)

\* A buffer with the same bytes in it, wherever they are.
LEMMA SamePiece ==
    ASSUME NEW b, Sound(b), NEW c, Sound(c),
           ReadableBytes(c) = ReadableBytes(b),
           \A i \in 1..ReadableBytes(b) :
              c.buffer_[c.readerIndex_ + i] = b.buffer_[b.readerIndex_ + i]
    PROVE  ToStringPiece(c) = ToStringPiece(b)
<1>1. /\ ToStringPiece(b) \in Seq(Nat) /\ Len(ToStringPiece(b)) = ReadableBytes(b)
      /\ ToStringPiece(c) \in Seq(Nat) /\ Len(ToStringPiece(c)) = ReadableBytes(b)
  BY PieceType
<1>2. \A i \in 1..ReadableBytes(b) : ToStringPiece(c)[i] = ToStringPiece(b)[i]
  BY PieceByte
<1> QED  BY <1>1, <1>2, SameBytes

LEMMA MakeSpaceSound ==
    ASSUME NEW b, Sound(b), NEW len \in Nat, WritableBytes(b) < len
    PROVE  /\ Sound(MakeSpace(b, len))
           /\ WritableBytes(MakeSpace(b, len)) >= len
           /\ ToStringPiece(MakeSpace(b, len)) = ToStringPiece(b)
           /\ ReadableBytes(MakeSpace(b, len)) = ReadableBytes(b)
           /\ MustGrow(b, len) \/ kCheapPrepend < b.readerIndex_
<1> DEFINE after == MakeSpace(b, len)
           piece == ToStringPiece(b)
<1>1. HasFields(b) /\ b \in BufferType
  BY Fields DEF Sound
<1>2. CASE MustGrow(b, len)
  <2> DEFINE longer == Resize(b.buffer_, b.writerIndex_ + len)
  <2>1. longer \in Seq(Nat) /\ Len(longer) = b.writerIndex_ + len
    <3>1. b.buffer_ \in Seq(Nat) /\ b.writerIndex_ + len \in Nat
      BY <1>1 DEF HasFields
    <3> QED  BY <3>1, ResizeType
  <2> HIDE DEF longer
  <2>2. /\ after \in BufferType
        /\ after.buffer_ = longer
        /\ after.readerIndex_ = b.readerIndex_
        /\ after.writerIndex_ = b.writerIndex_
    BY <1>1, <1>2, <2>1 DEF MakeSpace, BufferType, longer
  <2> HIDE DEF after
  <2>3. /\ Sound(after)
        /\ ReadableBytes(after) = ReadableBytes(b)
        /\ WritableBytes(after) >= len
    BY <2>1, <2>2, BufferAssumption
    DEF Sound, BufferType, ReadableBytes, WritableBytes
  <2>4. \A i \in 1..ReadableBytes(b) :
           after.buffer_[after.readerIndex_ + i] = b.buffer_[b.readerIndex_ + i]
    <3> TAKE i \in 1..ReadableBytes(b)
    <3>1. b.readerIndex_ + i \in 1..Len(b.buffer_)
      BY PieceByte
    <3>2. b.readerIndex_ + i \in 1..b.writerIndex_ + len
      BY DEF Sound, BufferType, ReadableBytes
    <3> QED  BY <2>2, <3>1, <3>2 DEF Resize, longer
  <2>5. ToStringPiece(after) = ToStringPiece(b)
    BY <2>3, <2>4, SamePiece
  <2> QED  BY <1>2, <2>3, <2>5 DEF after
<1>3. CASE ~MustGrow(b, len)
  <2> DEFINE moved == Copy(b.buffer_, kCheapPrepend, piece)
  <2>1. piece \in Seq(Nat) /\ Len(piece) = ReadableBytes(b)
    BY PieceType
  <2> HIDE DEF piece
  <2>2. moved \in Seq(Nat) /\ Len(moved) = Len(b.buffer_)
    BY <1>1, <2>1, CopyType, BufferAssumption DEF HasFields
  <2> HIDE DEF moved
  <2>3. kCheapPrepend + ReadableBytes(b) \in Nat
    BY <1>1, BufferAssumption DEF HasFields
  <2>4. after = [b EXCEPT !.buffer_ = moved, !.readerIndex_ = kCheapPrepend,
                          !.writerIndex_ = kCheapPrepend + ReadableBytes(b)]
    BY <1>3 DEF MakeSpace, moved, piece
  <2> HIDE DEF after
  <2>5. /\ after \in BufferType
        /\ after.buffer_ = moved
        /\ after.readerIndex_ = kCheapPrepend
        /\ after.writerIndex_ = kCheapPrepend + ReadableBytes(b)
    <3>1. kCheapPrepend \in Nat
      BY BufferAssumption
    <3> DEFINE end == kCheapPrepend + ReadableBytes(b)
    <3>2. end \in Nat
      BY <2>3
    <3> HIDE DEF end
    <3>3. after = [b EXCEPT !.buffer_ = moved, !.readerIndex_ = kCheapPrepend,
                            !.writerIndex_ = end]
      BY <2>4 DEF end
    <3>4. /\ after \in BufferType
          /\ after.buffer_ = moved
          /\ after.readerIndex_ = kCheapPrepend
          /\ after.writerIndex_ = end
      BY <1>1, <2>2, <3>1, <3>2, <3>3 DEF BufferType
    <3> QED  BY <3>4 DEF end
  <2>6. WritableBytes(b) + b.readerIndex_ >= len + kCheapPrepend
    BY <1>1, <1>3, BufferAssumption DEF HasFields, MustGrow, PrependableBytes
  <2>7. kCheapPrepend < b.readerIndex_
    BY <1>1, <2>6, BufferAssumption DEF HasFields
  <2>8. /\ Sound(after)
        /\ ReadableBytes(after) = ReadableBytes(b)
        /\ WritableBytes(after) >= len
    <3>1. Sound(after)
      <4>1. kCheapPrepend + ReadableBytes(b) <= Len(b.buffer_)
        BY <1>1, <2>7, BufferAssumption DEF HasFields
      <4>2. ReadableBytes(b) \in Nat /\ Len(b.buffer_) \in Nat
        BY <1>1 DEF HasFields
      <4> QED  BY <2>2, <2>5, <4>1, <4>2, BufferAssumption DEF Sound
    <3>2. ReadableBytes(after) = ReadableBytes(b)
      BY <1>1, <2>5, BufferAssumption DEF HasFields, ReadableBytes
    <3>3. WritableBytes(after) = Len(b.buffer_) - (kCheapPrepend + ReadableBytes(b))
      BY <2>2, <2>5 DEF WritableBytes
    <3>4. WritableBytes(after) >= len
      BY <1>1, <2>6, <3>3, BufferAssumption, SMTT(60) DEF HasFields
    <3> QED  BY <3>1, <3>2, <3>4
  <2>9. \A i \in 1..ReadableBytes(b) :
           after.buffer_[after.readerIndex_ + i] = b.buffer_[b.readerIndex_ + i]
    <3> TAKE i \in 1..ReadableBytes(b)
    <3>1. piece[i] = b.buffer_[b.readerIndex_ + i]
      BY PieceByte DEF piece
    <3>2. kCheapPrepend + Len(piece) <= Len(b.buffer_)
      BY <1>1, <2>1, <2>7, BufferAssumption, SMTT(60) DEF HasFields
    <3>3. moved[kCheapPrepend + i] = piece[i]
      <4>1. b.buffer_ \in Seq(Nat) /\ kCheapPrepend \in Nat /\ i \in 1..Len(piece)
        BY <1>1, <2>1, BufferAssumption DEF HasFields
      <4> QED  BY <2>1, <3>2, <4>1, CopyInside DEF moved
    <3> QED  BY <2>5, <3>1, <3>3
  <2>10. ToStringPiece(after) = ToStringPiece(b)
    BY <2>8, <2>9, SamePiece
  <2> QED  BY <2>7, <2>8, <2>10 DEF after
<1> QED  BY <1>2, <1>3

LEMMA EnsureSound ==
    ASSUME NEW b, Sound(b), NEW len \in Nat
    PROVE  /\ Sound(EnsureWritableBytes(b, len))
           /\ WritableBytes(EnsureWritableBytes(b, len)) >= len
           /\ ToStringPiece(EnsureWritableBytes(b, len)) = ToStringPiece(b)
<1>1. WritableBytes(b) \in Nat
  BY DEF Sound, BufferType, WritableBytes
<1> QED  BY <1>1, MakeSpaceSound DEF EnsureWritableBytes

-----------------------------------------------------------------------------
(* Adding bytes *)

\* d behind the readable bytes.
LEMMA WriteSound ==
    ASSUME NEW b, Sound(b), NEW d \in Seq(Nat), Len(d) <= WritableBytes(b)
    PROVE  /\ Sound(HasWritten(WriteAtEnd(b, d), Len(d)))
           /\ ToStringPiece(HasWritten(WriteAtEnd(b, d), Len(d)))
                 = ToStringPiece(b) \o d
<1> DEFINE after == HasWritten(WriteAtEnd(b, d), Len(d))
           written == Copy(b.buffer_, b.writerIndex_, d)
           piece == ToStringPiece(b)
<1>1. HasFields(b) /\ b \in BufferType /\ Len(d) \in Nat
  BY Fields DEF Sound
<1>2. written \in Seq(Nat) /\ Len(written) = Len(b.buffer_)
  BY <1>1, CopyType DEF HasFields
<1> HIDE DEF written
<1>3. /\ after \in BufferType
      /\ after.buffer_ = written
      /\ after.readerIndex_ = b.readerIndex_
      /\ after.writerIndex_ = b.writerIndex_ + Len(d)
  <2>1. b.writerIndex_ + Len(d) \in Nat
    BY <1>1 DEF HasFields
  <2> DEFINE end == b.writerIndex_ + Len(d)
  <2>2. after = [[b EXCEPT !.buffer_ = written] EXCEPT !.writerIndex_ = end]
    <3>1. WriteAtEnd(b, d) = [b EXCEPT !.buffer_ = written]
      BY DEF WriteAtEnd, written
    <3>2. WriteAtEnd(b, d).writerIndex_ = b.writerIndex_
      BY <1>1, <3>1 DEF BufferType
    <3> QED  BY <3>1, <3>2 DEF HasWritten
  <2>3. end \in Nat
    BY <2>1
  <2> HIDE DEF after, end
  <2>4. /\ after \in BufferType
        /\ after.buffer_ = written
        /\ after.readerIndex_ = b.readerIndex_
        /\ after.writerIndex_ = end
    BY <1>1, <1>2, <2>2, <2>3 DEF BufferType
  <2> QED  BY <2>4 DEF end
<1> HIDE DEF after
<1>4. Sound(after) /\ ReadableBytes(after) = ReadableBytes(b) + Len(d)
  BY <1>1, <1>2, <1>3, BufferAssumption
  DEF Sound, BufferType, ReadableBytes, WritableBytes
<1>10. ReadableBytes(b) \in Nat
  BY <1>1 DEF HasFields
<1>5. piece \in Seq(Nat) /\ Len(piece) = ReadableBytes(b)
  BY PieceType
<1>6. /\ ToStringPiece(after) \in Seq(Nat)
      /\ Len(ToStringPiece(after)) = ReadableBytes(b) + Len(d)
  BY <1>4, PieceType
<1> HIDE DEF piece
<1>7. /\ piece \o d \in Seq(Nat)
      /\ Len(piece \o d) = ReadableBytes(b) + Len(d)
  BY <1>5, SMTT(60)
<1>8. \A i \in 1..ReadableBytes(b) + Len(d) :
         ToStringPiece(after)[i] = (piece \o d)[i]
  <2> TAKE i \in 1..ReadableBytes(b) + Len(d)
  <2>1. /\ ToStringPiece(after)[i] = written[b.readerIndex_ + i]
        /\ b.readerIndex_ + i \in 1..Len(b.buffer_)
    BY <1>2, <1>3, <1>4, PieceByte
  <2>2. CASE i <= ReadableBytes(b)
    <3>1. piece[i] = b.buffer_[b.readerIndex_ + i]
      BY <1>1, <2>2, PieceByte DEF HasFields, piece
    <3>2. b.readerIndex_ + i <= b.writerIndex_
      BY <1>1, <2>2 DEF HasFields
    <3>3. written[b.readerIndex_ + i] = b.buffer_[b.readerIndex_ + i]
      BY <1>1, <2>1, <3>2, CopyOutside DEF HasFields, written
    <3>4. (piece \o d)[i] = piece[i]
      BY <1>5, <2>2
    <3> QED  BY <2>1, <3>1, <3>3, <3>4
  <2>3. CASE i > ReadableBytes(b)
    <3> DEFINE j == i - ReadableBytes(b)
    <3>1. /\ j \in 1..Len(d)
          /\ b.readerIndex_ + i = b.writerIndex_ + j
          /\ b.writerIndex_ + Len(d) <= Len(b.buffer_)
      <4>1. j \in 1..Len(d)
        BY <1>1, <1>10, <2>3
      <4>2. b.readerIndex_ + i = b.writerIndex_ + j
        BY <1>10, <2>3 DEF Sound, BufferType, ReadableBytes
      <4>3. b.writerIndex_ + Len(d) <= Len(b.buffer_)
        BY <1>1 DEF HasFields
      <4> QED  BY <4>1, <4>2, <4>3
    <3>2. (piece \o d)[i] = d[j]
      BY <1>1, <1>5, <1>10, <2>3
    <3> HIDE DEF j
    <3>3. written[b.writerIndex_ + j] = d[j]
      BY <1>1, <3>1, CopyInside DEF HasFields, written
    <3> QED  BY <2>1, <3>1, <3>2, <3>3
  <2>4. i <= ReadableBytes(b) \/ i > ReadableBytes(b)
    BY <1>1, <1>10
  <2> QED  BY <2>2, <2>3, <2>4
<1>9. ToStringPiece(after) = piece \o d
  BY <1>6, <1>7, <1>8, SameBytes
<1> QED  BY <1>4, <1>9 DEF after, piece

LEMMA AppendSound ==
    ASSUME NEW b, Sound(b), NEW d \in Seq(Nat)
    PROVE  Sound(AppendBytes(b, d)) /\ ToStringPiece(AppendBytes(b, d)) = ToStringPiece(b) \o d
<1> DEFINE ready == EnsureWritableBytes(b, Len(d))
<1>1. Len(d) \in Nat
  OBVIOUS
<1>2. Sound(ready) /\ WritableBytes(ready) >= Len(d) /\ ToStringPiece(ready) = ToStringPiece(b)
  BY <1>1, EnsureSound
<1> HIDE DEF ready
<1>3. Len(d) <= WritableBytes(ready)
  BY <1>1, <1>2, Fields DEF HasFields
<1>4. /\ Sound(HasWritten(WriteAtEnd(ready, d), Len(d)))
      /\ ToStringPiece(HasWritten(WriteAtEnd(ready, d), Len(d))) = ToStringPiece(ready) \o d
  BY <1>2, <1>3, WriteSound
<1> QED  BY <1>2, <1>4 DEF AppendBytes, ready

\* d in front of the readable bytes.
LEMMA PrependSound ==
    ASSUME NEW b, Sound(b), NEW d \in Seq(Nat), Len(d) <= PrependableBytes(b)
    PROVE  /\ Sound(PrependBytes(b, d))
           /\ ToStringPiece(PrependBytes(b, d)) = d \o ToStringPiece(b)
<1> DEFINE after == PrependBytes(b, d)
           start == b.readerIndex_ - Len(d)
           written == Copy(b.buffer_, start, d)
           piece == ToStringPiece(b)
<1>1. HasFields(b) /\ b \in BufferType /\ Len(d) \in Nat
  BY Fields DEF Sound
<1>2. start \in Nat /\ b.readerIndex_ = start + Len(d)
  BY <1>1, SMTT(60) DEF PrependableBytes, HasFields
<1> HIDE DEF start
<1>3. written \in Seq(Nat) /\ Len(written) = Len(b.buffer_)
  BY <1>1, <1>2, CopyType DEF HasFields
<1> HIDE DEF written
<1>4. /\ after \in BufferType
      /\ after.buffer_ = written
      /\ after.readerIndex_ = start
      /\ after.writerIndex_ = b.writerIndex_
  <2>1. after = [b EXCEPT !.readerIndex_ = start, !.buffer_ = written]
    BY DEF PrependBytes, start, written
  <2> HIDE DEF after
  <2> QED  BY <1>1, <1>2, <1>3, <2>1 DEF BufferType
<1> HIDE DEF after
<1>5. Sound(after) /\ ReadableBytes(after) = Len(d) + ReadableBytes(b)
  BY <1>1, <1>2, <1>3, <1>4 DEF Sound, HasFields, ReadableBytes
<1>11. ReadableBytes(b) \in Nat
  BY <1>1 DEF HasFields
<1>6. piece \in Seq(Nat) /\ Len(piece) = ReadableBytes(b)
  BY PieceType
<1>7. /\ ToStringPiece(after) \in Seq(Nat)
      /\ Len(ToStringPiece(after)) = Len(d) + ReadableBytes(b)
  BY <1>5, PieceType
<1> HIDE DEF piece
<1>8. /\ d \o piece \in Seq(Nat)
      /\ Len(d \o piece) = Len(d) + ReadableBytes(b)
  BY <1>6
<1>9. \A i \in 1..Len(d) + ReadableBytes(b) :
         ToStringPiece(after)[i] = (d \o piece)[i]
  <2> TAKE i \in 1..Len(d) + ReadableBytes(b)
  <2>1. /\ ToStringPiece(after)[i] = written[start + i]
        /\ start + i \in 1..Len(b.buffer_)
    BY <1>3, <1>4, <1>5, PieceByte
  <2>2. CASE i <= Len(d)
    <3>1. start + Len(d) <= Len(b.buffer_)
      BY <1>1, <1>2 DEF HasFields
    <3>2. i \in 1..Len(d)
      BY <1>1, <2>2 DEF HasFields
    <3>3. written[start + i] = d[i]
      BY <1>1, <1>2, <3>1, <3>2, CopyInside DEF HasFields, written
    <3> QED  BY <1>6, <2>1, <3>2, <3>3
  <2>3. CASE i > Len(d)
    <3> DEFINE j == i - Len(d)
    <3>1. /\ start + Len(d) < start + i
          /\ start + i = b.readerIndex_ + j
          /\ j \in 1..ReadableBytes(b)
      <4>1. /\ b.readerIndex_ \in Int /\ Len(d) \in Nat /\ ReadableBytes(b) \in Nat
            /\ start = b.readerIndex_ - Len(d) /\ i \in Int
            /\ i <= Len(d) + ReadableBytes(b)
        BY <1>1, <1>2, <1>11 DEF HasFields
      <4> QED  BY <2>3, <4>1
    <3>2. (d \o piece)[i] = piece[j]
      BY <1>1, <1>6, <2>3 DEF HasFields
    <3> HIDE DEF j
    <3>3. written[start + i] = b.buffer_[start + i]
      BY <1>1, <1>2, <2>1, <3>1, CopyOutside, SMTT(60) DEF HasFields, written
    <3>4. piece[j] = b.buffer_[b.readerIndex_ + j]
      BY <3>1, PieceByte DEF piece
    <3> QED  BY <2>1, <3>1, <3>2, <3>3, <3>4
  <2>4. i <= Len(d) \/ i > Len(d)
    BY <1>1, <1>11
  <2> QED  BY <2>2, <2>3, <2>4
<1>10. ToStringPiece(after) = d \o piece
  BY <1>7, <1>8, <1>9, SameBytes
<1> QED  BY <1>5, <1>10 DEF after, piece

LEMMA ShrinkSound ==
    ASSUME NEW b, Sound(b), NEW reserve \in Nat
    PROVE  Sound(Shrunk(b, reserve)) /\ ToStringPiece(Shrunk(b, reserve)) = ToStringPiece(b)
<1> DEFINE other == EnsureWritableBytes(NewBuffer(kInitialSize), ReadableBytes(b) + reserve)
<1>1. ReadableBytes(b) + reserve \in Nat
  BY DEF Sound, BufferType, ReadableBytes
<1>2. Sound(NewBuffer(kInitialSize)) /\ ReadableBytes(NewBuffer(kInitialSize)) = 0
  BY NewBufferSound, BufferAssumption
<1>3. ToStringPiece(NewBuffer(kInitialSize)) = <<>>
  BY <1>2, PieceType
<1>4. Sound(other) /\ ToStringPiece(other) = <<>>
  BY <1>1, <1>2, <1>3, EnsureSound
<1>5. ToStringPiece(b) \in Seq(Nat)
  BY PieceType
<1> HIDE DEF other
<1>6. /\ Sound(AppendBytes(other, ToStringPiece(b)))
      /\ ToStringPiece(AppendBytes(other, ToStringPiece(b))) = <<>> \o ToStringPiece(b)
  BY <1>4, <1>5, AppendSound
<1> QED  BY <1>5, <1>6 DEF Shrunk, other

LEMMA UnwriteSound ==
    ASSUME NEW b, Sound(b), NEW len \in Nat, len <= ReadableBytes(b)
    PROVE  LET after == [b EXCEPT !.writerIndex_ = @ - len] IN
           /\ Sound(after)
           /\ ToStringPiece(after) = SubSeq(ToStringPiece(b), 1, ReadableBytes(b) - len)
<1> DEFINE after == [b EXCEPT !.writerIndex_ = @ - len]
<1>1. /\ after \in BufferType
      /\ after.buffer_ = b.buffer_
      /\ after.readerIndex_ = b.readerIndex_
      /\ after.writerIndex_ = b.writerIndex_ - len
  <2>1. b \in BufferType /\ b.writerIndex_ - len \in Nat
    BY Fields DEF Sound, HasFields
  <2> QED  BY <2>1 DEF BufferType
<1> HIDE DEF after
<1>2. Sound(after) /\ ReadableBytes(after) = ReadableBytes(b) - len
  BY <1>1 DEF Sound, BufferType, ReadableBytes
<1>3. ToStringPiece(after) = Front(b, ReadableBytes(b) - len)
  <2>1. b.readerIndex_ + (ReadableBytes(b) - len) = b.writerIndex_ - len
    BY DEF Sound, BufferType, ReadableBytes
  <2> QED  BY <1>1, <2>1 DEF ToStringPiece, Front
<1>4. ReadableBytes(b) - len \in Nat /\ ReadableBytes(b) - len <= ReadableBytes(b)
  BY Fields DEF HasFields
<1> QED  BY <1>2, <1>3, <1>4, FrontBytes DEF after

-----------------------------------------------------------------------------
(* Searching *)

\* A match at cell i of the vector is a match at offset i - readerIndex_ of
\* the content.
LEMMA FoundIsMatch ==
    ASSUME NEW b, Sound(b), NEW p \in Seq(Nat), NEW start \in Nat,
           NEW i \in Nat
    PROVE  b.readerIndex_ + i \in Found(b, p, start)
              <=> /\ i \in start..Len(ToStringPiece(b)) - Len(p)
                  /\ \A j \in 1..Len(p) : ToStringPiece(b)[i + j] = p[j]
<1>1. HasFields(b) /\ Len(p) \in Nat
  BY Fields
<1>2. Len(ToStringPiece(b)) = ReadableBytes(b)
  BY PieceType
<1>3. b.readerIndex_ + i \in b.readerIndex_ + start..b.writerIndex_ - Len(p)
         <=> i \in start..ReadableBytes(b) - Len(p)
  BY <1>1 DEF Sound, BufferType, ReadableBytes
<1>4. ASSUME i \in start..ReadableBytes(b) - Len(p), NEW j \in 1..Len(p)
      PROVE  ToStringPiece(b)[i + j] = b.buffer_[b.readerIndex_ + i + j]
  <2>1. i + j \in 1..ReadableBytes(b)
    BY <1>1, <1>4 DEF HasFields
  <2>2. b.readerIndex_ + (i + j) = b.readerIndex_ + i + j
    BY <1>1 DEF HasFields
  <2> QED  BY <2>1, <2>2, PieceByte
<1> QED  BY <1>2, <1>3, <1>4 DEF Found

LEMMA LeastMember ==
    ASSUME NEW S \in SUBSET Nat, S # {}
    PROVE  \E n \in S : \A m \in S : n <= m
<1> DEFINE R == OpToRel(<, Nat)
<1>1. IsWellFoundedOn(R, Nat)
  BY NatLessThanWellFounded
<1>2. \A m, n \in Nat : m < n => <<m, n>> \in R
  BY DEF OpToRel
<1> HIDE DEF R
<1>3. PICK n \in S : \A m \in S : <<m, n>> \notin R
  BY <1>1, WFMin
<1>4. \A m \in S : m \in Nat /\ n \in Nat
  OBVIOUS
<1>5. \A m \in S : ~(m < n)
  BY <1>2, <1>3, <1>4
<1>6. \A m \in S : n <= m
  BY <1>4, <1>5
<1> QED  BY <1>6

\* Search answers as the queue's Find asks: nothing, or the first match.
LEMMA SearchIsRight ==
    ASSUME NEW b, Sound(b), NEW p \in Seq(Nat), NEW start \in Nat
    PROVE  LET content == ToStringPiece(b)
               Matches == {i \in start..Len(content) - Len(p) :
                              \A j \in 1..Len(p) : content[i + j] = p[j]}
           IN  \/ Matches = {} /\ Search(b, p, start) = <<>>
               \/ \E i \in Matches : /\ \A k \in Matches : i <= k
                                     /\ Search(b, p, start) = <<i>>
<1>0. ASSUME NEW i \in Nat
      PROVE  b.readerIndex_ + i \in Found(b, p, start)
                <=> /\ i \in start..Len(ToStringPiece(b)) - Len(p)
                    /\ \A j \in 1..Len(p) : ToStringPiece(b)[i + j] = p[j]
  BY FoundIsMatch, SMTT(30)
<1> DEFINE content == ToStringPiece(b)
           Matches == {i \in start..Len(content) - Len(p) :
                          \A j \in 1..Len(p) : content[i + j] = p[j]}
           found == Found(b, p, start)
<1>1. HasFields(b) /\ Len(p) \in Nat
  BY Fields
<1>2. Len(content) \in Nat
  BY PieceType
<1>3. Matches \subseteq Nat
  BY <1>1, <1>2
<1>4. \A i \in Nat : b.readerIndex_ + i \in found <=> i \in Matches
  <2> SUFFICES ASSUME NEW i \in Nat
               PROVE  b.readerIndex_ + i \in found <=> i \in Matches
    OBVIOUS
  <2>1. b.readerIndex_ + i \in found
           <=> /\ i \in start..Len(content) - Len(p)
               /\ \A j \in 1..Len(p) : content[i + j] = p[j]
    BY <1>0, Zenon
  <2>2. i \in Matches <=> /\ i \in start..Len(content) - Len(p)
                          /\ \A j \in 1..Len(p) : content[i + j] = p[j]
    BY Zenon
  <2> HIDE DEF found, Matches, content
  <2> QED  BY <2>1, <2>2, Zenon
<1>5. \A c \in found : c - b.readerIndex_ \in Nat /\ c \in Nat
  <2>1. b.readerIndex_ \in Nat /\ b.writerIndex_ - Len(p) \in Int
    BY <1>1 DEF HasFields
  <2>2. found \subseteq b.readerIndex_ + start..b.writerIndex_ - Len(p)
    BY DEF Found
  <2> HIDE DEF found
  <2> QED  BY <2>1, <2>2
<1>6. b.readerIndex_ \in Nat
  BY <1>1 DEF HasFields
<1> HIDE DEF content, Matches, found
<1>7. \A c \in found : c - b.readerIndex_ \in Matches
  <2> TAKE c \in found
  <2>1. b.readerIndex_ + (c - b.readerIndex_) = c
    BY <1>5, <1>6
  <2> QED  BY <1>4, <1>5, <2>1
<1>8. CASE found = {}
  <2>1. Matches = {}
    BY <1>3, <1>4, <1>8
  <2>2. Search(b, p, start) = <<>>
    BY <1>8 DEF Search, found
  <2> QED  BY <2>1, <2>2 DEF Matches, content
<1>9. CASE found # {}
  <2> DEFINE c == CHOOSE i \in found : \A k \in found : i <= k
             i == c - b.readerIndex_
  <2>1. \E n \in found : \A m \in found : n <= m
    BY <1>5, <1>9, LeastMember
  <2>2. c \in found /\ \A k \in found : c <= k
    BY <2>1
  <2>3. Search(b, p, start) = <<i>>
    BY <1>9 DEF Search, found
  <2> HIDE DEF c
  <2>4. i \in Matches
    BY <1>7, <2>2
  <2>5. \A k \in Matches : i <= k
    BY <1>3, <1>4, <1>5, <1>6, <2>2
  <2> HIDE DEF i
  <2>6. \E n \in Matches : (\A k \in Matches : n <= k) /\ Search(b, p, start) = <<n>>
    BY <2>3, <2>4, <2>5
  <2> QED  BY <2>6 DEF Matches, content
<1> QED  BY <1>8, <1>9

-----------------------------------------------------------------------------
(* The theorems *)

LEMMA InitSound == Init => Sound(buf) /\ Queue!QueueInit
<1> SUFFICES ASSUME Init PROVE Sound(buf) /\ Queue!QueueInit
  OBVIOUS
<1>1. PICK n \in Lens : buf = NewBuffer(n)
  BY DEF Init
<1>2. n \in Nat
  BY BufferAssumption
<1>3. Sound(buf) /\ ReadableBytes(buf) = 0
  BY <1>1, <1>2, NewBufferSound
<1>4. ToStringPiece(buf) \in Seq(Nat) /\ Len(ToStringPiece(buf)) = 0
  BY <1>3, PieceType
<1>5. ToStringPiece(buf) = <<>>
  BY <1>4
<1> QED  BY <1>3, <1>5 DEF Init, Queue!QueueInit

\* Each operation, from a sound buffer, leaves a sound one and does to the
\* content what the queue's operation of the same name does.
LEMMA StepImplements ==
    ASSUME Sound(buf), Next
    PROVE  Sound(buf') /\ Queue!QueueNext
<1> DEFINE content == ToStringPiece(buf)
<1>0. /\ content \in Seq(Nat) /\ Len(content) = ReadableBytes(buf)
      /\ ReadableBytes(buf) \in Nat
  BY PieceType, Fields DEF HasFields
<1>1. ASSUME NEW d \in Data, Append_(d) \/ WriteDirectly(d)
      PROVE  Sound(buf') /\ Queue!Append_(d)
  <2>1. d \in Seq(Nat)
    BY BufferAssumption
  <2>2. Sound(buf') /\ ToStringPiece(buf') = ToStringPiece(buf) \o d
    <3>1. CASE Append_(d)
      BY <2>1, <3>1, AppendSound DEF Append_
    <3>2. CASE WriteDirectly(d)
      BY <2>1, <3>2, WriteSound DEF WriteDirectly
    <3> QED  BY <1>1, <3>1, <3>2
  <2> QED  BY <1>1, <2>2 DEF Append_, WriteDirectly, Queue!Append_, Queue!Does
<1>2. ASSUME NEW d \in Data, Prepend(d)
      PROVE  Sound(buf') /\ Queue!Prepend(d)
  <2>1. d \in Seq(Nat)
    BY BufferAssumption
  <2>2. Sound(buf') /\ ToStringPiece(buf') = d \o ToStringPiece(buf)
    BY <1>2, <2>1, PrependSound DEF Prepend
  <2> QED  BY <1>2, <2>2 DEF Prepend, Queue!Prepend, Queue!Does
<1>3. ASSUME NEW x \in Ints, AppendInt(x)
      PROVE  Sound(buf') /\ Queue!AppendInt(x)
  <2>1. x \in Seq(Nat)
    BY BufferAssumption
  <2>2. SwapBytes(x) \in Seq(Nat) /\ SwapBytes(x) = Queue!Mirror(x)
    BY <2>1, SwapType DEF SwapBytes, Queue!Mirror
  <2>3. Sound(buf') /\ ToStringPiece(buf') = ToStringPiece(buf) \o SwapBytes(x)
    BY <1>3, <2>2, AppendSound DEF AppendInt
  <2> QED  BY <1>3, <2>2, <2>3 DEF AppendInt, Queue!AppendInt, Queue!Does
<1>4. ASSUME NEW x \in Ints, PrependInt(x)
      PROVE  Sound(buf') /\ Queue!PrependInt(x)
  <2>1. x \in Seq(Nat)
    BY BufferAssumption
  <2>2. /\ SwapBytes(x) \in Seq(Nat) /\ SwapBytes(x) = Queue!Mirror(x)
        /\ Len(SwapBytes(x)) = Len(x)
    BY <2>1, SwapType DEF SwapBytes, Queue!Mirror
  <2>3. Sound(buf') /\ ToStringPiece(buf') = SwapBytes(x) \o ToStringPiece(buf)
    BY <1>4, <2>2, PrependSound DEF PrependInt
  <2> QED  BY <1>4, <2>2, <2>3 DEF PrependInt, Queue!PrependInt, Queue!Does
<1>5. ASSUME NEW len \in Lens, EnsureWritable(len)
      PROVE  Sound(buf') /\ Queue!Prepare("ensureWritableBytes", len)
  <2>1. len \in Nat
    BY BufferAssumption
  <2>2. Sound(buf') /\ ToStringPiece(buf') = ToStringPiece(buf)
    BY <1>5, <2>1, EnsureSound DEF EnsureWritable
  <2> QED  BY <1>5, <2>2 DEF EnsureWritable, Queue!Prepare, Queue!Does
<1>6. ASSUME NEW len \in Lens, Shrink(len)
      PROVE  Sound(buf') /\ Queue!Prepare("shrink", len)
  <2>1. len \in Nat
    BY BufferAssumption
  <2>2. Sound(buf') /\ ToStringPiece(buf') = ToStringPiece(buf)
    BY <1>6, <2>1, ShrinkSound DEF Shrink
  <2> QED  BY <1>6, <2>2 DEF Shrink, Queue!Prepare, Queue!Does
<1>7. ASSUME NEW len \in Lens, Unwrite(len)
      PROVE  Sound(buf') /\ Queue!Unwrite(len)
  <2>1. len \in Nat
    BY BufferAssumption
  <2>2. /\ Sound(buf')
        /\ ToStringPiece(buf') = SubSeq(ToStringPiece(buf), 1, ReadableBytes(buf) - len)
    BY <1>7, <2>1, UnwriteSound DEF Unwrite
  <2> QED  BY <1>0, <1>7, <2>2 DEF Unwrite, Queue!Unwrite, Queue!First, Queue!Does
<1>8. ASSUME NEW len \in Lens,
             RetrieveBytes(len) \/ RetrieveAsString(len) \/ ReadInt(len)
      PROVE  Sound(buf') /\ Queue!Retrieve(len)
  <2>1. len \in Nat
    BY BufferAssumption
  <2>2. len <= ReadableBytes(buf) /\ buf' = Retrieve(buf, len)
    BY <1>8 DEF RetrieveBytes, RetrieveAsString, ReadInt
  <2>3. /\ Sound(buf')
        /\ ToStringPiece(buf') = SubSeq(ToStringPiece(buf), len + 1, ReadableBytes(buf))
    BY <2>1, <2>2, RetrieveSound
  <2>4. Front(buf, len) = Queue!First(len)
    BY <2>1, <2>2, FrontBytes DEF Queue!First
  <2>5. SwapBytes(Front(buf, len)) = Queue!Mirror(Queue!First(len))
    BY <2>4 DEF SwapBytes, Queue!Mirror
  <2>6. len <= Len(ToStringPiece(buf)) /\ ToStringPiece(buf') = Queue!Rest(len)
    BY <1>0, <2>2, <2>3 DEF Queue!Rest
  <2> QED  BY <1>8, <2>3, <2>4, <2>5, <2>6
           DEF RetrieveBytes, RetrieveAsString, ReadInt, Queue!Retrieve, Queue!Does
<1>9. ASSUME NEW len \in Lens, PeekInt(len)
      PROVE  Sound(buf') /\ Queue!PeekInt(len)
  <2>1. len \in Nat
    BY BufferAssumption
  <2>2. len <= ReadableBytes(buf) /\ buf' = buf
    BY <1>9 DEF PeekInt
  <2>3. Front(buf, len) = Queue!First(len)
    BY <2>1, <2>2, FrontBytes DEF Queue!First
  <2>4. SwapBytes(Front(buf, len)) = Queue!Mirror(Queue!First(len))
    BY <2>3 DEF SwapBytes, Queue!Mirror
  <2> QED  BY <1>0, <1>9, <2>2, <2>4 DEF PeekInt, Queue!PeekInt, Queue!Does
<1>10. ASSUME NEW name, NEW p \in Seq(Nat), NEW start \in Lens,
              start <= ReadableBytes(buf), buf' = buf,
              call' = <<name, <<start>>, Search(buf, p, start)>>
       PROVE  Sound(buf') /\ Queue!Find(name, p, start)
  <2>1. start \in Nat
    BY BufferAssumption
  <2>2. \/ Queue!Matches(p, start) = {} /\ Search(buf, p, start) = <<>>
        \/ \E i \in Queue!Matches(p, start) :
              /\ \A k \in Queue!Matches(p, start) : i <= k
              /\ Search(buf, p, start) = <<i>>
    BY <2>1, SearchIsRight DEF Queue!Matches
  <2> QED  BY <1>0, <1>10, <2>2 DEF Queue!Find, Queue!Does
<1>11. ASSUME NEW len \in Lens, FindCRLF(len)
       PROVE  Sound(buf') /\ Queue!Find("findCRLF", <<CR, LF>>, len)
  <2>1. <<CR, LF>> \in Seq(Nat)
    BY BufferAssumption
  <2>2. /\ len <= ReadableBytes(buf)
        /\ buf' = buf
        /\ call' = <<"findCRLF", <<len>>, Search(buf, <<CR, LF>>, len)>>
    BY <1>11 DEF FindCRLF
  <2> QED  BY <1>10, <2>1, <2>2
<1>12. ASSUME NEW len \in Lens, FindEOL(len)
       PROVE  Sound(buf') /\ Queue!Find("findEOL", <<LF>>, len)
  <2>1. <<LF>> \in Seq(Nat)
    BY BufferAssumption
  <2>2. /\ len <= ReadableBytes(buf)
        /\ buf' = buf
        /\ call' = <<"findEOL", <<len>>, Search(buf, <<LF>>, len)>>
    BY <1>12 DEF FindEOL
  <2> QED  BY <1>10, <2>1, <2>2
<1>13. CASE \E d \in Data : Append_(d) \/ WriteDirectly(d) \/ Prepend(d)
  BY <1>1, <1>2, <1>13 DEF Queue!QueueNext
<1>14. CASE \E x \in Ints : AppendInt(x) \/ PrependInt(x)
  BY <1>3, <1>4, <1>14 DEF Queue!QueueNext
<1>15. ASSUME NEW len \in Lens,
              \/ EnsureWritable(len) \/ Shrink(len) \/ Unwrite(len)
              \/ RetrieveBytes(len) \/ RetrieveAsString(len) \/ ReadInt(len)
              \/ PeekInt(len) \/ FindCRLF(len) \/ FindEOL(len)
       PROVE  Sound(buf') /\ Queue!QueueNext
  BY <1>5, <1>6, <1>7, <1>8, <1>9, <1>11, <1>12, <1>15 DEF Queue!QueueNext
<1> QED  BY <1>13, <1>14, <1>15 DEF Next

\* A sound buffer has what IndicesInOrder asks.
LEMMA SoundInOrder == Sound(buf) => IndicesInOrder
<1> SUFFICES ASSUME Sound(buf) PROVE IndicesInOrder
  OBVIOUS
<1>1. buf.readerIndex_ <= buf.writerIndex_ /\ buf.writerIndex_ <= Len(buf.buffer_)
  BY DEF Sound
<1>2. ASSUME NEW len \in Lens, WritableBytes(buf) < len
      PROVE  /\ MustGrow(buf, len) \/ kCheapPrepend < buf.readerIndex_
             /\ WritableBytes(MakeSpace(buf, len)) >= len
             /\ ReadableBytes(MakeSpace(buf, len)) = ReadableBytes(buf)
  <2>1. len \in Nat
    BY BufferAssumption
  <2> QED  BY <1>2, <2>1, MakeSpaceSound
<1> QED  BY <1>1, <1>2 DEF IndicesInOrder

\* The buffer is sound for ever.
LEMMA AlwaysSound == Spec => []Sound(buf)
<1>1. Sound(buf) /\ [Next]_vars => Sound(buf)'
  BY StepImplements DEF vars
<1> QED  BY InitSound, <1>1, PTL DEF Spec

\* In every behaviour of net/Buffer, whatever is written, read and asked for,
\* the indices stay in order inside the vector and the assertions of
\* ensureWritableBytes and makeSpace hold (Buffer.h:147, 286, 292).
THEOREM BufferInOrder == Spec => []IndicesInOrder
  BY AlwaysSound, SoundInOrder, PTL

\* The buffer with its two indices, its moves and its growth implements the
\* queue of bytes: content, integers in network order and searches.
THEOREM BufferImplementsQueue == Spec => ImplementsByteQueue
<1>1. Sound(buf) /\ [Next]_vars => [Queue!QueueNext]_(Queue!queueVars)
  BY StepImplements DEF vars, Queue!queueVars
<1> QED  BY InitSound, AlwaysSound, <1>1, PTL DEF Spec, ImplementsByteQueue, Queue!QueueSpec

-----------------------------------------------------------------------------
(* Log lines.  BreakTime and ToLocalTime stay closed: a stamp is right when *)
(* it is what they make of a zone and a second.                             *)

\* A line fits so far, and wants no less than it has got.
Fitting(obj) ==
    /\ obj.length \in Nat /\ obj.wanted \in Nat
    /\ obj.length < kSmallBuffer /\ obj.length <= obj.wanted
    /\ obj.lost => obj.wanted > kSmallBuffer - kMaxNumericSize

Piece(p) == /\ p.size \in Nat /\ p.numeric \in BOOLEAN
            /\ p.numeric => p.size < kMaxNumericSize

\* A Logger object has its members.
IsLine(obj) ==
    {"level", "second", "pieces", "stamp", "zone", "zoneSetAt", "length", "wanted",
     "lost"} \subseteq DOMAIN obj

\* A line's stamp is of its second, in some zone, and in the right one but
\* in the cases that StampIsRight names.
Stamped(obj, back) ==
    /\ \E zone \in Zones : obj.stamp = StampOf(zone, obj.second)
    /\ \/ obj.stamp = StampOf(obj.zone, obj.second)
       \/ obj.zoneSetAt = obj.second
       \/ back

\* new is obj with more text: it fits, and its other members are obj's.
Extends(new, obj) ==
    /\ IsLine(new) /\ Fitting(new)
    /\ new.stamp = obj.stamp /\ new.second = obj.second
    /\ new.zone = obj.zone /\ new.zoneSetAt = obj.zoneSetAt

\* Streaming a piece leaves a line fitting, and its stamp alone.
LEMMA PutKeeps ==
    ASSUME NEW obj, NEW p, IsLine(obj), Piece(p), Fitting(obj)
    PROVE  Extends(Put(obj, p), obj)
<1> DEFINE new == Put(obj, p)
           want == obj.wanted + p.size
           more == obj.length + p.size
<1>1. want \in Nat /\ more \in Nat
  BY DEF Fitting, Piece
<1>2. CASE FitsIn(obj.length, p)
  <2>1. new = [obj EXCEPT !.length = more, !.wanted = want]
    BY <1>2 DEF Put
  <2>2. more < kSmallBuffer /\ more <= want
    BY <1>2, LogStreamAssumption DEF FitsIn, Fitting, Piece
  <2>3. obj.lost => want > kSmallBuffer - kMaxNumericSize
    BY LogStreamAssumption DEF Fitting, Piece
  <2> HIDE DEF new, want, more
  <2>4. /\ IsLine(new) /\ new.length = more /\ new.wanted = want
        /\ new.stamp = obj.stamp /\ new.second = obj.second /\ new.zone = obj.zone
        /\ new.zoneSetAt = obj.zoneSetAt /\ new.lost = obj.lost
    BY <1>1, <2>1 DEF IsLine
  <2> QED  BY <1>1, <2>2, <2>3, <2>4 DEF Fitting, Extends, new
<1>3. CASE ~FitsIn(obj.length, p)
  <2>1. new = [obj EXCEPT !.wanted = want, !.lost = TRUE]
    BY <1>3 DEF Put
  <2>2. obj.length <= want /\ want > kSmallBuffer - kMaxNumericSize
    BY <1>3, LogStreamAssumption DEF FitsIn, Fitting, Piece
  <2>3. obj.length \in Nat /\ obj.length < kSmallBuffer
    BY DEF Fitting
  <2> HIDE DEF new, want, more
  <2>4. /\ IsLine(new) /\ new.length = obj.length /\ new.wanted = want
        /\ new.stamp = obj.stamp /\ new.second = obj.second /\ new.zone = obj.zone
        /\ new.zoneSetAt = obj.zoneSetAt /\ new.lost = TRUE
    BY <1>1, <2>1 DEF IsLine
  <2> QED  BY <1>1, <2>2, <2>3, <2>4 DEF Fitting, Extends, new
<1> QED  BY <1>2, <1>3

\* Text and numbers of up to three digits are pieces.
LEMMA TextIsPiece ==
    ASSUME NEW n \in Nat
    PROVE  Piece(Text(n)) /\ (n <= 3 => Piece(Number(n)))
BY LogStreamAssumption DEF Piece, Text, Number

LEMMA ExtendsTwice ==
    ASSUME NEW a, NEW b, NEW c, Extends(c, b), Extends(b, a)
    PROVE  Extends(c, a)
BY DEF Extends

LEMMA PutTwoKeeps ==
    ASSUME NEW obj, NEW p, NEW q, NEW old,
           Extends(obj, old), Piece(p), Piece(q)
    PROVE  Extends(PutTwo(obj, p, q), old)
<1>1. IsLine(obj) /\ Fitting(obj)
  BY DEF Extends
<1>2. Extends(Put(obj, p), obj)
  BY <1>1, PutKeeps
<1>3. IsLine(Put(obj, p)) /\ Fitting(Put(obj, p))
  BY <1>2 DEF Extends
<1>4. Extends(Put(Put(obj, p), q), Put(obj, p))
  BY <1>3, PutKeeps
<1>5. Extends(Put(Put(obj, p), q), obj)
  BY <1>2, <1>4, ExtendsTwice
<1> QED  BY <1>5, ExtendsTwice DEF PutTwo

LEMMA HeaderKeeps ==
    ASSUME NEW obj, IsLine(obj), Fitting(obj), NEW zone, NEW level, NEW error \in BOOLEAN
    PROVE  Extends(Header(obj, zone, level, error), obj)
<1> DEFINE zoned == Text(IF zone = <<>> THEN 9 ELSE 8)
           timed == PutTwo(obj, Text(17), zoned)
           levelled == PutTwo(timed, Text(6), Text(6))
           erring == PutTwo(levelled, Text(20), Text(8))
           full == PutTwo(erring, Number(2), Text(2))
           failed == IF error THEN full ELSE levelled
           named == PutTwo(failed, Text(10), Text(1))
<1>1. /\ Piece(Text(17)) /\ Piece(Text(6)) /\ Piece(Text(20)) /\ Piece(Text(8))
      /\ Piece(Number(2)) /\ Piece(Text(2)) /\ Piece(Text(10)) /\ Piece(Text(1))
      /\ Piece(zoned)
  BY TextIsPiece
<1>2. Extends(obj, obj)
  BY DEF Extends
<1> HIDE DEF zoned
<1>3. Extends(timed, obj)
  BY <1>1, <1>2, PutTwoKeeps
<1> HIDE DEF timed
<1>4. Extends(levelled, obj)
  BY <1>1, <1>3, PutTwoKeeps
<1> HIDE DEF levelled
<1>5. Extends(erring, obj)
  BY <1>1, <1>4, PutTwoKeeps
<1> HIDE DEF erring
<1>6. Extends(full, obj)
  BY <1>1, <1>5, PutTwoKeeps
<1> HIDE DEF full
<1>7. Extends(failed, obj)
  BY <1>4, <1>6
<1> HIDE DEF failed
<1>8. Extends(named, obj)
  BY <1>1, <1>7, PutTwoKeeps
<1>9. Header(obj, zone, level, error) = IF level <= 1 THEN named ELSE failed
  BY DEF Header, named, failed, full, erring, levelled, timed, zoned
<1> QED  BY <1>7, <1>8, <1>9

LEMMA FinishKeeps ==
    ASSUME NEW obj, IsLine(obj), Fitting(obj)
    PROVE  Extends(Finish(obj), obj)
<1> DEFINE dashed == Put(obj, Text(1))
           named == PutTwo(dashed, Text(10), Text(1))
<1>1. Piece(Text(1)) /\ Piece(Text(10)) /\ Piece(Number(3))
  BY TextIsPiece
<1>2. Extends(dashed, obj)
  BY <1>1, PutKeeps
<1> HIDE DEF dashed
<1>3. Extends(named, obj)
  BY <1>1, <1>2, PutTwoKeeps
<1> HIDE DEF named
<1>4. Extends(PutTwo(named, Number(3), Text(1)), obj)
  BY <1>1, <1>3, PutTwoKeeps
<1> QED  BY <1>4 DEF Finish, named, dashed

\* A line at any moment of its life.
LineSound(obj, back) == IsLine(obj) /\ Fitting(obj) /\ Stamped(obj, back)

\* What formatTime caches: a second that has been, in some zone; in the
\* present zone unless that was set later, as long as clocks run forwards.
CacheSound(c, zone, setAt, at, back) ==
    /\ c.second \in Nat
    /\ c.second # 0 => \E z \in Zones : c.stamp = StampOf(z, c.second)
    /\ ~back => /\ c.second <= at
                /\ \/ c.second = 0
                   \/ c.stamp = StampOf(zone, c.second)
                   \/ setAt >= c.second

ClockSound ==
    /\ now \in Seconds /\ setBack \in BOOLEAN /\ zoneSetAt \in Nat
    /\ g_logTimeZone \in Zones
    /\ ~setBack => zoneSetAt <= now

CachesSound ==
    /\ DOMAIN cache = Loggers
    /\ \A l \in Loggers : CacheSound(cache[l], g_logTimeZone, zoneSetAt, now, setBack)

LinesSound ==
    /\ DOMAIN line = Loggers
    /\ \A l \in Loggers : line[l] # NoLine => LineSound(line[l], setBack)

OutSound == out # NoLine => LineSound(out, setBack)

LogInv == ClockSound /\ CachesSound /\ LinesSound /\ OutSound

LEMMA ExtendedSound ==
    ASSUME NEW new, NEW obj, NEW back, Extends(new, obj), Stamped(obj, back)
    PROVE  LineSound(new, back)
BY DEF LineSound, Extends, Stamped

\* Counting the pieces changes nothing else.
LEMMA CountKeeps ==
    ASSUME NEW obj, IsLine(obj), Fitting(obj), NEW n
    PROVE  Extends([obj EXCEPT !.pieces = n], obj)
<1> DEFINE new == [obj EXCEPT !.pieces = n]
<1>1. /\ IsLine(new) /\ new.length = obj.length /\ new.wanted = obj.wanted
      /\ new.stamp = obj.stamp /\ new.second = obj.second /\ new.zone = obj.zone
      /\ new.zoneSetAt = obj.zoneSetAt /\ new.lost = obj.lost
  BY DEF IsLine
<1> HIDE DEF new
<1>2. Extends(new, obj)
  BY <1>1 DEF Fitting, Extends
<1> QED  BY <1>2 DEF new

\* formatTime leaves the second asked for, in the right zone or in one that
\* was right when this second began.
LEMMA FormatTimeSound ==
    ASSUME NEW c, NEW zone \in Zones, NEW setAt \in Nat, NEW at \in Nat \ {0},
           NEW back \in BOOLEAN, ~back => setAt <= at,
           CacheSound(c, zone, setAt, at, back)
    PROVE  LET new == FormatTime(c, zone, at) IN
           /\ CacheSound(new, zone, setAt, at, back)
           /\ \E z \in Zones : new.stamp = StampOf(z, at)
           /\ new.stamp = StampOf(zone, at) \/ setAt = at \/ back
<1> DEFINE new == FormatTime(c, zone, at)
<1>1. CASE at # c.second
  <2>1. new.second = at /\ new.stamp = StampOf(zone, at)
    BY <1>1 DEF FormatTime
  <2> HIDE DEF new
  <2>2. CacheSound(new, zone, setAt, at, back)
    BY <2>1 DEF CacheSound
  <2> QED  BY <2>1, <2>2 DEF new
<1>2. CASE at = c.second
  <2>1. new = c
    BY <1>2 DEF FormatTime
  <2>2. \E z \in Zones : c.stamp = StampOf(z, at)
    BY <1>2 DEF CacheSound
  <2>3. c.stamp = StampOf(zone, at) \/ setAt = at \/ back
    BY <1>2 DEF CacheSound
  <2> QED  BY <2>1, <2>2, <2>3
<1> QED  BY <1>1, <1>2

\* A line as the constructor begins it.
LEMMA FreshLine ==
    ASSUME NEW level, NEW second, NEW stamp, NEW zone, NEW setAt, NEW back
    PROVE  LET obj == [stage |-> "open", level |-> level, second |-> second,
                       pieces |-> 0, stamp |-> stamp, zone |-> zone,
                       zoneSetAt |-> setAt, length |-> 0, wanted |-> 0, lost |-> FALSE]
           IN  /\ IsLine(obj) /\ Fitting(obj)
               /\ obj.stamp = stamp /\ obj.second = second
               /\ obj.zone = zone /\ obj.zoneSetAt = setAt
<1> DEFINE obj == [stage |-> "open", level |-> level, second |-> second,
                   pieces |-> 0, stamp |-> stamp, zone |-> zone,
                   zoneSetAt |-> setAt, length |-> 0, wanted |-> 0, lost |-> FALSE]
<1>1. DOMAIN obj = {"stage", "level", "second", "pieces", "stamp", "zone", "zoneSetAt",
                    "length", "wanted", "lost"}
  OBVIOUS
<1>2. /\ obj.length = 0 /\ obj.wanted = 0 /\ obj.lost = FALSE
      /\ obj.stamp = stamp /\ obj.second = second
      /\ obj.zone = zone /\ obj.zoneSetAt = setAt
  OBVIOUS
<1> HIDE DEF obj
<1>3. IsLine(obj)
  BY <1>1 DEF IsLine
<1>4. Fitting(obj)
  BY <1>2, LogStreamAssumption DEF Fitting
<1> QED  BY <1>2, <1>3, <1>4 DEF obj

LEMMA LogInitSound == LogInit => LogInv
<1> SUFFICES ASSUME LogInit PROVE LogInv
  OBVIOUS
<1>1. ClockSound
  <2>1. now \in Seconds /\ setBack \in BOOLEAN /\ g_logTimeZone \in Zones
    BY LogStreamAssumption, Zenon DEF LogInit
  <2>2. zoneSetAt \in Nat /\ zoneSetAt <= now
    BY LogStreamAssumption DEF LogInit
  <2> QED  BY <2>1, <2>2 DEF ClockSound
<1>2. CachesSound
  <2>1. ASSUME NEW l \in Loggers
        PROVE  CacheSound(cache[l], g_logTimeZone, zoneSetAt, now, setBack)
    <3>1. cache[l].second = 0 /\ now \in Nat
      BY LogStreamAssumption DEF LogInit
    <3> QED  BY <3>1 DEF CacheSound
  <2> QED  BY <2>1 DEF LogInit, CachesSound
<1>3. LinesSound /\ OutSound
  BY DEF LogInit, LinesSound, OutSound
<1> QED  BY <1>1, <1>2, <1>3 DEF LogInv

LEMMA StartLineSound ==
    ASSUME LogInv, NEW l \in Loggers, NEW level \in Levels, NEW error \in BOOLEAN,
           StartLine(l, level, error)
    PROVE  LogInv'
<1> USE DEF clock, settings
<1> DEFINE new == FormatTime(cache[l], g_logTimeZone, now)
           obj == [stage |-> "open", level |-> level, second |-> now, pieces |-> 0,
                   stamp |-> new.stamp, zone |-> g_logTimeZone,
                   zoneSetAt |-> zoneSetAt, length |-> 0, wanted |-> 0, lost |-> FALSE]
           begun == Header(obj, g_logTimeZone, level, error)
<1>1. /\ g_logTimeZone \in Zones /\ zoneSetAt \in Nat /\ now \in Nat \ {0}
      /\ setBack \in BOOLEAN /\ (~setBack => zoneSetAt <= now)
      /\ CacheSound(cache[l], g_logTimeZone, zoneSetAt, now, setBack)
  BY LogStreamAssumption DEF LogInv, ClockSound, CachesSound
<1>2. /\ CacheSound(new, g_logTimeZone, zoneSetAt, now, setBack)
      /\ \E z \in Zones : new.stamp = StampOf(z, now)
      /\ new.stamp = StampOf(g_logTimeZone, now) \/ zoneSetAt = now \/ setBack
  BY <1>1, FormatTimeSound
<1>3. /\ DOMAIN cache = Loggers /\ DOMAIN line = Loggers
      /\ cache' = [cache EXCEPT ![l] = new]
      /\ UNCHANGED <<now, setBack, g_logTimeZone, zoneSetAt>>
      /\ out' = NoLine
  BY DEF StartLine, LogInv, CachesSound, LinesSound
<1>4. cache'[l] = new
  BY <1>3
<1>5. line' = [line EXCEPT ![l] = begun]
  BY <1>4 DEF StartLine
<1> HIDE DEF new
<1>6. /\ IsLine(obj) /\ Fitting(obj)
      /\ obj.stamp = new.stamp /\ obj.second = now
      /\ obj.zone = g_logTimeZone /\ obj.zoneSetAt = zoneSetAt
  BY FreshLine
<1> HIDE DEF obj
<1>7. Stamped(obj, setBack)
  BY <1>2, <1>6 DEF Stamped
<1>8. LineSound(begun, setBack)
  BY <1>6, <1>7, HeaderKeeps, ExtendedSound
<1> HIDE DEF begun
<1>9. ClockSound'
  BY <1>3 DEF LogInv, ClockSound
<1>10. CachesSound'
  BY <1>2, <1>3 DEF LogInv, CachesSound
<1>11. LinesSound'
  BY <1>3, <1>5, <1>8 DEF LogInv, LinesSound
<1>12. OutSound'
  BY <1>3 DEF OutSound
<1> QED  BY <1>9, <1>10, <1>11, <1>12 DEF LogInv

LEMMA AbortLineSound ==
    ASSUME LogInv, NEW l \in Loggers, NEW level \in Levels, AbortLine(l, level)
    PROVE  LogInv'
<1> USE DEF clock, settings
<1> DEFINE new == FormatTime(cache[l], g_logTimeZone, now)
<1>1. /\ g_logTimeZone \in Zones /\ zoneSetAt \in Nat /\ now \in Nat \ {0}
      /\ setBack \in BOOLEAN /\ (~setBack => zoneSetAt <= now)
      /\ CacheSound(cache[l], g_logTimeZone, zoneSetAt, now, setBack)
  BY LogStreamAssumption DEF LogInv, ClockSound, CachesSound
<1>2. CacheSound(new, g_logTimeZone, zoneSetAt, now, setBack)
  BY <1>1, FormatTimeSound
<1>3. /\ DOMAIN cache = Loggers /\ cache' = [cache EXCEPT ![l] = new]
      /\ UNCHANGED <<now, setBack, g_logTimeZone, zoneSetAt, line>>
      /\ out' = NoLine
  BY DEF AbortLine, LogInv, CachesSound
<1> HIDE DEF new
<1>4. ClockSound'
  BY <1>3 DEF LogInv, ClockSound
<1>5. CachesSound'
  BY <1>2, <1>3 DEF LogInv, CachesSound
<1>6. LinesSound' /\ OutSound'
  BY <1>3 DEF LogInv, LinesSound, OutSound
<1> QED  BY <1>4, <1>5, <1>6 DEF LogInv

LEMMA StreamPieceSound ==
    ASSUME LogInv, NEW l \in Loggers, NEW p \in Pieces, StreamPiece(l, p)
    PROVE  LogInv'
<1> USE DEF clock, settings
<1> DEFINE longer == Streamed(line[l], p)
<1>1. /\ UNCHANGED <<now, setBack, g_logTimeZone, zoneSetAt, cache>>
      /\ out' = NoLine /\ line[l] # NoLine
  BY DEF StreamPiece
<1>2. line' = [line EXCEPT ![l] = longer]
  BY DEF StreamPiece
<1>3. LineSound(line[l], setBack)
  BY <1>1 DEF LogInv, LinesSound
<1>4. Piece(p)
  BY LogStreamAssumption DEF Piece
<1>5. Extends(Put(line[l], p), line[l])
  BY <1>3, <1>4, PutKeeps DEF LineSound
<1>6. Extends(longer, Put(line[l], p))
  BY <1>5, CountKeeps DEF Extends, Streamed
<1> HIDE DEF longer
<1>7. LineSound(longer, setBack)
  BY <1>3, <1>5, <1>6, ExtendsTwice, ExtendedSound DEF LineSound
<1>8. ClockSound' /\ CachesSound' /\ OutSound'
  BY <1>1 DEF LogInv, ClockSound, CachesSound, OutSound
<1>9. LinesSound'
  BY <1>1, <1>2, <1>7 DEF LogInv, LinesSound
<1> QED  BY <1>8, <1>9 DEF LogInv

LEMMA EndLineSound ==
    ASSUME LogInv, NEW l \in Loggers, EndLine(l)
    PROVE  LogInv'
<1> USE DEF clock, settings
<1>1. /\ UNCHANGED <<now, setBack, g_logTimeZone, zoneSetAt, cache>>
      /\ line[l] # NoLine /\ out' = Finish(line[l])
      /\ line' = [line EXCEPT ![l] = NoLine]
  BY DEF EndLine
<1>2. LineSound(line[l], setBack)
  BY <1>1 DEF LogInv, LinesSound
<1>3. LineSound(Finish(line[l]), setBack)
  BY <1>2, FinishKeeps, ExtendedSound DEF LineSound
<1>4. ClockSound' /\ CachesSound' /\ OutSound'
  BY <1>1, <1>3 DEF LogInv, ClockSound, CachesSound, OutSound
<1>5. LinesSound'
  BY <1>1 DEF LogInv, LinesSound
<1> QED  BY <1>4, <1>5 DEF LogInv

\* A zone set now may differ from the cached text's, which is no younger.
LEMMA SetTimeZoneSound ==
    ASSUME LogInv, NEW zone \in Zones, SetTimeZone(zone)
    PROVE  LogInv'
<1> USE DEF clock, settings
<1>1. /\ UNCHANGED <<now, setBack, cache, line>> /\ out' = NoLine
      /\ g_logTimeZone' = zone /\ zoneSetAt' = now
  BY DEF SetTimeZone
<1>2. now \in Nat
  BY LogStreamAssumption DEF LogInv, ClockSound
<1>3. ClockSound' /\ LinesSound' /\ OutSound'
  BY <1>1, <1>2 DEF LogInv, ClockSound, LinesSound, OutSound
<1>4. ASSUME NEW c, CacheSound(c, g_logTimeZone, zoneSetAt, now, setBack)
      PROVE  CacheSound(c, zone, now, now, setBack)
  BY <1>2, <1>4 DEF CacheSound
<1>5. CachesSound'
  BY <1>1, <1>4 DEF LogInv, CachesSound
<1> QED  BY <1>3, <1>5 DEF LogInv

\* A clock that runs forwards leaves what is cached in the past; after it is
\* set back nothing is claimed of the zone.
LEMMA TickSecondSound ==
    ASSUME LogInv, NEW second \in Seconds, TickSecond(second)
    PROVE  LogInv'
<1> USE DEF clock, settings
<1>1. /\ UNCHANGED <<g_logTimeZone, zoneSetAt, cache, line>> /\ out' = NoLine
      /\ now' = second /\ setBack' = (setBack \/ second < now)
  BY DEF TickSecond
<1>2. /\ now \in Nat /\ second \in Nat /\ zoneSetAt \in Nat /\ setBack \in BOOLEAN
      /\ ~setBack => zoneSetAt <= now
  BY LogStreamAssumption DEF LogInv, ClockSound
<1>3. (setBack' \in BOOLEAN) /\ (setBack => setBack')
  BY <1>1
<1>4. ~setBack' => ~setBack /\ now <= second
  <2>1. ~setBack' => ~setBack /\ ~(second < now)
    BY <1>1, Zenon
  <2> QED  BY <1>2, <2>1
<1>5. ClockSound'
  BY <1>1, <1>2, <1>3, <1>4 DEF LogInv, ClockSound
<1>6. ASSUME NEW c, CacheSound(c, g_logTimeZone, zoneSetAt, now, setBack)
      PROVE  CacheSound(c, g_logTimeZone, zoneSetAt, second, setBack')
  BY <1>2, <1>4, <1>6 DEF CacheSound
<1>7. CachesSound'
  BY <1>1, <1>6 DEF LogInv, CachesSound
<1>8. ASSUME NEW obj, LineSound(obj, setBack)
      PROVE  LineSound(obj, setBack')
  BY <1>3, <1>8 DEF LineSound, Stamped
<1>9. LinesSound' /\ OutSound'
  BY <1>1, <1>8 DEF LogInv, LinesSound, OutSound
<1> QED  BY <1>5, <1>7, <1>9 DEF LogInv

LEMMA LogQuietSound ==
    ASSUME LogInv, UNCHANGED <<clock, g_logTimeZone, zoneSetAt, cache, line>>,
           out' = NoLine \/ out' = out
    PROVE  LogInv'
BY DEF LogInv, ClockSound, CachesSound, LinesSound, OutSound, clock

LEMMA LogNextSound == LogInv /\ [LogNext]_logVars => LogInv'
<1> SUFFICES ASSUME LogInv, [LogNext]_logVars PROVE LogInv'
  OBVIOUS
<1>1. CASE \E l \in Loggers, level \in Levels, error \in BOOLEAN :
              StartLine(l, level, error)
  BY <1>1, StartLineSound
<1>2. CASE \E l \in Loggers, p \in Pieces : StreamPiece(l, p)
  BY <1>2, StreamPieceSound
<1>3. CASE \E l \in Loggers : EndLine(l)
  BY <1>3, EndLineSound
<1>4. CASE \E zone \in Zones : SetTimeZone(zone)
  BY <1>4, SetTimeZoneSound
<1>5. CASE \E level \in Levels : SetLogLevel(level)
  BY <1>5, LogQuietSound DEF SetLogLevel
<1>6. CASE \E second \in Seconds : TickSecond(second)
  BY <1>6, TickSecondSound
<1>7. CASE UNCHANGED logVars
  BY <1>7, LogQuietSound DEF logVars, settings
<1>8. CASE \E l \in Loggers, level \in Levels : AbortLine(l, level)
  BY <1>8, AbortLineSound
<1> QED  BY <1>1, <1>2, <1>3, <1>4, <1>5, <1>6, <1>7, <1>8 DEF LogNext

LEMMA AlwaysLogInv == LogSpec => []LogInv
BY LogInitSound, LogNextSound, PTL DEF LogSpec

\* No line outgrows its FixedBuffer, and none loses a piece before it comes
\* within kMaxNumericSize of the end, whatever the sizes, the pieces and the
\* number of threads that log.
THEOREM LinesFit == LogSpec => []LineFits
<1>1. LogInv => LineFits
  BY DEF LogInv, OutSound, LineSound, Fitting, LineFits
<1> QED  BY <1>1, AlwaysLogInv, PTL

\* The cached time stamp is that of the line's second, and of its zone but
\* for the cases named, whatever the clock, the zones and the loggers do.
THEOREM StampsAreRight == LogSpec => []StampIsRight
<1>1. LogInv => StampIsRight
  BY DEF LogInv, OutSound, LineSound, Stamped, StampIsRight
<1> QED  BY <1>1, AlwaysLogInv, PTL

-----------------------------------------------------------------------------
(* Dates.  A day's number splits into centuries, years and months counted   *)
(* from March, the leap day at the end; the formulas of Date.cc compute that *)
(* split, and put it together again.                                         *)

\* The steps of GetYearMonthDay, for a days since March of year 0: the
\* century and the days in it, the year and the days in it, the month.
Century(a) == Div(4 * a + 3, 146097)
CenturyDay(a) == a - Div(Century(a) * 146097, 4)
YearIn(c) == Div(4 * c + 3, 1461)
YearDay(c) == c - Div(1461 * YearIn(c), 4)
MonthIn(e) == Div(5 * e + 2, 153)
MonthStart(m) == Div(153 * m + 2, 5)
Leap(n) == Div(n, 4)
Over(m) == Div(m, 10)

\* Their ranges.
CenturyDays == {c \in Nat : c <= 36524}
YearsIn == 0..99
YearDays == 0..365
MonthsIn == 0..11

LEMMA Quarter ==
    ASSUME NEW a \in Nat
    PROVE  Leap(a) \in Nat /\ 4 * Leap(a) <= a /\ a < 4 * Leap(a) + 4
BY DEF Leap, Div

\* What the two splits leave: b centuries or d years, and a rest.
Parted(a, b, c) ==
    /\ b \in Nat /\ Leap(b) \in Nat /\ c \in CenturyDays
    /\ a = c + 36524 * b + Leap(b)

PartedYear(c, d, e) ==
    /\ d \in YearsIn /\ Leap(d) \in Nat /\ e \in YearDays
    /\ c = e + 365 * d + Leap(d)

LEMMA Centuries ==
    ASSUME NEW a \in Nat
    PROVE  Parted(a, Century(a), CenturyDay(a))
<1> DEFINE b == Century(a)
           q == Leap(b)
<1>1. b \in Nat /\ 146097 * b <= 4 * a + 3 /\ 4 * a + 3 < 146097 * b + 146097
  BY DEF Century, Div
<1> HIDE DEF b
<1>2. q \in Nat /\ 4 * q <= b /\ b < 4 * q + 4
  BY <1>1, Quarter
<1>3. Div(b * 146097, 4) = 36524 * b + q
  BY <1>1 DEF Leap, Div
<1> HIDE DEF q
<1>4. CenturyDay(a) = a - (36524 * b + q)
  BY <1>3 DEF CenturyDay, b
<1>5. CenturyDay(a) \in CenturyDays /\ a = CenturyDay(a) + 36524 * b + q
  <2> DEFINE c == a - (36524 * b + q)
  <2>1. c \in Nat /\ c <= 36524 /\ a = c + 36524 * b + q
    BY <1>1, <1>2
  <2>2. CenturyDay(a) = c
    BY <1>4
  <2> HIDE DEF c
  <2>3. c \in CenturyDays
    BY <2>1 DEF CenturyDays
  <2> QED  BY <2>1, <2>2, <2>3
<1>6. Parted(a, b, CenturyDay(a))
  BY <1>1, <1>2, <1>5 DEF Parted, q
<1> QED  BY <1>6 DEF b

LEMMA Years ==
    ASSUME NEW c \in CenturyDays
    PROVE  PartedYear(c, YearIn(c), YearDay(c))
<1> DEFINE d == YearIn(c)
           q == Leap(d)
<1>1. d \in Nat /\ 1461 * d <= 4 * c + 3 /\ 4 * c + 3 < 1461 * d + 1461
  BY DEF YearIn, Div, CenturyDays
<1> HIDE DEF d
<1>2. q \in Nat /\ 4 * q <= d /\ d < 4 * q + 4
  <2>1. d \in Nat
    BY <1>1
  <2> QED  BY <2>1, Quarter
<1>3. Div(1461 * d, 4) = 365 * d + q
  BY <1>1 DEF Leap, Div
<1> HIDE DEF q
<1>4. YearDay(c) = c - (365 * d + q)
  BY <1>3 DEF YearDay, d
<1>5. d \in YearsIn /\ YearDay(c) \in YearDays /\ c = YearDay(c) + 365 * d + q
  BY <1>1, <1>2, <1>4 DEF CenturyDays, YearsIn, YearDays
<1>6. PartedYear(c, d, YearDay(c))
  BY <1>2, <1>5 DEF PartedYear, q
<1> QED  BY <1>6 DEF d

LEMMA Months ==
    ASSUME NEW e \in YearDays
    PROVE  MonthIn(e) \in MonthsIn /\ e - MonthStart(MonthIn(e)) + 1 \in 1..31
<1> DEFINE m == MonthIn(e)
<1>1. m \in Nat /\ 153 * m <= 5 * e + 2 /\ 5 * e + 2 < 153 * m + 153
  BY DEF MonthIn, Div, YearDays
<1> HIDE DEF m
<1>2. /\ MonthStart(m) \in Nat /\ 5 * MonthStart(m) <= 153 * m + 2
      /\ 153 * m + 2 < 5 * MonthStart(m) + 5
  BY <1>1 DEF MonthStart, Div
<1>3. m \in MonthsIn /\ e - MonthStart(m) + 1 \in 1..31
  BY <1>1, <1>2 DEF YearDays, MonthsIn
<1> QED  BY <1>3 DEF m

\* The names that GetYearMonthDay gives to the parts.
NamedYear(b, d, m) == b * 100 + d - 4800 + Over(m)
NamedMonth(m) == m + 3 - 12 * Over(m)
NamedDay(e, m) == e - MonthStart(m) + 1
Julian(b, d, m, e) ==
    GetJulianDayNumber(NamedYear(b, d, m), NamedMonth(m), NamedDay(e, m))

LEMMA Names ==
    ASSUME NEW b \in Nat, NEW d \in YearsIn, NEW m \in MonthsIn
    PROVE  NamedMonth(m) \in 1..12 /\ NamedYear(b, d, m) \in Int
BY DEF NamedMonth, NamedYear, Over, Div, MonthsIn, YearsIn

\* The year, month and day that GetYearMonthDay names make its argument.
LEMMA Recompose ==
    ASSUME NEW b \in Nat, NEW d \in YearsIn, NEW m \in MonthsIn, NEW e \in YearDays,
           Leap(b) \in Nat, Leap(d) \in Nat
    PROVE  Julian(b, d, m, e)
              = e + 365 * d + Leap(d) + 36524 * b + Leap(b) - 32044
<1> DEFINE t == Over(m)
           y == b * 100 + d
           year == NamedYear(b, d, m)
           month == NamedMonth(m)
           day == NamedDay(e, m)
<1>1. t \in 0..1 /\ month \in 1..12 /\ Div(14 - month, 12) = t
  BY DEF NamedMonth, Over, Div, MonthsIn
<1>2. MonthStart(m) \in Nat
  BY DEF MonthStart, Div, MonthsIn
<1>3. year + 4800 - t = y /\ month + 12 * t - 3 = m
  BY <1>1 DEF NamedYear, NamedMonth, MonthsIn, YearsIn
<1>4. /\ y \in Nat /\ Div(y, 4) = 25 * b + Leap(d) /\ Div(y, 100) = b
      /\ Div(y, 400) = Leap(b) /\ y * 365 = 36500 * b + 365 * d
  BY DEF Leap, Div, YearsIn
<1>5. day = e - MonthStart(m) + 1
  BY DEF NamedDay
<1> HIDE DEF t, y, year, month, day
<1>6. GetJulianDayNumber(year, month, day)
         = day + Div(153 * (month + 12 * t - 3) + 2, 5) + (year + 4800 - t) * 365
           + Div(year + 4800 - t, 4) - Div(year + 4800 - t, 100)
           + Div(year + 4800 - t, 400) - 32045
  BY <1>1 DEF GetJulianDayNumber
<1>7. GetJulianDayNumber(year, month, day)
         = day + MonthStart(m) + y * 365 + Div(y, 4) - Div(y, 100) + Div(y, 400) - 32045
  BY <1>3, <1>6 DEF MonthStart
<1>8. GetJulianDayNumber(year, month, day)
         = e + 365 * d + Leap(d) + 36524 * b + Leap(b) - 32044
  <2> DEFINE s == MonthStart(m)
  <2>1. GetJulianDayNumber(year, month, day)
           = (e - s + 1) + s + (36500 * b + 365 * d) + (25 * b + Leap(d)) - b + Leap(b)
             - 32045
    BY <1>4, <1>5, <1>7
  <2> HIDE DEF s
  <2>2. s \in Nat /\ e \in Nat /\ d \in Nat
    BY <1>2 DEF YearDays, YearsIn, s
  <2> QED  BY <2>1, <2>2
<1> QED  BY <1>8 DEF Julian, year, month, day

\* Every day since March of the year -4800 has a date that gives its number
\* back: getYearMonthDay and getJulianDayNumber are inverse (Date.cc:12, 22).
THEOREM DateComesBack ==
    ASSUME NEW jd \in Int, jd >= -32044
    PROVE  LET date == GetYearMonthDay(jd) IN
           /\ date.month \in 1..12 /\ date.day \in 1..31 /\ date.year \in Int
           /\ GetJulianDayNumber(date.year, date.month, date.day) = jd
<1> DEFINE date == GetYearMonthDay(jd)
           a == jd + 32044
           b == Century(a)
           c == CenturyDay(a)
           d == YearIn(c)
           e == YearDay(c)
           m == MonthIn(e)
<1>1. /\ date.year = NamedYear(b, d, m)
      /\ date.month = NamedMonth(m) /\ date.day = NamedDay(e, m)
  BY DEF GetYearMonthDay, Century, CenturyDay, YearIn, YearDay, MonthIn, MonthStart,
         Over, NamedYear, NamedMonth, NamedDay
<1> HIDE DEF date
<1>2. a \in Nat /\ jd = a - 32044
  OBVIOUS
<1> HIDE DEF a
<1>3. Parted(a, b, c)
  BY <1>2, Centuries
<1> HIDE DEF b, c
<1>4. c \in CenturyDays
  BY <1>3 DEF Parted
<1>5. PartedYear(c, d, e)
  BY <1>4, Years
<1> HIDE DEF d, e
<1>6. b \in Nat /\ Leap(b) \in Nat /\ a = c + 36524 * b + Leap(b)
  BY <1>3 DEF Parted
<1>11. /\ d \in YearsIn /\ Leap(d) \in Nat /\ e \in YearDays
      /\ c = e + 365 * d + Leap(d)
  BY <1>5 DEF PartedYear
<1>7. m \in MonthsIn /\ NamedDay(e, m) \in 1..31
  BY <1>11, Months DEF NamedDay
<1> HIDE DEF m
<1>8. NamedMonth(m) \in 1..12 /\ NamedYear(b, d, m) \in Int
  BY <1>6, <1>7, <1>11, Names
<1>9. Julian(b, d, m, e) = e + 365 * d + Leap(d) + 36524 * b + Leap(b) - 32044
  BY <1>6, <1>7, <1>11, Recompose
<1>10. Julian(b, d, m, e) = jd
  BY <1>2, <1>6, <1>9, <1>11 DEF YearDays, YearsIn
<1> QED  BY <1>1, <1>7, <1>8, <1>10 DEF Julian, date

-----------------------------------------------------------------------------
(* The day after: the split is the only one, and a step of one day moves one *)
(* part of it.                                                               *)

\* Counted from March, year d of century b has day 365 if its February,
\* which is the last month, has a leap day.
LastDay(b, d) == IF d % 4 = 3 /\ (d # 99 \/ b % 4 = 3) THEN 365 ELSE 364

\* Day number a is day e of year d of century b.
IsDay(a, b, d, e) ==
    /\ b \in Nat /\ d \in YearsIn /\ e \in YearDays /\ e <= LastDay(b, d)
    /\ a = e + 365 * d + Leap(d) + 36524 * b + Leap(b)

LEMMA LeapFebruary ==
    ASSUME NEW b \in Nat, NEW d \in YearsIn
    PROVE  IsLeap(b * 100 + d - 4800 + 1) <=> LastDay(b, d) = 365
BY DEF IsLeap, LastDay, YearsIn

\* The days that a century and a year may have.
CenturyFits(b, c) == c <= 36523 \/ (c = 36524 /\ b % 4 = 3)
YearFits(d, e) == e <= 364 \/ (e = 365 /\ d % 4 = 3)

LEMMA CenturyIs ==
    ASSUME NEW a \in Nat, NEW b \in Nat, NEW c \in Nat, a = c + 36524 * b + Leap(b)
    PROVE  /\ Century(a) = b <=> CenturyFits(b, c)
           /\ Century(a) = b => CenturyDay(a) = c
<1> DEFINE q == Leap(b)
<1>1. q \in Nat /\ q = b \div 4 /\ a = c + 36524 * b + q
  BY DEF Leap, Div
<1>2. Century(a) = (4 * a + 3) \div 146097
  BY DEF Century, Div
<1>3. Div(b * 146097, 4) = 36524 * b + q
  BY <1>1 DEF Div
<1> HIDE DEF q
<1>4. b = (4 * a + 3) \div 146097 <=> CenturyFits(b, c)
  BY <1>1 DEF CenturyFits
<1>5. a - (36524 * b + q) = c
  BY <1>1
<1> QED  BY <1>2, <1>3, <1>4, <1>5 DEF CenturyDay

LEMMA YearIs ==
    ASSUME NEW c \in Nat, NEW d \in Nat, NEW e \in Nat, c = e + 365 * d + Leap(d)
    PROVE  /\ YearIn(c) = d <=> YearFits(d, e)
           /\ YearIn(c) = d => YearDay(c) = e
<1> DEFINE q == Leap(d)
<1>1. q \in Nat /\ q = d \div 4 /\ c = e + 365 * d + q
  BY DEF Leap, Div
<1>2. YearIn(c) = (4 * c + 3) \div 1461
  BY DEF YearIn, Div
<1>3. Div(1461 * d, 4) = 365 * d + q
  BY <1>1 DEF Div
<1> HIDE DEF q
<1>4. d = (4 * c + 3) \div 1461 <=> YearFits(d, e)
  BY <1>1 DEF YearFits
<1>5. c - (365 * d + q) = e
  BY <1>1
<1> QED  BY <1>2, <1>3, <1>4, <1>5 DEF YearDay

LEMMA FitsTogether ==
    ASSUME NEW b \in Nat, NEW d \in YearsIn, NEW e \in YearDays,
           NEW c \in Nat, c = e + 365 * d + (d \div 4)
    PROVE  CenturyFits(b, c) /\ YearFits(d, e) <=> e <= LastDay(b, d)
BY DEF CenturyFits, YearFits, LastDay, YearsIn, YearDays

LEMMA LeapNat ==
    ASSUME NEW a \in Nat
    PROVE  Leap(a) \in Nat /\ Leap(a) = a \div 4
BY DEF Leap, Div

LEMMA Decomposed ==
    ASSUME NEW a \in Nat
    PROVE  IsDay(a, Century(a), YearIn(CenturyDay(a)), YearDay(CenturyDay(a)))
<1> DEFINE b == Century(a)
           c == CenturyDay(a)
           d == YearIn(c)
           e == YearDay(c)
<1>1. Parted(a, b, c)
  BY Centuries
<1>2. b \in Nat /\ c \in CenturyDays /\ a = c + 36524 * b + Leap(b)
  BY <1>1 DEF Parted
<1>3. c \in Nat
  <2> HIDE DEF c
  <2> QED  BY <1>2 DEF CenturyDays
<1>4. CenturyFits(b, c)
  BY <1>2, <1>3, CenturyIs
<1>5. PartedYear(c, d, e)
  BY <1>2, Years
<1>6. d \in YearsIn /\ e \in YearDays /\ c = e + 365 * d + Leap(d)
  BY <1>5 DEF PartedYear
<1>7. d \in Nat /\ e \in Nat
  BY <1>6 DEF YearsIn, YearDays
<1>8. YearFits(d, e)
  BY <1>3, <1>6, <1>7, YearIs
<1> HIDE DEF b, c, d, e
<1>9. Leap(d) = d \div 4 /\ Leap(d) \in Nat /\ Leap(b) \in Nat
  BY <1>2, <1>7, LeapNat
<1>10. e <= LastDay(b, d)
  BY <1>2, <1>3, <1>4, <1>6, <1>8, <1>9, FitsTogether
<1>11. a = e + 365 * d + Leap(d) + 36524 * b + Leap(b)
  BY <1>2, <1>6, <1>7, <1>9
<1>12. IsDay(a, b, d, e)
  BY <1>2, <1>6, <1>10, <1>11 DEF IsDay
<1> QED  BY <1>12 DEF b, c, d, e

LEMMA OneDecomposition ==
    ASSUME NEW a \in Nat, NEW b, NEW d, NEW e, IsDay(a, b, d, e)
    PROVE  /\ Century(a) = b /\ YearIn(CenturyDay(a)) = d
           /\ YearDay(CenturyDay(a)) = e
<1> DEFINE c == e + 365 * d + Leap(d)
<1>1. b \in Nat /\ d \in YearsIn /\ e \in YearDays /\ e <= LastDay(b, d)
  BY DEF IsDay
<1>2. d \in Nat /\ e \in Nat
  BY <1>1 DEF YearsIn, YearDays
<1>3. Leap(d) = d \div 4 /\ Leap(d) \in Nat /\ Leap(b) \in Nat
  BY <1>1, <1>2, LeapNat
<1>4. c \in Nat /\ a = c + 36524 * b + Leap(b) /\ c = e + 365 * d + (d \div 4)
  BY <1>1, <1>2, <1>3 DEF IsDay
<1>5. c = e + 365 * d + Leap(d)
  OBVIOUS
<1> HIDE DEF c
<1>6. CenturyFits(b, c) /\ YearFits(d, e)
  BY <1>1, <1>4, FitsTogether
<1>7. Century(a) = b /\ CenturyDay(a) = c
  BY <1>1, <1>4, <1>6, CenturyIs
<1>8. YearIn(c) = d /\ YearDay(c) = e
  <2>1. c \in Nat
    BY <1>4
  <2> QED  BY <1>2, <1>5, <1>6, <2>1, YearIs
<1> QED  BY <1>7, <1>8

\* The day after a day: in the same year, the next year or the next century.
LEMMA DayBehind ==
    ASSUME NEW a \in Nat, NEW b, NEW d, NEW e, IsDay(a, b, d, e)
    PROVE  \/ e < LastDay(b, d) /\ IsDay(a + 1, b, d, e + 1)
           \/ e = LastDay(b, d) /\ d < 99 /\ IsDay(a + 1, b, d + 1, 0)
           \/ e = LastDay(b, d) /\ d = 99 /\ IsDay(a + 1, b + 1, 0, 0)
<1>1. b \in Nat /\ d \in YearsIn /\ e \in YearDays /\ e <= LastDay(b, d)
  BY DEF IsDay
<1>2. d \in 0..99 /\ e \in 0..365 /\ LastDay(b, d) \in {364, 365}
  BY <1>1 DEF YearsIn, YearDays, LastDay
<1>3. a = e + 365 * d + (d \div 4) + 36524 * b + (b \div 4)
  <2>1. Leap(d) = d \div 4 /\ Leap(b) = b \div 4
    BY <1>1, <1>2, LeapNat
  <2> QED  BY <2>1 DEF IsDay
<1>4. CASE e < LastDay(b, d)
  <2>1. e + 1 \in YearDays /\ e + 1 <= LastDay(b, d)
    BY <1>2, <1>4 DEF YearDays
  <2>2. a + 1 = e + 1 + 365 * d + (d \div 4) + 36524 * b + (b \div 4)
    BY <1>1, <1>2, <1>3
  <2>3. Leap(d) = d \div 4 /\ Leap(b) = b \div 4
    BY <1>1, <1>2, LeapNat
  <2> QED  BY <1>1, <1>4, <2>1, <2>2, <2>3 DEF IsDay
<1>5. CASE e = LastDay(b, d) /\ d < 99
  <2>1. d + 1 \in YearsIn /\ 0 \in YearDays /\ 0 <= LastDay(b, d + 1)
    BY <1>1, <1>2, <1>5 DEF YearsIn, YearDays, LastDay
  <2>2. e = IF d % 4 = 3 THEN 365 ELSE 364
    BY <1>2, <1>5 DEF LastDay
  <2>3. a + 1 = 0 + 365 * (d + 1) + ((d + 1) \div 4) + 36524 * b + (b \div 4)
    BY <1>1, <1>2, <1>3, <2>2
  <2>4. Leap(d + 1) = (d + 1) \div 4 /\ Leap(b) = b \div 4
    BY <1>1, <1>2 DEF Leap, Div
  <2> QED  BY <1>1, <1>5, <2>1, <2>3, <2>4 DEF IsDay
<1>6. CASE e = LastDay(b, d) /\ d = 99
  <2>1. b + 1 \in Nat /\ 0 \in YearsIn /\ 0 \in YearDays /\ 0 <= LastDay(b + 1, 0)
    BY <1>1 DEF YearsIn, YearDays, LastDay
  <2>2. e = IF b % 4 = 3 THEN 365 ELSE 364
    BY <1>6 DEF LastDay
  <2>3. a + 1 = 0 + 365 * 0 + 0 + 36524 * (b + 1) + ((b + 1) \div 4)
    BY <1>1, <1>3, <1>6, <2>2
  <2>4. Leap(0) = 0 /\ Leap(b + 1) = (b + 1) \div 4
    BY <1>1 DEF Leap, Div
  <2> QED  BY <1>6, <2>1, <2>3, <2>4 DEF IsDay
<1> QED  BY <1>1, <1>2, <1>4, <1>5, <1>6

\* The date of day e of year d of century b.
DateIn(b, d, e) ==
    [year |-> NamedYear(b, d, MonthIn(e)), month |-> NamedMonth(MonthIn(e)),
     day |-> NamedDay(e, MonthIn(e))]

\* The months from March to January, and which month a day is in.
LEMMA MonthLength ==
    ASSUME NEW m \in MonthsIn, m # 11, NEW y
    PROVE  DaysIn(y, NamedMonth(m)) = MonthStart(m + 1) - MonthStart(m)
BY DEF MonthsIn, MonthStart, Over, NamedMonth, Div, DaysIn

LEMMA MonthOfDay ==
    ASSUME NEW e \in YearDays, NEW m \in MonthsIn
    PROVE  MonthIn(e) = m <=> MonthStart(m) <= e /\ (m = 11 \/ e < MonthStart(m + 1))
BY DEF MonthIn, MonthStart, Div, MonthsIn, YearDays

LEMMA MonthFacts ==
    ASSUME NEW m \in MonthsIn, m # 11
    PROVE  /\ m + 1 \in MonthsIn
           /\ MonthStart(m) \in Nat /\ MonthStart(m + 1) \in Nat
           /\ MonthStart(m) < MonthStart(m + 1)
           /\ m + 1 # 11 => MonthStart(m + 1) + 1 < MonthStart(m + 2)
           /\ NamedMonth(m) \in 1..12
           /\ m # 9 => /\ NamedMonth(m) < 12 /\ NamedMonth(m + 1) = NamedMonth(m) + 1
                       /\ Over(m + 1) = Over(m)
           /\ m = 9 => /\ NamedMonth(m) = 12 /\ NamedMonth(m + 1) = 1
                       /\ Over(m + 1) = Over(m) + 1
           /\ Over(m) \in 0..1
BY DEF MonthsIn, MonthStart, NamedMonth, Over, Div

LEMMA February ==
    11 \in MonthsIn /\ MonthStart(11) = 337 /\ NamedMonth(11) = 2 /\ Over(11) = 1
BY DEF MonthsIn, MonthStart, NamedMonth, Over, Div

LEMMA FebruaryLength ==
    ASSUME NEW b \in Nat, NEW d \in YearsIn
    PROVE  /\ DaysIn(NamedYear(b, d, 11), 2) = LastDay(b, d) - 336
           /\ LastDay(b, d) \in {364, 365}
<1>1. LastDay(b, d) \in {364, 365}
  BY DEF LastDay
<1>2. NamedYear(b, d, 11) = b * 100 + d - 4800 + 1
  BY February DEF NamedYear
<1>3. IsLeap(NamedYear(b, d, 11)) <=> LastDay(b, d) = 365
  BY <1>2, LeapFebruary
<1>4. DaysIn(NamedYear(b, d, 11), 2) = IF IsLeap(NamedYear(b, d, 11)) THEN 29 ELSE 28
  BY DEF DaysIn
<1> QED  BY <1>1, <1>3, <1>4

LEMMA DateFields ==
    ASSUME NEW b, NEW d, NEW e
    PROVE  LET m == MonthIn(e) IN
           DateIn(b, d, e) = [year |-> NamedYear(b, d, m), month |-> NamedMonth(m),
                              day |-> NamedDay(e, m)]
BY DEF DateIn

LEMMA DayAfterOf ==
    ASSUME NEW y, NEW m, NEW n
    PROVE  DayAfter([year |-> y, month |-> m, day |-> n]) =
              IF n < DaysIn(y, m) THEN [year |-> y, month |-> m, day |-> n + 1]
              ELSE IF m < 12 THEN [year |-> y, month |-> m + 1, day |-> 1]
              ELSE [year |-> y + 1, month |-> 1, day |-> 1]
<1> DEFINE date == [year |-> y, month |-> m, day |-> n]
<1>1. date.year = y /\ date.month = m /\ date.day = n
  OBVIOUS
<1>2. [date EXCEPT !.day = date.day + 1] = [year |-> y, month |-> m, day |-> n + 1]
  OBVIOUS
<1> HIDE DEF date
<1>3. DayAfter(date) =
         IF n < DaysIn(y, m) THEN [date EXCEPT !.day = date.day + 1]
         ELSE IF m < 12 THEN [year |-> y, month |-> m + 1, day |-> 1]
         ELSE [year |-> y + 1, month |-> 1, day |-> 1]
  BY <1>1 DEF DayAfter
<1> QED  BY <1>2, <1>3 DEF date

LEMMA NextDayInYear ==
    ASSUME NEW b \in Nat, NEW d \in YearsIn, NEW e \in YearDays, e < LastDay(b, d)
    PROVE  DateIn(b, d, e + 1) = DayAfter(DateIn(b, d, e))
<1> DEFINE m == MonthIn(e)
           y == NamedYear(b, d, m)
           date == [year |-> y, month |-> NamedMonth(m), day |-> NamedDay(e, m)]
<1>1. m \in MonthsIn
  BY Months
<1>2. e \in Nat /\ e + 1 \in YearDays /\ d \in 0..99
  BY DEF YearDays, YearsIn, LastDay
<1>3. MonthStart(m) <= e /\ (m = 11 \/ e < MonthStart(m + 1))
  BY <1>1, MonthOfDay
<1>4. DateIn(b, d, e) = date
  BY DateFields
<1> HIDE DEF m
<1>5. NamedDay(e, m) = e - MonthStart(m) + 1
  BY DEF NamedDay
<1>6. DayAfter(date) =
         IF NamedDay(e, m) < DaysIn(y, NamedMonth(m))
         THEN [year |-> y, month |-> NamedMonth(m), day |-> NamedDay(e, m) + 1]
         ELSE IF NamedMonth(m) < 12
              THEN [year |-> y, month |-> NamedMonth(m) + 1, day |-> 1]
              ELSE [year |-> y + 1, month |-> 1, day |-> 1]
  BY DayAfterOf
<1>7. CASE m = 11
  <2>1. NamedDay(e, m) = e - 336 /\ MonthStart(11) = 337 /\ NamedMonth(m) = 2
    BY <1>2, <1>5, <1>7, February
  <2>2. DaysIn(y, NamedMonth(m)) = LastDay(b, d) - 336 /\ LastDay(b, d) \in {364, 365}
    BY <1>7, <2>1, FebruaryLength
  <2>3. NamedDay(e, m) < DaysIn(y, NamedMonth(m))
    BY <1>2, <2>1, <2>2
  <2>4. MonthIn(e + 1) = 11
    BY <1>2, <1>3, <1>7, <2>1, MonthOfDay, February
  <2>5. NamedDay(e + 1, 11) = NamedDay(e, m) + 1
    BY <1>2, <1>7, <2>1 DEF NamedDay
  <2>6. DateIn(b, d, e + 1)
           = [year |-> y, month |-> NamedMonth(m), day |-> NamedDay(e, m) + 1]
    BY <1>7, <2>4, <2>5, DateFields
  <2> HIDE DEF y, date
  <2> QED  BY <1>4, <1>6, <2>3, <2>6
<1>8. CASE m # 11 /\ e + 1 < MonthStart(m + 1)
  <2>1. /\ MonthStart(m) \in Nat /\ MonthStart(m + 1) \in Nat
        /\ DaysIn(y, NamedMonth(m)) = MonthStart(m + 1) - MonthStart(m)
    BY <1>1, <1>8, MonthFacts, MonthLength
  <2>2. NamedDay(e, m) < DaysIn(y, NamedMonth(m))
    BY <1>2, <1>5, <1>8, <2>1
  <2>3. MonthIn(e + 1) = m
    <3>1. MonthStart(m) <= e + 1
      BY <1>2, <1>3, <2>1
    <3> QED  BY <1>1, <1>2, <1>8, <3>1, MonthOfDay
  <2>4. NamedDay(e + 1, m) = NamedDay(e, m) + 1
    BY <1>2, <2>1 DEF NamedDay
  <2>5. DateIn(b, d, e + 1)
           = [year |-> y, month |-> NamedMonth(m), day |-> NamedDay(e, m) + 1]
    BY <2>3, <2>4, DateFields
  <2> HIDE DEF y, date
  <2> QED  BY <1>4, <1>6, <2>2, <2>5
<1>9. CASE m # 11 /\ ~(e + 1 < MonthStart(m + 1))
  <2>1. /\ MonthStart(m) \in Nat /\ MonthStart(m + 1) \in Nat
        /\ DaysIn(y, NamedMonth(m)) = MonthStart(m + 1) - MonthStart(m)
        /\ m + 1 \in MonthsIn /\ NamedMonth(m) \in 1..12
    BY <1>1, <1>9, MonthFacts, MonthLength
  <2>2. e + 1 = MonthStart(m + 1)
    BY <1>2, <1>3, <1>9, <2>1
  <2>3. ~(NamedDay(e, m) < DaysIn(y, NamedMonth(m)))
    BY <1>2, <1>5, <2>1, <2>2
  <2>4. MonthIn(e + 1) = m + 1
    <3>1. m \in 0..10
      BY <1>1, <1>9 DEF MonthsIn
    <3>2. m + 1 = 11 \/ e + 1 < MonthStart((m + 1) + 1)
      <4>1. (m + 1) + 1 = m + 2
        BY <3>1
      <4>2. m + 1 # 11 => MonthStart(m + 1) + 1 < MonthStart(m + 2)
        BY <1>1, <1>9, MonthFacts
      <4>3. m + 1 # 11 => MonthStart(m + 2) \in Nat
        BY <3>1 DEF MonthStart, Div
      <4> QED  BY <2>1, <2>2, <4>1, <4>2, <4>3
    <3>3. MonthStart(m + 1) <= e + 1
      BY <2>1, <2>2
    <3> QED  BY <1>2, <2>1, <3>2, <3>3, MonthOfDay
  <2>5. NamedDay(e + 1, m + 1) = 1
    BY <2>1, <2>2 DEF NamedDay
  <2>6. DateIn(b, d, e + 1)
           = [year |-> NamedYear(b, d, m + 1), month |-> NamedMonth(m + 1), day |-> 1]
    BY <2>4, <2>5, DateFields
  <2>7. CASE m # 9
    <3>1. /\ NamedMonth(m) < 12 /\ NamedMonth(m + 1) = NamedMonth(m) + 1
          /\ Over(m + 1) = Over(m)
      BY <1>1, <1>9, <2>7, MonthFacts
    <3>2. NamedYear(b, d, m + 1) = y
      BY <3>1 DEF NamedYear
    <3> HIDE DEF y, date
    <3> QED  BY <1>4, <1>6, <2>3, <2>6, <3>1, <3>2
  <2>8. CASE m = 9
    <3>1. /\ NamedMonth(m) = 12 /\ NamedMonth(m + 1) = 1
          /\ Over(m + 1) = Over(m) + 1 /\ Over(m) \in 0..1
      BY <1>1, <1>9, <2>8, MonthFacts
    <3>2. NamedYear(b, d, m + 1) = y + 1
      BY <1>2, <3>1 DEF NamedYear
    <3> HIDE DEF y, date
    <3> QED  BY <1>4, <1>6, <2>3, <2>6, <3>1, <3>2
  <2> QED  BY <2>7, <2>8
<1> QED  BY <1>7, <1>8, <1>9

\* The first of March follows the last of February.
LEMMA NextYear ==
    ASSUME NEW b \in Nat, NEW d \in YearsIn, NEW b2, NEW d2,
           b2 * 100 + d2 = b * 100 + d + 1, b2 \in Nat, d2 \in YearsIn
    PROVE  DateIn(b2, d2, 0) = DayAfter(DateIn(b, d, LastDay(b, d)))
<1> DEFINE e == LastDay(b, d)
           y == NamedYear(b, d, 11)
           date == [year |-> y, month |-> 2, day |-> e - 336]
<1>1. e \in {364, 365} /\ e \in YearDays /\ DaysIn(y, 2) = e - 336
  BY FebruaryLength DEF YearDays
<1>2. /\ 11 \in MonthsIn /\ MonthStart(11) = 337 /\ NamedMonth(11) = 2 /\ Over(11) = 1
  BY February
<1> HIDE DEF e
<1>3. MonthIn(e) = 11
  BY <1>1, <1>2, MonthOfDay
<1>4. NamedDay(e, 11) = e - 336
  BY <1>1, <1>2 DEF NamedDay
<1>5. DateIn(b, d, e) = date
  BY <1>2, <1>3, <1>4, DateFields
<1>6. MonthIn(0) = 0 /\ NamedMonth(0) = 3 /\ NamedDay(0, 0) = 1 /\ Over(0) = 0
  BY DEF MonthIn, NamedMonth, NamedDay, MonthStart, Over, Div
<1>7. NamedYear(b2, d2, 0) = y
  <2>1. d \in 0..99 /\ d2 \in 0..99
    BY DEF YearsIn
  <2> QED  BY <1>2, <1>6, <2>1 DEF NamedYear
<1>8. DateIn(b2, d2, 0) = [year |-> y, month |-> 3, day |-> 1]
  BY <1>6, <1>7, DateFields
<1> HIDE DEF y
<1>9. DayAfter(date) = [year |-> y, month |-> 3, day |-> 1]
  <2>1. ~(e - 336 < DaysIn(y, 2))
    BY <1>1
  <2>2. DayAfter(date) = IF e - 336 < DaysIn(y, 2)
                         THEN [year |-> y, month |-> 2, day |-> e - 336 + 1]
                         ELSE IF 2 < 12 THEN [year |-> y, month |-> 2 + 1, day |-> 1]
                         ELSE [year |-> y + 1, month |-> 1, day |-> 1]
    BY DayAfterOf, ZenonT(60)
  <2>3. 2 < 12 /\ 2 + 1 = 3
    OBVIOUS
  <2> HIDE DEF date
  <2> QED  BY <2>1, <2>2, <2>3
<1> QED  BY <1>5, <1>8, <1>9 DEF e

LEMMA DateOfDay ==
    ASSUME NEW jd \in Int, jd >= -32044, NEW b, NEW d, NEW e, IsDay(jd + 32044, b, d, e)
    PROVE  GetYearMonthDay(jd) = DateIn(b, d, e)
<1> DEFINE a == jd + 32044
<1>1. GetYearMonthDay(jd) = DateIn(Century(a), YearIn(CenturyDay(a)), YearDay(CenturyDay(a)))
  BY DEF GetYearMonthDay, DateIn, Century, CenturyDay, YearIn, YearDay, MonthIn,
         MonthStart, Over, NamedYear, NamedMonth, NamedDay
<1>2. a \in Nat
  OBVIOUS
<1> HIDE DEF a
<1>3. /\ Century(a) = b /\ YearIn(CenturyDay(a)) = d /\ YearDay(CenturyDay(a)) = e
  BY <1>2, OneDecomposition DEF a
<1> QED  BY <1>1, <1>3

\* The formulas of Date.cc turn the number of the next day into the date that
\* follows in the calendar: the next day of the month, the first of the next
\* month, or the first of January; leap days included (Date.cc:22).
THEOREM NextDayIsRight ==
    ASSUME NEW jd \in Int, jd >= -32044
    PROVE  GetYearMonthDay(jd + 1) = DayAfter(GetYearMonthDay(jd))
<1> DEFINE a == jd + 32044
<1>1. a \in Nat /\ (jd + 1) + 32044 = a + 1 /\ jd + 1 \in Int /\ jd + 1 >= -32044
  OBVIOUS
<1> HIDE DEF a
<1>2. PICK b, d, e : IsDay(a, b, d, e)
  BY <1>1, Decomposed
<1>3. b \in Nat /\ d \in YearsIn /\ e \in YearDays
  BY <1>2 DEF IsDay
<1>4. GetYearMonthDay(jd) = DateIn(b, d, e)
  BY <1>2, DateOfDay DEF a
<1>5. ASSUME NEW b2, NEW d2, NEW e2, IsDay(a + 1, b2, d2, e2)
      PROVE  GetYearMonthDay(jd + 1) = DateIn(b2, d2, e2)
  BY <1>1, <1>5, DateOfDay
<1>6. CASE e < LastDay(b, d) /\ IsDay(a + 1, b, d, e + 1)
  BY <1>3, <1>4, <1>5, <1>6, NextDayInYear
<1>7. CASE e = LastDay(b, d) /\ d < 99 /\ IsDay(a + 1, b, d + 1, 0)
  <2>1. b * 100 + (d + 1) = b * 100 + d + 1 /\ d + 1 \in YearsIn
    BY <1>3, <1>7 DEF YearsIn
  <2> QED  BY <1>3, <1>4, <1>5, <1>7, <2>1, NextYear
<1>8. CASE e = LastDay(b, d) /\ d = 99 /\ IsDay(a + 1, b + 1, 0, 0)
  <2>1. (b + 1) * 100 + 0 = b * 100 + d + 1 /\ 0 \in YearsIn /\ b + 1 \in Nat
    BY <1>3, <1>8 DEF YearsIn
  <2> QED  BY <1>3, <1>4, <1>5, <1>8, <2>1, NextYear
<1> QED  BY <1>1, <1>2, <1>6, <1>7, <1>8, DayBehind

-----------------------------------------------------------------------------
(* Times of day *)

\* The day of a time and the seconds in it, as BreakTime corrects them.
Rest(t) == Mod(t, kSecondsPerDay)
DayOf(t) == Div(t, kSecondsPerDay) - (IF Rest(t) < 0 THEN 1 ELSE 0)
SecondOf(t) == IF Rest(t) < 0 THEN Rest(t) + kSecondsPerDay ELSE Rest(t)

\* Time t is second s of day n.
DaySeconds == {s \in Nat : s < 86400}
InDay(t, n, s) == n \in Int /\ s \in DaySeconds /\ t = n * kSecondsPerDay + s

LEMMA Epoch == JulianDayOf1970 = 2440588
BY SMT DEF JulianDayOf1970, GetJulianDayNumber, Div

LEMMA PerDay == kSecondsPerDay = 86400
BY SMT DEF kSecondsPerDay
LEMMA DaySplit ==
    ASSUME NEW t \in Int
    PROVE  InDay(t, DayOf(t), SecondOf(t))
<1> DEFINE d == t \div 86400
           q == Div(t, 86400)
<1>1. /\ d \in Int /\ 86400 * d <= t /\ t < 86400 * d + 86400
      /\ t % 86400 = t - 86400 * d
  BY SMT
<1>2. q = IF t < 0 /\ t % 86400 # 0 THEN d + 1 ELSE d
  BY SMT DEF Div
<1>3. Rest(t) = t - 86400 * q
  BY PerDay, SMT DEF Rest, Mod
<1>4. DayOf(t) = q - (IF Rest(t) < 0 THEN 1 ELSE 0)
  BY PerDay, SMT DEF DayOf
<1>5. SecondOf(t) = IF Rest(t) < 0 THEN Rest(t) + 86400 ELSE Rest(t)
  BY PerDay, SMT DEF SecondOf
<1> HIDE DEF d, q
<1>6. DayOf(t) = d /\ SecondOf(t) = t - 86400 * d
  <2>1. CASE t < 0 /\ t % 86400 # 0
    <3>1. q = d + 1 /\ t - 86400 * d # 0
      BY <1>1, <1>2, <2>1, SMT
    <3>2. Rest(t) = t - 86400 * d - 86400
      BY <1>1, <1>3, <3>1, SMT
    <3>3. Rest(t) < 0
      BY <1>1, <3>2, SMT
    <3> QED  BY <1>1, <1>4, <1>5, <3>1, <3>2, <3>3, SMT
  <2>2. CASE ~(t < 0 /\ t % 86400 # 0)
    <3>1. q = d
      BY <1>2, <2>2, SMT
    <3>2. Rest(t) = t - 86400 * d
      BY <1>3, <3>1, SMT
    <3>3. ~(Rest(t) < 0)
      BY <1>1, <3>2, SMT
    <3> QED  BY <1>1, <1>4, <1>5, <3>1, <3>2, <3>3, SMT
  <2> QED  BY <2>1, <2>2
<1> DEFINE r == t - 86400 * d
<1>7. t = d * 86400 + r
  BY <1>1, SMT
<1>10. r \in Int /\ 0 <= r /\ r <= 86399
  BY <1>1, SMT
<1>8. SecondOf(t) = r
  BY <1>6
<1> HIDE DEF r
<1>9. r \in DaySeconds
  BY <1>10, SMT DEF DaySeconds
<1> QED  BY <1>1, <1>6, <1>7, <1>8, <1>9, PerDay, SMT DEF InDay

LEMMA SecondSplit ==
    ASSUME NEW s \in DaySeconds
    PROVE  /\ Div(Div(s, 60), 60) \in 0..23
           /\ Mod(Div(s, 60), 60) \in 0..59 /\ Mod(s, 60) \in 0..59
           /\ s = Div(Div(s, 60), 60) * 3600 + Mod(Div(s, 60), 60) * 60 + Mod(s, 60)
<1> DEFINE m == Div(s, 60)
<1>1. s \in Nat /\ s < 86400
  BY SMT DEF DaySeconds
<1>2. m \in Nat /\ 60 * m <= s /\ s < 60 * m + 60
  BY <1>1, SMT DEF Div
<1>3. Mod(s, 60) = s - 60 * m
  BY SMT DEF Mod
<1> HIDE DEF m
<1> DEFINE h == Div(m, 60)
<1>4. h \in Nat /\ 60 * h <= m /\ m < 60 * h + 60
  BY <1>2, SMT DEF Div
<1>5. Mod(m, 60) = m - 60 * h
  BY SMT DEF Mod
<1> HIDE DEF h
<1>6. /\ h \in 0..23 /\ m - 60 * h \in 0..59 /\ s - 60 * m \in 0..59
      /\ s = h * 3600 + (m - 60 * h) * 60 + (s - 60 * m)
  BY <1>1, <1>2, <1>4, SMT
<1>7. /\ h \in 0..23 /\ Mod(m, 60) \in 0..59 /\ Mod(s, 60) \in 0..59
      /\ s = h * 3600 + Mod(m, 60) * 60 + Mod(s, 60)
  BY <1>3, <1>5, <1>6, SMT
<1> QED  BY <1>7 DEF m, h

\* The first second of March of the year -4800, before which the calendar's
\* formulas divide negative numbers.
FirstTime == -(2440588 + 32044) * 86400

\* BreakTime takes every time since FirstTime apart so that FromUtcTime puts
\* it together again, times before 1970 included (TimeZone.cc:47).
THEOREM TimeComesBack ==
    ASSUME NEW t \in Int, t >= FirstTime
    PROVE  LET dt == BreakTime(t) IN
           /\ dt.hour \in 0..23 /\ dt.minute \in 0..59 /\ dt.second \in 0..59
           /\ FromUtcTime(dt) = t
<1> DEFINE dt == BreakTime(t)
           s == SecondOf(t)
           n == DayOf(t)
           jd == n + JulianDayOf1970
           h == Div(Div(s, 60), 60)
           m == Mod(Div(s, 60), 60)
           r == Mod(s, 60)
<1>1. dt.date = GetYearMonthDay(jd) /\ dt.hour = h /\ dt.minute = m /\ dt.second = r
  BY SMT DEF BreakTime, SecondOf, DayOf, Rest
<1> HIDE DEF dt
<1>2. n \in Int /\ s \in DaySeconds /\ t = n * kSecondsPerDay + s
  BY DaySplit DEF InDay
<1> HIDE DEF n, s
<1>3. s \in Nat /\ s < 86400 /\ t = n * 86400 + s
  BY <1>2, PerDay, SMT DEF DaySeconds
<1>4. n >= -(2440588 + 32044)
  BY <1>2, <1>3, SMT DEF FirstTime
<1>5. jd \in Int /\ jd >= -32044 /\ jd - JulianDayOf1970 = n
  BY <1>2, <1>4, Epoch, SMT
<1>6. /\ h \in 0..23 /\ m \in 0..59 /\ r \in 0..59
      /\ s = h * 3600 + m * 60 + r
  BY <1>2, SecondSplit
<1> HIDE DEF h, m, r, jd
<1>7. GetJulianDayNumber(dt.date.year, dt.date.month, dt.date.day) = jd
  BY <1>1, <1>5, DateComesBack
<1>8. FromUtcTime(dt) = n * kSecondsPerDay + h * 3600 + m * 60 + r
  BY <1>1, <1>5, <1>7 DEF FromUtcTime
<1>9. FromUtcTime(dt) = t
  BY <1>2, <1>3, <1>6, <1>8, PerDay, SMT
<1> QED  BY <1>1, <1>6, <1>9 DEF dt

-----------------------------------------------------------------------------
(* Zones *)

\* times are in order, as the file format has them.
Ordered(times) ==
    /\ times \in Seq(Int)
    /\ \A i, j \in DOMAIN times : i <= j => times[i] <= times[j]

\* The transitions that are not later than t, and those that are.
Past(times, t) == {i \in DOMAIN times : times[i] <= t}
Greater(times, t) == {i \in DOMAIN times : t < times[i]}

\* In front of the upper bound stands the last element that is not greater.
LEMMA BeforeUpperBound ==
    ASSUME NEW times, Ordered(times), NEW t \in Int, Past(times, t) # {},
           NEW k, k = UpperBound(times, t) - 1
    PROVE  /\ k \in Past(times, t) /\ \A j \in Past(times, t) : k >= j
           /\ 1 \in DOMAIN times /\ times[1] <= t
<1> DEFINE n == Len(times)
           past == Past(times, t)
           greater == Greater(times, t)
<1>1. n \in Nat /\ DOMAIN times = 1..n /\ \A i \in 1..n : times[i] \in Int
  BY DEF Ordered
<1>2. /\ past = {i \in 1..n : times[i] <= t}
      /\ greater = {i \in 1..n : t < times[i]}
  BY <1>1 DEF Past, Greater
<1>3. UpperBound(times, t) = IF greater = {} THEN n + 1
                             ELSE CHOOSE i \in greater : \A j \in greater : i <= j
  BY DEF UpperBound, Greater
<1>4. \A i, j \in 1..n : i <= j => times[i] <= times[j]
  BY <1>1 DEF Ordered
<1> HIDE DEF n, past, greater
<1>5. PICK p \in 1..n : times[p] <= t
  BY <1>2 DEF past
<1>6. 1 \in 1..n /\ times[1] <= t
  <2>1. 1 \in 1..n /\ 1 <= p
    BY <1>1
  <2>2. times[1] <= times[p]
    BY <1>4, <2>1
  <2> QED  BY <1>1, <1>5, <2>1, <2>2
<1>7. CASE greater = {}
  <2>1. k = n
    BY <1>1, <1>3, <1>7
  <2>2. n \in 1..n
    BY <1>1, <1>6
  <2>3. ~(t < times[n])
    BY <1>2, <1>7, <2>2
  <2>4. n \in past
    BY <1>1, <1>2, <2>2, <2>3
  <2>5. \A j \in past : n >= j
    BY <1>1, <1>2
  <2> QED  BY <1>1, <1>6, <2>1, <2>4, <2>5 DEF past
<1>8. CASE greater # {}
  <2>1. greater \in SUBSET Nat
    BY <1>1, <1>2
  <2>2. \E i \in greater : \A j \in greater : i <= j
    BY <1>8, <2>1, LeastMember
  <2> DEFINE u == UpperBound(times, t)
  <2>3. u \in greater /\ \A j \in greater : u <= j
    BY <1>3, <1>8, <2>2
  <2>4. k = u - 1
    OBVIOUS
  <2> HIDE DEF u
  <2>5. u \in 1..n /\ t < times[u]
    BY <1>2, <2>3
  <2>6. u # 1
    BY <1>1, <1>6, <2>5
  <2>7. k \in 1..n /\ k < u
    BY <1>1, <2>4, <2>5, <2>6
  <2>8. k \notin greater
    BY <1>1, <2>3, <2>4, <2>5
  <2>9. k \in past
    BY <1>1, <1>2, <2>7, <2>8
  <2>10. ASSUME NEW j \in past PROVE k >= j
    <3>1. j \in 1..n /\ times[j] <= t
      BY <1>2
    <3>2. ~(u <= j)
      BY <1>1, <1>4, <2>5, <3>1
    <3> QED  BY <1>1, <2>4, <2>5, <3>1, <3>2
  <2> QED  BY <1>1, <1>6, <2>9, <2>10 DEF past
<1> QED  BY <1>7, <1>8

\* The element at the upper bound is greater, and it is the first that is.
LEMMA AtUpperBound ==
    ASSUME NEW times, Ordered(times), NEW t \in Int,
           NEW u, u = UpperBound(times, t)
    PROVE  /\ u \in 1..Len(times) + 1
           /\ u \in DOMAIN times => t < times[u]
           /\ 1 \in DOMAIN times /\ t < times[1] => u = 1
<1> DEFINE n == Len(times)
           greater == Greater(times, t)
<1>1. n \in Nat /\ DOMAIN times = 1..n
  BY DEF Ordered
<1>2. greater = {i \in 1..n : t < times[i]}
  BY <1>1 DEF Greater
<1>3. u = IF greater = {} THEN n + 1
          ELSE CHOOSE i \in greater : \A j \in greater : i <= j
  BY DEF UpperBound, Greater
<1> HIDE DEF greater
<1>4. CASE greater = {}
  BY <1>1, <1>2, <1>3, <1>4
<1>5. CASE greater # {}
  <2>1. greater \in SUBSET Nat
    BY <1>1, <1>2
  <2>2. \E i \in greater : \A j \in greater : i <= j
    BY <1>5, <2>1, LeastMember
  <2>3. u \in greater /\ \A j \in greater : u <= j
    BY <1>3, <1>5, <2>2
  <2> QED  BY <1>1, <1>2, <2>3
<1> QED  BY <1>4, <1>5

\* A block that a zone file may hold, and a zone.
IsBlock(block) ==
    /\ Ordered(block.times)
    /\ block.types \in Seq(Int) /\ block.types # <<>>

IsZone(zone) ==
    /\ zone.localtimes \in Seq(Int) /\ 1 \in DOMAIN zone.localtimes
    /\ Ordered(UtcTimes(zone)) /\ Len(zone.transitions) = Len(UtcTimes(zone))
    /\ zone.transitions = <<>> <=> DOMAIN zone.transitions = {}
    /\ \A i \in DOMAIN zone.transitions :
          zone.transitions[i].localtimeIdx \in DOMAIN zone.localtimes

\* What is read of a block.
LEMMA ZoneOfBlock ==
    ASSUME NEW host, NEW block, IsBlock(block), NEW zone,
           ReadDataBlock(host, block) = <<zone>>
    PROVE  /\ IsZone(zone)
           /\ zone.localtimes = block.types
           /\ UtcTimes(zone) = block.times
           /\ DOMAIN zone.transitions = DOMAIN block.times
           /\ \A i \in DOMAIN block.times :
                 zone.transitions[i].localtimeIdx = IndexRead(host, block, i)
<1> DEFINE times == block.times
           types == block.types
           trans == [i \in DOMAIN times |->
                        AddTransition(types, times[i], IndexRead(host, block, i))]
<1>1. /\ <<zone>> = <<[localtimes |-> types, transitions |-> trans]>>
      /\ \A i \in DOMAIN times : IndexRead(host, block, i) \in DOMAIN types
  BY DEF ReadDataBlock
<1>2. zone.localtimes = types /\ zone.transitions = trans
  BY <1>1
<1>3. /\ Ordered(times) /\ DOMAIN trans = DOMAIN times
      /\ \A i \in DOMAIN times :
            /\ trans[i].utctime = times[i]
            /\ trans[i].localtimeIdx = IndexRead(host, block, i)
  BY DEF IsBlock, AddTransition
<1>4. DOMAIN times = 1..Len(times) /\ Len(times) \in Nat
  BY <1>3 DEF Ordered
<1>5. trans = <<>> <=> DOMAIN trans = {}
  BY <1>3
<1>6. Len(trans) = Len(times)
  BY <1>3, <1>4
<1>7. types \in Seq(Int) /\ 1 \in DOMAIN types
  BY DEF IsBlock
<1> HIDE DEF trans, times, types
<1>8. UtcTimes(zone) = times
  <2>1. UtcTimes(zone) = [i \in DOMAIN times |-> trans[i].utctime]
    BY <1>2, <1>3 DEF UtcTimes
  <2>2. times = [i \in DOMAIN times |-> times[i]]
    BY <1>3 DEF Ordered
  <2> QED  BY <1>3, <2>1, <2>2
<1>9. IsZone(zone)
  BY <1>1, <1>2, <1>3, <1>5, <1>6, <1>7, <1>8 DEF IsZone
<1> QED  BY <1>2, <1>3, <1>8, <1>9 DEF times, types

\* A lookup by UTC time finds the last transition that is not later.
LEMMA FoundByUtc ==
    ASSUME NEW zone, IsZone(zone), NEW t \in Int, NEW times, times = UtcTimes(zone),
           NEW k, k = UpperBound(times, t) - 1
    PROVE  /\ Past(times, t) = {} => FindByUtc(zone, t) = 1
           /\ Past(times, t) # {} =>
                 /\ k \in Past(times, t) /\ \A j \in Past(times, t) : k >= j
                 /\ FindByUtc(zone, t) = zone.transitions[k].localtimeIdx
<1> DEFINE trans == zone.transitions
<1>1. /\ Ordered(times) /\ DOMAIN times = DOMAIN trans
      /\ \A i \in DOMAIN trans : trans[i].utctime = times[i]
      /\ trans = <<>> <=> DOMAIN trans = {}
  BY DEF IsZone, UtcTimes
<1>2. /\ 1 \in DOMAIN times \/ DOMAIN times = {}
      /\ \A i \in DOMAIN times : times[i] \in Int
  BY <1>1 DEF Ordered
<1> HIDE DEF trans
<1>3. CASE Past(times, t) = {}
  <2>1. DOMAIN times = {} \/ t < times[1]
    BY <1>2, <1>3 DEF Past
  <2> QED  BY <1>1, <1>2, <1>3, <2>1 DEF FindByUtc, trans
<1>4. CASE Past(times, t) # {}
  <2>1. /\ k \in Past(times, t) /\ \A j \in Past(times, t) : k >= j
        /\ 1 \in DOMAIN times /\ times[1] <= t
    BY <1>1, <1>4, BeforeUpperBound
  <2>2. trans # <<>> /\ ~(t < trans[1].utctime)
    BY <1>1, <1>2, <2>1
  <2> QED  BY <1>4, <2>1, <2>2 DEF FindByUtc, trans
<1> QED  BY <1>3, <1>4

\* The offset found is one of the zone's.
LEMMA OffsetType ==
    ASSUME NEW zone, IsZone(zone), NEW t \in Int
    PROVE  FindByUtc(zone, t) \in DOMAIN zone.localtimes
<1> DEFINE times == UtcTimes(zone)
           k == UpperBound(times, t) - 1
<1>1. /\ Past(times, t) = {} => FindByUtc(zone, t) = 1
      /\ Past(times, t) # {} => k \in Past(times, t)
             /\ FindByUtc(zone, t) = zone.transitions[k].localtimeIdx
  BY FoundByUtc
<1>2. Past(times, t) \subseteq DOMAIN zone.transitions
  BY DEF Past, UtcTimes
<1> HIDE DEF times, k
<1> QED  BY <1>1, <1>2 DEF IsZone

\* On a big-endian host it is the one in force, on a little-endian one the
\* first.
LEMMA OffsetFound ==
    ASSUME NEW host, NEW block, IsBlock(block), NEW zone,
           ReadDataBlock(host, block) = <<zone>>, NEW t \in Int
    PROVE  zone.localtimes[FindByUtc(zone, t)] = OffsetOn(host, block, t)
<1> DEFINE times == block.times
           past == Past(times, t)
           k == UpperBound(times, t) - 1
           last == CHOOSE i \in past : \A j \in past : i >= j
<1>1. /\ IsZone(zone) /\ zone.localtimes = block.types
      /\ UtcTimes(zone) = times
      /\ \A i \in DOMAIN times :
            zone.transitions[i].localtimeIdx = IndexRead(host, block, i)
  BY ZoneOfBlock
<1>2. OffsetOn(host, block, t) =
         IF host = "big"
         THEN IF past = {} THEN block.types[1] ELSE block.types[block.idx[last] + 1]
         ELSE block.types[1]
  BY Zenon DEF OffsetOn, ReferenceOffset, Past
<1>3. past = {} => FindByUtc(zone, t) = 1
  BY <1>1, FoundByUtc
<1>4. past # {} => /\ k \in past /\ \A j \in past : k >= j
                   /\ FindByUtc(zone, t) = zone.transitions[k].localtimeIdx
  BY <1>1, FoundByUtc
<1>5. past \subseteq DOMAIN times /\ past \subseteq Nat
  <2>1. Ordered(times)
    BY DEF IsBlock
  <2> QED  BY <2>1 DEF Past, Ordered
<1> HIDE DEF times, past, k
<1>6. CASE past = {}
  BY <1>1, <1>2, <1>3, <1>6
<1>7. CASE past # {}
  <2>1. last = k
    <3>1. \A i \in past : (\A j \in past : i >= j) => i = k
      BY <1>4, <1>5, <1>7
    <3> QED  BY <1>4, <1>7, <3>1
  <2>2. FindByUtc(zone, t) = IndexRead(host, block, k)
    BY <1>1, <1>4, <1>5, <1>7
  <2> HIDE DEF last
  <2>3. CASE host = "big"
    <3>1. IndexRead(host, block, k) = block.idx[k] + 1
      BY <2>3 DEF IndexRead, ReadUint8
    <3> QED  BY <1>1, <1>2, <1>7, <2>1, <2>2, <2>3, <3>1
  <2>4. CASE host # "big"
    <3>1. IndexRead(host, block, k) = 1
      BY <2>4 DEF IndexRead, ReadUint8
    <3> QED  BY <1>1, <1>2, <2>2, <2>4, <3>1
  <2> QED  BY <2>3, <2>4
<1> QED  BY <1>6, <1>7

LEMMA LocalTimeIs ==
    ASSUME NEW zone, IsZone(zone), NEW t \in Int, NEW offset,
           offset = zone.localtimes[FindByUtc(zone, t)], t + offset >= FirstTime
    PROVE  /\ offset \in Int /\ t + offset \in Int
           /\ FromUtcTime(ToLocalTime(zone, t)) = t + offset
<1>1. offset \in Int
  BY OffsetType DEF IsZone
<1>2. ToLocalTime(zone, t) = BreakTime(t + offset)
  BY DEF ToLocalTime
<1>3. t + offset \in Int
  BY <1>1
<1> QED  BY <1>1, <1>2, <1>3, TimeComesBack

\* A zone read on a big-endian host gives each time the offset of the last
\* transition that is not later, and that of the first local time before all
\* of them, so that the local time is the time moved by that offset
\* (TimeZone.cc:287).  On a little-endian host readUint8 loses the indices
\* (TimeZone.cc:136), and every time is moved by the first offset.
THEOREM ZonesAreRight ==
    ASSUME NEW host, NEW block, IsBlock(block), NEW zone,
           ReadDataBlock(host, block) = <<zone>>,
           NEW t \in Int, t + OffsetOn(host, block, t) >= FirstTime
    PROVE  FromUtcTime(ToLocalTime(zone, t)) = t + OffsetOn(host, block, t)
<1>1. IsZone(zone)
  BY ZoneOfBlock
<1>2. zone.localtimes[FindByUtc(zone, t)] = OffsetOn(host, block, t)
  BY OffsetFound
<1> QED  BY <1>1, <1>2, LocalTimeIs

\* In the period that holds the first second of 1970 a lookup by local time
\* finds what one by UTC time finds, if it is asked for the later side.
LEMMA FoundWith1970 ==
    ASSUME NEW zone, IsZone(zone), NEW t \in Int, NEW local,
           local = t + zone.localtimes[FindByUtc(zone, t)],
           IsWith1970(zone, t, local)
    PROVE  FindByLocal(zone, local, TRUE) = FindByUtc(zone, t)
<1> DEFINE times == UtcTimes(zone)
           trans == zone.transitions
           n == Len(trans)
           i == LocalBound(zone)
           j == i - 1
           offset == zone.localtimes[FindByUtc(zone, t)]
<1>1. /\ Ordered(times) /\ DOMAIN times = DOMAIN trans /\ n = Len(times)
      /\ \A k \in DOMAIN trans : trans[k].utctime = times[k]
  BY DEF IsZone, UtcTimes
<1>2. n \in Nat /\ DOMAIN times = 1..n /\ \A k \in 1..n : times[k] \in Int
  BY <1>1 DEF Ordered
<1>3. /\ ~BeforeFirst(zone, local) /\ i > 1 /\ UpperBound(times, t) = i
      /\ trans # <<>>
  BY DEF IsWith1970, BeforeFirst
<1>4. /\ i \in 1..n + 1
      /\ i \in DOMAIN times => t < times[i]
      /\ 1 \in DOMAIN times /\ t < times[1] => i = 1
  BY <1>1, <1>3, AtUpperBound
<1>5. trans = <<>> <=> DOMAIN trans = {}
  BY DEF IsZone
<1>6. offset \in Int
  <2>1. FindByUtc(zone, t) \in DOMAIN zone.localtimes
    BY OffsetType
  <2>2. zone.localtimes \in Seq(Int)
    BY DEF IsZone
  <2> QED  BY <2>1, <2>2
<1> HIDE DEF times, n, i, trans, offset
<1>7. 1 \in DOMAIN times /\ ~(t < times[1]) /\ j \in 1..n
  BY <1>1, <1>2, <1>3, <1>4, <1>5
<1>8. FindByUtc(zone, t) = trans[j].localtimeIdx
  BY <1>1, <1>3, <1>7 DEF FindByUtc, trans, times
<1>9. CASE i > n
  <2>1. n = j
    BY <1>2, <1>4, <1>9
  <2>2. FindByLocal(zone, local, TRUE) = trans[n].localtimeIdx
    BY <1>3, <1>9, SMT DEF FindByLocal, i, n, trans
  <2> QED  BY <1>8, <2>1, <2>2
<1>10. CASE ~(i > n)
  <2>1. i \in DOMAIN times /\ t < times[i] /\ times[i] \in Int
    BY <1>2, <1>4, <1>10
  <2>2. PriorSecond(zone, i) = times[i] - 1 + offset
    BY <1>1, <1>8, <2>1 DEF PriorSecond, trans, offset
  <2>3. ~(PriorSecond(zone, i) < local)
    BY <1>6, <2>1, <2>2 DEF offset
  <2>4. FindByLocal(zone, local, TRUE) = trans[j].localtimeIdx
    BY <1>3, <1>10, <2>3, SMT DEF FindByLocal, i, n, trans
  <2> QED  BY <1>8, <2>4
<1> QED  BY <1>9, <1>10

\* Where all transitions lead to the first local time, lookups find it.
OneOffset(zone) ==
    \A i \in DOMAIN zone.transitions : zone.transitions[i].localtimeIdx = 1

LEMMA FoundFirst ==
    ASSUME NEW zone, IsZone(zone), OneOffset(zone), NEW t \in Int, NEW local,
           BeforeFirst(zone, local) \/ LocalBound(zone) > 1, NEW post \in BOOLEAN
    PROVE  FindByLocal(zone, local, post) = 1 /\ FindByUtc(zone, t) = 1
<1> DEFINE times == UtcTimes(zone)
           trans == zone.transitions
           n == Len(trans)
           i == LocalBound(zone)
<1>1. /\ Ordered(times) /\ DOMAIN times = DOMAIN trans /\ n = Len(times)
      /\ trans = <<>> <=> DOMAIN trans = {}
  BY DEF IsZone, UtcTimes
<1>2. n \in Nat /\ DOMAIN trans = 1..n
  BY <1>1 DEF Ordered
<1>3. i \in 1..n + 1
  BY <1>1, AtUpperBound DEF LocalBound
<1>4. FindByUtc(zone, t) = 1
  <2>1. /\ Past(times, t) = {} => FindByUtc(zone, t) = 1
        /\ Past(times, t) # {} =>
              LET k == UpperBound(times, t) - 1
              IN  k \in Past(times, t) /\ FindByUtc(zone, t) = trans[k].localtimeIdx
    BY FoundByUtc
  <2>2. Past(times, t) \subseteq DOMAIN trans
    BY <1>1 DEF Past
  <2> QED  BY <2>1, <2>2 DEF OneOffset
<1> HIDE DEF times, n, i, trans
<1>5. CASE BeforeFirst(zone, local)
  BY <1>4, <1>5 DEF FindByLocal
<1>6. CASE ~BeforeFirst(zone, local)
  <2>1. i > 1 /\ trans # <<>>
    BY <1>6 DEF i, BeforeFirst, trans
  <2>2. n \in 1..n
    BY <1>1, <1>2, <2>1
  <2> DEFINE j == i - 1
             later == IF j > 1 THEN j - 1 ELSE j
  <2>3. j \in 1..n /\ later \in 1..n
    BY <1>2, <1>3, <2>1
  <2>4. i \in 1..n \/ i > n
    BY <1>2, <1>3
  <2>5. \A k \in 1..n : zone.transitions[k].localtimeIdx = 1
    BY <1>2 DEF OneOffset, trans
  <2> HIDE DEF j, later
  <2>6. \/ i > n /\ FindByLocal(zone, local, post) = zone.transitions[n].localtimeIdx
        \/ ~(i > n) /\ FindByLocal(zone, local, post) = zone.transitions[i].localtimeIdx
        \/ FindByLocal(zone, local, post) = zone.transitions[j].localtimeIdx
        \/ FindByLocal(zone, local, post) = zone.transitions[later].localtimeIdx
    BY <1>6, Zenon DEF FindByLocal, i, n, trans, j, later
  <2> QED  BY <1>4, <2>2, <2>3, <2>4, <2>5, <2>6
<1> QED  BY <1>5, <1>6

\* A local time converts back to the time it came from before a zone's first
\* transition and in a zone without; in the period that holds the first second
\* of 1970, if the later side is asked for; and always in a zone with one
\* offset, such as a little-endian host reads, where the assertion at
\* TimeZone.cc:312 holds (TimeZone.cc:305).
THEOREM LocalTimesComeBack ==
    ASSUME NEW zone, IsZone(zone), NEW t \in Int, NEW post \in BOOLEAN,
           t + zone.localtimes[FindByUtc(zone, t)] >= FirstTime,
           NEW local, local = FromUtcTime(ToLocalTime(zone, t)),
           \/ IsBeforeFirst(zone, t, local)
           \/ IsWith1970(zone, t, local) /\ post
           \/ /\ OneOffset(zone)
              /\ BeforeFirst(zone, local) \/ LocalBound(zone) > 1
    PROVE  FromLocalTime(zone, ToLocalTime(zone, t), post) = t
<1> DEFINE offset == zone.localtimes[FindByUtc(zone, t)]
<1>1. offset \in Int /\ local = t + offset
  BY LocalTimeIs
<1> HIDE DEF offset
<1>2. FindByLocal(zone, local, post) = FindByUtc(zone, t)
  <2>1. CASE IsBeforeFirst(zone, t, local)
    BY <2>1 DEF IsBeforeFirst, FindByLocal, FindByUtc
  <2>2. CASE IsWith1970(zone, t, local) /\ post
    <3>1. post = TRUE
      BY <2>2
    <3> QED  BY <1>1, <2>2, <3>1, FoundWith1970 DEF offset
  <2>3. CASE /\ OneOffset(zone)
             /\ BeforeFirst(zone, local) \/ LocalBound(zone) > 1
    BY <2>3, FoundFirst
  <2> QED  BY <2>1, <2>2, <2>3
<1>3. FromLocalTime(zone, ToLocalTime(zone, t), post) = local - offset
  BY <1>2 DEF FromLocalTime, offset
<1> QED  BY <1>1, <1>3

-----------------------------------------------------------------------------
(* The walk through the calendar, and the zone files *)

\* A time is in the day that DayOf says, and in no other.
LEMMA OneDay ==
    ASSUME NEW k \in Int, NEW r \in DaySeconds, NEW t \in Int,
           t = k * kSecondsPerDay + r
    PROVE  t \div kSecondsPerDay = k
BY DEF DaySeconds, kSecondsPerDay

LEMMA DayIs ==
    ASSUME NEW t \in Int, NEW n, NEW s, InDay(t, n, s)
    PROVE  DayOf(t) = n
<1>1. InDay(t, DayOf(t), SecondOf(t))
  BY DaySplit
<1>2. ASSUME NEW k, NEW r, InDay(t, k, r) PROVE t \div kSecondsPerDay = k
  BY <1>2, OneDay, Zenon DEF InDay
<1> QED  BY <1>1, <1>2

LEMMA DateOfTime ==
    ASSUME NEW t \in Int
    PROVE  BreakTime(t).date = GetYearMonthDay(DayOf(t) + JulianDayOf1970)
BY DEF BreakTime, DayOf, Rest

LEMMA WeekDayNext ==
    ASSUME NEW jd \in Nat
    PROVE  WeekDay(jd + 1) = (WeekDay(jd) + 1) % 7
BY DEF WeekDay, Mod, Div

\* Where the walk through the calendar is, and which file a zone is of.
Walked ==
    subject = "day" =>
        LET jd == input.number + JulianDayOf1970 IN
        /\ input.number \in Int /\ input.number >= FirstDay
        /\ input.date = GetYearMonthDay(jd) /\ input.weekDay = WeekDay(jd)

IsFile(f) == f.host \in {"little", "big"} /\ f.file \in Files

CivilInv == Walked /\ (subject = "zone" => IsFile(input))

LEMMA FirstDateIsRight ==
    /\ GetYearMonthDay(-24855 + 2440588) = [year |-> 1901, month |-> 12, day |-> 14]
    /\ WeekDay(-24855 + 2440588) = 6
<1>1. WeekDay(-24855 + 2440588) = 6
  BY DEF WeekDay, Mod, Div
<1>2. IsDay((-24855 + 2440588) + 32044, 67, 1, 288)
  BY DEF IsDay, YearsIn, YearDays, LastDay, Leap, Div
<1>3. -24855 + 2440588 \in Int /\ -24855 + 2440588 >= -32044
  OBVIOUS
<1>4. GetYearMonthDay(-24855 + 2440588) = DateIn(67, 1, 288)
  BY <1>2, <1>3, DateOfDay
<1>5. MonthIn(288) = 9
  BY DEF MonthIn, Div
<1>6. NamedYear(67, 1, 9) = 1901 /\ NamedMonth(9) = 12 /\ NamedDay(288, 9) = 14
  BY DEF NamedYear, NamedMonth, NamedDay, MonthStart, Over, Div
<1> QED  BY <1>1, <1>4, <1>5, <1>6 DEF DateIn

LEMMA InitWalked == MCInit => CivilInv
<1> SUFFICES ASSUME MCInit PROVE CivilInv
  OBVIOUS
<1>1. subject = "day" => input = FirstDate
  BY DEF MCInit
<1>2. subject = "zone" => IsFile(input)
  BY DEF MCInit, IsFile
<1>3. /\ FirstDate.number = -24855 /\ FirstDate.weekDay = 6
      /\ FirstDate.date = [year |-> 1901, month |-> 12, day |-> 14]
      /\ FirstDay = -24855
  BY DEF FirstDate, FirstDay
<1>4. Walked
  BY <1>1, <1>3, FirstDateIsRight, Epoch DEF Walked
<1> QED  BY <1>2, <1>4 DEF CivilInv

LEMMA NextWalked == CivilInv /\ [MCNext]_all => CivilInv'
<1> SUFFICES ASSUME CivilInv, [MCNext]_all PROVE CivilInv'
  OBVIOUS
<1>1. CASE WalkCalendar
  <2> DEFINE n == input.number
             jd == n + JulianDayOf1970
  <2>1. /\ subject = "day" /\ subject' = "day"
        /\ input' = [number  |-> n + 1, weekDay |-> (input.weekDay + 1) % 7,
                     date    |-> DayAfter(input.date)]
    BY <1>1 DEF WalkCalendar
  <2>2. /\ input'.number = n + 1 /\ input'.weekDay = (input.weekDay + 1) % 7
        /\ input'.date = DayAfter(input.date)
    BY <2>1
  <2>3. /\ n \in Int /\ n >= -24855 /\ FirstDay = -24855
        /\ input.date = GetYearMonthDay(jd) /\ input.weekDay = WeekDay(jd)
    BY <2>1 DEF CivilInv, Walked, FirstDay
  <2>4. /\ jd \in Int /\ jd >= -32044 /\ jd \in Nat
        /\ (n + 1) + JulianDayOf1970 = jd + 1
        /\ n + 1 \in Int /\ n + 1 >= FirstDay
    BY <2>3, Epoch
  <2> HIDE DEF n, jd
  <2>5. /\ DayAfter(input.date) = GetYearMonthDay(jd + 1)
        /\ (input.weekDay + 1) % 7 = WeekDay(jd + 1)
    BY <2>3, <2>4, NextDayIsRight, WeekDayNext
  <2>6. JulianDayOf1970' = JulianDayOf1970
    OBVIOUS
  <2>7. Walked'
    BY <2>2, <2>4, <2>5 DEF Walked
  <2> QED  BY <2>1, <2>7 DEF CivilInv
<1>2. CASE UNCHANGED <<subject, input>>
  BY <1>2 DEF CivilInv, Walked, IsFile
<1>3. CASE UseBuffer
  BY <1>2, <1>3 DEF UseBuffer
<1>4. CASE UseLogger
  BY <1>2, <1>4 DEF UseLogger
<1>5. CASE UNCHANGED all
  BY <1>2, <1>5 DEF all
<1> QED  BY <1>1, <1>3, <1>4, <1>5 DEF MCNext

LEMMA CalendarWalk == CivilInv => CalendarIsRight
<1> SUFFICES ASSUME Walked, subject = "day" PROVE CalendarIsRight
  BY DEF CivilInv, CalendarIsRight
<1> DEFINE n == input.number
           jd == n + JulianDayOf1970
           d == input.date
<1>1. n \in Int /\ n >= -24855 /\ d = GetYearMonthDay(jd) /\ input.weekDay = WeekDay(jd)
  BY DEF Walked, FirstDay
<1>2. jd \in Int /\ jd >= -32044
  BY <1>1, Epoch
<1>3. GetJulianDayNumber(d.year, d.month, d.day) = jd
  BY <1>1, <1>2, DateComesBack
<1>4. ASSUME NEW s \in {0, 1, 86399}
      PROVE  LET t == n * kSecondsPerDay + s
                 dt == BreakTime(t)
             IN  dt.date = d /\ FromUtcTime(dt) = t
  <2> DEFINE t == n * kSecondsPerDay + s
  <2>1. s \in DaySeconds
    BY <1>4 DEF DaySeconds
  <2>2. t \in Int /\ t >= FirstTime
    <3> HIDE DEF n
    <3> QED  BY <1>1, <1>4 DEF FirstTime, kSecondsPerDay
  <2>3. InDay(t, n, s)
    BY <1>1, <2>1 DEF InDay
  <2> HIDE DEF t
  <2>6. DayOf(t) = n
    BY <2>2, <2>3, DayIs
  <2>4. FromUtcTime(BreakTime(t)) = t
    BY <2>2, TimeComesBack
  <2>5. BreakTime(t).date = d
    BY <1>1, <2>2, <2>6, DateOfTime
  <2> QED  BY <2>4, <2>5 DEF t
<1> HIDE DEF n, jd, d
<1>5. /\ GetJulianDayNumber(d.year, d.month, d.day) = jd
      /\ GetYearMonthDay(jd) = d
      /\ WeekDay(jd) = input.weekDay
      /\ n < -FirstDay =>
            \A s \in {0, 1, 86399} :
               LET t == n * kSecondsPerDay + s
                   dt == BreakTime(t)
               IN  dt.date = d /\ FromUtcTime(dt) = t
  BY <1>1, <1>3, <1>4
<1> QED  BY <1>5 DEF CalendarIsRight, n, jd, d

\* A block whose offsets are small.
IsSmall(block) ==
    IsBlock(block) /\ \A i \in DOMAIN block.types : block.types[i] \in -1..7

LEMMA TransitionsOrdered ==
    ASSUME NEW times \in Transitions
    PROVE  Ordered(times)
<1>1. CASE times = <<>>
  BY <1>1 DEF Ordered
<1>2. ASSUME NEW t \in -1..2, times = <<t>>
      PROVE  Ordered(times)
  <2>1. DOMAIN times = {1} /\ times[1] = t /\ times \in Seq(Int)
    BY <1>2
  <2> QED  BY <1>2, <2>1 DEF Ordered
<1>3. ASSUME NEW t \in -1..2, NEW u \in 3..4, times = <<t, u>>
      PROVE  Ordered(times)
  <2>1. DOMAIN times = {1, 2} /\ times[1] = t /\ times[2] = u /\ times \in Seq(Int)
    BY <1>3
  <2>2. \A i, j \in {1, 2} : i <= j => times[i] <= times[j]
    BY <1>3, <2>1
  <2> QED  BY <2>1, <2>2 DEF Ordered
<1>4. CASE times = <<-1, 0>>
  <2>1. DOMAIN times = {1, 2} /\ times[1] = -1 /\ times[2] = 0 /\ times \in Seq(Int)
    BY <1>4
  <2>2. \A i, j \in {1, 2} : i <= j => times[i] <= times[j]
    BY <2>1
  <2> QED  BY <2>1, <2>2 DEF Ordered
<1>5. CASE times = <<-2, -1, 3>>
  <2>1. /\ DOMAIN times = {1, 2, 3} /\ times \in Seq(Int)
        /\ times[1] = -2 /\ times[2] = -1 /\ times[3] = 3
    BY <1>5
  <2>2. \A i, j \in {1, 2, 3} : i <= j => times[i] <= times[j]
    BY <2>1
  <2> QED  BY <2>1, <2>2 DEF Ordered
<1> QED  BY <1>1, <1>2, <1>3, <1>4, <1>5 DEF Transitions

LEMMA BlocksSmall ==
    ASSUME NEW block \in Blocks \cup {EmptyBlock}
    PROVE  IsSmall(block)
<1>1. CASE block \in Blocks
  <2>1. block.types \in {<<0, 1>>, <<2, -1>>} /\ block.times \in Transitions
    BY <1>1 DEF Blocks
  <2>2. Ordered(block.times)
    BY <2>1, TransitionsOrdered
  <2>3. /\ block.types \in Seq(Int) /\ block.types # <<>>
        /\ \A i \in DOMAIN block.types : block.types[i] \in -1..7
    <3>1. CASE block.types = <<0, 1>>
      BY <3>1
    <3>2. CASE block.types = <<2, -1>>
      BY <3>2
    <3> QED  BY <2>1, <3>1, <3>2
  <2> QED  BY <2>2, <2>3 DEF IsSmall, IsBlock
<1>2. CASE block = EmptyBlock
  <2>1. block.types = <<7>> /\ block.times = <<>>
    BY <1>2 DEF EmptyBlock
  <2>2. Ordered(block.times)
    BY <2>1 DEF Ordered
  <2>3. /\ block.types \in Seq(Int) /\ block.types # <<>>
        /\ \A i \in DOMAIN block.types : block.types[i] \in -1..7
    BY <2>1
  <2> QED  BY <2>2, <2>3 DEF IsSmall, IsBlock
<1> QED  BY <1>1, <1>2

LEMMA FileHoldsBlock ==
    ASSUME NEW host, NEW file \in Files,
           NEW i \in DOMAIN ReadTimeZoneFile(host, file)
    PROVE  /\ IsSmall(BlockOf(file))
           /\ ReadDataBlock(host, BlockOf(file)) = <<ReadTimeZoneFile(host, file)[i]>>
<1>1. BlockOf(file) \in Blocks \cup {EmptyBlock}
  BY DEF Files, BlockOf
<1>2. ReadTimeZoneFile(host, file) # <<>>
  BY SMT
<1>3. ReadTimeZoneFile(host, file) = ReadDataBlock(host, BlockOf(file))
  BY <1>2 DEF ReadTimeZoneFile, BlockOf
<1>4. ReadDataBlock(host, BlockOf(file)) # <<>>
  BY <1>2, <1>3
<1>5. PICK zone : ReadDataBlock(host, BlockOf(file)) = <<zone>>
  BY <1>4, Zenon DEF ReadDataBlock
<1>6. i = 1 /\ ReadTimeZoneFile(host, file)[i] = zone
  BY <1>3, <1>5
<1> QED  BY <1>1, <1>5, <1>6, BlocksSmall

LEMMA SmallOffset ==
    ASSUME NEW t \in SmallTimes, NEW offset \in -1..7
    PROVE  t \in Int /\ t + offset \in Int /\ t + offset >= FirstTime
BY DEF SmallTimes, FirstTime

LEMMA ZoneIsSmall ==
    ASSUME IsFile(input), NEW zone \in ZonesRead
    PROVE  /\ ReadDataBlock(input.host, BlockOf(input.file)) = <<zone>>
           /\ IsSmall(BlockOf(input.file)) /\ IsBlock(BlockOf(input.file))
           /\ IsZone(zone) /\ zone.localtimes = BlockOf(input.file).types
<1>1. PICK i \in DOMAIN ReadTimeZoneFile(input.host, input.file) :
         zone = ReadTimeZoneFile(input.host, input.file)[i]
  BY Zenon DEF ZonesRead
<1>2. /\ IsSmall(BlockOf(input.file))
      /\ ReadDataBlock(input.host, BlockOf(input.file)) = <<zone>>
  BY <1>1, FileHoldsBlock, Zenon DEF IsFile
<1>3. IsBlock(BlockOf(input.file))
  BY <1>2 DEF IsSmall
<1> QED  BY <1>2, <1>3, ZoneOfBlock, Zenon

\* Its offsets keep small times in range.
LEMMA ZoneInRange ==
    ASSUME IsFile(input), NEW zone \in ZonesRead, NEW t \in SmallTimes
    PROVE  t \in Int /\ t + zone.localtimes[FindByUtc(zone, t)] >= FirstTime
<1>1. t \in Int
  BY DEF SmallTimes
<1>2. FindByUtc(zone, t) \in DOMAIN zone.localtimes
  BY <1>1, ZoneIsSmall, OffsetType, Zenon
<1>3. zone.localtimes[FindByUtc(zone, t)] \in -1..7
  BY <1>2, ZoneIsSmall, Zenon DEF IsSmall
<1> QED  BY <1>1, <1>3, SmallOffset, Zenon

LEMMA OneOffsetOnLittle ==
    ASSUME IsFile(input), NEW zone \in ZonesRead, input.host = "little"
    PROVE  OneOffset(zone)
<1> DEFINE block == BlockOf(input.file)
<1>1. ReadDataBlock(input.host, block) = <<zone>> /\ IsBlock(block)
  BY ZoneIsSmall, Zenon
<1> HIDE DEF block
<1>2. /\ DOMAIN zone.transitions = DOMAIN block.times
      /\ \A i \in DOMAIN block.times :
            zone.transitions[i].localtimeIdx = IndexRead(input.host, block, i)
  BY <1>1, ZoneOfBlock
<1>3. \A i : IndexRead(input.host, block, i) = 1
  BY DEF IndexRead, ReadUint8
<1> QED  BY <1>2, <1>3 DEF OneOffset

\* Every zone file of the model gives the offset that its host finds, and
\* its own times back.
LEMMA ZoneFiles == CivilInv => ZoneLookupIsRight /\ LocalTimeComesBack
<1> SUFFICES ASSUME IsFile(input), NEW zone \in ZonesRead, NEW t \in SmallTimes
             PROVE  /\ FromUtcTime(ToLocalTime(zone, t))
                          = t + OffsetOn(input.host, BlockOf(input.file), t)
                    /\ \A post \in BOOLEAN :
                         LET dt == ToLocalTime(zone, t)
                             local == FromUtcTime(dt)
                         IN  (\/ IsBeforeFirst(zone, t, local)
                              \/ IsWith1970(zone, t, local) /\ post
                              \/ /\ input.host = "little"
                                 /\ BeforeFirst(zone, local) \/ LocalBound(zone) > 1)
                                => FromLocalTime(zone, dt, post) = t
  BY ZenonT(60) DEF CivilInv, ZoneLookupIsRight, LocalTimeComesBack
<1> DEFINE block == BlockOf(input.file)
           host == input.host
           local == FromUtcTime(ToLocalTime(zone, t))
<1>1. ReadDataBlock(host, block) = <<zone>> /\ IsBlock(block) /\ IsZone(zone)
  BY ZoneIsSmall, Zenon
<1>2. t \in Int /\ t + zone.localtimes[FindByUtc(zone, t)] >= FirstTime
  BY ZoneInRange, Zenon
<1> HIDE DEF block, host, local
<1>3. zone.localtimes[FindByUtc(zone, t)] = OffsetOn(host, block, t)
  BY <1>1, <1>2, OffsetFound, Zenon
<1>4. FromUtcTime(ToLocalTime(zone, t)) = t + OffsetOn(host, block, t)
  BY <1>1, <1>2, <1>3, LocalTimeIs, Zenon
<1>5. ASSUME NEW post \in BOOLEAN,
             \/ IsBeforeFirst(zone, t, local)
             \/ IsWith1970(zone, t, local) /\ post
             \/ /\ host = "little"
                /\ BeforeFirst(zone, local) \/ LocalBound(zone) > 1
      PROVE  FromLocalTime(zone, ToLocalTime(zone, t), post) = t
  <2>1. host = "little" => OneOffset(zone)
    BY OneOffsetOnLittle, Zenon DEF host
  <2>2. \/ IsBeforeFirst(zone, t, local)
        \/ IsWith1970(zone, t, local) /\ post
        \/ /\ OneOffset(zone)
           /\ BeforeFirst(zone, local) \/ LocalBound(zone) > 1
    BY <1>5, <2>1, Zenon
  <2> QED  BY <1>1, <1>2, <2>2, LocalTimesComeBack, Zenon DEF local
<1> QED  BY <1>4, <1>5, Zenon DEF block, host, local

\* Whatever day the walk is at, dates and times of day are right; and whatever
\* zone file is read, a time gets the offset in force on a big-endian host and
\* the file's first on a little-endian one, and local times convert back where
\* LocalTimeComesBack says (Date.cc:12, TimeZone.cc:47, 136, 287, 305).
THEOREM CivilTime == MCSpec => []CivilTimeIsRight
<1>1. CivilInv => CivilTimeIsRight
  BY CalendarWalk, ZoneFiles DEF CivilTimeIsRight
<1> QED  BY <1>1, InitWalked, NextWalked, PTL DEF MCSpec

-----------------------------------------------------------------------------
(* Digits.  The recursive functions of Digits and ReadBack exist, which is   *)
(* shown for larger and larger parts of their domains; what they return then *)
(* follows by the least number for which it is wrong.                        *)

\* One step of convert or convertHex: the digits in front, of the quotient, and the last.
Bases == {10, 16}
Quotient(b, i) == Div(i, b)
LastDigit(b, i) == Digit(i - b * Div(i, b))
Step(b, f, i) ==
    (IF Quotient(b, i) = 0 THEN <<>> ELSE f[Quotient(b, i)]) \o <<LastDigit(b, i)>>

\* The function that Digits defines, and what it is on the numbers whose
\* absolute value is below k.
Below(k) == {i \in Int : -k < i /\ i < k}
IsDigits(b, f) == f = [i \in Int |-> Step(b, f, i)]
IsUpTo(b, f, k) ==
    f \in [Below(k) -> Seq(Nat)] /\ \A i \in Below(k) : f[i] = Step(b, f, i)

LEMMA QuotientSmaller ==
    ASSUME NEW b \in Bases, NEW i \in Int
    PROVE  /\ Quotient(b, i) \in Int /\ LastDigit(b, i) \in 0..b - 1
           /\ i >= 0 => Quotient(b, i) >= 0 /\ i = b * Quotient(b, i) + LastDigit(b, i)
           /\ i < 0 => Quotient(b, i) <= 0 /\ i = b * Quotient(b, i) - LastDigit(b, i)
           /\ \A k \in Nat : i \in Below(k + 1) /\ Quotient(b, i) # 0
                                => Quotient(b, i) \in Below(k)
<1> DEFINE q == Div(i, b)
           r == i - b * q
           Goal == /\ q \in Int
                   /\ i >= 0 => q >= 0 /\ r >= 0 /\ r <= b - 1
                   /\ i < 0 => q <= 0 /\ r <= 0 /\ r >= 1 - b
                   /\ r \in Int /\ i = b * q + r
                   /\ i >= 0 => q <= i /\ (q # 0 => q < i)
                   /\ i < 0 => q >= i /\ (q # 0 => q > i)
<1>1. Goal
  <2>1. CASE b = 10
    BY <2>1, SMT DEF Div
  <2>2. CASE b = 16
    BY <2>2, SMT DEF Div
  <2> QED  BY <2>1, <2>2 DEF Bases
<1>2. b \in Nat /\ Quotient(b, i) = q /\ LastDigit(b, i) = Digit(r)
  BY DEF Quotient, LastDigit, Bases
<1> DEFINE p == b * q
<1>3. p \in Int
  BY <1>1, <1>2
<1>4. r = i - p /\ b * Quotient(b, i) = p
  BY <1>2
<1> HIDE DEF q, r, p
<1>5. /\ LastDigit(b, i) \in 0..b - 1
      /\ i >= 0 => LastDigit(b, i) = i - p
      /\ i < 0 => LastDigit(b, i) = -(i - p)
  BY <1>1, <1>2, <1>3, <1>4 DEF Digit
<1>6. ASSUME NEW k \in Nat, i \in Below(k + 1), q # 0 PROVE q \in Below(k)
  BY <1>1, <1>6 DEF Below
<1>7. /\ i >= 0 => i = p + LastDigit(b, i)
      /\ i < 0 => i = p - LastDigit(b, i)
  BY <1>3, <1>5
<1> QED  BY <1>1, <1>2, <1>4, <1>5, <1>6, <1>7

LEMMA BelowIs ==
    ASSUME NEW i \in Int
    PROVE  \E k \in Nat : i \in Below(k + 1)
<1>1. CASE i >= 0
  <2>1. i \in Nat /\ i \in Below(i + 1)
    BY <1>1 DEF Below
  <2> QED  BY <2>1
<1>2. CASE i < 0
  <2>1. -i \in Nat /\ i \in Below(-i + 1)
    BY <1>2 DEF Below
  <2> QED  BY <2>1
<1> QED  BY <1>1, <1>2

\* Two such functions agree where both are defined.
LEMMA UpToUnique ==
    ASSUME NEW b \in Bases, NEW f, NEW k \in Nat, IsUpTo(b, f, k),
           NEW g, NEW m \in Nat, IsUpTo(b, g, m)
    PROVE  \A i \in Below(k) \intersect Below(m) : f[i] = g[i]
<1> DEFINE Wrong == {n \in Nat : \E i \in Below(k) \intersect Below(m) :
                                    i \in Below(n + 1) /\ f[i] # g[i]}
<1>1. SUFFICES ASSUME Wrong # {} PROVE FALSE
  <2>1. ASSUME NEW i \in Below(k) \intersect Below(m), f[i] # g[i] PROVE FALSE
    <3>1. PICK n \in Nat : i \in Below(n + 1)
      BY BelowIs DEF Below
    <3> QED  BY <1>1, <2>1, <3>1
  <2> QED  BY <2>1
<1>2. PICK n \in Wrong : \A w \in Wrong : n <= w
  BY <1>1, LeastMember
<1>3. PICK i \in Below(k) \intersect Below(m) : i \in Below(n + 1) /\ f[i] # g[i]
  BY <1>2
<1>4. n \in Nat /\ i \in Int
  BY <1>2 DEF Below
<1>5. f[i] = Step(b, f, i) /\ g[i] = Step(b, g, i)
  BY <1>3 DEF IsUpTo
<1> DEFINE q == Quotient(b, i)
<1>6. q # 0 /\ f[q] # g[q]
  BY <1>3, <1>5 DEF Step
<1>7. q \in Below(n)
  BY <1>3, <1>4, <1>6, QuotientSmaller
<1> HIDE DEF q, Wrong
<1>8. q \in Below(k) \intersect Below(m)
  <2>1. /\ \A j \in Nat : i \in Below(j) => i \in Below(j + 1)
    BY <1>4 DEF Below
  <2> QED  BY <1>3, <1>4, <1>6, <2>1, QuotientSmaller DEF q
<1>9. n # 0 /\ n - 1 \in Nat
  BY <1>4, <1>7 DEF Below
<1>10. q \in Below((n - 1) + 1)
  <2>1. (n - 1) + 1 = n
    BY <1>4
  <2> QED  BY <1>7, <2>1
<1>11. n - 1 \in Wrong
  BY <1>6, <1>8, <1>9, <1>10 DEF Wrong
<1>12. n <= n - 1
  BY <1>2, <1>11
<1> QED  BY <1>4, <1>12

\* There is one for every k.
LEMMA UpToExists ==
    ASSUME NEW b \in Bases
    PROVE  \A k \in Nat : \E f : IsUpTo(b, f, k)
<1> DEFINE Wrong == {k \in Nat : ~\E f : IsUpTo(b, f, k)}
<1>1. SUFFICES ASSUME Wrong # {} PROVE FALSE
  BY <1>1
<1>2. PICK k \in Wrong : \A w \in Wrong : k <= w
  BY <1>1, LeastMember
<1>3. k \in Nat /\ ~\E f : IsUpTo(b, f, k)
  BY <1>2
<1>4. k # 0
  <2>1. Below(0) = {}
    BY DEF Below
  <2>2. IsUpTo(b, [i \in {} |-> <<>>], 0)
    BY <2>1 DEF IsUpTo
  <2> QED  BY <1>3, <2>2
<1> DEFINE m == k - 1
<1>5. m \in Nat /\ m + 1 = k /\ ~(k <= m)
  BY <1>3, <1>4
<1>6. PICK f : IsUpTo(b, f, m)
  BY <1>2, <1>5
<1> HIDE DEF m, Wrong
<1> DEFINE g == [i \in Below(k) |-> Step(b, f, i)]
<1>7. \A i \in Below(m) : i \in Below(k) /\ g[i] = f[i]
  <2>1. \A i \in Below(m) : i \in Below(k)
    BY <1>3, <1>5 DEF Below
  <2> QED  BY <1>6, <2>1 DEF IsUpTo
<1>8. ASSUME NEW i \in Below(k) PROVE Step(b, f, i) \in Seq(Nat) /\ g[i] = Step(b, g, i)
  <2>1. i \in Int /\ i \in Below(m + 1)
    BY <1>5 DEF Below
  <2>2. Quotient(b, i) # 0 => Quotient(b, i) \in Below(m)
    BY <1>5, <2>1, QuotientSmaller, Zenon
  <2>3. LastDigit(b, i) \in Nat
    <3>1. LastDigit(b, i) \in 0..b - 1
      BY <2>1, QuotientSmaller
    <3> QED  BY <3>1
  <2>4. Quotient(b, i) # 0 => f[Quotient(b, i)] \in Seq(Nat) /\ g[Quotient(b, i)] = f[Quotient(b, i)]
    BY <1>6, <1>7, <2>2 DEF IsUpTo
  <2> HIDE DEF g
  <2>5. Step(b, f, i) \in Seq(Nat)
    BY <2>3, <2>4 DEF Step
  <2>6. Step(b, g, i) = Step(b, f, i)
    BY <2>4 DEF Step
  <2> QED  BY <2>5, <2>6 DEF g
<1>9. IsUpTo(b, g, k)
  BY <1>8 DEF IsUpTo
<1> QED  BY <1>3, <1>9

\* So there is one for all numbers, put together from these.
LEMMA DigitsExist ==
    ASSUME NEW b \in Bases
    PROVE  \E f : IsDigits(b, f)
<1> DEFINE Size(i) == IF i < 0 THEN -i ELSE i
           Part(k) == CHOOSE f : IsUpTo(b, f, k)
           f == [i \in Int |-> Part(Size(i) + 1)[i]]
<1>1. \A k \in Nat : IsUpTo(b, Part(k), k)
  BY UpToExists, Zenon
<1>2. \A i \in Int : /\ Size(i) \in Nat /\ Size(i) + 1 \in Nat
                     /\ i \in Below(Size(i) + 1)
  BY DEF Below
<1>3. \A i \in Int : f[i] = Part(Size(i) + 1)[i]
  OBVIOUS
<1>10. \A i \in Int, k \in Nat : i \in Below(k) => i \in Below(k + 1)
  BY DEF Below
<1> HIDE DEF Part, Size
<1>4. ASSUME NEW i \in Int PROVE f[i] = Step(b, f, i)
  <2> DEFINE g == Part(Size(i) + 1)
             q == Quotient(b, i)
  <2>1. IsUpTo(b, g, Size(i) + 1) /\ i \in Below(Size(i) + 1)
    BY <1>1, <1>2
  <2>2. f[i] = g[i] /\ g[i] = Step(b, g, i)
    BY <1>3, <2>1 DEF IsUpTo
  <2>3. ASSUME q # 0 PROVE g[q] = f[q]
    <3>1. q \in Int
      BY QuotientSmaller
    <3>2. q \in Below(Size(i))
      BY <1>2, <2>3, QuotientSmaller
    <3>3. q \in Below(Size(i) + 1)
      BY <1>2, <1>10, <3>1, <3>2
    <3>4. IsUpTo(b, Part(Size(q) + 1), Size(q) + 1) /\ q \in Below(Size(q) + 1)
      BY <1>1, <1>2, <3>1
    <3>5. g[q] = Part(Size(q) + 1)[q]
      BY <1>2, <2>1, <3>1, <3>3, <3>4, UpToUnique
    <3> QED  BY <1>3, <3>1, <3>5
  <2> HIDE DEF g, f
  <2>4. Step(b, g, i) = Step(b, f, i)
    BY <2>3 DEF Step
  <2> QED  BY <2>2, <2>4
<1>5. f = [i \in Int |-> f[i]]
  OBVIOUS
<1> HIDE DEF f
<1>6. f = [i \in Int |-> Step(b, f, i)]
  BY <1>4, <1>5
<1> QED  BY <1>6 DEF IsDigits

Table(b) == CHOOSE f : IsDigits(b, f)

LEMMA DigitsUnfold ==
    ASSUME NEW b \in Bases, NEW i \in Int
    PROVE  Digits(i, b) = Table(b)[i] /\ Table(b)[i] = Step(b, Table(b), i)
<1>1. IsDigits(b, Table(b))
  BY DigitsExist DEF Table
<1>2. Table(b) = [j \in Int |-> Step(b, Table(b), j)]
  BY <1>1 DEF IsDigits
<1>3. Table(b)[i] = Step(b, Table(b), i)
  BY <1>2
<1>4. Digits(i, b) = Table(b)[i]
  BY Zenon DEF Digits, Table, IsDigits, Step, Quotient, LastDigit
<1> QED  BY <1>3, <1>4

\* v[m] is what the first m digits of s read as, for m up to n.
Reads(b, v, s, n) == v[0] = 0 /\ \A m \in 1..n : v[m] = b * v[m - 1] - s[m]

Agree(s, t, n) == \A m \in 1..n : s[m] = t[m]

LEMMA ReadsUnique ==
    ASSUME NEW b \in Bases, NEW n \in Nat, NEW s, NEW t, Agree(s, t, n),
           NEW v, NEW w, Reads(b, v, s, n), Reads(b, w, t, n)
    PROVE  v[n] = w[n]
<1> DEFINE Wrong == {m \in 0..n : v[m] # w[m]}
<1>1. SUFFICES ASSUME Wrong # {} PROVE FALSE
  BY <1>1
<1>2. Wrong \in SUBSET Nat
  OBVIOUS
<1> HIDE DEF Wrong
<1>3. PICK m \in Wrong : \A k \in Wrong : m <= k
  BY <1>1, <1>2, LeastMember
<1>4. m \in 0..n /\ v[m] # w[m]
  BY <1>3 DEF Wrong
<1>5. m # 0
  BY <1>4 DEF Reads
<1>6. m \in 1..n /\ m - 1 \in 0..n /\ ~(m <= m - 1)
  BY <1>4, <1>5
<1>7. m - 1 \notin Wrong
  BY <1>3, <1>6
<1>8. v[m - 1] = w[m - 1]
  BY <1>6, <1>7 DEF Wrong
<1>9. v[m] = b * v[m - 1] - s[m] /\ w[m] = b * w[m - 1] - t[m] /\ s[m] = t[m]
  BY <1>6 DEF Reads, Agree
<1> QED  BY <1>4, <1>8, <1>9

LEMMA ReadsExists ==
    ASSUME NEW b \in Bases, NEW s \in Seq(Nat)
    PROVE  \A n \in 0..Len(s) : \E v \in [0..n -> Int] : Reads(b, v, s, n)
<1> DEFINE Wrong == {n \in 0..Len(s) : ~\E v \in [0..n -> Int] : Reads(b, v, s, n)}
<1>1. SUFFICES ASSUME Wrong # {} PROVE FALSE
  BY <1>1
<1>2. Wrong \in SUBSET Nat /\ Len(s) \in Nat
  OBVIOUS
<1>3. PICK n \in Wrong : \A k \in Wrong : n <= k
  BY <1>1, <1>2, LeastMember
<1>4. n \in 0..Len(s) /\ ~\E v \in [0..n -> Int] : Reads(b, v, s, n)
  BY <1>3
<1>5. n # 0
  <2>1. [m \in 0..0 |-> 0] \in [0..0 -> Int] /\ Reads(b, [m \in 0..0 |-> 0], s, 0)
    BY DEF Reads
  <2> QED  BY <1>4, <2>1
<1> DEFINE m == n - 1
<1>6. /\ m \in 0..Len(s) /\ m + 1 = n /\ ~(n <= m) /\ m \in Nat /\ n \in Nat
      /\ n \in 1..Len(s)
  BY <1>2, <1>4, <1>5
<1>7. PICK v \in [0..m -> Int] : Reads(b, v, s, m)
  BY <1>3, <1>6
<1> HIDE DEF m, Wrong
<1>8. s[n] \in Int /\ v[m] \in Int /\ b \in Int
  BY <1>6 DEF Bases
<1> DEFINE w == [k \in 0..n |-> IF k = n THEN b * v[m] - s[n] ELSE v[k]]
<1>9. w \in [0..n -> Int]
  <2>1. \A k \in 0..n : k # n => k \in 0..m
    BY <1>6
  <2>2. b * v[m] - s[n] \in Int
    BY <1>8
  <2> QED  BY <2>1, <2>2
<1>10. Reads(b, w, s, n)
  <2>1. w[0] = 0
    BY <1>5, <1>6, <1>7 DEF Reads
  <2>2. ASSUME NEW k \in 1..n PROVE w[k] = b * w[k - 1] - s[k]
    <3>1. k - 1 \in 0..n /\ k \in 0..n /\ k - 1 # n
      BY <1>6
    <3>2. w[k - 1] = v[k - 1]
      BY <3>1
    <3>3. CASE k = n
      <4>1. k - 1 = m
        BY <1>6, <3>3
      <4> QED  BY <3>1, <3>2, <3>3, <4>1
    <3>4. CASE k # n
      <4>1. k \in 1..m
        BY <1>6, <3>4
      <4>2. v[k] = b * v[k - 1] - s[k]
        BY <1>7, <4>1 DEF Reads
      <4> QED  BY <3>1, <3>2, <3>4, <4>2
    <3> QED  BY <3>3, <3>4
  <2> QED  BY <2>1, <2>2 DEF Reads
<1> QED  BY <1>4, <1>9, <1>10

\* What ReadBack returns, and how a further digit changes it.
IsValue(b, v, s) ==
    v = [n \in 0..Len(s) |-> IF n = 0 THEN 0 ELSE b * v[n - 1] - s[n]]

LEMMA ReadBackIs ==
    ASSUME NEW b \in Bases, NEW s \in Seq(Nat), NEW v \in [0..Len(s) -> Int], Reads(b, v, s, Len(s))
    PROVE  ReadBack(s, b) = v[Len(s)]
<1> DEFINE w == CHOOSE x : IsValue(b, x, s)
           n == Len(s)
<1>1. ReadBack(s, b) = w[n]
  BY Zenon DEF ReadBack, IsValue
<1>2. n \in Nat
  OBVIOUS
<1>3. IsValue(b, v, s)
  <2>1. v = [k \in 0..n |-> v[k]]
    OBVIOUS
  <2>2. ASSUME NEW k \in 0..n
        PROVE  v[k] = IF k = 0 THEN 0 ELSE b * v[k - 1] - s[k]
    <3>1. CASE k = 0
      BY <3>1 DEF Reads
    <3>2. CASE k # 0
      <4>1. k \in 1..n
        BY <1>2, <3>2
      <4> QED  BY <3>2, <4>1 DEF Reads
    <3> QED  BY <3>1, <3>2
  <2> QED  BY <2>1, <2>2 DEF IsValue
<1>4. IsValue(b, w, s)
  BY <1>3
<1> HIDE DEF w
<1>5. Reads(b, w, s, n)
  <2>1. \A k \in 0..n : w[k] = IF k = 0 THEN 0 ELSE b * w[k - 1] - s[k]
    BY <1>4 DEF IsValue
  <2>2. 0 \in 0..n /\ \A k \in 1..n : k \in 0..n /\ k # 0
    BY <1>2
  <2> HIDE DEF n
  <2>3. w[0] = 0
    BY <2>1, <2>2
  <2>4. \A k \in 1..n : w[k] = b * w[k - 1] - s[k]
    BY <2>1, <2>2
  <2> QED  BY <2>3, <2>4 DEF Reads
<1>6. Agree(s, s, n)
  BY DEF Agree
<1> HIDE DEF n
<1> QED  BY <1>1, <1>2, <1>5, <1>6, ReadsUnique DEF n

LEMMA ReadBackMore ==
    ASSUME NEW b \in Bases, NEW s \in Seq(Nat), NEW d \in Nat
    PROVE  /\ ReadBack(<<>>, b) = 0
           /\ ReadBack(s, b) \in Int
           /\ ReadBack(s \o <<d>>, b) = b * ReadBack(s, b) - d
<1> DEFINE t == s \o <<d>>
           n == Len(s)
<1>1. /\ t \in Seq(Nat) /\ Len(t) = n + 1 /\ n \in Nat
      /\ t[n + 1] = d /\ \A m \in 1..n : t[m] = s[m]
  OBVIOUS
<1>2. ReadBack(<<>>, b) = 0
  <2>1. <<>> \in Seq(Nat) /\ Len(<<>>) = 0 /\ 0 \in 0..0
    OBVIOUS
  <2>2. PICK v \in [0..0 -> Int] : Reads(b, v, <<>>, 0)
    BY <2>1, ReadsExists
  <2> QED  BY <2>1, <2>2, ReadBackIs DEF Reads
<1> HIDE DEF t, n
<1>3. PICK v \in [0..Len(t) -> Int] : Reads(b, v, t, Len(t))
  <2>1. Len(t) \in 0..Len(t)
    BY <1>1
  <2> QED  BY <1>1, <2>1, ReadsExists
<1>4. PICK w \in [0..n -> Int] : Reads(b, w, s, n)
  <2>1. n \in 0..n
    BY <1>1
  <2> QED  BY <2>1, ReadsExists DEF n
<1>5. ReadBack(t, b) = v[n + 1] /\ ReadBack(s, b) = w[n] /\ w[n] \in Int
  <2>1. ReadBack(t, b) = v[Len(t)]
    BY <1>1, <1>3, ReadBackIs, Zenon
  <2>2. ReadBack(s, b) = w[n]
    BY <1>4, ReadBackIs, Zenon DEF n
  <2>3. w[n] \in Int
    BY <1>1, <1>4
  <2> QED  BY <1>1, <2>1, <2>2, <2>3
<1>6. Reads(b, v, t, n) /\ v[n + 1] = b * v[n] - d
  <2>1. n + 1 \in 1..n + 1 /\ \A m \in 1..n : m \in 1..n + 1
    BY <1>1
  <2>2. (n + 1) - 1 = n
    BY <1>1
  <2> QED  BY <1>1, <1>3, <2>1, <2>2 DEF Reads
<1>7. v[n] = w[n]
  <2>1. n \in Nat /\ Reads(b, v, t, n) /\ Reads(b, w, s, n)
    BY <1>1, <1>4, <1>6
  <2>2. Agree(t, s, n)
    BY <1>1 DEF Agree
  <2> QED  BY <2>1, <2>2, ReadsUnique
<1> QED  BY <1>2, <1>5, <1>6, <1>7 DEF t

\* s are the digits of i: they read back, and begin with no zero, in base b.
AreDigits(b, s, i) ==
    /\ s \in Seq(Nat) /\ s # <<>>
    /\ \A k \in DOMAIN s : s[k] \in 0..b - 1
    /\ ReadBack(s, b) = IF i < 0 THEN i ELSE -i
    /\ i # 0 => s[1] # 0
    /\ i = 0 => s = <<0>>

LEMMA StepIsRight ==
    ASSUME NEW b \in Bases, NEW i \in Int, NEW f,
           Quotient(b, i) # 0 => AreDigits(b, f[Quotient(b, i)], Quotient(b, i))
    PROVE  AreDigits(b, Step(b, f, i), i)
<1> DEFINE q == Quotient(b, i)
           d == LastDigit(b, i)
<1>1. /\ q \in Int /\ d \in 0..b - 1
      /\ i >= 0 => q >= 0 /\ i = b * q + d
      /\ i < 0 => q <= 0 /\ i = b * q - d
  BY QuotientSmaller
<1>2. d \in Nat /\ (b = 10 \/ b = 16)
  BY <1>1 DEF Bases
<1> HIDE DEF q, d
<1>3. CASE q = 0
  <2>1. Step(b, f, i) = <<>> \o <<d>>
    BY <1>3 DEF Step, q, d
  <2>2. <<>> \in Seq(Nat)
    OBVIOUS
  <2>3. ReadBack(<<>> \o <<d>>, b) = b * ReadBack(<<>>, b) - d /\ ReadBack(<<>>, b) = 0
    BY <1>2, <2>2, ReadBackMore, Zenon
  <2>4. <<>> \o <<d>> = <<d>>
    BY <1>2
  <2>5. ReadBack(<<d>>, b) = -d
    BY <1>2, <2>3, <2>4
  <2>6. /\ <<d>> \in Seq(Nat) /\ <<d>> # <<>> /\ <<d>>[1] = d
        /\ \A k \in DOMAIN <<d>> : <<d>>[k] \in 0..b - 1
    BY <1>1, <1>2
  <2>7. (i < 0 => -d = i) /\ (i >= 0 => -d = -i) /\ (i = 0 <=> d = 0)
    BY <1>1, <1>2, <1>3
  <2> QED  BY <2>1, <2>4, <2>5, <2>6, <2>7 DEF AreDigits
<1>4. CASE q # 0
  <2> DEFINE s == f[q]
  <2>1. AreDigits(b, s, q) /\ Step(b, f, i) = s \o <<d>>
    BY <1>4 DEF Step, q, d
  <2> HIDE DEF s
  <2>2. /\ s \in Seq(Nat) /\ s # <<>> /\ s[1] # 0
        /\ ReadBack(s, b) = IF q < 0 THEN q ELSE -q
    BY <1>4, <2>1 DEF AreDigits
  <2>3. ReadBack(s \o <<d>>, b) = b * ReadBack(s, b) - d
    BY <1>2, <2>2, ReadBackMore, Zenon
  <2>4. /\ s \o <<d>> \in Seq(Nat) /\ s \o <<d>> # <<>>
        /\ (s \o <<d>>)[1] = s[1]
    BY <1>2, <2>2
  <2>5. /\ b * ReadBack(s, b) - d = IF i < 0 THEN i ELSE -i
        /\ i # 0
    <3>1. CASE b = 10
      BY <1>1, <1>2, <1>4, <2>2, <3>1, SMT
    <3>2. CASE b = 16
      BY <1>1, <1>2, <1>4, <2>2, <3>2, SMT
    <3> QED  BY <1>2, <3>1, <3>2
  <2>6. ASSUME NEW k \in DOMAIN (s \o <<d>>) PROVE (s \o <<d>>)[k] \in 0..b - 1
    <3>1. \A m \in DOMAIN s : s[m] \in 0..b - 1
      BY <2>1 DEF AreDigits
    <3>2. /\ k \in DOMAIN s \/ k = Len(s) + 1
          /\ k \in DOMAIN s => (s \o <<d>>)[k] = s[k]
          /\ k = Len(s) + 1 => (s \o <<d>>)[k] = d
      BY <1>2, <2>2
    <3> QED  BY <1>1, <3>1, <3>2
  <2> QED  BY <2>1, <2>2, <2>3, <2>4, <2>5, <2>6 DEF AreDigits
<1> QED  BY <1>3, <1>4

LEMMA DigitsAreRight ==
    ASSUME NEW b \in Bases
    PROVE  \A i \in Int : AreDigits(b, Digits(i, b), i)
<1> DEFINE Wrong == {n \in Nat : \E i \in Below(n + 1) : ~AreDigits(b, Table(b)[i], i)}
<1>1. ASSUME Wrong # {} PROVE FALSE
  <2>1. PICK n \in Wrong : \A w \in Wrong : n <= w
    BY <1>1, LeastMember
  <2>2. PICK i \in Below(n + 1) : ~AreDigits(b, Table(b)[i], i)
    BY <2>1
  <2>3. n \in Nat /\ i \in Int
    BY <2>1 DEF Below
  <2> HIDE DEF Wrong
  <2> DEFINE q == Quotient(b, i)
  <2>4. q # 0 /\ ~AreDigits(b, Table(b)[q], q)
    BY <2>2, <2>3, DigitsUnfold, StepIsRight
  <2>5. q \in Below(n)
    BY <2>2, <2>3, <2>4, QuotientSmaller
  <2> HIDE DEF q
  <2>6. n # 0 /\ n - 1 \in Nat /\ (n - 1) + 1 = n
    BY <2>3, <2>5 DEF Below
  <2>7. n - 1 \in Wrong
    BY <2>4, <2>5, <2>6 DEF Wrong
  <2>8. n <= n - 1
    BY <2>1, <2>7
  <2> QED  BY <2>3, <2>8
<1>2. ASSUME NEW i \in Int PROVE AreDigits(b, Table(b)[i], i)
  <2>1. PICK n \in Nat : i \in Below(n + 1)
    BY BelowIs
  <2> QED  BY <1>1, <2>1
<1> QED  BY <1>2, DigitsUnfold

\* Every integer, of any width, that is not negative converts to digits that
\* read back as itself, in base 10 and 16, without leading zeros; a negative
\* one to an underscore and the digits of its absolute value.  convert works
\* on the negative number as it is, so that the least one is no exception
\* (LogStream.cc:36, 58).
THEOREM NumbersReadBack ==
    ASSUME NEW v \in Int
    PROVE  /\ v >= 0 => /\ ReadsAs(Convert(v), 10, -v)
                        /\ ReadsAs(ConvertHex(v), 16, -v)
           /\ v < 0 => /\ Head(Convert(v)) = Underscore
                       /\ ReadsAs(Tail(Convert(v)), 10, v)
<1>1. 10 \in Bases /\ 16 \in Bases
  BY DEF Bases
<1>2. AreDigits(10, Digits(v, 10), v) /\ AreDigits(16, Digits(v, 16), v)
  BY <1>1, DigitsAreRight, Zenon
<1>3. ASSUME NEW b, NEW s, AreDigits(b, s, v)
      PROVE  ReadsAs(s, b, IF v < 0 THEN v ELSE -v) /\ s \in Seq(Nat)
  BY <1>3 DEF AreDigits, ReadsAs
<1> DEFINE s == Digits(v, 10)
<1>4. s \in Seq(Nat)
  BY <1>2, <1>3
<1> HIDE DEF s
<1>5. v < 0 => Convert(v) = <<Underscore>> \o s
  BY DEF Convert, s
<1>6. ASSUME v >= 0 PROVE Convert(v) = <<>> \o s
  <2>1. ~(v < 0)
    BY <1>6
  <2> QED  BY <2>1, Zenon DEF Convert, s
<1>7. <<>> \o s = s
  BY <1>4
<1>8. Head(<<Underscore>> \o s) = Underscore /\ Tail(<<Underscore>> \o s) = s
  BY <1>4 DEF Underscore
<1>9. ASSUME v >= 0
      PROVE  ReadsAs(Convert(v), 10, -v) /\ ReadsAs(ConvertHex(v), 16, -v)
  <2>1. (IF v < 0 THEN v ELSE -v) = -v
    BY <1>9
  <2>2. ReadsAs(s, 10, -v) /\ ReadsAs(Digits(v, 16), 16, -v)
    BY <1>2, <1>3, <2>1 DEF s
  <2>3. Convert(v) = s /\ ConvertHex(v) = Digits(v, 16)
    BY <1>6, <1>7, <1>9 DEF ConvertHex
  <2> QED  BY <2>2, <2>3
<1>10. ASSUME v < 0
       PROVE  Head(Convert(v)) = Underscore /\ ReadsAs(Tail(Convert(v)), 10, v)
  <2>1. (IF v < 0 THEN v ELSE -v) = v
    BY <1>10
  <2>2. ReadsAs(s, 10, v)
    BY <1>2, <1>3, <2>1 DEF s
  <2> QED  BY <1>5, <1>8, <1>10, <2>2
<1> QED  BY <1>9, <1>10

-----------------------------------------------------------------------------
(* Sizes *)

\* printf rounds to the nearest integer.
LEMMA Rounding ==
    ASSUME NEW n \in Nat, NEW tens \in Nat, NEW unit \in Nat \ {0},
           NEW k \in Rounded(n, tens, unit)
    PROVE  /\ k \in Nat
           /\ 2 * (unit * k) <= 2 * (n * tens) + unit
           /\ 2 * (n * tens) <= 2 * (unit * k) + unit
<1> DEFINE x == n * tens
           low == x \div unit
           rest == x % unit
<1>1. x \in Nat
  BY SMT
<1>2. k \in (IF 2 * rest < unit THEN {low} ELSE IF 2 * rest > unit THEN {low + 1}
             ELSE {low, low + 1})
  BY SMT DEF Rounded
<1> HIDE DEF x
<1>3. low \in Nat /\ rest \in Nat /\ x = unit * low + rest /\ rest < unit
  BY <1>1, SMT
<1> HIDE DEF low, rest
<1>4. (k = low /\ 2 * rest <= unit) \/ (k = low + 1 /\ 2 * rest >= unit)
  BY <1>2, <1>3, SMT
<1>5. unit * (low + 1) = unit * low + unit /\ unit * low \in Nat
  BY <1>3, SMT
<1> DEFINE p == unit * low
<1> HIDE DEF p
<1>6. /\ k \in Nat
      /\ (unit * k = p /\ 2 * rest <= unit) \/ (unit * k = p + unit /\ 2 * rest >= unit)
  BY <1>3, <1>4, <1>5, SMT DEF p
<1>7. p \in Nat /\ x = p + rest
  BY <1>3, <1>5 DEF p
<1>8. 2 * (unit * k) <= 2 * x + unit /\ 2 * x <= 2 * (unit * k) + unit
  BY <1>1, <1>3, <1>6, <1>7, SMT
<1> QED  BY <1>6, <1>8 DEF x

LEMMA ThousandsRounded ==
    ASSUME NEW n \in Nat, n >= 1000, n < 999500, NEW k \in Rounded(n, Tens(n, 1000), 1000)
    PROVE  k \in Nat /\ k >= 100 /\ k <= 999
<1> DEFINE t == Tens(n, 1000)
<1>1. t = IF n < 9995 THEN 100 ELSE IF n < 99950 THEN 10 ELSE 1
  BY SMT DEF Tens
<1> HIDE DEF t
<1>2. k \in Rounded(n, t, 1000) /\ t \in Nat
  BY <1>1, SMT DEF t
<1>3. /\ k \in Nat
      /\ 2 * (1000 * k) <= 2 * (n * t) + 1000 /\ 2 * (n * t) <= 2 * (1000 * k) + 1000
  BY <1>2, Rounding, SMT
<1> QED  BY <1>1, <1>3, SMT

LEMMA MillionsRounded ==
    ASSUME NEW n \in Nat, n >= 999500, n < 999500000, NEW k \in Rounded(n, Tens(n, 1000000), 1000000)
    PROVE  k \in Nat /\ k >= 100 /\ k <= 999
<1> DEFINE t == Tens(n, 1000000)
<1>1. t = IF n < 9995000 THEN 100 ELSE IF n < 99950000 THEN 10 ELSE 1
  BY SMT DEF Tens
<1> HIDE DEF t
<1>2. k \in Rounded(n, t, 1000000) /\ t \in Nat
  BY <1>1, SMT DEF t
<1>3. /\ k \in Nat
      /\ 2 * (1000000 * k) <= 2 * (n * t) + 1000000 /\ 2 * (n * t) <= 2 * (1000000 * k) + 1000000
  BY <1>2, Rounding, SMT
<1> QED  BY <1>1, <1>3, SMT

LEMMA KiRounded ==
    ASSUME NEW n \in Nat, n >= 1024, n < 1048064, NEW k \in Rounded(n, Tens(n, 1024), 1024)
    PROVE  k \in Nat /\ k >= 100 /\ k <= 1023 /\ (k > 999 => n >= 1023488)
<1> DEFINE t == Tens(n, 1024)
<1>1. t = IF n < 10235 THEN 100 ELSE IF n < 102349 THEN 10 ELSE 1
  BY SMT DEF Tens
<1> HIDE DEF t
<1>2. k \in Rounded(n, t, 1024) /\ t \in Nat
  BY <1>1, SMT DEF t
<1>3. /\ k \in Nat
      /\ 2 * (1024 * k) <= 2 * (n * t) + 1024 /\ 2 * (n * t) <= 2 * (1024 * k) + 1024
  BY <1>2, Rounding, SMT
<1> QED  BY <1>1, <1>3, SMT

LEMMA MiRounded ==
    ASSUME NEW n \in Nat, n >= 1048064, n < 1073217536, NEW k \in Rounded(n, Tens(n, 1048576), 1048576)
    PROVE  k \in Nat /\ k >= 100 /\ k <= 1023 /\ (k > 999 => n >= 1023488)
<1> DEFINE t == Tens(n, 1048576)
<1>1. t = IF n < 10480518 THEN 100 ELSE IF n < 104805172 THEN 10 ELSE 1
  BY SMT DEF Tens
<1> HIDE DEF t
<1>2. k \in Rounded(n, t, 1048576) /\ t \in Nat
  BY <1>1, SMT DEF t
<1>3. /\ k \in Nat
      /\ 2 * (1048576 * k) <= 2 * (n * t) + 1048576 /\ 2 * (n * t) <= 2 * (1048576 * k) + 1048576
  BY <1>2, Rounding, SMT
<1> QED  BY <1>1, <1>3, SMT

\* formatSI and formatIEC give three digits from the first unit up to where
\* the next but one begins, however printf rounds; formatIEC shows four
\* where it counts to 1023 (LogStream.cc:86, 137).
THEOREM SizesAreShort ==
    ASSUME NEW n \in Nat
    PROVE  /\ n >= 1000 /\ n < 999500000 => \A k \in FormatSI(n) : k >= 100 /\ k <= 999
           /\ n >= 1024 /\ n < 1073217536 =>
                 \A k \in FormatIEC(n) : /\ k >= 100 /\ k <= 1023
                                         /\ k > 999 => n >= 1023488
<1>1. ASSUME n >= 1000, n < 999500000, NEW k \in FormatSI(n)
      PROVE  k >= 100 /\ k <= 999
  <2>1. CASE n < 999500
    <3>1. k \in Rounded(n, Tens(n, 1000), 1000)
      BY <1>1, <2>1, SMT DEF FormatSI
    <3> QED  BY <1>1, <2>1, <3>1, ThousandsRounded, SMT
  <2>2. CASE n >= 999500
    <3>1. k \in Rounded(n, Tens(n, 1000000), 1000000)
      BY <1>1, <2>2, SMT DEF FormatSI
    <3> QED  BY <1>1, <2>2, <3>1, MillionsRounded, SMT
  <2> QED  BY <2>1, <2>2, SMT
<1>2. ASSUME n >= 1024, n < 1073217536, NEW k \in FormatIEC(n)
      PROVE  k >= 100 /\ k <= 1023 /\ (k > 999 => n >= 1023488)
  <2>1. CASE n < 1048064
    <3>1. k \in Rounded(n, Tens(n, 1024), 1024)
      BY <1>2, <2>1, SMT DEF FormatIEC
    <3> QED  BY <1>2, <2>1, <3>1, KiRounded, SMT
  <2>2. CASE n >= 1048064
    <3>1. k \in Rounded(n, Tens(n, 1048576), 1048576)
      BY <1>2, <2>2, SMT DEF FormatIEC
    <3> QED  BY <1>2, <2>2, <3>1, MiRounded, SMT
  <2> QED  BY <2>1, <2>2, SMT
<1> QED  BY <1>1, <1>2, SMT

LEMMA NumbersType == Numbers \subseteq Int
<1> DEFINE few == 0..1100
           odd == {-1, -9, -10, -1000, 2147483647, -2147483647 - 1}
<1>1. few \subseteq Int /\ odd \subseteq Int
  BY SMT
<1>2. NearSteps \subseteq Int
  BY SMT DEF NearSteps
<1>3. Numbers = few \cup NearSteps \cup odd
  BY SMT DEF Numbers
<1> HIDE DEF few, odd
<1> QED  BY <1>1, <1>2, <1>3, SMT

LEMMA NumberInput ==
    /\ MCInit => (subject = "number" => input \in Int)
    /\ (subject = "number" => input \in Int) /\ [MCNext]_all
           => (subject = "number" => input \in Int)'
<1>1. MCInit => (subject = "number" => input \in Int)
  BY NumbersType, Zenon DEF MCInit
<1>2. [MCNext]_all => subject' = subject /\ (input' = input \/ subject = "day")
  BY Zenon DEF MCNext, UseBuffer, UseLogger, WalkCalendar, all
<1> QED  BY <1>1, <1>2

\* Whichever of its numbers the model is at, the digits of convert and
\* convertHex read back as the number without its sign, for which convert
\* writes an underscore, and sizes in k, M, Ki and Mi are rounded to three
\* digits (LogStream.cc:36, 58, 80, 122).
THEOREM NumbersAsShown == MCSpec => []NumbersAreRight
<1> DEFINE IsNumber == subject = "number" => input \in Int
<1>1. ASSUME IsNumber, subject = "number" PROVE NumbersAreRight
  <2>1. input \in Int
    BY <1>1
  <2>2. /\ input >= 0 => /\ ReadsAs(Convert(input), 10, -input)
                         /\ ReadsAs(ConvertHex(input), 16, -input)
        /\ input < 0 => /\ Head(Convert(input)) = Underscore
                        /\ ReadsAs(Tail(Convert(input)), 10, input)
    BY <2>1, NumbersReadBack, Zenon
  <2>3. ASSUME input >= 1000, input < 999500000, NEW n \in FormatSI(input)
        PROVE  n >= 100 /\ n <= 999
    <3>1. input \in Nat
      BY <2>1, <2>3, SMT
    <3> QED  BY <2>3, <3>1, SizesAreShort, SMT
  <2>4. ASSUME input >= 1024, input < 1073217536, NEW n \in FormatIEC(input)
        PROVE  n >= 100 /\ n <= 1023 /\ (n > 999 => input >= 1023488)
    <3>1. input \in Nat
      BY <2>1, <2>4, SMT
    <3> QED  BY <2>4, <3>1, SizesAreShort, SMT
  <2> QED  BY <2>2, <2>3, <2>4, SMT DEF NumbersAreRight
<1>2. subject # "number" => NumbersAreRight
  BY DEF NumbersAreRight
<1>3. IsNumber => NumbersAreRight
  BY <1>1, <1>2
<1>4. MCInit => IsNumber
  BY NumberInput, Zenon
<1>5. IsNumber /\ [MCNext]_all => IsNumber'
  BY NumberInput, Zenon
<1> HIDE DEF IsNumber
<1> QED  BY <1>3, <1>4, <1>5, PTL DEF MCSpec
=============================================================================
