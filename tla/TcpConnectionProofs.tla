------------------------ MODULE TcpConnectionProofs ------------------------
(***************************************************************************)
(* Proofs about the output of TcpConnection and about its life, for any    *)
(* programs, any number of messages and functors and any high-water mark.  *)
(***************************************************************************)
EXTENDS TcpConnection, SequenceTheorems, TLAPS

FunctorNames == SharedFunctors \union {"sendInLoop", "shutdownInLoop"}

FunctorType == [fn : FunctorNames, msg : Nat]

Typed ==
    /\ state_ \in Open \union {"kConnecting", "kDisconnected"}
    /\ outputBuffer_ \in Seq(Nat) /\ wire \in Seq(Nat) /\ stream \in Seq(Nat)
    /\ pending \in Seq(FunctorType) /\ batch \in Seq(FunctorType)
    /\ done \in Nat /\ msgs \in Nat

\* Before newConnection nothing has happened; after it the connection never
\* is in kConnecting again.
Born ==
    IF obj = "none"
    THEN /\ state_ = "kConnecting" /\ outputBuffer_ = <<>>
         /\ pc = "poll" /\ cb = "none" /\ tpc = "idle"
    ELSE state_ # "kConnecting"

NoShutdownIn(queue) ==
    \A i \in 1..Len(queue) : queue[i].fn # "shutdownInLoop"

\* The other thread of a disciplined program does not close, so that
\* shutdownInLoop is called by shutdown() in the loop thread only.
OnlySends ==
    Disciplined => /\ tpc \in {"idle", "send"}
                   /\ NoShutdownIn(pending) /\ NoShutdownIn(batch)

IInv == /\ Typed /\ Born /\ OnlySends
        /\ StreamIntact /\ WritingIffBuffered /\ FinAfterData

-----------------------------------------------------------------------------
(* Sequences *)

LEMMA Associative ==
    ASSUME NEW s \in Seq(Nat), NEW t \in Seq(Nat), NEW u \in Seq(Nat)
    PROVE  (s \o t) \o u = s \o (t \o u)
  BY ConcatAssociative, SMTT(60)

LEMMA MessageSplit ==
    ASSUME NEW m \in Nat, NEW n \in 0..MsgLen
    PROVE  LET data == Message(m)
               rest == SubSeq(data, n + 1, MsgLen)
           IN  /\ data \in Seq(Nat)
               /\ SubSeq(data, 1, n) \in Seq(Nat) /\ rest \in Seq(Nat)
               /\ SubSeq(data, 1, n) \o rest = data
               /\ n = 0 => SubSeq(data, 1, n) = <<>> /\ rest = data
<1> DEFINE data == Message(m)
<1>1. data \in Seq(Nat) /\ Len(data) = 2
  BY DEF Message, MsgLen
<1> HIDE DEF data
<1>2. n \in 0..2 /\ n \in Int
  BY DEF MsgLen
<1>3. SubSeq(data, 1, n) \in Seq(Nat) /\ SubSeq(data, n + 1, 2) \in Seq(Nat)
  <2>1. \A i \in 1..2 : data[i] \in Nat
    BY DEF data, Message, MsgLen
  <2>2. \A i \in 1..n : data[i] \in Nat
    BY <1>2, <2>1
  <2>3. \A i \in n + 1..2 : data[i] \in Nat
    BY <1>2, <2>1
  <2>4. SubSeq(data, 1, n) \in Seq(Nat)
    BY <1>2, <2>2, SubSeqProperties
  <2>5. n + 1 \in Int /\ SubSeq(data, n + 1, 2) \in Seq(Nat)
    BY <1>2, <2>3, SubSeqProperties
  <2> QED  BY <2>4, <2>5
<1>4. SubSeq(data, 1, n) \o SubSeq(data, n + 1, 2) = data
  <2>1. SubSeq(data, 1, n) \o SubSeq(data, n + 1, 2) = SubSeq(data, 1, 2)
    BY <1>1, <1>2, ConcatAdjacentSubSeq
  <2>2. SubSeq(data, 1, 2) = data
    BY <1>1
  <2> QED  BY <2>1, <2>2
<1>5. n = 0 => SubSeq(data, 1, n) = <<>> /\ SubSeq(data, n + 1, 2) = data
  BY <1>1
<1> QED  BY <1>1, <1>3, <1>4, <1>5 DEF data, MsgLen

\* Output that is moved from the buffer to the socket.
LEMMA BufferSplit ==
    ASSUME NEW out \in Seq(Nat), NEW n \in 1..Len(out)
    PROVE  LET rest == SubSeq(out, n + 1, Len(out))
           IN  /\ SubSeq(out, 1, n) \in Seq(Nat) /\ rest \in Seq(Nat)
               /\ SubSeq(out, 1, n) \o rest = out
               /\ rest = <<>> <=> n = Len(out)
<1>1. /\ SubSeq(out, 1, n) \in Seq(Nat)
      /\ SubSeq(out, n + 1, Len(out)) \in Seq(Nat)
      /\ Len(SubSeq(out, n + 1, Len(out))) = Len(out) - n
  OBVIOUS
<1>2. SubSeq(out, 1, n) \o SubSeq(out, n + 1, Len(out)) = out
  <2>1. SubSeq(out, 1, n) \o SubSeq(out, n + 1, Len(out))
           = SubSeq(out, 1, Len(out))
    BY ConcatAdjacentSubSeq
  <2>2. SubSeq(out, 1, Len(out)) = out
    OBVIOUS
  <2> QED  BY <2>1, <2>2
<1>3. SubSeq(out, n + 1, Len(out)) = <<>> <=> n = Len(out)
  <2> DEFINE rest == SubSeq(out, n + 1, Len(out))
  <2>1. rest \in Seq(Nat) /\ Len(rest) = Len(out) - n
    BY <1>1
  <2> HIDE DEF rest
  <2>2. rest = <<>> <=> Len(rest) = 0
    BY <2>1, EmptySeq
  <2> QED  BY <2>1, <2>2 DEF rest
<1> QED  BY <1>1, <1>2, <1>3

\* Queueing a functor, or what sendInLoop queues.
LEMMA Queued ==
    ASSUME NEW queue \in Seq(FunctorType), NEW f \in FunctorNames, NEW m \in Nat
    PROVE  LET longer == Append(queue, [fn |-> f, msg |-> m])
           IN  /\ longer \in Seq(FunctorType)
               /\ NoShutdownIn(queue) /\ f # "shutdownInLoop"
                     => NoShutdownIn(longer)
  BY DEF FunctorType, NoShutdownIn

LEMMA NotesQueued ==
    ASSUME NEW queue \in Seq(FunctorType), NEW n
    PROVE  /\ queue \o Notes(n) \in Seq(FunctorType)
           /\ NoShutdownIn(queue) => NoShutdownIn(queue \o Notes(n))
<1>1. CASE Notes(n) = <<>>
  BY <1>1, ConcatEmptySeq
<1>2. CASE Notes(n) = <<Functor("note")>>
  <2>1. Functor("note") \in FunctorType
    BY DEF Functor, FunctorType, FunctorNames, SharedFunctors
  <2>2. queue \o Notes(n) = Append(queue, Functor("note"))
    BY <1>2, <2>1, AppendIsConcat
  <2> QED  BY <2>2, Queued DEF Functor, FunctorNames, SharedFunctors
<1> QED  BY <1>1, <1>2 DEF Notes

-----------------------------------------------------------------------------
(* Steps *)

LEMMA InitIInv == Init => IInv
  BY DEF Init, IInv, Typed, Born, OnlySends, NoShutdownIn, StreamIntact,
         WritingIffBuffered, FinAfterData, Open

\* The end of a step neither creates the connection nor undoes it.
LEMMA LifetimeKeeps ==
    ASSUME Lifetime PROVE obj' = "none" <=> obj = "none"
  BY DEF Lifetime

\* sendInLoop.
LEMMA SendInLoopIInv ==
    ASSUME IInv, NEW m \in Nat, SendInLoop(m),
           obj # "none", obj' # "none", msgs' \in Nat, done' \in Nat,
           UNCHANGED <<client, state_, wrShut, tpc, batch>>
    PROVE  IInv'
<1>1. CASE UNCHANGED <<outVars, channelVars, pending>>
  BY <1>1 DEF IInv, Typed, Born, OnlySends, Disciplined, StreamIntact,
              WritingIffBuffered, FinAfterData, outVars, channelVars
<1>2. ASSUME state_ # "kDisconnected",
             NEW n \in IF MayWriteDirectly THEN 0..MsgLen ELSE {0},
             LET data == Message(m)
                 rest == SubSeq(data, n + 1, MsgLen) IN
             /\ MayWriteDirectly => ~wrShut /\ ~IsReset
             /\ wire' = wire \o SubSeq(data, 1, n)
             /\ outputBuffer_' = outputBuffer_ \o rest
             /\ stream' = stream \o data
             /\ pending' = pending \o Notes(Len(rest))
             /\ IF rest # <<>> /\ "write" \notin events_
                THEN UpdateChannel(events_ \union {"write"})
                ELSE UNCHANGED channelVars
      PROVE  IInv'
  <2> DEFINE data == Message(m)
             first == SubSeq(data, 1, n)
             rest == SubSeq(data, n + 1, MsgLen)
  <2>1. n \in 0..MsgLen /\ (~MayWriteDirectly => n = 0)
    BY <1>2 DEF MsgLen
  <2>2. /\ data \in Seq(Nat) /\ first \in Seq(Nat) /\ rest \in Seq(Nat)
        /\ first \o rest = data
        /\ n = 0 => first = <<>> /\ rest = data
    BY <2>1, MessageSplit
  <2>3. /\ wire' = wire \o first
        /\ outputBuffer_' = outputBuffer_ \o rest
        /\ stream' = stream \o data
        /\ pending' = pending \o Notes(Len(rest))
        /\ MayWriteDirectly => ~wrShut
        /\ IF rest # <<>> /\ "write" \notin events_
           THEN events_' = events_ \union {"write"}
           ELSE events_' = events_
    BY <1>2 DEF UpdateChannel, channelVars
  <2> HIDE DEF data, first, rest
  <2>4. Typed'
    <3>1. pending' \in Seq(FunctorType)
      BY <2>3, NotesQueued DEF IInv, Typed
    <3> QED  BY <2>2, <2>3, <3>1, ConcatProperties DEF IInv, Typed
  <2>5. StreamIntact'
    <3>1. CASE MayWriteDirectly
      <4>1. outputBuffer_ = <<>> /\ outputBuffer_' = rest /\ stream = wire
        BY <2>2, <2>3, <3>1, ConcatEmptySeq
           DEF MayWriteDirectly, IInv, Typed, StreamIntact
      <4>2. (wire \o first) \o rest = wire \o (first \o rest)
        BY <2>2, Associative, ZenonT(60) DEF IInv, Typed
      <4> QED  BY <2>2, <2>3, <4>1, <4>2 DEF StreamIntact
    <3>2. CASE ~MayWriteDirectly
      <4>1. wire' = wire /\ outputBuffer_' = outputBuffer_ \o data
        BY <2>1, <2>2, <2>3, <3>2, ConcatEmptySeq DEF IInv, Typed
      <4>2. wire \o (outputBuffer_ \o data) = (wire \o outputBuffer_) \o data
        BY <2>2, Associative, ZenonT(60) DEF IInv, Typed
      <4> QED  BY <2>3, <4>1, <4>2 DEF IInv, StreamIntact
    <3> QED  BY <3>1, <3>2
  <2>6. WritingIffBuffered'
    <3>1. Disciplined' => Disciplined
      BY DEF Disciplined
    <3>2. CASE rest = <<>>
      <4>1. outputBuffer_' = outputBuffer_ /\ events_' = events_
        BY <2>3, <3>2, ConcatEmptySeq DEF IInv, Typed
      <4> QED  BY <3>1, <4>1 DEF IInv, WritingIffBuffered
    <3>3. CASE rest # <<>>
      <4>1. outputBuffer_' # <<>>
        BY <2>2, <2>3, <3>3, ConcatEqualIffEmpty DEF IInv, Typed
      <4>2. "write" \in events_'
        BY <2>3, <3>3
      <4> QED  BY <4>1, <4>2 DEF WritingIffBuffered
    <3> QED  BY <3>2, <3>3
  <2>7. FinAfterData'
    <3>1. Disciplined' => Disciplined
      BY DEF Disciplined
    <3>2. state_ \in Open
      BY <1>2 DEF IInv, Typed, Born
    <3>3. ASSUME Disciplined, wrShut PROVE FALSE
      <4>1. outputBuffer_ = <<>> /\ "write" \notin events_
        BY <3>2, <3>3 DEF IInv, FinAfterData, WritingIffBuffered
      <4> QED  BY <2>3, <3>3, <4>1 DEF MayWriteDirectly
    <3> QED  BY <3>1, <3>3 DEF FinAfterData
  <2>8. OnlySends'
    <3>1. Disciplined' => Disciplined
      BY DEF Disciplined
    <3>2. NoShutdownIn(pending) => NoShutdownIn(pending')
      BY <2>3, NotesQueued DEF IInv, Typed
    <3>3. NoShutdownIn(batch) => NoShutdownIn(batch')
      BY DEF NoShutdownIn
    <3> QED  BY <3>1, <3>2, <3>3 DEF IInv, OnlySends
  <2> QED  BY <2>4, <2>5, <2>6, <2>7, <2>8 DEF IInv, Born
<1> QED  BY <1>1, <1>2 DEF SendInLoop

\* handleWrite.
LEMMA WriteOutIInv ==
    ASSUME IInv, NEW n \in 1..Len(outputBuffer_), WriteOut(n),
           "write" \in events_, obj' = "none" <=> obj = "none",
           UNCHANGED <<client, state_, stream, tpc, batch, done, msgs>>
    PROVE  IInv'
<1> DEFINE first == SubSeq(outputBuffer_, 1, n)
           rest == SubSeq(outputBuffer_, n + 1, Len(outputBuffer_))
<1>1. /\ first \in Seq(Nat) /\ rest \in Seq(Nat)
      /\ first \o rest = outputBuffer_
      /\ rest = <<>> <=> n = Len(outputBuffer_)
  BY BufferSplit DEF IInv, Typed
<1>2. /\ wire' = wire \o first /\ outputBuffer_' = rest
      /\ IF n = Len(outputBuffer_)
         THEN /\ events_' = events_ \ {"write"}
              /\ pending' = Append(pending, Functor("note"))
              /\ wrShut' = (wrShut \/ state_ = "kDisconnecting")
         ELSE UNCHANGED <<events_, pending, wrShut>>
  BY DEF WriteOut, UpdateChannel, channelVars
<1> HIDE DEF first, rest
<1>3. /\ pending' \in Seq(FunctorType)
      /\ NoShutdownIn(pending) => NoShutdownIn(pending')
  BY <1>2, Queued DEF IInv, Typed, Functor, FunctorNames, SharedFunctors
<1>4. obj # "none" /\ outputBuffer_ # <<>>
  BY DEF IInv, Born, Typed
<1>5. Typed' /\ Born'
  BY <1>1, <1>2, <1>3, <1>4, ConcatProperties DEF IInv, Typed, Born
<1>6. StreamIntact'
  <2>1. (wire \o first) \o rest = wire \o (first \o rest)
    BY <1>1, Associative, ZenonT(60) DEF IInv, Typed
  <2> QED  BY <1>1, <1>2, <2>1 DEF IInv, StreamIntact
<1>7. Disciplined' => Disciplined
  BY DEF Disciplined
<1>8. WritingIffBuffered'
  BY <1>1, <1>2, <1>7 DEF WritingIffBuffered
<1>9. FinAfterData'
  BY <1>1, <1>2, <1>4, <1>7 DEF IInv, FinAfterData
<1>10. OnlySends'
  BY <1>3, <1>7 DEF IInv, OnlySends, NoShutdownIn
<1> QED  BY <1>5, <1>6, <1>8, <1>9, <1>10 DEF IInv

\* Every other step: what it has to respect.
LEMMA OtherStepIInv ==
    ASSUME IInv,
           UNCHANGED <<client, outVars>>,
           obj' = "none" <=> obj = "none",
           obj = "none" => UNCHANGED <<state_, pc, cb, tpc>>,
           obj # "none" => state_' # "kConnecting",
           state_' \in Open \union {"kConnecting", "kDisconnected"},
           pending' \in Seq(FunctorType), batch' \in Seq(FunctorType),
           done' \in Nat, msgs' \in Nat,
           Disciplined =>
              /\ tpc' \in {"idle", "send"}
              /\ NoShutdownIn(pending') /\ NoShutdownIn(batch')
              /\ wrShut' => wrShut \/ outputBuffer_ = <<>>
              /\ state_' \in Open =>
                    /\ state_ \in Open
                    /\ "write" \in events_' <=> "write" \in events_
    PROVE  IInv'
<1>1. Disciplined' => Disciplined
  BY DEF Disciplined
<1>2. Typed' /\ Born'
  BY DEF IInv, Typed, Born, outVars
<1>3. OnlySends'
  BY <1>1 DEF IInv, OnlySends, NoShutdownIn
<1>4. StreamIntact'
  BY DEF IInv, StreamIntact, outVars
<1>5. WritingIffBuffered' /\ FinAfterData'
  BY <1>1 DEF IInv, WritingIffBuffered, FinAfterData, outVars
<1> QED  BY <1>2, <1>3, <1>4, <1>5 DEF IInv

\* What the proofs below use of the invariant.
LEMMA Facts ==
    ASSUME IInv
    PROVE  /\ state_ \in Open \union {"kConnecting", "kDisconnected"}
           /\ pending \in Seq(FunctorType) /\ batch \in Seq(FunctorType)
           /\ <<>> \in Seq(FunctorType) /\ NoShutdownIn(<<>>)
           /\ done \in Nat /\ msgs \in Nat /\ 0 \in Nat
           /\ done + 1 \in Nat /\ msgs + 1 \in Nat
           /\ obj = "none" => /\ state_ = "kConnecting" /\ tpc = "idle"
                              /\ pc = "poll" /\ cb = "none"
           /\ obj # "none" => state_ # "kConnecting"
           /\ Disciplined => /\ tpc \in {"idle", "send"}
                             /\ NoShutdownIn(pending) /\ NoShutdownIn(batch)
  BY DEF IInv, Typed, Born, OnlySends, NoShutdownIn

\* The functor that is about to run is one of the batch.
LEMMA NextFunctor ==
    ASSUME IInv, NEW f, AtFunctor(f)
    PROVE  /\ done + 1 \in 1..Len(batch) /\ batch[done + 1].fn = f
           /\ done' = done + 1
<1>1. done < Len(batch) /\ done' = done + 1 /\ batch[done + 1].fn = f
  BY DEF AtFunctor
<1>2. Len(batch) \in Nat /\ done \in Nat
  BY LenProperties DEF IInv, Typed
<1>3. done + 1 \in 1..Len(batch)
  BY <1>1, <1>2
<1> QED  BY <1>1, <1>3

\* handleClose and connectDestroyed leave a connection that is down, or as
\* it was.
LEMMA Closes ==
    ASSUME HandleClose \/ ConnectDestroyed
    PROVE  \/ state_' = "kDisconnected"
           \/ UNCHANGED <<state_, events_>>
  BY DEF HandleClose, ConnectDestroyed, RemoveChannel

LEMMA UserStepIInv ==
    ASSUME IInv, UserStep, Lifetime, UNCHANGED client
    PROVE  IInv'
<1> USE Facts, LifetimeKeeps
<1> USE DEF outVars, channelVars, loopVars, threadVars, countVars
<1>1. CASE Send
  <2>1. SendInLoop(msgs + 1) /\ obj # "none"
    BY <1>1 DEF Send, MayCall
  <2> QED  BY <1>1, <2>1, SendInLoopIInv DEF Send
<1>2. CASE Shutdown
  <2>1. "write" \notin events_ /\ Disciplined => outputBuffer_ = <<>>
    BY <1>2 DEF Shutdown, IInv, WritingIffBuffered, Open
  <2> QED
    BY <1>2, <2>1, OtherStepIInv DEF Shutdown, ShutdownInLoop, MayCall, Open
<1>3. CASE ForceClose
  <2>1. /\ pending' \in Seq(FunctorType)
        /\ NoShutdownIn(pending) => NoShutdownIn(pending')
    BY <1>3, Queued
       DEF ForceClose, ForceCloseCall, Functor, FunctorNames, SharedFunctors
  <2> QED
    BY <1>3, <2>1, OtherStepIInv DEF ForceClose, ForceCloseCall, MayCall, Open
<1>4. CASE ForceCloseWithDelay
  BY <1>4, OtherStepIInv DEF ForceCloseWithDelay, MayCall, Open
<1>5. CASE StartRead \/ StopRead
  BY <1>5, OtherStepIInv DEF StartRead, StopRead, UpdateChannel, MayCall
<1>6. CASE KeepPointer \/ DropPointer
  BY <1>6, OtherStepIInv DEF KeepPointer, DropPointer
<1>7. CASE DestroyServer
  <2>1. state_' = "kDisconnected" \/ UNCHANGED <<state_, events_>>
    BY <1>7, Closes DEF DestroyServer
  <2> QED  BY <1>7, <2>1, OtherStepIInv DEF DestroyServer, Open
<1> QED
  BY <1>1, <1>2, <1>3, <1>4, <1>5, <1>6, <1>7 DEF UserStep

LEMMA LoopStepIInv ==
    ASSUME IInv, LoopStep, Lifetime, UNCHANGED client
    PROVE  IInv'
<1> USE Facts, LifetimeKeeps
<1> USE DEF outVars, channelVars, loopVars, threadVars, countVars
<1>1. CASE EndCallback
  <2>1. UNCHANGED events_
    BY <1>1 DEF EndCallback, RemoveChannel
  <2>2. /\ pending' \in Seq(FunctorType)
        /\ NoShutdownIn(pending) => NoShutdownIn(pending')
    BY <1>1, Queued DEF EndCallback, RemoveConnection, Functor,
                        FunctorNames, SharedFunctors
  <2> QED  BY <1>1, <2>1, <2>2, OtherStepIInv DEF EndCallback
<1>2. CASE PollConnection \/ PollOther
  <2>1. /\ pc = "poll" /\ obj # "none"
        /\ UNCHANGED <<state_, channelVars, outVars, pending, batch, done,
                       threadVars, wrShut, msgs>>
    BY <1>2 DEF PollConnection, PollOther
  <2> QED  BY <2>1, OtherStepIInv
<1>3. CASE HandleHup \/ HandleRead
  <2>1. state_' = "kDisconnected" \/ UNCHANGED <<state_, events_>>
    BY <1>3, Closes DEF HandleHup, HandleRead
  <2> QED  BY <1>3, <2>1, OtherStepIInv DEF HandleHup, HandleRead, Open
<1>4. CASE HandleWriteProgress
  BY <1>4, WriteOutIInv DEF HandleWriteProgress
<1>5. CASE HandleWriteNone
  BY <1>5, OtherStepIInv DEF HandleWriteNone
<1>6. CASE Swap \/ EndBatch
  <2>1. /\ obj # "none" /\ done' = 0
        /\ UNCHANGED <<state_, channelVars, outVars, threadVars, wrShut, msgs>>
    BY <1>6 DEF Swap, EndBatch
  <2>2. CASE Swap
    BY <2>1, <2>2, OtherStepIInv DEF Swap
  <2>3. CASE EndBatch
    BY <2>1, <2>3, OtherStepIInv DEF EndBatch
  <2> QED  BY <1>6, <2>2, <2>3
<1>7. CASE RunSend
  <2>1. batch[done + 1].msg \in Nat /\ done' \in Nat
    <3>1. done + 1 \in 1..Len(batch) /\ done' = done + 1
      BY <1>7, NextFunctor DEF RunSend
    <3>2. batch[done + 1] \in FunctorType
      BY <3>1
    <3> QED  BY <3>1, <3>2 DEF FunctorType
  <2>2. CASE obj = "alive"
    BY <1>7, <2>1, <2>2, SendInLoopIInv DEF RunSend
  <2>3. CASE obj # "alive"
    BY <1>7, <2>1, <2>3, OtherStepIInv DEF RunSend, AtFunctor
  <2> QED  BY <2>2, <2>3
<1>8. CASE RunShutdown
  <2>1. ~Disciplined
    <3>1. /\ done + 1 \in 1..Len(batch)
          /\ batch[done + 1].fn = "shutdownInLoop"
      BY <1>8, NextFunctor DEF RunShutdown
    <3> QED  BY <3>1 DEF NoShutdownIn
  <2> QED  BY <1>8, <2>1, OtherStepIInv DEF RunShutdown, AtFunctor
<1>9. CASE RunForceClose \/ RunConnectDestroyed
  <2>1. state_' = "kDisconnected" \/ UNCHANGED <<state_, events_>>
    BY <1>9, Closes DEF RunForceClose, RunConnectDestroyed
  <2> QED
    BY <1>9, <2>1, OtherStepIInv
       DEF RunForceClose, RunConnectDestroyed, AtFunctor, Open
<1>10. CASE RunNote
  BY <1>10, OtherStepIInv DEF RunNote, AtFunctor
<1> QED
  BY <1>1, <1>2, <1>3, <1>4, <1>5, <1>6, <1>7, <1>8, <1>9, <1>10 DEF LoopStep

LEMMA OutsideStepIInv ==
    ASSUME IInv, DelayExpires \/ ThreadStep \/ PeerStep, Lifetime,
           UNCHANGED client
    PROVE  IInv'
<1> USE Facts, LifetimeKeeps
<1> USE DEF outVars, channelVars, loopVars, threadVars, countVars
<1>1. CASE DelayExpires
  <2>1. /\ pending' \in Seq(FunctorType)
        /\ NoShutdownIn(pending) => NoShutdownIn(pending')
    BY <1>1, Queued
       DEF DelayExpires, ForceCloseCall, Functor, FunctorNames, SharedFunctors
  <2> QED
    BY <1>1, <2>1, OtherStepIInv DEF DelayExpires, ForceCloseCall, Open
<1>2. CASE ThreadGetsPointer \/ ThreadDropsPointer
  BY <1>2, OtherStepIInv DEF ThreadGetsPointer, ThreadDropsPointer
<1>3. ASSUME NEW op \in client.thread, ThreadChecks(op) PROVE IInv'
  <2>1. Disciplined => op = "send"
    BY <1>3 DEF Disciplined
  <2> QED  BY <1>3, <2>1, OtherStepIInv DEF ThreadChecks, Open
<1>4. CASE ThreadSend
  <2>1. /\ pending' \in Seq(FunctorType)
        /\ NoShutdownIn(pending) => NoShutdownIn(pending')
    BY <1>4, Queued DEF ThreadSend, SendFunctor, FunctorNames
  <2> QED  BY <1>4, <2>1, OtherStepIInv DEF ThreadSend
<1>5. CASE \/ ThreadCloses("shutdown", "shutdownInLoop")
           \/ ThreadCloses("forceClose", "forceCloseInLoop")
  <2>1. ~Disciplined /\ tpc # "idle"
    BY <1>5 DEF ThreadCloses
  <2>2. pending' \in Seq(FunctorType)
    BY <1>5, Queued DEF ThreadCloses, Functor, FunctorNames, SharedFunctors
  <2> QED  BY <1>5, <2>1, <2>2, OtherStepIInv DEF ThreadCloses, Open
<1>6. CASE PeerStep
  BY <1>6, OtherStepIInv DEF PeerStep, PeerSends, PeerCloses, PeerResets
<1> QED  BY <1>1, <1>2, <1>3, <1>4, <1>5, <1>6 DEF ThreadStep

LEMMA NextIInv ==
    ASSUME IInv, [Next]_vars
    PROVE  IInv'
<1>1. CASE NewConnection /\ UNCHANGED client
  <2>1. /\ obj' = "alive" /\ state_' = "kConnected" /\ events_' = {"read"}
        /\ outputBuffer_ = <<>> /\ tpc = "idle"
        /\ UNCHANGED <<client, outputBuffer_, wire, stream, pending, batch,
                       done, tpc, wrShut, msgs>>
    BY <1>1 DEF NewConnection, UpdateChannel, outVars, loopVars, threadVars,
                IInv, Born
  <2>2. Typed' /\ Born'
    BY <2>1 DEF IInv, Typed, Born, Open
  <2>3. OnlySends' /\ StreamIntact'
    BY <2>1 DEF IInv, OnlySends, NoShutdownIn, StreamIntact, Disciplined
  <2>4. WritingIffBuffered' /\ FinAfterData'
    BY <2>1 DEF WritingIffBuffered, FinAfterData
  <2> QED  BY <2>2, <2>3, <2>4 DEF IInv
<1>2. CASE /\ UserStep \/ LoopStep \/ DelayExpires \/ ThreadStep \/ PeerStep
           /\ Lifetime /\ UNCHANGED client
  BY <1>2, UserStepIInv, LoopStepIInv, OutsideStepIInv
<1>3. CASE UNCHANGED vars
  BY <1>3 DEF vars, IInv, Typed, Born, OnlySends, NoShutdownIn, StreamIntact,
              WritingIffBuffered, FinAfterData, Disciplined
<1> QED  BY <1>1, <1>2, <1>3 DEF Next

LEMMA Invariant == Spec => []IInv
  BY InitIInv, NextIInv, PTL DEF Spec

-----------------------------------------------------------------------------
(* The life of a disciplined program's connection *)

\* connectDestroyed is not, or exactly once, among the functors of a queue
\* from a position on.
Absent(queue, from) ==
    \A i \in from..Len(queue) : queue[i].fn # "connectDestroyed"

Once(queue, from) ==
    \E i \in from..Len(queue) :
        /\ queue[i].fn = "connectDestroyed"
        /\ \A j \in from..Len(queue) :
              queue[j].fn = "connectDestroyed" => j = i

\* The functors still to be called.
NoneToRun == Absent(pending, 1) /\ Absent(batch, done + 1)

OneToRun == \/ Once(pending, 1) /\ Absent(batch, done + 1)
            \/ Absent(pending, 1) /\ Once(batch, done + 1)

\* The five stages of a disciplined program's connection: not accepted yet;
\* open; down, in the user's callback of handleClose or of connectDestroyed;
\* out of the map, with connectDestroyed queued; removed from the poller.
Unborn ==
    /\ obj = "none" /\ ups = 0 /\ downs = 0
    /\ index_ = "kNew" /\ events_ = {} /\ reading_
    /\ ~inMap /\ server /\ ~userRef /\ ~threadRef /\ ~delay
    /\ NoneToRun

IsOpen ==
    /\ state_ \in Open /\ obj = "alive" /\ ups = 1 /\ downs = 0
    /\ inMap /\ server /\ cb \notin {"down", "gone"}
    /\ index_ = (IF events_ = {} THEN "kDeleted" ELSE "kAdded")
    /\ events_ \subseteq {"read", "write"}
    /\ reading_ <=> "read" \in events_
    /\ "read" \notin events_ => "stopRead" \in client.loop
    /\ state_ = "kDisconnecting" =>
          {"shutdown", "forceClose", "forceCloseWithDelay"}
              \intersect client.loop # {}
    /\ NoneToRun
    /\ pc \in {"hup", "in"} => cb = "none" /\ index_ = "kAdded"

IsDown ==
    /\ state_ = "kDisconnected" /\ obj # "none" /\ ups = 1 /\ downs = 1
    /\ events_ = {}
    /\ pc # "hup" /\ (pc = "in" => "in" \notin revents)

GoingDown ==
    /\ IsDown /\ obj = "alive"
    /\ \/ cb = "down" /\ inMap /\ server /\ index_ = "kDeleted"
       \/ cb = "gone" /\ ~inMap /\ index_ # "kNew" /\ pc \in {"poll", "batch"}
    /\ NoneToRun

Doomed ==
    /\ IsDown /\ obj = "alive"
    /\ cb \notin {"down", "gone"}
    /\ ~inMap /\ index_ = "kDeleted"
    /\ OneToRun

Removed ==
    /\ IsDown /\ obj \in {"alive", "destroyed"}
    /\ cb \notin {"down", "gone"}
    /\ ~inMap /\ index_ = "kNew" /\ ~addedToLoop_
    /\ NoneToRun

Stage == Unborn \/ IsOpen \/ GoingDown \/ Doomed \/ Removed

Has(queue, f) == \E i \in 1..Len(queue) : queue[i].fn = f

\* The program closes connections by force.
Forces == {"forceClose", "forceCloseWithDelay"} \intersect client.loop # {}

\* What else the stages rest on: where the loop thread is in its batch, that
\* functors come from operations the program calls, and that the thread
\* whose functors carry a raw this still holds its pointer.
Orderly ==
    /\ violations = {}
    /\ pc \in {"poll", "hup", "in", "out", "swap", "batch"}
    /\ pc # "batch" => batch = <<>> /\ done = 0
    /\ pc = "batch" => done <= Len(batch)
    /\ pc = "swap" => cb = "none"
    /\ Has(pending, "forceCloseInLoop") => Forces
    /\ Has(batch, "forceCloseInLoop") => Forces
    /\ delay => Forces
    /\ Has(pending, "sendInLoop") => threadRef
    /\ Has(batch, "sendInLoop") => threadRef
    /\ tpc # "idle" => threadRef
    /\ obj = "destroyed" => ~threadRef
    /\ cb = "up" => obj = "alive"
    /\ Stage

Lives == Disciplined => Orderly

LEMMA QueueGrows ==
    ASSUME NEW queue \in Seq(FunctorType), NEW f \in FunctorNames, NEW m \in Nat,
           NEW from \in Nat \ {0}
    PROVE  LET longer == Append(queue, [fn |-> f, msg |-> m])
           IN  /\ Absent(queue, from) /\ f # "connectDestroyed"
                     => Absent(longer, from)
               /\ Once(queue, from) /\ f # "connectDestroyed"
                     => Once(longer, from)
               /\ Absent(queue, 1) /\ f = "connectDestroyed"
                     => Once(longer, 1)
               /\ \A g : Has(longer, g) => Has(queue, g) \/ g = f
<1> DEFINE longer == Append(queue, [fn |-> f, msg |-> m])
<1>1. /\ Len(longer) = Len(queue) + 1 /\ Len(queue) \in Nat
      /\ \A i \in 1..Len(queue) : longer[i] = queue[i]
      /\ longer[Len(queue) + 1].fn = f
  OBVIOUS
<1> HIDE DEF longer
<1>2. Absent(queue, from) /\ f # "connectDestroyed" => Absent(longer, from)
  BY <1>1 DEF Absent
<1>3. Once(queue, from) /\ f # "connectDestroyed" => Once(longer, from)
  BY <1>1, SMTT(60) DEF Once
<1>4. Absent(queue, 1) /\ f = "connectDestroyed" => Once(longer, 1)
  BY <1>1, SMTT(60) DEF Absent, Once
<1>5. \A g : Has(longer, g) => Has(queue, g) \/ g = f
  BY <1>1 DEF Has
<1> QED  BY <1>2, <1>3, <1>4, <1>5 DEF longer

LEMMA NotesGrow ==
    ASSUME NEW queue \in Seq(FunctorType), NEW n
    PROVE  LET longer == queue \o Notes(n)
           IN  /\ Absent(queue, 1) => Absent(longer, 1)
               /\ Once(queue, 1) => Once(longer, 1)
               /\ \A g : Has(longer, g) => Has(queue, g) \/ g = "note"
<1>1. CASE Notes(n) = <<>>
  BY <1>1, ConcatEmptySeq
<1>2. CASE Notes(n) = <<Functor("note")>>
  <2>1. Functor("note") \in FunctorType
    BY DEF Functor, FunctorType, FunctorNames, SharedFunctors
  <2>2. queue \o Notes(n) = Append(queue, Functor("note"))
    BY <1>2, <2>1, AppendIsConcat
  <2> QED  BY <2>2, QueueGrows DEF Functor, FunctorNames, SharedFunctors
<1> QED  BY <1>1, <1>2 DEF Notes

\* One functor of the batch is called.
LEMMA BatchAdvances ==
    ASSUME NEW queue \in Seq(FunctorType), NEW n \in Nat, n + 1 <= Len(queue)
    PROVE  /\ Absent(queue, n + 1) => /\ Absent(queue, n + 1 + 1)
                                      /\ queue[n + 1].fn # "connectDestroyed"
           /\ Once(queue, n + 1) /\ queue[n + 1].fn = "connectDestroyed"
                 => Absent(queue, n + 1 + 1)
           /\ Once(queue, n + 1) /\ queue[n + 1].fn # "connectDestroyed"
                 => Once(queue, n + 1 + 1)
           /\ Has(queue, queue[n + 1].fn)
  BY LenProperties DEF Absent, Once, Has

LEMMA BatchEnds ==
    ASSUME NEW queue \in Seq(FunctorType)
    PROVE  Absent(queue, Len(queue) + 1) /\ ~Once(queue, Len(queue) + 1)
  BY LenProperties DEF Absent, Once

LEMMA NothingQueued ==
    /\ \A n \in Nat \ {0} : Absent(<<>>, n) /\ ~Once(<<>>, n)
    /\ \A f : ~Has(<<>>, f)
  BY DEF Absent, Once, Has

\* A queued connectDestroyed keeps the connection.
LEMMA QueuedHolds ==
    ASSUME NEW queue \in Seq(FunctorType), NEW n \in Nat \ {0}, Once(queue, n)
    PROVE  Binds(queue)
  BY LenProperties DEF Once, Binds, SharedFunctors

\* The end of a step: what is still held stays, and what is removed from the
\* poller may go.
LEMMA LifetimeEnds ==
    ASSUME Lifetime
    PROVE  /\ obj # "alive" \/ Held' => obj' = obj
           /\ state_' = "kDisconnected" /\ ~addedToLoop_'
                 => \/ obj' = obj
                    \/ obj = "alive" /\ obj' = "destroyed" /\ ~threadRef'
                                     /\ cb' = "none"
  BY DEF Lifetime, Held

\* A step that neither opens nor closes the connection, whatever it does to
\* the channel of an open one: what it has to respect.
LEMMA LivesOn ==
    ASSUME Disciplined, Orderly, Typed', Lifetime,
           UNCHANGED <<client, inMap, server, ups, downs, violations>>,
           obj # "none",
           \/ state_' = state_
           \/ /\ state_ \in Open /\ state_' = "kDisconnecting"
              /\ {"shutdown", "forceClose", "forceCloseWithDelay"}
                    \intersect client.loop # {},
           \/ UNCHANGED <<reading_, events_, index_, addedToLoop_>>
           \/ /\ state_ \in Open /\ pc \notin {"hup", "in"}
              /\ index_' = (IF events_' = {} THEN "kDeleted" ELSE "kAdded")
              /\ events_' \subseteq {"read", "write"}
              /\ reading_' <=> "read" \in events_'
              /\ "read" \notin events_' => "stopRead" \in client.loop,
           \/ cb' = cb
           \/ cb \notin {"down", "gone"} /\ cb' \notin {"down", "gone", "up"},
           \/ pc' = pc /\ revents' = revents
           \/ cb = "none" /\ pc' \in {"poll", "out", "swap", "batch"},
           pc \in {"hup", "in"} /\ pc' = pc /\ state_ \in Open => cb' = cb,
           pc' = "swap" => cb' = "none",
           pc' # "batch" => batch' = <<>> /\ done' = 0,
           pc' = "batch" => done' <= Len(batch'),
           NoneToRun => NoneToRun', OneToRun => OneToRun',
           Has(pending', "forceCloseInLoop") => Forces,
           Has(batch', "forceCloseInLoop") => Forces,
           delay' => Forces,
           Has(pending', "sendInLoop") => threadRef',
           Has(batch', "sendInLoop") => threadRef',
           tpc' # "idle" => threadRef',
           threadRef' => threadRef \/ cb = "up"
    PROVE  Orderly'
<1>1. CASE IsOpen
  <2>1. Held' /\ obj' = "alive"
    BY <1>1, LifetimeEnds DEF IsOpen, Held
  <2>2. IsOpen'
    <3>1. /\ state_' \in Open /\ inMap' /\ server' /\ ups' = 1 /\ downs' = 0
          /\ cb' \notin {"down", "gone"} /\ NoneToRun'
      BY <1>1 DEF IsOpen, Open
    <3>2. /\ index_' = (IF events_' = {} THEN "kDeleted" ELSE "kAdded")
          /\ events_' \subseteq {"read", "write"}
          /\ reading_' <=> "read" \in events_'
          /\ "read" \notin events_' => "stopRead" \in client'.loop
      <4>1. CASE UNCHANGED <<reading_, events_, index_, addedToLoop_>>
        BY <1>1, <4>1 DEF IsOpen
      <4>2. CASE ~UNCHANGED <<reading_, events_, index_, addedToLoop_>>
        BY <4>2
      <4> QED  BY <4>1, <4>2
    <3>3. state_' = "kDisconnecting" =>
             {"shutdown", "forceClose", "forceCloseWithDelay"}
                \intersect client'.loop # {}
      BY <1>1 DEF IsOpen
    <3>4. pc' \in {"hup", "in"} => cb' = "none" /\ index_' = "kAdded"
      BY <1>1 DEF IsOpen
    <3> QED  BY <2>1, <3>1, <3>2, <3>3, <3>4 DEF IsOpen
  <2> QED  BY <2>1, <2>2 DEF Orderly, Stage, Forces
<1>2. CASE GoingDown
  <2>1. Held' /\ obj' = "alive"
    BY <1>2, LifetimeEnds DEF GoingDown, Held
  <2>2. GoingDown'
    BY <1>2, <2>1 DEF GoingDown, IsDown, Orderly, Open
  <2> QED  BY <2>1, <2>2 DEF Orderly, Stage, Forces
<1>3. CASE Doomed
  <2>1. Held'
    <3>1. Once(pending', 1) \/ Once(batch', done' + 1)
      BY <1>3 DEF Doomed, OneToRun
    <3>2. Binds(pending') \/ Binds(batch')
      BY <3>1, QueuedHolds DEF Typed
    <3> QED  BY <3>2 DEF Held
  <2>2. obj' = "alive"
    BY <1>3, <2>1, LifetimeEnds DEF Doomed
  <2>3. Doomed'
    BY <1>3, <2>2 DEF Doomed, IsDown, Orderly, Open
  <2> QED  BY <2>2, <2>3 DEF Orderly, Stage, Forces
<1>4. CASE Removed
  <2>1. state_' = "kDisconnected" /\ ~addedToLoop_'
    BY <1>4 DEF Removed, IsDown, Open
  <2>2. \/ obj' = obj
        \/ obj' = "destroyed" /\ ~threadRef' /\ cb' = "none"
    BY <2>1, LifetimeEnds
  <2>3. Removed'
    BY <1>4, <2>2 DEF Removed, IsDown, Orderly, Open
  <2>4. obj' = "destroyed" => ~threadRef'
    BY <1>4, <2>2 DEF Orderly
  <2>5. cb' = "up" => obj' = "alive"
    BY <1>4, <2>2 DEF Orderly
  <2> QED  BY <2>3, <2>4, <2>5 DEF Orderly, Stage, Forces
<1>5. ~Unborn
  BY DEF Unborn
<1> QED  BY <1>1, <1>2, <1>3, <1>4, <1>5 DEF Orderly, Stage

\* handleClose of an open connection, from any of its three callers.
LEMMA GoesDown ==
    ASSUME Orderly, IsOpen, HandleClose, Lifetime, index_ = "kAdded",
           UNCHANGED <<client, inMap, server, pending, batch, threadRef, tpc,
                       delay>>,
           pc' \in {"in", "out", "batch"}, pc' = "in" => "in" \notin revents',
           pc' # "batch" => batch' = <<>> /\ done' = 0,
           pc' = "batch" => done' <= Len(batch'),
           Absent(batch, done' + 1)
    PROVE  Orderly'
<1>1. /\ state_' = "kDisconnected" /\ events_' = {} /\ index_' = "kDeleted"
      /\ ups' = 1 /\ downs' = 1 /\ cb' = "down" /\ violations' = {}
  BY DEF HandleClose, UpdateChannel, Assert, IsOpen, Orderly
<1>2. obj' = "alive"
  BY <1>1, LifetimeEnds DEF IsOpen, Held
<1>3. NoneToRun'
  BY DEF IsOpen, NoneToRun
<1>4. GoingDown'
  BY <1>1, <1>2, <1>3 DEF GoingDown, IsDown, IsOpen
<1> QED  BY <1>1, <1>2, <1>4 DEF Orderly, Stage, Forces

\* What the steps below use of the invariant.
LEMMA LifeFacts ==
    ASSUME IInv, Orderly
    PROVE  /\ pc # "batch" => batch = <<>> /\ done = 0
           /\ pc = "batch" => done <= Len(batch)
           /\ Has(pending, "forceCloseInLoop") => Forces
           /\ Has(batch, "forceCloseInLoop") => Forces
           /\ delay => Forces
           /\ Has(pending, "sendInLoop") => threadRef
           /\ Has(batch, "sendInLoop") => threadRef
           /\ tpc # "idle" => threadRef
           /\ pc = "swap" => cb = "none"
           /\ violations = {}
           /\ state_ \in Open => IsOpen
           /\ cb # "none" => obj # "none"
           /\ pc # "poll" => obj # "none"
           /\ obj = "none" => Unborn
           /\ Typed
<1>1. state_ \in Open => IsOpen
  <2> SUFFICES ASSUME state_ \in Open PROVE IsOpen
    OBVIOUS
  <2>1. ~Unborn
    BY DEF IInv, Born, Unborn, Open
  <2>2. ~IsDown
    BY DEF IsDown, Open
  <2> QED  BY <2>1, <2>2 DEF Orderly, Stage, GoingDown, Doomed, Removed
<1>2. obj = "none" => Unborn
  BY DEF Orderly, Stage, IsOpen, GoingDown, Doomed, Removed
<1> QED  BY <1>1, <1>2 DEF Orderly, IInv, Born

\* forceClose() queues a functor for an open connection.
LEMMA ForceCloseQueues ==
    ASSUME pending \in Seq(FunctorType), ForceCloseCall
    PROVE  /\ Absent(pending, 1) => Absent(pending', 1)
           /\ Once(pending, 1) => Once(pending', 1)
           /\ \A g : Has(pending', g) => Has(pending, g) \/ g = "forceCloseInLoop"
<1>1. CASE UNCHANGED pending
  BY <1>1
<1>2. CASE pending' = Append(pending, Functor("forceCloseInLoop"))
  <2>1. /\ "forceCloseInLoop" \in FunctorNames /\ 0 \in Nat /\ 1 \in Nat \ {0}
        /\ pending' = Append(pending, [fn |-> "forceCloseInLoop", msg |-> 0])
    BY <1>2 DEF Functor, FunctorNames, SharedFunctors
  <2> QED  BY <2>1, QueueGrows
<1> QED  BY <1>1, <1>2 DEF ForceCloseCall

\* sendInLoop, called by send() or by its functor.
LEMMA SendInLoopLives ==
    ASSUME IInv, IInv', Disciplined, Orderly, NEW m \in Nat, SendInLoop(m),
           Lifetime, obj = "alive", pc \notin {"hup", "in"},
           UNCHANGED <<client, state_, reading_, inMap, server, cb, pc, revents,
                       threadRef, tpc, delay, ups, downs, violations, batch>>,
           pc # "batch" => done' = 0, pc = "batch" => done' <= Len(batch),
           Absent(batch, done + 1) => Absent(batch, done' + 1),
           Once(batch, done + 1) => Once(batch, done' + 1)
    PROVE  Orderly'
<1> USE LifeFacts
<1> USE DEF channelVars, outVars
<1>1. CASE UNCHANGED <<outVars, channelVars, pending>>
  <2>1. (NoneToRun => NoneToRun') /\ (OneToRun => OneToRun')
    BY <1>1 DEF NoneToRun, OneToRun
  <2> QED  BY <1>1, <2>1, LivesOn DEF IInv
<1>2. CASE ~UNCHANGED <<outVars, channelVars, pending>>
  <2>1. PICK n : /\ state_ # "kDisconnected"
                 /\ pending' = pending \o Notes(n)
                 /\ \/ UpdateChannel(events_ \union {"write"})
                    \/ UNCHANGED channelVars
    BY <1>2 DEF SendInLoop
  <2>2. IsOpen
    BY <2>1 DEF IInv, Typed, Born
  <2>3. /\ Absent(pending, 1) => Absent(pending', 1)
        /\ Once(pending, 1) => Once(pending', 1)
        /\ \A g : Has(pending', g) => Has(pending, g) \/ g = "note"
    BY <2>1, NotesGrow DEF Typed
  <2>4. (NoneToRun => NoneToRun') /\ (OneToRun => OneToRun')
    BY <2>3 DEF NoneToRun, OneToRun
  <2>5. \/ UNCHANGED <<reading_, events_, index_, addedToLoop_>>
        \/ /\ index_' = (IF events_' = {} THEN "kDeleted" ELSE "kAdded")
           /\ events_' \subseteq {"read", "write"}
           /\ reading_' <=> "read" \in events_'
           /\ "read" \notin events_' => "stopRead" \in client.loop
    <3>1. CASE UpdateChannel(events_ \union {"write"})
      <4>1. /\ events_' = events_ \union {"write"} /\ index_' = "kAdded"
            /\ events_' # {}
        BY <3>1 DEF UpdateChannel
      <4> QED  BY <2>2, <4>1 DEF IsOpen
    <3> QED  BY <2>1, <3>1
  <2>6. state_ \in Open
    BY <2>2 DEF IsOpen
  <2> QED  BY <2>3, <2>4, <2>5, <2>6, LivesOn DEF IInv
<1> QED  BY <1>1, <1>2

\* startRead() and stopRead(): the channel of an open connection is in the
\* poller exactly while it has events.
LEMMA ReadingLives ==
    ASSUME IInv, IInv', Disciplined, Orderly, StartRead \/ StopRead, Lifetime,
           UNCHANGED client
    PROVE  Orderly'
<1> USE LifeFacts
<1> USE DEF channelVars, loopVars, threadVars, countVars, serverVars
<1>1. IsOpen /\ obj = "alive" /\ pc \notin {"hup", "in"}
  BY DEF StartRead, StopRead, MayCall, Disciplined, IsOpen, InUserCode
<1>2. /\ index_' = (IF events_' = {} THEN "kDeleted" ELSE "kAdded")
      /\ events_' \subseteq {"read", "write"}
      /\ reading_' <=> "read" \in events_'
      /\ "read" \notin events_' => "stopRead" \in client.loop
  <2>1. CASE StartRead
    BY <1>1, <2>1 DEF StartRead, UpdateChannel, IsOpen
  <2>2. CASE StopRead
    <3>1. /\ index_ = "kAdded" /\ events_' = events_ \ {"read"} /\ ~reading_'
          /\ index_' = IF events_' = {} THEN "kDeleted" ELSE "kAdded"
          /\ "stopRead" \in client.loop
      BY <1>1, <2>2 DEF StopRead, UpdateChannel, IsOpen, MayCall
    <3> QED  BY <1>1, <3>1 DEF IsOpen
  <2> QED  BY <2>1, <2>2
<1>3. (NoneToRun => NoneToRun') /\ (OneToRun => OneToRun')
  BY DEF StartRead, StopRead, NoneToRun, OneToRun
<1>4. state_ \in Open
  BY <1>1 DEF IsOpen
<1>5. UNCHANGED <<state_, inMap, server, pending, batch, done, pc, revents, cb,
                  threadRef, tpc, delay, ups, downs, violations>>
  BY DEF StartRead, StopRead
<1> QED  BY <1>1, <1>2, <1>3, <1>4, <1>5, LivesOn DEF IInv

\* ~TcpServer: an open connection goes down in connectDestroyed.
LEMMA DestroyServerLives ==
    ASSUME IInv, IInv', Disciplined, Orderly, DestroyServer, Lifetime,
           UNCHANGED client
    PROVE  Orderly'
<1> USE LifeFacts
<1> USE DEF channelVars, loopVars, threadVars, countVars, serverVars
<1>1. CASE ~inMap
  <2>1. Doomed \/ Removed
    BY <1>1 DEF DestroyServer, Orderly, Stage, Unborn, IsOpen, GoingDown
  <2>2. UNCHANGED <<state_, inMap, pending, batch, done, pc, revents, cb,
                    channelVars, threadRef, tpc, delay, ups, downs, violations>>
    BY <1>1 DEF DestroyServer
  <2>3. (NoneToRun => NoneToRun') /\ (OneToRun => OneToRun')
    BY <2>2 DEF NoneToRun, OneToRun
  <2>4. CASE Doomed
    <3>1. Once(pending', 1) \/ Once(batch', done' + 1)
      BY <2>2, <2>4 DEF Doomed, OneToRun
    <3>2. Held'
      BY <3>1, QueuedHolds DEF IInv, Typed, Held
    <3>3. obj' = "alive"
      BY <2>4, <3>2, LifetimeEnds DEF Doomed
    <3>4. Doomed'
      BY <2>2, <2>3, <2>4, <3>3 DEF Doomed, IsDown
    <3> QED  BY <2>2, <3>3, <3>4 DEF Orderly, Stage, Forces
  <2>5. CASE Removed
    <3>1. state_' = "kDisconnected" /\ ~addedToLoop_'
      BY <2>2, <2>5 DEF Removed, IsDown
    <3>2. \/ obj' = obj
          \/ obj' = "destroyed" /\ ~threadRef' /\ cb' = "none"
      BY <3>1, LifetimeEnds
    <3>3. Removed'
      BY <2>2, <2>3, <2>5, <3>2 DEF Removed, IsDown
    <3> QED  BY <2>2, <3>2, <3>3 DEF Orderly, Stage, Forces
  <2> QED  BY <2>1, <2>4, <2>5
<1>2. CASE inMap
  <2>1. IsOpen /\ state_ = "kConnected"
    <3>1. IsOpen
      BY <1>2 DEF DestroyServer, Orderly, Stage, Unborn, GoingDown, Doomed,
                  Removed
    <3> QED  BY <3>1 DEF IsOpen, DestroyServer, Disciplined, Open
  <2>2. /\ ConnectDestroyed /\ inMap' = FALSE
        /\ pc \in {"poll", "batch"}
        /\ UNCHANGED <<pending, batch, done, pc, revents, threadRef, tpc, delay>>
    BY <1>2 DEF DestroyServer
  <2>3. /\ state_' = "kDisconnected" /\ events_' = {} /\ index_' # "kNew"
        /\ ups' = 1 /\ downs' = 1 /\ cb' = "gone" /\ violations' = {}
    BY <2>1, <2>2 DEF ConnectDestroyed, UpdateChannel, IsOpen
  <2>4. obj' = "alive"
    BY <2>1, <2>3, LifetimeEnds DEF IsOpen, Held
  <2>5. NoneToRun'
    BY <2>1, <2>2 DEF IsOpen, NoneToRun
  <2>6. GoingDown'
    BY <2>2, <2>3, <2>4, <2>5 DEF GoingDown, IsDown
  <2> QED  BY <2>2, <2>3, <2>4, <2>6 DEF Orderly, Stage, Forces
<1> QED  BY <1>1, <1>2

LEMMA UserStepLives ==
    ASSUME IInv, IInv', Disciplined, Orderly, UserStep, Lifetime,
           UNCHANGED client
    PROVE  Orderly'
<1> USE LifeFacts
<1> USE DEF channelVars, loopVars, threadVars, countVars, serverVars, outVars
<1>1. CASE Send
  <2>1. IsOpen /\ SendInLoop(msgs + 1) /\ msgs + 1 \in Nat
    BY <1>1 DEF Send, MayCall, Open, Typed
  <2>2. obj = "alive" /\ pc \notin {"hup", "in"}
    BY <1>1, <2>1 DEF Send, MayCall, IsOpen, InUserCode
  <2> QED  BY <1>1, <2>1, <2>2, SendInLoopLives DEF Send
<1>2. CASE Shutdown
  BY <1>2, LivesOn DEF Shutdown, MayCall, Open, NoneToRun, OneToRun, IInv
<1>3. CASE ForceClose
  <2>1. /\ Absent(pending, 1) => Absent(pending', 1)
        /\ Once(pending, 1) => Once(pending', 1)
        /\ \A g : Has(pending', g) => Has(pending, g) \/ g = "forceCloseInLoop"
    BY <1>3, ForceCloseQueues DEF ForceClose, Typed
  <2>2. (NoneToRun => NoneToRun') /\ (OneToRun => OneToRun')
    BY <1>3, <2>1 DEF ForceClose, NoneToRun, OneToRun
  <2>3. Forces /\ obj = "alive"
    BY <1>3 DEF ForceClose, MayCall, Forces
  <2>4. Has(pending', "sendInLoop") => threadRef
    BY <2>1
  <2> QED
    BY <1>3, <2>2, <2>3, <2>4, LivesOn
       DEF ForceClose, ForceCloseCall, MayCall, IInv
<1>4. CASE ForceCloseWithDelay
  BY <1>4, LivesOn
     DEF ForceCloseWithDelay, MayCall, NoneToRun, OneToRun, IInv, Forces
<1>5. CASE StartRead \/ StopRead
  BY <1>5, ReadingLives
<1>6. CASE KeepPointer \/ DropPointer
  <2>1. obj # "none"
    BY <1>6 DEF KeepPointer, DropPointer, Unborn
  <2> QED
    BY <1>6, <2>1, LivesOn DEF KeepPointer, DropPointer, NoneToRun, OneToRun, IInv
<1>7. CASE DestroyServer
  BY <1>7, DestroyServerLives
<1> QED
  BY <1>1, <1>2, <1>3, <1>4, <1>5, <1>6, <1>7 DEF UserStep

\* A poll or a handler finds an open connection and leaves it open.
LEMMA EventGoesOn ==
    ASSUME Orderly, IsOpen, Lifetime, cb = "none", index_ = "kAdded",
           pc # "batch", pc' \in {"hup", "in"},
           UNCHANGED <<client, state_, reading_, events_, index_, addedToLoop_,
                       inMap, server, pending, batch, done, cb, threadRef, tpc,
                       delay, ups, downs, violations>>
    PROVE  Orderly'
<1>1. obj' = "alive"
  BY LifetimeEnds DEF IsOpen, Held
<1>2. NoneToRun'
  BY DEF IsOpen, NoneToRun
<1>3. IsOpen'
  <2>1. /\ state_' \in Open /\ inMap' /\ server' /\ ups' = 1 /\ downs' = 0
        /\ cb' \notin {"down", "gone"}
        /\ pc' \in {"hup", "in"} => cb' = "none" /\ index_' = "kAdded"
    BY DEF IsOpen
  <2>2. /\ index_' = (IF events_' = {} THEN "kDeleted" ELSE "kAdded")
        /\ events_' \subseteq {"read", "write"}
        /\ reading_' <=> "read" \in events_'
        /\ "read" \notin events_' => "stopRead" \in client'.loop
    BY DEF IsOpen
  <2>3. state_' = "kDisconnecting" =>
           {"shutdown", "forceClose", "forceCloseWithDelay"}
              \intersect client'.loop # {}
    BY DEF IsOpen
  <2> QED  BY <1>1, <1>2, <2>1, <2>2, <2>3 DEF IsOpen
<1> QED  BY <1>1, <1>3 DEF Orderly, Stage, Forces

\* The end of a callback.
LEMMA EndCallbackLives ==
    ASSUME IInv, IInv', Disciplined, Orderly, EndCallback, Lifetime,
           UNCHANGED client
    PROVE  Orderly'
<1> USE LifeFacts
<1> USE DEF channelVars, loopVars, threadVars, countVars, serverVars
<1>1. /\ cb # "none" /\ obj # "none" /\ cb' = "none"
      /\ UNCHANGED <<state_, reading_, server, batch, done, pc, revents,
                     threadRef, tpc, delay, ups, downs>>
  BY DEF EndCallback
<1>2. CASE cb \in {"up", "msg", "note"}
  <2>1. UNCHANGED <<inMap, pending, channelVars, violations>>
    BY <1>2 DEF EndCallback
  <2>2. (NoneToRun => NoneToRun') /\ (OneToRun => OneToRun')
    BY <1>1, <2>1 DEF NoneToRun, OneToRun
  <2>3. pc \in {"hup", "in"} => state_ \notin Open
    BY <1>1 DEF IsOpen
  <2> QED  BY <1>1, <1>2, <2>1, <2>2, <2>3, LivesOn DEF IInv
<1>3. CASE cb = "down"
  <2>1. GoingDown /\ inMap /\ server /\ index_ = "kDeleted"
    BY <1>1, <1>3 DEF Orderly, Stage, Unborn, IsOpen, GoingDown, Doomed, Removed
  <2>2. /\ violations' = {} /\ ~inMap' /\ UNCHANGED channelVars
        /\ pending' = Append(pending, [fn |-> "connectDestroyed", msg |-> 0])
    BY <1>3, <2>1 DEF EndCallback, RemoveConnection, Assert, Functor
  <2>3. /\ Once(pending', 1)
        /\ \A g : Has(pending', g) => Has(pending, g) \/ g = "connectDestroyed"
    <3>1. /\ Absent(pending, 1) /\ 0 \in Nat /\ 1 \in Nat \ {0}
          /\ "connectDestroyed" \in FunctorNames /\ pending \in Seq(FunctorType)
      BY <2>1 DEF GoingDown, NoneToRun, FunctorNames, SharedFunctors, Typed
    <3> QED  BY <2>2, <3>1, QueueGrows
  <2>4. OneToRun'
    BY <1>1, <2>1, <2>3 DEF OneToRun, GoingDown, NoneToRun
  <2>5. Binds(pending')
    BY <2>3, QueuedHolds DEF IInv, Typed
  <2>6. obj' = "alive"
    BY <2>1, <2>5, LifetimeEnds DEF GoingDown, Held
  <2>7. Doomed'
    BY <1>1, <2>1, <2>2, <2>4, <2>6 DEF Doomed, GoingDown, IsDown
  <2>8. /\ Has(pending', "forceCloseInLoop") => Has(pending, "forceCloseInLoop")
        /\ Has(pending', "sendInLoop") => Has(pending, "sendInLoop")
    BY <2>3
  <2> QED  BY <1>1, <2>2, <2>6, <2>7, <2>8 DEF Orderly, Stage, Forces
<1>4. CASE cb = "gone"
  <2>1. GoingDown /\ ~inMap /\ index_ # "kNew" /\ events_ = {}
    BY <1>1, <1>4
       DEF Orderly, Stage, Unborn, IsOpen, GoingDown, IsDown, Doomed, Removed
  <2>2. /\ violations' = {} /\ ~addedToLoop_' /\ index_' = "kNew"
        /\ UNCHANGED <<events_, inMap, pending>>
    BY <1>4, <2>1 DEF EndCallback, RemoveChannel, Assert
  <2>3. NoneToRun'
    BY <1>1, <2>1, <2>2 DEF GoingDown, NoneToRun
  <2>4. \/ obj' = obj
        \/ obj' = "destroyed" /\ ~threadRef'
    BY <1>1, <2>1, <2>2, LifetimeEnds DEF GoingDown, IsDown
  <2>5. Removed'
    BY <1>1, <2>1, <2>2, <2>3, <2>4 DEF Removed, GoingDown, IsDown
  <2> QED  BY <1>1, <2>2, <2>4, <2>5 DEF Orderly, Stage, Forces
<1> QED  BY <1>2, <1>3, <1>4 DEF EndCallback

\* Poll and the handlers.
LEMMA HandlerLives ==
    ASSUME IInv, IInv', Disciplined, Orderly, Lifetime, UNCHANGED client,
           \/ PollConnection \/ PollOther \/ HandleHup \/ HandleRead
           \/ HandleWriteProgress \/ HandleWriteNone
    PROVE  Orderly'
<1> USE LifeFacts
<1> USE DEF channelVars, loopVars, threadVars, countVars, serverVars, netVars,
            outVars
<1>1. CASE PollConnection
  <2>1. Ready # {}
    BY <1>1 DEF PollConnection
  <2>2. index_ = "kAdded"
    BY <2>1 DEF Ready
  <2>3. IsOpen
    BY <1>1, <2>2 DEF PollConnection, Orderly, Stage, Unborn, GoingDown, Doomed,
                      Removed
  <2>4. violations' = violations
    BY <1>1, <2>3 DEF PollConnection, Assert, IsOpen
  <2> QED  BY <1>1, <2>2, <2>3, <2>4, EventGoesOn DEF PollConnection
<1>2. CASE PollOther
  BY <1>2, LivesOn DEF PollOther, NoneToRun, OneToRun, IInv
<1>3. CASE HandleHup
  <2>1. IsOpen /\ index_ = "kAdded" /\ cb = "none"
    BY <1>3 DEF HandleHup, Orderly, Stage, Unborn, IsOpen, GoingDown, Doomed,
                Removed, IsDown
  <2>2. /\ pc = "hup" /\ pc' = "in"
        /\ UNCHANGED <<reading_, inMap, server, pending, batch, done, revents,
                       threadRef, tpc, delay>>
    BY <1>3 DEF HandleHup
  <2>3. CASE HandleClose /\ "in" \notin revents
    <3>1. Absent(batch, done' + 1)
      BY <2>1, <2>2 DEF IsOpen, NoneToRun
    <3> QED  BY <2>1, <2>2, <2>3, <3>1, GoesDown
  <2>4. CASE UNCHANGED <<state_, channelVars, countVars, cb, violations>>
    BY <2>1, <2>2, <2>4, EventGoesOn
  <2> QED  BY <1>3, <2>3, <2>4 DEF HandleHup
<1>4. CASE HandleRead
  <2>1. /\ pc = "in" /\ pc' = "out" /\ cb = "none" /\ obj # "none"
        /\ UNCHANGED <<reading_, inMap, server, pending, batch, done, revents,
                       threadRef, tpc, delay>>
    BY <1>4 DEF HandleRead
  <2>2. CASE HandleClose /\ "in" \in revents
    <3>1. IsOpen /\ index_ = "kAdded"
      BY <2>1, <2>2 DEF Orderly, Stage, Unborn, IsOpen, GoingDown, Doomed,
                        Removed, IsDown
    <3>2. Absent(batch, done' + 1)
      BY <2>1, <3>1 DEF IsOpen, NoneToRun
    <3> QED  BY <2>1, <2>2, <3>1, <3>2, GoesDown
  <2>3. CASE /\ cb' \in {"none", "msg"}
             /\ UNCHANGED <<state_, channelVars, countVars, violations>>
    <3>1. (NoneToRun => NoneToRun') /\ (OneToRun => OneToRun')
      BY <2>1 DEF NoneToRun, OneToRun
    <3> QED  BY <2>1, <2>3, <3>1, LivesOn DEF IInv
  <2> QED  BY <1>4, <2>1, <2>2, <2>3 DEF HandleRead
<1>5. CASE HandleWriteProgress
  <2>1. /\ pc = "out" /\ pc' = "swap" /\ cb = "none" /\ obj # "none"
        /\ "write" \in events_
        /\ UNCHANGED <<state_, reading_, inMap, server, batch, done, cb, revents,
                       threadRef, tpc, delay, ups, downs, violations>>
    BY <1>5 DEF HandleWriteProgress
  <2>2. IsOpen /\ state_ \in Open
    BY <2>1 DEF Orderly, Stage, Unborn, IsOpen, GoingDown, Doomed, Removed,
                IsDown
  <2>3. PICK n \in 1..Len(outputBuffer_) : WriteOut(n)
    BY <1>5 DEF HandleWriteProgress
  <2>4. /\ Absent(pending, 1) => Absent(pending', 1)
        /\ Once(pending, 1) => Once(pending', 1)
        /\ \A g : Has(pending', g) => Has(pending, g) \/ g = "note"
    <3>1. CASE UNCHANGED pending
      BY <3>1
    <3>2. CASE pending' = Append(pending, Functor("note"))
      <4>1. /\ "note" \in FunctorNames /\ 0 \in Nat /\ 1 \in Nat \ {0}
            /\ pending' = Append(pending, [fn |-> "note", msg |-> 0])
            /\ pending \in Seq(FunctorType)
        BY <3>2 DEF Functor, FunctorNames, SharedFunctors, Typed
      <4> QED  BY <4>1, QueueGrows
    <3> QED  BY <2>3, <3>1, <3>2 DEF WriteOut
  <2>5. (NoneToRun => NoneToRun') /\ (OneToRun => OneToRun')
    BY <2>1, <2>4 DEF NoneToRun, OneToRun
  <2>6. \/ UNCHANGED <<reading_, events_, index_, addedToLoop_>>
        \/ /\ index_' = (IF events_' = {} THEN "kDeleted" ELSE "kAdded")
           /\ events_' \subseteq {"read", "write"}
           /\ reading_' <=> "read" \in events_'
           /\ "read" \notin events_' => "stopRead" \in client.loop
    <3>1. CASE UpdateChannel(events_ \ {"write"})
      <4>1. index_ = "kAdded"
        BY <2>1, <2>2 DEF IsOpen
      <4>2. /\ events_' = events_ \ {"write"}
            /\ index_' = IF events_' = {} THEN "kDeleted" ELSE "kAdded"
        BY <3>1, <4>1 DEF UpdateChannel
      <4> QED  BY <2>1, <2>2, <4>2 DEF IsOpen
    <3>2. CASE UNCHANGED channelVars
      BY <2>1, <3>2
    <3> QED  BY <2>3, <3>1, <3>2 DEF WriteOut
  <2>7. /\ Has(pending', "forceCloseInLoop") => Forces
        /\ Has(pending', "sendInLoop") => threadRef
    BY <2>4
  <2> QED  BY <2>1, <2>2, <2>5, <2>6, <2>7, LivesOn DEF IInv
<1>6. CASE HandleWriteNone
  BY <1>6, LivesOn DEF HandleWriteNone, NoneToRun, OneToRun, IInv
<1> QED  BY <1>1, <1>2, <1>3, <1>4, <1>5, <1>6

\* doPendingFunctors.
LEMMA BatchLives ==
    ASSUME IInv, IInv', Disciplined, Orderly, Lifetime, UNCHANGED client,
           \/ Swap \/ RunSend \/ RunShutdown \/ RunForceClose
           \/ RunConnectDestroyed \/ RunNote \/ EndBatch
    PROVE  Orderly'
<1> USE LifeFacts
<1> USE DEF channelVars, loopVars, threadVars, countVars, serverVars, outVars
<1>1. /\ pending \in Seq(FunctorType) /\ batch \in Seq(FunctorType)
      /\ done \in Nat /\ Len(batch) \in Nat
  BY LenProperties DEF Typed
<1>2. CASE Swap
  <2>1. /\ pc = "swap" /\ cb = "none" /\ pc' = "batch" /\ batch' = pending
        /\ pending' = <<>> /\ done' = 0 /\ batch = <<>> /\ done = 0
        /\ done' <= Len(batch')
        /\ UNCHANGED <<state_, reading_, channelVars, inMap, server, cb, revents,
                       threadRef, tpc, delay, ups, downs, violations>>
    BY <1>1, <1>2, LenProperties DEF Swap
  <2>2. done + 1 = 1 /\ done' + 1 = 1 /\ 1 \in Nat \ {0}
    BY <2>1
  <2>3. (NoneToRun => NoneToRun') /\ (OneToRun => OneToRun')
    BY <2>1, <2>2, NothingQueued DEF NoneToRun, OneToRun
  <2>4. ~Has(pending', "forceCloseInLoop") /\ ~Has(pending', "sendInLoop")
    BY <2>1, NothingQueued
  <2> QED  BY <2>1, <2>3, <2>4, LivesOn DEF IInv
<1>3. CASE EndBatch
  <2>1. /\ pc = "batch" /\ cb = "none" /\ pc' = "poll" /\ batch' = <<>>
        /\ done = Len(batch) /\ done' = 0
        /\ UNCHANGED <<state_, reading_, channelVars, inMap, server, cb, revents,
                       threadRef, tpc, delay, ups, downs, violations, pending>>
    BY <1>3 DEF EndBatch
  <2>2. Absent(batch, done + 1) /\ ~Once(batch, done + 1)
    BY <1>1, <2>1, BatchEnds
  <2>3. Absent(batch', done' + 1)
    BY <2>1, NothingQueued
  <2>4. (NoneToRun => NoneToRun') /\ (OneToRun => OneToRun')
    BY <2>1, <2>2, <2>3 DEF NoneToRun, OneToRun
  <2>5. ~Has(batch', "forceCloseInLoop") /\ ~Has(batch', "sendInLoop")
    BY <2>1, NothingQueued
  <2> QED  BY <2>1, <2>4, <2>5, LivesOn DEF IInv
<1>4. ASSUME NEW f, AtFunctor(f)
      PROVE  /\ pc = "batch" /\ cb = "none" /\ done' = done + 1
             /\ batch[done + 1].fn = f /\ obj # "none"
             /\ done + 1 <= Len(batch) /\ Has(batch, f)
             /\ Absent(batch, done + 1) =>
                   Absent(batch, done' + 1) /\ f # "connectDestroyed"
             /\ Once(batch, done + 1) /\ f # "connectDestroyed"
                   => Once(batch, done' + 1)
             /\ Once(batch, done + 1) /\ f = "connectDestroyed"
                   => Absent(batch, done' + 1)
  <2>1. /\ pc = "batch" /\ cb = "none" /\ done < Len(batch)
        /\ batch[done + 1].fn = f /\ done' = done + 1
    BY <1>4 DEF AtFunctor
  <2>2. done + 1 <= Len(batch)
    BY <1>1, <2>1
  <2> QED  BY <1>1, <2>1, <2>2, BatchAdvances
<1>5. CASE RunSend
  <2>1. AtFunctor("sendInLoop")
    BY <1>5 DEF RunSend
  <2>2. obj = "alive"
    <3>1. threadRef /\ obj # "none"
      BY <1>4, <2>1
    <3>2. obj \in {"none", "alive", "destroyed"}
      BY DEF Orderly, Stage, Unborn, IsOpen, GoingDown, Doomed, Removed
    <3> QED  BY <3>1, <3>2 DEF Orderly
  <2>3. /\ SendInLoop(batch[done + 1].msg) /\ violations' = violations
        /\ UNCHANGED <<state_, reading_, inMap, server, cb, pc, revents,
                       threadRef, tpc, delay, ups, downs, batch>>
    BY <1>5, <2>2 DEF RunSend, Assert
  <2>4. batch[done + 1].msg \in Nat
    <3>1. done + 1 \in 1..Len(batch)
      BY <1>5, NextFunctor DEF RunSend
    <3>2. batch[done + 1] \in FunctorType
      BY <1>1, <3>1
    <3> QED  BY <3>2 DEF FunctorType
  <2> HIDE DEF SendInLoop
  <2> QED  BY <1>4, <2>1, <2>2, <2>3, <2>4, SendInLoopLives
<1>6. CASE RunShutdown
  <2>1. /\ done + 1 \in 1..Len(batch)
        /\ batch[done + 1].fn = "shutdownInLoop"
    BY <1>6, NextFunctor DEF RunShutdown
  <2> QED  BY <2>1 DEF IInv, OnlySends, NoShutdownIn
<1>7. CASE RunForceClose
  <2>1. /\ AtFunctor("forceCloseInLoop")
        /\ UNCHANGED <<reading_, inMap, server, pending, batch, pc, revents,
                       threadRef, tpc, delay>>
    BY <1>7 DEF RunForceClose
  <2>2. CASE state_ \in Open /\ HandleClose
    <3>1. Forces
      BY <1>4, <2>1
    <3>2. "stopRead" \notin client.loop
      BY <3>1 DEF Forces, Disciplined
    <3>3. IsOpen /\ index_ = "kAdded"
      BY <2>2, <3>2 DEF IsOpen
    <3>4. Absent(batch, done' + 1)
      BY <1>4, <2>1, <3>3 DEF IsOpen, NoneToRun
    <3> QED  BY <1>4, <2>1, <2>2, <3>3, <3>4, GoesDown
  <2>3. CASE UNCHANGED <<state_, channelVars, countVars, cb, violations>>
    <3>1. (NoneToRun => NoneToRun') /\ (OneToRun => OneToRun')
      BY <1>4, <2>1 DEF NoneToRun, OneToRun
    <3> QED  BY <1>4, <2>1, <2>3, <3>1, LivesOn DEF IInv
  <2> QED  BY <1>7, <2>2, <2>3 DEF RunForceClose
<1>8. CASE RunConnectDestroyed
  <2>1. /\ AtFunctor("connectDestroyed") /\ ConnectDestroyed
        /\ UNCHANGED <<reading_, inMap, server, pending, batch, pc, revents,
                       threadRef, tpc, delay>>
    BY <1>8 DEF RunConnectDestroyed
  <2>2. Doomed /\ Absent(pending, 1) /\ Once(batch, done + 1)
    <3>1. ~Absent(batch, done + 1) /\ obj # "none"
      BY <1>4, <2>1
    <3>2. ~NoneToRun
      BY <3>1 DEF NoneToRun
    <3>3. Doomed
      BY <3>2 DEF Orderly, Stage, Unborn, IsOpen, GoingDown, Removed
    <3> QED  BY <3>1, <3>3 DEF Doomed, OneToRun
  <2>3. /\ violations' = {} /\ ~addedToLoop_' /\ index_' = "kNew"
        /\ UNCHANGED <<events_, state_, ups, downs, cb>>
    BY <2>1, <2>2 DEF ConnectDestroyed, RemoveChannel, Assert, Doomed, IsDown
  <2>4. NoneToRun'
    BY <1>4, <2>1, <2>2 DEF NoneToRun
  <2>5. \/ obj' = obj
        \/ obj' = "destroyed" /\ ~threadRef' /\ cb' = "none"
    BY <2>2, <2>3, LifetimeEnds DEF Doomed, IsDown
  <2>6. Removed'
    BY <2>1, <2>2, <2>3, <2>4, <2>5 DEF Removed, Doomed, IsDown
  <2> QED  BY <1>4, <2>1, <2>3, <2>5, <2>6 DEF Orderly, Stage, Forces
<1>9. CASE RunNote
  <2>1. /\ AtFunctor("note") /\ cb' = "note"
        /\ UNCHANGED <<state_, reading_, channelVars, inMap, server, pending,
                       batch, pc, revents, threadRef, tpc, delay, ups, downs,
                       violations>>
    BY <1>9 DEF RunNote
  <2>2. (NoneToRun => NoneToRun') /\ (OneToRun => OneToRun')
    BY <1>4, <2>1 DEF NoneToRun, OneToRun
  <2> QED  BY <1>4, <2>1, <2>2, LivesOn DEF IInv
<1> QED  BY <1>2, <1>3, <1>5, <1>6, <1>7, <1>8, <1>9

LEMMA OutsideStepLives ==
    ASSUME IInv, IInv', Disciplined, Orderly, Lifetime, UNCHANGED client,
           DelayExpires \/ ThreadStep \/ PeerStep
    PROVE  Orderly'
<1> USE LifeFacts
<1> USE DEF channelVars, loopVars, threadVars, countVars, serverVars, outVars,
            netVars
<1>1. CASE DelayExpires
  <2>1. /\ delay /\ pc = "poll" /\ cb = "none" /\ delay' = FALSE
        /\ UNCHANGED <<reading_, channelVars, inMap, server, batch, done, pc,
                       revents, cb, threadRef, tpc, ups, downs, violations>>
        /\ ForceCloseCall \/ UNCHANGED <<state_, pending>>
    BY <1>1 DEF DelayExpires
  <2>2. obj # "none" /\ Forces
    BY <2>1 DEF Unborn
  <2>3. /\ Absent(pending, 1) => Absent(pending', 1)
        /\ Once(pending, 1) => Once(pending', 1)
        /\ Has(pending', "sendInLoop") => Has(pending, "sendInLoop")
    BY <2>1, ForceCloseQueues DEF Typed
  <2>4. (NoneToRun => NoneToRun') /\ (OneToRun => OneToRun')
    BY <2>1, <2>3 DEF NoneToRun, OneToRun
  <2>5. \/ state_' = state_
        \/ /\ state_ \in Open /\ state_' = "kDisconnecting"
           /\ {"shutdown", "forceClose", "forceCloseWithDelay"}
                 \intersect client.loop # {}
    BY <2>1, <2>2 DEF ForceCloseCall, Forces
  <2> QED  BY <2>1, <2>2, <2>3, <2>4, <2>5, LivesOn DEF IInv
<1>2. CASE ThreadGetsPointer
  BY <1>2, LivesOn DEF ThreadGetsPointer, NoneToRun, OneToRun, IInv
<1>3. CASE ThreadDropsPointer
  BY <1>3 DEF ThreadDropsPointer, Disciplined
<1>4. ASSUME NEW op \in client.thread, ThreadChecks(op) PROVE Orderly'
  <2>1. obj # "none" /\ threadRef
    BY <1>4 DEF ThreadChecks, Unborn
  <2> QED
    BY <1>4, <2>1, LivesOn DEF ThreadChecks, NoneToRun, OneToRun, IInv
<1>5. CASE ThreadSend
  <2>1. /\ tpc = "send" /\ threadRef /\ tpc' = "idle"
        /\ pending' = Append(pending, [fn |-> "sendInLoop", msg |-> msgs + 1])
        /\ UNCHANGED <<state_, reading_, channelVars, inMap, server, batch, done,
                       pc, revents, cb, threadRef, delay, ups, downs, violations>>
    BY <1>5 DEF ThreadSend, SendFunctor
  <2>2. /\ Absent(pending, 1) => Absent(pending', 1)
        /\ Once(pending, 1) => Once(pending', 1)
        /\ \A g : Has(pending', g) => Has(pending, g) \/ g = "sendInLoop"
    <3>1. /\ "sendInLoop" \in FunctorNames /\ msgs + 1 \in Nat /\ 1 \in Nat \ {0}
          /\ pending \in Seq(FunctorType)
      BY DEF FunctorNames, Typed
    <3> QED  BY <2>1, <3>1, QueueGrows
  <2>3. (NoneToRun => NoneToRun') /\ (OneToRun => OneToRun')
    BY <2>1, <2>2 DEF NoneToRun, OneToRun
  <2>4. obj # "none"
    BY <2>1 DEF IInv, Born
  <2>5. Has(pending', "forceCloseInLoop") => Forces
    BY <2>2
  <2> QED  BY <2>1, <2>3, <2>4, <2>5, LivesOn DEF IInv
<1>6. CASE \/ ThreadCloses("shutdown", "shutdownInLoop")
           \/ ThreadCloses("forceClose", "forceCloseInLoop")
  BY <1>6 DEF ThreadCloses, IInv, OnlySends
<1>7. CASE PeerStep
  BY <1>7, LivesOn
     DEF PeerStep, PeerSends, PeerCloses, PeerResets, NoneToRun, OneToRun, IInv
<1> QED  BY <1>1, <1>2, <1>3, <1>4, <1>5, <1>6, <1>7 DEF ThreadStep

LEMMA NextLives ==
    ASSUME IInv, IInv', Lives, [Next]_vars
    PROVE  Lives'
<1>1. CASE UNCHANGED vars
  BY <1>1 DEF vars, Lives, Disciplined, Orderly, Stage, Unborn, IsOpen,
              GoingDown, Doomed, Removed, IsDown, NoneToRun, OneToRun, Forces
<1>2. CASE Next
  <2>1. UNCHANGED client
    BY <1>2 DEF Next
  <2> SUFFICES ASSUME Disciplined' PROVE Orderly'
    BY DEF Lives
  <2>2. Disciplined /\ Orderly
    BY <2>1 DEF Lives, Disciplined
  <2>3. CASE NewConnection
    <3>1. Unborn /\ cb = "none" /\ pc = "poll" /\ tpc = "idle"
      BY <2>2, <2>3, LifeFacts DEF NewConnection, IInv, Born
    <3>2. /\ obj' = "alive" /\ inMap' /\ state_' = "kConnected" /\ ups' = 1
          /\ downs' = 0 /\ cb' = "up" /\ events_' = {"read"}
          /\ index_' = "kAdded"
          /\ UNCHANGED <<reading_, server, pending, batch, done, pc, revents,
                         threadRef, tpc, delay, violations>>
      BY <2>3, <3>1 DEF NewConnection, UpdateChannel, Unborn, loopVars, threadVars
    <3>3. NoneToRun'
      BY <3>1, <3>2 DEF Unborn, NoneToRun
    <3>4. IsOpen'
      BY <3>1, <3>2, <3>3 DEF IsOpen, Unborn, Open
    <3> QED  BY <2>1, <2>2, <3>1, <3>2, <3>4 DEF Orderly, Stage, Forces
  <2>4. CASE UserStep /\ Lifetime
    BY <2>1, <2>2, <2>4, UserStepLives
  <2>5. CASE LoopStep /\ Lifetime
    BY <2>1, <2>2, <2>5, EndCallbackLives, HandlerLives, BatchLives DEF LoopStep
  <2>6. CASE (DelayExpires \/ ThreadStep \/ PeerStep) /\ Lifetime
    BY <2>1, <2>2, <2>6, OutsideStepLives
  <2> QED  BY <1>2, <2>3, <2>4, <2>5, <2>6 DEF Next
<1> QED  BY <1>1, <1>2

LEMMA InitLives == Init => Lives
<1> SUFFICES ASSUME Init PROVE Orderly
  BY DEF Lives
<1>1. NoneToRun /\ \A f : ~Has(pending, f) /\ ~Has(batch, f)
  BY NothingQueued DEF Init, NoneToRun
<1>2. Unborn
  BY <1>1 DEF Init, Unborn
<1> QED  BY <1>1, <1>2 DEF Init, Orderly, Stage

LEMMA LifeInvariant == Spec => []Lives
<1>1. IInv /\ IInv' /\ Lives /\ [Next]_vars => Lives'
  BY NextLives
<1> QED  BY <1>1, InitLives, Invariant, PTL DEF Spec

-----------------------------------------------------------------------------

\* Whatever the program does, from however many threads: output is neither
\* lost, duplicated nor reordered between sendInLoop and the socket.
THEOREM OutputInOrder == Spec => []StreamIntact
<1>1. IInv => StreamIntact
  BY DEF IInv
<1> QED  BY <1>1, Invariant, PTL

\* In a disciplined program the channel watches for POLLOUT exactly while
\* there is output in the buffer, partial writes and forced closes included.
THEOREM WatchesWhileBuffered == Spec => []WritingIffBuffered
<1>1. IInv => WritingIffBuffered
  BY DEF IInv
<1> QED  BY <1>1, Invariant, PTL

\* In a disciplined program shutdown() never overtakes buffered output.
THEOREM FinComesLast == Spec => []FinAfterData
<1>1. IInv => FinAfterData
  BY DEF IInv
<1> QED  BY <1>1, Invariant, PTL

\* No assertion of TcpConnection, Channel, EPollPoller or TcpServer fails in a
\* disciplined program, and no functor or handler uses a destroyed connection:
\* whichever of the peer's close, a forced close, its timer and ~TcpServer
\* comes first, and with another thread sending all the while.
THEOREM NothingAsserts == Spec => []NoAssertionFails
<1>1. Lives => NoAssertionFails
  BY DEF Lives, NoAssertionFails, Running, Orderly, Stage, Unborn, IsOpen,
         GoingDown, Doomed, Removed
<1> QED  BY <1>1, LifeInvariant, PTL

\* connectionCallback_ of a disciplined program is called once with the
\* connection up and once with it down.
THEOREM ToldOnce == Spec => []NotifiedOnce
<1>1. IInv /\ Lives => NotifiedOnce
  <2> SUFFICES ASSUME IInv, Orderly PROVE NotifiedOnce
    BY DEF Lives, NotifiedOnce
  <2>1. CASE Unborn
    BY <2>1 DEF Unborn, NotifiedOnce, IInv, Born
  <2>2. CASE IsOpen
    BY <2>2 DEF IsOpen, NotifiedOnce, Open
  <2>3. CASE IsDown
    BY <2>3 DEF IsDown, NotifiedOnce
  <2> QED
    BY <2>1, <2>2, <2>3 DEF Orderly, Stage, GoingDown, Doomed, Removed
<1> QED  BY <1>1, Invariant, LifeInvariant, PTL
=============================================================================
