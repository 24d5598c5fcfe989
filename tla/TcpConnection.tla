--------------------------- MODULE TcpConnection ---------------------------
(***************************************************************************)
(* net/TcpConnection with its Channel, its entry in TcpServer's            *)
(* connections_ and its registration in EPollPoller: the life of one       *)
(* connection, from TcpServer::newConnection to ~TcpConnection.            *)
(*                                                                         *)
(* Actors: the loop thread (poll, handlers, functors and the user's        *)
(* callbacks), one other thread that was given a TcpConnectionPtr, and the *)
(* peer.  EventLoopThreadPool::setThreadNum does nothing in this library,  *)
(* so the server's loop is the connection's loop, and runInLoop is a plain *)
(* call in removeConnection and connectEstablished.                        *)
(*                                                                         *)
(* The functor queue is the FIFO that module EventLoop establishes; the    *)
(* vector doPendingFunctors iterates over keeps the shared pointers bound  *)
(* in it until the whole batch has run.  A message is MsgLen units of its  *)
(* number, so that a write can be partial.  Failing assertions and uses of *)
(* a destroyed object are recorded in violations, and the program stops.   *)
(*                                                                         *)
(* pc says where the loop thread is: "poll", also the handlers of other    *)
(* channels; "hup", "in" and "out", the branches of handleEventWithGuard;  *)
(* "swap" and "batch", doPendingFunctors.  cb says which callback of the   *)
(* user the loop thread is in: "up", "down" (connectionCallback_ from      *)
(* handleClose), "gone" (the same from connectDestroyed), "msg", "note"    *)
(* (write complete, high-water mark) or "none".                            *)
(***************************************************************************)
EXTENDS Naturals, Sequences, FiniteSets

CONSTANTS Clients,      \* the programs that use the library, see ClientType
          MaxMsgs,      \* bound: messages sent
          MaxPending,   \* bound: functors pending when the user adds one
          HighWaterMark \* highWaterMark_, in units

MsgLen == 2

AllOps == {"send", "shutdown", "forceClose", "forceCloseWithDelay",
           "startRead", "stopRead", "destroyServer"}

\* What a program does with the library: the operations its code calls in
\* the loop thread, those its other thread calls, whether that thread may
\* let its pointer go, and whether startRead and stopRead are called on a
\* connection that is already down.
ClientType == [loop : SUBSET AllOps,
               thread : SUBSET {"send", "shutdown", "forceClose"},
               drops : BOOLEAN,
               lateRead : BOOLEAN]

ASSUME ConnAssumption ==
    /\ Clients \subseteq ClientType
    /\ MaxMsgs \in Nat
    /\ MaxPending \in Nat
    /\ HighWaterMark \in Nat

VARIABLES
    client,      \* the program: one of Clients, fixed
    obj,         \* "none", "alive", "destroyed", or "asserted" in ~TcpConnection
    state_,
    reading_,
    events_,     \* the channel's events: subset of {"read", "write"}
    index_,      \* the channel's index in EPollPoller
    addedToLoop_,
    outputBuffer_,
    inMap,       \* the server's connections_ has the connection
    server,      \* the TcpServer exists
    pending,     \* pendingFunctors_
    batch,       \* doPendingFunctors' vector
    done,        \* how many functors of batch have been called
    pc, cb, revents,
    userRef,     \* user code of the loop thread keeps a TcpConnectionPtr
    threadRef,   \* so does the other thread
    tpc,         \* the other thread's operation whose check has succeeded
    delay,       \* a forceCloseWithDelay timer is armed
    peer,        \* "open", "fin" (it shut its side down), "rst" (it reset the
                 \* connection) or "gone" (the same, error already reported)
    rcv,         \* the receive queue has data
    wrShut,      \* shutdown(SHUT_WR) was called: FIN follows the data sent
    wire,        \* units the kernel accepted
    stream,      \* units sendInLoop accepted, in order
    msgs,        \* number of messages sent
    ups, downs,  \* calls of connectionCallback_ with the connection up, down
    violations   \* assertions that failed, uses after free

vars == <<client, obj, state_, reading_, events_, index_, addedToLoop_,
          outputBuffer_, inMap, server, pending, batch, done, pc, cb,
          revents, userRef, threadRef, tpc, delay, peer, rcv, wrShut, wire,
          stream, msgs, ups, downs, violations>>

\* Groups of variables that actions leave alone together.
channelVars == <<events_, index_, addedToLoop_>>
loopVars    == <<batch, done, pc, revents>>
threadVars  == <<threadRef, tpc>>
netVars     == <<peer, rcv>>
outVars     == <<outputBuffer_, wire, stream>>
serverVars  == <<inMap, server>>
countVars   == <<ups, downs>>

Init ==
    /\ client \in Clients
    /\ obj = "none"
    /\ state_ = "kConnecting"
    /\ reading_ = TRUE
    /\ events_ = {}
    /\ index_ = "kNew"
    /\ addedToLoop_ = FALSE
    /\ outputBuffer_ = <<>>
    /\ inMap = FALSE
    /\ server = TRUE
    /\ pending = <<>>
    /\ batch = <<>>
    /\ done = 0
    /\ pc = "poll"
    /\ cb = "none"
    /\ revents = {}
    /\ userRef = FALSE
    /\ threadRef = FALSE
    /\ tpc = "idle"
    /\ delay = FALSE
    /\ peer = "open"
    /\ rcv = FALSE
    /\ wrShut = FALSE
    /\ wire = <<>>
    /\ stream = <<>>
    /\ msgs = 0
    /\ ups = 0
    /\ downs = 0
    /\ violations = {}

Open == {"kConnected", "kDisconnecting"}

\* The peer has reset the connection: writes fail.
IsReset == peer \in {"rst", "gone"}

-----------------------------------------------------------------------------
(* Assertions and lifetime *)

\* An assertion of the code: what a failure adds to violations.
Assert(condition, place) == IF condition THEN {} ELSE {place}

\* Functors bound to a TcpConnectionPtr; the others carry a raw this.
SharedFunctors == {"forceCloseInLoop", "connectDestroyed", "note"}

Binds(queue) == \E i \in DOMAIN queue : queue[i].fn \in SharedFunctors

\* Some shared pointer to the connection exists: the server's, a user's, one
\* bound in a functor, the guard of handleEvent or that of a callback.
Held ==
    \/ inMap
    \/ userRef
    \/ threadRef
    \/ Binds(pending)
    \/ Binds(batch)
    \/ pc \in {"hup", "in", "out"}
    \/ cb # "none"

\* What the step that drops the last pointer does: ~TcpConnection and
\* ~Channel, with their assertions.
Lifetime ==
    obj' = IF obj = "alive" /\ ~Held'
           THEN IF state_' = "kDisconnected" /\ ~addedToLoop_'
                THEN "destroyed" ELSE "asserted"
           ELSE obj

-----------------------------------------------------------------------------
(* Channel and EPollPoller *)

\* Channel::update after events_ became ev.
UpdateChannel(ev) ==
    /\ events_' = ev
    /\ addedToLoop_' = TRUE
    /\ index_' = IF index_ = "kAdded" /\ ev = {} THEN "kDeleted"
                                                 ELSE "kAdded"

\* Channel::remove and EPollPoller::removeChannel.
RemoveChannel ==
    /\ violations' = violations
            \union Assert(events_ = {}, "Channel.cc:41")
            \union Assert(index_ # "kNew", "EpollPoller.cc:119")
    /\ addedToLoop_' = FALSE
    /\ index_' = "kNew"
    /\ UNCHANGED events_

Functor(f)     == [fn |-> f, msg |-> 0]
SendFunctor(m) == [fn |-> "sendInLoop", msg |-> m]

-----------------------------------------------------------------------------
(* Output *)

Message(m) == [i \in 1..MsgLen |-> m]

\* The functors sendInLoop queues: writeCompleteCallback_ when the message
\* went out at once, highWaterMarkCallback_ when the rest crosses the mark.
Notes(remaining) ==
    LET oldLen == Len(outputBuffer_) IN
    IF remaining = 0 \/ (/\ oldLen + remaining >= HighWaterMark
                         /\ oldLen < HighWaterMark)
    THEN <<Functor("note")>> ELSE <<>>

\* sendInLoop that always tries the socket first.
MayWriteDirectly_Always == TRUE

\* Whether sendInLoop writes to the socket at once.
MayWriteDirectly == "write" \notin events_ /\ outputBuffer_ = <<>>

\* sendInLoop of message m: write what the socket takes, buffer the rest
\* and watch for POLLOUT.  EPIPE and ECONNRESET drop the message.
SendInLoop(m) ==
    \/ /\ state_ = "kDisconnected"
       /\ UNCHANGED <<outVars, channelVars, pending>>
    \/ /\ state_ # "kDisconnected"
       /\ MayWriteDirectly
       /\ wrShut \/ IsReset
       /\ UNCHANGED <<outVars, channelVars, pending>>
    \/ /\ state_ # "kDisconnected"
       /\ \E n \in IF MayWriteDirectly THEN 0..MsgLen ELSE {0} :
             LET data == Message(m)
                 rest == SubSeq(data, n + 1, MsgLen) IN
             /\ MayWriteDirectly => ~wrShut /\ ~IsReset
             /\ wire' = wire \o SubSeq(data, 1, n)
             /\ outputBuffer_' = outputBuffer_ \o rest
             /\ stream' = stream \o data
             /\ pending' = pending \o Notes(Len(rest))
             /\ IF rest # <<>> /\ "write" \notin events_
                THEN UpdateChannel(events_ \union {"write"})
                ELSE UNCHANGED channelVars

\* shutdownInLoop: half-close, unless output is still buffered.
ShutdownInLoop_Always == wrShut' = TRUE

ShutdownInLoop == wrShut' = (wrShut \/ "write" \notin events_)

-----------------------------------------------------------------------------
(* Closing *)

\* handleClose that leaves the channel's events as they are.
HandleClose_KeepsEvents ==
    /\ state_' = "kDisconnected"
    /\ downs' = downs + 1
    /\ cb' = "down"
    /\ UNCHANGED <<channelVars, ups, violations>>

\* handleClose up to connectionCallback_.
HandleClose ==
    /\ violations' = violations
            \union Assert(state_ \in Open, "TcpConnection.cc:326")
    /\ state_' = "kDisconnected"
    /\ UpdateChannel({})
    /\ downs' = downs + 1
    /\ cb' = "down"
    /\ UNCHANGED ups

\* connectDestroyed that tells the user in any state.
ConnectDestroyed_AlwaysNotifies ==
    /\ state_' = "kDisconnected"
    /\ UpdateChannel({})
    /\ downs' = downs + 1
    /\ cb' = "gone"
    /\ UNCHANGED <<ups, violations>>

\* connectDestroyed: if the connection is up it goes down here, and the
\* user is told before the channel is removed.
ConnectDestroyed ==
    \/ /\ state_ = "kConnected"
       /\ state_' = "kDisconnected"
       /\ UpdateChannel({})
       /\ downs' = downs + 1
       /\ cb' = "gone"
       /\ UNCHANGED <<ups, violations>>
    \/ /\ state_ # "kConnected"
       /\ RemoveChannel
       /\ UNCHANGED <<state_, countVars, cb>>

-----------------------------------------------------------------------------
(* TcpServer::newConnection, from the acceptor's handler *)

NewConnection ==
    /\ obj = "none" /\ pc = "poll"
    /\ obj' = "alive"
    /\ inMap' = TRUE
    /\ state_' = "kConnected"
    /\ UpdateChannel({"read"})
    /\ ups' = ups + 1
    /\ cb' = "up"
    /\ UNCHANGED <<reading_, server, outVars, pending, loopVars, userRef,
                   threadVars, delay, netVars, wrShut, msgs, downs,
                   violations>>

-----------------------------------------------------------------------------
(* The user's code in the loop thread: inside a callback of this            *)
(* connection, or, with a pointer kept from one, in any other handler,      *)
(* functor or timer.                                                        *)

InUserCode ==
    \/ cb # "none"
    \/ userRef /\ pc \in {"poll", "batch"}

MayCall(op) ==
    /\ obj = "alive"
    /\ InUserCode
    /\ op \in client.loop

CanQueue == Len(pending) < MaxPending

Send ==
    /\ MayCall("send")
    /\ state_ = "kConnected"
    /\ msgs < MaxMsgs /\ CanQueue
    /\ SendInLoop(msgs + 1)
    /\ msgs' = msgs + 1
    /\ UNCHANGED <<state_, reading_, serverVars, loopVars, cb, userRef,
                   threadVars, delay, netVars, wrShut, countVars,
                   violations>>

Shutdown ==
    /\ MayCall("shutdown")
    /\ state_ = "kConnected"
    /\ state_' = "kDisconnecting"
    /\ ShutdownInLoop
    /\ UNCHANGED <<reading_, channelVars, outVars, serverVars, pending,
                   loopVars, cb, userRef, threadVars, delay, netVars, msgs,
                   countVars, violations>>

\* forceClose() itself, whoever calls it in the loop thread.
ForceCloseCall ==
    \/ /\ state_ \in Open
       /\ state_' = "kDisconnecting"
       /\ pending' = Append(pending, Functor("forceCloseInLoop"))
    \/ /\ state_ \notin Open
       /\ UNCHANGED <<state_, pending>>

ForceClose ==
    /\ MayCall("forceClose")
    /\ CanQueue
    /\ ForceCloseCall
    /\ UNCHANGED <<reading_, channelVars, outVars, serverVars, loopVars, cb,
                   userRef, threadVars, delay, netVars, wrShut, msgs,
                   countVars, violations>>

ForceCloseWithDelay ==
    /\ MayCall("forceCloseWithDelay")
    /\ state_ \in Open
    /\ state_' = "kDisconnecting"
    /\ delay' = TRUE
    /\ UNCHANGED <<reading_, channelVars, outVars, serverVars, pending,
                   loopVars, cb, userRef, threadVars, netVars, wrShut, msgs,
                   countVars, violations>>

\* The timer's weak callback: forceClose, if the connection still exists.
DelayExpires ==
    /\ delay /\ pc = "poll" /\ cb = "none"
    /\ CanQueue
    /\ delay' = FALSE
    /\ \/ obj = "alive" /\ ForceCloseCall
       \/ obj # "alive" /\ UNCHANGED <<state_, pending>>
    /\ UNCHANGED <<reading_, channelVars, outVars, serverVars, loopVars, cb,
                   userRef, threadVars, netVars, wrShut, msgs, countVars,
                   violations>>

\* startReadInLoop and stopReadInLoop, called directly.
StartRead ==
    /\ MayCall("startRead")
    /\ state_ \in Open \/ client.lateRead
    /\ ~reading_ \/ "read" \notin events_
    /\ reading_' = TRUE
    /\ UpdateChannel(events_ \union {"read"})
    /\ UNCHANGED <<state_, outVars, serverVars, pending, loopVars, cb,
                   userRef, threadVars, delay, netVars, wrShut, msgs,
                   countVars, violations>>

StopRead ==
    /\ MayCall("stopRead")
    /\ state_ \in Open \/ client.lateRead
    /\ reading_ \/ "read" \in events_
    /\ reading_' = FALSE
    /\ UpdateChannel(events_ \ {"read"})
    /\ UNCHANGED <<state_, outVars, serverVars, pending, loopVars, cb,
                   userRef, threadVars, delay, netVars, wrShut, msgs,
                   countVars, violations>>

\* The user keeps the TcpConnectionPtr of a callback, or lets it go.
KeepPointer ==
    /\ cb # "none" /\ ~userRef
    /\ userRef' = TRUE
    /\ UNCHANGED <<state_, reading_, channelVars, outVars, serverVars,
                   pending, loopVars, cb, threadVars, delay, netVars, wrShut,
                   msgs, countVars, violations>>

DropPointer ==
    /\ InUserCode /\ userRef
    /\ userRef' = FALSE
    /\ UNCHANGED <<state_, reading_, channelVars, outVars, serverVars,
                   pending, loopVars, cb, threadVars, delay, netVars, wrShut,
                   msgs, countVars, violations>>

\* ~TcpServer, in a handler or functor of the loop thread that is not one of
\* this connection: connections_ lets go of the connection and
\* connectDestroyed runs at once.
DestroyServer ==
    /\ "destroyServer" \in client.loop
    /\ server /\ obj # "none" /\ pc \in {"poll", "batch"} /\ cb = "none"
    /\ server' = FALSE
    /\ \/ inMap /\ inMap' = FALSE /\ ConnectDestroyed
       \/ ~inMap /\ UNCHANGED <<inMap, state_, channelVars, countVars, cb,
                                violations>>
    /\ UNCHANGED <<reading_, outVars, pending, loopVars, userRef, threadVars,
                   delay, netVars, wrShut, msgs>>

\* removeConnectionInLoop that does not queue connectDestroyed.
RemoveConnection_NoDestroy ==
    /\ inMap' = FALSE
    /\ UNCHANGED <<pending, violations>>

\* removeConnectionInLoop that leaves the connection in the map.
RemoveConnection_NoErase ==
    /\ pending' = Append(pending, Functor("connectDestroyed"))
    /\ UNCHANGED <<inMap, violations>>

\* removeConnection, in the loop thread: erase and queue connectDestroyed.
RemoveConnection ==
    /\ violations' = violations
            \union Assert(server, "TcpServer used after destruction")
            \union Assert(inMap, "TcpServer.cc:88")
    /\ inMap' = FALSE
    /\ pending' = Append(pending, Functor("connectDestroyed"))

\* A callback returns.  handleClose goes on with closeCallback_, that is
\* removeConnection: the server forgets the connection and has it destroyed
\* by a functor.  connectDestroyed goes on with channel_->remove().
EndCallback ==
    /\ cb # "none"
    /\ cb' = "none"
    /\ \/ /\ cb \in {"up", "msg", "note"}
          /\ UNCHANGED <<inMap, pending, channelVars, violations>>
       \/ /\ cb = "down"
          /\ RemoveConnection
          /\ UNCHANGED channelVars
       \/ /\ cb = "gone"
          /\ RemoveChannel
          /\ UNCHANGED <<inMap, pending>>
    /\ UNCHANGED <<state_, reading_, outVars, server, loopVars, userRef,
                   threadVars, delay, netVars, wrShut, msgs, countVars>>

-----------------------------------------------------------------------------
(* poll and Channel::handleEvent *)

\* What epoll reports of this socket.
Ready ==
    LET readable == rcv \/ peer # "open" IN
    IF index_ # "kAdded" THEN {}
    ELSE (IF "read" \in events_ /\ readable THEN {"in"} ELSE {})
         \union (IF "write" \in events_ THEN {"out"} ELSE {})
         \union (IF IsReset \/ (peer = "fin" /\ wrShut) THEN {"hup"} ELSE {})

\* poll returns with this channel.  POLLOUT may be missing, because the
\* send buffer is full.
PollConnection ==
    /\ pc = "poll" /\ cb = "none" /\ obj # "none"
    /\ \E r \in {Ready, Ready \ {"out"}} :
          /\ r # {}
          /\ revents' = r
    /\ pc' = "hup"
    /\ violations' = violations \union Assert(obj = "alive", "use after free")
    /\ UNCHANGED <<state_, reading_, channelVars, outVars, serverVars,
                   pending, batch, done, cb, userRef, threadVars, delay,
                   netVars, wrShut, msgs, countVars>>

\* poll returns for other channels or the eventfd.
PollOther ==
    /\ pc = "poll" /\ cb = "none" /\ obj # "none"
    /\ pending # <<>>
    /\ pc' = "swap"
    /\ UNCHANGED <<state_, reading_, channelVars, outVars, serverVars,
                   pending, batch, done, cb, revents, userRef, threadVars,
                   delay, netVars, wrShut, msgs, countVars, violations>>

HandleHup ==
    /\ pc = "hup" /\ cb = "none"
    /\ pc' = "in"
    /\ \/ "hup" \in revents /\ "in" \notin revents /\ HandleClose
       \/ /\ "hup" \notin revents \/ "in" \in revents
          /\ UNCHANGED <<state_, channelVars, countVars, cb, violations>>
    /\ UNCHANGED <<reading_, outVars, serverVars, pending, batch, done,
                   revents, userRef, threadVars, delay, netVars, wrShut,
                   msgs>>

\* handleRead: data, end of file or an error (logged by handleError).  A
\* reset is reported once as an error, by this read or by the getsockopt of
\* an earlier handleError, and as end of file from then on.
HandleRead ==
    /\ pc = "in" /\ cb = "none"
    /\ pc' = "out"
    /\ \/ /\ "in" \in revents /\ rcv
          /\ rcv' = FALSE
          /\ cb' = "msg"
          /\ UNCHANGED <<state_, channelVars, countVars, violations, peer>>
       \/ /\ "in" \in revents /\ ~rcv /\ peer # "open"
          /\ HandleClose
          /\ UNCHANGED netVars
       \/ /\ "in" \in revents /\ peer = "rst"
          /\ peer' = "gone"
          /\ UNCHANGED <<state_, channelVars, countVars, cb, violations, rcv>>
       \/ /\ "in" \notin revents
          /\ UNCHANGED <<state_, channelVars, countVars, cb, violations,
                         netVars>>
    /\ UNCHANGED <<reading_, outVars, serverVars, pending, batch, done,
                   revents, userRef, threadVars, delay, wrShut, msgs>>

\* handleWrite that goes on watching for POLLOUT.
WriteOut_StaysWriting(n) ==
    /\ wire' = wire \o SubSeq(outputBuffer_, 1, n)
    /\ outputBuffer_' = SubSeq(outputBuffer_, n + 1, Len(outputBuffer_))
    /\ UNCHANGED <<channelVars, pending, wrShut>>

\* handleWrite that forgets a shutdown() waiting for it.
WriteOut_NoShutdown(n) ==
    /\ wire' = wire \o SubSeq(outputBuffer_, 1, n)
    /\ outputBuffer_' = SubSeq(outputBuffer_, n + 1, Len(outputBuffer_))
    /\ \/ /\ n = Len(outputBuffer_)
          /\ UpdateChannel(events_ \ {"write"})
          /\ pending' = Append(pending, Functor("note"))
       \/ /\ n < Len(outputBuffer_)
          /\ UNCHANGED <<channelVars, pending>>
    /\ UNCHANGED wrShut

\* handleWrite wrote n units: stop watching for POLLOUT when the buffer is
\* empty, and do a shutdown() that was waiting for that.
WriteOut(n) ==
    /\ wire' = wire \o SubSeq(outputBuffer_, 1, n)
    /\ outputBuffer_' = SubSeq(outputBuffer_, n + 1, Len(outputBuffer_))
    /\ \/ /\ n = Len(outputBuffer_)
          /\ UpdateChannel(events_ \ {"write"})
          /\ pending' = Append(pending, Functor("note"))
          /\ wrShut' = (wrShut \/ state_ = "kDisconnecting")
       \/ /\ n < Len(outputBuffer_)
          /\ UNCHANGED <<channelVars, pending, wrShut>>

HandleWriteProgress ==
    /\ pc = "out" /\ cb = "none"
    /\ "out" \in revents /\ "write" \in events_
    /\ ~IsReset
    /\ \E n \in 1..Len(outputBuffer_) : WriteOut(n)
    /\ pc' = "swap"
    /\ UNCHANGED <<state_, reading_, stream, serverVars, batch, done, cb,
                   revents, userRef, threadVars, delay, netVars, msgs,
                   countVars, violations>>

\* No POLLOUT, no interest any more, or a write that failed and was logged.
HandleWriteNone ==
    /\ pc = "out" /\ cb = "none"
    /\ "out" \notin revents \/ "write" \notin events_ \/ IsReset
    /\ pc' = "swap"
    /\ UNCHANGED <<state_, reading_, channelVars, outVars, serverVars,
                   pending, batch, done, cb, revents, userRef, threadVars,
                   delay, netVars, wrShut, msgs, countVars, violations>>

-----------------------------------------------------------------------------
(* doPendingFunctors *)

Swap ==
    /\ pc = "swap"
    /\ batch' = pending
    /\ pending' = <<>>
    /\ done' = 0
    /\ pc' = "batch"
    /\ UNCHANGED <<state_, reading_, channelVars, outVars, serverVars, cb,
                   revents, userRef, threadVars, delay, netVars, wrShut,
                   msgs, countVars, violations>>

AtFunctor(f) ==
    /\ pc = "batch" /\ cb = "none"
    /\ done < Len(batch)
    /\ batch[done + 1].fn = f
    /\ done' = done + 1

\* A functor with a raw this: the object may be gone.
RunSend ==
    /\ AtFunctor("sendInLoop")
    /\ violations' = violations \union Assert(obj = "alive", "use after free")
    /\ \/ obj = "alive" /\ SendInLoop(batch[done + 1].msg)
       \/ obj # "alive" /\ UNCHANGED <<outVars, channelVars, pending>>
    /\ UNCHANGED <<state_, reading_, serverVars, batch, pc, cb, revents,
                   userRef, threadVars, delay, netVars, wrShut, msgs,
                   countVars>>

RunShutdown ==
    /\ AtFunctor("shutdownInLoop")
    /\ violations' = violations \union Assert(obj = "alive", "use after free")
    /\ \/ obj = "alive" /\ ShutdownInLoop
       \/ obj # "alive" /\ UNCHANGED wrShut
    /\ UNCHANGED <<state_, reading_, channelVars, outVars, serverVars,
                   pending, batch, pc, cb, revents, userRef, threadVars,
                   delay, netVars, msgs, countVars>>

RunForceClose ==
    /\ AtFunctor("forceCloseInLoop")
    /\ \/ state_ \in Open /\ HandleClose
       \/ /\ state_ \notin Open
          /\ UNCHANGED <<state_, channelVars, countVars, cb, violations>>
    /\ UNCHANGED <<reading_, outVars, serverVars, pending, batch, pc,
                   revents, userRef, threadVars, delay, netVars, wrShut,
                   msgs>>

RunConnectDestroyed ==
    /\ AtFunctor("connectDestroyed")
    /\ ConnectDestroyed
    /\ UNCHANGED <<reading_, outVars, serverVars, pending, batch, pc,
                   revents, userRef, threadVars, delay, netVars, wrShut,
                   msgs>>

\* writeCompleteCallback_ or highWaterMarkCallback_.
RunNote ==
    /\ AtFunctor("note")
    /\ cb' = "note"
    /\ UNCHANGED <<state_, reading_, channelVars, outVars, serverVars,
                   pending, batch, pc, revents, userRef, threadVars, delay,
                   netVars, wrShut, msgs, countVars, violations>>

\* The vector goes, and with it the pointers bound in it.
EndBatch ==
    /\ pc = "batch" /\ cb = "none"
    /\ done = Len(batch)
    /\ batch' = <<>>
    /\ done' = 0
    /\ pc' = "poll"
    /\ UNCHANGED <<state_, reading_, channelVars, outVars, serverVars,
                   pending, cb, revents, userRef, threadVars, delay, netVars,
                   wrShut, msgs, countVars, violations>>

-----------------------------------------------------------------------------
(* The other thread.  It tests state_ first and acts on the answer in a     *)
(* later step: nothing locks or compares-and-swaps state_.                  *)

ThreadGetsPointer ==
    /\ cb = "up" /\ client.thread # {} /\ ~threadRef
    /\ threadRef' = TRUE
    /\ UNCHANGED <<state_, reading_, channelVars, outVars, serverVars,
                   pending, loopVars, cb, userRef, tpc, delay, netVars,
                   wrShut, msgs, countVars, violations>>

\* if (state_ == kConnected), or also kDisconnecting for forceClose.
ThreadChecks(op) ==
    /\ threadRef /\ tpc = "idle"
    /\ state_ \in (IF op = "forceClose" THEN Open ELSE {"kConnected"})
    /\ op = "send" => msgs < MaxMsgs
    /\ CanQueue
    /\ tpc' = op
    /\ UNCHANGED <<state_, reading_, channelVars, outVars, serverVars,
                   pending, loopVars, cb, userRef, threadRef, delay, netVars,
                   wrShut, msgs, countVars, violations>>

ThreadSend ==
    /\ tpc = "send" /\ msgs < MaxMsgs
    /\ msgs' = msgs + 1
    /\ pending' = Append(pending, SendFunctor(msgs + 1))
    /\ tpc' = "idle"
    /\ UNCHANGED <<state_, reading_, channelVars, outVars, serverVars,
                   loopVars, cb, userRef, threadRef, delay, netVars, wrShut,
                   countVars, violations>>

\* setState(kDisconnecting), then the functor is queued.
ThreadCloses(op, f) ==
    /\ tpc = op
    /\ state_' = "kDisconnecting"
    /\ pending' = Append(pending, Functor(f))
    /\ tpc' = "idle"
    /\ UNCHANGED <<reading_, channelVars, outVars, serverVars, loopVars, cb,
                   userRef, threadRef, delay, netVars, wrShut, msgs,
                   countVars, violations>>

ThreadDropsPointer ==
    /\ client.drops /\ threadRef /\ tpc = "idle"
    /\ threadRef' = FALSE
    /\ UNCHANGED <<state_, reading_, channelVars, outVars, serverVars,
                   pending, loopVars, cb, userRef, tpc, delay, netVars,
                   wrShut, msgs, countVars, violations>>

-----------------------------------------------------------------------------
(* The peer *)

PeerSends ==
    /\ obj = "alive" /\ peer = "open" /\ ~rcv
    /\ rcv' = TRUE
    /\ UNCHANGED <<state_, reading_, channelVars, outVars, serverVars,
                   pending, loopVars, cb, userRef, threadVars, delay, peer,
                   wrShut, msgs, countVars, violations>>

PeerCloses ==
    /\ obj = "alive" /\ peer = "open"
    /\ peer' = "fin"
    /\ UNCHANGED <<state_, reading_, channelVars, outVars, serverVars,
                   pending, loopVars, cb, userRef, threadVars, delay, rcv,
                   wrShut, msgs, countVars, violations>>

PeerResets ==
    /\ obj = "alive" /\ ~IsReset
    /\ peer' = "rst"
    /\ rcv' = FALSE
    /\ UNCHANGED <<state_, reading_, channelVars, outVars, serverVars,
                   pending, loopVars, cb, userRef, threadVars, delay, wrShut,
                   msgs, countVars, violations>>

-----------------------------------------------------------------------------

UserStep ==
    \/ Send \/ Shutdown \/ ForceClose \/ ForceCloseWithDelay \/ StartRead
    \/ StopRead \/ KeepPointer \/ DropPointer \/ DestroyServer

\* What the loop thread does by itself.
LoopStep ==
    \/ EndCallback \/ PollConnection \/ PollOther \/ HandleHup \/ HandleRead
    \/ HandleWriteProgress \/ HandleWriteNone \/ Swap \/ RunSend
    \/ RunShutdown \/ RunForceClose \/ RunConnectDestroyed \/ RunNote
    \/ EndBatch

ThreadStep ==
    \/ ThreadGetsPointer
    \/ \E op \in client.thread : ThreadChecks(op)
    \/ ThreadSend
    \/ ThreadCloses("shutdown", "shutdownInLoop")
    \/ ThreadCloses("forceClose", "forceCloseInLoop")
    \/ ThreadDropsPointer

PeerStep == PeerSends \/ PeerCloses \/ PeerResets

\* A failed assertion aborts the program.
Running == violations = {} /\ obj # "asserted"

Next ==
    /\ UNCHANGED client
    /\ \/ NewConnection
       \/ /\ Running
          /\ UserStep \/ LoopStep \/ DelayExpires \/ ThreadStep \/ PeerStep
          /\ Lifetime

Spec == Init /\ [][Next]_vars

\* The loop thread keeps running and callbacks return; an expired timer is
\* among the events of some later round; the peer keeps reading, so that a
\* socket with unsent output is writable again and again.
Fairly(A)    == Running /\ A /\ Lifetime /\ UNCHANGED client
PollWritable == PollConnection /\ "out" \in revents'
Fairness ==
    /\ WF_vars(Fairly(LoopStep))
    /\ SF_vars(Fairly(DelayExpires))
    /\ SF_vars(Fairly(PollWritable))
    /\ SF_vars(Fairly(HandleWriteProgress))

FairSpec == Spec /\ Fairness

-----------------------------------------------------------------------------
(* Properties *)

\* How far the library can be used without tripping over itself: the other
\* thread only sends and keeps its pointer; startRead and stopRead end with
\* the connection; stopRead is not combined with a forced close, nor the
\* destruction of the server with connections that are half closed.
Disciplined ==
    /\ client.thread \subseteq {"send"}
    /\ ~client.drops
    /\ ~client.lateRead
    /\ "stopRead" \in client.loop =>
          {"forceClose", "forceCloseWithDelay"} \intersect client.loop = {}
    /\ "destroyServer" \in client.loop =>
          {"shutdown", "forceClose", "forceCloseWithDelay"}
              \intersect client.loop = {}

\* In a disciplined program no assertion of TcpConnection, Channel,
\* EPollPoller or TcpServer fails, none of ~TcpConnection's either, and no
\* functor or handler runs on a destroyed connection.
NoAssertionFails == Disciplined => Running

\* Output is neither lost, duplicated nor reordered on its way through the
\* direct write, the buffer and handleWrite: what the kernel took and what
\* is buffered are together what sendInLoop accepted.
StreamIntact == wire \o outputBuffer_ = stream

\* While the connection of a disciplined program is open, the channel
\* watches for POLLOUT exactly when there is buffered output: output never
\* stalls, and an idle connection never spins on POLLOUT.
WritingIffBuffered ==
    (Disciplined /\ state_ \in Open)
        => ("write" \in events_ <=> outputBuffer_ # <<>>)

\* In a disciplined program shutdown() sends its FIN after all the output
\* that was buffered, and none is buffered after it.
FinAfterData == Disciplined => (wrShut => outputBuffer_ = <<>>)

\* A disciplined program's connectionCallback_ is called once with the
\* connection up, and once with the connection down as soon as it is down,
\* whichever of handleClose and connectDestroyed gets there first.
NotifiedOnce ==
    Disciplined =>
        /\ ups = (IF obj = "none" THEN 0 ELSE 1)
        /\ downs = (IF state_ = "kDisconnected" THEN 1 ELSE 0)

\* forceClose() ends with the connection out of the server's map and out of
\* the poller.
ForceCloseCompletes ==
    (\E i \in DOMAIN pending : pending[i].fn = "forceCloseInLoop")
        ~> (~inMap /\ index_ = "kNew")

\* shutdown() and forceCloseWithDelay() get somewhere: the write side is
\* shut down, or the connection is closed.
ShutdownCompletes ==
    (state_ = "kDisconnecting") ~> (wrShut \/ state_ = "kDisconnected")

\* A connection that is down is destroyed, unless user code keeps a pointer
\* to it: the library itself leaks no reference.
ClosedIsDestroyed ==
    (state_ = "kDisconnected")
        ~> [](obj = "destroyed" \/ userRef \/ threadRef)

\* assert(n == 1) in removeConnectionInLoop: a connection is removed once,
\* whatever the program does.
RemovedOnce == "TcpServer.cc:88" \notin violations
=============================================================================
