----------------------------- MODULE TcpServer -----------------------------
(***************************************************************************)
(* net/TcpServer and net/Acceptor: a server with several connections in    *)
(* one loop, and the process's table of descriptors.                       *)
(*                                                                         *)
(* Module TcpConnection follows one connection in detail.  Here a          *)
(* connection is up, half closed or down; what counts is who holds it:     *)
(* connections_, the functors that are bound to it, and the guard of the   *)
(* handler that runs.                                                      *)
(* setThreadNum has an empty body, so that the server's loop is the loop   *)
(* of every connection, and runInLoop in it is a plain call.               *)
(*                                                                         *)
(* pc says where the loop thread is: "poll"; "events", between two         *)
(* handlers; "msg", "up", "down", in the user's callback; "emfile1" and    *)
(* "emfile2", the calls of handleRead at the descriptor limit; "functors"; *)
(* "functor", in a functor of the user; "closing", in the user's callback  *)
(* from forceCloseInLoop.  Failing assertions and uses of a destroyed      *)
(* object are recorded, and the program stops.                             *)
(***************************************************************************)
EXTENDS Naturals, Sequences, FiniteSets

CONSTANTS MaxFds,       \* the process's descriptor limit
          MaxClients,   \* bound: clients that connect
          MaxPending,   \* bound: functors pending when the user adds one
          MaxErrors,    \* bound: accept errors and thefts of the spare descriptor
          MaxOthers     \* bound: files that other threads have open

ASSUME ServerAssumption ==
    /\ MaxFds \in Nat /\ MaxFds >= 3
    /\ {MaxClients, MaxPending, MaxErrors, MaxOthers} \subseteq Nat

VARIABLES
    careless,      \* the user destroys the server in a handler, too
    server,        \* the TcpServer exists
    started_, listening_,
    idleFd_,       \* "open", "closed" or "lost" (-1, open has failed)
    others,        \* descriptors of other threads
    arrived,       \* clients that have connected so far
    served,        \* those that have left the backlog
    nextConnId_,
    connections_,  \* ids in the map
    up,            \* connections that are kConnected or kDisconnecting
    disconnecting, \* those that are kDisconnecting
    registered,    \* connections whose channel the poller has
    active,        \* activeChannels_
    todo,          \* those still to be handled
    current,       \* currentActiveChannel_
    pending,       \* pendingFunctors_
    batch,         \* doPendingFunctors' vector
    done,          \* how many functors of it have been called
    pc, errors,
    aborted,       \* LOG_FATAL
    violations

vars == <<careless, server, started_, listening_, idleFd_, others, arrived,
          served, nextConnId_, connections_, up, disconnecting, registered,
          active, todo, current, pending, batch, done, pc, errors, aborted,
          violations>>

fdVars   == <<idleFd_, others, arrived, served, errors, aborted>>
stateVars == <<up, disconnecting>>
connVars == <<nextConnId_, connections_, stateVars, registered>>
loopVars == <<active, todo, current>>
funVars  == <<pending, batch, done>>
flagVars == <<careless, server, started_, listening_>>

Ids == 1..MaxClients
Acceptor == 0          \* the acceptor's channel
None == MaxClients + 1

Init ==
    /\ careless \in BOOLEAN
    /\ server = TRUE
    /\ started_ = FALSE /\ listening_ = FALSE
    /\ idleFd_ = "open"
    /\ others = 0 /\ arrived = 0 /\ served = 0 /\ nextConnId_ = 1
    /\ connections_ = {} /\ up = {} /\ disconnecting = {} /\ registered = {}
    /\ active = {} /\ todo = {} /\ current = None
    /\ pending = <<>> /\ batch = <<>> /\ done = 0
    /\ pc = "poll"
    /\ errors = 0
    /\ aborted = FALSE
    /\ violations = {}

-----------------------------------------------------------------------------

Bound(queue) == {queue[i].id : i \in DOMAIN queue}

\* The connections that somebody holds; the others are destroyed, and their
\* descriptors closed by ~Socket.
Held == connections_ \cup Bound(pending) \cup Bound(batch) \cup ({current} \cap Ids)

Free == MaxFds - Cardinality(Held \cap Ids) - others
               - (IF server THEN 1 ELSE 0) - (IF idleFd_ = "open" THEN 1 ELSE 0)

Backlog == arrived - served

Functor(fn, id) == [fn |-> fn, id |-> id]

EventHandling == pc \in {"events", "msg", "up", "down"}

InUserCode == pc \in {"msg", "up", "down", "functor", "closing"}

\* EventLoop::removeChannel's assertion for the channels in set.
RemoveAsserts(set) ==
    IF EventHandling /\ set \cap (active \ {current}) # {}
    THEN {"EventLoop.cc:176"} ELSE {}

-----------------------------------------------------------------------------
(* TcpServer *)

\* start() a second time does nothing; Acceptor::listen runs at once.
Start ==
    /\ server
    /\ pc \in {"poll", "functor"}
    /\ ~started_
    /\ started_' = TRUE
    /\ listening_' = TRUE
    /\ UNCHANGED <<careless, server, fdVars, connVars, loopVars, funVars, pc,
                   violations>>

\* A connection becomes kDisconnected.
GoesDown(id) == up' = up \ {id} /\ disconnecting' = disconnecting \ {id}

\* newConnection in the acceptor's handler, with the new descriptor: the
\* user's callback follows in connectEstablished.
NewConnection ==
    /\ nextConnId_' = nextConnId_ + 1
    /\ connections_' = connections_ \cup {nextConnId_}
    /\ up' = up \cup {nextConnId_}
    /\ registered' = registered \cup {nextConnId_}
    /\ pc' = "up"
    /\ current' = Acceptor
    /\ UNCHANGED disconnecting

\* connectDestroyed is never queued.
RemoveConnection_NoDestroy(id) ==
    /\ connections_' = connections_ \ {id}
    /\ violations' = violations
          \cup (IF server /\ id \in connections_ THEN {} ELSE {"TcpServer.cc:88"})
    /\ UNCHANGED <<pending, registered>>

\* removeConnectionInLoop: erase, and connectDestroyed later.
RemoveConnection(id) ==
    /\ connections_' = connections_ \ {id}
    /\ pending' = Append(pending, Functor("connectDestroyed", id))
    /\ violations' = violations
          \cup (IF server /\ id \in connections_ THEN {} ELSE {"TcpServer.cc:88"})
    /\ UNCHANGED registered

\* ~TcpServer with ~Acceptor: connectDestroyed for every connection.  It
\* disables the channel of one that is kConnected, and one that is
\* kDisconnected has been disabled; the assertion in Channel::remove fails
\* for one that is kDisconnecting.
DestroyServer ==
    /\ server
    /\ InUserCode
    /\ pc = "functor" \/ careless
    /\ server' = FALSE
    /\ listening_' = FALSE
    /\ idleFd_' = "closed"
    /\ connections_' = {}
    /\ LET half == connections_ \cap disconnecting
           gone == connections_ \ half
       IN  /\ up' = up \ gone
           /\ registered' = registered \ gone
           /\ violations' = violations \cup RemoveAsserts(gone \cup {Acceptor})
                 \cup (IF half = {} THEN {} ELSE {"Channel.cc:41"})
    /\ UNCHANGED <<careless, started_, others, arrived, served, errors, aborted,
                   nextConnId_, disconnecting, loopVars, funVars, pc>>

\* TcpConnection::shutdown, from the user's code; shutdownInLoop runs at once.
\* forceCloseWithDelay changes the state in the same way, and its timer calls
\* forceClose later.
Shutdown(id) ==
    /\ InUserCode
    /\ id \in up \ disconnecting
    /\ disconnecting' = disconnecting \cup {id}
    /\ UNCHANGED <<flagVars, fdVars, nextConnId_, connections_, up, registered,
                   loopVars, funVars, pc, violations>>

\* The connection is closed and destroyed in the middle of the round.
ForceClose_AtOnce(id) ==
    /\ InUserCode
    /\ id \in up
    /\ GoesDown(id)
    /\ connections_' = connections_ \ {id}
    /\ registered' = registered \ {id}
    /\ violations' = violations \cup RemoveAsserts({id})
    /\ UNCHANGED <<flagVars, fdVars, nextConnId_, loopVars, funVars, pc>>

\* TcpConnection::forceClose, from the user's code.
ForceClose(id) ==
    /\ InUserCode
    /\ id \in up
    /\ Len(pending) < MaxPending
    /\ disconnecting' = disconnecting \cup {id}
    /\ pending' = Append(pending, Functor("forceCloseInLoop", id))
    /\ UNCHANGED <<flagVars, fdVars, nextConnId_, connections_, up, registered,
                   loopVars, batch, done, pc, violations>>

\* Another thread queues a functor of the user.
QueueUserFunctor ==
    /\ Len(pending) < MaxPending
    /\ pending' = Append(pending, Functor("user", None))
    /\ UNCHANGED <<flagVars, fdVars, connVars, loopVars, batch, done, pc, violations>>

-----------------------------------------------------------------------------
(* The loop *)

\* poll returns the acceptor's channel while the backlog is not empty, and
\* the connections on which something has happened.
Poll ==
    /\ pc = "poll"
    /\ \E set \in SUBSET (up \cap registered) :
          active' = set \cup (IF listening_ /\ Backlog > 0 THEN {Acceptor} ELSE {})
    /\ todo' = active'
    /\ pc' = "events"
    /\ UNCHANGED <<flagVars, fdVars, connVars, funVars, current, violations>>

\* A connection's handler: a message, or the end of the connection, whose
\* callback comes before closeCallback_.
HandleConnection(id) ==
    /\ pc = "events"
    /\ id \in todo \cap Ids
    /\ todo' = todo \ {id}
    /\ IF id \notin Held
       THEN /\ violations' = violations \cup {"use after free"}
            /\ UNCHANGED <<current, stateVars, pc>>
       ELSE /\ current' = id
            /\ \/ pc' = "msg" /\ UNCHANGED stateVars
               \/ pc' = "down" /\ GoesDown(id)
            /\ UNCHANGED violations
    /\ UNCHANGED <<flagVars, fdVars, nextConnId_, connections_, registered,
                   active, funVars>>

\* The callback returns, and with it the handler.
EndCallback ==
    /\ pc \in {"msg", "up", "down"}
    /\ IF pc = "down" THEN RemoveConnection(current)
       ELSE UNCHANGED <<connections_, registered, pending, violations>>
    /\ pc' = "events"
    /\ current' = None
    /\ UNCHANGED <<flagVars, fdVars, nextConnId_, stateVars, active, todo, batch,
                   done>>

EndEvents ==
    /\ pc = "events"
    /\ todo = {}
    /\ batch' = pending
    /\ pending' = <<>>
    /\ pc' = "functors"
    /\ active' = {}
    /\ UNCHANGED <<flagVars, fdVars, connVars, todo, current, done,
                   violations>>

\* One functor of the batch; the vector keeps what it has bound until the
\* whole batch has run.
RunFunctor ==
    /\ pc = "functors"
    /\ done < Len(batch)
    /\ done' = done + 1
    /\ LET f == batch[done + 1] IN
          \/ /\ f.fn = "user"
             /\ pc' = "functor"
             /\ UNCHANGED <<connections_, stateVars, registered, pending, violations>>
          \/ /\ f.fn = "connectDestroyed"
             /\ registered' = registered \ {f.id}
             /\ UNCHANGED <<connections_, stateVars, pending, violations, pc>>
          \/ /\ f.fn = "forceCloseInLoop"
             /\ IF f.id \in up
                THEN GoesDown(f.id) /\ pc' = "closing"
                ELSE UNCHANGED <<stateVars, pc>>
             /\ UNCHANGED <<connections_, registered, pending, violations>>
    /\ UNCHANGED <<flagVars, fdVars, nextConnId_, loopVars, batch>>

\* handleClose in forceCloseInLoop goes on when the user's callback returns.
EndClosing ==
    /\ pc = "closing"
    /\ RemoveConnection(batch[done].id)
    /\ pc' = "functors"
    /\ UNCHANGED <<flagVars, fdVars, nextConnId_, stateVars, loopVars, batch, done>>

EndFunctor ==
    /\ pc = "functor"
    /\ pc' = "functors"
    /\ UNCHANGED <<flagVars, fdVars, connVars, loopVars, funVars, violations>>

EndFunctors ==
    /\ pc = "functors"
    /\ done = Len(batch)
    /\ batch' = <<>>
    /\ done' = 0
    /\ pc' = "poll"
    /\ UNCHANGED <<flagVars, fdVars, connVars, loopVars, pending, violations>>

-----------------------------------------------------------------------------
(* Acceptor::handleRead and sockets::accept *)

AtAcceptor == pc = "events" /\ Acceptor \in todo /\ todo' = todo \ {Acceptor}

Accept ==
    /\ AtAcceptor
    /\ Backlog > 0
    /\ Free > 0
    /\ served' = served + 1
    /\ NewConnection
    /\ UNCHANGED <<flagVars, idleFd_, others, arrived, errors, aborted, active,
                   funVars, violations>>

\* Errors that accept only reports: nothing has happened, or the client has
\* gone (ECONNABORTED).  The first also stands for an EMFILE that handleRead
\* does not see, because LOG_SYSERR has changed errno (Acceptor.cc:55).
AcceptTransient ==
    /\ AtAcceptor
    /\ errors < MaxErrors
    /\ errors' = errors + 1
    /\ served' \in {served, served + 1}
    /\ served' <= arrived
    /\ UNCHANGED <<flagVars, idleFd_, others, arrived, aborted, connVars, active,
                   current, funVars, pc, violations>>

\* Errors that accept takes for fatal, ENFILE and ENOBUFS among them.
AcceptFatal ==
    /\ AtAcceptor
    /\ errors < MaxErrors
    /\ errors' = errors + 1
    /\ aborted' = TRUE
    /\ UNCHANGED <<flagVars, idleFd_, others, arrived, served, connVars, active,
                   current, funVars, pc, violations>>

\* The limit is only reported.
AcceptAtLimit_OnlyLogs ==
    /\ AtAcceptor
    /\ Backlog > 0
    /\ Free = 0
    /\ UNCHANGED <<flagVars, fdVars, connVars, active, current, funVars, pc,
                   violations>>

\* EMFILE: the spare descriptor is closed ...
AcceptAtLimit ==
    /\ AtAcceptor
    /\ Backlog > 0
    /\ Free = 0
    /\ idleFd_' = IF idleFd_ = "open" THEN "closed" ELSE idleFd_
    /\ pc' = "emfile1"
    /\ UNCHANGED <<flagVars, others, arrived, served, errors, aborted, connVars,
                   active, current, funVars, violations>>

\* ... used to accept the client, if no other thread has taken it ...
AcceptAndClose ==
    /\ pc = "emfile1"
    /\ served' = IF Free > 0 /\ Backlog > 0 THEN served + 1 ELSE served
    /\ pc' = "emfile2"
    /\ UNCHANGED <<flagVars, idleFd_, others, arrived, errors, aborted, connVars,
                   loopVars, funVars, violations>>

\* ... and, the client's descriptor being closed, opened again.
ReopenIdle ==
    /\ pc = "emfile2"
    /\ idleFd_' = IF Free > 0 THEN "open" ELSE "lost"
    /\ pc' = "events"
    /\ UNCHANGED <<flagVars, others, arrived, served, errors, aborted, connVars,
                   loopVars, funVars, violations>>

-----------------------------------------------------------------------------
(* The environment *)

ClientConnects ==
    /\ arrived < MaxClients
    /\ arrived' = arrived + 1
    /\ UNCHANGED <<flagVars, idleFd_, others, served, errors, aborted, connVars,
                   loopVars, funVars, pc, violations>>

\* In the middle of handleRead it takes the spare descriptor.
OtherOpens ==
    /\ others < MaxOthers
    /\ Free > 0
    /\ others' = others + 1
    /\ IF pc \in {"emfile1", "emfile2"}
       THEN errors < MaxErrors /\ errors' = errors + 1
       ELSE UNCHANGED errors
    /\ UNCHANGED <<flagVars, idleFd_, arrived, served, aborted, connVars, loopVars,
                   funVars, pc, violations>>

OtherCloses ==
    /\ others > 0
    /\ others' = others - 1
    /\ UNCHANGED <<flagVars, idleFd_, arrived, served, errors, aborted, connVars,
                   loopVars, funVars, pc, violations>>

LoopStep ==
    \/ Poll
    \/ \E id \in Ids : HandleConnection(id)
    \/ Accept \/ AcceptAtLimit \/ AcceptAndClose \/ ReopenIdle
    \/ EndCallback \/ EndEvents
    \/ RunFunctor \/ EndClosing \/ EndFunctor \/ EndFunctors

Running == violations = {} /\ ~aborted

Next ==
    /\ Running
    /\ \/ LoopStep
       \/ AcceptTransient \/ AcceptFatal
       \/ Start \/ DestroyServer \/ QueueUserFunctor
       \/ \E id \in Ids : Shutdown(id) \/ ForceClose(id)
       \/ ClientConnects \/ OtherOpens \/ OtherCloses

Spec == Init /\ [][Next]_vars

\* The loop thread is scheduled, and callbacks return.
Fairness == WF_vars(Running /\ LoopStep)

FairSpec == Spec /\ Fairness

-----------------------------------------------------------------------------
(* Properties *)

\* Whatever is closed in whatever handler of a round, a channel that is still
\* to be handled belongs to a connection that is alive, no channel that poll
\* has reported is removed before the round ends (EventLoop.cc:176), and
\* removeConnectionInLoop finds its connection (TcpServer.cc:88).  One
\* assertion does fail, Channel.cc:41, and only when the server is destroyed
\* while a connection of it is kDisconnecting.  A server that is destroyed in
\* a handler breaks the rest as well.
RoundIsSafe ==
    ~careless =>
        /\ violations \subseteq {"Channel.cc:41"}
        /\ violations # {} => ~server /\ disconnecting # {}
        /\ pc = "events" => todo \cap Ids \subseteq Held

\* Nothing leaks and nothing is lost: between two rounds the connections that
\* are alive are those in connections_, all of them up and registered, and
\* the descriptors stay within the limit.
NothingLeaks ==
    (~careless /\ Running) =>
        /\ Free >= 0
        /\ up \subseteq registered
        /\ (pc = "poll" /\ pending = <<>>) =>
              Held = connections_ /\ connections_ = up /\ up = registered

\* Every client that connects to a listening server leaves the backlog, also
\* at the descriptor limit, where it is accepted only to be closed: the
\* loop does not spin on a client it cannot accept, unless another thread has
\* taken the spare descriptor for good.
ClientIsServed ==
    \A n \in Ids :
        (listening_ /\ arrived >= n)
            ~> (served >= n \/ ~Running \/ ~server \/ idleFd_ = "lost")
=============================================================================
