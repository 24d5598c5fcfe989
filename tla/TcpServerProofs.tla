-------------------------- MODULE TcpServerProofs --------------------------
(***************************************************************************)
(* Proofs about TcpServer, for any number of clients, descriptors, errors  *)
(* and functors: in a program that does not destroy the server inside a    *)
(* handler, no round of the loop touches a connection that is gone, and    *)
(* between two rounds nothing is left of the connections that have closed. *)
(***************************************************************************)
EXTENDS TcpServer, SequenceTheorems, FiniteSetTheorems, TLAPS

FunctorType == [fn : {"user", "connectDestroyed", "forceCloseInLoop"}, id : Nat]

Round == {"events", "msg", "up", "down", "emfile1", "emfile2"}

Typed ==
    /\ server \in BOOLEAN /\ listening_ \in BOOLEAN
    /\ idleFd_ \in {"open", "closed", "lost"}
    /\ others \in Nat /\ arrived \in 0..MaxClients /\ served \in 0..arrived
    /\ nextConnId_ \in 1..served + 1
    /\ connections_ \subseteq 1..nextConnId_ - 1
    /\ up \subseteq 1..nextConnId_ - 1
    /\ registered \subseteq 1..nextConnId_ - 1
    /\ todo \subseteq 0..nextConnId_ - 1
    /\ current \in 0..nextConnId_ - 1 \union {None}
    /\ pending \in Seq(FunctorType) /\ batch \in Seq(FunctorType)
    /\ done \in 0..Len(batch)
    /\ pc \in Round \union {"poll", "functors", "functor", "closing"}

\* Where the loop thread is: a handler's connection is guarded, the batch is
\* kept while its functors run, and nothing is left to handle by then.
Placed ==
    /\ current \in Ids <=> pc \in {"msg", "down"}
    /\ pc \in Round \union {"poll"} => batch = <<>> /\ done = 0
    /\ pc \notin Round => todo = {}
    /\ pc = "closing" => done >= 1

\* The connection that handleClose has taken down, while the user is told.
Closing == IF pc = "down" THEN {current}
           ELSE IF pc = "closing" THEN {batch[done].id} ELSE {}

\* A functor of a queue, from a position on, runs connectDestroyed for id.
Destroys(queue, from, id) ==
    \E i \in from..Len(queue) :
        queue[i].fn = "connectDestroyed" /\ queue[i].id = id

\* The functors of a queue, from a position on, are bound to connections with
\* an id below next, and connectDestroyed to none of those in set.
Harmless(queue, from, next, set) ==
    \A i \in from..Len(queue) :
        queue[i].fn # "user" =>
            /\ queue[i].id < next
            /\ queue[i].fn = "connectDestroyed" => queue[i].id \notin set

\* The connections are up or closing, or removed with connectDestroyed
\* queued; what is still to be handled in the round is up.
Accounted ==
    /\ violations = {}
    /\ up \subseteq registered
    /\ connections_ = up \union Closing /\ up \intersect Closing = {}
    /\ ~server => connections_ = {} /\ ~listening_
    /\ todo \intersect Ids \subseteq up
    /\ Acceptor \in todo => server
    /\ \A id \in registered \ connections_ :
          Destroys(pending, 1, id) \/ Destroys(batch, done + 1, id)
    /\ Harmless(pending, 1, nextConnId_, up)
    /\ Harmless(batch, done + 1, nextConnId_, up)

InBounds == Free >= 0

\* The server was destroyed while a connection of it was kDisconnecting: the
\* program has stopped at the assertion of Channel::remove.
Stopped ==
    /\ violations = {"Channel.cc:41"}
    /\ ~server /\ disconnecting # {}
    /\ pc = "functor"

IInv == ~careless => Stopped \/ (Typed /\ Placed /\ Accounted /\ InBounds)

-----------------------------------------------------------------------------
(* Queues and descriptors *)

LEMMA QueueGrows ==
    ASSUME NEW queue \in Seq(FunctorType), NEW f \in FunctorType
    PROVE  LET longer == Append(queue, f)
           IN  /\ longer \in Seq(FunctorType)
               /\ Bound(longer) = Bound(queue) \union {f.id}
               /\ \A id : Destroys(queue, 1, id) => Destroys(longer, 1, id)
               /\ f.fn = "connectDestroyed" => Destroys(longer, 1, f.id)
               /\ \A next, set :
                     /\ Harmless(queue, 1, next, set)
                     /\ f.fn # "user" =>
                           /\ f.id < next
                           /\ f.fn = "connectDestroyed" => f.id \notin set
                     => Harmless(longer, 1, next, set)
<1> DEFINE longer == Append(queue, f)
<1>1. /\ Len(longer) = Len(queue) + 1 /\ Len(queue) \in Nat
      /\ \A i \in 1..Len(queue) : longer[i] = queue[i]
      /\ longer[Len(queue) + 1] = f /\ longer \in Seq(FunctorType)
      /\ DOMAIN longer = 1..Len(longer) /\ DOMAIN queue = 1..Len(queue)
  OBVIOUS
<1> HIDE DEF longer
<1>2. Bound(longer) = Bound(queue) \union {f.id}
  BY <1>1 DEF Bound
<1>3. \A id : Destroys(queue, 1, id) => Destroys(longer, 1, id)
  BY <1>1 DEF Destroys
<1>4. f.fn = "connectDestroyed" => Destroys(longer, 1, f.id)
  BY <1>1 DEF Destroys
<1>5. ASSUME NEW next, NEW set, Harmless(queue, 1, next, set),
             f.fn # "user" => /\ f.id < next
                              /\ f.fn = "connectDestroyed" => f.id \notin set
      PROVE  Harmless(longer, 1, next, set)
  BY <1>1, <1>5 DEF Harmless
<1> QED  BY <1>1, <1>2, <1>3, <1>4, <1>5 DEF longer

LEMMA NothingQueued ==
    /\ <<>> \in Seq(FunctorType) /\ Bound(<<>>) = {} /\ Len(<<>>) = 0
    /\ \A n \in Nat \ {0} : /\ \A id : ~Destroys(<<>>, n, id)
                            /\ \A next, set : Harmless(<<>>, n, next, set)
  BY DEF Bound, Destroys, Harmless

\* One functor of the batch is called.
LEMMA BatchAdvances ==
    ASSUME NEW queue \in Seq(FunctorType), NEW n \in Nat, n < Len(queue),
           NEW next, NEW set, Harmless(queue, n + 1, next, set)
    PROVE  /\ n + 1 \in 0..Len(queue) /\ queue[n + 1] \in FunctorType
           /\ queue[n + 1].id \in Bound(queue)
           /\ Harmless(queue, n + 1 + 1, next, set)
           /\ queue[n + 1].fn # "user" =>
                 /\ queue[n + 1].id < next
                 /\ queue[n + 1].fn = "connectDestroyed"
                       => queue[n + 1].id \notin set
           /\ \A id : Destroys(queue, n + 1, id) =>
                 \/ Destroys(queue, n + 1 + 1, id)
                 \/ queue[n + 1].fn = "connectDestroyed" /\ id = queue[n + 1].id
<1>1. Len(queue) \in Nat /\ n + 1 \in 1..Len(queue)
  BY LenProperties
<1> QED  BY <1>1 DEF Bound, Harmless, Destroys

LEMMA BatchEnds ==
    ASSUME NEW queue \in Seq(FunctorType), NEW id
    PROVE  ~Destroys(queue, Len(queue) + 1, id)
  BY LenProperties DEF Destroys

\* Functors stay harmless as connections come and go.
LEMMA HarmlessWeakens ==
    ASSUME NEW queue \in Seq(FunctorType), NEW from \in Nat \ {0},
           NEW n \in Nat, NEW m \in Nat, n <= m, NEW set, NEW other,
           Harmless(queue, from, n, set),
           \A id \in other : id \in set \/ id >= n
    PROVE  Harmless(queue, from, m, other)
<1>1. \A i \in from..Len(queue) : queue[i].id \in Nat
  <2> SUFFICES ASSUME NEW i \in from..Len(queue) PROVE queue[i].id \in Nat
    OBVIOUS
  <2>1. i \in 1..Len(queue)
    BY LenProperties
  <2>2. queue[i] \in FunctorType
    BY <2>1
  <2> QED  BY <2>2 DEF FunctorType
<1> QED  BY <1>1, LenProperties DEF Harmless

LEMMA Alive ==
    /\ IsFiniteSet(Held \cap Ids) /\ Cardinality(Held \cap Ids) \in Nat
    /\ IsFiniteSet((Held \cap Ids)') /\ Cardinality((Held \cap Ids)') \in Nat
<1>1. IsFiniteSet(Ids)
  BY FS_Interval, ServerAssumption DEF Ids
<1>2. IsFiniteSet(Held \cap Ids) /\ IsFiniteSet((Held \cap Ids)')
  BY <1>1, FS_Subset DEF Ids
<1> QED  BY <1>2, FS_CardinalityType

\* What gives nothing new a descriptor leaves the limit in place.
LEMMA StaysInBounds ==
    ASSUME InBounds, (Held \cap Ids)' \subseteq Held \cap Ids,
           others \in Nat, others' \in Nat, others' <= others,
           server' => server, idleFd_' = "open" => idleFd_ = "open"
    PROVE  InBounds'
<1>1. Cardinality((Held \cap Ids)') <= Cardinality(Held \cap Ids)
  BY Alive, FS_Subset
<1> QED
  BY <1>1, Alive, ServerAssumption DEF InBounds, Free

LEMMA RangeGrows ==
    ASSUME NEW a \in Nat, NEW b \in Nat, b >= a, NEW n \in 1..a + 1
    PROVE  n \in 1..b + 1
  OBVIOUS

\* Ids that have been given are ids, and neither 0 nor None is.
LEMMA GivenIds ==
    ASSUME Typed
    PROVE  /\ 1..nextConnId_ - 1 \subseteq Ids /\ nextConnId_ \in Nat \ {0}
           /\ Acceptor \notin Ids /\ None \notin Ids /\ None \in Nat
           /\ Acceptor \in 0..nextConnId_ - 1
           /\ None \notin 0..nextConnId_ - 1
           /\ up \subseteq Ids /\ connections_ \subseteq Ids
           /\ served < arrived => nextConnId_ \in Ids
  BY ServerAssumption DEF Typed, Ids, None, Acceptor

-----------------------------------------------------------------------------
(* Steps *)

LEMMA InitIInv == Init => IInv
<1> SUFFICES ASSUME Init PROVE Typed /\ Placed /\ Accounted /\ InBounds
  BY DEF IInv
<1>1. Typed
  <2>1. /\ 0 \in 0..MaxClients /\ 0 \in 0..0 /\ 1 \in 1..0 + 1
        /\ pending = <<>> /\ batch = <<>> /\ done \in 0..Len(batch)
    BY ServerAssumption, NothingQueued DEF Init
  <2> QED  BY <2>1, NothingQueued DEF Init, Typed
<1>a. Placed
  BY ServerAssumption DEF Init, Placed, Round, Ids, None
<1>2. Accounted
  BY NothingQueued DEF Init, Accounted, Closing
<1>3. InBounds
  <2>1. Held \cap Ids = {}
    BY NothingQueued, ServerAssumption DEF Init, Held, Ids, None
  <2>2. Cardinality(Held \cap Ids) = 0
    BY <2>1, FS_EmptySet
  <2> QED  BY <2>2, ServerAssumption DEF Init, InBounds, Free
<1> QED  BY <1>1, <1>a, <1>2, <1>3

\* Steps that concern neither connections nor functors.
LEMMA OtherStepIInv ==
    ASSUME ~careless, Typed, Placed, Accounted, Typed', InBounds',
           UNCHANGED <<connVars, funVars, current, violations>>,
           server' = server, listening_' => listening_ \/ server,
           pc' = pc \/ pc \in {"events", "emfile1", "emfile2"},
           pc' = pc \/ pc' \in {"events", "emfile1", "emfile2"},
           todo' \subseteq todo, careless' = careless
    PROVE  IInv'
<1> USE DEF connVars, stateVars, funVars
<1>1. Placed'
  BY DEF Placed, Round, Typed
<1>2. Closing' = Closing
  BY DEF Closing
<1>3. Accounted'
  BY <1>2 DEF Accounted, Typed
<1> QED  BY <1>1, <1>3 DEF IInv

LEMMA AcceptorIInv ==
    ASSUME ~careless, Typed, Placed, Accounted, InBounds, careless' = careless,
           \/ AcceptTransient \/ AcceptFatal \/ AcceptAtLimit \/ AcceptAndClose
           \/ ReopenIdle \/ ClientConnects \/ OtherOpens \/ OtherCloses \/ Start
    PROVE  IInv'
<1> USE DEF connVars, stateVars, funVars, loopVars, fdVars, flagVars
<1>1. /\ UNCHANGED <<connVars, funVars, current, violations, server>>
      /\ pc' = pc \/ pc \in {"events", "emfile1", "emfile2"}
      /\ pc' = pc \/ pc' \in {"events", "emfile1", "emfile2"}
      /\ todo' \subseteq todo
      /\ \/ UNCHANGED listening_
         \/ server /\ listening_' = TRUE
  BY DEF AcceptTransient, AcceptFatal, AcceptAtLimit, AcceptAndClose, ReopenIdle,
         ClientConnects, OtherOpens, OtherCloses, Start, AtAcceptor, Typed
<1>2. /\ idleFd_' \in {"open", "closed", "lost"}
      /\ others' \in Nat /\ arrived' \in 0..MaxClients /\ served' \in 0..arrived'
      /\ served' >= served
  <2>1. /\ Backlog > 0 => served < arrived
        /\ arrived \in Nat /\ served \in Nat /\ served <= arrived
        /\ arrived <= MaxClients /\ others \in Nat /\ MaxClients \in Nat
        /\ idleFd_ \in {"open", "closed", "lost"}
    BY ServerAssumption DEF Backlog, Typed
  <2>2. CASE UNCHANGED <<arrived, served>>
    BY <2>1, <2>2
       DEF AcceptTransient, AcceptFatal, AcceptAtLimit, AcceptAndClose, ReopenIdle,
           ClientConnects, OtherOpens, OtherCloses, Start
  <2>3. CASE AcceptTransient
    BY <2>1, <2>3 DEF AcceptTransient
  <2>4. CASE AcceptAndClose
    BY <2>1, <2>4 DEF AcceptAndClose
  <2>5. CASE ClientConnects
    BY <2>1, <2>5 DEF ClientConnects
  <2> QED
    BY <2>2, <2>3, <2>4, <2>5
       DEF AcceptFatal, AcceptAtLimit, ReopenIdle, OtherOpens, OtherCloses, Start
<1>3. Typed'
  <2>1. server' \in BOOLEAN /\ listening_' \in BOOLEAN
    BY <1>1, Zenon DEF Typed
  <2>2. nextConnId_' \in 1..served' + 1
    <3>1. /\ nextConnId_ \in 1..served + 1 /\ served \in Nat /\ served' \in Nat
          /\ nextConnId_' = nextConnId_ /\ served' >= served
      BY <1>1, <1>2 DEF Typed
    <3> QED  BY <3>1, RangeGrows
  <2>3. pc' \in Round \union {"poll", "functors", "functor", "closing"}
    BY <1>1 DEF Typed, Round
  <2>4. todo' \subseteq 0..nextConnId_' - 1
    BY <1>1 DEF Typed
  <2> QED  BY <1>1, <1>2, <2>1, <2>2, <2>3, <2>4 DEF Typed
<1>4. InBounds'
  <2>1. Held' = Held
    BY <1>1 DEF Held
  <2>2. Cardinality(Held \cap Ids) \in Nat
    BY Alive
  <2>3. CASE others' = others /\ (idleFd_' = "open" => idleFd_ = "open")
    BY <1>1, <1>2, <2>1, <2>3, StaysInBounds DEF Typed
  <2>4. CASE OtherCloses
    BY <1>1, <1>2, <2>1, <2>4, StaysInBounds DEF Typed, OtherCloses
  <2>5. CASE OtherOpens
    BY <1>1, <2>1, <2>2, <2>5, ServerAssumption, SMTT(60) DEF OtherOpens, InBounds, Free, Typed
  <2>6. CASE ReopenIdle
    BY <1>1, <2>1, <2>2, <2>6, ServerAssumption, SMTT(60) DEF ReopenIdle, InBounds, Free, Typed
  <2> QED
    BY <2>3, <2>4, <2>5, <2>6
       DEF AcceptTransient, AcceptFatal, AcceptAtLimit, AcceptAndClose,
           ClientConnects, Start
<1> QED  BY <1>1, <1>3, <1>4, OtherStepIInv

\* A functor is queued from the user's code or by another thread.
LEMMA QueueIInv ==
    ASSUME ~careless, Typed, Placed, Accounted, InBounds, careless' = careless,
           QueueUserFunctor \/ \E id \in Ids : ForceClose(id)
    PROVE  IInv'
<1> USE GivenIds
<1>1. PICK f \in FunctorType :
         /\ pending' = Append(pending, f)
         /\ \/ f.fn = "user" /\ f.id = None
            \/ f.fn = "forceCloseInLoop" /\ f.id \in up
  <2>1. CASE QueueUserFunctor
    <3> DEFINE f == [fn |-> "user", id |-> None]
    <3>1. f \in FunctorType /\ f.fn = "user" /\ f.id = None
      BY DEF FunctorType
    <3>2. pending' = Append(pending, f)
      BY <2>1 DEF QueueUserFunctor, Functor
    <3> HIDE DEF f
    <3> QED  BY <3>1, <3>2
  <2>2. ASSUME NEW id \in Ids, ForceClose(id)
        PROVE  /\ Functor("forceCloseInLoop", id) \in FunctorType
               /\ pending' = Append(pending, Functor("forceCloseInLoop", id))
               /\ id \in up
    BY <2>2, ServerAssumption DEF ForceClose, Functor, FunctorType, Ids
  <2> QED  BY <2>1, <2>2 DEF Functor
<1>2. UNCHANGED <<flagVars, fdVars, nextConnId_, connections_, up, registered,
                  loopVars, batch, done, pc, violations>>
  BY DEF QueueUserFunctor, ForceClose, connVars, stateVars
<1> USE <1>2 DEF flagVars, fdVars, loopVars
<1>3. /\ pending' \in Seq(FunctorType)
      /\ Bound(pending') = Bound(pending) \union {f.id}
      /\ \A id : Destroys(pending, 1, id) => Destroys(pending', 1, id)
      /\ Harmless(pending', 1, nextConnId_, up)
  BY <1>1, QueueGrows, SMTT(60) DEF Typed, Accounted
<1>4. Typed' /\ Placed'
  BY <1>3 DEF Typed, Placed
<1>5. Accounted'
  <2>1. Closing' = Closing
    BY DEF Closing
  <2> QED  BY <1>3, <2>1 DEF Accounted
<1>6. InBounds'
  <2>1. (Held \cap Ids)' \subseteq Held \cap Ids
    BY <1>1, <1>3 DEF Held, Accounted
  <2> QED  BY <2>1, StaysInBounds DEF Typed
<1> QED  BY <1>4, <1>5, <1>6 DEF IInv

\* A connection is half closed.
LEMMA ShutdownIInv ==
    ASSUME ~careless, Typed, Placed, Accounted, InBounds, careless' = careless,
           NEW id \in Ids, Shutdown(id)
    PROVE  IInv'
<1>1. UNCHANGED <<server, listening_, fdVars, nextConnId_, connections_, up,
                  registered, loopVars, funVars, pc, violations>>
  BY DEF Shutdown, flagVars
<1> USE <1>1 DEF fdVars, loopVars, funVars
<1>2. Typed' /\ Placed' /\ Held' = Held /\ Closing' = Closing
  BY DEF Typed, Placed, Held, Closing
<1>3. Accounted'
  BY <1>2 DEF Accounted
<1>4. InBounds'
  BY <1>2, StaysInBounds DEF Typed
<1> QED  BY <1>2, <1>3, <1>4 DEF IInv

\* A round begins, and each of its handlers.
LEMMA PollIInv ==
    ASSUME ~careless, Typed, Placed, Accounted, InBounds, careless' = careless,
           Poll
    PROVE  IInv'
<1> USE GivenIds
<1> USE DEF flagVars, fdVars, connVars, stateVars, funVars
<1>1. /\ pc = "poll" /\ pc' = "events"
      /\ UNCHANGED <<flagVars, fdVars, connVars, funVars, current, violations>>
  BY DEF Poll
<1>2. /\ todo' \intersect Ids \subseteq up
      /\ Acceptor \in todo' => listening_
      /\ todo' \subseteq up \union {Acceptor}
  BY DEF Poll
<1>3. Typed'
  BY <1>1, <1>2 DEF Typed, Round, Acceptor
<1>4. Placed'
  BY <1>1 DEF Placed, Round
<1>5. Closing' = Closing
  BY <1>1 DEF Closing
<1>6. Accounted'
  BY <1>1, <1>2, <1>5 DEF Accounted
<1>7. InBounds'
  <2>1. Held' = Held
    BY <1>1 DEF Held
  <2> QED  BY <1>1, <2>1, StaysInBounds DEF Typed
<1> QED  BY <1>3, <1>4, <1>6, <1>7 DEF IInv

LEMMA HandleIInv ==
    ASSUME ~careless, Typed, Placed, Accounted, InBounds, careless' = careless,
           NEW id \in Ids, HandleConnection(id)
    PROVE  IInv'
<1> USE GivenIds
<1> USE DEF flagVars, fdVars, connVars, stateVars, funVars
<1>1. id \in up /\ id \in connections_ /\ id \in Held
  BY DEF HandleConnection, Accounted, Held
<1>2. /\ pc = "events" /\ todo' = todo \ {id} /\ current' = id
      /\ pc' \in {"msg", "down"}
      /\ up' = IF pc' = "down" THEN up \ {id} ELSE up
      /\ UNCHANGED <<flagVars, fdVars, nextConnId_, connections_, registered,
                     funVars, violations>>
  BY <1>1 DEF HandleConnection, GoesDown
<1>3. Typed'
  BY <1>1, <1>2 DEF Typed, Round
<1>4. Placed'
  BY <1>2 DEF Placed, Round
<1>5. Accounted'
  <2>1. Closing = {} /\ Closing' = IF pc' = "down" THEN {id} ELSE {}
    BY <1>2 DEF Closing
  <2>2. /\ Harmless(pending', 1, nextConnId_', up')
        /\ Harmless(batch', done' + 1, nextConnId_', up')
    <3>1. up' \subseteq up /\ done + 1 \in Nat \ {0}
      BY <1>2 DEF Typed
    <3> QED  BY <1>2, <3>1, HarmlessWeakens DEF Accounted, Typed
  <2> QED  BY <1>1, <1>2, <2>1, <2>2 DEF Accounted
<1>6. InBounds'
  <2>1. (Held \cap Ids)' \subseteq Held \cap Ids
    BY <1>1, <1>2 DEF Held
  <2> QED  BY <1>2, <2>1, StaysInBounds DEF Typed
<1> QED  BY <1>3, <1>4, <1>5, <1>6 DEF IInv

\* A handler's callback returns; handleClose goes on with removeConnection.
LEMMA EndCallbackIInv ==
    ASSUME ~careless, Typed, Placed, Accounted, InBounds, careless' = careless,
           EndCallback
    PROVE  IInv'
<1> USE GivenIds
<1> USE DEF flagVars, fdVars
<1>1. /\ pc \in {"msg", "up", "down"} /\ pc' = "events" /\ current' = None
      /\ UNCHANGED <<flagVars, fdVars, nextConnId_, up, todo, batch, done>>
      /\ batch = <<>> /\ done = 0
  BY DEF EndCallback, Placed, Round, stateVars
<1>2. CASE pc # "down"
  <2>1. UNCHANGED <<connections_, registered, pending, violations>>
    BY <1>2 DEF EndCallback
  <2>2. Closing = {} /\ Closing' = {}
    BY <1>1, <1>2 DEF Closing
  <2>3. Typed' /\ Placed'
    BY <1>1, <2>1 DEF Typed, Placed, Round
  <2>4. Accounted'
    BY <1>1, <2>1, <2>2 DEF Accounted
  <2>5. (Held \cap Ids)' \subseteq Held \cap Ids
    BY <1>1, <2>1 DEF Held
  <2>6. InBounds'
    BY <1>1, <2>5, StaysInBounds DEF Typed
  <2> QED  BY <2>3, <2>4, <2>6 DEF IInv
<1>3. CASE pc = "down"
  <2>1. /\ Closing = {current} /\ Closing' = {} /\ current \in connections_
        /\ current \notin up /\ connections_ \ {current} = up /\ server
        /\ current \in Ids /\ current \in Nat /\ current < nextConnId_
    BY <1>1, <1>3 DEF Closing, Accounted, Placed, Typed
  <2> DEFINE f == Functor("connectDestroyed", current)
  <2>2. /\ connections_' = up /\ pending' = Append(pending, f)
        /\ violations' = {} /\ UNCHANGED registered
    BY <1>3, <2>1 DEF EndCallback, RemoveConnection, Accounted
  <2>3. f \in FunctorType /\ f.fn = "connectDestroyed" /\ f.id = current
    BY <2>1 DEF Functor, FunctorType
  <2> HIDE DEF f
  <2>4. /\ pending' \in Seq(FunctorType)
        /\ Bound(pending') = Bound(pending) \union {current}
        /\ \A id : Destroys(pending, 1, id) => Destroys(pending', 1, id)
        /\ Destroys(pending', 1, current)
        /\ Harmless(pending', 1, nextConnId_, up)
    BY <2>1, <2>2, <2>3, QueueGrows DEF Typed, Accounted
  <2>5. Typed'
    BY <1>1, <2>2, <2>4 DEF Typed, Round
  <2>6. Placed'
    BY <1>1 DEF Placed, Round
  <2>7. Accounted'
    BY <1>1, <2>1, <2>2, <2>4 DEF Accounted
  <2>8. (Held \cap Ids)' \subseteq Held \cap Ids
    BY <1>1, <2>1, <2>2, <2>4 DEF Held
  <2>9. InBounds'
    BY <1>1, <2>8, StaysInBounds DEF Typed
  <2> QED  BY <2>5, <2>6, <2>7, <2>9 DEF IInv
<1> QED  BY <1>2, <1>3

\* The round ends: the functors are taken over.
LEMMA EndEventsIInv ==
    ASSUME ~careless, Typed, Placed, Accounted, InBounds, careless' = careless,
           EndEvents
    PROVE  IInv'
<1> USE GivenIds
<1> USE DEF flagVars, fdVars, connVars, stateVars
<1>1. /\ pc = "events" /\ pc' = "functors" /\ todo = {}
      /\ batch = <<>> /\ done = 0 /\ batch' = pending /\ pending' = <<>>
      /\ UNCHANGED <<flagVars, fdVars, connVars, todo, current, done, violations>>
  BY DEF EndEvents, Placed, Round
<1>2. Closing = {} /\ Closing' = {} /\ done + 1 = 1 /\ done' + 1 = 1
  BY <1>1 DEF Closing
<1>3. Typed'
  <2>1. done' \in 0..Len(batch')
    BY <1>1, LenProperties DEF Typed
  <2> QED  BY <1>1, <2>1, NothingQueued DEF Typed
<1>4. Placed'
  BY <1>1 DEF Placed, Round
<1>5. Accounted'
  <2>1. /\ Harmless(pending', 1, nextConnId_', up')
        /\ Harmless(batch', done' + 1, nextConnId_', up')
    BY <1>1, <1>2, NothingQueued DEF Accounted
  <2>2. \A id : /\ Destroys(pending, 1, id) => Destroys(batch', done' + 1, id)
                /\ ~Destroys(batch, done + 1, id)
    BY <1>1, <1>2, NothingQueued
  <2> QED  BY <1>1, <1>2, <2>1, <2>2 DEF Accounted
<1>6. InBounds'
  <2>1. (Held \cap Ids)' \subseteq Held \cap Ids
    BY <1>1, NothingQueued DEF Held
  <2> QED  BY <1>1, <2>1, StaysInBounds DEF Typed
<1> QED  BY <1>3, <1>4, <1>5, <1>6 DEF IInv

LEMMA EndFunctorsIInv ==
    ASSUME ~careless, Typed, Placed, Accounted, InBounds, careless' = careless,
           EndFunctors \/ EndFunctor
    PROVE  IInv'
<1> USE GivenIds
<1> USE DEF flagVars, fdVars, connVars, stateVars, loopVars, funVars
<1>1. CASE EndFunctor
  <2>1. /\ pc = "functor" /\ pc' = "functors"
        /\ UNCHANGED <<flagVars, fdVars, connVars, loopVars, funVars, violations>>
    BY <1>1 DEF EndFunctor
  <2>2. Closing = {} /\ Closing' = {}
    BY <2>1 DEF Closing
  <2>3. Typed' /\ Placed' /\ Held' = Held
    BY <2>1 DEF Typed, Placed, Round, Held
  <2>4. Accounted'
    BY <2>1, <2>2 DEF Accounted
  <2>5. InBounds'
    BY <2>1, <2>3, StaysInBounds DEF Typed
  <2> QED  BY <2>3, <2>4, <2>5 DEF IInv
<1>2. CASE EndFunctors
  <2>1. /\ pc = "functors" /\ pc' = "poll" /\ done = Len(batch)
        /\ batch' = <<>> /\ done' = 0 /\ done' + 1 = 1
        /\ UNCHANGED <<flagVars, fdVars, connVars, loopVars, pending, violations>>
    BY <1>2 DEF EndFunctors
  <2>2. Closing = {} /\ Closing' = {}
    BY <2>1 DEF Closing
  <2>3. Typed' /\ Placed'
    BY <2>1, NothingQueued DEF Typed, Placed, Round
  <2>4. Accounted'
    <3>1. \A id : ~Destroys(batch, done + 1, id)
      BY <2>1, BatchEnds DEF Typed
    <3>2. Harmless(batch', done' + 1, nextConnId_', up')
      BY <2>1, NothingQueued
    <3> QED  BY <2>1, <2>2, <3>1, <3>2 DEF Accounted
  <2>5. (Held \cap Ids)' \subseteq Held \cap Ids
    BY <2>1, NothingQueued DEF Held
  <2>6. InBounds'
    BY <2>1, <2>5, StaysInBounds DEF Typed
  <2> QED  BY <2>3, <2>4, <2>6 DEF IInv
<1> QED  BY <1>1, <1>2

\* One functor of the batch runs.
LEMMA RunFunctorIInv ==
    ASSUME ~careless, Typed, Placed, Accounted, InBounds, careless' = careless,
           RunFunctor
    PROVE  IInv'
<1> USE GivenIds
<1> USE DEF flagVars, fdVars, loopVars
<1> DEFINE f == batch[done + 1]
<1>1. /\ pc = "functors" /\ done < Len(batch) /\ done' = done + 1
      /\ UNCHANGED <<flagVars, fdVars, nextConnId_, loopVars, batch, connections_,
                     pending, violations>>
      /\ done \in Nat /\ batch \in Seq(FunctorType)
  BY DEF RunFunctor, Typed
<1>2. /\ \/ /\ f.fn = "user" /\ pc' = "functor"
            /\ UNCHANGED <<up, registered>>
         \/ /\ f.fn = "connectDestroyed" /\ pc' = "functors"
            /\ registered' = registered \ {f.id} /\ UNCHANGED up
         \/ /\ f.fn = "forceCloseInLoop" /\ UNCHANGED registered
            /\ IF f.id \in up THEN up' = up \ {f.id} /\ pc' = "closing"
                              ELSE UNCHANGED <<up, pc>>
  BY <1>1 DEF RunFunctor, stateVars, GoesDown
<1> HIDE DEF f
<1>3. /\ done + 1 \in 0..Len(batch) /\ f \in FunctorType
      /\ f.id \in Bound(batch)
      /\ Harmless(batch, done + 1 + 1, nextConnId_, up)
      /\ f.fn = "connectDestroyed" => f.id \notin up
      /\ \A id : Destroys(batch, done + 1, id) =>
            \/ Destroys(batch, done + 1 + 1, id)
            \/ f.fn = "connectDestroyed" /\ id = f.id
  BY <1>1, BatchAdvances DEF f, Accounted
<1>4. /\ Closing = {}
      /\ Closing' = IF pc' = "closing" THEN {f.id} ELSE {}
      /\ pc' = "closing" => f.id \in up /\ up' = up \ {f.id}
      /\ pc' # "closing" => up' = up
      /\ pc' \in {"functors", "functor", "closing"}
  BY <1>1, <1>2 DEF Closing, f
<1>5. Typed'
  BY <1>1, <1>2, <1>3, <1>4 DEF Typed
<1>6. Placed'
  BY <1>1, <1>4 DEF Placed, Round
<1>7. Accounted'
  <2>1. /\ Harmless(pending', 1, nextConnId_', up')
        /\ Harmless(batch', done' + 1, nextConnId_', up')
    <3>1. /\ \A id \in up' : id \in up \/ id >= nextConnId_
          /\ done + 1 + 1 \in Nat \ {0} /\ 1 \in Nat \ {0}
          /\ nextConnId_ \in Nat /\ nextConnId_ <= nextConnId_
          /\ pending \in Seq(FunctorType) /\ batch \in Seq(FunctorType)
      BY <1>1, <1>4 DEF Typed
    <3>2. Harmless(pending, 1, nextConnId_, up)
      BY DEF Accounted
    <3>3. Harmless(pending, 1, nextConnId_, up')
      BY <3>1, <3>2, HarmlessWeakens
    <3>4. Harmless(batch, done + 1 + 1, nextConnId_, up')
      BY <1>3, <3>1, HarmlessWeakens
    <3> QED  BY <1>1, <3>3, <3>4
  <2>2. connections_' = up' \union Closing' /\ up' \intersect Closing' = {}
    BY <1>1, <1>4 DEF Accounted
  <2>3. up' \subseteq registered'
    BY <1>2, <1>3, <1>4 DEF Accounted
  <2>4. \A id \in registered' \ connections_' :
           Destroys(pending', 1, id) \/ Destroys(batch', done' + 1, id)
    BY <1>1, <1>2, <1>3 DEF Accounted
  <2> QED  BY <1>1, <1>6, <2>1, <2>2, <2>3, <2>4 DEF Accounted, Placed, Round
<1>8. InBounds'
  <2>1. Held' = Held
    BY <1>1 DEF Held
  <2> QED  BY <1>1, <2>1, StaysInBounds DEF Typed
<1> QED  BY <1>5, <1>6, <1>7, <1>8 DEF IInv

\* The callback of a forced close returns.
LEMMA EndClosingIInv ==
    ASSUME ~careless, Typed, Placed, Accounted, InBounds, careless' = careless,
           EndClosing
    PROVE  IInv'
<1> USE GivenIds
<1> USE DEF flagVars, fdVars, loopVars
<1> DEFINE c == batch[done].id
           f == Functor("connectDestroyed", c)
<1>1. /\ pc = "closing" /\ pc' = "functors"
      /\ UNCHANGED <<flagVars, fdVars, nextConnId_, up, loopVars, batch, done>>
      /\ done \in 1..Len(batch)
  BY LenProperties DEF EndClosing, Placed, Typed, stateVars
<1>2. /\ Closing = {c} /\ Closing' = {} /\ c \in connections_
      /\ c \notin up /\ connections_ \ {c} = up /\ server
      /\ c \in Ids /\ c \in Nat /\ c < nextConnId_
  BY <1>1 DEF Closing, Accounted, Typed
<1>3. /\ connections_' = up /\ pending' = Append(pending, f)
      /\ violations' = {} /\ UNCHANGED registered
  BY <1>2 DEF EndClosing, RemoveConnection, Accounted
<1>4. f \in FunctorType /\ f.fn = "connectDestroyed" /\ f.id = c
  BY <1>2 DEF Functor, FunctorType
<1>5. c \in Bound(batch)
  BY <1>1 DEF Bound, Typed
<1> HIDE DEF f, c
<1>6. /\ pending' \in Seq(FunctorType)
      /\ Bound(pending') = Bound(pending) \union {c}
      /\ \A id : Destroys(pending, 1, id) => Destroys(pending', 1, id)
      /\ Destroys(pending', 1, c)
      /\ Harmless(pending', 1, nextConnId_, up)
  BY <1>2, <1>3, <1>4, QueueGrows DEF Typed, Accounted
<1>7. Typed'
  BY <1>1, <1>3, <1>6 DEF Typed
<1>8. Placed'
  BY <1>1 DEF Placed, Round
<1>9. Accounted'
  BY <1>1, <1>2, <1>3, <1>6 DEF Accounted
<1>10. (Held \cap Ids)' \subseteq Held \cap Ids
  BY <1>1, <1>2, <1>3, <1>5, <1>6 DEF Held
<1>11. InBounds'
  BY <1>1, <1>10, StaysInBounds DEF Typed
<1> QED  BY <1>7, <1>8, <1>9, <1>11 DEF IInv

\* ~TcpServer, in a functor.
LEMMA DestroyServerIInv ==
    ASSUME ~careless, Typed, Placed, Accounted, InBounds, careless' = careless,
           DestroyServer
    PROVE  IInv'
<1> USE GivenIds
<1> USE DEF funVars, loopVars
<1> DEFINE half == connections_ \cap disconnecting
<1>1. /\ pc = "functor" /\ pc' = "functor" /\ server' = FALSE
      /\ listening_' = FALSE /\ idleFd_' = "closed" /\ connections_' = {}
      /\ up' = up \ (connections_ \ half)
      /\ registered' = registered \ (connections_ \ half)
      /\ violations' = violations \cup
            (IF half = {} THEN {} ELSE {"Channel.cc:41"})
      /\ UNCHANGED <<others, arrived, served, nextConnId_, disconnecting,
                     loopVars, funVars>>
  BY DEF DestroyServer, RemoveAsserts, EventHandling
<1>2. CASE half # {}
  <2>1. Stopped'
    BY <1>1, <1>2 DEF Stopped, Accounted
  <2> QED  BY <2>1 DEF IInv
<1>3. CASE half = {}
  <2>1. /\ up' = up \ connections_ /\ registered' = registered \ connections_
        /\ violations' = violations
    BY <1>1, <1>3
  <2>2. Closing = {} /\ Closing' = {} /\ up' = {} /\ todo = {}
    BY <1>1, <2>1 DEF Closing, Accounted, Placed, Round
  <2>3. Typed'
    BY <1>1, <2>1, <2>2 DEF Typed
  <2>4. Placed'
    BY <1>1 DEF Placed, Round
  <2>5. Accounted'
    <3>1. /\ Harmless(pending', 1, nextConnId_', up')
          /\ Harmless(batch', done' + 1, nextConnId_', up')
      <4>1. done + 1 \in Nat \ {0}
        BY DEF Typed
      <4> QED  BY <1>1, <2>2, <4>1, HarmlessWeakens DEF Accounted, Typed
    <3> QED  BY <1>1, <2>1, <2>2, <3>1 DEF Accounted
  <2>6. (Held \cap Ids)' \subseteq Held \cap Ids
    BY <1>1 DEF Held
  <2>7. InBounds'
    BY <1>1, <2>6, StaysInBounds DEF Typed
  <2> QED  BY <2>3, <2>4, <2>5, <2>7 DEF IInv
<1> QED  BY <1>2, <1>3

LEMMA OneMore ==
    ASSUME NEW S, NEW x, IsFiniteSet(S), x \notin S
    PROVE  /\ IsFiniteSet(S \union {x})
           /\ Cardinality(S \union {x}) <= Cardinality(S) + 1
<1>1. /\ IsFiniteSet(S \union {x})
      /\ Cardinality(S \union {x}) = Cardinality(S) + 1
  BY FS_AddElement
<1>2. Cardinality(S) \in Nat
  BY FS_CardinalityType
<1> QED  BY <1>1, <1>2

\* A connection is accepted: its id is new, and its descriptor was free.
LEMMA AcceptIInv ==
    ASSUME ~careless, Typed, Placed, Accounted, InBounds, careless' = careless,
           Accept
    PROVE  IInv'
<1> USE GivenIds
<1> USE DEF flagVars, funVars
<1> DEFINE c == nextConnId_
<1>1. /\ pc = "events" /\ pc' = "up" /\ Acceptor \in todo
      /\ todo' = todo \ {Acceptor} /\ served' = served + 1 /\ Free > 0
      /\ nextConnId_' = c + 1 /\ current' = Acceptor
      /\ connections_' = connections_ \union {c} /\ up' = up \union {c}
      /\ registered' = registered \union {c}
      /\ UNCHANGED <<flagVars, idleFd_, others, arrived, funVars, violations>>
      /\ Backlog > 0
  BY DEF Accept, AtAcceptor, NewConnection
<1>2. served < arrived /\ c \in Ids /\ c \in Nat /\ server
  BY <1>1 DEF Backlog, Typed, Accounted
<1>3. Typed'
  <2>1. /\ served' \in 0..arrived' /\ nextConnId_' \in 1..served' + 1
        /\ 1..c - 1 \subseteq 1..nextConnId_' - 1 /\ c \in 1..nextConnId_' - 1
        /\ 0..c - 1 \subseteq 0..nextConnId_' - 1
    BY <1>1, <1>2 DEF Typed
  <2> QED  BY <1>1, <2>1 DEF Typed, Round, Acceptor
<1>4. Placed'
  BY <1>1 DEF Placed, Round
<1>5. Accounted'
  <2>1. Closing = {} /\ Closing' = {}
    BY <1>1 DEF Closing
  <2>2. /\ Harmless(pending', 1, nextConnId_', up')
        /\ Harmless(batch', done' + 1, nextConnId_', up')
    <3>1. /\ c + 1 \in Nat /\ c <= c + 1 /\ done + 1 \in Nat \ {0}
          /\ \A id \in up' : id \in up \/ id >= c
      BY <1>1, <1>2 DEF Typed
    <3> QED  BY <1>1, <1>2, <3>1, HarmlessWeakens DEF Accounted, Typed
  <2> QED  BY <1>1, <1>2, <2>1, <2>2 DEF Accounted
<1>6. InBounds'
  <2>1. (Held \cap Ids)' \subseteq (Held \cap Ids) \union {c}
    BY <1>1 DEF Held
  <2>2. Cardinality((Held \cap Ids)') <= Cardinality(Held \cap Ids) + 1
    <3>1. /\ IsFiniteSet((Held \cap Ids) \union {c})
          /\ Cardinality((Held \cap Ids) \union {c})
                <= Cardinality(Held \cap Ids) + 1
      <4>1. /\ IsFiniteSet(Held \cap Ids) /\ Cardinality(Held \cap Ids) \in Nat
            /\ Cardinality(Held \cap Ids) <= Cardinality(Held \cap Ids) + 1
        BY Alive
      <4>2. CASE c \in Held \cap Ids
        <5>1. (Held \cap Ids) \union {c} = Held \cap Ids
          BY <4>2
        <5> QED  BY <4>1, <5>1
      <4>3. CASE c \notin Held \cap Ids
        BY <4>1, <4>3, OneMore
      <4> QED  BY <4>2, <4>3
    <3>2. Cardinality((Held \cap Ids)')
             <= Cardinality((Held \cap Ids) \union {c})
      BY <2>1, <3>1, FS_Subset
    <3>3. Cardinality((Held \cap Ids) \union {c}) \in Nat
      BY <3>1, FS_CardinalityType
    <3> QED  BY <3>1, <3>2, <3>3, Alive
  <2> DEFINE k == Cardinality(Held \cap Ids)
             l == Cardinality((Held \cap Ids)')
             i == IF idleFd_ = "open" THEN 1 ELSE 0
  <2>3. k \in Nat /\ l \in Nat /\ l <= k + 1 /\ others \in Nat /\ i \in {0, 1}
    BY <2>2, Alive DEF Typed
  <2>4. /\ Free = MaxFds - k - others - 1 - i /\ Free > 0
        /\ Free' = MaxFds - l - others - 1 - i
    BY <1>1, <1>2 DEF Free
  <2> HIDE DEF k, l, i
  <2>5. Free' >= 0
    BY <2>3, <2>4, ServerAssumption
  <2> QED  BY <2>5 DEF InBounds
<1> QED  BY <1>3, <1>4, <1>5, <1>6 DEF IInv

LEMMA NextIInv ==
    ASSUME IInv, [Next]_vars
    PROVE  IInv'
<1>1. CASE UNCHANGED vars
  BY <1>1
     DEF vars, IInv, Stopped, Typed, Placed, Accounted, Closing, InBounds, Free, Held
<1>2. CASE Next
  <2>1. careless' = careless
    BY <1>2
       DEF Next, LoopStep, Poll, HandleConnection, Accept, AcceptAtLimit,
           AcceptAndClose, ReopenIdle, EndCallback, EndEvents, RunFunctor,
           EndClosing, EndFunctor, EndFunctors, AcceptTransient, AcceptFatal,
           Start, DestroyServer, QueueUserFunctor, Shutdown, ForceClose,
           ClientConnects, OtherOpens, OtherCloses, flagVars
  <2>2. CASE careless
    BY <2>1, <2>2 DEF IInv
  <2>3. CASE ~careless
    <3>1. Typed /\ Placed /\ Accounted /\ InBounds
      BY <1>2, <2>3 DEF IInv, Next, Running, Stopped
    <3> QED
      BY <1>2, <2>1, <2>3, <3>1, AcceptorIInv, QueueIInv, ShutdownIInv, PollIInv, HandleIInv,
         EndCallbackIInv, EndEventsIInv, EndFunctorsIInv, RunFunctorIInv,
         EndClosingIInv, DestroyServerIInv, AcceptIInv
         DEF Next, LoopStep
  <2> QED  BY <2>2, <2>3
<1> QED  BY <1>1, <1>2

LEMMA Invariant == Spec => []IInv
<1>1. IInv /\ [Next]_vars => IInv'
  BY NextIInv
<1> QED  BY <1>1, InitIInv, PTL DEF Spec

-----------------------------------------------------------------------------

\* Whatever connections close in whatever handlers of a round, a channel that
\* is still to be handled is alive, removeConnectionInLoop finds its
\* connection, and no channel is removed before its round ends, unless the
\* server is destroyed in a handler.  Destroyed elsewhere, it fails only
\* Channel::remove's assertion, and that only with a kDisconnecting
\* connection.
THEOREM RoundsAreSafe == Spec => []RoundIsSafe
<1>1. IInv => RoundIsSafe
  <2>1. Stopped => RoundIsSafe
    BY DEF Stopped, RoundIsSafe
  <2>2. ~careless /\ Accounted => RoundIsSafe
    BY DEF RoundIsSafe, Accounted, Held
  <2> QED  BY <2>1, <2>2 DEF IInv, RoundIsSafe
<1> QED  BY <1>1, Invariant, PTL

\* Between two rounds the connections that are alive are those in
\* connections_, all of them up and in the poller, and the process never has
\* more descriptors open than its limit, the spare one included.
THEOREM NoLeaks == Spec => []NothingLeaks
<1>1. IInv => NothingLeaks
  <2> SUFFICES ASSUME Typed, Placed, Accounted, InBounds, Running
               PROVE  NothingLeaks
    BY DEF IInv, NothingLeaks, Running, Stopped
  <2>1. Free >= 0 /\ up \subseteq registered
    BY DEF InBounds, Accounted
  <2>2. ASSUME pc = "poll", pending = <<>>
        PROVE  Held = connections_ /\ connections_ = up /\ up = registered
    <3>1. batch = <<>> /\ done + 1 = 1 /\ current \notin Ids
      BY <2>2 DEF Placed
    <3>2. Held = connections_
      BY <2>2, <3>1, NothingQueued DEF Held
    <3>3. connections_ = up
      BY <2>2 DEF Accounted, Closing
    <3>4. \A id : ~Destroys(pending, 1, id) /\ ~Destroys(batch, done + 1, id)
      BY <2>2, <3>1, NothingQueued
    <3>5. registered \subseteq connections_
      BY <3>4 DEF Accounted
    <3> QED  BY <2>1, <3>2, <3>3, <3>5
  <2> QED  BY <2>1, <2>2 DEF NothingLeaks
<1> QED  BY <1>1, Invariant, PTL
=============================================================================
