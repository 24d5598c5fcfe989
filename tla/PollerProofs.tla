---------------------------- MODULE PollerProofs ----------------------------
(***************************************************************************)
(* Proofs about EPollPoller and PollPoller, for any set of descriptors:    *)
(* what each Poller keeps of a channel, a state or a position, is right,   *)
(* and each of them implements Poller.  The two specifications share the   *)
(* variables of Channel and nothing else.  For PollPoller a channel's      *)
(* first update asks for an event, as all of the library's do.             *)
(***************************************************************************)
EXTENDS EPollPoller, PollPoller, TLAPS

-----------------------------------------------------------------------------
(* EPollPoller: the inductive invariant adds to TypeOK and                 *)
(* IndexTellsKernel that the kernel's mask of each descriptor is what its  *)
(* channel wants.                                                          *)

\* The kernel is asked for the events the channel wants, and for none of a
\* channel that the Poller does not know.
MaskInv ==
    /\ \A fd \in channels_ : mask[fd] = events_[fd]
    /\ \A fd \in Fds \ epollfd_ : mask[fd] = {}

\* A poll may have returned channels that were removed since; nothing else
\* is left to say of active.
IInv == TypeOK /\ IndexTellsKernel /\ MaskInv

\* The invariant holds of a Poller without channels.
LEMMA InitIInv == Init => IInv
  BY DEF Init, NoChannels, IInv, TypeOK, IndexTellsKernel, MaskInv, Events

\* The events a channel changes to are events.
LEMMA ChangeType ==
  ASSUME events_ \in [Fds -> SUBSET Events], NEW fd \in Fds
  PROVE  Change(fd) \subseteq SUBSET Events
  BY DEF Change, Events

\* Channel::update, whatever the channel's index, preserves the invariant.
LEMMA UpdateIInv ==
  ASSUME IInv, NEW fd \in Fds, NEW ev \in Change(fd), UpdateChannel(fd, ev)
  PROVE  IInv'
<1> USE DEF IInv
<1>ev. ev \in SUBSET Events
  BY ChangeType DEF TypeOK
<1>1. CASE index_[fd] # "kAdded"
  <2>1. fd \notin epollfd_
    BY <1>1 DEF IndexTellsKernel
  <2>2. /\ epollfd_' = epollfd_ \union {fd}
        /\ mask' = [mask EXCEPT ![fd] = ev]
        /\ ctlErrors' = {}
    BY <1>1, <2>1 DEF UpdateChannel, EpollCtl, IndexTellsKernel
  <2>3. index_' = [index_ EXCEPT ![fd] = "kAdded"]
    BY <1>1 DEF UpdateChannel, UpdateIndex
  <2>4. TypeOK'
    BY <1>ev, <2>2, <2>3 DEF UpdateChannel, TypeOK
  <2>5. IndexTellsKernel'
    BY <2>2, <2>3 DEF UpdateChannel, TypeOK, IndexTellsKernel
  <2>6. MaskInv'
    BY <2>2 DEF UpdateChannel, TypeOK, MaskInv
  <2> QED BY <2>4, <2>5, <2>6
<1>2. CASE index_[fd] = "kAdded" /\ ev = {}
  <2>1. fd \in epollfd_
    BY <1>2 DEF IndexTellsKernel
  <2>2. /\ epollfd_' = epollfd_ \ {fd}
        /\ mask' = [mask EXCEPT ![fd] = {}]
        /\ ctlErrors' = {}
    BY <1>2, <2>1 DEF UpdateChannel, EpollCtl, IndexTellsKernel
  <2>3. index_' = [index_ EXCEPT ![fd] = "kDeleted"]
    BY <1>2 DEF UpdateChannel, UpdateIndex
  <2>4. TypeOK'
    BY <1>ev, <2>2, <2>3 DEF UpdateChannel, TypeOK
  <2>5. IndexTellsKernel'
    BY <2>2, <2>3 DEF UpdateChannel, TypeOK, IndexTellsKernel
  <2>6. MaskInv'
    BY <1>2, <2>2 DEF UpdateChannel, TypeOK, MaskInv
  <2> QED BY <2>4, <2>5, <2>6
<1>3. CASE index_[fd] = "kAdded" /\ ev # {}
  <2>1. fd \in epollfd_
    BY <1>3 DEF IndexTellsKernel
  <2>2. /\ epollfd_' = epollfd_
        /\ mask' = [mask EXCEPT ![fd] = ev]
        /\ ctlErrors' = {}
    BY <1>3, <2>1 DEF UpdateChannel, EpollCtl, IndexTellsKernel
  <2>3. index_' = index_
    BY <1>3 DEF UpdateChannel, UpdateIndex, TypeOK
  <2>4. TypeOK'
    BY <1>ev, <2>2, <2>3 DEF UpdateChannel, TypeOK
  <2>5. IndexTellsKernel'
    BY <1>3, <2>2, <2>3 DEF UpdateChannel, TypeOK, IndexTellsKernel
  <2>6. MaskInv'
    BY <2>1, <2>2 DEF UpdateChannel, TypeOK, MaskInv
  <2> QED BY <2>4, <2>5, <2>6
<1> QED BY <1>1, <1>2, <1>3

\* Channel::remove preserves the invariant, whether or not disableAll has
\* left the descriptor registered with an empty mask.
LEMMA RemoveIInv ==
  ASSUME IInv, NEW fd \in Fds, RemoveChannel(fd)
  PROVE  IInv'
<1> USE DEF IInv
<1>1. /\ epollfd_' = epollfd_ \ {fd}
      /\ mask' = mask
      /\ ctlErrors' = {}
  <2>1. mask[fd] = {}
    BY DEF RemoveChannel, MaskInv
  <2>2. CASE index_[fd] = "kAdded"
    BY <2>1, <2>2
    DEF RemoveChannel, Deregister, EpollCtl, IndexTellsKernel, TypeOK
  <2>3. CASE index_[fd] # "kAdded"
    BY <2>3 DEF RemoveChannel, Deregister, IndexTellsKernel
  <2> QED BY <2>2, <2>3
<1>2. TypeOK'
  BY <1>1 DEF RemoveChannel, TypeOK
<1>3. IndexTellsKernel'
  BY <1>1 DEF RemoveChannel, TypeOK, IndexTellsKernel
<1>4. MaskInv'
  <2>1. mask[fd] = {}
    BY DEF RemoveChannel, MaskInv
  <2> QED BY <1>1, <2>1 DEF RemoveChannel, TypeOK, MaskInv
<1> QED BY <1>2, <1>3, <1>4

\* Every step of the Poller and its channels preserves the invariant.
LEMMA NextIInv == IInv /\ [Next]_vars => IInv'
<1> SUFFICES ASSUME IInv, [Next]_vars PROVE IInv'
  OBVIOUS
<1>1. CASE \E fd \in Fds : NewChannel(fd)
  <2>1. PICK fd \in Fds : NewChannel(fd)
    BY <1>1
  <2>2. fd \notin channels_
    BY <2>1 DEF NewChannel, Construct, IInv, TypeOK
  <2>3. TypeOK'
    BY <2>1 DEF NewChannel, Construct, IInv, TypeOK
  <2>4. IndexTellsKernel'
    BY <2>1, <2>2 DEF NewChannel, Construct, IInv, TypeOK, IndexTellsKernel
  <2>5. MaskInv'
    BY <2>1, <2>2 DEF NewChannel, Construct, IInv, TypeOK, MaskInv
  <2> QED BY <2>3, <2>4, <2>5 DEF IInv
<1>2. CASE \E fd \in Fds : \E ev \in Change(fd) : UpdateChannel(fd, ev)
  BY <1>2, UpdateIInv
<1>3. CASE \E fd \in Fds : RemoveChannel(fd)
  BY <1>3, RemoveIInv
<1>4. CASE \E fd \in Fds : CloseChannel(fd)
  <2>1. PICK fd \in Fds : CloseChannel(fd)
    BY <1>4
  <2>2. index_[fd] = "kNew" /\ fd \notin epollfd_
    BY <2>1 DEF CloseChannel, Destroy, IInv, IndexTellsKernel, TypeOK
  <2>3. TypeOK'
    BY <2>1 DEF CloseChannel, Destroy, IInv, TypeOK
  <2>4. IndexTellsKernel'
    BY <2>1, <2>2 DEF CloseChannel, Destroy, IInv, TypeOK, IndexTellsKernel
  <2>5. MaskInv'
    BY <2>1, <2>2 DEF CloseChannel, Destroy, IInv, TypeOK, MaskInv
  <2> QED BY <2>3, <2>4, <2>5 DEF IInv
<1>5. CASE Poll
  BY <1>5 DEF Poll, IInv, TypeOK, IndexTellsKernel, MaskInv
<1>6. CASE UNCHANGED vars
  BY <1>6 DEF vars, IInv, TypeOK, IndexTellsKernel, MaskInv
<1> QED BY <1>1, <1>2, <1>3, <1>4, <1>5, <1>6 DEF Next

\* The inductive invariant is an invariant.
LEMMA Invariance == Spec => []IInv
  BY InitIInv, NextIInv, PTL DEF Spec

\* The Poller's variables have their types, and only channels that exist
\* are in its map.
THEOREM TypeCorrect == Spec => []TypeOK
<1>1. IInv => TypeOK
  BY DEF IInv
<1> QED BY <1>1, Invariance, PTL

\* index_ tells what the kernel has registered, so that updateChannel's and
\* removeChannel's choice of ADD, MOD and DEL never fails.
THEOREM IndexCorrect == Spec => []IndexTellsKernel
<1>1. IInv => IndexTellsKernel
  BY DEF IInv
<1> QED BY <1>1, Invariance, PTL

\* Every step of EPollPoller is a step of Poller on the kernel's interest
\* set, or changes nothing of it.
LEMMA StepRefinement ==
  IInv /\ [Next]_vars => [Abstract!PollerNext]_(Abstract!pollerVars)
<1> SUFFICES ASSUME IInv, [Next]_vars
             PROVE  [Abstract!PollerNext]_(Abstract!pollerVars)
  OBVIOUS
<1> USE DEF Abstract!pollerVars
<1>1. CASE \E fd \in Fds : NewChannel(fd)
  BY <1>1 DEF NewChannel, Construct
<1>2. CASE \E fd \in Fds : \E ev \in Change(fd) : UpdateChannel(fd, ev)
  <2>1. PICK fd \in Fds : \E e \in Change(fd) : UpdateChannel(fd, e)
    BY <1>2
  <2>2. PICK ev \in Change(fd) : UpdateChannel(fd, ev)
    BY <2>1
  <2>3. ev \in SUBSET Events
    BY ChangeType DEF IInv, TypeOK
  <2>4. mask' = [mask EXCEPT ![fd] = ev]
    BY <2>2 DEF UpdateChannel, EpollCtl, IInv, IndexTellsKernel
  <2>5. Abstract!Update(fd, ev)
    BY <2>2, <2>4 DEF UpdateChannel, Abstract!Update
  <2> QED BY <2>3, <2>5 DEF Abstract!PollerNext, Abstract!Events, Events
<1>3. CASE \E fd \in Fds : RemoveChannel(fd)
  <2>1. PICK fd \in Fds : RemoveChannel(fd)
    BY <1>3
  <2>2. mask[fd] = {}
    BY <2>1 DEF RemoveChannel, IInv, MaskInv
  <2>3. mask' = mask
    BY <2>1, <2>2
    DEF RemoveChannel, Deregister, EpollCtl, IInv, IndexTellsKernel, TypeOK
  <2>4. Abstract!Remove(fd)
    BY <2>1, <2>2, <2>3 DEF RemoveChannel, Abstract!Remove
  <2> QED BY <2>4 DEF Abstract!PollerNext
<1>4. CASE \E fd \in Fds : CloseChannel(fd)
  <2>1. PICK fd \in Fds : CloseChannel(fd)
    BY <1>4
  <2>2. fd \notin epollfd_
    BY <2>1 DEF CloseChannel, Destroy, IInv, IndexTellsKernel, TypeOK
  <2>3. mask' = mask
    BY <2>1, <2>2 DEF CloseChannel, Destroy, IInv, MaskInv, TypeOK
  <2> QED BY <2>1, <2>3 DEF CloseChannel, Destroy
<1>5. CASE Poll
  <2>1. epollfd_ \subseteq channels_
    BY DEF IInv, IndexTellsKernel, TypeOK
  <2>2. Abstract!Poll
    BY <1>5, <2>1 DEF Poll, Abstract!Poll
  <2> QED BY <2>2 DEF Abstract!PollerNext
<1>6. CASE UNCHANGED vars
  BY <1>6 DEF vars
<1> QED BY <1>1, <1>2, <1>3, <1>4, <1>5, <1>6 DEF Next

\* EPollPoller implements Poller: the kernel watches what the channels
\* want, and poll returns only channels of the map.
THEOREM EPollImplements == Spec => ImplementsPoller
<1>1. Init => Abstract!PollerInit
  BY DEF Init, NoChannels, Abstract!PollerInit
<1> QED
  BY <1>1, StepRefinement, Invariance, PTL
  DEF Spec, ImplementsPoller, Abstract!PollerSpec

-----------------------------------------------------------------------------
(* PollPoller *)

Entry == [fd : Int, events : SUBSET Events]

\* The entry of channel fd, wherever it is.
EntryOf(fd) == [fd     |-> IF events_[fd] = {} THEN Hidden(fd) ELSE fd,
                events |-> events_[fd]]

\* Every known channel's position holds its entry, every position belongs to
\* the channel that remembers it, and a channel that is not known either was
\* removed or has no position yet.
Matched ==
    /\ violations = {}
    /\ \A fd \in channels_ : /\ index_[fd] \in 1..Len(pollfds_)
                             /\ pollfds_[index_[fd]] = EntryOf(fd)
    /\ \A i \in 1..Len(pollfds_) :
          \E fd \in channels_ : index_[fd] = i
    /\ \A fd, g \in channels_ : index_[fd] = index_[g] => fd = g
    /\ removed \intersect channels_ = {}
    /\ \A fd \in exists \ channels_ : fd \in removed <=> index_[fd] # 0

PollIInv == PollTypeOK /\ Matched

\* What the invariant says of one channel.
LEMMA OwnerOfEntry ==
    ASSUME PollIInv, NEW fd \in channels_
    PROVE  /\ fd \in Fds /\ fd \in Nat
           /\ Owner(EntryOf(fd).fd) = fd
           /\ EntryOf(fd).fd < 0 <=> events_[fd] = {}
  BY PollAssumption DEF PollIInv, PollTypeOK, EntryOf, Owner, Hidden

LEMMA EntryForType ==
    ASSUME NEW fd \in Fds, NEW ev \in SUBSET Events
    PROVE  EntryFor(fd, ev) \in Entry /\ fd \in Nat
  BY PollAssumption DEF EntryFor, Entry, Hidden

LEMMA PollInitIInv == PollInit => PollIInv
  BY DEF PollInit, NoChannels, PollIInv, PollTypeOK, Matched, Events

\* The first update appends the channel's entry.
LEMMA FirstUpdateIInv ==
    ASSUME ~EmptyFirst, PollIInv, NEW fd \in Fds, NEW ev \in Change(fd),
           FirstUpdate(fd, ev)
    PROVE  PollIInv' /\ fd \notin channels_
<1> DEFINE n == Len(pollfds_)
           entry == [fd |-> fd, events |-> ev]
<1>1. ev \in SUBSET Events /\ ev # {} /\ fd \in Nat
  BY ChangeType, PollAssumption DEF PollIInv, FirstUpdate, PollTypeOK
<1>2. pollfds_ \in Seq(Entry) /\ n \in Nat /\ entry \in Entry
  BY <1>1 DEF PollIInv, PollTypeOK, Entry
<1>3. fd \notin channels_ /\ fd \notin removed
  BY DEF FirstUpdate, PollIInv, PollTypeOK, Matched
<1>4. /\ pollfds_' = Append(pollfds_, entry)
      /\ index_' = [index_ EXCEPT ![fd] = n + 1]
      /\ channels_' = channels_ \union {fd}
      /\ events_' = [events_ EXCEPT ![fd] = ev]
      /\ violations' = {}
      /\ UNCHANGED <<exists, removed, active>>
      /\ fd \in exists
  BY <1>3 DEF FirstUpdate, Assert, PollIInv, Matched
<1> HIDE DEF entry
<1>5. /\ pollfds_' \in Seq(Entry)
      /\ Len(pollfds_') = n + 1
      /\ pollfds_'[n + 1] = entry
      /\ \A i \in 1..n : pollfds_'[i] = pollfds_[i]
  BY <1>2, <1>4
<1>6. PollTypeOK'
  BY <1>1, <1>2, <1>4, <1>5 DEF PollIInv, PollTypeOK, Entry
<1>7. \A g \in channels_ : /\ g # fd /\ g \in Fds
                           /\ index_'[g] = index_[g]
                           /\ events_'[g] = events_[g]
                           /\ index_[g] \in 1..n
  BY <1>3, <1>4 DEF PollIInv, PollTypeOK, Matched
<1>8. index_'[fd] = n + 1 /\ events_'[fd] = ev
  BY <1>4 DEF PollIInv, PollTypeOK
<1>9. \A g \in channels_' : /\ index_'[g] \in 1..n + 1
                            /\ pollfds_'[index_'[g]] = EntryOf(g)'
  <2> TAKE g \in channels_'
  <2>1. CASE g = fd
    BY <1>1, <1>2, <1>5, <1>8, <2>1 DEF EntryOf, entry
  <2>2. CASE g # fd
    <3>1. g \in channels_
      BY <1>4, <2>2
    <3>2. EntryOf(g)' = EntryOf(g)
      BY <1>7, <3>1 DEF EntryOf
    <3> QED  BY <1>2, <1>5, <1>7, <3>1, <3>2 DEF PollIInv, Matched
  <2> QED  BY <2>1, <2>2
<1>10. \A i \in 1..n + 1 : \E g \in channels_' : index_'[g] = i
  <2> TAKE i \in 1..n + 1
  <2>1. CASE i = n + 1
    BY <1>4, <1>8, <2>1
  <2>2. CASE i # n + 1
    <3>1. i \in 1..n
      BY <1>2, <2>2
    <3>2. PICK g \in channels_ : index_[g] = i
      BY <3>1 DEF PollIInv, Matched
    <3> QED  BY <1>4, <1>7, <3>2
  <2> QED  BY <2>1, <2>2
<1>11. \A g, h \in channels_' : index_'[g] = index_'[h] => g = h
  BY <1>2, <1>4, <1>7, <1>8 DEF PollIInv, Matched
<1>12. \A g \in exists' \ channels_' : g \in removed' <=> index_'[g] # 0
  BY <1>4 DEF PollIInv, PollTypeOK, Matched
<1>13. Matched'
  BY <1>3, <1>4, <1>5, <1>9, <1>10, <1>11, <1>12 DEF PollIInv, Matched
<1> QED  BY <1>3, <1>6, <1>13 DEF PollIInv

\* A later update writes the entry where it is.
LEMMA LaterUpdateIInv ==
    ASSUME PollIInv, NEW fd \in Fds, NEW ev \in Change(fd), LaterUpdate(fd, ev)
    PROVE  PollIInv' /\ fd \in channels_
<1> DEFINE n == Len(pollfds_)
           i == index_[fd]
<1>1. ev \in SUBSET Events /\ fd \in Nat
  BY ChangeType, PollAssumption DEF PollIInv, PollTypeOK
<1>2. pollfds_ \in Seq(Entry) /\ n \in Nat /\ EntryFor(fd, ev) \in Entry
  BY <1>1, EntryForType DEF PollIInv, PollTypeOK, Entry
<1>3. fd \in channels_
  BY DEF LaterUpdate, PollIInv, PollTypeOK, Matched
<1>4. i \in DOMAIN pollfds_ /\ i \in 1..n /\ Owner(pollfds_[i].fd) = fd
  BY <1>2, <1>3, OwnerOfEntry DEF PollIInv, Matched
<1>5. /\ pollfds_' = [pollfds_ EXCEPT ![i] = EntryFor(fd, ev)]
      /\ events_' = [events_ EXCEPT ![fd] = ev]
      /\ violations' = {}
      /\ UNCHANGED <<exists, removed, index_, channels_, active>>
  BY <1>3, <1>4 DEF LaterUpdate, Assert, PollIInv, Matched
<1>6. /\ pollfds_' \in Seq(Entry)
      /\ Len(pollfds_') = n
      /\ pollfds_'[i] = EntryFor(fd, ev)
      /\ \A j \in 1..n : j # i => pollfds_'[j] = pollfds_[j]
  BY <1>2, <1>4, <1>5
<1>7. PollTypeOK'
  BY <1>1, <1>5, <1>6 DEF PollIInv, PollTypeOK, Entry
<1>8. \A g \in channels_' : /\ index_'[g] \in 1..n
                            /\ pollfds_'[index_'[g]] = EntryOf(g)'
  <2> TAKE g \in channels_'
  <2>1. g \in channels_ /\ index_'[g] = index_[g] /\ index_[g] \in 1..n /\ g \in Fds
    BY <1>5 DEF PollIInv, PollTypeOK, Matched
  <2>2. CASE g = fd
    <3>1. EntryOf(g)' = EntryFor(fd, ev)
      BY <1>5, <2>2 DEF EntryOf, EntryFor, PollIInv, PollTypeOK
    <3> QED  BY <1>6, <2>1, <2>2, <3>1
  <2>3. CASE g # fd
    <3>1. EntryOf(g)' = EntryOf(g)
      BY <1>5, <2>1, <2>3 DEF EntryOf, PollIInv, PollTypeOK
    <3>2. index_[g] # i
      BY <1>3, <2>1, <2>3 DEF PollIInv, Matched
    <3> QED  BY <1>6, <2>1, <3>1, <3>2 DEF PollIInv, Matched
  <2> QED  BY <2>2, <2>3
<1>9. Matched'
  BY <1>5, <1>6, <1>8 DEF PollIInv, Matched
<1> QED  BY <1>3, <1>7, <1>9 DEF PollIInv

\* Removal moves the last entry, and its channel learns of it.
LEMMA PollRemoveIInv ==
    ASSUME PollIInv, NEW fd \in Fds, PollRemoveChannel(fd)
    PROVE  PollIInv'
<1> DEFINE n == Len(pollfds_)
           i == index_[fd]
<1>1. pollfds_ \in Seq(Entry) /\ n \in Nat
  BY DEF PollIInv, PollTypeOK, Entry
<1>2. fd \in channels_ /\ events_[fd] = {} /\ i \in 1..n /\ i \in DOMAIN pollfds_
  BY <1>1 DEF PollRemoveChannel, PollIInv, Matched
<1>3. pollfds_[i].fd = Hidden(fd) /\ pollfds_[i].events = {}
  <2>1. EntryOf(fd) = [fd |-> Hidden(fd), events |-> {}]
    BY <1>2 DEF EntryOf
  <2>2. pollfds_[i] = EntryOf(fd)
    BY <1>2 DEF PollIInv, Matched
  <2> QED  BY <2>1, <2>2
<1>4. PICK last \in channels_ : index_[last] = n
  BY <1>1, <1>2 DEF PollIInv, Matched
<1>5. Owner(Last.fd) = last /\ Last = EntryOf(last) /\ last \in Fds
  BY <1>4, OwnerOfEntry DEF Last, PollIInv, Matched
<1>6. /\ pollfds_' = [j \in 1..n - 1 |-> IF j = i THEN Last ELSE pollfds_[j]]
      /\ index_' = [g \in Fds |-> IF i < n /\ g = last THEN i ELSE index_[g]]
      /\ channels_' = channels_ \ {fd}
      /\ removed' = removed \union {fd}
      /\ violations' = {}
      /\ UNCHANGED <<exists, events_, active>>
  BY <1>2, <1>3, <1>5 DEF PollRemoveChannel, DropEntry, Reindex, Assert, PollIInv, Matched
<1>7. Last \in Entry
  BY <1>1, <1>2 DEF Last
<1>8. /\ pollfds_' \in Seq(Entry)
      /\ Len(pollfds_') = n - 1
      /\ n - 1 \in Nat
      /\ i < n => pollfds_'[i] = Last
      /\ \A j \in 1..n - 1 : j # i => pollfds_'[j] = pollfds_[j]
  BY <1>1, <1>2, <1>6, <1>7
<1>9. PollTypeOK'
  BY <1>1, <1>2, <1>6, <1>8 DEF PollIInv, PollTypeOK, Entry
<1>10. \A g \in channels_ : /\ EntryOf(g)' = EntryOf(g)
                            /\ g \in Fds
                            /\ index_[g] \in 1..n
                            /\ pollfds_[index_[g]] = EntryOf(g)
  BY <1>6 DEF EntryOf, PollIInv, PollTypeOK, Matched
<1>11. \A g \in channels_ : index_[g] = n => g = last
  BY <1>4 DEF PollIInv, Matched
<1>12. \A g \in channels_ : index_[g] = i => g = fd
  BY <1>2 DEF PollIInv, Matched
<1>13. \A g \in channels_' : /\ index_'[g] \in 1..n - 1
                             /\ pollfds_'[index_'[g]] = EntryOf(g)'
                             /\ g # last => index_'[g] = index_[g]
                             /\ g = last => index_'[g] = i
  <2> TAKE g \in channels_'
  <2>1. g \in channels_ /\ g # fd
    BY <1>6
  <2>2. CASE g = last
    <3>1. i < n
      BY <1>1, <1>2, <1>4, <1>12, <2>1, <2>2
    <3>2. index_'[g] = i
      BY <1>6, <1>10, <2>1, <2>2, <3>1
    <3> QED  BY <1>1, <1>2, <1>5, <1>8, <1>10, <2>1, <2>2, <3>1, <3>2
  <2>3. CASE g # last
    <3>1. index_'[g] = index_[g]
      BY <1>6, <1>10, <2>1, <2>3
    <3>2. index_[g] # n /\ index_[g] # i
      BY <1>11, <1>12, <2>1, <2>3
    <3>3. index_[g] \in 1..n - 1
      BY <1>1, <1>10, <2>1, <3>2
    <3> QED  BY <1>8, <1>10, <2>1, <2>3, <3>1, <3>2, <3>3
  <2> QED  BY <2>2, <2>3
<1>14. \A j \in 1..n - 1 : \E g \in channels_' : index_'[g] = j
  <2> TAKE j \in 1..n - 1
  <2>1. CASE j = i
    <3>1. last # fd
      BY <1>1, <1>4, <2>1
    <3> QED  BY <1>4, <1>6, <1>13, <2>1, <3>1
  <2>2. CASE j # i
    <3>1. j \in 1..n /\ j # n
      BY <1>1
    <3>2. PICK g \in channels_ : index_[g] = j
      BY <3>1 DEF PollIInv, Matched
    <3>3. g # fd /\ g # last
      BY <1>4, <2>2, <3>1, <3>2
    <3> QED  BY <1>6, <1>13, <3>2, <3>3
  <2> QED  BY <2>1, <2>2
<1>15. \A g, h \in channels_' : index_'[g] = index_'[h] => g = h
  <2> TAKE g, h \in channels_'
  <2>1. g \in channels_ /\ h \in channels_ /\ g # fd /\ h # fd
    BY <1>6
  <2>2. index_[g] = index_[h] => g = h
    BY <2>1 DEF PollIInv, Matched
  <2>3. index_[g] # i /\ index_[h] # i
    BY <1>12, <2>1
  <2> QED  BY <1>13, <2>2, <2>3
<1>16. \A g \in exists' \ channels_' : g \in removed' <=> index_'[g] # 0
  BY <1>1, <1>2, <1>4, <1>6, <1>10 DEF PollIInv, PollTypeOK, Matched
<1>17. removed' \intersect channels_' = {}
  BY <1>6 DEF PollIInv, Matched
<1>18. Matched'
  BY <1>6, <1>8, <1>13, <1>14, <1>15, <1>16, <1>17 DEF Matched
<1> QED  BY <1>9, <1>18 DEF PollIInv

\* The kernel reports channels the Poller knows.
LEMMA VisibleKnown == ASSUME PollIInv PROVE Visible \subseteq channels_
<1> SUFFICES ASSUME NEW j \in DOMAIN pollfds_, pollfds_[j].fd >= 0
             PROVE  pollfds_[j].fd \in channels_
  BY DEF Visible
<1>1. pollfds_ \in Seq(Entry) /\ j \in 1..Len(pollfds_)
  BY DEF PollIInv, PollTypeOK, Entry
<1>2. PICK g \in channels_ : index_[g] = j
  BY <1>1 DEF PollIInv, Matched
<1>3. pollfds_[j] = EntryOf(g) /\ g \in Nat
  BY <1>2, OwnerOfEntry DEF PollIInv, Matched
<1>4. EntryOf(g).fd = g
  BY <1>3 DEF EntryOf, Hidden
<1> QED  BY <1>3, <1>4

LEMMA PollNextIInv ==
    ASSUME ~EmptyFirst, PollIInv, [PollNext]_pollVars
    PROVE  PollIInv'
<1>1. ASSUME NEW fd \in Fds, PollNewChannel(fd) PROVE PollIInv'
  <2>1. fd \notin channels_ /\ fd \notin removed
    BY <1>1 DEF PollNewChannel, Construct, PollIInv, PollTypeOK
  <2>2. PollTypeOK'
    BY <1>1 DEF PollNewChannel, Construct, PollIInv, PollTypeOK
  <2>3. \A g \in channels_ : index_'[g] = index_[g] /\ EntryOf(g)' = EntryOf(g)
    BY <1>1, <2>1 DEF PollNewChannel, Construct, PollIInv, PollTypeOK, EntryOf
  <2>4. \A g \in exists' \ channels_' : g \in removed' <=> index_'[g] # 0
    BY <1>1, <2>1 DEF PollNewChannel, Construct, PollIInv, PollTypeOK, Matched
  <2>5. Matched'
    BY <1>1, <2>3, <2>4 DEF PollNewChannel, Construct, PollIInv, Matched
  <2> QED  BY <2>2, <2>5 DEF PollIInv
<1>2. ASSUME NEW fd \in Fds, PollCloseChannel(fd) PROVE PollIInv'
  <2>1. PollTypeOK'
    BY <1>2 DEF PollCloseChannel, Destroy, PollIInv, PollTypeOK
  <2>2. \A g \in channels_ : EntryOf(g)' = EntryOf(g)
    BY <1>2 DEF PollCloseChannel, Destroy, EntryOf
  <2>3. Matched'
    BY <1>2, <2>2 DEF PollCloseChannel, Destroy, PollIInv, Matched
  <2> QED  BY <2>1, <2>3 DEF PollIInv
<1>3. CASE PollOnce
  <2>1. active' \subseteq channels_ /\ violations' = {}
    BY <1>3, VisibleKnown DEF PollOnce, Assert, PollIInv, Matched
  <2>2. PollTypeOK'
    BY <1>3, <2>1 DEF PollOnce, PollIInv, PollTypeOK
  <2>3. \A g \in channels_ : EntryOf(g)' = EntryOf(g)
    BY <1>3 DEF PollOnce, EntryOf
  <2>4. Matched'
    BY <1>3, <2>1, <2>3 DEF PollOnce, PollIInv, Matched
  <2> QED  BY <2>2, <2>4 DEF PollIInv
<1>4. CASE UNCHANGED pollVars
  BY <1>4 DEF pollVars, PollIInv, PollTypeOK, Matched, EntryOf
<1> QED  BY <1>1, <1>2, <1>3, <1>4, FirstUpdateIInv, LaterUpdateIInv, PollRemoveIInv DEF PollNext

LEMMA PollInvImplies == PollIInv => IndexMatchesArray
<1> SUFFICES ASSUME PollIInv PROVE IndexMatchesArray
  OBVIOUS
<1>1. pollfds_ \in Seq(Entry) /\ DOMAIN pollfds_ = 1..Len(pollfds_)
  BY DEF PollIInv, PollTypeOK, Entry
<1>2. \A fd \in channels_ :
         /\ index_[fd] \in DOMAIN pollfds_
         /\ pollfds_[index_[fd]].events = events_[fd]
         /\ pollfds_[index_[fd]].fd < 0 <=> events_[fd] = {}
         /\ Owner(pollfds_[index_[fd]].fd) = fd
  <2> TAKE fd \in channels_
  <2>1. index_[fd] \in DOMAIN pollfds_ /\ pollfds_[index_[fd]] = EntryOf(fd)
    BY <1>1 DEF PollIInv, Matched
  <2>2. EntryOf(fd).events = events_[fd]
    BY DEF EntryOf
  <2> QED  BY <2>1, <2>2, OwnerOfEntry
<1>3. \A i \in DOMAIN pollfds_ : \E fd \in channels_ : index_[fd] = i
  BY <1>1 DEF PollIInv, Matched
<1>4. violations = {}
  BY DEF PollIInv, Matched
<1> QED  BY <1>2, <1>3, <1>4 DEF IndexMatchesArray

\* In every behaviour of PollPoller whose channels first ask for an event,
\* the positions the channels remember and the array agree, through every
\* hiding, swap and reuse of a descriptor, and no assertion of
\* updateChannel, removeChannel or fillActiveChannels fails.
THEOREM ArrayMatched ==
    ASSUME ~EmptyFirst
    PROVE  PollSpec => []IndexMatchesArray
<1>1. PollIInv /\ [PollNext]_pollVars => PollIInv'
  BY PollNextIInv
<1> QED  BY <1>1, PollInitIInv, PollInvImplies, PTL DEF PollSpec

-----------------------------------------------------------------------------
(* Refinement *)

Wanted == [fd \in Fds |-> IF fd \in channels_ THEN events_[fd] ELSE {}]

\* The kernel watches what the known channels want, and nothing else.
LEMMA WatchedIsWanted == PollIInv => Watched = Wanted
<1> SUFFICES ASSUME PollIInv, NEW fd \in Fds
             PROVE  UNION {pollfds_[i].events : i \in {j \in DOMAIN pollfds_ : pollfds_[j].fd = fd}}
                       = IF fd \in channels_ THEN events_[fd] ELSE {}
  BY DEF Watched, Wanted
<1> DEFINE mine == {j \in DOMAIN pollfds_ : pollfds_[j].fd = fd}
<1>1. pollfds_ \in Seq(Entry) /\ DOMAIN pollfds_ = 1..Len(pollfds_) /\ fd \in Nat
  BY PollAssumption DEF PollIInv, PollTypeOK, Entry
<1>2. ASSUME NEW j \in mine
      PROVE  fd \in channels_ /\ j = index_[fd] /\ pollfds_[j].events = events_[fd]
  <2>1. PICK g \in channels_ : index_[g] = j
    BY <1>1 DEF PollIInv, Matched
  <2>2. pollfds_[j] = EntryOf(g) /\ Owner(EntryOf(g).fd) = g
    BY <2>1, OwnerOfEntry DEF PollIInv, Matched
  <2>3. EntryOf(g).fd = fd
    BY <2>2
  <2>4. g = fd
    BY <1>1, <2>2, <2>3 DEF Owner
  <2> QED  BY <2>1, <2>2, <2>4 DEF EntryOf
<1>3. CASE fd \in channels_ /\ events_[fd] # {}
  <2>1. index_[fd] \in DOMAIN pollfds_ /\ pollfds_[index_[fd]] = EntryOf(fd)
    BY <1>1, <1>3 DEF PollIInv, Matched
  <2>2. EntryOf(fd).fd = fd
    BY <1>3 DEF EntryOf
  <2>3. index_[fd] \in mine
    BY <2>1, <2>2
  <2>4. {pollfds_[j].events : j \in mine} = {events_[fd]}
    BY <1>2, <2>3
  <2> QED  BY <1>3, <2>4
<1>4. CASE fd \in channels_ /\ events_[fd] = {}
  <2>1. \A j \in mine : pollfds_[j].events = {}
    BY <1>2, <1>4
  <2> QED  BY <1>4, <2>1
<1>5. CASE fd \notin channels_
  <2>1. mine = {}
    BY <1>2, <1>5
  <2> QED  BY <1>5, <2>1
<1> QED  BY <1>3, <1>4, <1>5

LEMMA WatchedIsWantedNext == PollIInv' => Watched' = Wanted'
<1>1. (PollIInv => Watched = Wanted)'
  BY WatchedIsWanted, PTL
<1> QED  BY <1>1

\* Every step of PollPoller is a step of Poller on what the array asks the
\* kernel for, or changes nothing of it.
LEMMA StepImplements ==
    ASSUME ~EmptyFirst, PollIInv, [PollNext]_pollVars
    PROVE  [PollAbstract!PollerNext]_(PollAbstract!pollerVars)
<1> USE DEF PollAbstract!pollerVars
<1>1. Watched = Wanted /\ Watched' = Wanted'
  BY WatchedIsWanted, WatchedIsWantedNext, PollNextIInv
<1>2. ASSUME NEW fd \in Fds, NEW ev \in Change(fd),
             FirstUpdate(fd, ev) \/ LaterUpdate(fd, ev)
      PROVE  PollAbstract!PollerNext
  <2>1. ev \in SUBSET Events
    BY ChangeType DEF PollIInv, PollTypeOK
  <2>2. /\ channels_' = channels_ \union {fd}
        /\ events_' = [events_ EXCEPT ![fd] = ev]
        /\ active' = active
    BY <1>2, LaterUpdateIInv DEF FirstUpdate, LaterUpdate
  <2>3. Wanted' = [Wanted EXCEPT ![fd] = ev]
    BY <2>2 DEF Wanted, PollIInv, PollTypeOK
  <2>4. PollAbstract!Update(fd, ev)
    BY <1>1, <2>2, <2>3 DEF PollAbstract!Update
  <2> QED  BY <2>1, <2>4 DEF PollAbstract!PollerNext, PollAbstract!Events, Events
<1>3. ASSUME NEW fd \in Fds, PollRemoveChannel(fd)
      PROVE  PollAbstract!PollerNext
  <2>1. /\ fd \in channels_ /\ events_[fd] = {}
        /\ channels_' = channels_ \ {fd}
        /\ UNCHANGED <<events_, active>>
    BY <1>3 DEF PollRemoveChannel
  <2>2. Wanted' = Wanted /\ Wanted[fd] = {}
    BY <2>1 DEF Wanted
  <2>3. PollAbstract!Remove(fd)
    BY <1>1, <2>1, <2>2 DEF PollAbstract!Remove
  <2> QED  BY <2>3 DEF PollAbstract!PollerNext
<1>4. ASSUME NEW fd \in Fds, PollNewChannel(fd) \/ PollCloseChannel(fd)
      PROVE  UNCHANGED PollAbstract!pollerVars
  <2>1. channels_' = channels_ /\ active' = active
    BY <1>4 DEF PollNewChannel, Construct, PollCloseChannel, Destroy
  <2>2. \A g \in channels_ : events_'[g] = events_[g]
    BY <1>4 DEF PollNewChannel, Construct, PollCloseChannel, Destroy, PollIInv, PollTypeOK
  <2>3. Wanted' = Wanted
    BY <2>1, <2>2 DEF Wanted
  <2> QED  BY <1>1, <2>1, <2>3
<1>5. CASE PollOnce
  <2>1. active' \subseteq channels_
    BY <1>5, VisibleKnown DEF PollOnce
  <2>2. UNCHANGED <<channels_, Wanted>>
    BY <1>5 DEF PollOnce, Wanted
  <2>3. PollAbstract!Poll
    BY <1>1, <2>1, <2>2 DEF PollAbstract!Poll
  <2> QED  BY <2>3 DEF PollAbstract!PollerNext
<1>6. CASE UNCHANGED pollVars
  <2>1. UNCHANGED <<channels_, active, Wanted>>
    BY <1>6 DEF pollVars, Wanted
  <2> QED  BY <1>1, <2>1
<1> QED  BY <1>2, <1>3, <1>4, <1>5, <1>6 DEF PollNext

\* PollPoller implements Poller: the array asks the kernel for what the
\* known channels want, and poll returns only channels of the map.
THEOREM ArrayImplementsPoller ==
    ASSUME ~EmptyFirst
    PROVE  PollSpec => PollImplementsPoller
<1>1. PollIInv /\ [PollNext]_pollVars => PollIInv'
  BY PollNextIInv
<1>2. PollIInv /\ [PollNext]_pollVars => [PollAbstract!PollerNext]_(PollAbstract!pollerVars)
  BY StepImplements
<1>3. PollInit => PollAbstract!PollerInit
  BY DEF PollInit, NoChannels, PollAbstract!PollerInit, Watched
<1> QED
  BY <1>1, <1>2, <1>3, PollInitIInv, PTL DEF PollSpec, PollImplementsPoller, PollAbstract!PollerSpec
=============================================================================
