----------------------------- MODULE PollPoller -----------------------------
(***************************************************************************)
(* net/PollPoller: the Poller on poll(2).  pollfds_ is the array given to  *)
(* the kernel; each channel remembers its position in it (index_), a       *)
(* channel without events is hidden by the negative descriptor -fd-1, and  *)
(* removal swaps the entry with the last one.  Positions count from 1 here *)
(* and from 0 in the code; index 0 stands for the code's -1.               *)
(***************************************************************************)
EXTENDS Channel, Integers, Sequences

CONSTANTS EmptyFirst   \* a channel's first update may be with no events

ASSUME PollAssumption ==
    /\ Fds \subseteq Nat
    /\ EmptyFirst \in BOOLEAN

VARIABLES
    removed,   \* channels that were removed and still exist
    pollfds_,  \* sequence of [fd, events]
    violations \* assertions that failed

pollVars == <<exists, events_, index_, removed, channels_, pollfds_, active,
             violations>>

Hidden(fd) == -fd - 1

\* The channel an entry belongs to, hidden or not.
Owner(fd) == IF fd < 0 THEN -fd - 1 ELSE fd

Assert(condition, place) == IF condition THEN {} ELSE {place}

PollInit ==
    /\ NoChannels(0)
    /\ removed = {}
    /\ pollfds_ = <<>>
    /\ violations = {}

PollNewChannel(fd) ==
    /\ Construct(fd, 0)
    /\ UNCHANGED <<removed, pollfds_, violations>>

PollCloseChannel(fd) ==
    /\ Destroy(fd)
    /\ removed' = removed \ {fd}
    /\ UNCHANGED <<pollfds_, violations>>

-----------------------------------------------------------------------------
(* updateChannel *)

\* The first update appends an entry, with the plain descriptor.
FirstUpdate(fd, ev) ==
    /\ fd \in exists
    /\ index_[fd] = 0
    /\ ev # {} \/ EmptyFirst
    /\ violations' = violations
            \union Assert(fd \notin channels_, "PollPoller.cc:59")
    /\ events_' = [events_ EXCEPT ![fd] = ev]
    /\ pollfds_' = Append(pollfds_, [fd |-> fd, events |-> ev])
    /\ index_' = [index_ EXCEPT ![fd] = Len(pollfds_) + 1]
    /\ channels_' = channels_ \union {fd}
    /\ UNCHANGED <<exists, removed, active>>

\* The entry of a channel that is updated again.
EntryFor(fd, ev) == [fd     |-> IF ev = {} THEN Hidden(fd) ELSE fd,
                     events |-> ev]

\* Channels are destroyed, not updated, once they are removed: their index
\* is stale by then.
LaterUpdate(fd, ev) ==
    /\ fd \in exists
    /\ index_[fd] > 0
    /\ fd \notin removed
    /\ events_' = [events_ EXCEPT ![fd] = ev]
    /\ LET i  == index_[fd]
           ok == /\ fd \in channels_
                 /\ i \in DOMAIN pollfds_
                 /\ Owner(pollfds_[i].fd) = fd
       IN  /\ violations' = violations
                  \union Assert(fd \in channels_, "PollPoller.cc:69")
                  \union Assert(fd \in channels_ => ok, "PollPoller.cc:74")
           /\ pollfds_' = IF ok THEN [pollfds_ EXCEPT ![i] = EntryFor(fd, ev)]
                                ELSE pollfds_
    /\ UNCHANGED <<exists, removed, index_, channels_, active>>

-----------------------------------------------------------------------------
(* removeChannel *)

Last == pollfds_[Len(pollfds_)]

\* The swap is left out: the last entry is dropped whatever i is.
DropEntry_NoSwap(i) == [j \in 1..Len(pollfds_) - 1 |-> pollfds_[j]]

\* The entry at i leaves the array, and the last one takes its place.
DropEntry(i) ==
    [j \in 1..Len(pollfds_) - 1 |-> IF j = i THEN Last ELSE pollfds_[j]]

\* The swap without set_index on the channel that moved.
Reindex_Forgotten(i) == UNCHANGED index_

\* The channel of the last entry, hidden or not, learns its new position.
\* The index of the removed channel is left as it was.
Reindex(i) ==
    index_' = [fd \in Fds |->
                  IF i < Len(pollfds_) /\ fd = Owner(Last.fd) THEN i
                  ELSE index_[fd]]

PollRemoveChannel(fd) ==
    /\ fd \in channels_
    /\ events_[fd] = {}
    /\ LET i == index_[fd] IN
       /\ violations' = violations
              \union Assert(/\ i \in DOMAIN pollfds_
                            /\ pollfds_[i].fd = Hidden(fd)
                            /\ pollfds_[i].events = {}, "PollPoller.cc:95")
       /\ pollfds_' = DropEntry(i)
       /\ Reindex(i)
    /\ channels_' = channels_ \ {fd}
    /\ removed' = removed \union {fd}
    /\ UNCHANGED <<exists, events_, active>>

-----------------------------------------------------------------------------

\* poll and fillActiveChannels: the kernel skips negative descriptors.
Visible == {pollfds_[i].fd : i \in {j \in DOMAIN pollfds_ :
                                      pollfds_[j].fd >= 0}}

PollOnce ==
    /\ active' \in SUBSET Visible
    /\ violations' = violations
           \union Assert(active' \subseteq channels_, "PollPoller.cc:45")
    /\ UNCHANGED <<exists, events_, index_, removed, channels_, pollfds_>>

PollNext ==
    /\ violations = {}
    /\ \/ \E fd \in Fds :
             \/ PollNewChannel(fd)
             \/ \E ev \in Change(fd) :
                   FirstUpdate(fd, ev) \/ LaterUpdate(fd, ev)
             \/ PollRemoveChannel(fd)
             \/ PollCloseChannel(fd)
       \/ PollOnce

PollSpec == PollInit /\ [][PollNext]_pollVars

-----------------------------------------------------------------------------
(* Properties *)

PollTypeOK ==
    /\ exists \subseteq Fds
    /\ events_ \in [Fds -> SUBSET Events]
    /\ index_ \in [Fds -> Nat]
    /\ removed \subseteq exists
    /\ channels_ \subseteq exists
    /\ pollfds_ \in Seq([fd : Int, events : SUBSET Events])
    /\ active \subseteq Fds

\* The positions the channels remember and the array agree in both
\* directions, across every update, hiding, swap and reuse of a descriptor,
\* each entry asks for what its channel wants, and none of the assertions of
\* updateChannel, removeChannel and fillActiveChannels fails.
IndexMatchesArray ==
    /\ violations = {}
    /\ \A fd \in channels_ :
          /\ index_[fd] \in DOMAIN pollfds_
          /\ pollfds_[index_[fd]].events = events_[fd]
          /\ ~EmptyFirst => (pollfds_[index_[fd]].fd < 0 <=> events_[fd] = {})
    /\ \A i \in DOMAIN pollfds_ :
          LET fd == Owner(pollfds_[i].fd) IN
          fd \in channels_ /\ index_[fd] = i

\* The events the kernel is asked for, read off the array.
Watched == [fd \in Fds |->
               UNION {pollfds_[i].events : i \in {j \in DOMAIN pollfds_ :
                                                    pollfds_[j].fd = fd}}]

\* The kernel watches what the channels want, and reports only channels the
\* Poller knows.
PollAbstract == INSTANCE Poller WITH known <- channels_, interest <- Watched

PollImplementsPoller == PollAbstract!PollerSpec
=============================================================================
