------------------------------ MODULE Channel ------------------------------
(***************************************************************************)
(* net/Channel, as the two Pollers see it: a descriptor's Channel object,  *)
(* the events it wants, and the index in which a Poller keeps what it has  *)
(* made of them.  EPollPoller and PollPoller extend this module.           *)
(***************************************************************************)
CONSTANTS Fds

VARIABLES
    exists,    \* descriptors that have a Channel object
    events_,   \* the events each channel wants
    index_,    \* the Poller's mark on each channel
    channels_, \* the Poller's map, as the set of its keys
    active     \* activeChannels of the last poll

Events == {"read", "write"}

NoChannels(noIndex) ==
    /\ exists = {}
    /\ events_ = [fd \in Fds |-> {}]
    /\ index_ = [fd \in Fds |-> noIndex]
    /\ channels_ = {}
    /\ active = {}

\* Channel's constructor, on a descriptor that is free.
Construct(fd, noIndex) ==
    /\ fd \notin exists
    /\ exists' = exists \union {fd}
    /\ events_' = [events_ EXCEPT ![fd] = {}]
    /\ index_' = [index_ EXCEPT ![fd] = noIndex]
    /\ UNCHANGED <<channels_, active>>

\* ~Channel, which asserts that the Poller does not know the channel.
Destroy(fd) ==
    /\ fd \in exists \ channels_
    /\ exists' = exists \ {fd}
    /\ UNCHANGED <<events_, index_, channels_, active>>

\* What the enable and disable operations make of a channel's events.
Change(fd) ==
    {events_[fd] \union {e} : e \in Events}
        \union {events_[fd] \ {e} : e \in Events}
        \union {{}}
=============================================================================
