---------------------------- MODULE EPollPoller ----------------------------
(***************************************************************************)
(* net/EpollPoller: the Poller on epoll.  Channels are created with index  *)
(* kNew, change their events any number of times, are removed and          *)
(* destroyed; then the descriptor may be closed and reused by a new        *)
(* channel.  The kernel's side is the set of registered descriptors and    *)
(* the mask each is registered with; epoll_wait may report any registered  *)
(* descriptor, because hang-ups and errors need no mask.                   *)
(***************************************************************************)
EXTENDS Channel

VARIABLES
    epollfd_,  \* descriptors the kernel has registered
    mask,      \* the events they are registered with
    ctlErrors  \* epoll_ctl calls that failed

vars == <<exists, events_, index_, channels_, epollfd_, mask, active,
          ctlErrors>>

Init ==
    /\ NoChannels("kNew")
    /\ epollfd_ = {}
    /\ mask = [fd \in Fds |-> {}]
    /\ ctlErrors = {}

NewChannel(fd) ==
    /\ Construct(fd, "kNew")
    /\ UNCHANGED <<epollfd_, mask, ctlErrors>>

\* epoll_ctl: ADD fails on a registered descriptor, MOD and DEL on others.
EpollCtl(op, fd, ev) ==
    LET ok == (op = "ADD") <=> (fd \notin epollfd_) IN
    /\ ctlErrors' = ctlErrors \union (IF ok THEN {} ELSE {<<op, fd>>})
    /\ epollfd_' = IF ~ok THEN epollfd_
                   ELSE IF op = "DEL" THEN epollfd_ \ {fd}
                   ELSE epollfd_ \union {fd}
    /\ mask' = IF ~ok THEN mask
               ELSE [mask EXCEPT ![fd] = IF op = "DEL" THEN {} ELSE ev]

\* updateChannel that has no deleted state: DEL leaves the index alone.
UpdateIndex_ForgetsDeleted(fd, ev) ==
    index_' = [index_ EXCEPT ![fd] = "kAdded"]

\* set_index in updateChannel.
UpdateIndex(fd, ev) ==
    index_' = [index_ EXCEPT ![fd] =
                  IF index_[fd] = "kAdded" /\ ev = {} THEN "kDeleted"
                                                      ELSE "kAdded"]

\* Channel::update with the events ev: updateChannel.
UpdateChannel(fd, ev) ==
    /\ fd \in exists
    /\ events_' = [events_ EXCEPT ![fd] = ev]
    /\ channels_' = channels_ \union {fd}
    /\ UpdateIndex(fd, ev)
    /\ EpollCtl(IF index_[fd] # "kAdded" THEN "ADD"
                ELSE IF ev = {} THEN "DEL" ELSE "MOD", fd, ev)
    /\ UNCHANGED <<exists, active>>

\* removeChannel that relies on disableAll to have deregistered.
Deregister_Never(fd) == UNCHANGED <<epollfd_, mask, ctlErrors>>

\* A channel that is still registered, with an empty mask, is deleted now.
Deregister(fd) ==
    IF index_[fd] = "kAdded" THEN EpollCtl("DEL", fd, {})
    ELSE UNCHANGED <<epollfd_, mask, ctlErrors>>

\* Channel::remove.
RemoveChannel(fd) ==
    /\ fd \in channels_
    /\ events_[fd] = {}
    /\ channels_' = channels_ \ {fd}
    /\ Deregister(fd)
    /\ index_' = [index_ EXCEPT ![fd] = "kNew"]
    /\ UNCHANGED <<exists, events_, active>>

\* A removed channel is destroyed and its descriptor closed, which takes it
\* out of the epoll set in any case.
CloseChannel(fd) ==
    /\ Destroy(fd)
    /\ epollfd_' = epollfd_ \ {fd}
    /\ mask' = [mask EXCEPT ![fd] = {}]
    /\ UNCHANGED ctlErrors

\* poll and fillActiveChannels.
Poll ==
    /\ active' \in SUBSET epollfd_
    /\ UNCHANGED <<exists, events_, index_, channels_, epollfd_, mask,
                   ctlErrors>>

Next ==
    \/ \E fd \in Fds :
          \/ NewChannel(fd)
          \/ \E ev \in Change(fd) : UpdateChannel(fd, ev)
          \/ RemoveChannel(fd)
          \/ CloseChannel(fd)
    \/ Poll

Spec == Init /\ [][Next]_vars

-----------------------------------------------------------------------------
(* Properties *)

TypeOK ==
    /\ exists \subseteq Fds
    /\ events_ \in [Fds -> SUBSET Events]
    /\ index_ \in [Fds -> {"kNew", "kAdded", "kDeleted"}]
    /\ channels_ \subseteq exists
    /\ epollfd_ \subseteq Fds
    /\ mask \in [Fds -> SUBSET Events]
    /\ active \subseteq Fds

\* index_ is all the Poller knows of the kernel, and it is right: so no
\* epoll_ctl fails (for ADD and MOD that would be fatal, line 164), and the
\* assertions of updateChannel and removeChannel hold.
IndexTellsKernel ==
    /\ \A fd \in Fds :
          /\ index_[fd] = "kAdded" <=> fd \in epollfd_
          /\ index_[fd] = "kNew" <=> fd \notin channels_
    /\ ctlErrors = {}

\* The kernel watches what the channels want, and reports only channels the
\* Poller knows.
Abstract == INSTANCE Poller WITH known <- channels_, interest <- mask

ImplementsPoller == Abstract!PollerSpec
=============================================================================
