------------------------------- MODULE Poller -------------------------------
(***************************************************************************)
(* What a Poller promises Channel and EventLoop, whichever system call it  *)
(* is built on: it knows a set of channels, asks the kernel for exactly    *)
(* the events each of them wants, and poll returns channels it knows.      *)
(* Channels are named by their descriptors.                                *)
(***************************************************************************)
CONSTANTS Fds

VARIABLES known,     \* channels_: the channels updated and not yet removed
          interest,  \* the events the kernel is asked for, per descriptor
          active     \* what the last poll returned

pollerVars == <<known, interest, active>>

Events == {"read", "write"}

PollerInit ==
    /\ known = {}
    /\ interest = [fd \in Fds |-> {}]
    /\ active = {}

Update(fd, ev) ==
    /\ known' = known \union {fd}
    /\ interest' = [interest EXCEPT ![fd] = ev]
    /\ UNCHANGED active

\* Only a channel without events may be removed, and nothing else changes.
Remove(fd) ==
    /\ fd \in known
    /\ interest[fd] = {}
    /\ known' = known \ {fd}
    /\ UNCHANGED <<interest, active>>

Poll ==
    /\ active' \subseteq known
    /\ UNCHANGED <<known, interest>>

PollerNext ==
    \/ \E fd \in Fds : Remove(fd) \/ \E ev \in SUBSET Events : Update(fd, ev)
    \/ Poll

PollerSpec == PollerInit /\ [][PollerNext]_pollerVars
=============================================================================
