----------------------------- MODULE ByteQueue -----------------------------
(***************************************************************************)
(* What net/Buffer promises: a sequence of bytes that grows at both ends,  *)
(* is consumed at the front, and can be searched.  Nothing here knows of   *)
(* indices or of memory.  An integer is the sequence of its bytes, least   *)
(* significant first, as a little-endian host stores it; in the queue it   *)
(* lies most significant first.                                            *)
(***************************************************************************)
EXTENDS Naturals, Sequences

CONSTANTS Data,    \* the byte strings that are written
          Ints,    \* the integers that are written
          Lens,    \* the lengths that are asked for
          CR, LF

VARIABLES content,  \* the readable bytes
          call      \* the last operation: its name, argument and answer

queueVars == <<content, call>>

\* The bytes of x in the opposite order.
Mirror(x) == [i \in 1..Len(x) |-> x[Len(x) + 1 - i]]

First(n) == SubSeq(content, 1, n)
Rest(n) == SubSeq(content, n + 1, Len(content))

Does(name, arg, answer) == call' = <<name, arg, answer>>

Append_(d) == content' = content \o d /\ Does("append", d, <<>>)
AppendInt(x) == content' = content \o Mirror(x) /\ Does("appendInt", x, <<>>)
Prepend(d) == content' = d \o content /\ Does("prepend", d, <<>>)
PrependInt(x) == content' = Mirror(x) \o content /\ Does("prependInt", x, <<>>)

\* Operations that only prepare memory.
Prepare(name, n) == content' = content /\ Does(name, <<n>>, <<>>)

Unwrite(n) ==
    /\ n <= Len(content)
    /\ content' = First(Len(content) - n)
    /\ Does("unwrite", <<n>>, <<>>)

Retrieve(n) ==
    /\ n <= Len(content)
    /\ content' = Rest(n)
    /\ \/ Does("retrieve", <<n>>, <<>>)
       \/ Does("retrieveAsString", <<n>>, First(n))
       \/ Does("readInt", <<n>>, Mirror(First(n)))

PeekInt(n) ==
    /\ n <= Len(content)
    /\ content' = content
    /\ Does("peekInt", <<n>>, Mirror(First(n)))

\* Where pattern p begins, at offset n or later.
Matches(p, n) == {i \in n..Len(content) - Len(p) :
                     \A j \in 1..Len(p) : content[i + j] = p[j]}

\* The first match, or nothing.
Find(name, p, n) ==
    /\ n <= Len(content)
    /\ content' = content
    /\ \/ /\ Matches(p, n) = {}
          /\ Does(name, <<n>>, <<>>)
       \/ \E i \in Matches(p, n) :
             /\ \A k \in Matches(p, n) : i <= k
             /\ Does(name, <<n>>, <<i>>)

QueueInit == content = <<>> /\ call = <<"new", <<>>, <<>>>>

QueueNext ==
    \/ \E d \in Data : Append_(d) \/ Prepend(d)
    \/ \E x \in Ints : AppendInt(x) \/ PrependInt(x)
    \/ \E n \in Lens :
          \/ Prepare("ensureWritableBytes", n) \/ Prepare("shrink", n)
          \/ Unwrite(n)
          \/ Retrieve(n)
          \/ PeekInt(n)
          \/ Find("findCRLF", <<CR, LF>>, n)
          \/ Find("findEOL", <<LF>>, n)

QueueSpec == QueueInit /\ [][QueueNext]_queueVars
=============================================================================
