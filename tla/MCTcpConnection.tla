-------------------------- MODULE MCTcpConnection --------------------------
(* Small instances of TcpConnection: the programs that use the library.    *)
(* A program that calls fewer operations has fewer behaviours, so the      *)
(* disciplined programs below are the largest ones.                        *)
EXTENDS TcpConnection

SharedBy(loop, thread) ==
    [loop |-> loop, thread |-> thread, drops |-> FALSE, lateRead |-> FALSE]

Closing    == SharedBy({"send", "startRead", "shutdown", "forceClose",
                        "forceCloseWithDelay"}, {"send"})
Pausing    == SharedBy({"send", "shutdown", "startRead", "stopRead"},
                       {"send"})
Destroying == SharedBy({"send", "startRead", "stopRead", "destroyServer"},
                       {"send"})

\* The other thread closes the connection, and lets its pointer go.
Racing == [loop |-> {"send"}, thread |-> {"send", "shutdown", "forceClose"},
           drops |-> TRUE, lateRead |-> FALSE]

AllClients     == {Closing, Pausing, Destroying, Racing}
ClosingClients == {SharedBy(Closing.loop, {})}

\* A program that trips over an assertion of the code.
ForceCloseRace == {SharedBy({}, {"forceClose"})}
=============================================================================
