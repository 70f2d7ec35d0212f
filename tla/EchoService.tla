----------------------------- MODULE EchoService -----------------------------
(***************************************************************************)
(* The protocol every flavor of the echo server implements (README.md:     *)
(* "accept a TCP connection, read data, echo it back, repeat until         *)
(* disconnect"), seen from the clients: what comes back on a connection is *)
(* a prefix of what was sent on it, and the server ends a connection only  *)
(* when its client has disconnected and every byte is on its way back, or  *)
(* when its client has reset it.                                           *)
(***************************************************************************)
EXTENDS Naturals, Sequences

CONSTANT Clients    \* each opens one connection

VARIABLES sent,     \* how many bytes each client has sent
          echo,     \* the bytes the server has written to each client
          hungUp,   \* clients that have disconnected ...
          reset,    \* ... and those that can receive nothing any more
          ended     \* connections the server has closed

echoVars == <<sent, echo, hungUp, reset, ended>>

\* The first n bytes of c's stream; byte i of client c is the pair <<c, i>>.
Stream(c, n) == [i \in 1..n |-> <<c, i>>]

Init ==
    /\ sent = [c \in Clients |-> 0]
    /\ echo = [c \in Clients |-> <<>>]
    /\ hungUp = {}
    /\ reset = {}
    /\ ended = {}

SendByte(c) ==
    /\ c \notin hungUp
    /\ sent' = [sent EXCEPT ![c] = @ + 1]
    /\ UNCHANGED <<echo, hungUp, reset, ended>>

HangUp(c) ==
    /\ c \notin reset
    /\ hungUp' = hungUp \cup {c}
    /\ reset' \in {reset, reset \cup {c}}
    /\ UNCHANGED <<sent, echo, ended>>

EchoBytes(c) ==
    /\ c \notin ended
    /\ \E n \in Len(echo[c]) + 1 .. sent[c] :
          echo' = [echo EXCEPT ![c] = Stream(c, n)]
    /\ UNCHANGED <<sent, hungUp, reset, ended>>

End(c) ==
    /\ c \in reset \/ (c \in hungUp /\ echo[c] = Stream(c, sent[c]))
    /\ ended' = ended \cup {c}
    /\ UNCHANGED <<sent, echo, hungUp, reset>>

Next == \E c \in Clients : SendByte(c) \/ HangUp(c) \/ EchoBytes(c) \/ End(c)

Spec == Init /\ [][Next]_echoVars

=============================================================================
