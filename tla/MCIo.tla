-------------------------------- MODULE MCIo --------------------------------
(* The modules about bytes in pipes, sockets and files, for TLC: read_all   *)
(* and write_all (PipeIo), servers and clients (Sockets) and a              *)
(* here-document (FileIo).  They share no state of the code: which says     *)
(* which of them a behaviour is of, and the state of the others stays as it *)
(* was at first.                                                            *)
EXTENDS Io

CONSTANTS w1, w2

VARIABLE which

\* Two writers whose buffers fill the pipe or exceed it, and a reader whose
\* buffer is larger than what either sends and smaller than what both send.
MCWriters == {w1, w2}
MCWLen == [w \in MCWriters |-> IF w = w1 THEN 3 ELSE 2]

\* Two clients, of which one waits while the other's connection fills the
\* queue; ports whose two bytes differ.
MCRequests == [c \in Clients |-> IF c = "c1" THEN <<1, 2>> ELSE <<3, 4>>]

MCBody == <<1, 2, 3>>
MCSegments == <<1, 2>>

MCvars == <<which, vars, nvars, hvars>>

MCInit ==
    /\ which \in {"pipe", "sockets", "file"}
    /\ IF which = "pipe" THEN Init ELSE nonblock = {} /\ Init
    /\ IF which = "sockets" THEN N!Init
       ELSE conf = [family |-> N!AF_INET, ty |-> N!SOCK_STREAM] /\ N!Init
    /\ H!Init

IsPipe(A) == which = "pipe" /\ A /\ UNCHANGED <<which, nvars, hvars>>
IsSockets(A) == which = "sockets" /\ A /\ UNCHANGED <<which, vars, hvars>>
IsFile(A) == which = "file" /\ A /\ UNCHANGED <<which, vars, nvars>>

MCNext == IsPipe(Next) \/ IsSockets(N!Next) \/ IsFile(H!Next)

\* The fairness of PipeIo and of Sockets.
MCSpec ==
    /\ MCInit /\ [][MCNext]_MCvars
    /\ WF_MCvars(IsPipe(read_all)) /\ WF_MCvars(IsPipe(CloseRead))
    /\ \A w \in Writers :
        WF_MCvars(IsPipe(write_all(w))) /\ WF_MCvars(IsPipe(CloseWrite(w)))
    /\ WF_MCvars(IsSockets(N!ServerStep))
    /\ \A c \in Clients :
        WF_MCvars(IsSockets(N!ClientStep(c))) /\ WF_MCvars(IsSockets(N!Echo(c)))

-----------------------------------------------------------------------------
\* write_all and read_all return once signals stop (PipeIo's CallsReturn).
PipeCallsReturn == which = "pipe" => CallsReturn

\* A half-closed connection loses nothing (Sockets).
Echoed == N!Echoed
=============================================================================
