--------------------------------- MODULE Io ---------------------------------
(***************************************************************************)
(* Bytes in pipes (PipeIo, whose names these are), sockets (Sockets) and   *)
(* files (FileIo).                                                         *)
(***************************************************************************)
EXTENDS PipeIo

CONSTANTS
    Clients, Requests, ServerPorts, ClientPorts, Backlog, BufLen,  \* Sockets
    Kids, Body, Patch, Segments, MaxRounds                         \* FileIo

VARIABLES
    conf, server, sport, advert, queue, npc, cport, name, peerOfClient, peer, conn,
    left, reply, net,
    file, offset, pc, rest, round, got, eof, seen

N == INSTANCE Sockets WITH pc <- npc
H == INSTANCE FileIo

nvars == <<conf, server, sport, advert, queue, npc, cport, name, peerOfClient, peer, conn,
           left, reply, net>>
hvars == <<file, offset, pc, rest, round, got, eof, seen>>

\* The kernel's ports are two-byte numbers other than 0, no two sockets have the
\* same, and what a client sends tells it from the others.
PortNumber == {p \in Nat : \E h, l \in 0..255 : p = 256 * h + l}

ASSUME PortsAssumption ==
    /\ ServerPorts \subseteq PortNumber \ {0} /\ ClientPorts \subseteq PortNumber \ {0}
    /\ ServerPorts \cap ClientPorts = {}
ASSUME RequestsAssumption ==
    /\ Requests \in [Clients -> Seq(0..255)]
    /\ \A c, d \in Clients : Requests[c] = Requests[d] => c = d
ASSUME ReceiveAssumption == BufLen \in Nat
\* A vectored read has room for a byte.
ASSUME BodyAssumption ==
    /\ Body \in Seq(Nat) /\ Patch \in Nat
    /\ Segments \in Seq(Nat) /\ \E i \in 1..Len(Segments) : Segments[i] # 0

-----------------------------------------------------------------------------
\* Ports and addresses are the kernel's, for everyone told them (Sockets).
EndpointsAgree == N!EndpointsAgree

\* The children of a shell read the here-document once (FileIo).
BodyConsumedOnce == H!BodyConsumedOnce
=============================================================================
