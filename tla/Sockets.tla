------------------------------- MODULE Sockets ------------------------------
(***************************************************************************)
(* TCP and UDP over IPv4 and IPv6 (socket.rs).                             *)
(*                                                                         *)
(* A server binds to port 0, learns from getsockname which port the kernel *)
(* picked and advertises it; clients connect to that port, and the server  *)
(* echoes what each of them sends until it sees the end of its input.  A   *)
(* client shuts its sending side down when its request is sent and reads   *)
(* on until the server has closed.  Over UDP the server echoes datagrams   *)
(* to the addresses recvfrom gave it.  The calls for IPv6 have their own   *)
(* names; a behaviour uses one family throughout.                          *)
(***************************************************************************)
EXTENDS Integers, Sequences

CONSTANTS
    Clients,
    Requests,     \* the bytes each client sends, one byte string per client
    ServerPorts,  \* ports the kernel may pick for the server
    ClientPorts,  \* ... and for clients
    Backlog,      \* the listen queue's length
    BufLen        \* the length of the buffer the server receives into

VARIABLES
    conf,         \* family and socket type
    server,       \* "socket", "bound", "listening", "open"
    sport,        \* the kernel's port of the server's socket, 0 if unbound
    advert,       \* the port the server tells its clients; 0 before
    queue,        \* the clients whose connections wait for accept
    pc,           \* per client: "socket", "named", "send", "recv",
                  \* "recv-dgram", "done"
    cport,        \* the kernel's port of its socket
    name,         \* what getsockname returned to it
    peerOfClient, \* what getpeername returned to it
    peer,         \* what accept4 or recvfrom gave the server for it
    conn,         \* its connection: the bytes under way and the sides shut down
    left,         \* the part of its request it has still to send
    reply,        \* what it has received
    net           \* UDP: the datagrams under way

vars == <<conf, server, sport, advert, queue, pc, cport, name, peerOfClient,
          peer, conn, left, reply, net>>

AF_INET == 2
AF_INET6 == 10
SOCK_STREAM == 1
SOCK_DGRAM == 2
SHUT_RD == 0
SHUT_WR == 1
SHUT_RDWR == 2

LOOPBACK == "127.0.0.1"
LOOPBACK6 == "::1"

-----------------------------------------------------------------------------
(* Addresses.  The port is kept as the two bytes in memory read as a       *)
(* little-endian number, so a port in network order is the swapped number. *)

to_be(p) == (p % 256) * 256 + p \div 256

SockAddrIn(octets, port) ==
    [family |-> AF_INET, port |-> to_be(port), addr |-> octets, zero |-> 0]

SockAddrIn6(octets, port) ==
    [family |-> AF_INET6, port |-> to_be(port), flowinfo |-> 0, addr |-> octets, scope_id |-> 0]

\* The bug of returning the field as it is stored.
port_raw(a) == a.port

port(a) == to_be(a.port)

octets(a) == a.addr

V6 == conf.family = AF_INET6

Addr(p) == IF V6 THEN SockAddrIn6(LOOPBACK6, p) ELSE SockAddrIn(LOOPBACK, p)

\* The kernel's side: the port a structure names, and the structure the
\* kernel fills in for a port of its own.
Named(a) == to_be(a.port)
Filled(p) == IF V6 THEN [SockAddrIn6(LOOPBACK6, 0) EXCEPT !.port = to_be(p)]
             ELSE [SockAddrIn(LOOPBACK, 0) EXCEPT !.port = to_be(p)]

-----------------------------------------------------------------------------
Least(a, b) == IF a < b THEN a ELSE b

NoConn == [up |-> <<>>, down |-> <<>>, shut |-> {}, served |-> FALSE]

Init ==
    /\ conf \in [family : {AF_INET, AF_INET6}, ty : {SOCK_STREAM, SOCK_DGRAM}]
    /\ server = "socket"
    /\ sport = 0
    /\ advert = 0
    /\ queue = <<>>
    /\ pc = [c \in Clients |-> "socket"]
    /\ cport = [c \in Clients |-> 0]
    /\ name = [c \in Clients |-> Addr(0)]
    /\ peerOfClient = name
    /\ peer = name
    /\ conn = [c \in Clients |-> NoConn]
    /\ left = Requests
    /\ reply = [c \in Clients |-> <<>>]
    /\ net = {}

Stream == conf.ty = SOCK_STREAM

sides == <<queue, pc, cport, name, peerOfClient, peer, conn, left, reply, net>>

-----------------------------------------------------------------------------
(* The server's set-up *)

\* Port 0 asks the kernel to pick one.
bind_in(a) ==
    \E p \in IF Named(a) = 0 THEN ServerPorts ELSE {Named(a)} : sport' = p

bind_in6(a) == bind_in(a)

Bind ==
    /\ server = "socket"
    /\ IF V6 THEN bind_in6(SockAddrIn6(LOOPBACK6, 0)) ELSE bind_in(SockAddrIn(LOOPBACK, 0))
    /\ server' = "bound"
    /\ UNCHANGED <<conf, advert, sides>>

\* A stream server listens before it tells anyone its port.
listen ==
    /\ server = "bound"
    /\ server' = "listening"
    /\ UNCHANGED <<conf, sport, advert, sides>>

getsockname_in(p) == Filled(p)
getsockname_in6(p) == Filled(p)

GetSockName(p) == IF V6 THEN getsockname_in6(p) ELSE getsockname_in(p)

Advertise ==
    /\ server = IF Stream THEN "listening" ELSE "bound"
    /\ advert' = port(GetSockName(sport))
    /\ server' = "open"
    /\ UNCHANGED <<conf, sport, sides>>

-----------------------------------------------------------------------------
(* A stream client *)

FreePorts == ClientPorts \ {cport[c] : c \in Clients}

\* The kernel's side of connecting: ECONNREFUSED where nobody listens,
\* waiting while the queue is full, else a port and a place in the queue.
connect_in(c, dest) ==
    IF Named(dest) # sport \/ server \notin {"listening", "open"}
    THEN UNCHANGED <<queue, cport, pc>>
    ELSE /\ Len(queue) < Backlog
         /\ \E p \in FreePorts : cport' = [cport EXCEPT ![c] = p]
         /\ queue' = Append(queue, c)
         /\ pc' = [pc EXCEPT ![c] = "named"]

connect_in6(c, dest) == connect_in(c, dest)

Connect(c) ==
    /\ Stream
    /\ pc[c] = "socket"
    /\ advert # 0
    /\ IF V6 THEN connect_in6(c, SockAddrIn6(LOOPBACK6, advert))
       ELSE connect_in(c, SockAddrIn(LOOPBACK, advert))
    /\ UNCHANGED <<conf, server, sport, advert, name, peerOfClient, peer, conn, left, reply, net>>

getpeername_in(p) == Filled(p)
getpeername_in6(p) == Filled(p)

GetPeerName(p) == IF V6 THEN getpeername_in6(p) ELSE getpeername_in(p)

AskNames(c) ==
    /\ pc[c] = "named"
    /\ name' = [name EXCEPT ![c] = GetSockName(cport[c])]
    /\ peerOfClient' = [peerOfClient EXCEPT ![c] = GetPeerName(sport)]
    /\ pc' = [pc EXCEPT ![c] = "send"]
    /\ UNCHANGED <<conf, server, sport, advert, queue, cport, peer, conn, left, reply, net>>

\* The bytes sent may be fewer than those given.
send(from, n) == [sent |-> SubSeq(from, 1, n), rest |-> SubSeq(from, n + 1, Len(from))]

ClientSends(c) ==
    /\ pc[c] = "send"
    /\ left[c] # <<>>
    /\ \E n \in 1..Len(left[c]) :
        /\ conn' = [conn EXCEPT ![c].up = @ \o send(left[c], n).sent]
        /\ left' = [left EXCEPT ![c] = send(left[c], n).rest]
    /\ UNCHANGED <<conf, server, sport, advert, queue, pc, cport, name, peerOfClient,
                   peer, reply, net>>

\* The bug of shutting down the receiving side too.
shutdown_rdwr(how) == {"send", "recv"}

\* What a mode stops.
shutdown(how) ==
    CASE how = SHUT_RD -> {"recv"}
      [] how = SHUT_WR -> {"send"}
      [] how = SHUT_RDWR -> {"send", "recv"}

HalfClose(c) ==
    /\ pc[c] = "send"
    /\ left[c] = <<>>
    /\ conn' = [conn EXCEPT ![c].shut = @ \cup shutdown(SHUT_WR)]
    /\ pc' = [pc EXCEPT ![c] = "recv"]
    /\ UNCHANGED <<conf, server, sport, advert, queue, cport, name, peerOfClient, peer,
                   left, reply, net>>

\* The results of recv: some of what is there; 0 at the end; none, and the
\* caller waits, while there may be more.
recv(bytes, atEnd, max) ==
    IF bytes = <<>> THEN IF atEnd THEN {<<>>} ELSE {}
    ELSE {SubSeq(bytes, 1, n) : n \in 1..Least(max, Len(bytes))}

Tail_(s, n) == SubSeq(s, n + 1, Len(s))

ClientReceives(c) ==
    /\ pc[c] = "recv"
    /\ \E got \in recv(conn[c].down, conn[c].shut \cap {"recv", "server"} # {}, BufLen) :
        /\ reply' = [reply EXCEPT ![c] = @ \o got]
        /\ conn' = [conn EXCEPT ![c].down = Tail_(@, Len(got))]
        /\ pc' = IF got = <<>> THEN [pc EXCEPT ![c] = "done"] ELSE pc
    /\ UNCHANGED <<conf, server, sport, advert, queue, cport, name, peerOfClient, peer,
                   left, net>>

-----------------------------------------------------------------------------
(* The stream server *)

\* accept4 fills the structure with the peer's address; accept takes none.
accept(c) == UNCHANGED peer
accept4_in(c) == Filled(cport[c])
accept4_in6(c) == Filled(cport[c])

Accept ==
    /\ server = "open"
    /\ queue # <<>>
    /\ LET c == Head(queue)
       IN  /\ \/ accept(c)
              \/ peer' = [peer EXCEPT ![c] = IF V6 THEN accept4_in6(c) ELSE accept4_in(c)]
           /\ conn' = [conn EXCEPT ![c].served = TRUE]
    /\ queue' = Tail(queue)
    /\ UNCHANGED <<conf, server, sport, advert, pc, cport, name, peerOfClient, left, reply, net>>

\* One recv and the send of all of it; at the end of the input it closes.
Echo(c) ==
    /\ conn[c].served
    /\ \E got \in recv(conn[c].up, "send" \in conn[c].shut, BufLen) :
        conn' = [conn EXCEPT ![c].up = Tail_(@, Len(got)),
                             ![c].down = @ \o got,
                             ![c].served = got # <<>>,
                             ![c].shut = IF got = <<>> THEN @ \cup {"server"} ELSE @]
    /\ UNCHANGED <<conf, server, sport, advert, queue, pc, cport, name, peerOfClient, peer,
                   left, reply, net>>

-----------------------------------------------------------------------------
(* Datagrams: each is sent whole, and may be lost or duplicated or arrive  *)
(* out of order; a receive takes one and drops what does not fit.          *)

sendto_in(from, dest, data) ==
    net' = net \cup {[from |-> from, to |-> Named(dest), data |-> data]}

sendto_in6(from, dest, data) == sendto_in(from, dest, data)

SendTo(from, dest, data) ==
    IF V6 THEN sendto_in6(from, dest, data) ELSE sendto_in(from, dest, data)

recvfrom_in(d, max) ==
    [data |-> SubSeq(d.data, 1, Least(max, Len(d.data))), from |-> Filled(d.from)]

recvfrom_in6(d, max) == recvfrom_in(d, max)

RecvFrom(d, max) == IF V6 THEN recvfrom_in6(d, max) ELSE recvfrom_in(d, max)

\* An unbound socket gets its port with its first datagram.
ClientDatagram(c) ==
    /\ ~Stream
    /\ pc[c] = "socket"
    /\ advert # 0
    /\ \E p \in FreePorts :
        /\ cport' = [cport EXCEPT ![c] = p]
        /\ name' = [name EXCEPT ![c] = GetSockName(p)]
        /\ SendTo(p, Addr(advert), Requests[c])
    /\ pc' = [pc EXCEPT ![c] = "recv-dgram"]
    /\ UNCHANGED <<conf, server, sport, advert, queue, peerOfClient, peer, conn, left, reply>>

\* The server echoes to where the datagram came from.
EchoDatagram ==
    /\ ~Stream
    /\ server = "open"
    /\ \E d \in net, keep \in BOOLEAN :
        /\ d.to = sport
        /\ LET r == RecvFrom(d, BufLen)
           IN  /\ net' = (IF keep THEN net ELSE net \ {d})
                           \cup {[from |-> sport, to |-> Named(r.from), data |-> r.data]}
               /\ \E c \in Clients :
                    /\ Requests[c] = d.data
                    /\ peer' = [peer EXCEPT ![c] = r.from]
    /\ UNCHANGED <<conf, server, sport, advert, queue, pc, cport, name, peerOfClient, conn,
                   left, reply>>

ClientGetsDatagram(c) ==
    /\ pc[c] = "recv-dgram"
    /\ \E d \in net :
        /\ d.to = cport[c]
        /\ LET r == RecvFrom(d, BufLen)
           IN  /\ reply' = [reply EXCEPT ![c] = r.data]
               /\ peerOfClient' = [peerOfClient EXCEPT ![c] = r.from]
        /\ net' = net \ {d}
    /\ pc' = [pc EXCEPT ![c] = "done"]
    /\ UNCHANGED <<conf, server, sport, advert, queue, cport, name, peer, conn, left>>

Lose ==
    /\ \E d \in net : net' = net \ {d}
    /\ UNCHANGED <<conf, server, sport, advert, queue, pc, cport, name, peerOfClient, peer,
                   conn, left, reply>>

-----------------------------------------------------------------------------
ClientStep(c) ==
    \/ Connect(c) \/ AskNames(c) \/ ClientSends(c) \/ HalfClose(c) \/ ClientReceives(c)
    \/ ClientDatagram(c) \/ ClientGetsDatagram(c)

ServerStep == Bind \/ listen \/ Advertise \/ Accept \/ EchoDatagram

Next == ServerStep \/ Lose \/ \E c \in Clients : ClientStep(c) \/ Echo(c)

\* The server runs, serves each of its connections, and clients take their
\* next step when the calls they are in can return.
Fairness ==
    /\ WF_vars(ServerStep)
    /\ \A c \in Clients : WF_vars(ClientStep(c)) /\ WF_vars(Echo(c))

Spec == Init /\ [][Next]_vars /\ Fairness

-----------------------------------------------------------------------------
(* Properties *)

\* Everyone is told the real endpoints: the port the server advertises, the
\* name a client learns of its own socket, the peer it sees and the peer
\* accept4 or recvfrom gives the server are the kernel's ports of those
\* sockets, in host order, for both families; two clients are never told
\* apart wrongly, and a datagram's sender is the client whose data it holds.
EndpointsAgree ==
    /\ advert \in {0, sport}
    /\ \A c \in Clients :
        /\ port(name[c]) # 0 => port(name[c]) = cport[c]
        /\ port(peer[c]) # 0 => port(peer[c]) = cport[c]
        /\ port(peerOfClient[c]) # 0 => port(peerOfClient[c]) = sport
        /\ port(peer[c]) # 0 => \A d \in Clients \ {c} : port(peer[d]) # port(peer[c])
        /\ ~Stream /\ pc[c] = "done" =>
              reply[c] = SubSeq(Requests[c], 1, Least(BufLen, Len(Requests[c])))

\* A half-closed connection loses nothing: a client that has connected gets
\* its whole request echoed back before it sees the end of the stream, with
\* short sends and receives, while others connect and wait in the queue.
Echoed ==
    \A c \in Clients :
        (Stream /\ pc[c] = "named") ~> (pc[c] = "done" /\ reply[c] = Requests[c])
=============================================================================
