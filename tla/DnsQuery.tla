------------------------------ MODULE DnsQuery ------------------------------
(***************************************************************************)
(* resolve_a / resolve_aaaa (dns.rs): read the nameserver list, send the   *)
(* query over one UDP socket to each server in turn, twice round, waiting  *)
(* for one datagram per turn, and parse the reply. The network (external)  *)
(* loses, delays, duplicates and reorders replies, and other datagrams     *)
(* reach the socket. One step of the resolver is one system call and the   *)
(* code up to the next.                                                    *)
(***************************************************************************)
EXTENDS Integers, Sequences

CONSTANTS
    ServerLists,  \* the lists read_nameservers can return
    Stranger,     \* an address that is nobody's nameserver
    Kinds,        \* what a full-length reply holds: a subset of ReplyKinds
    MaxQueue,     \* bound on the datagrams waiting in the socket
    MaxStray,     \* bound on datagrams that are not replies to this query
    MaxDup        \* bound on duplicated replies

ReplyKinds == {"answer", "nodata", "nxdomain", "malformed", "short"}
MAX_NAMESERVERS == 3
Attempts == 2

ASSUME ServerListsAssumption ==
    \A l \in ServerLists : Len(l) \in 1..MAX_NAMESERVERS /\ \A j \in 1..Len(l) : l[j] # Stranger
ASSUME KindsAssumption == Kinds \subseteq ReplyKinds
ASSUME BoundsAssumption == MaxQueue \in Nat /\ MaxStray \in Nat /\ MaxDup \in Nat

VARIABLES
    pc,        \* "nameservers", "getrandom", "socket", "send", "poll", "recv", "close", "done"
    servers,   \* the list, <<>> before it is read
    attempt, k,\* the two loop counters, from 1
    sock,      \* whether the socket is open
    result,    \* "none", "Ok" or an errno
    answer,    \* the datagram query returned, NoAnswer if it did not
    sends,     \* for each turn, the server and whether the send succeeded (history)
    replied,   \* the turns whose query a server has answered
    inflight,  \* replies on their way
    queue,     \* datagrams waiting in the socket
    strays, dups

vars == <<pc, servers, attempt, k, sock, result, answer, sends, replied, inflight, queue, strays, dups>>
net == <<replied, inflight, strays, dups>>

\* A datagram: who sent it, whether it carries the query's id, what it holds,
\* and which send it replies to (0: none).
Addresses == UNION {{l[j] : j \in 1..Len(l)} : l \in ServerLists} \cup {Stranger}
NoAnswer == [from |-> Stranger, id |-> FALSE, kind |-> "short", to |-> 0]

Init ==
    /\ pc = "nameservers"
    /\ servers = <<>>
    /\ attempt = 1 /\ k = 1
    /\ sock = FALSE
    /\ result = "none"
    /\ answer = NoAnswer
    /\ sends = <<>>
    /\ replied = {}
    /\ inflight = {}
    /\ queue = <<>>
    /\ strays = 0 /\ dups = 0

-----------------------------------------------------------------------------
(* Before the loop: each failure is returned at once, with nothing open. *)

Fail(e) ==
    /\ pc' = "done"
    /\ result' = e
    /\ UNCHANGED <<servers, attempt, k, sock, answer, sends, queue, net>>

\* open or read fails, the text is not UTF-8, or it names no IPv4 server;
\* read_nameservers closes the file itself on every path.
read_nameservers ==
    /\ pc = "nameservers"
    /\ \/ \E e \in {"ENOENT", "EACCES", "EIO", "EINTR", "EINVAL"} : Fail(e)
       \/ /\ servers' \in ServerLists
          /\ pc' = "getrandom"
          /\ UNCHANGED <<attempt, k, sock, result, answer, sends, queue, net>>

\* getrandom for the id, then build_query, which rejects the hostname with
\* EINVAL (empty name, empty or over-long label, no room in the buffer).
MakeQuery ==
    /\ pc = "getrandom"
    /\ \/ \E e \in {"EINTR", "EINVAL"} : Fail(e)
       \/ /\ pc' = "socket"
          /\ UNCHANGED <<servers, attempt, k, sock, result, answer, sends, queue, net>>

OpenSocket ==
    /\ pc = "socket"
    /\ \/ Fail("EMFILE")
       \/ /\ sock' = TRUE
          /\ pc' = "send"
          /\ UNCHANGED <<servers, attempt, k, result, answer, sends, queue, net>>

-----------------------------------------------------------------------------
(* The loop: `for _attempt in 0..2 { for server in servers.iter().take(count)`. *)

server == servers[k]

\* `continue`, and ETIMEDOUT when both rounds are over.
Continue ==
    /\ \/ /\ k < Len(servers)
          /\ k' = k + 1 /\ pc' = "send"
          /\ UNCHANGED <<attempt, result>>
       \/ /\ k = Len(servers) /\ attempt < Attempts
          /\ k' = 1 /\ attempt' = attempt + 1 /\ pc' = "send"
          /\ UNCHANGED result
       \/ /\ k = Len(servers) /\ attempt = Attempts
          /\ pc' = "close" /\ result' = "ETIMEDOUT"
          /\ UNCHANGED <<attempt, k>>
    /\ UNCHANGED <<servers, sock, answer>>

Return(e, d) ==
    /\ pc' = "close"
    /\ result' = e
    /\ answer' = d
    /\ UNCHANGED <<servers, attempt, k, sock>>

\* sendto_in: the query leaves for the server, or the turn is over.
Send ==
    /\ pc = "send"
    /\ \/ /\ pc' = "poll"
          /\ sends' = Append(sends, [to |-> server, ok |-> TRUE])
          /\ UNCHANGED <<servers, attempt, k, sock, result, answer>>
       \/ Continue /\ sends' = Append(sends, [to |-> server, ok |-> FALSE])
    /\ UNCHANGED <<queue, net>>

Poll_forever ==
    /\ pc = "poll"
    /\ queue # <<>> /\ pc' = "recv"
    /\ UNCHANGED <<servers, attempt, k, sock, result, answer, sends, queue, net>>

\* poll: ready, or timed out with nothing there.
Poll ==
    /\ pc = "poll"
    /\ \/ queue # <<>> /\ pc' = "recv" /\ UNCHANGED <<servers, attempt, k, sock, result, answer>>
       \/ queue = <<>> /\ Continue
    /\ UNCHANGED <<sends, queue, net>>

\* poll fails (EINTR): the closure returns with `?`.
PollInterrupted ==
    /\ pc = "poll"
    /\ Return("EINTR", NoAnswer)
    /\ UNCHANGED <<sends, queue, net>>

Accept_anyserver(d) == d.kind # "short" /\ d.id

\* The three checks on a received datagram, in the code's order.
Accept(d) == d.from = server /\ d.kind # "short" /\ d.id

\* recvfrom_in takes one datagram: the turn ends with it, accepted or not.
Recv ==
    /\ pc = "recv"
    /\ \/ /\ queue' = Tail(queue)
          /\ IF Accept(Head(queue)) THEN Return("none", Head(queue)) ELSE Continue
       \/ Continue /\ UNCHANGED queue
    /\ UNCHANGED <<sends, net>>

\* parse_header and parse_answers: what the caller of resolve_a gets.
Parse(d) ==
    CASE d.kind = "answer" -> "Ok"
      [] d.kind \in {"nodata", "nxdomain"} -> "ENOENT"
      [] d.kind = "malformed" -> "EINVAL"

\* The socket is closed on every way out of the loop; then the reply is parsed.
Close ==
    /\ pc = "close"
    /\ sock' = FALSE
    /\ pc' = "done"
    /\ result' = IF answer # NoAnswer THEN Parse(answer) ELSE result
    /\ queue' = <<>>
    /\ UNCHANGED <<servers, attempt, k, answer, sends, net>>

resolve ==
    read_nameservers \/ MakeQuery \/ OpenSocket \/ Send \/ Poll \/ Recv \/ Close

-----------------------------------------------------------------------------
(* The network and the servers (external). *)

ServerReplies(n) ==
    /\ n \in 1..Len(sends) \ replied
    /\ sends[n].ok
    /\ replied' = replied \cup {n}
    /\ \E kind \in Kinds :
        inflight' = inflight \cup {[from |-> sends[n].to, id |-> TRUE, kind |-> kind, to |-> n]}
    /\ UNCHANGED <<pc, servers, attempt, k, sock, result, answer, sends, queue, strays, dups>>

\* A reply reaches the socket, in any order, once or more; or it never does.
Deliver(d) ==
    /\ sock /\ Len(queue) < MaxQueue
    /\ queue' = Append(queue, d)
    /\ \/ inflight' = inflight \ {d} /\ UNCHANGED dups
       \/ dups < MaxDup /\ dups' = dups + 1 /\ UNCHANGED inflight
    /\ UNCHANGED <<pc, servers, attempt, k, sock, result, answer, sends, replied, strays>>

\* A datagram that is no reply to this query: another id, or another sender.
Stray(a, sameId) ==
    /\ sock /\ Len(queue) < MaxQueue
    /\ strays < MaxStray
    /\ a = Stranger \/ ~sameId
    /\ strays' = strays + 1
    /\ queue' = Append(queue, [from |-> a, id |-> sameId, kind |-> "answer", to |-> 0])
    /\ UNCHANGED <<pc, servers, attempt, k, sock, result, answer, sends, replied, inflight, dups>>

Next ==
    \/ resolve
    \/ PollInterrupted
    \/ \E n \in 1..Len(sends) : ServerReplies(n)
    \/ \E d \in inflight : Deliver(d)
    \/ \E a \in Addresses, sameId \in BOOLEAN : Stray(a, sameId)

\* Only the resolver is fair: its calls return, poll by its timeout if by
\* nothing else. Nothing obliges a server, the network or a signal.
Spec == Init /\ [][Next]_vars /\ WF_vars(resolve)

-----------------------------------------------------------------------------
(* Properties *)

\* What query returns is a reply to a query this call sent to the server whose
\* turn it is, however late, duplicated or reordered replies are and whatever
\* else reaches the socket.
AnswerIsOurs ==
    answer # NoAnswer =>
        /\ answer.id /\ answer.from = servers[k]
        /\ answer.to \in 1..Len(sends)
        /\ sends[answer.to] = [to |-> answer.from, ok |-> TRUE]

\* resolve_a always returns, with the socket closed on every way out (the `?`
\* on poll included), and gives up with ETIMEDOUT only after every server has
\* had its turn in both rounds, in the order of resolv.conf: no number of stale
\* datagrams keeps it in the loop or costs a server its turn.
Finished ==
    /\ pc = "done" /\ ~sock
    /\ result = "ETIMEDOUT" =>
          /\ Len(sends) = Attempts * Len(servers)
          /\ \A n \in 1..Len(sends) : sends[n].to = servers[((n - 1) % Len(servers)) + 1]
Resolves == <>Finished

\* "stale/spoofed reply, keep waiting": after a datagram with another id the
\* resolver goes on waiting in the same turn.
KeepsWaiting ==
    [][pc = "recv" /\ queue' # queue /\ Head(queue).from = server
         /\ Head(queue).kind # "short" /\ ~Head(queue).id
       => pc' \in {"poll", "recv"} /\ k' = k /\ attempt' = attempt]_vars
=============================================================================
