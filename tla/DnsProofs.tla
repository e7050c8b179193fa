------------------------------ MODULE DnsProofs ------------------------------
(***************************************************************************)
(* Theorems about the resolver, each of its component's own specification. *)
(* DnsQuery: for any nameserver lists and any number of late, duplicated   *)
(* and stray datagrams, an answer that query returns is the reply to one   *)
(* of its own queries, and it gives up only after every server has had its *)
(* two turns. DnsParse: the parsers stay within what was received, for     *)
(* every datagram, buffer length and list capacity.                        *)
(***************************************************************************)
EXTENDS DnsQuery, DnsReply, TLAPS

-----------------------------------------------------------------------------
(* DnsQuery. AnswerIsOurs is not inductive: it says nothing of the          *)
(* datagrams that have not been received yet. The invariant says that each  *)
(* of them is a reply to a query that was sent, or is refused by the checks *)
(* (Traffic), and keeps count of the turns (Turns).                         *)

Sent == [to : Addresses, ok : BOOLEAN]
Datagram == [from : Addresses, id : BOOLEAN, kind : ReplyKinds, to : Nat]
InLoop == {"send", "poll", "recv"}

Shape ==
    /\ pc \in {"nameservers", "getrandom", "socket", "close", "done"} \cup InLoop
    /\ pc = "nameservers" \/ servers \in ServerLists \/ (pc = "done" /\ sends = <<>>)
    /\ attempt \in 1..Attempts /\ k \in Nat
    /\ servers \in ServerLists => k \in 1..Len(servers)
    /\ sends \in Seq(Sent)
    /\ queue \in Seq(Datagram) /\ inflight \subseteq Datagram
    /\ strays \in Nat /\ dups \in Nat

\* The socket is open in the loop and until Close.
Open == sock = IF pc \in InLoop \cup {"close"} THEN TRUE ELSE FALSE

\* A reply to a query this call sent, by the server it was sent to.
Reply(d) ==
    /\ d.id
    /\ d.to \in 1..Len(sends)
    /\ sends[d.to] = [to |-> d.from, ok |-> TRUE]

\* What the checks on a received datagram refuse, whoever's turn it is.
Foreign(d) == d.from = Stranger \/ ~d.id

Traffic ==
    /\ \A d \in inflight : Reply(d)
    /\ \A i \in 1..Len(queue) : Reply(queue[i]) \/ Foreign(queue[i])
    /\ pc = "recv" => queue # <<>>

\* The answer is set on the way out of the loop, and stays.
Answered ==
    answer # NoAnswer =>
        /\ pc \in {"close", "done"}
        /\ Reply(answer) /\ answer.from = servers[k]
        /\ answer.kind \in ReplyKinds \ {"short"}
        /\ result # "ETIMEDOUT"

\* How many turns there have been, and whose they were.
Turns ==
    /\ pc \in {"nameservers", "getrandom", "socket"} =>
          sends = <<>> /\ k = 1 /\ attempt = 1 /\ result = "none"
    /\ pc = "send" => Len(sends) = (attempt - 1) * Len(servers) + k - 1
    /\ pc \in {"poll", "recv"} => Len(sends) = (attempt - 1) * Len(servers) + k
    /\ pc \in InLoop => result # "ETIMEDOUT"
    /\ result = "ETIMEDOUT" => Len(sends) = Attempts * Len(servers)
    /\ \A n \in 1..Len(sends) : sends[n].to = servers[((n - 1) % Len(servers)) + 1]

QueryInv == Shape /\ Open /\ Traffic /\ Answered /\ Turns
-----------------------------------------------------------------------------
(* The list, and the turns of the loop. *)

LEMMA ListFacts ==
  ASSUME NEW l \in ServerLists
  PROVE  /\ Len(l) \in 1..3
         /\ \A j \in 1..Len(l) : l[j] # Stranger /\ l[j] \in Addresses
<1>1. Len(l) \in 1..3 /\ \A j \in 1..Len(l) : l[j] # Stranger
  BY ServerListsAssumption DEF MAX_NAMESERVERS
<1>2. ASSUME NEW j \in 1..Len(l) PROVE l[j] \in Addresses
  <2>1. l[j] \in {l[n] : n \in 1..Len(l)}
    OBVIOUS
  <2>2. {l[n] : n \in 1..Len(l)} \in {{m[n] : n \in 1..Len(m)} : m \in ServerLists}
    OBVIOUS
  <2>. QED  BY <2>1, <2>2 DEF Addresses
<1>. QED  BY <1>1, <1>2

\* The place in the list of the n-th turn.
LEMMA Place ==
  ASSUME NEW len \in 1..3, NEW a \in 1..Attempts, NEW j \in 1..len
  PROVE  (((a - 1) * len + j - 1) % len) + 1 = j
<1>1. len = 1 \/ len = 2 \/ len = 3
  OBVIOUS
<1>2. a = 1 \/ a = 2
  BY DEF Attempts
<1>3. j = 1 \/ j = 2 \/ j = 3
  OBVIOUS
<1>. QED  BY <1>1, <1>2, <1>3

\* More sends keep a reply a reply.
LEMMA ReplyStays ==
  ASSUME sends \in Seq(Sent), NEW s \in Sent, sends' = Append(sends, s), NEW d, Reply(d)
  PROVE  Reply(d)'
<1>1. Len(sends') = Len(sends) + 1 /\ \A n \in 1..Len(sends) : sends'[n] = sends[n]
  OBVIOUS
<1>. QED  BY <1>1 DEF Reply

LEMMA QueryInit == Init => QueryInv
<1>. SUFFICES ASSUME Init PROVE QueryInv
  OBVIOUS
<1>1. Shape
  <2>1. <<>> \in Seq(Sent) /\ <<>> \in Seq(Datagram)
    OBVIOUS
  <2>2. servers \in ServerLists => 1 \in 1..Len(servers)
    BY ListFacts
  <2>. QED  BY <2>1, <2>2 DEF Init, Shape, InLoop, Attempts
<1>2. Open
  BY DEF Init, Open, InLoop
<1>3. Traffic /\ Answered
  BY DEF Init, Traffic, Answered
<1>4. Turns
  BY DEF Init, Turns, InLoop
<1>. QED  BY <1>1, <1>2, <1>3, <1>4 DEF QueryInv

-----------------------------------------------------------------------------
(* The resolver. *)

LEMMA BeforeStep ==
  ASSUME QueryInv, read_nameservers \/ MakeQuery \/ OpenSocket
  PROVE  QueryInv'
<1>1. /\ pc \in {"nameservers", "getrandom", "socket"}
      /\ sends = <<>> /\ k = 1 /\ attempt = 1 /\ result = "none" /\ answer = NoAnswer
  BY DEF QueryInv, Shape, Open, Turns, Answered, InLoop, read_nameservers, MakeQuery, OpenSocket
<1>2. UNCHANGED <<attempt, k, answer, sends, queue, net>>
  BY DEF read_nameservers, MakeQuery, OpenSocket, Fail
<1>3. \/ /\ pc' = "done" /\ result' # "ETIMEDOUT" /\ sock' = sock
         /\ servers' = servers
      \/ /\ pc' \in {"getrandom", "socket"} /\ result' = result
         /\ sock' = sock /\ servers' \in ServerLists
      \/ /\ pc' = "send" /\ result' = result
         /\ sock' = TRUE /\ servers' \in ServerLists
  <2>1. pc \in {"getrandom", "socket"} => servers \in ServerLists
    BY DEF QueryInv, Shape
  <2>2. CASE read_nameservers
    BY <2>2 DEF read_nameservers, Fail
  <2>3. CASE MakeQuery
    BY <2>1, <2>3 DEF MakeQuery, Fail
  <2>4. CASE OpenSocket
    BY <2>1, <2>4 DEF OpenSocket, Fail
  <2>. QED  BY <2>2, <2>3, <2>4
<1>4. servers' \in ServerLists => 1 \in 1..Len(servers')
  BY ListFacts
<1>5. Shape'
  <2>1. /\ sends' \in Seq(Sent) /\ queue' \in Seq(Datagram) /\ inflight' \subseteq Datagram
        /\ strays' \in Nat /\ dups' \in Nat
    BY <1>2 DEF QueryInv, Shape, net
  <2>2. pc' = "done" \/ servers' \in ServerLists
    BY <1>3
  <2>3. attempt' = 1 /\ k' = 1 /\ sends' = <<>>
    BY <1>1, <1>2
  <2>. QED  BY <1>3, <1>4, <2>1, <2>2, <2>3 DEF Shape, InLoop, Attempts
<1>6. Open'
  BY <1>1, <1>3 DEF Open, InLoop, QueryInv
<1>7. Traffic'
  BY <1>2, <1>3 DEF QueryInv, Traffic, Reply, Foreign, net
<1>8. Answered'
  BY <1>1, <1>2 DEF Answered
<1>9. Turns'
  <2>1. servers' \in ServerLists => Len(servers') \in Nat
    BY ListFacts
  <2>. QED  BY <1>1, <1>2, <1>3, <2>1 DEF Turns, InLoop
<1>. QED  BY <1>5, <1>6, <1>7, <1>8, <1>9 DEF QueryInv

LEMMA LoopFacts ==
  ASSUME QueryInv, pc \in InLoop
  PROVE  /\ servers \in ServerLists /\ Len(servers) \in 1..3
         /\ k \in 1..Len(servers) /\ attempt \in 1..Attempts
         /\ answer = NoAnswer /\ result # "ETIMEDOUT"
         /\ server \in Addresses /\ server # Stranger
<1>1. servers \in ServerLists /\ k \in 1..Len(servers) /\ attempt \in 1..Attempts
  BY DEF QueryInv, Shape, InLoop
<1>2. answer = NoAnswer /\ result # "ETIMEDOUT"
  BY DEF QueryInv, Answered, Turns, InLoop
<1>. QED  BY <1>1, <1>2, ListFacts DEF server

\* What a step in the loop has to show: the turn is counted, and what it leaves
\* in the socket is a reply or will be refused. It may go on in the turn,
\* continue with the next one, or return.
LEMMA LoopStep ==
  ASSUME QueryInv, pc \in InLoop, UNCHANGED <<servers, sock>>,
         sends' \in Seq(Sent), queue' \in Seq(Datagram), UNCHANGED net, Traffic',
         Len(sends') = (attempt - 1) * Len(servers) + k,
         \A n \in 1..Len(sends') : sends'[n].to = servers[((n - 1) % Len(servers)) + 1],
         \/ Continue
         \/ pc' \in {"poll", "recv"} /\ UNCHANGED <<attempt, k, result, answer>>
         \/ Return("EINTR", NoAnswer)
         \/ \E d \in Datagram : Return("none", d) /\ Accept(d) /\ Reply(d)'
  PROVE  QueryInv'
<1>. USE DEF InLoop
<1>1. /\ servers \in ServerLists /\ Len(servers) \in 1..3
      /\ k \in 1..Len(servers) /\ attempt \in 1..Attempts
      /\ answer = NoAnswer /\ result # "ETIMEDOUT"
  BY LoopFacts
<1>2. /\ inflight' \subseteq Datagram /\ strays' \in Nat /\ dups' \in Nat
  BY DEF QueryInv, Shape, net
<1>3. sock = TRUE
  BY DEF QueryInv, Open
<1>4. Shape' /\ Open' /\ Answered' /\ Turns'
  <2>1. CASE Continue
    <3>1. \/ k < Len(servers) /\ k' = k + 1 /\ pc' = "send" /\ attempt' = attempt
             /\ result' = result
          \/ k = Len(servers) /\ k' = 1 /\ pc' = "send" /\ attempt = 1 /\ attempt' = 2
             /\ result' = result
          \/ k = Len(servers) /\ k' = k /\ pc' = "close" /\ attempt = 2 /\ attempt' = 2
             /\ result' = "ETIMEDOUT"
      BY <2>1, <1>1 DEF Continue, Attempts
    <3>2. answer' = NoAnswer
      BY <2>1, <1>1 DEF Continue
    <3>3. k' \in 1..Len(servers) /\ attempt' \in 1..Attempts /\ pc' \in {"send", "close"}
      BY <3>1, <1>1 DEF Attempts
    <3>4. Shape'
      BY <1>1, <1>2, <3>3 DEF Shape
    <3>5. Open'
      BY <1>3, <3>3 DEF Open
    <3>6. Answered'
      BY <3>2 DEF Answered
    <3>7. Turns'
      <4>1. pc' = "send" => Len(sends') = (attempt' - 1) * Len(servers) + k' - 1
        <5>1. CASE k' = k + 1 /\ attempt' = attempt
          BY <5>1, <1>1
        <5>2. CASE attempt = 1 /\ attempt' = 2 /\ k = Len(servers) /\ k' = 1
          BY <5>2, <1>1
        <5>. QED  BY <3>1, <5>1, <5>2
      <4>2. result' = "ETIMEDOUT" => Len(sends') = Attempts * Len(servers)
        BY <3>1, <1>1 DEF Attempts
      <4>3. pc' = "send" => result' # "ETIMEDOUT"
        BY <3>1, <1>1
      <4>. QED  BY <4>1, <4>2, <4>3, <3>3 DEF Turns
    <3>. QED  BY <3>4, <3>5, <3>6, <3>7
  <2>2. CASE pc' \in {"poll", "recv"} /\ UNCHANGED <<attempt, k, result, answer>>
    <3>1. Shape'
      BY <1>1, <1>2, <2>2 DEF Shape
    <3>2. Open'
      BY <1>3, <2>2 DEF Open
    <3>3. Answered' /\ Turns'
      BY <1>1, <2>2 DEF Answered, Turns
    <3>. QED  BY <3>1, <3>2, <3>3
  <2>3. CASE Return("EINTR", NoAnswer)
    <3>1. pc' = "close" /\ result' = "EINTR" /\ answer' = NoAnswer /\ UNCHANGED <<attempt, k>>
      BY <2>3 DEF Return
    <3>2. Shape'
      BY <1>1, <1>2, <3>1 DEF Shape
    <3>3. Open'
      BY <1>3, <3>1 DEF Open
    <3>4. Answered' /\ Turns'
      BY <3>1 DEF Answered, Turns
    <3>. QED  BY <3>2, <3>3, <3>4
  <2>4. ASSUME NEW d \in Datagram, Return("none", d), Accept(d), Reply(d)'
        PROVE  Shape' /\ Open' /\ Answered' /\ Turns'
    <3>1. pc' = "close" /\ result' = "none" /\ answer' = d /\ UNCHANGED <<attempt, k>>
      BY <2>4 DEF Return
    <3>2. Shape'
      BY <1>1, <1>2, <3>1 DEF Shape
    <3>3. Open'
      BY <1>3, <3>1 DEF Open
    <3>4. d.from = servers'[k'] /\ d.kind \in ReplyKinds \ {"short"}
      BY <2>4, <3>1 DEF Accept, server, Datagram
    <3>5. Reply(answer)'
      BY <2>4, <3>1 DEF Reply
    <3>6. Answered'
      BY <3>1, <3>4, <3>5 DEF Answered
    <3>7. Turns'
      BY <3>1 DEF Turns
    <3>. QED  BY <3>2, <3>3, <3>6, <3>7
  <2>. QED  BY <2>1, <2>2, <2>3, <2>4
<1>. QED  BY <1>4 DEF QueryInv

LEMMA SendStep ==
  ASSUME QueryInv, Send
  PROVE  QueryInv'
<1>1. pc = "send" /\ pc \in InLoop /\ UNCHANGED <<servers, sock, queue, net>>
  BY DEF Send, Continue, InLoop
<1>2. /\ servers \in ServerLists /\ Len(servers) \in 1..3 /\ k \in 1..Len(servers)
      /\ attempt \in 1..Attempts /\ server \in Addresses
  BY <1>1, LoopFacts
<1>3. PICK b \in BOOLEAN : sends' = Append(sends, [to |-> server, ok |-> b])
  BY DEF Send
<1>4. sends \in Seq(Sent) /\ [to |-> server, ok |-> b] \in Sent
  BY <1>2 DEF QueryInv, Shape, Sent
<1>5. /\ sends' \in Seq(Sent) /\ Len(sends') = Len(sends) + 1
      /\ \A n \in 1..Len(sends) : sends'[n] = sends[n]
      /\ sends'[Len(sends) + 1].to = servers[k]
  BY <1>3, <1>4 DEF server
<1>6. Len(sends) = (attempt - 1) * Len(servers) + k - 1
  BY <1>1 DEF QueryInv, Turns
<1>7. Len(sends') = (attempt - 1) * Len(servers) + k
  <2>1. (attempt - 1) * Len(servers) \in Int
    BY <1>2 DEF Attempts
  <2>. QED  BY <1>2, <1>5, <1>6, <2>1
<1>8. ASSUME NEW n \in 1..Len(sends')
      PROVE  sends'[n].to = servers[((n - 1) % Len(servers)) + 1]
  <2>1. CASE n \in 1..Len(sends)
    BY <2>1, <1>5 DEF QueryInv, Turns
  <2>2. CASE n = Len(sends) + 1
    <3>1. (((attempt - 1) * Len(servers) + k - 1) % Len(servers)) + 1 = k
      BY <1>2, Place
    <3>2. n - 1 = (attempt - 1) * Len(servers) + k - 1
      BY <2>2, <1>4, <1>6
    <3>. QED  BY <3>1, <3>2, <2>2, <1>5
  <2>. QED  BY <2>1, <2>2, <1>4, <1>5
<1>9. Traffic'
  <2>1. \A d : Reply(d) => Reply(d)'
    BY <1>3, <1>4, ReplyStays
  <2>2. pc' # "recv"
    BY DEF Send, Continue
  <2>. QED  BY <1>1, <2>1, <2>2 DEF QueryInv, Traffic, Foreign, net
<1>10. Continue \/ (pc' \in {"poll", "recv"} /\ UNCHANGED <<attempt, k, result, answer>>)
  BY DEF Send
<1>11. queue' \in Seq(Datagram)
  BY <1>1 DEF QueryInv, Shape
<1>. QED  BY <1>1, <1>5, <1>7, <1>8, <1>9, <1>10, <1>11, LoopStep

LEMMA PollStep ==
  ASSUME QueryInv, Poll \/ PollInterrupted
  PROVE  QueryInv'
<1>1. pc = "poll" /\ pc \in InLoop /\ UNCHANGED <<servers, sock, sends, queue, net>>
  BY DEF Poll, PollInterrupted, Continue, Return, InLoop
<1>2. sends' \in Seq(Sent) /\ queue' \in Seq(Datagram)
  BY <1>1 DEF QueryInv, Shape
<1>3. Traffic'
  <2>1. pc' = "recv" => queue # <<>>
    BY DEF Poll, PollInterrupted, Continue, Return
  <2>. QED  BY <1>1, <2>1 DEF QueryInv, Traffic, Reply, Foreign, net
<1>4. /\ Len(sends') = (attempt - 1) * Len(servers) + k
      /\ \A n \in 1..Len(sends') : sends'[n].to = servers[((n - 1) % Len(servers)) + 1]
  BY <1>1 DEF QueryInv, Turns
<1>5. \/ Continue
      \/ pc' \in {"poll", "recv"} /\ UNCHANGED <<attempt, k, result, answer>>
      \/ Return("EINTR", NoAnswer)
  BY DEF Poll, PollInterrupted
<1>. QED  BY <1>1, <1>2, <1>3, <1>4, <1>5, LoopStep

LEMMA RecvStep ==
  ASSUME QueryInv, Recv
  PROVE  QueryInv'
<1>1. pc = "recv" /\ pc \in InLoop /\ UNCHANGED <<servers, sock, sends, net>>
  BY DEF Recv, Continue, Return, InLoop
<1>2. server # Stranger
  BY <1>1, LoopFacts
<1>3. queue \in Seq(Datagram) /\ queue # <<>> /\ sends' \in Seq(Sent)
  BY <1>1 DEF QueryInv, Shape, Traffic
<1>4. /\ Head(queue) = queue[1] /\ Head(queue) \in Datagram /\ 1 \in 1..Len(queue)
      /\ Tail(queue) \in Seq(Datagram) /\ Len(Tail(queue)) = Len(queue) - 1
      /\ \A i \in 1..Len(Tail(queue)) : Tail(queue)[i] = queue[i + 1] /\ i + 1 \in 1..Len(queue)
  BY <1>3
<1>5. queue' \in {queue, Tail(queue)}
  BY DEF Recv
<1>6. queue' \in Seq(Datagram)
  BY <1>3, <1>4, <1>5
<1>7. Traffic'
  <2>1. \A i \in 1..Len(queue') : \E j \in 1..Len(queue) : queue'[i] = queue[j]
    BY <1>3, <1>4, <1>5
  <2>2. pc' # "recv"
    BY DEF Recv, Continue, Return
  <2>. QED  BY <1>1, <2>1, <2>2 DEF QueryInv, Traffic, Reply, Foreign, net
<1>8. /\ Len(sends') = (attempt - 1) * Len(servers) + k
      /\ \A n \in 1..Len(sends') : sends'[n].to = servers[((n - 1) % Len(servers)) + 1]
  BY <1>1 DEF QueryInv, Turns
<1>9. Continue \/ \E d \in Datagram : Return("none", d) /\ Accept(d) /\ Reply(d)'
  <2>1. SUFFICES ASSUME ~Continue
                 PROVE  \E d \in Datagram : Return("none", d) /\ Accept(d) /\ Reply(d)'
    OBVIOUS
  <2>2. Return("none", Head(queue)) /\ Accept(Head(queue))
    BY <2>1 DEF Recv
  <2>3. ~Foreign(Head(queue))
    BY <2>2, <1>2 DEF Accept, Foreign
  <2>4. Reply(Head(queue))
    BY <2>3, <1>4 DEF QueryInv, Traffic
  <2>5. \A d : Reply(d) => Reply(d)'
    BY <1>1 DEF Reply
  <2>. QED  BY <2>2, <2>4, <2>5, <1>4
<1>. QED  BY <1>1, <1>3, <1>6, <1>7, <1>8, <1>9, LoopStep

LEMMA CloseStep ==
  ASSUME QueryInv, Close
  PROVE  QueryInv'
<1>1. /\ pc = "close" /\ pc' = "done" /\ sock' = FALSE /\ queue' = <<>>
      /\ result' = IF answer # NoAnswer THEN Parse(answer) ELSE result
      /\ UNCHANGED <<servers, attempt, k, answer, sends, net>>
  BY DEF Close
<1>2. answer # NoAnswer => Parse(answer) # "ETIMEDOUT"
  BY DEF QueryInv, Answered, Parse, ReplyKinds
<1>3. Shape'
  <2>1. queue' \in Seq(Datagram)
    BY <1>1
  <2>. QED  BY <1>1, <2>1 DEF QueryInv, Shape, InLoop, net
<1>4. Open'
  BY <1>1 DEF Open, InLoop
<1>5. Traffic'
  BY <1>1 DEF QueryInv, Traffic, Reply, net
<1>6. Answered'
  BY <1>1, <1>2 DEF QueryInv, Answered, Reply
<1>7. Turns'
  BY <1>1, <1>2 DEF QueryInv, Turns, InLoop
<1>. QED  BY <1>3, <1>4, <1>5, <1>6, <1>7 DEF QueryInv

-----------------------------------------------------------------------------
(* The network. *)

\* What a step of the network has to show.
LEMMA NetworkStep ==
  ASSUME QueryInv,
         UNCHANGED <<pc, servers, attempt, k, sock, result, answer, sends>>,
         inflight' \subseteq Datagram, strays' \in Nat, dups' \in Nat,
         \A d \in inflight' : Reply(d),
         queue' = queue \/ \E d \in Datagram : queue' = Append(queue, d) /\ (Reply(d) \/ Foreign(d))
  PROVE  QueryInv'
<1>1. queue \in Seq(Datagram)
  BY DEF QueryInv, Shape
<1>2. \A d : (Reply(d) <=> Reply(d)') /\ (Foreign(d) <=> Foreign(d)')
  BY DEF Reply, Foreign
<1>3. /\ queue' \in Seq(Datagram) /\ (queue # <<>> => queue' # <<>>)
      /\ \A i \in 1..Len(queue') : Reply(queue'[i]) \/ Foreign(queue'[i])
  <2>1. CASE queue' = queue
    BY <2>1, <1>1 DEF QueryInv, Traffic
  <2>2. ASSUME NEW d \in Datagram, queue' = Append(queue, d), Reply(d) \/ Foreign(d)
        PROVE  /\ queue' \in Seq(Datagram) /\ queue' # <<>>
               /\ \A i \in 1..Len(queue') : Reply(queue'[i]) \/ Foreign(queue'[i])
    <3>1. /\ queue' \in Seq(Datagram) /\ Len(queue') = Len(queue) + 1
          /\ queue'[Len(queue) + 1] = d
          /\ \A i \in 1..Len(queue) : queue'[i] = queue[i]
      BY <2>2, <1>1
    <3>2. \A i \in 1..Len(queue') : i \in 1..Len(queue) \/ i = Len(queue) + 1
      BY <3>1, <1>1
    <3>3. queue' # <<>>
      BY <3>1, <1>1
    <3>. QED  BY <2>2, <3>1, <3>2, <3>3 DEF QueryInv, Traffic
  <2>. QED  BY <2>1, <2>2
<1>4. Shape'
  BY <1>3 DEF QueryInv, Shape
<1>5. Open' /\ Answered' /\ Turns'
  <2>1. Open'
    BY DEF QueryInv, Open
  <2>2. Answered'
    BY DEF QueryInv, Answered, Reply
  <2>3. Turns'
    BY DEF QueryInv, Turns
  <2>. QED  BY <2>1, <2>2, <2>3
<1>6. Traffic'
  BY <1>2, <1>3 DEF QueryInv, Traffic
<1>. QED  BY <1>4, <1>5, <1>6 DEF QueryInv

LEMMA ReplyStep ==
  ASSUME QueryInv, NEW n \in 1..Len(sends), ServerReplies(n)
  PROVE  QueryInv'
<1>1. PICK kind \in Kinds :
         inflight' = inflight \cup {[from |-> sends[n].to, id |-> TRUE, kind |-> kind, to |-> n]}
  BY DEF ServerReplies
<1>. DEFINE d == [from |-> sends[n].to, id |-> TRUE, kind |-> kind, to |-> n]
<1>2. sends[n] \in Sent /\ n \in Nat /\ sends[n].ok
  BY DEF QueryInv, Shape, ServerReplies
<1>3. sends[n] = [to |-> sends[n].to, ok |-> TRUE]
  BY <1>2 DEF Sent
<1>4. d \in Datagram
  BY <1>2, KindsAssumption DEF Sent, Datagram
<1>5. Reply(d)
  BY <1>3 DEF Reply
<1>. HIDE DEF d
<1>6. inflight' \subseteq Datagram /\ \A c \in inflight' : Reply(c)
  BY <1>1, <1>4, <1>5 DEF QueryInv, Shape, Traffic, d
<1>7. /\ UNCHANGED <<pc, servers, attempt, k, sock, result, answer, sends, queue>>
      /\ strays' \in Nat /\ dups' \in Nat
  BY DEF ServerReplies, QueryInv, Shape
<1>. QED  BY <1>6, <1>7, NetworkStep

LEMMA DeliverStep ==
  ASSUME QueryInv, NEW d \in inflight, Deliver(d)
  PROVE  QueryInv'
<1>1. /\ UNCHANGED <<pc, servers, attempt, k, sock, result, answer, sends>>
      /\ queue' = Append(queue, d) /\ inflight' \subseteq inflight
  BY DEF Deliver
<1>2. strays' \in Nat /\ dups' \in Nat
  BY DEF Deliver, QueryInv, Shape
<1>3. d \in Datagram /\ inflight' \subseteq Datagram /\ Reply(d) /\ \A c \in inflight' : Reply(c)
  BY <1>1 DEF QueryInv, Shape, Traffic
<1>. QED  BY <1>1, <1>2, <1>3, NetworkStep

LEMMA StrayStep ==
  ASSUME QueryInv, NEW a \in Addresses, NEW sameId \in BOOLEAN, Stray(a, sameId)
  PROVE  QueryInv'
<1>. DEFINE d == [from |-> a, id |-> sameId, kind |-> "answer", to |-> 0]
<1>1. /\ UNCHANGED <<pc, servers, attempt, k, sock, result, answer, sends, inflight>>
      /\ queue' = Append(queue, d)
  BY DEF Stray
<1>2. strays' \in Nat /\ dups' \in Nat
  BY DEF Stray, QueryInv, Shape
<1>3. d \in Datagram /\ Foreign(d)
  BY DEF Stray, Datagram, ReplyKinds, Foreign
<1>4. inflight' \subseteq Datagram /\ \A c \in inflight' : Reply(c)
  BY <1>1 DEF QueryInv, Shape, Traffic
<1>. HIDE DEF d
<1>. QED  BY <1>1, <1>2, <1>3, <1>4, NetworkStep

LEMMA QueryInvHolds == Spec => []QueryInv
<1>1. QueryInv /\ [Next]_vars => QueryInv'
  <2>. SUFFICES ASSUME QueryInv, [Next]_vars PROVE QueryInv'
    OBVIOUS
  <2>1. CASE resolve
    BY <2>1, BeforeStep, SendStep, PollStep, RecvStep, CloseStep DEF resolve
  <2>2. CASE PollInterrupted
    BY <2>2, PollStep
  <2>3. CASE \E n \in 1..Len(sends) : ServerReplies(n)
    BY <2>3, ReplyStep
  <2>4. CASE \E d \in inflight : Deliver(d)
    BY <2>4, DeliverStep
  <2>5. CASE \E a \in Addresses, sameId \in BOOLEAN : Stray(a, sameId)
    BY <2>5, StrayStep
  <2>6. CASE UNCHANGED vars
    <3>1. UNCHANGED <<pc, servers, attempt, k, sock, result, answer, sends, queue>>
          /\ UNCHANGED <<inflight, strays, dups>>
      BY <2>6 DEF vars
    <3>2. /\ inflight' \subseteq Datagram /\ strays' \in Nat /\ dups' \in Nat
          /\ \A d \in inflight' : Reply(d)
      BY <3>1 DEF QueryInv, Shape, Traffic
    <3>. QED  BY <3>1, <3>2, NetworkStep
  <2>. QED  BY <2>1, <2>2, <2>3, <2>4, <2>5, <2>6 DEF Next
<1>. QED  BY <1>1, QueryInit, PTL DEF Spec

-----------------------------------------------------------------------------
\* For any nameserver lists and any traffic, what query returns is a reply to
\* a query of this call, from the server whose turn it is.
THEOREM AnswerOurs == Spec => []AnswerIsOurs
<1>1. QueryInv => AnswerIsOurs
  BY DEF QueryInv, Answered, Reply, AnswerIsOurs
<1>. QED  BY <1>1, QueryInvHolds, PTL

\* The safety half of Resolves: when resolve_a has returned the socket is
\* closed, and it gave up only after two rounds over all servers, in order.
THEOREM GivesUpLate == Spec => [](pc = "done" => Finished)
<1>1. QueryInv => (pc = "done" => Finished)
  <2>. SUFFICES ASSUME QueryInv, pc = "done" PROVE Finished
    OBVIOUS
  <2>1. ~sock
    BY DEF QueryInv, Open, InLoop
  <2>. QED  BY <2>1 DEF QueryInv, Turns, Finished
<1>. QED  BY <1>1, QueryInvHolds, PTL

-----------------------------------------------------------------------------
(* DnsParse. The position never goes back, so that every address found      *)
(* lies behind it.                                                          *)

AddrRec == [at : Nat, addr : [0..3 -> P!Byte] \cup [0..15 -> P!Byte]]

\* A turn of a section's loop is under way only while turns are left.
Counted == ppc \in {"name", "fields"} => left > 0

\* The addresses found end at or before the position; strictly before it once
\* a name has been stepped over.
Behind ==
    /\ ppc = "header" => out = <<>>
    /\ ppc \in {"loop", "name"} => \A i \in 1..Len(out) : out[i].at + P!AddrLen(qtype) <= pos
    /\ ppc = "fields" => \A i \in 1..Len(out) : out[i].at + P!AddrLen(qtype) < pos

ParseInv == P!TypeOK /\ Counted /\ P!NoOverread /\ Behind /\ P!AddressesInReply

-----------------------------------------------------------------------------
(* Reading the buffer. *)

LEMMA AtIsByte == ASSUME P!TypeOK, NEW p \in Int PROVE P!At(p) \in P!Byte
<1>1. p \in 0..BufLen - 1 => P!buf[p] \in P!Byte
  BY DEF P!TypeOK, P!Buffer
<1>2. 0 \in P!Byte
  BY DEF P!Byte
<1> QED
  BY <1>1, <1>2 DEF P!At

LEMMA U16IsNat == ASSUME P!TypeOK, NEW p \in Nat PROVE P!U16(p) \in Nat
<1>1. P!At(p) \in P!Byte /\ P!At(p + 1) \in P!Byte
  BY AtIsByte
<1>2. \A a, b \in P!Byte : a * 256 + b \in Nat
  BY DEF P!Byte
<1>3. QED
  BY <1>1, <1>2 DEF P!U16

LEMMA AddrLenValue == ASSUME P!TypeOK PROVE P!AddrLen(qtype) \in {4, 16}
  BY DEF P!AddrLen

LEMMA AtIsNat == ASSUME NEW r \in AddrRec PROVE r.at \in Nat
  BY DEF AddrRec

LEMMA OutAt ==
  ASSUME P!TypeOK
  PROVE  /\ out \in Seq(AddrRec) /\ Len(out) \in Nat
         /\ \A i \in 1..Len(out) : out[i].at \in Nat
<1>1. out \in Seq(AddrRec)
  BY DEF P!TypeOK, AddrRec
<1>2. Len(out) \in Nat /\ \A i \in 1..Len(out) : out[i] \in AddrRec
  BY <1>1
<1>3. QED
  BY <1>1, <1>2, AtIsNat

\* The record the parser appends is well-formed.
LEMMA NewAddr ==
  ASSUME P!TypeOK
  PROVE  [at |-> pos + 10,
          addr |-> [j \in 0..P!AddrLen(qtype) - 1 |-> P!At(pos + 10 + j)]] \in AddrRec
<1> DEFINE addr == [j \in 0..P!AddrLen(qtype) - 1 |-> P!At(pos + 10 + j)]
<1>1. pos + 10 \in Nat
  BY DEF P!TypeOK
<1>2. \A j \in 0..P!AddrLen(qtype) - 1 : P!At(pos + 10 + j) \in P!Byte
  BY <1>1, AtIsByte, AddrLenValue
<1>3. addr \in [0..P!AddrLen(qtype) - 1 -> P!Byte]
  BY <1>2
<1>4. 0..P!AddrLen(qtype) - 1 = 0..3 \/ 0..P!AddrLen(qtype) - 1 = 0..15
  BY AddrLenValue
<1>5. addr \in [0..3 -> P!Byte] \cup [0..15 -> P!Byte]
  BY <1>3, <1>4
<1> HIDE DEF addr
<1>6. QED
  BY <1>1, <1>5 DEF AddrRec, addr

LEMMA ReadsBound ==
  ASSUME P!TypeOK, P!NoOverread, NEW p \in Nat, p < BufLen, P!Reads(p)
  PROVE  top' \in Nat /\ top' <= BufLen
  BY BufLenAssumption DEF P!TypeOK, P!NoOverread, P!Reads, P!Max2

\* A return changes nothing the invariant speaks of but ppc and verdict.
LEMMA ReturnStep ==
  ASSUME ParseInv, NEW r \in {"Ok", "ENOENT", "EINVAL"}, P!Return(r), top' \in Nat, top' <= BufLen
  PROVE  ParseInv'
<1>1. /\ ppc' = "done" /\ verdict' = r
      /\ UNCHANGED <<reply, qtype, part, pos, left, ancount, out>>
  BY DEF P!Return
<1>2. P!buf' = P!buf /\ P!n' = P!n
  BY <1>1 DEF P!buf, P!n
<1>3. P!TypeOK'
  BY <1>1, <1>2 DEF ParseInv, P!TypeOK
<1>4. Counted' /\ P!NoOverread' /\ Behind'
  BY <1>1 DEF Counted, P!NoOverread, Behind
<1>5. P!AddressesInReply'
  BY <1>1, <1>2 DEF ParseInv, P!AddressesInReply
<1>6. QED
  BY <1>3, <1>4, <1>5 DEF ParseInv

-----------------------------------------------------------------------------

LEMMA ParseInit == P!Init => ParseInv
<1> SUFFICES ASSUME P!Init PROVE ParseInv
  OBVIOUS
<1>1. out = <<>> /\ Len(out) = 0 /\ 1..Len(out) = {}
  BY DEF P!Init
<1>2. P!TypeOK
  BY <1>1, RepliesAssumption, MaxAddrsAssumption DEF P!Init, P!TypeOK, P!buf, P!n
<1>3. Counted /\ P!NoOverread /\ Behind /\ P!AddressesInReply
  BY <1>1, BufLenAssumption DEF P!Init, Counted, P!NoOverread, Behind, P!AddressesInReply
<1>4. QED
  BY <1>2, <1>3 DEF ParseInv

LEMMA HeaderStep == ASSUME ParseInv, P!Header PROVE ParseInv'
<1>0. P!TypeOK /\ P!NoOverread /\ P!n \in 0..BufLen /\ BufLen \in Nat
  BY BufLenAssumption DEF ParseInv, P!TypeOK
<1>1. CASE P!n < 12 /\ P!Return("EINVAL") /\ UNCHANGED top
  BY <1>0, <1>1, ReturnStep DEF P!TypeOK, P!NoOverread
<1>2. CASE P!n >= 12 /\ P!U16(2) % 16 = 3 /\ P!Return("ENOENT") /\ P!Reads(3)
  BY <1>0, <1>2, ReturnStep, ReadsBound
<1>3. CASE P!n >= 12 /\ P!U16(2) % 16 \notin {0, 3} /\ P!Return("EINVAL") /\ P!Reads(3)
  BY <1>0, <1>3, ReturnStep, ReadsBound
<1>4. CASE /\ P!n >= 12 /\ P!U16(2) % 16 = 0
           /\ P!Reads(7)
           /\ left' = P!U16(4)
           /\ ancount' = P!U16(6)
           /\ pos' = 12
           /\ ppc' = "loop"
           /\ UNCHANGED <<reply, qtype, part, out, verdict>>
  <2>1. top' \in Nat /\ top' <= BufLen
    BY <1>0, <1>4, ReadsBound
  <2>2. left' \in Nat /\ ancount' \in Nat
    BY <1>0, <1>4, U16IsNat
  <2>3. P!buf' = P!buf /\ P!n' = P!n
    BY <1>4 DEF P!buf, P!n
  <2>4. P!TypeOK'
    BY <1>4, <2>1, <2>2, <2>3 DEF ParseInv, P!TypeOK
  <2>5. out = <<>> /\ 1..Len(out) = {}
    BY DEF P!Header, ParseInv, Behind
  <2>6. Counted' /\ P!NoOverread' /\ Behind' /\ P!AddressesInReply'
    BY <1>4, <2>1, <2>5 DEF Counted, P!NoOverread, Behind, P!AddressesInReply
  <2>7. QED
    BY <2>4, <2>6 DEF ParseInv
<1>5. QED
  BY <1>1, <1>2, <1>3, <1>4 DEF P!Header

LEMMA SectionStep == ASSUME ParseInv, P!Loop PROVE ParseInv'
<1>0. P!TypeOK /\ P!NoOverread /\ UNCHANGED top
  BY DEF ParseInv, P!Loop
<1>1. CASE /\ left > 0
           /\ ppc' = "name"
           /\ UNCHANGED <<reply, qtype, part, pos, left, ancount, out, verdict>>
  <2>1. P!buf' = P!buf /\ P!n' = P!n
    BY <1>1 DEF P!buf, P!n
  <2>2. P!TypeOK'
    BY <1>0, <1>1, <2>1 DEF P!TypeOK
  <2>3. Counted' /\ P!NoOverread' /\ Behind' /\ P!AddressesInReply'
    BY <1>0, <1>1, <2>1 DEF P!Loop, ParseInv, Counted, P!NoOverread, Behind, P!AddressesInReply
  <2>4. QED
    BY <2>2, <2>3 DEF ParseInv
<1>2. CASE /\ left = 0 /\ part = "question"
           /\ part' = "answer" /\ left' = ancount
           /\ UNCHANGED <<reply, qtype, ppc, pos, ancount, out, verdict>>
  <2>1. P!buf' = P!buf /\ P!n' = P!n
    BY <1>2 DEF P!buf, P!n
  <2>2. P!TypeOK'
    BY <1>0, <1>2, <2>1 DEF P!TypeOK
  <2>3. Counted' /\ P!NoOverread' /\ Behind' /\ P!AddressesInReply'
    BY <1>0, <1>2, <2>1 DEF P!Loop, ParseInv, Counted, P!NoOverread, Behind, P!AddressesInReply
  <2>4. QED
    BY <2>2, <2>3 DEF ParseInv
<1>3. CASE P!Return(IF out = <<>> THEN "ENOENT" ELSE "Ok")
  BY <1>0, <1>3, ReturnStep DEF P!TypeOK, P!NoOverread
<1>4. QED
  BY <1>1, <1>2, <1>3 DEF P!Loop

LEMMA skip_nameStep == ASSUME ParseInv, P!skip_name PROVE ParseInv'
<1>0. /\ P!TypeOK /\ P!NoOverread /\ pos \in Nat /\ BufLen \in Nat
      /\ P!At(pos) \in 0..255 /\ ppc = "name"
  <2>1. P!TypeOK /\ P!NoOverread /\ ppc = "name"
    BY DEF ParseInv, P!skip_name
  <2>2. pos \in Nat /\ BufLen \in Nat
    BY <2>1, BufLenAssumption DEF P!TypeOK
  <2>3. P!At(pos) \in P!Byte
    BY <2>1, <2>2, AtIsByte
  <2> QED
    BY <2>1, <2>2, <2>3 DEF P!Byte
<1>1. CASE pos >= BufLen /\ P!Return("EINVAL") /\ UNCHANGED top
  BY <1>0, <1>1, ReturnStep DEF P!TypeOK, P!NoOverread
<1>2. CASE /\ pos < BufLen /\ P!At(pos) >= 192 /\ pos + 1 >= BufLen
           /\ P!Return("EINVAL") /\ P!Reads(pos)
  BY <1>0, <1>2, ReturnStep, ReadsBound
<1>3. CASE /\ pos < BufLen
           /\ P!Reads(pos)
           /\ \/ P!At(pos) = 0 /\ pos' = pos + 1 /\ ppc' = "fields"
              \/ P!At(pos) >= 192 /\ pos + 1 < BufLen /\ pos' = pos + 2 /\ ppc' = "fields"
              \/ P!At(pos) \in 1..191 /\ pos' = pos + 1 + P!At(pos) /\ ppc' = "name"
           /\ UNCHANGED <<reply, qtype, part, left, ancount, out, verdict>>
  <2>1. top' \in Nat /\ top' <= BufLen
    BY <1>0, <1>3, ReadsBound
  <2>2. pos' \in Nat /\ pos' > pos /\ ppc' \in {"name", "fields"}
    BY <1>0, <1>3
  <2>3. P!buf' = P!buf /\ P!n' = P!n
    BY <1>3 DEF P!buf, P!n
  <2>4. P!TypeOK'
    BY <1>0, <1>3, <2>1, <2>2, <2>3 DEF P!TypeOK
  <2>5. Counted' /\ P!NoOverread' /\ P!AddressesInReply'
    BY <1>0, <1>3, <2>1, <2>2, <2>3 DEF ParseInv, Counted, P!NoOverread, P!AddressesInReply
  <2>6. \A i \in 1..Len(out) : out[i].at + P!AddrLen(qtype) <= pos
    BY <1>0 DEF ParseInv, Behind
  <2>7. \A i \in 1..Len(out) : out[i].at \in Nat
    BY <1>0, OutAt
  <2>8. \A i \in 1..Len(out) : out[i].at + P!AddrLen(qtype) < pos'
    BY <1>0, <2>2, <2>6, <2>7, AddrLenValue
  <2>9. Behind'
    <3>1. \A i \in 1..Len(out) : out[i].at + P!AddrLen(qtype) <= pos'
      BY <1>0, <2>2, <2>7, <2>8, AddrLenValue
    <3>2. QED
      BY <1>3, <2>8, <3>1 DEF Behind
  <2>10. QED
    BY <2>4, <2>5, <2>9 DEF ParseInv
<1>4. QED
  BY <1>1, <1>2, <1>3 DEF P!skip_name

LEMMA QuestionStep == ASSUME ParseInv, P!Question PROVE ParseInv'
<1>0. P!TypeOK /\ P!NoOverread /\ UNCHANGED top /\ ppc = "fields" /\ left > 0
  BY DEF ParseInv, P!Question, Counted
<1>1. CASE P!Return("EINVAL")
  BY <1>0, <1>1, ReturnStep DEF P!TypeOK, P!NoOverread
<1>2. CASE /\ pos' = pos + 4
           /\ left' = left - 1
           /\ ppc' = "loop"
           /\ UNCHANGED <<reply, qtype, part, ancount, out, verdict>>
  <2>1. P!buf' = P!buf /\ P!n' = P!n
    BY <1>2 DEF P!buf, P!n
  <2>2. P!TypeOK'
    BY <1>0, <1>2, <2>1 DEF P!TypeOK
  <2>3. Counted' /\ P!NoOverread' /\ P!AddressesInReply'
    BY <1>0, <1>2, <2>1 DEF ParseInv, Counted, P!NoOverread, P!AddressesInReply
  <2>4. \A i \in 1..Len(out) : out[i].at \in Nat /\ out[i].at + P!AddrLen(qtype) < pos
    BY <1>0, OutAt DEF ParseInv, Behind
  <2>5. \A i \in 1..Len(out) : out[i].at + P!AddrLen(qtype) <= pos'
    BY <1>0, <1>2, <2>4, AddrLenValue DEF P!TypeOK
  <2>6. Behind'
    BY <1>2, <2>5 DEF Behind
  <2>7. QED
    BY <2>2, <2>3, <2>6 DEF ParseInv
<1>3. QED
  BY <1>1, <1>2 DEF P!Question

LEMMA AnswerStep == ASSUME ParseInv, P!Answer PROVE ParseInv'
<1>0. /\ P!TypeOK /\ P!NoOverread /\ ppc = "fields" /\ left > 0
      /\ pos \in Nat /\ P!n \in 0..BufLen /\ BufLen \in Nat /\ P!rdlength \in Nat
  <2>1. P!TypeOK /\ P!NoOverread /\ ppc = "fields" /\ left > 0
    BY DEF ParseInv, P!Answer, Counted
  <2>2. pos \in Nat /\ pos + 8 \in Nat /\ P!n \in 0..BufLen /\ BufLen \in Nat
    BY <2>1, BufLenAssumption DEF P!TypeOK
  <2>3. QED
    BY <2>1, <2>2, U16IsNat DEF P!rdlength
<1>1. CASE pos + 10 > P!n /\ P!Return("EINVAL") /\ UNCHANGED top
  BY <1>0, <1>1, ReturnStep DEF P!TypeOK, P!NoOverread
<1>2. CASE pos + 10 <= P!n /\ pos + 10 + P!rdlength > P!n /\ P!Return("EINVAL") /\ P!Reads(pos + 9)
  <2>1. top' \in Nat /\ top' <= BufLen
    BY <1>0, <1>2, ReadsBound
  <2>2. QED
    BY <1>2, <2>1, ReturnStep
<1>3. ASSUME /\ pos + 10 + P!rdlength <= P!n
             /\ out' = IF P!Wanted
                       THEN Append(out, [at |-> pos + 10,
                                         addr |-> [j \in 0..P!AddrLen(qtype) - 1 |-> P!At(pos + 10 + j)]])
                       ELSE out
             /\ P!Reads(IF P!Wanted THEN pos + 9 + P!rdlength ELSE pos + 9)
             /\ pos' = pos + 10 + P!rdlength
             /\ left' = left - 1
             /\ ppc' = "loop"
             /\ UNCHANGED <<reply, qtype, part, ancount, verdict>>
      PROVE  ParseInv'
  <2>1. top' \in Nat /\ top' <= BufLen
    BY <1>0, <1>3, ReadsBound
  <2>2. P!buf' = P!buf /\ P!n' = P!n /\ pos' \in Nat /\ left' \in Nat
    BY <1>0, <1>3 DEF P!TypeOK, P!buf, P!n
  <2>3. /\ out \in Seq(AddrRec) /\ Len(out) \in Nat /\ Len(out) <= MAX_ADDRS
        /\ \A i \in 1..Len(out) : out[i].at \in Nat
    BY <1>0, OutAt DEF P!TypeOK
  <2>4. \A i \in 1..Len(out) : out[i].at + P!AddrLen(qtype) < pos
    BY <1>0 DEF ParseInv, Behind
  <2>5. /\ \A i \in 1..Len(out) : out[i].at + P!AddrLen(qtype) <= P!n
        /\ \A j, i \in 1..Len(out) : j < i => out[j].at + P!AddrLen(qtype) + 10 < out[i].at
    BY DEF ParseInv, P!AddressesInReply
  <2>6. Counted' /\ P!NoOverread'
    BY <1>3, <2>1 DEF Counted, P!NoOverread
  <2>7. pos \in Nat /\ pos' \in Nat /\ P!n \in Nat /\ pos <= pos' /\ pos' <= P!n
    BY <1>0, <1>3
  <2>8. P!AddrLen(qtype) \in Nat
    BY <1>0, AddrLenValue
  <2>9. CASE ~P!Wanted
    <3>1. out' = out
      BY <1>3, <2>9
    <3>2. P!TypeOK'
      BY <1>0, <1>3, <2>1, <2>2, <3>1 DEF P!TypeOK
    <3>3. P!AddressesInReply'
      BY <1>3, <2>2, <2>5, <3>1 DEF P!AddressesInReply
    <3>4. \A i \in 1..Len(out) : out[i].at + P!AddrLen(qtype) <= pos'
      BY <2>3, <2>4, <2>7, <2>8
    <3>5. Behind'
      BY <1>3, <3>1, <3>4 DEF Behind
    <3>6. QED
      BY <2>6, <3>2, <3>3, <3>5 DEF ParseInv
  <2>10. CASE P!Wanted
    <3> DEFINE r == [at |-> pos + 10,
                     addr |-> [j \in 0..P!AddrLen(qtype) - 1 |-> P!At(pos + 10 + j)]]
    <3>1. out' = Append(out, r)
      BY <1>3, <2>10
    <3>2. r \in AddrRec /\ r.at = pos + 10
      BY <1>0, NewAddr
    <3> HIDE DEF r
    <3>3. P!rdlength = P!AddrLen(qtype) /\ Len(out) < MAX_ADDRS
      BY <2>10 DEF P!Wanted
    <3>4. /\ out' \in Seq(AddrRec) /\ Len(out') = Len(out) + 1
          /\ \A i \in 1..Len(out) : out'[i] = out[i]
          /\ out'[Len(out) + 1] = r
      BY <2>3, <3>1, <3>2
    <3>5. Len(out') <= MAX_ADDRS
      BY <2>3, <3>3, <3>4, MaxAddrsAssumption
    <3>6. P!TypeOK'
      BY <1>0, <1>3, <2>1, <2>2, <3>4, <3>5 DEF P!TypeOK, AddrRec
    <3>7. \A i \in 1..Len(out') : out'[i].at + P!AddrLen(qtype) <= pos' /\ pos' <= P!n
      <4> SUFFICES ASSUME NEW i \in 1..Len(out')
                   PROVE  out'[i].at + P!AddrLen(qtype) <= pos' /\ pos' <= P!n
        OBVIOUS
      <4>1. CASE i \in 1..Len(out)
        BY <2>3, <2>4, <2>7, <2>8, <3>4, <4>1
      <4>2. CASE i = Len(out) + 1
        <5>1. out'[i].at = pos + 10
          BY <3>2, <3>4, <4>2
        <5>2. pos' = pos + 10 + P!AddrLen(qtype)
          BY <1>3, <3>3
        <5>3. QED
          BY <2>7, <2>8, <5>1, <5>2
      <4>3. QED
        BY <2>3, <3>4, <4>1, <4>2
    <3>8. \A i \in 1..Len(out') : out'[i].at \in Nat
      <4>1. \A i \in 1..Len(out') : out'[i] \in AddrRec
        BY <3>4
      <4>2. QED
        BY <4>1, AtIsNat
    <3>9. \A j, i \in 1..Len(out') : j < i => out'[j].at + P!AddrLen(qtype) + 10 < out'[i].at
      <4> SUFFICES ASSUME NEW j \in 1..Len(out'), NEW i \in 1..Len(out'), j < i
                   PROVE  out'[j].at + P!AddrLen(qtype) + 10 < out'[i].at
        OBVIOUS
      <4>1. j \in 1..Len(out) /\ out'[j] = out[j]
        BY <2>3, <3>4
      <4>2. CASE i \in 1..Len(out)
        <5>1. out'[i] = out[i]
          BY <3>4, <4>2
        <5>2. QED
          BY <2>5, <4>1, <4>2, <5>1
      <4>3. CASE i = Len(out) + 1
        BY <1>0, <2>3, <2>4, <3>2, <3>4, <4>1, <4>3, AddrLenValue
      <4>4. i \in 1..Len(out) \/ i = Len(out) + 1
        BY <2>3, <3>4
      <4>5. QED
        BY <4>2, <4>3, <4>4
    <3>10. P!AddressesInReply'
      <4>1. \A i \in 1..Len(out') : out'[i].at + P!AddrLen(qtype) <= P!n
        BY <1>0, <2>2, <3>7, <3>8, AddrLenValue
      <4>2. QED
        BY <1>3, <2>2, <3>9, <4>1 DEF P!AddressesInReply
    <3>11. Behind'
      BY <1>3, <3>7 DEF Behind
    <3>12. QED
      BY <2>6, <3>6, <3>10, <3>11 DEF ParseInv
  <2>11. QED
    BY <2>9, <2>10
<1>4. QED
  BY <1>1, <1>2, <1>3 DEF P!Answer

LEMMA ParseStep == ParseInv /\ [P!Next]_(P!vars) => ParseInv'
<1>1. ASSUME ParseInv, UNCHANGED P!vars PROVE ParseInv'
  <2>1. /\ P!buf' = P!buf /\ P!n' = P!n
        /\ UNCHANGED <<qtype, ppc, part, pos, left, ancount, out, top, verdict>>
    BY <1>1 DEF P!vars, P!buf, P!n
  <2>2. QED
    BY <1>1, <2>1 DEF ParseInv, P!TypeOK, Counted, P!NoOverread, Behind, P!AddressesInReply
<1>2. QED
  BY <1>1, HeaderStep, SectionStep, skip_nameStep, QuestionStep, AnswerStep DEF P!Next

-----------------------------------------------------------------------------

\* Type correctness: positions and counts stay natural numbers and the address
\* list never outgrows its capacity, whatever counts the reply announces.
THEOREM ParseTypes == P!Spec => []P!TypeOK
<1>1. ParseInv => P!TypeOK
  BY DEF ParseInv
<1>2. QED
  BY ParseInit, ParseStep, <1>1, PTL DEF P!Spec

\* skip_name, parse_header and parse_answers index only within the buffer, for
\* every content of it.
THEOREM InBounds == P!Spec => []NoOverread
<1>1. ParseInv => NoOverread
  BY DEF ParseInv, NoOverread
<1>2. QED
  BY ParseInit, ParseStep, <1>1, PTL DEF P!Spec

\* parse_answers copies addresses only out of the received bytes, and no byte
\* twice.
THEOREM InReply == P!Spec => []P!AddressesInReply
<1>1. ParseInv => P!AddressesInReply
  BY DEF ParseInv
<1>2. QED
  BY ParseInit, ParseStep, <1>1, PTL DEF P!Spec
=============================================================================
