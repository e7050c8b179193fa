--------------------------- MODULE StreamsProofs ---------------------------
(***************************************************************************)
(* Bytes that pass through the kernel. PipeIo: what is in the pipe, what   *)
(* Ok means for write_all and read_all, and that the two loops implement   *)
(* ByteStream, for any number of writers and any buffer and pipe sizes.    *)
(* Sockets: what everyone is told of the endpoints. FileIo: what the       *)
(* children get of a here-document.                                        *)
(* Each theorem is of its component's own specification.                   *)
(***************************************************************************)
EXTENDS Io, WellFoundedInduction, TLAPS

-----------------------------------------------------------------------------
(* PipeIo. *)

\* write_all's slice never runs past its buffer, and Ok is only reached with
\* the slice empty.
SliceInBuffer ==
    \A w \in Writers : sent[w] <= WLen[w] /\ (wres[w] = "Ok" => sent[w] = WLen[w])

\* A writer that is still in write_all has its end open, so at end-of-file no
\* write_all is running.
RunningIsOpen == \A w \in Writers : wres[w] = "running" => w \in wopen

IInv ==
    /\ TypeOK
    /\ SliceInBuffer
    /\ RunningIsOpen
    /\ StreamIntegrity
    /\ ReadAllPrefix

-----------------------------------------------------------------------------
\* Concatenation, elementwise.
LEMMA ConcatFacts ==
    ASSUME NEW S, NEW s \in Seq(S), NEW b \in Seq(S)
    PROVE  /\ s \o b \in Seq(S)
           /\ Len(s \o b) = Len(s) + Len(b)
           /\ \A j \in 1..Len(s) : (s \o b)[j] = s[j]
           /\ \A j \in (Len(s) + 1)..(Len(s) + Len(b)) : (s \o b)[j] = b[j - Len(s)]
OBVIOUS

\* What appending n bytes of a writer's buffer does to the stream.
LEMMA AppendBytes ==
    ASSUME NEW s \in Seq(Byte), NEW w \in Writers, NEW k \in Nat, NEW n \in Nat
    PROVE  /\ s \o Bytes(w, k, n) \in Seq(Byte)
           /\ Len(s \o Bytes(w, k, n)) = Len(s) + n
           /\ \A j \in 1..Len(s) : (s \o Bytes(w, k, n))[j] = s[j]
           /\ \A j \in (Len(s) + 1)..(Len(s) + n) :
                (s \o Bytes(w, k, n))[j] = <<w, k + (j - Len(s))>>
<1> DEFINE b == Bytes(w, k, n)
<1>1. \A j \in 1..n : <<w, k + j>> \in Byte
  BY DEF Byte
<1>2. b \in Seq(Byte) /\ Len(b) = n
  <2>1. b \in [1..n -> Byte]
    BY <1>1 DEF Bytes
  <2> HIDE DEF b
  <2> QED
    BY <2>1
<1>3. \A j \in 1..n : b[j] = <<w, k + j>>
  BY DEF Bytes
<1> HIDE DEF b
<1>4. /\ s \o b \in Seq(Byte) /\ Len(s \o b) = Len(s) + Len(b)
      /\ \A j \in 1..Len(s) : (s \o b)[j] = s[j]
      /\ \A j \in (Len(s) + 1)..(Len(s) + Len(b)) : (s \o b)[j] = b[j - Len(s)]
  BY <1>2, ConcatFacts, Zenon
<1>5. ASSUME NEW j \in (Len(s) + 1)..(Len(s) + n)
      PROVE  (s \o b)[j] = <<w, k + (j - Len(s))>>
  <2>1. j - Len(s) \in 1..n
    OBVIOUS
  <2> QED
    BY <1>2, <1>3, <1>4, <2>1
<1> QED
  BY <1>2, <1>4, <1>5, Zenon DEF b

LEMMA InitIInv == Init => IInv
BY WLenAssumption, RLenAssumption, MaxIntrAssumption
   DEF Init, IInv, TypeOK, SliceInBuffer, RunningIsOpen, StreamIntegrity, ReadAllPrefix

\* A successful write keeps every writer's bytes exact.
LEMMA WriteSomeStep == ASSUME IInv, NEW w \in Writers, WriteSome(w) PROVE IInv'
<1> USE DEF IInv
<1>1. PICK n \in 1..Least(Room, WLen[w] - sent[w]) :
        /\ stream' = stream \o Bytes(w, sent[w], n)
        /\ sent' = [sent EXCEPT ![w] = @ + n]
  BY Zenon DEF WriteSome
<1>2. /\ stream \in Seq(Byte) /\ Len(stream) \in Nat
      /\ sent \in [Writers -> Nat] /\ sent[w] \in Nat /\ WLen[w] \in Nat
      /\ total \in Nat /\ Capacity \in Nat
  BY WLenAssumption, RLenAssumption, CapacityAssumption DEF TypeOK
<1>3. n \in Nat \ {0} /\ n <= WLen[w] - sent[w]
  BY <1>1, <1>2 DEF Least, Room, InPipe
<1>4. /\ stream' \in Seq(Byte)
      /\ Len(stream') = Len(stream) + n
      /\ \A j \in 1..Len(stream) : stream'[j] = stream[j]
      /\ \A j \in (Len(stream) + 1)..Len(stream') :
            stream'[j] = <<w, sent[w] + (j - Len(stream))>>
  <2>1. n \in Nat
    BY <1>3
  <2> DEFINE t == stream \o Bytes(w, sent[w], n)
  <2>2. /\ t \in Seq(Byte) /\ Len(t) = Len(stream) + n
        /\ \A j \in 1..Len(stream) : t[j] = stream[j]
        /\ \A j \in (Len(stream) + 1)..(Len(stream) + n) :
              t[j] = <<w, sent[w] + (j - Len(stream))>>
    <3>1. stream \in Seq(Byte)
      BY <1>2
    <3>2. sent[w] \in Nat
      BY <1>2
    <3> QED
      BY <2>1, <3>1, <3>2, AppendBytes, Zenon
  <2> QED
    BY <1>1, <1>2, <2>2, Zenon
<1>5. /\ sent' \in [Writers -> Nat] /\ sent'[w] = sent[w] + n
      /\ \A v \in Writers : v # w => sent'[v] = sent[v]
      /\ \A v \in Writers : sent[v] <= sent'[v]
  BY <1>1, <1>2, <1>3
<1>6. UNCHANGED <<nonblock, total, rbuf, wres, rres, wopen, ropen, intrs>> /\ wres[w] = "running"
  BY DEF WriteSome, Writing
<1>7. TypeOK'
  BY <1>4, <1>5, <1>6 DEF TypeOK
<1>8. SliceInBuffer' /\ RunningIsOpen'
  <2>1. ASSUME NEW v \in Writers
        PROVE  sent'[v] <= WLen[v] /\ (wres'[v] = "Ok" => sent'[v] = WLen[v])
    BY <1>2, <1>3, <1>5, <1>6 DEF SliceInBuffer
  <2> QED
    BY <1>6, <2>1 DEF SliceInBuffer, RunningIsOpen
<1>9. ReadAllPrefix'
  <2>1. w \in wopen
    BY <1>6 DEF RunningIsOpen
  <2>2. Len(rbuf) = total /\ total <= Len(stream)
    BY DEF ReadAllPrefix
  <2>3. \A k \in 1..total : rbuf[k] = stream'[k]
    <3>1. \A k \in 1..total : k \in 1..Len(stream) /\ rbuf[k] = stream[k]
      BY <1>2, <2>2 DEF ReadAllPrefix
    <3> QED
      BY <1>4, <3>1
  <2>4. total <= Len(stream')
    BY <1>2, <1>3, <1>4, <2>2
  <2> QED
    BY <1>6, <2>1, <2>2, <2>3, <2>4 DEF ReadAllPrefix
<1>10. StreamIntegrity'
  <2>1. ASSUME NEW v \in Writers, NEW m \in 1..sent'[v]
        PROVE  \E k \in 1..Len(stream') : stream'[k] = <<v, m>>
    <3>1. CASE m <= sent[v]
      <4>1. m \in 1..sent[v]
        BY <1>2, <3>1
      <4>2. PICK k \in 1..Len(stream) : stream[k] = <<v, m>>
        BY <4>1, Zenon DEF StreamIntegrity
      <4>3. k \in 1..Len(stream')
        BY <1>2, <1>3, <1>4
      <4>4. stream'[k] = <<v, m>>
        BY <1>4, <4>2, Zenon
      <4> QED
        BY <4>3, <4>4
    <3>2. CASE ~(m <= sent[v])
      <4>1. v = w /\ m \in (sent[w] + 1)..(sent[w] + n)
        BY <1>2, <1>5, <3>2
      <4>2. DEFINE k == Len(stream) + (m - sent[w])
      <4>3. k \in (Len(stream) + 1)..Len(stream') /\ k - Len(stream) = m - sent[w]
        BY <1>2, <1>3, <1>4, <4>1
      <4>4. k \in 1..Len(stream')
        BY <1>2, <4>3
      <4>5. stream'[k] = <<w, sent[w] + (k - Len(stream))>>
        BY <1>4, <4>3
      <4>6. sent[w] + (k - Len(stream)) = m
        BY <1>2, <4>1, <4>3
      <4> HIDE DEF k
      <4> QED
        BY <4>1, <4>4, <4>5, <4>6
    <3> QED
      BY <3>1, <3>2
  <2>2. ASSUME NEW k \in 1..Len(stream')
        PROVE  stream'[k][2] <= sent'[stream'[k][1]]
    <3>1. CASE k \in 1..Len(stream)
      <4>1. stream[k] \in Byte /\ stream'[k] = stream[k]
        BY <1>2, <1>4, <3>1
      <4>2. stream[k][2] <= sent[stream[k][1]] /\ stream[k][1] \in Writers /\ stream[k][2] \in Nat
        BY <3>1, <4>1 DEF StreamIntegrity, Byte
      <4>3. stream[k][1] = w => stream[k][2] <= sent[w] + n
        BY <1>2, <4>2
      <4>4. sent'[stream[k][1]] = IF stream[k][1] = w THEN sent[w] + n ELSE sent[stream[k][1]]
        BY <1>5, <4>2
      <4> QED
        BY <4>1, <4>2, <4>3, <4>4
    <3>2. CASE k \in (Len(stream) + 1)..Len(stream')
      <4>1. stream'[k][1] = w /\ stream'[k][2] = sent[w] + (k - Len(stream))
        BY <1>4, <3>2
      <4> QED
        BY <1>2, <1>3, <1>4, <1>5, <3>2, <4>1
    <3> QED
      BY <1>2, <1>4, <3>1, <3>2
  <2>3. ASSUME NEW j \in 1..Len(stream'), NEW k \in 1..Len(stream'),
               j < k, stream'[j][1] = stream'[k][1]
        PROVE  stream'[j][2] < stream'[k][2]
    <3>1. CASE k \in 1..Len(stream)
      <4>1. j \in 1..Len(stream)
        BY <1>2, <2>3, <3>1
      <4> QED
        BY <1>4, <2>3, <3>1, <4>1 DEF StreamIntegrity
    <3>2. CASE k \in (Len(stream) + 1)..Len(stream')
      <4>1. stream'[k][1] = w /\ stream'[k][2] = sent[w] + (k - Len(stream))
        BY <1>4, <3>2
      <4>2. CASE j \in 1..Len(stream)
        <5>1. stream'[j] = stream[j] /\ stream[j] \in Byte
          BY <1>2, <1>4, <4>2
        <5>2. stream[j][1] = w /\ stream[j][2] <= sent[w] /\ stream[j][2] \in Nat
          BY <2>3, <4>1, <4>2, <5>1 DEF StreamIntegrity, Byte
        <5> QED
          BY <1>2, <1>4, <3>2, <4>1, <5>1, <5>2
      <4>3. CASE j \in (Len(stream) + 1)..Len(stream')
        <5>1. stream'[j][2] = sent[w] + (j - Len(stream))
          BY <1>4, <4>3
        <5> QED
          BY <1>2, <1>4, <2>3, <3>2, <4>1, <4>3, <5>1
      <4> QED
        BY <1>2, <1>4, <4>2, <4>3
    <3> QED
      BY <1>2, <1>4, <3>1, <3>2
  <2> QED
    BY <2>1, <2>2, <2>3, Zenon DEF StreamIntegrity
<1> QED
  BY <1>7, <1>8, <1>9, <1>10

\* A successful read extends the filled part of the buffer by the next bytes.
LEMMA ReadSomeStep == ASSUME IInv, ReadSome PROVE IInv'
<1> USE DEF IInv
<1>1. PICK n \in 1..Least(InPipe, RLen - total) :
        /\ total' = total + n
        /\ rbuf' = rbuf \o SubSeq(stream, total + 1, total + n)
  BY Zenon DEF ReadSome
<1>2. /\ stream \in Seq(Byte) /\ Len(stream) \in Nat /\ rbuf \in Seq(Byte)
      /\ total \in Nat /\ RLen \in Nat /\ Len(rbuf) = total /\ total <= Len(stream)
      /\ \A k \in 1..total : rbuf[k] = stream[k]
  BY RLenAssumption DEF TypeOK, ReadAllPrefix
<1>3. n \in Nat \ {0} /\ total + n <= RLen /\ total + n <= Len(stream)
  BY <1>1, <1>2 DEF Least, InPipe
<1>4. UNCHANGED <<nonblock, stream, sent, wres, rres, wopen, ropen, intrs>> /\ rres = "running"
  BY DEF ReadSome, Reading
<1> DEFINE part == SubSeq(stream, total + 1, total + n)
<1>5. /\ part \in Seq(Byte) /\ Len(part) = n
      /\ \A j \in 1..n : part[j] = stream[total + j]
  <2>1. \A j \in 1..n : total + j \in 1..Len(stream) /\ stream[total + j] \in Byte
    BY <1>2, <1>3
  <2>2. part = [j \in 1..n |-> stream[total + j]]
    BY <1>2, <1>3
  <2>3. part \in [1..n -> Byte] /\ \A j \in 1..n : part[j] = stream[total + j]
    BY <2>1, <2>2, Zenon
  <2> HIDE DEF part
  <2> QED
    BY <1>2, <1>3, <2>3
<1> HIDE DEF part
<1>6. /\ rbuf' \in Seq(Byte) /\ Len(rbuf') = total + n
      /\ \A k \in 1..total : rbuf'[k] = rbuf[k]
      /\ \A k \in (total + 1)..(total + n) : rbuf'[k] = part[k - total]
  <2>1. rbuf' = rbuf \o part
    BY <1>1 DEF part
  <2>2. /\ rbuf \o part \in Seq(Byte) /\ Len(rbuf \o part) = Len(rbuf) + Len(part)
        /\ \A k \in 1..Len(rbuf) : (rbuf \o part)[k] = rbuf[k]
        /\ \A k \in (Len(rbuf) + 1)..(Len(rbuf) + Len(part)) :
              (rbuf \o part)[k] = part[k - Len(rbuf)]
    <3>1. rbuf \in Seq(Byte) /\ part \in Seq(Byte)
      BY <1>2, <1>5
    <3> QED
      BY <3>1, ConcatFacts, Zenon
  <2> QED
    BY <1>2, <1>5, <2>1, <2>2
<1>7. \A k \in 1..(total + n) : rbuf'[k] = stream[k]
  <2>1. ASSUME NEW k \in 1..(total + n) PROVE rbuf'[k] = stream[k]
    <3>1. CASE k \in 1..total
      BY <1>2, <1>6, <3>1
    <3>2. CASE k \in (total + 1)..(total + n)
      <4>1. k - total \in 1..n /\ total + (k - total) = k
        BY <1>2, <1>3, <3>2
      <4> QED
        BY <1>5, <1>6, <3>2, <4>1
    <3> QED
      BY <1>2, <1>3, <3>1, <3>2
  <2> QED
    BY <2>1
<1>8. TypeOK'
  BY <1>1, <1>2, <1>3, <1>4, <1>6 DEF TypeOK
<1>9. SliceInBuffer' /\ RunningIsOpen' /\ StreamIntegrity'
  BY <1>4, Zenon DEF SliceInBuffer, RunningIsOpen, StreamIntegrity
<1>10. ReadAllPrefix'
  BY <1>1, <1>2, <1>3, <1>4, <1>6, <1>7 DEF ReadAllPrefix
<1> QED
  BY <1>8, <1>9, <1>10

LEMMA NextIInv == IInv /\ [Next]_vars => IInv'
<1> SUFFICES ASSUME IInv, [Next]_vars PROVE IInv'
  OBVIOUS
<1> USE DEF IInv
<1>1. ASSUME NEW w \in Writers, WriteSome(w) PROVE IInv'
  BY <1>1, WriteSomeStep
<1>2. CASE ReadSome
  BY <1>2, ReadSomeStep
\* Every other step leaves the bytes alone.
<1>3. ASSUME UNCHANGED <<nonblock, stream, total, rbuf, sent>>,
             intrs' \in 0..MaxIntr, ropen' \in BOOLEAN, wopen' \subseteq wopen,
             wres' \in [Writers -> {"running", "Ok", "died"} \cup Errnos],
             \A w \in Writers : \/ /\ wres'[w] = wres[w]
                                   /\ w \in wopen' \/ wres[w] # "running" \/ w \notin wopen
                                \/ wres'[w] \notin {"running", "Ok"}
                                \/ wres'[w] = "Ok" /\ sent[w] = WLen[w],
             \/ rres' = rres
             \/ rres' \in Errnos
             \/ rres' = "Ok" /\ (total = RLen \/ (total = Len(stream) /\ wopen' = {}))
      PROVE  IInv'
  <2>1. TypeOK'
    BY <1>3 DEF TypeOK
  <2>2. SliceInBuffer' /\ RunningIsOpen'
    BY <1>3 DEF SliceInBuffer, RunningIsOpen
  <2>3. StreamIntegrity'
    BY <1>3, Zenon DEF StreamIntegrity
  <2>4. ReadAllPrefix'
    <3>1. /\ Len(rbuf') = total' /\ total' <= Len(stream')
          /\ \A i \in 1..total' : rbuf'[i] = stream'[i]
      BY <1>3 DEF ReadAllPrefix
    <3>2. total \in Nat /\ RLen \in Nat
      BY RLenAssumption DEF TypeOK
    <3>3. wopen = {} => wopen' = {}
      BY <1>3
    <3>4. rres' = "Ok" /\ total' < RLen => wopen' = {} /\ total' = Len(stream')
      BY <1>3, <3>2, <3>3 DEF ReadAllPrefix, Errnos
    <3> QED
      BY <3>1, <3>4 DEF ReadAllPrefix
  <2> QED
    BY <2>1, <2>2, <2>3, <2>4
<1>4. /\ intrs \in 0..MaxIntr /\ ropen \in BOOLEAN /\ MaxIntr \in Nat
      /\ wres \in [Writers -> {"running", "Ok", "died"} \cup Errnos]
  BY MaxIntrAssumption DEF TypeOK
<1>5. ASSUME NEW w \in Writers, WriteInterrupted(w) PROVE IInv'
  BY <1>3, <1>4, <1>5 DEF WriteInterrupted, Interrupt
<1>6. ASSUME NEW w \in Writers, WriteFails(w) \/ WriteStalls(w) PROVE IInv'
  BY <1>3, <1>4, <1>6 DEF WriteFails, WriteStalls, WriteReturns, Errnos
<1>7. ASSUME NEW w \in Writers, WriteAllOk(w) PROVE IInv'
  BY <1>3, <1>4, <1>7 DEF WriteAllOk, WriteReturns
<1>8. ASSUME NEW w \in Writers, CloseWrite(w) PROVE IInv'
  BY <1>3, <1>4, <1>8 DEF CloseWrite
<1>9. ASSUME NEW w \in Writers, WriterDies(w) PROVE IInv'
  BY <1>3, <1>4, <1>9 DEF WriterDies
<1>10. CASE ReadInterrupted
  <2>1. intrs' \in 0..MaxIntr
    BY <1>4, <1>10 DEF ReadInterrupted, Interrupt
  <2>2. UNCHANGED <<nonblock, stream, total, rbuf, sent, wres, rres, wopen, ropen>>
    BY <1>10 DEF ReadInterrupted
  <2> QED
    BY <1>3, <1>4, <2>1, <2>2
<1>11. CASE ReadFails
  BY <1>3, <1>4, <1>11 DEF ReadFails, ReadReturns, Errnos
<1>12. CASE ReadEof
  <2>1. rres' = "Ok" /\ UNCHANGED <<nonblock, stream, total, rbuf, sent, wres, wopen, ropen, intrs>>
    BY <1>12 DEF ReadEof, ReadReturns
  <2>2. total = Len(stream) /\ wopen = {}
    BY <1>12 DEF ReadEof, InPipe, TypeOK
  <2> QED
    BY <1>3, <1>4, <2>1, <2>2
<1>13. CASE ReadAllFull
  BY <1>3, <1>4, <1>13 DEF ReadAllFull, ReadReturns
<1>14. CASE CloseRead
  BY <1>3, <1>4, <1>14, Zenon DEF CloseRead
<1>15. CASE UNCHANGED vars
  BY <1>3, <1>4, <1>15 DEF vars
<1> QED
  BY <1>1, <1>2, <1>5, <1>6, <1>7, <1>8, <1>9, <1>10, <1>11, <1>12, <1>13, <1>14, <1>15
     DEF Next, read_all, write_all

LEMMA Invariance == Spec => []IInv
BY InitIInv, NextIInv, PTL DEF Spec

-----------------------------------------------------------------------------
(* The theorems. *)

\* Type correctness: in particular neither loop ever returns EINTR.
THEOREM TypeCorrect == Spec => []TypeOK
<1>1. IInv => TypeOK
  BY DEF IInv
<1> QED
  BY <1>1, Invariance, PTL

\* The pipe holds exactly the bytes each write_all has advanced past.
THEOREM Integrity == Spec => []StreamIntegrity
<1>1. IInv => StreamIntegrity
  BY DEF IInv
<1> QED
  BY <1>1, Invariance, PTL

\* write_all's Ok means the whole buffer was written.
THEOREM WriteComplete == Spec => []WriteAllComplete
<1>1. IInv => WriteAllComplete
  BY Zenon DEF IInv, SliceInBuffer, StreamIntegrity, WriteAllComplete
<1> QED
  BY <1>1, Invariance, PTL

\* read_all's bytes are a prefix of the stream and a short Ok means EOF.
THEOREM ReadPrefix == Spec => []ReadAllPrefix
<1>1. IInv => ReadAllPrefix
  BY DEF IInv
<1> QED
  BY <1>1, Invariance, PTL

-----------------------------------------------------------------------------
(* write_all and read_all over the pipe implement ByteStream. *)

LEMMA InitRefines == Init => Abstract!Init
BY DEF Init, Abstract!Init, Outcome

\* A step that changes neither bytes nor outcomes is invisible.
LEMMA Invisible ==
    ASSUME UNCHANGED <<stream, total, sent, wres, rres>>
    PROVE  UNCHANGED Abstract!vars
BY DEF Abstract!vars, Outcome

\* write_all returning, or its process dying, is WriteDone.
LEMMA WriteDoneRefines ==
    ASSUME IInv, NEW w \in Writers, NEW res \in {"Ok", "died"} \cup Errnos,
           wres[w] = "running", res = "Ok" => sent[w] = WLen[w],
           wres' = [wres EXCEPT ![w] = res],
           UNCHANGED <<stream, total, sent, rres>>
    PROVE  Abstract!WriteDone(w)
<1> DEFINE abs == [v \in Writers |-> Outcome(wres[v])]
<1>1. wres \in [Writers -> {"running", "Ok", "died"} \cup Errnos]
  BY DEF IInv, TypeOK
<1>2. Outcome(res) = (IF res = "Ok" THEN "ok" ELSE "err") /\ abs[w] = "running"
  BY DEF Outcome, Errnos
<1>3. [v \in Writers |-> Outcome(wres'[v])] = [abs EXCEPT ![w] = Outcome(res)]
  BY <1>1, Zenon
<1>4. UNCHANGED <<stream, sent, total, Outcome(rres)>>
  BY DEF Outcome
<1> QED
  BY <1>2, <1>3, <1>4, Zenon DEF Abstract!WriteDone

LEMMA NextRefines == IInv /\ [Next]_vars => [Abstract!Next]_(Abstract!vars)
<1> SUFFICES ASSUME IInv, [Next]_vars PROVE [Abstract!Next]_(Abstract!vars)
  OBVIOUS
<1>1. /\ Len(stream) \in Nat /\ total \in Nat /\ RLen \in Nat /\ sent \in [Writers -> Nat]
      /\ wres \in [Writers -> {"running", "Ok", "died"} \cup Errnos]
      /\ \A w \in Writers : WLen[w] \in Nat
      /\ Capacity \in Nat
  BY RLenAssumption, WLenAssumption, CapacityAssumption DEF IInv, TypeOK
<1>2. ASSUME NEW w \in Writers, WriteSome(w) PROVE Abstract!Send(w)
  <2>1. PICK n \in 1..Least(Room, WLen[w] - sent[w]) :
          /\ stream' = stream \o Bytes(w, sent[w], n)
          /\ sent' = [sent EXCEPT ![w] = @ + n]
    BY <1>2, Zenon DEF WriteSome
  <2>2. n \in 1..(WLen[w] - sent[w])
    BY <1>1, <2>1 DEF Least, Room, InPipe
  <2>3. wres[w] = "running" /\ UNCHANGED <<total, wres, rres>>
    BY <1>2 DEF WriteSome, Writing
  <2>4. [v \in Writers |-> Outcome(wres[v])][w] = "running"
    BY <2>3 DEF Outcome
  <2>5. stream \o Bytes(w, sent[w], n) = stream \o Abstract!Bytes(w, sent[w], n)
    BY DEF Bytes, Abstract!Bytes
  <2>6. UNCHANGED <<total, [v \in Writers |-> Outcome(wres[v])], Outcome(rres)>>
    BY <2>3 DEF Outcome
  <2> QED
    BY <2>1, <2>2, <2>4, <2>5, <2>6, Zenon DEF Abstract!Send
<1>3. ASSUME NEW w \in Writers, WriteInterrupted(w) PROVE UNCHANGED Abstract!vars
  BY <1>3, Invisible DEF WriteInterrupted
<1>4. ASSUME NEW w \in Writers, WriteFails(w) \/ WriteStalls(w) PROVE Abstract!WriteDone(w)
  BY <1>4, WriteDoneRefines DEF WriteFails, WriteStalls, WriteReturns, Writing, Errnos
<1>5. ASSUME NEW w \in Writers, WriteAllOk(w) PROVE Abstract!WriteDone(w)
  BY <1>5, WriteDoneRefines, Zenon DEF WriteAllOk, WriteReturns
<1>6. ASSUME NEW w \in Writers, CloseWrite(w) PROVE UNCHANGED Abstract!vars
  BY <1>6, Invisible DEF CloseWrite
<1>7. ASSUME NEW w \in Writers, WriterDies(w) PROVE Abstract!WriteDone(w)
  BY <1>7, WriteDoneRefines, Zenon DEF WriterDies
<1>8. CASE ReadSome
  <2>1. PICK n \in 1..Least(InPipe, RLen - total) : total' = total + n
    BY <1>8 DEF ReadSome
  <2>2. n \in 1..(Len(stream) - total) /\ total + n <= RLen
    BY <1>1, <2>1 DEF Least, InPipe
  <2>3. rres = "running" /\ UNCHANGED <<stream, sent, wres, rres>>
    BY <1>8 DEF ReadSome, Reading
  <2>4. /\ Outcome(rres) = "running"
        /\ UNCHANGED <<[v \in Writers |-> Outcome(wres[v])], Outcome(rres)>>
    BY <2>3 DEF Outcome
  <2>5. Abstract!Receive
    BY <2>1, <2>2, <2>3, <2>4 DEF Abstract!Receive
  <2> QED
    BY <2>5 DEF Abstract!Next
<1>9. CASE ReadInterrupted
  BY <1>9, Invisible DEF ReadInterrupted
<1>10. CASE CloseRead
  BY <1>10, Invisible DEF CloseRead
<1>11. ASSUME rres = "running", NEW res \in {"Ok"} \cup Errnos, ReadReturns(res),
              res = "Ok" => total = RLen \/ (total = Len(stream) /\ wopen = {})
       PROVE  Abstract!Next
  <2> DEFINE abs == [v \in Writers |-> Outcome(wres[v])]
  <2>1. Outcome(rres) = "running" /\ Outcome(rres') = (IF res = "Ok" THEN "ok" ELSE "err")
    BY <1>11 DEF ReadReturns, Outcome, Errnos
  <2>2. UNCHANGED <<stream, sent, total, abs>>
    BY <1>11 DEF ReadReturns, Outcome
  <2>3. ASSUME wopen = {}, NEW v \in Writers PROVE abs[v] # "running"
    BY <2>3 DEF IInv, RunningIsOpen, Outcome
  <2>4. Abstract!ReadDone
    BY <1>11, <2>1, <2>2, <2>3 DEF Abstract!ReadDone, Abstract!EndOfStream
  <2> QED
    BY <2>4 DEF Abstract!Next
<1>12. CASE ReadFails
  BY <1>11, <1>12 DEF ReadFails, Reading, Errnos
<1>13. CASE ReadEof
  BY <1>1, <1>11, <1>13 DEF ReadEof, Reading, InPipe
<1>14. CASE ReadAllFull
  BY <1>11, <1>14 DEF ReadAllFull
<1>15. CASE UNCHANGED vars
  BY <1>15, Invisible DEF vars
<1>16. CASE \E w \in Writers : write_all(w) \/ WriteStalls(w) \/ CloseWrite(w) \/ WriterDies(w)
  <2>1. PICK w \in Writers : write_all(w) \/ WriteStalls(w) \/ CloseWrite(w) \/ WriterDies(w)
    BY <1>16
  <2>2. Abstract!Send(w) \/ Abstract!WriteDone(w) \/ UNCHANGED Abstract!vars
    BY <1>2, <1>3, <1>4, <1>5, <1>6, <1>7, <2>1 DEF write_all
  <2> QED
    BY <2>2 DEF Abstract!Next
<1> QED
  BY <1>8, <1>9, <1>10, <1>12, <1>13, <1>14, <1>15, <1>16 DEF Next, read_all

\* The loops of fd.rs keep the contract: every behaviour of write_all and
\* read_all over the pipe, whatever is interrupted, short or closed, is one of
\* the abstract byte stream.
THEOREM Refinement == Spec => ImplementsByteStream
BY InitRefines, NextRefines, Invariance, PTL DEF Spec, ImplementsByteStream, Abstract!Spec

-----------------------------------------------------------------------------
(* Sockets. Every name anybody was told is the kernel's of that socket, or  *)
(* none yet, and a datagram under way is a client's request or the server's *)
(* answer to it.                                                            *)

Cut(c) == SubSeq(Requests[c], 1, N!Least(BufLen, Len(Requests[c])))

ToServer(c) == [from |-> cport[c], to |-> sport, data |-> Requests[c]]
ToClient(c) == [from |-> sport, to |-> cport[c], data |-> Cut(c)]

ServerPort ==
    /\ conf \in [family : {N!AF_INET, N!AF_INET6}, ty : {N!SOCK_STREAM, N!SOCK_DGRAM}]
    /\ sport \in ServerPorts \cup {0}
    /\ sport = 0 <=> server = "socket"
    /\ advert \in {0, sport}
    /\ server # "open" => advert = 0

ClientPcs == {"socket", "named", "send", "recv", "recv-dgram", "done"}

ClientPort ==
    /\ cport \in [Clients -> ClientPorts \cup {0}]
    /\ npc \in [Clients -> ClientPcs]
    /\ \A c \in Clients : npc[c] = "socket" => cport[c] = 0
    /\ \A c, d \in Clients : cport[c] # 0 /\ cport[c] = cport[d] => c = d

\* The port in each structure is that of the socket, or none yet.
Told(f, p) ==
    /\ f = [c \in Clients |-> f[c]]
    /\ \A c \in Clients : N!port(f[c]) \in {0, p[c]}

Names ==
    /\ Told(name, cport) /\ Told(peer, cport)
    /\ Told(peerOfClient, [c \in Clients |-> sport])

Datagrams ==
    /\ server = "socket" => net = {}
    /\ \A d \in net : \E c \in Clients : cport[c] # 0 /\ d \in {ToServer(c), ToClient(c)}

Replies ==
    /\ reply = [c \in Clients |-> reply[c]]
    /\ ~N!Stream => \A c \in Clients :
          /\ npc[c] \in {"socket", "recv-dgram", "done"}
          /\ npc[c] = "done" => reply[c] = Cut(c)

NetInv == ServerPort /\ ClientPort /\ Names /\ Datagrams /\ Replies

\* Two conversions cancel out.
LEMMA SwapTwice ==
  ASSUME NEW p \in PortNumber
  PROVE  N!to_be(N!to_be(p)) = p
<1>1. PICK h \in 0..255, l \in 0..255 : p = 256 * h + l
  BY Zenon DEF PortNumber
<1>2. N!to_be(p) = 256 * l + h
  BY <1>1, SMT DEF N!to_be
<1>3. (256 * l + h) % 256 = h /\ (256 * l + h) \div 256 = l
  BY <1>1, SMT
<1>. QED  BY <1>1, <1>2, <1>3, SMT DEF N!to_be

\* The port in a structure the kernel filled in, or in one made for a call.
LEMMA PortOf ==
  ASSUME NEW p \in PortNumber
  PROVE  /\ N!port(N!Filled(p)) = p /\ N!Named(N!Filled(p)) = p /\ N!Named(N!Addr(p)) = p
<1>1. N!Filled(p).port = N!to_be(p) /\ N!Addr(p).port = N!to_be(p)
  BY SMT DEF N!Filled, N!Addr, N!SockAddrIn, N!SockAddrIn6
<1>. QED  BY <1>1, SwapTwice DEF N!port, N!Named

LEMMA Ports ==
  /\ 0 \in PortNumber /\ 0 \notin ServerPorts /\ 0 \notin ClientPorts
  /\ \A p \in ServerPorts \cup ClientPorts : p \in PortNumber
  /\ \A p \in ServerPorts : p \notin ClientPorts
<1>1. 0 \in PortNumber
  <2>1. 0 = 256 * 0 + 0 /\ 0 \in 0..255
    OBVIOUS
  <2>. QED  BY <2>1 DEF PortNumber
<1>. QED  BY <1>1, PortsAssumption

\* The elements of a sequence.
LEMMA ElementOf ==
  ASSUME NEW S, NEW s \in Seq(S), NEW k \in 1..Len(s)
  PROVE  s[k] \in S
OBVIOUS

LEMMA CutTwice ==
  ASSUME NEW c \in Clients
  PROVE  SubSeq(Cut(c), 1, N!Least(BufLen, Len(Cut(c)))) = Cut(c)
<1>. DEFINE r == Requests[c]  m == N!Least(BufLen, Len(r))
<1>1. r \in Seq(0..255) /\ Len(r) \in Nat /\ BufLen \in Nat
  BY RequestsAssumption, ReceiveAssumption
<1>2. ASSUME NEW a \in Nat, NEW b \in Nat
      PROVE  N!Least(a, b) = IF a <= b THEN a ELSE b
  BY DEF N!Least
<1>3. m \in Nat /\ m <= Len(r) /\ m <= BufLen
  BY <1>1, <1>2
<1>. HIDE DEF m, r
<1>4. SubSeq(r, 1, m) \in Seq(0..255) /\ Len(SubSeq(r, 1, m)) = m
  <2>1. ASSUME NEW k \in 1..m PROVE r[k] \in 0..255
    <3>1. k \in 1..Len(r)
      BY <1>1, <1>3
    <3>. QED  BY <1>1, <3>1, ElementOf
  <2>. QED  BY <1>3, <2>1
<1>5. N!Least(BufLen, m) = m
  BY <1>1, <1>2, <1>3
<1>6. SubSeq(SubSeq(r, 1, m), 1, m) = SubSeq(r, 1, m)
  BY <1>4
<1>. QED  BY <1>4, <1>5, <1>6 DEF Cut, m, r

LEMMA NetInit == N!Init => NetInv
<1>. SUFFICES ASSUME N!Init PROVE NetInv
  OBVIOUS
<1>1. ServerPort /\ Datagrams
  BY DEF N!Init, ServerPort, Datagrams
<1>4. ClientPort
  <2>1. npc \in [Clients -> ClientPcs] /\ cport \in [Clients -> ClientPorts \cup {0}]
    BY DEF N!Init, ClientPcs
  <2>2. \A c \in Clients : cport[c] = 0
    BY DEF N!Init
  <2>. QED  BY <2>1, <2>2 DEF ClientPort
<1>2. Names
  <2>1. N!port(N!Addr(0)) = 0
    BY Ports, PortOf DEF N!port, N!Named
  <2>. QED  BY <2>1 DEF N!Init, Names, Told
<1>3. Replies
  BY DEF N!Init, Replies
<1>. QED  BY <1>1, <1>2, <1>3, <1>4 DEF NetInv

\* The server's steps.
LEMMA ServerSteps ==
  ASSUME NetInv, N!Bind \/ N!listen \/ N!Advertise \/ N!Accept
  PROVE  NetInv'
<1>. USE DEF NetInv
<1>1. CASE N!Bind
  <2>1. sport' \in ServerPorts /\ sport = 0 /\ net = {} /\ advert = 0
    <3>1. N!Named(N!SockAddrIn6(N!LOOPBACK6, 0)) = 0 /\ N!Named(N!SockAddrIn(N!LOOPBACK, 0)) = 0
      BY DEF N!Named, N!SockAddrIn, N!SockAddrIn6, N!to_be
    <3>. QED  BY <1>1, <3>1 DEF N!Bind, N!bind_in, N!bind_in6, ServerPort, Datagrams
  <2>2. ServerPort' /\ Datagrams'
    BY <1>1, <2>1, Ports DEF N!Bind, N!sides, ServerPort, Datagrams
  <2>3. ClientPort' /\ Replies'
    BY <1>1 DEF N!Bind, N!sides, ClientPort, Replies, N!Stream, Cut
  <2>4. Names'
    BY <1>1, <2>1 DEF N!Bind, N!sides, Names, Told
  <2>. QED  BY <2>2, <2>3, <2>4
<1>2. CASE N!listen
  <2>1. ServerPort' /\ Datagrams'
    BY <1>2 DEF N!listen, N!sides, ServerPort, Datagrams, ToServer, ToClient, Cut
  <2>2. ClientPort' /\ Names' /\ Replies'
    BY <1>2 DEF N!listen, N!sides, ClientPort, Names, Told, Replies, N!Stream, Cut
  <2>. QED  BY <2>1, <2>2
<1>3. CASE N!Advertise
  <2>1. advert' = sport
    <3>1. sport \in PortNumber
      BY Ports DEF ServerPort
    <3>. QED  BY <1>3, <3>1, PortOf
              DEF N!Advertise, N!GetSockName, N!getsockname_in, N!getsockname_in6
  <2>2. server # "socket"
    BY <1>3 DEF N!Advertise
  <2>3. ServerPort' /\ Datagrams'
    BY <1>3, <2>1, <2>2
       DEF N!Advertise, N!sides, ServerPort, Datagrams, ToServer, ToClient, Cut
  <2>4. ClientPort' /\ Names' /\ Replies'
    BY <1>3 DEF N!Advertise, N!sides, ClientPort, Names, Told, Replies, N!Stream, Cut
  <2>. QED  BY <2>3, <2>4
<1>4. CASE N!Accept
  <2>1. ServerPort' /\ Datagrams'
    BY <1>4 DEF N!Accept, ServerPort, Datagrams, ToServer, ToClient, Cut
  <2>2. ClientPort' /\ Replies'
    BY <1>4 DEF N!Accept, ClientPort, Replies, N!Stream, Cut
  <2>3. Told(peer, cport)'
    <3>1. CASE peer' = peer
      BY <1>4, <3>1 DEF N!Accept, Names, Told
    <3>2. CASE peer' = [peer EXCEPT ![Head(queue)] = N!Filled(cport[Head(queue)])]
      <4>1. \A c \in Clients : N!port(N!Filled(cport[c])) = cport[c]
        BY Ports, PortOf DEF ClientPort
      <4>. HIDE DEF NetInv
      <4>. QED  BY <1>4, <3>2, <4>1, Zenon DEF NetInv, N!Accept, Names, Told
    <3>. QED  BY <1>4, <3>1, <3>2 DEF N!Accept, N!accept, N!accept4_in, N!accept4_in6
  <2>4. Names'
    BY <1>4, <2>3 DEF N!Accept, Names, Told
  <2>. QED  BY <2>1, <2>2, <2>4
<1>. QED  BY <1>1, <1>2, <1>3, <1>4

\* A client's socket gets a port nobody has.
LEMMA NewPort ==
  ASSUME NetInv, NEW c \in Clients, npc[c] = "socket", NEW p \in N!FreePorts,
         cport' = [cport EXCEPT ![c] = p],
         NEW q \in {"named", "recv-dgram"}, npc' = [npc EXCEPT ![c] = q],
         UNCHANGED <<sport, peer, peerOfClient>>
  PROVE  /\ ClientPort' /\ Told(peer, cport)' /\ Told(peerOfClient, [e \in Clients |-> sport])'
         /\ \A e \in Clients : cport[e] # 0 => cport'[e] = cport[e]
         /\ p \in ClientPorts /\ p # 0 /\ p \in PortNumber /\ cport'[c] = p
<1>1. p \in ClientPorts /\ p # 0 /\ p \in PortNumber /\ \A e \in Clients : cport[e] # p
  BY Ports DEF N!FreePorts
<1>2. cport[c] = 0 /\ cport'[c] = p /\ \A e \in Clients \ {c} : cport'[e] = cport[e]
  BY DEF NetInv, ClientPort
<1>3. ClientPort'
  BY <1>1, <1>2 DEF NetInv, ClientPort, ClientPcs
<1>4. Told(peer, cport)'
  BY <1>1, <1>2 DEF NetInv, Names, Told
<1>5. Told(peerOfClient, [e \in Clients |-> sport])'
  BY DEF NetInv, Names, Told
<1>. QED  BY <1>1, <1>2, <1>3, <1>4, <1>5

\* A client's steps on a connection.
LEMMA StreamSteps ==
  ASSUME NetInv, NEW c \in Clients,
         \/ N!Connect(c) \/ N!AskNames(c) \/ N!ClientSends(c) \/ N!HalfClose(c)
         \/ N!ClientReceives(c) \/ N!Echo(c)
  PROVE  NetInv'
<1>1. CASE N!Connect(c)
  <2>1. CASE UNCHANGED <<queue, cport, npc>>
    <3>1. ServerPort' /\ ClientPort' /\ Datagrams'
      BY <1>1, <2>1, Zenon DEF N!Connect, NetInv, ServerPort, ClientPort, Datagrams, ToServer, ToClient,
         Cut
    <3>2. Names' /\ Replies'
      BY <1>1, <2>1 DEF N!Connect, NetInv, Names, Told, Replies, N!Stream, Cut
    <3>. QED  BY <3>1, <3>2 DEF NetInv
  <2>2. CASE /\ \E p \in N!FreePorts : cport' = [cport EXCEPT ![c] = p]
             /\ npc' = [npc EXCEPT ![c] = "named"]
    <3>1. PICK p \in N!FreePorts : cport' = [cport EXCEPT ![c] = p]
      BY <2>2, Zenon
    <3>2. /\ ClientPort' /\ Told(peer, cport)'
          /\ Told(peerOfClient, [e \in Clients |-> sport])'
          /\ \A e \in Clients : cport[e] # 0 => cport'[e] = cport[e]
      BY <1>1, <2>2, <3>1, NewPort, ZenonT(30) DEF N!Connect
    <3>3. ServerPort' /\ Replies'
      BY <1>1 DEF N!Connect, NetInv, ServerPort, Replies, N!Stream
    <3>4. Datagrams'
      BY <1>1, <3>2, Zenon DEF N!Connect, NetInv, Datagrams, ToServer, ToClient, Cut
    <3>5. Told(name, cport)'
      BY <1>1, <3>2 DEF N!Connect, NetInv, Names, Told
    <3>. QED  BY <3>2, <3>3, <3>4, <3>5 DEF NetInv, Names
  <2>. QED  BY <1>1, <2>1, <2>2 DEF N!Connect, N!connect_in, N!connect_in6
<1>2. CASE N!AskNames(c)
  <2>1. /\ N!port(N!Filled(cport[c])) = cport[c]
        /\ N!port(N!Filled(sport)) = sport
    BY Ports, PortOf DEF NetInv, ClientPort, ServerPort
  <2>2. /\ name' = [name EXCEPT ![c] = N!Filled(cport[c])]
        /\ peerOfClient' = [peerOfClient EXCEPT ![c] = N!Filled(sport)]
    BY <1>2 DEF N!AskNames, N!GetSockName, N!getsockname_in, N!getsockname_in6,
                N!GetPeerName, N!getpeername_in, N!getpeername_in6
  <2>3. ServerPort' /\ Datagrams'
    BY <1>2, Zenon DEF N!AskNames, NetInv, ServerPort, Datagrams, ToServer, ToClient, Cut
  <2>4. ClientPort' /\ Replies'
    BY <1>2 DEF N!AskNames, NetInv, ClientPort, ClientPcs, Replies, N!Stream, Cut
  <2>5. Told(name, cport)' /\ Told(peer, cport)'
    BY <1>2, <2>1, <2>2 DEF N!AskNames, NetInv, Names, Told
  <2>6. Told(peerOfClient, [e \in Clients |-> sport])'
    BY <1>2, <2>1, <2>2 DEF N!AskNames, NetInv, Names, Told
  <2>. QED  BY <2>3, <2>4, <2>5, <2>6 DEF NetInv, Names
<1>3. CASE N!ClientSends(c) \/ N!Echo(c)
  <2>. UNCHANGED <<conf, server, sport, advert, npc, cport, name, peerOfClient, peer, reply, net>>
    BY <1>3, ZenonT(30) DEF N!ClientSends, N!Echo
  <2>1. ServerPort' /\ Datagrams'
    BY DEF NetInv, ServerPort, Datagrams, ToServer, ToClient, Cut
  <2>2. ClientPort' /\ Names' /\ Replies'
    BY DEF NetInv, ClientPort, Names, Told, Replies, N!Stream, Cut
  <2>. QED  BY <2>1, <2>2 DEF NetInv
<1>4. CASE N!HalfClose(c)
  <2>1. ServerPort' /\ Datagrams' /\ Names'
    BY <1>4 DEF N!HalfClose, NetInv, ServerPort, Datagrams, ToServer, ToClient, Cut, Names, Told
  <2>2. ClientPort' /\ Replies'
    BY <1>4 DEF N!HalfClose, NetInv, ClientPort, ClientPcs, Replies, N!Stream, Cut
  <2>. QED  BY <2>1, <2>2 DEF NetInv
<1>5. CASE N!ClientReceives(c)
  <2>1. npc[c] = "recv" /\ conf' = conf /\ cport' = cport
    BY <1>5 DEF N!ClientReceives
  <2>2. ServerPort' /\ Datagrams' /\ Names'
    BY <1>5 DEF N!ClientReceives, NetInv, ServerPort, Datagrams, ToServer, ToClient, Cut, Names, Told
  <2>3. npc' = npc \/ npc' = [npc EXCEPT ![c] = "done"]
    BY <1>5 DEF N!ClientReceives
  <2>4. ClientPort'
    BY <2>1, <2>3 DEF NetInv, ClientPort, ClientPcs
  <2>5. Replies'
    <3>1. N!Stream
      BY <2>1 DEF NetInv, Replies
    <3>2. reply' = [e \in Clients |-> reply'[e]]
      BY <1>5, Zenon DEF N!ClientReceives, NetInv, Replies
    <3>. QED  BY <2>1, <3>1, <3>2 DEF Replies, N!Stream
  <2>. QED  BY <2>2, <2>4, <2>5 DEF NetInv
<1>. QED  BY <1>1, <1>2, <1>3, <1>4, <1>5

\* A datagram for the server is a request, one for a client its answer.
LEMMA Addressee ==
  ASSUME NetInv, NEW d \in net
  PROVE  /\ d.to = sport => \E c \in Clients : cport[c] # 0 /\ d = ToServer(c)
         /\ \A c \in Clients : d.to = cport[c] => d = ToClient(c)
         /\ sport # 0
<1>1. sport # 0
  BY DEF NetInv, ServerPort, Datagrams
<1>2. PICK e \in Clients : cport[e] # 0 /\ d \in {ToServer(e), ToClient(e)}
  BY DEF NetInv, Datagrams
<1>3. sport \in ServerPorts /\ cport[e] \in ClientPorts /\ sport # cport[e]
  BY <1>1, <1>2, Ports DEF NetInv, ServerPort, ClientPort
<1>4. ASSUME NEW c \in Clients, d.to = cport[c] PROVE d = ToClient(c)
  <2>1. cport[c] \in ClientPorts \cup {0} /\ cport[c] # sport
    BY <1>1, <1>3, Ports DEF NetInv, ClientPort
  <2>2. d = ToClient(e)
    <3>1. ToServer(e).to = sport
      BY DEF ToServer
    <3>2. d # ToServer(e)
      BY <1>4, <2>1, <3>1
    <3>. QED  BY <1>2, <3>2
  <2>3. e = c
    BY <1>2, <1>4, <2>2 DEF ToClient, NetInv, ClientPort
  <2>. QED  BY <2>2, <2>3
<1>5. d.to = sport => d = ToServer(e)
  BY <1>2, <1>3 DEF ToClient
<1>. QED  BY <1>1, <1>2, <1>4, <1>5

LEMMA DatagramSteps ==
  ASSUME NetInv,
         \/ N!EchoDatagram \/ N!Lose
         \/ \E c \in Clients : N!ClientDatagram(c) \/ N!ClientGetsDatagram(c)
  PROVE  NetInv'
<1>1. CASE N!EchoDatagram
  <2>1. PICK d \in net, keep \in BOOLEAN, c \in Clients :
          /\ d.to = sport
          /\ net' = (IF keep THEN net ELSE net \ {d})
                    \cup {[from |-> sport, to |-> N!Named(N!Filled(d.from)),
                           data |-> SubSeq(d.data, 1, N!Least(BufLen, Len(d.data)))]}
          /\ Requests[c] = d.data
          /\ peer' = [peer EXCEPT ![c] = N!Filled(d.from)]
    BY <1>1, ZenonT(30) DEF N!EchoDatagram, N!RecvFrom, N!recvfrom_in, N!recvfrom_in6
  <2>2. PICK e \in Clients : cport[e] # 0 /\ d = ToServer(e)
    BY <2>1, Addressee, Zenon
  <2>3. c = e
    <3>1. d.data = Requests[e]
      BY <2>2, ZenonT(30) DEF ToServer
    <3>2. Requests[c] = Requests[e]
      BY <2>1, <3>1, ZenonT(30)
    <3>. QED  BY <3>2, RequestsAssumption
  <2>4. d.from = cport[c] /\ cport[c] # 0 /\ d.data = Requests[c]
    BY <2>2, <2>3, Zenon DEF ToServer
  <2>5. N!Named(N!Filled(cport[c])) = cport[c] /\ N!port(N!Filled(cport[c])) = cport[c]
    BY Ports, PortOf DEF NetInv, ClientPort
  <2>6. net' \subseteq net \cup {ToClient(c)}
    BY <2>1, <2>4, <2>5, ZenonT(30) DEF ToClient, Cut
  <2>7. Datagrams'
    BY <1>1, <2>4, <2>6 DEF N!EchoDatagram, NetInv, Datagrams, ToServer, ToClient, Cut
  <2>8. Told(peer, cport)'
    BY <1>1, <2>1, <2>4, <2>5, ZenonT(30) DEF N!EchoDatagram, NetInv, Names, Told
  <2>9. Told(name, cport)' /\ Told(peerOfClient, [a \in Clients |-> sport])'
    BY <1>1 DEF N!EchoDatagram, NetInv, Names, Told
  <2>10. ServerPort' /\ ClientPort' /\ Replies'
    BY <1>1 DEF N!EchoDatagram, NetInv, ServerPort, ClientPort, Replies, N!Stream, Cut
  <2>. QED  BY <2>7, <2>8, <2>9, <2>10 DEF NetInv, Names
<1>2. CASE N!Lose
  <2>1. ServerPort' /\ ClientPort' /\ Names'
    BY <1>2 DEF N!Lose, NetInv, ServerPort, ClientPort, Names, Told
  <2>2. Datagrams' /\ Replies'
    BY <1>2 DEF N!Lose, NetInv, Datagrams, ToServer, ToClient, Cut, Replies, N!Stream
  <2>. QED  BY <2>1, <2>2 DEF NetInv
<1>3. ASSUME NEW c \in Clients, N!ClientDatagram(c) PROVE NetInv'
  <2>1. PICK p \in N!FreePorts :
          /\ cport' = [cport EXCEPT ![c] = p]
          /\ name' = [name EXCEPT ![c] = N!Filled(p)]
          /\ net' = net \cup {[from |-> p, to |-> N!Named(N!Addr(advert)), data |-> Requests[c]]}
    BY <1>3, ZenonT(30) DEF N!ClientDatagram, N!GetSockName, N!getsockname_in, N!getsockname_in6,
                N!SendTo, N!sendto_in, N!sendto_in6
  <2>2. /\ ClientPort' /\ Told(peer, cport)'
        /\ Told(peerOfClient, [e \in Clients |-> sport])'
        /\ \A e \in Clients : cport[e] # 0 => cport'[e] = cport[e]
        /\ p # 0 /\ p \in PortNumber /\ cport'[c] = p
    BY <1>3, <2>1, NewPort, ZenonT(30) DEF N!ClientDatagram
  <2>3. advert = sport /\ sport # 0 /\ sport \in PortNumber /\ server = "open"
    BY <1>3, Ports DEF N!ClientDatagram, NetInv, ServerPort
  <2>4. N!Named(N!Addr(advert)) = sport /\ N!port(N!Filled(p)) = p
    BY <2>2, <2>3, PortOf
  <2>5. Datagrams'
    <3>1. sport' = sport /\ server' = "open"
      BY <1>3, <2>3 DEF N!ClientDatagram
    <3>2. ASSUME NEW d \in net
          PROVE  \E e \in Clients : cport'[e] # 0 /\ d \in {ToServer(e)', ToClient(e)'}
      <4>1. PICK e \in Clients : cport[e] # 0 /\ d \in {ToServer(e), ToClient(e)}
        BY DEF NetInv, Datagrams
      <4>2. cport'[e] = cport[e]
        BY <2>2, <4>1
      <4>. QED  BY <3>1, <4>1, <4>2, Zenon DEF ToServer, ToClient, Cut
    <3>3. net' = net \cup {ToServer(c)'}
      BY <2>1, <2>2, <2>4, <3>1 DEF ToServer
    <3>. QED  BY <2>2, <3>1, <3>2, <3>3 DEF Datagrams
  <2>6. Told(name, cport)'
    <3>1. \A e \in Clients \ {c} : cport'[e] = cport[e] /\ name'[e] = name[e]
      BY <2>1 DEF NetInv, ClientPort, Names, Told
    <3>2. name'[c] = N!Filled(p) /\ name' = [e \in Clients |-> name'[e]]
      BY <2>1 DEF NetInv, Names, Told
    <3>. QED  BY <2>2, <2>4, <3>1, <3>2 DEF NetInv, Names, Told
  <2>7. ServerPort' /\ Replies'
    BY <1>3 DEF N!ClientDatagram, NetInv, ServerPort, Replies, N!Stream, Cut, ClientPort
  <2>. QED  BY <2>2, <2>5, <2>6, <2>7 DEF NetInv, Names
<1>4. ASSUME NEW c \in Clients, N!ClientGetsDatagram(c) PROVE NetInv'
  <2>1. PICK d \in net :
          /\ d.to = cport[c]
          /\ reply' = [reply EXCEPT ![c] = SubSeq(d.data, 1, N!Least(BufLen, Len(d.data)))]
          /\ peerOfClient' = [peerOfClient EXCEPT ![c] = N!Filled(d.from)]
          /\ net' = net \ {d}
    BY <1>4, Zenon DEF N!ClientGetsDatagram, N!RecvFrom, N!recvfrom_in, N!recvfrom_in6
  <2>2. d = ToClient(c)
    BY <2>1, Addressee
  <2>3. d.from = sport /\ d.data = Cut(c)
    BY <2>2 DEF ToClient
  <2>4. reply' = [reply EXCEPT ![c] = Cut(c)]
    BY <2>1, <2>3, CutTwice, Zenon
  <2>5. N!port(N!Filled(sport)) = sport
    BY Ports, PortOf DEF NetInv, ServerPort
  <2>6. Names'
    BY <1>4, <2>1, <2>3, <2>5 DEF N!ClientGetsDatagram, NetInv, Names, Told
  <2>7. Replies'
    BY <1>4, <2>4, Zenon DEF N!ClientGetsDatagram, NetInv, Replies, N!Stream, Cut, ClientPort
  <2>8. ServerPort' /\ Datagrams'
    BY <1>4, <2>1, Zenon DEF N!ClientGetsDatagram, NetInv, ServerPort, Datagrams, ToServer, ToClient, Cut
  <2>9. ClientPort'
    BY <1>4 DEF N!ClientGetsDatagram, NetInv, ClientPort, ClientPcs
  <2>. QED  BY <2>6, <2>7, <2>8, <2>9 DEF NetInv
<1>. QED  BY <1>1, <1>2, <1>3, <1>4

\* What the invariant says of each name is what EndpointsAgree says; two
\* clients' ports differ.
LEMMA NetSafe == NetInv => EndpointsAgree
<1>. SUFFICES ASSUME NetInv, NEW c \in Clients
     PROVE  /\ N!port(name[c]) # 0 => N!port(name[c]) = cport[c]
            /\ N!port(peer[c]) # 0 => N!port(peer[c]) = cport[c]
            /\ N!port(peerOfClient[c]) # 0 => N!port(peerOfClient[c]) = sport
            /\ N!port(peer[c]) # 0 =>
                 \A d \in Clients \ {c} : N!port(peer[d]) # N!port(peer[c])
            /\ ~N!Stream /\ npc[c] = "done" => reply[c] = Cut(c)
  BY DEF EndpointsAgree, N!EndpointsAgree, NetInv, ServerPort, Cut
<1>1. \A e \in Clients : /\ N!port(name[e]) \in {0, cport[e]} /\ N!port(peer[e]) \in {0, cport[e]}
                         /\ N!port(peerOfClient[e]) \in {0, sport}
  BY DEF NetInv, Names, Told
<1>2. \A e \in Clients : cport[e] # 0 /\ cport[e] = cport[c] => e = c
  BY DEF NetInv, ClientPort
<1>3. ~N!Stream /\ npc[c] = "done" => reply[c] = Cut(c)
  BY DEF NetInv, Replies
<1>. QED  BY <1>1, <1>2, <1>3, ZenonT(30)

\* For any number of clients, requests and ports, everyone is told the real
\* endpoints: what getsockname, getpeername, accept4 and recvfrom return
\* (socket.rs), converted to host order, is the kernel's port of that socket,
\* and a UDP client is answered with its own request.
THEOREM EndpointsTold == N!Spec => []EndpointsAgree
<1>1. NetInv /\ [N!Next]_(N!vars) => NetInv'
  <2>. SUFFICES ASSUME NetInv, [N!Next]_(N!vars) PROVE NetInv'
    OBVIOUS
  <2>1. CASE UNCHANGED N!vars
    <3>1. ServerPort' /\ ClientPort' /\ Names'
      BY <2>1 DEF N!vars, NetInv, ServerPort, ClientPort, Names, Told
    <3>2. Datagrams' /\ Replies'
      BY <2>1 DEF N!vars, NetInv, Datagrams, ToServer, ToClient, Cut, Replies, N!Stream
    <3>. QED  BY <3>1, <3>2 DEF NetInv
  <2>2. CASE N!Next
    BY <2>2, ServerSteps, StreamSteps, DatagramSteps DEF N!Next, N!ServerStep, N!ClientStep
  <2>. QED  BY <2>1, <2>2
<1>. QED  BY <1>1, NetInit, NetSafe, PTL DEF N!Spec

-----------------------------------------------------------------------------
(* FileIo. What the shell has written is the beginning of the body, at the  *)
(* end of the file, where the offset is; after the rewind the offset is how *)
(* much the children have got. That a vectored call transfers what a plain  *)
(* one would is an induction over its buffers.                              *)

\* Induction over the natural numbers.
LEMMA Induct ==
  ASSUME NEW A, 0 \in A, \A n \in Nat : n \in A => n + 1 \in A
  PROVE  \A n \in Nat : n \in A
<1>. SUFFICES ASSUME Nat \ A # {} PROVE FALSE
  OBVIOUS
<1>. DEFINE R == OpToRel(<, Nat)
<1>1. IsWellFoundedOn(R, Nat)
  BY NatLessThanWellFounded, Zenon
<1>2. \A y, z \in Nat : y < z => <<y, z>> \in R
  BY DEF OpToRel
<1>. HIDE DEF R
<1>3. PICK x \in Nat \ A : \A y \in Nat \ A : <<y, x>> \notin R
  BY <1>1, WFMin, Zenon
<1>4. x \in Nat /\ x # 0 /\ x - 1 \in Nat /\ x - 1 < x /\ (x - 1) + 1 = x
  BY <1>3
<1>5. x - 1 \in Nat \ A
  BY <1>3, <1>4
<1>. QED  BY <1>2, <1>3, <1>4, <1>5, Zenon

LEMMA SameSeq ==
  ASSUME NEW X, NEW s \in Seq(X), NEW t \in Seq(X), Len(s) = Len(t),
         \A i \in 1..Len(s) : s[i] = t[i]
  PROVE  s = t
OBVIOUS

\* A part of a sequence, elementwise.
PartLen(l, p, n) == IF l <= p THEN 0 ELSE IF p + n < l THEN n ELSE l - p

IsPart(r, X, s, p, n) ==
    r \in Seq(X) /\ Len(r) = PartLen(Len(s), p, n) /\ \A i \in 1..Len(r) : r[i] = s[p + i]

LEMMA PartOf ==
  ASSUME NEW X, NEW s \in Seq(X), NEW p \in Nat, NEW n \in Nat
  PROVE  IsPart(H!Part(s, p, n), X, s, p, n)
<1>. DEFINE e == IF p + n < Len(s) THEN p + n ELSE Len(s)
            r == SubSeq(s, p + 1, e)
<1>1. Len(s) \in Nat /\ e \in Nat /\ e <= Len(s) /\ p + 1 \in Nat
  OBVIOUS
<1>2. H!Part(s, p, n) = r
  BY DEF H!Part
<1>3. r \in Seq(X) /\ Len(r) = PartLen(Len(s), p, n) /\ \A i \in 1..Len(r) : r[i] = s[p + i]
  <2>1. CASE p < Len(s)
    <3>1. p <= e /\ e - p = PartLen(Len(s), p, n)
      BY <1>1, <2>1 DEF PartLen
    <3>. HIDE DEF e
    <3>2. r \in Seq(X) /\ Len(r) = e - p
      BY <1>1, <2>1, <3>1
    <3>3. \A i \in 1..(e - p) : r[i] = s[p + i]
      BY <1>1, <2>1, <3>1
    <3>. QED  BY <3>1, <3>2, <3>3
  <2>2. CASE Len(s) <= p
    <3>1. e < p + 1 /\ PartLen(Len(s), p, n) = 0
      BY <1>1, <2>2 DEF PartLen
    <3>. HIDE DEF e
    <3>2. r = <<>>
      BY <1>1, <3>1
    <3>3. <<>> \in Seq(X) /\ Len(<<>>) = 0 /\ 1..0 = {}
      OBVIOUS
    <3>. QED  BY <3>1, <3>2, <3>3, Zenon
  <2>. QED  BY <1>1, <2>1, <2>2
<1>. QED  BY <1>2, <1>3, Zenon DEF IsPart

\* Two parts that follow each other are one.
LEMMA PartsJoin ==
  ASSUME NEW X, NEW s \in Seq(X), NEW p \in Nat, NEW n \in Nat
  PROVE  H!Part(s, 0, p) \o H!Part(s, p, n) = H!Part(s, 0, p + n)
<1>. DEFINE a == H!Part(s, 0, p)
            b == H!Part(s, p, n)
            c == H!Part(s, 0, p + n)
            l == Len(s)
<1>0. l \in Nat /\ 0 \in Nat /\ p + n \in Nat
  OBVIOUS
<1>. HIDE DEF a, b, c, l
<1>1. a \in Seq(X) /\ Len(a) = PartLen(l, 0, p) /\ \A i \in 1..Len(a) : a[i] = s[0 + i]
  <2>1. IsPart(a, X, s, 0, p)
    BY <1>0, PartOf, Zenon DEF a
  <2>. QED  BY <2>1 DEF IsPart, l
<1>2. b \in Seq(X) /\ Len(b) = PartLen(l, p, n) /\ \A i \in 1..Len(b) : b[i] = s[p + i]
  <2>1. IsPart(b, X, s, p, n)
    BY <1>0, PartOf, Zenon DEF b
  <2>. QED  BY <2>1 DEF IsPart, l
<1>3. c \in Seq(X) /\ Len(c) = PartLen(l, 0, p + n) /\ \A i \in 1..Len(c) : c[i] = s[0 + i]
  <2>1. IsPart(c, X, s, 0, p + n)
    BY <1>0, PartOf, Zenon DEF c
  <2>. QED  BY <2>1 DEF IsPart, l
<1>4. /\ a \o b \in Seq(X) /\ Len(a \o b) = Len(a) + Len(b)
      /\ \A i \in 1..Len(a) : (a \o b)[i] = a[i]
      /\ \A i \in (Len(a) + 1)..(Len(a) + Len(b)) : (a \o b)[i] = b[i - Len(a)]
  <2>1. a \in Seq(X) /\ b \in Seq(X)
    BY <1>1, <1>2
  <2>. QED  BY <2>1
<1>5. /\ Len(a) \in Nat /\ Len(b) \in Nat /\ Len(c) = Len(a) + Len(b)
      /\ Len(a) = p \/ Len(b) = 0
  BY <1>0, <1>1, <1>2, <1>3 DEF PartLen
<1>6. ASSUME NEW i \in 1..Len(c) PROVE (a \o b)[i] = c[i]
  <2>1. CASE i <= Len(a)
    BY <1>1, <1>3, <1>4, <1>5, <2>1
  <2>2. CASE Len(a) < i
    <3>1. Len(a) = p /\ i - p \in 1..Len(b) /\ p + (i - p) = 0 + i
      BY <1>5, <2>2
    <3>2. (a \o b)[i] = b[i - p]
      BY <1>4, <1>5, <2>2, <3>1
    <3>. QED  BY <1>2, <1>3, <3>1, <3>2
  <2>. QED  BY <1>5, <2>1, <2>2
<1>7. a \o b = c
  <2>1. Len(a \o b) = Len(c) /\ \A i \in 1..Len(a \o b) : (a \o b)[i] = c[i]
    BY <1>4, <1>5, <1>6
  <2>. QED  BY <1>3, <1>4, <2>1, SameSeq, Zenon
<1>. QED  BY <1>7 DEF a, b, c

\* The lengths of the first n elements of a list of segments, added up.
Sums(iov) ==
    CHOOSE f : f = [n \in 0..Len(iov) |-> IF n = 0 THEN 0 ELSE f[n - 1] + iov[n].len]

LEMMA SumsRecur ==
  ASSUME NEW iov, Len(iov) \in Nat
  PROVE  Sums(iov) = [n \in 0..Len(iov) |-> IF n = 0 THEN 0 ELSE Sums(iov)[n - 1] + iov[n].len]
<1>. DEFINE A == {m \in Nat : \E g : g = [n \in 0..m |-> IF n = 0 THEN 0 ELSE g[n - 1] + iov[n].len]}
<1>1. 0 \in A
  <2>. DEFINE g == [n \in 0..0 |-> 0]
  <2>1. g = [n \in 0..0 |-> IF n = 0 THEN 0 ELSE g[n - 1] + iov[n].len]
    OBVIOUS
  <2>. QED  BY <2>1, Zenon
<1>2. ASSUME NEW m \in Nat, m \in A PROVE m + 1 \in A
  <2>1. PICK g : g = [n \in 0..m |-> IF n = 0 THEN 0 ELSE g[n - 1] + iov[n].len]
    BY <1>2
  <2>. DEFINE h == [n \in 0..(m + 1) |-> IF n = m + 1 THEN g[m] + iov[n].len ELSE g[n]]
  <2>2. \A n \in 0..(m + 1) : h[n] = IF n = 0 THEN 0 ELSE h[n - 1] + iov[n].len
    BY <2>1
  <2>3. h = [n \in 0..(m + 1) |-> IF n = 0 THEN 0 ELSE h[n - 1] + iov[n].len]
    BY <2>2
  <2>. HIDE DEF h
  <2>. QED  BY <2>3
<1>3. Len(iov) \in A
  <2>. HIDE DEF A
  <2>. QED  BY <1>1, <1>2, Induct
<1>. QED  BY <1>3 DEF Sums

LEMMA TotalIsSum ==
  ASSUME NEW iov, Len(iov) \in Nat, \A k \in 1..Len(iov) : iov[k].len \in Nat
  PROVE  /\ H!Total(iov) = Sums(iov)[Len(iov)] /\ H!Total(iov) \in Nat
         /\ Sums(iov) \in [0..Len(iov) -> Nat]
<1>. DEFINE A == {m \in Nat : m <= Len(iov) => Sums(iov)[m] \in Nat}
<1>1. 0 \in A
  BY SumsRecur
<1>2. ASSUME NEW m \in Nat, m \in A PROVE m + 1 \in A
  <2>. SUFFICES ASSUME m + 1 <= Len(iov) PROVE Sums(iov)[m + 1] \in Nat
    OBVIOUS
  <2>1. Sums(iov)[m + 1] = Sums(iov)[m] + iov[m + 1].len
    BY SumsRecur
  <2>. QED  BY <1>2, <2>1
<1>3. \A m \in 0..Len(iov) : Sums(iov)[m] \in Nat
  <2>1. \A m \in Nat : m \in A
    <3>. HIDE DEF A
    <3>. QED  BY <1>1, <1>2, Induct
  <2>. QED  BY <2>1
<1>4. H!Total(iov) = Sums(iov)[Len(iov)]
  BY DEF H!Total, Sums
<1>5. DOMAIN Sums(iov) = 0..Len(iov) /\ Sums(iov) = [n \in 0..Len(iov) |-> Sums(iov)[n]]
  BY SumsRecur
<1>. QED  BY <1>3, <1>4, <1>5

\* The lengths of a part of a list add up as they do in the list.
LEMMA TotalOfPrefix ==
  ASSUME NEW X, NEW iov \in Seq(X), \A k \in 1..Len(iov) : iov[k].len \in Nat,
         NEW n \in 0..Len(iov)
  PROVE  H!Total(SubSeq(iov, 1, n)) = Sums(iov)[n]
<1>. DEFINE v == SubSeq(iov, 1, n)
            A == {m \in Nat : m <= n => Sums(v)[m] = Sums(iov)[m]}
<1>1. Len(iov) \in Nat /\ n \in Nat /\ n <= Len(iov)
  OBVIOUS
<1>2. Len(v) = n /\ \A k \in 1..n : v[k] = iov[k]
  BY <1>1
<1>. HIDE DEF v
<1>3. 0 \in A
  BY <1>1, <1>2, SumsRecur
<1>4. ASSUME NEW m \in Nat, m \in A PROVE m + 1 \in A
  <2>. SUFFICES ASSUME m + 1 <= n PROVE Sums(v)[m + 1] = Sums(iov)[m + 1]
    OBVIOUS
  <2>1. m + 1 \in 0..n /\ m + 1 \in 0..Len(iov) /\ m + 1 # 0 /\ (m + 1) - 1 = m /\ m + 1 \in 1..n
    BY <1>1
  <2>2. Sums(v)[m + 1] = Sums(v)[m] + v[m + 1].len
    BY <1>1, <1>2, <2>1, SumsRecur
  <2>3. Sums(iov)[m + 1] = Sums(iov)[m] + iov[m + 1].len
    BY <1>1, <2>1, SumsRecur
  <2>. QED  BY <1>1, <1>2, <1>4, <2>1, <2>2, <2>3
<1>5. \A m \in Nat : m \in A
  <2>. HIDE DEF A
  <2>. QED  BY <1>3, <1>4, Induct
<1>6. H!Total(v) = Sums(v)[Len(v)]
  BY DEF H!Total, Sums
<1>. QED  BY <1>1, <1>2, <1>5, <1>6 DEF v

\* With a buffer that is not empty there is room.
LEMMA TotalPositive ==
  ASSUME NEW iov, Len(iov) \in Nat, \A k \in 1..Len(iov) : iov[k].len \in Nat,
         \E k \in 1..Len(iov) : iov[k].len # 0
  PROVE  H!Total(iov) \in Nat /\ H!Total(iov) # 0
<1>. DEFINE A == {m \in Nat : m <= Len(iov) =>
                    (Sums(iov)[m] = 0 => \A k \in 1..m : iov[k].len = 0)}
<1>1. Sums(iov) \in [0..Len(iov) -> Nat] /\ H!Total(iov) = Sums(iov)[Len(iov)]
  BY TotalIsSum
<1>2. 0 \in A
  OBVIOUS
<1>3. ASSUME NEW m \in Nat, m \in A PROVE m + 1 \in A
  <2>. SUFFICES ASSUME m + 1 <= Len(iov), Sums(iov)[m + 1] = 0
                PROVE  \A k \in 1..(m + 1) : iov[k].len = 0
    OBVIOUS
  <2>1. /\ m + 1 \in 0..Len(iov) /\ m \in 0..Len(iov) /\ m + 1 \in 1..Len(iov)
        /\ m + 1 # 0 /\ (m + 1) - 1 = m
    OBVIOUS
  <2>2. Sums(iov)[m + 1] = Sums(iov)[m] + iov[m + 1].len
    BY <2>1, SumsRecur
  <2>3. Sums(iov)[m] \in Nat /\ iov[m + 1].len \in Nat
    BY <1>1, <2>1
  <2>4. Sums(iov)[m] = 0 /\ iov[m + 1].len = 0
    BY <2>2, <2>3
  <2>. QED  BY <1>3, <2>4
<1>4. \A m \in Nat : m \in A
  <2>. HIDE DEF A
  <2>. QED  BY <1>2, <1>3, Induct, Zenon
<1>5. Sums(iov)[Len(iov)] # 0
  BY <1>4
<1>. QED  BY <1>1, <1>5

\* What the first n buffers of a vectored call hold, one after the other.
Piece(iov, bufs, n) == H!Part(bufs[iov[n].base], 0, iov[n].len)
Pieces(iov, bufs) ==
    CHOOSE f : f = [n \in 0..Len(iov) |-> IF n = 0 THEN <<>> ELSE f[n - 1] \o Piece(iov, bufs, n)]

LEMMA PiecesRecur ==
  ASSUME NEW iov, NEW bufs, Len(iov) \in Nat
  PROVE  Pieces(iov, bufs) = [n \in 0..Len(iov) |->
             IF n = 0 THEN <<>> ELSE Pieces(iov, bufs)[n - 1] \o Piece(iov, bufs, n)]
<1>. DEFINE A == {m \in Nat : \E g : g = [n \in 0..m |->
                                  IF n = 0 THEN <<>> ELSE g[n - 1] \o Piece(iov, bufs, n)]}
<1>1. 0 \in A
  <2>. DEFINE g == [n \in 0..0 |-> <<>>]
  <2>1. g = [n \in 0..0 |-> IF n = 0 THEN <<>> ELSE g[n - 1] \o Piece(iov, bufs, n)]
    OBVIOUS
  <2>. QED  BY <2>1, Zenon
<1>2. ASSUME NEW m \in Nat, m \in A PROVE m + 1 \in A
  <2>1. PICK g : g = [n \in 0..m |-> IF n = 0 THEN <<>> ELSE g[n - 1] \o Piece(iov, bufs, n)]
    BY <1>2, Zenon
  <2>. DEFINE h == [n \in 0..(m + 1) |-> IF n = m + 1 THEN g[m] \o Piece(iov, bufs, n) ELSE g[n]]
  <2>2. \A n \in 0..(m + 1) : h[n] = IF n = 0 THEN <<>> ELSE h[n - 1] \o Piece(iov, bufs, n)
    <3>. SUFFICES ASSUME NEW n \in 0..(m + 1)
                  PROVE  h[n] = IF n = 0 THEN <<>> ELSE h[n - 1] \o Piece(iov, bufs, n)
      OBVIOUS
    <3>1. n # 0 => n - 1 \in 0..(m + 1) /\ n - 1 # m + 1 /\ (n = m + 1 => n - 1 = m)
      OBVIOUS
    <3>2. n # 0 => h[n - 1] = g[n - 1]
      BY <3>1
    <3>3. n # m + 1 => n \in 0..m /\ h[n] = g[n]
      OBVIOUS
    <3>4. n = m + 1 => h[n] = g[m] \o Piece(iov, bufs, n)
      BY Zenon
    <3>5. n = m + 1 => n # 0
      OBVIOUS
    <3>. HIDE DEF h
    <3>6. n # m + 1 => g[n] = IF n = 0 THEN <<>> ELSE g[n - 1] \o Piece(iov, bufs, n)
      BY <2>1, <3>3, Zenon
    <3>. QED  BY <3>1, <3>2, <3>3, <3>4, <3>5, <3>6, Zenon
  <2>3. h = [n \in 0..(m + 1) |-> IF n = 0 THEN <<>> ELSE h[n - 1] \o Piece(iov, bufs, n)]
    BY <2>2, Zenon
  <2>. HIDE DEF h
  <2>4. m + 1 \in Nat
    OBVIOUS
  <2>. QED  BY <2>3, <2>4, Zenon
<1>3. Len(iov) \in A
  <2>. HIDE DEF A
  <2>. QED  BY <1>1, <1>2, Induct
<1>. QED  BY <1>3, Zenon DEF Pieces

LEMMA PartAll ==
  ASSUME NEW X, NEW s \in Seq(X), NEW n \in Nat, Len(s) <= n
  PROVE  H!Part(s, 0, n) = s
<1>. DEFINE a == H!Part(s, 0, n)
<1>1. Len(s) \in Nat /\ 0 \in Nat
  OBVIOUS
<1>. HIDE DEF a
<1>2. IsPart(a, X, s, 0, n)
  BY <1>1, PartOf, Zenon DEF a
<1>3. a \in Seq(X) /\ Len(a) = Len(s) /\ \A i \in 1..Len(a) : a[i] = s[i]
  BY <1>1, <1>2 DEF IsPart, PartLen
<1>4. a = s
  BY <1>3, SameSeq, Zenon
<1>. QED  BY <1>4 DEF a

\* A list of buffers is gathered buffer by buffer.
Growing(f, bufs, k) ==
    /\ f[0] = <<>> /\ H!Joined(bufs) = f[k]
    /\ \A n \in 1..k : f[n] = f[n - 1] \o bufs[n]

LEMMA JoinedRecur ==
  ASSUME NEW X, NEW bufs, NEW k \in Nat, DOMAIN bufs = 1..k,
         \A i \in 1..k : bufs[i] \in Seq(X)
  PROVE  Growing(Pieces(H!IoSlice(bufs), bufs), bufs, k)
<1>. DEFINE iov == H!IoSlice(bufs)
            f == Pieces(iov, bufs)
<1>1. Len(iov) = k /\ \A n \in 1..k : iov[n].base = n /\ iov[n].len = Len(bufs[n])
  BY DEF H!IoSlice
<1>. HIDE DEF iov
<1>2. \A n \in 1..k : Piece(iov, bufs, n) = bufs[n]
  <2>. SUFFICES ASSUME NEW n \in 1..k PROVE Piece(iov, bufs, n) = bufs[n]
    OBVIOUS
  <2>1. bufs[n] \in Seq(X) /\ Len(bufs[n]) \in Nat /\ Len(bufs[n]) <= Len(bufs[n])
    OBVIOUS
  <2>2. H!Part(bufs[n], 0, Len(bufs[n])) = bufs[n]
    BY <2>1, PartAll, Zenon
  <2>. QED  BY <1>1, <2>2 DEF Piece
<1>3. f = [n \in 0..k |-> IF n = 0 THEN <<>> ELSE f[n - 1] \o Piece(iov, bufs, n)]
  <2>1. f = [n \in 0..Len(iov) |-> IF n = 0 THEN <<>> ELSE f[n - 1] \o Piece(iov, bufs, n)]
    <3>1. Len(iov) \in Nat
      BY <1>1
    <3>. QED  BY <3>1, PiecesRecur, Zenon
  <2>. HIDE DEF f
  <2>. QED  BY <1>1, <2>1, Zenon
<1>. HIDE DEF f
<1>4. f[0] = <<>> /\ \A n \in 1..k : f[n] = f[n - 1] \o bufs[n]
  <2>1. 0 \in 0..k /\ \A n \in 1..k : n \in 0..k /\ n # 0
    OBVIOUS
  <2>2. f[0] = <<>>
    BY <1>3, <2>1, Zenon
  <2>3. \A n \in 1..k : f[n] = f[n - 1] \o Piece(iov, bufs, n)
    BY <1>3, <2>1, Zenon
  <2>. QED  BY <1>2, <2>2, <2>3, Zenon
<1>5. H!Joined(bufs) = f[k]
  BY <1>1 DEF H!Joined, H!Gather, Pieces, Piece, f, iov
<1>. QED  BY <1>4, <1>5, Zenon DEF Growing, f, iov

\* Two buffers, gathered.
LEMMA JoinedTwo ==
  ASSUME NEW X, NEW a \in Seq(X), NEW b \in Seq(X)
  PROVE  H!Joined(<<a, b>>) = a \o b
<1>. DEFINE bufs == <<a, b>>
            f == Pieces(H!IoSlice(bufs), bufs)
<1>1. 2 \in Nat /\ DOMAIN bufs = 1..2 /\ bufs[1] = a /\ bufs[2] = b
      /\ \A i \in 1..2 : bufs[i] \in Seq(X)
  OBVIOUS
<1>. HIDE DEF bufs
<1>2. /\ f[0] = <<>> /\ H!Joined(bufs) = f[2]
      /\ \A n \in 1..2 : f[n] = f[n - 1] \o bufs[n]
  BY <1>1, JoinedRecur, Zenon DEF Growing
<1>. HIDE DEF f
<1>3. 1 \in 1..2 /\ 2 \in 1..2 /\ 1 - 1 = 0 /\ 2 - 1 = 1
  OBVIOUS
<1>4. f[1] = <<>> \o a /\ f[2] = f[1] \o b
  BY <1>1, <1>2, <1>3, Zenon
<1>5. <<>> \o a = a
  OBVIOUS
<1>. QED  BY <1>2, <1>4, <1>5, Zenon DEF bufs

\* Buffers filled in order and read in order hold what they were filled with,
\* when there is room for it.
LEMMA JoinedScatter ==
  ASSUME NEW X, NEW s \in Seq(X), NEW Y, NEW iov \in Seq(Y),
         \A k \in 1..Len(iov) : iov[k].len \in Nat, Len(s) <= H!Total(iov)
  PROVE  H!Joined(H!Scatter(iov, s)) = s
<1>. DEFINE k == Len(iov)
            bufs == H!Scatter(iov, s)
            f == Pieces(H!IoSlice(bufs), bufs)
            A == {m \in Nat : m <= k => f[m] = H!Part(s, 0, Sums(iov)[m])}
<1>1. k \in Nat /\ DOMAIN iov = 1..k /\ \A n \in 1..k : n - 1 \in 0..k /\ n \in 0..k
  OBVIOUS
<1>2. Sums(iov) \in [0..k -> Nat] /\ H!Total(iov) = Sums(iov)[k]
  BY <1>1, TotalIsSum
<1>3. DOMAIN bufs = 1..k /\ \A n \in 1..k : bufs[n] = H!Part(s, Sums(iov)[n - 1], iov[n].len)
  <2>1. bufs = [n \in 1..k |-> H!Part(s, H!Total(SubSeq(iov, 1, n - 1)), iov[n].len)]
    BY <1>1 DEF H!Scatter
  <2>2. \A n \in 1..k : H!Total(SubSeq(iov, 1, n - 1)) = Sums(iov)[n - 1]
    BY <1>1, TotalOfPrefix, Zenon
  <2>. HIDE DEF bufs, k
  <2>. QED  BY <2>1, <2>2
<1>. HIDE DEF k, bufs
<1>4. \A n \in 1..k : bufs[n] \in Seq(X)
  <2>. SUFFICES ASSUME NEW n \in 1..k PROVE bufs[n] \in Seq(X)
    OBVIOUS
  <2>1. Sums(iov)[n - 1] \in Nat /\ iov[n].len \in Nat
    BY <1>1, <1>2, Zenon DEF k
  <2>2. IsPart(bufs[n], X, s, Sums(iov)[n - 1], iov[n].len)
    BY <1>3, <2>1, PartOf, Zenon
  <2>. QED  BY <2>2 DEF IsPart
<1>5. /\ f[0] = <<>> /\ H!Joined(bufs) = f[k]
      /\ \A n \in 1..k : f[n] = f[n - 1] \o bufs[n]
  <2>1. Growing(f, bufs, k)
    BY <1>1, <1>3, <1>4, JoinedRecur, Zenon
  <2>. HIDE DEF f
  <2>. QED  BY <2>1, Zenon DEF Growing
<1>. HIDE DEF f
<1>6. 0 \in A
  <2>1. Sums(iov)[0] = 0
    BY <1>1, SumsRecur DEF k
  <2>2. H!Part(s, 0, 0) = <<>>
    BY DEF H!Part
  <2>. QED  BY <1>5, <2>1, <2>2
<1>7. ASSUME NEW m \in Nat, m \in A PROVE m + 1 \in A
  <2>. SUFFICES ASSUME m + 1 <= k PROVE f[m + 1] = H!Part(s, 0, Sums(iov)[m + 1])
    OBVIOUS
  <2>1. m + 1 \in 1..k /\ m \in 0..k /\ (m + 1) - 1 = m /\ m <= k /\ m + 1 \in 0..k /\ m + 1 # 0
    BY <1>1
  <2>2. f[m + 1] = f[m] \o H!Part(s, Sums(iov)[m], iov[m + 1].len)
    BY <1>3, <1>5, <2>1, Zenon
  <2>3. f[m] = H!Part(s, 0, Sums(iov)[m])
    BY <1>7, <2>1
  <2>4. Sums(iov)[m + 1] = Sums(iov)[m] + iov[m + 1].len
    BY <1>1, <2>1, SumsRecur DEF k
  <2>5. Sums(iov)[m] \in Nat /\ iov[m + 1].len \in Nat
    BY <1>2, <2>1 DEF k
  <2>6. H!Part(s, 0, Sums(iov)[m]) \o H!Part(s, Sums(iov)[m], iov[m + 1].len)
          = H!Part(s, 0, Sums(iov)[m] + iov[m + 1].len)
    BY <2>5, PartsJoin, Zenon
  <2>. QED  BY <2>2, <2>3, <2>4, <2>6, Zenon
<1>8. \A m \in Nat : m \in A
  <2>. HIDE DEF A
  <2>. QED  BY <1>6, <1>7, Induct
<1>9. f[k] = H!Part(s, 0, Sums(iov)[k])
  BY <1>1, <1>8
<1>10. H!Part(s, 0, Sums(iov)[k]) = s
  <2>1. Sums(iov)[k] \in Nat /\ Len(s) <= Sums(iov)[k]
    BY <1>1, <1>2
  <2>. QED  BY <2>1, PartAll, Zenon
<1>. QED  BY <1>5, <1>9, <1>10 DEF bufs

\* A concatenation, elementwise.
IsJoin(r, X, s, t) ==
    /\ r \in Seq(X) /\ Len(r) = Len(s) + Len(t)
    /\ \A i \in 1..Len(r) : r[i] = IF i <= Len(s) THEN s[i] ELSE t[i - Len(s)]

LEMMA JoinOf ==
  ASSUME NEW X, NEW s \in Seq(X), NEW t \in Seq(X)
  PROVE  IsJoin(s \o t, X, s, t)
BY DEF IsJoin

\* What a write over the file leaves, elementwise.
LEMMA OverOf ==
  ASSUME NEW X, file \in Seq(X), NEW p \in 0..Len(file), NEW b \in Seq(X)
  PROVE  /\ H!Over(p, b) \in Seq(X)
         /\ Len(H!Over(p, b)) = IF p + Len(b) <= Len(file) THEN Len(file) ELSE p + Len(b)
         /\ \A i \in 1..Len(H!Over(p, b)) :
              H!Over(p, b)[i] = IF i <= p \/ p + Len(b) < i THEN file[i] ELSE b[i - p]
<1>. DEFINE a == SubSeq(file, 1, p)
            c == SubSeq(file, p + Len(b) + 1, Len(file))
            l == Len(file)
<1>1. l \in Nat /\ p \in Nat /\ p <= l /\ Len(b) \in Nat
  OBVIOUS
<1>2. a \in Seq(X) /\ Len(a) = p /\ \A i \in 1..p : a[i] = file[i]
  BY <1>1
<1>3. /\ c \in Seq(X) /\ Len(c) = IF p + Len(b) <= l THEN l - (p + Len(b)) ELSE 0
      /\ \A i \in 1..Len(c) : c[i] = file[p + Len(b) + i]
  <2>1. CASE p + Len(b) < l
    <3>1. c \in Seq(X) /\ Len(c) = l - (p + Len(b))
      BY <1>1, <2>1
    <3>2. \A i \in 1..(l - (p + Len(b))) : c[i] = file[p + Len(b) + i]
      BY <1>1, <2>1
    <3>. QED  BY <1>1, <2>1, <3>1, <3>2
  <2>2. CASE l <= p + Len(b)
    <3>1. c = <<>>
      BY <1>1, <2>2
    <3>. HIDE DEF c
    <3>. QED  BY <1>1, <2>2, <3>1
  <2>. QED  BY <1>1, <2>1, <2>2
<1>4. H!Over(p, b) = (a \o b) \o c
  <2>1. H!Resized(p) = a
    BY <1>1 DEF H!Resized
  <2>2. SubSeq(a, 1, p) = a
    <3>. HIDE DEF a
    <3>. QED  BY <1>1, <1>2
  <2>. QED  BY <2>1, <2>2, Zenon DEF H!Over
<1>. HIDE DEF a, c, l
<1>. DEFINE d == a \o b
            e == d \o c
            m == p + Len(b)
            k == Len(c)
<1>. HIDE DEF d, e, m, k
<1>5. d \in Seq(X) /\ Len(d) = m /\ \A i \in 1..m : d[i] = IF i <= p THEN file[i] ELSE b[i - p]
  <2>1. IsJoin(d, X, a, b)
    BY <1>2, JoinOf, Zenon DEF d
  <2>. QED  BY <1>1, <1>2, <2>1 DEF IsJoin, m
<1>6. /\ e \in Seq(X) /\ Len(e) = m + k
      /\ \A i \in 1..(m + k) : e[i] = IF i <= m THEN d[i] ELSE c[i - m]
  <2>1. IsJoin(e, X, d, c)
    BY <1>3, <1>5, JoinOf, Zenon DEF e
  <2>. QED  BY <1>5, <2>1 DEF IsJoin, k
<1>7. m \in Nat /\ p <= m /\ k \in Nat /\ k = IF m <= l THEN l - m ELSE 0
  BY <1>1, <1>3 DEF m, k
<1>8. Len(e) = IF m <= l THEN l ELSE m
  BY <1>1, <1>6, <1>7
<1>9. ASSUME NEW i \in 1..Len(e) PROVE e[i] = IF i <= p \/ m < i THEN file[i] ELSE b[i - p]
  <2>1. CASE i <= m
    <3>1. i \in 1..m /\ e[i] = d[i]
      BY <1>6, <1>7, <2>1
    <3>. QED  BY <1>1, <1>5, <1>7, <2>1, <3>1
  <2>2. CASE m < i
    <3>1. i - m \in 1..k /\ m + (i - m) = i /\ e[i] = c[i - m]
      BY <1>6, <1>7, <2>2
    <3>2. c[i - m] = file[m + (i - m)]
      BY <1>3, <3>1 DEF k, m
    <3>. QED  BY <2>2, <3>1, <3>2
  <2>. QED  BY <1>6, <1>7, <2>1, <2>2
<1>10. H!Over(p, b) = e
  BY <1>4 DEF d, e
<1>. QED  BY <1>6, <1>8, <1>9, <1>10 DEF l, m

\* While the shell writes, the file is the beginning of the body and what it
\* still has to write the end; while the children read, the file is the body
\* but for what was patched.
FileShape ==
    /\ file \in Seq(Nat) /\ rest \in Seq(Nat) /\ got \in Seq(Nat) /\ offset \in Nat
    /\ pc \in {"create", "write", "wait"}

Filling ==
    pc = "write" =>
        /\ got = <<>> /\ eof = {}
        /\ offset = Len(file) /\ Len(file) + Len(rest) = Len(Body)
        /\ \A i \in 1..Len(file) : file[i] = Body[i]
        /\ \A i \in 1..Len(rest) : rest[i] = Body[Len(file) + i]

Drained ==
    pc = "wait" =>
        /\ offset <= Len(file) /\ Len(file) = Len(Body)
        /\ \A i \in 1..Len(file) : file[i] \in {Body[i], Patch}

FileInv ==
    /\ FileShape
    /\ pc = "create" => got = <<>> /\ eof = {}
    /\ Filling
    /\ Drained
    /\ BodyConsumedOnce

\* The body is about to be written, into an empty file.
LEMMA Fills ==
  ASSUME file' = <<>>, offset' = 0, rest' = Body, pc' = "write", got' = <<>>, eof' = {}
  PROVE  FileInv'
<1>1. Body \in Seq(Nat) /\ Len(Body) \in Nat
  BY BodyAssumption
<1>2. FileShape'
  BY <1>1 DEF FileShape
<1>3. Filling'
  BY <1>1 DEF Filling
<1>. QED  BY <1>2, <1>3 DEF FileInv, Drained, BodyConsumedOnce, H!BodyConsumedOnce

\* A sequence cut in two.
LEMMA Front ==
  ASSUME NEW X, NEW s \in Seq(X), NEW n \in 0..Len(s)
  PROVE  /\ SubSeq(s, 1, n) \in Seq(X) /\ Len(SubSeq(s, 1, n)) = n
         /\ \A i \in 1..n : SubSeq(s, 1, n)[i] = s[i]
<1>1. n \in Nat /\ n <= Len(s) /\ Len(s) \in Nat
  OBVIOUS
<1>. QED  BY <1>1

LEMMA Back ==
  ASSUME NEW X, NEW s \in Seq(X), NEW n \in 0..Len(s)
  PROVE  LET t == SubSeq(s, n + 1, Len(s))
         IN  /\ t \in Seq(X) /\ Len(t) = Len(s) - n
             /\ \A i \in 1..(Len(s) - n) : t[i] = s[n + i]
<1>1. n \in Nat /\ n <= Len(s) /\ Len(s) \in Nat
  OBVIOUS
<1>2. CASE n = Len(s)
  BY <1>1, <1>2
<1>3. CASE n < Len(s)
  BY <1>1, <1>3
<1>. QED  BY <1>1, <1>2, <1>3

LEMMA Rejoined ==
  ASSUME NEW X, NEW s \in Seq(X), NEW n \in 0..Len(s)
  PROVE  H!Joined(<<SubSeq(s, 1, n), SubSeq(s, n + 1, Len(s))>>) = s
<1>. DEFINE a == SubSeq(s, 1, n)
            b == SubSeq(s, n + 1, Len(s))
            l == Len(s)
<1>1. n \in Nat /\ n <= l /\ l \in Nat
  OBVIOUS
<1>2. a \in Seq(X) /\ Len(a) = n /\ \A i \in 1..n : a[i] = s[i]
  BY Front
<1>3. b \in Seq(X) /\ Len(b) = l - n /\ \A i \in 1..(l - n) : b[i] = s[n + i]
  BY Back
<1>. HIDE DEF a, b, l
<1>4. IsJoin(a \o b, X, a, b)
  BY <1>2, <1>3, JoinOf, Zenon
<1>. DEFINE c == a \o b
<1>. HIDE DEF c
<1>5. c \in Seq(X) /\ Len(c) = l /\ \A i \in 1..l : c[i] = IF i <= n THEN a[i] ELSE b[i - n]
  BY <1>1, <1>2, <1>3, <1>4 DEF IsJoin, c
<1>6. ASSUME NEW i \in 1..l PROVE c[i] = s[i]
  <2>1. CASE i <= n
    BY <1>1, <1>2, <1>5, <2>1
  <2>2. CASE n < i
    <3>1. i - n \in 1..(l - n) /\ n + (i - n) = i /\ ~(i <= n)
      BY <1>1, <2>2
    <3>2. c[i] = b[i - n] /\ b[i - n] = s[n + (i - n)]
      BY <1>3, <1>5, <3>1, Zenon
    <3>. QED  BY <3>1, <3>2
  <2>. QED  BY <1>1, <2>1, <2>2
<1>7. c = s
  BY <1>5, <1>6, SameSeq, Zenon DEF l
<1>8. H!Joined(<<a, b>>) = c
  BY <1>2, <1>3, JoinedTwo, Zenon DEF c
<1>. QED  BY <1>7, <1>8 DEF a, b, l

LEMMA Writes ==
  ASSUME FileInv, H!WriteBody
  PROVE  FileInv'
<1>. DEFINE l == Len(file)
            r == Len(rest)
<1>1. /\ file \in Seq(Nat) /\ rest \in Seq(Nat) /\ l \in Nat /\ r \in Nat
      /\ pc = "write" /\ got = <<>> /\ eof = {} /\ offset = l
  BY DEF FileInv, FileShape, Filling, H!WriteBody
<1>2. l + r = Len(Body)
  BY <1>1 DEF FileInv, Filling
<1>3. \A i \in 1..l : file[i] = Body[i]
  BY <1>1, Zenon DEF FileInv, Filling
<1>4. \A i \in 1..r : rest[i] = Body[l + i]
  BY <1>1, Zenon DEF FileInv, Filling
<1>5. PICK n \in 1..r :
        /\ \/ H!write(SubSeq(rest, 1, n))
           \/ \E cut \in 0..Len(rest) :
                LET bufs == <<SubSeq(rest, 1, cut), SubSeq(rest, cut + 1, Len(rest))>>
                IN  H!writev(H!IoSlice(bufs), bufs, n)
        /\ rest' = SubSeq(rest, n + 1, Len(rest))
  BY Zenon DEF H!WriteBody
<1>. DEFINE b == SubSeq(rest, 1, n)
<1>6. H!write(b)
  <2>1. \A cut \in 0..Len(rest) :
          H!Joined(<<SubSeq(rest, 1, cut), SubSeq(rest, cut + 1, Len(rest))>>) = rest
    BY <1>1, Rejoined, Zenon
  <2>. QED  BY <1>5, <2>1, Zenon DEF H!writev, H!Joined
<1>7. n \in 0..Len(rest) /\ n \in Nat /\ n # 0 /\ n <= r
  BY <1>1
<1>8. b \in Seq(Nat) /\ Len(b) = n /\ \A i \in 1..n : b[i] = rest[i]
  BY <1>1, <1>7, Front
<1>9. rest' \in Seq(Nat) /\ Len(rest') = r - n /\ \A i \in 1..(r - n) : rest'[i] = rest[n + i]
  BY <1>1, <1>5, <1>7, Back, Zenon
<1>10. offset' = l + n /\ UNCHANGED <<pc, got, eof>>
  BY <1>1, <1>6, <1>8 DEF H!write, H!WriteBody
<1>. HIDE DEF b, l, r
<1>11. /\ file' \in Seq(Nat) /\ Len(file') = l + n
       /\ \A i \in 1..(l + n) : file'[i] = IF i <= l THEN file[i] ELSE b[i - l]
  <2>1. file' = H!Over(l, b) /\ l \in 0..Len(file)
    BY <1>1, <1>6 DEF H!write, l
  <2>2. /\ H!Over(l, b) \in Seq(Nat)
        /\ Len(H!Over(l, b)) = IF l + Len(b) <= Len(file) THEN Len(file) ELSE l + Len(b)
        /\ \A i \in 1..Len(H!Over(l, b)) :
             H!Over(l, b)[i] = IF i <= l \/ l + Len(b) < i THEN file[i] ELSE b[i - l]
    BY <1>1, <1>8, <2>1, OverOf, Zenon
  <2>3. /\ file' \in Seq(Nat) /\ Len(file') = l + n
        /\ \A i \in 1..(l + n) : file'[i] = IF i <= l \/ l + n < i THEN file[i] ELSE b[i - l]
    <3>1. (IF l + n <= l THEN l ELSE l + n) = l + n
      BY <1>1, <1>7
    <3>. QED  BY <1>8, <2>1, <2>2, <3>1 DEF l
  <2>. QED  BY <1>1, <1>7, <2>3
<1>12. ASSUME NEW i \in 1..(l + n) PROVE file'[i] = Body[i]
  <2>1. CASE i <= l
    <3>1. i \in 1..l
      BY <1>1, <2>1
    <3>. QED  BY <1>3, <1>11, <2>1, <3>1, Zenon
  <2>2. CASE l < i
    <3>1. i - l \in 1..n /\ i - l \in 1..r /\ l + (i - l) = i /\ ~(i <= l)
      BY <1>1, <1>7, <2>2
    <3>. QED  BY <1>4, <1>8, <1>11, <3>1
  <2>. QED  BY <1>1, <1>7, <2>1, <2>2
<1>13. ASSUME NEW i \in 1..(r - n) PROVE rest'[i] = Body[(l + n) + i]
  <2>1. n + i \in 1..r /\ l + (n + i) = (l + n) + i
    BY <1>1, <1>7
  <2>. QED  BY <1>4, <1>9, <2>1
<1>14. FileShape'
  BY <1>1, <1>7, <1>9, <1>10, <1>11 DEF FileShape
<1>15. Filling'
  <2>1. (l + n) + (r - n) = Len(Body)
    BY <1>1, <1>2, <1>7
  <2>2. offset' = Len(file') /\ Len(file') + Len(rest') = Len(Body) /\ got' = <<>> /\ eof' = {}
    BY <1>1, <1>9, <1>10, <1>11, <2>1
  <2>3. \A i \in 1..Len(file') : file'[i] = Body[i]
    BY <1>11, <1>12, Zenon
  <2>4. \A i \in 1..Len(rest') : rest'[i] = Body[Len(file') + i]
    BY <1>9, <1>11, <1>13, Zenon
  <2>. QED  BY <2>2, <2>3, <2>4 DEF Filling
<1>. QED  BY <1>1, <1>10, <1>14, <1>15 DEF FileInv, Drained, BodyConsumedOnce, H!BodyConsumedOnce

\* lseek to the start, to the place it is at, and back from the end.
LEMMA Seeks ==
  ASSUME offset \in Nat, Len(file) \in Nat
  PROVE  /\ H!Seek(H!lseek(0, H!SEEK_SET)) => offset' = 0
         /\ H!Seek(H!lseek(0, H!SEEK_CUR)) => offset' = offset
         /\ \A n \in Nat : Len(file) = n /\ H!Seek(H!lseek(0 - n, H!SEEK_END)) => offset' = 0
<1>1. /\ H!lseek(0, H!SEEK_SET) = H!Ok(0)
      /\ H!lseek(0, H!SEEK_CUR) = H!Ok(offset)
      /\ \A n \in Nat : Len(file) = n => H!lseek(0 - n, H!SEEK_END) = H!Ok(0)
  BY DEF H!lseek, H!SEEK_SET, H!SEEK_CUR, H!SEEK_END
<1>. QED  BY <1>1 DEF H!Seek, H!Ok

LEMMA Rewinds ==
  ASSUME FileInv, H!Rewind
  PROVE  FileInv'
<1>1. /\ file \in Seq(Nat) /\ Len(file) \in Nat /\ offset \in Nat /\ pc = "write" /\ rest = <<>>
      /\ got = <<>> /\ eof = {} /\ Len(file) + Len(rest) = Len(Body)
  BY DEF FileInv, FileShape, Filling, H!Rewind
<1>2. Len(file) = Len(Body)
  BY <1>1
<1>3. \A i \in 1..Len(file) : file[i] = Body[i]
  BY <1>1, Zenon DEF FileInv, Filling
<1>4. offset' = 0
  BY <1>1, <1>2, Seeks, Zenon DEF H!Rewind
<1>5. UNCHANGED <<file, rest, got, eof>> /\ pc' = "wait"
  BY DEF H!Rewind
<1>6. FileShape'
  BY <1>4, <1>5 DEF FileInv, FileShape
<1>7. Drained'
  BY <1>1, <1>2, <1>3, <1>4, <1>5 DEF Drained
<1>8. BodyConsumedOnce'
  <2>1. Len(got') = 0 /\ eof' = {}
    BY <1>1, <1>5
  <2>. QED  BY <1>4, <2>1 DEF BodyConsumedOnce, H!BodyConsumedOnce
<1>. QED  BY <1>5, <1>6, <1>7, <1>8, ZenonT(30) DEF FileInv, Filling

LEMMA Beyond ==
  ASSUME NEW a \in Nat, NEW m \in Nat, NEW l \in Nat, a + m <= l
  PROVE  \A i \in 1..(a + m) :
           \/ i \in 1..a /\ i <= a
           \/ i - a \in 1..m /\ a + (i - a) = i /\ ~(i <= a) /\ i \in 1..l
OBVIOUS

\* A read takes the next bytes of the file, and none only at its end.
LEMMA Takes ==
  ASSUME FileInv, pc = "wait", NEW n \in Nat, n # 0 \/ Len(Body) = 0,
         NEW bytes, bytes = H!Part(file, offset, n),
         offset' = offset + Len(bytes), got' = got \o bytes, bytes # <<>> => eof' = eof,
         UNCHANGED <<file, pc, rest>>
  PROVE  FileInv'
<1>. DEFINE l == Len(file)
            m == Len(bytes)
<1>1. /\ file \in Seq(Nat) /\ got \in Seq(Nat) /\ l \in Nat /\ offset \in Nat /\ offset <= l
      /\ l = Len(Body) /\ Len(got) = offset
  BY DEF FileInv, FileShape, Drained, BodyConsumedOnce, H!BodyConsumedOnce
<1>2. /\ \A i \in 1..l : file[i] \in {Body[i], Patch}
      /\ \A i \in 1..offset : got[i] \in {Body[i], Patch}
  BY <1>1, Zenon DEF FileInv, Drained, BodyConsumedOnce, H!BodyConsumedOnce
<1>3. eof # {} => offset = l
  BY <1>1 DEF FileInv, BodyConsumedOnce, H!BodyConsumedOnce
<1>4. IsPart(bytes, Nat, file, offset, n)
  BY <1>1, PartOf, Zenon
<1>5. /\ bytes \in Seq(Nat) /\ m \in Nat /\ \A i \in 1..m : bytes[i] = file[offset + i]
      /\ m = PartLen(l, offset, n)
  BY <1>4 DEF IsPart
<1>6. offset + m <= l /\ (m = 0 => offset = l)
  BY <1>1, <1>5 DEF PartLen
<1>7. IsJoin(got', Nat, got, bytes)
  BY <1>1, <1>5, JoinOf, Zenon
<1>. HIDE DEF l, m
<1>8. /\ got' \in Seq(Nat) /\ Len(got') = offset + m
      /\ \A i \in 1..(offset + m) : got'[i] = IF i <= offset THEN got[i] ELSE bytes[i - offset]
  BY <1>1, <1>7 DEF IsJoin, m
<1>9. ASSUME NEW i \in 1..(offset + m) PROVE got'[i] \in {Body[i], Patch}
  <2>1. CASE i \in 1..offset /\ i <= offset
    BY <1>2, <1>8, <2>1
  <2>2. CASE i - offset \in 1..m /\ offset + (i - offset) = i /\ ~(i <= offset) /\ i \in 1..l
    <3>1. got'[i] = file[i]
      BY <1>5, <1>8, <2>2, Zenon
    <3>. QED  BY <1>2, <2>2, <3>1
  <2>3. \/ i \in 1..offset /\ i <= offset
        \/ i - offset \in 1..m /\ offset + (i - offset) = i /\ ~(i <= offset) /\ i \in 1..l
    <3>1. offset \in Nat /\ m \in Nat /\ l \in Nat /\ offset + m <= l
      BY <1>1, <1>5, <1>6
    <3>. QED  BY <3>1, Beyond, Zenon
  <2>. QED  BY <2>1, <2>2, <2>3, Zenon
<1>10. offset' = offset + m /\ offset' \in Nat
  BY <1>1, <1>5 DEF m
<1>11. eof' # {} => offset' = l
  <2>1. CASE bytes = <<>>
    BY <1>6, <1>10, <1>1, <2>1 DEF m
  <2>2. CASE bytes # <<>>
    BY <1>1, <1>3, <1>5, <1>6, <1>10, <2>2
  <2>. QED  BY <2>1, <2>2
<1>12. FileShape'
  BY <1>8, <1>10 DEF FileInv, FileShape
<1>13. Drained'
  BY <1>1, <1>2, <1>6, <1>10 DEF Drained, l
<1>14. BodyConsumedOnce'
  BY <1>1, <1>8, <1>9, <1>10, <1>11 DEF BodyConsumedOnce, H!BodyConsumedOnce
<1>. QED  BY <1>12, <1>13, <1>14 DEF FileInv, Filling

\* Into several buffers it takes as much as into one as long as they together.
LEMMA ReadvReads ==
  LET iov == H!IoSliceMut(Segments)
  IN  /\ H!Total(iov) \in Nat /\ H!Total(iov) # 0
      /\ file \in Seq(Nat) /\ offset \in Nat =>
           H!Joined(H!readv(iov)) = H!Part(file, offset, H!Total(iov))
<1>. DEFINE iov == H!IoSliceMut(Segments)
            n == H!Total(iov)
            s == H!Part(file, offset, n)
<1>1. /\ Segments \in Seq(Nat) /\ Len(Segments) \in Nat /\ DOMAIN Segments = 1..Len(Segments)
      /\ \A k \in 1..Len(Segments) : Segments[k] \in Nat
      /\ \E k \in 1..Len(Segments) : Segments[k] # 0
  BY BodyAssumption
<1>2. /\ iov \in Seq([base : Nat, len : Nat]) /\ Len(iov) = Len(Segments)
      /\ \A k \in 1..Len(Segments) : iov[k].len = Segments[k]
  BY <1>1 DEF H!IoSliceMut
<1>. HIDE DEF iov
<1>3. /\ Len(iov) \in Nat /\ \A k \in 1..Len(iov) : iov[k].len \in Nat
      /\ \E k \in 1..Len(iov) : iov[k].len # 0
  BY <1>1, <1>2, Zenon
<1>4. n \in Nat /\ n # 0
  BY <1>3, TotalPositive
<1>5. ASSUME file \in Seq(Nat), offset \in Nat
      PROVE  H!Joined(H!readv(iov)) = s
  <2>. HIDE DEF n
  <2>1. IsPart(s, Nat, file, offset, n)
    BY <1>4, <1>5, PartOf, Zenon
  <2>2. s \in Seq(Nat) /\ Len(s) <= n
    BY <1>4, <1>5, <2>1 DEF IsPart, PartLen
  <2>. HIDE DEF s
  <2>3. H!Joined(H!Scatter(iov, s)) = s
    BY <1>2, <1>3, <2>2, JoinedScatter, Zenon DEF n
  <2>4. H!readv(iov) = H!Scatter(iov, s)
    BY DEF H!readv, H!At, s, n
  <2>. QED  BY <2>3, <2>4
<1>. QED  BY <1>4, <1>5 DEF iov

LEMMA Reads ==
  ASSUME FileInv, NEW k \in Kids, H!ChildReads(k)
  PROVE  FileInv'
<1>1. file \in Seq(Nat) /\ offset \in Nat /\ Len(Body) \in Nat /\ pc = "wait"
  BY BodyAssumption DEF FileInv, FileShape, H!ChildReads
<1>2. PICK bytes \in {H!read(n) : n \in {1, Len(Body)}}
                     \cup {H!Joined(H!readv(H!IoSliceMut(Segments)))} :
        /\ offset' = offset + Len(bytes)
        /\ got' = got \o bytes
        /\ eof' = IF bytes = <<>> THEN eof \cup {k} ELSE eof
  BY Zenon DEF H!ChildReads
<1>3. UNCHANGED <<file, pc, rest>>
  BY DEF H!ChildReads
<1>4. \E n \in Nat : (n # 0 \/ Len(Body) = 0) /\ bytes = H!Part(file, offset, n)
  <2>1. CASE bytes \in {H!read(n) : n \in {1, Len(Body)}}
    <3>1. 1 \in Nat /\ 1 # 0
      OBVIOUS
    <3>. QED  BY <1>1, <2>1, <3>1, Zenon DEF H!read, H!At
  <2>2. CASE bytes = H!Joined(H!readv(H!IoSliceMut(Segments)))
    BY <1>1, <2>2, ReadvReads, Zenon
  <2>. QED  BY <2>1, <2>2
<1>. QED  BY <1>1, <1>2, <1>3, <1>4, Takes, Zenon

\* What the shell does meanwhile leaves the offset alone.
LEMMA Looks ==
  ASSUME FileInv, H!Inspect \/ H!Tell
  PROVE  FileInv'
<1>1. UNCHANGED <<file, pc, rest, got, eof>>
  BY DEF H!Inspect, H!Tell
<1>2. offset' = offset
  <2>1. CASE H!Tell
    <3>1. offset \in Nat /\ Len(file) \in Nat
      BY DEF FileInv, FileShape
    <3>. QED  BY <2>1, <3>1, Seeks DEF H!Tell
  <2>2. CASE H!Inspect
    <3>1. PICK p \in 0..Len(Body), r \in {TRUE, FALSE} :
            offset' = (IF r THEN H!preadv(H!IoSliceMut(Segments), p)
                       ELSE [H!pread(1, p) EXCEPT !.data = <<@>>]).offset
      BY <2>2 DEF H!Inspect
    <3>2. H!preadv(H!IoSliceMut(Segments), p).offset = offset
      BY DEF H!preadv
    <3>3. [H!pread(1, p) EXCEPT !.data = <<@>>].offset = offset
      BY DEF H!pread
    <3>. QED  BY <3>1, <3>2, <3>3, Zenon
  <2>. QED  BY <2>1, <2>2
<1>. QED  BY <1>1, <1>2 DEF FileInv, FileShape, Filling, Drained, BodyConsumedOnce, H!BodyConsumedOnce

\* One byte, and two.
LEMMA Doubled ==
  ASSUME NEW x \in Nat
  PROVE  /\ <<x>> \in Seq(Nat) /\ Len(<<x>>) = 1 /\ <<x>>[1] = x
         /\ <<x, x>> \in Seq(Nat) /\ Len(<<x, x>>) = 2 /\ \A i \in 1..2 : <<x, x>>[i] = x
         /\ <<x>> \o <<x>> = <<x, x>>
<1>1. <<x>> \in Seq(Nat) /\ Len(<<x>>) = 1 /\ <<x>>[1] = x
  OBVIOUS
<1>2. <<x, x>> \in Seq(Nat) /\ Len(<<x, x>>) = 2 /\ \A i \in 1..2 : <<x, x>>[i] = x
  OBVIOUS
<1>3. <<x>> \o <<x>> = <<x, x>>
  <2>1. IsJoin(<<x>> \o <<x>>, Nat, <<x>>, <<x>>)
    BY <1>1, JoinOf, Zenon
  <2>2. Len(<<x>> \o <<x>>) = 2 /\ \A i \in 1..2 : (<<x>> \o <<x>>)[i] = x
    BY <1>1, <2>1 DEF IsJoin
  <2>3. \A i \in 1..2 : (<<x>> \o <<x>>)[i] = <<x, x>>[i]
    BY <1>2, <2>2, Zenon
  <2>. QED  BY <1>2, <2>1, <2>2, <2>3, SameSeq, Zenon DEF IsJoin
<1>. QED  BY <1>1, <1>2, <1>3

\* A patch stays inside the file.
LEMMA Patches ==
  ASSUME FileInv, H!PatchBody
  PROVE  FileInv'
<1>. DEFINE l == Len(file)
<1>1. /\ file \in Seq(Nat) /\ l \in Nat /\ l = Len(Body) /\ pc = "wait" /\ Patch \in Nat
  BY BodyAssumption DEF FileInv, FileShape, Drained, H!PatchBody
<1>2. \A i \in 1..l : file[i] \in {Body[i], Patch}
  BY <1>1, Zenon DEF FileInv, Drained
<1>3. UNCHANGED <<offset, pc, rest, got, eof>>
  BY DEF H!PatchBody
<1>4. PICK p \in 0..(l - 2), b \in {<<Patch>>, <<Patch, Patch>>} : file' = H!Over(p, b)
  <2>1. H!Joined(<<<<Patch>>, <<Patch>>>>) = <<Patch, Patch>>
    <3>1. <<Patch>> \in Seq(Nat) /\ <<Patch>> \o <<Patch>> = <<Patch, Patch>>
      BY <1>1, Doubled, Zenon
    <3>. QED  BY <3>1, JoinedTwo, Zenon
  <2>2. PICK p \in 0..(Len(Body) - 2) :
          \/ H!pwrite(<<Patch>>, p)
          \/ H!pwritev(H!IoSlice(<<<<Patch>>, <<Patch>>>>), <<<<Patch>>, <<Patch>>>>, p)
    BY DEF H!PatchBody
  <2>3. file' = H!Over(p, <<Patch>>) \/ file' = H!Over(p, <<Patch, Patch>>)
    BY <2>1, <2>2, Zenon DEF H!pwrite, H!pwritev, H!Joined
  <2>. QED  BY <1>1, <2>3
<1>5. b \in Seq(Nat) /\ Len(b) \in {1, 2} /\ \A i \in 1..Len(b) : b[i] = Patch
  <2>1. CASE b = <<Patch>>
    <3>1. Len(b) = 1 /\ b[1] = Patch /\ b \in Seq(Nat)
      BY <1>1, <2>1, Doubled, Zenon
    <3>. QED  BY <3>1
  <2>2. CASE b = <<Patch, Patch>>
    <3>1. Len(b) = 2 /\ b \in Seq(Nat) /\ \A i \in 1..2 : b[i] = Patch
      BY <1>1, <2>2, Doubled, Zenon
    <3>. QED  BY <3>1
  <2>. QED  BY <1>4, <2>1, <2>2
<1>6. p \in 0..Len(file) /\ p \in Nat /\ p + Len(b) <= Len(file)
  <2>. HIDE DEF l
  <2>1. ASSUME NEW k \in {1, 2} PROVE p \in 0..l /\ p \in Nat /\ p + k <= l
    BY <1>1
  <2>. QED  BY <1>5, <2>1, Zenon DEF l
<1>7. /\ file' \in Seq(Nat) /\ Len(file') = l
      /\ \A i \in 1..l : file'[i] = IF i <= p \/ p + Len(b) < i THEN file[i] ELSE b[i - p]
  <2>1. /\ H!Over(p, b) \in Seq(Nat)
        /\ Len(H!Over(p, b)) = IF p + Len(b) <= Len(file) THEN Len(file) ELSE p + Len(b)
        /\ \A i \in 1..Len(H!Over(p, b)) :
             H!Over(p, b)[i] = IF i <= p \/ p + Len(b) < i THEN file[i] ELSE b[i - p]
    BY <1>1, <1>5, <1>6, OverOf
  <2>. QED  BY <1>4, <1>6, <2>1
<1>. HIDE DEF l
<1>8. ASSUME NEW i \in 1..l PROVE file'[i] \in {Body[i], Patch}
  <2>1. CASE i <= p \/ p + Len(b) < i
    BY <1>2, <1>7, <2>1
  <2>2. CASE ~(i <= p \/ p + Len(b) < i)
    <3>1. i - p \in 1..Len(b)
      BY <1>1, <1>5, <1>6, <2>2
    <3>. QED  BY <1>5, <1>7, <2>2, <3>1, Zenon
  <2>. QED  BY <2>1, <2>2
<1>9. FileShape'
  BY <1>3, <1>7 DEF FileInv, FileShape
<1>10. Drained'
  <2>1. offset <= l
    BY <1>1 DEF FileInv, Drained, l
  <2>. QED  BY <1>1, <1>3, <1>7, <1>8, <2>1 DEF Drained
<1>11. BodyConsumedOnce'
  BY <1>3 DEF FileInv, BodyConsumedOnce, H!BodyConsumedOnce
<1>. QED  BY <1>1, <1>3, <1>9, <1>10, <1>11 DEF FileInv, Filling

LEMMA Reuses ==
  ASSUME FileInv, H!Reuse
  PROVE  FileInv'
<1>1. offset \in Nat /\ file \in Seq(Nat) /\ Len(file) \in Nat
  BY DEF FileInv, FileShape
<1>2. offset' = 0
  BY <1>1, Seeks DEF H!Reuse
<1>3. file' = <<>>
  <2>1. file' = H!Resized(0)
    BY DEF H!Reuse, H!ftruncate
  <2>2. SubSeq(file, 1, 0) = <<>>
    BY <1>1
  <2>. QED  BY <1>1, <2>1, <2>2 DEF H!Resized
<1>4. rest' = Body /\ pc' = "write" /\ got' = <<>> /\ eof' = {}
  BY DEF H!Reuse
<1>. QED  BY <1>2, <1>3, <1>4, Fills

\* The children of a shell read its here-document once between them (the memfd
\* recipe of fd.rs), for any body, any number of children, any buffers of the
\* vectored calls and any positional calls of the shell in between.
THEOREM BodyIsConsumedOnce == H!Spec => []BodyConsumedOnce
<1>1. H!Init => FileInv
  BY DEF H!Init, FileInv, FileShape, Filling, Drained, BodyConsumedOnce, H!BodyConsumedOnce
<1>2. FileInv /\ [H!Next]_(H!vars) => FileInv'
  <2>. SUFFICES ASSUME FileInv, [H!Next]_(H!vars) PROVE FileInv'
    OBVIOUS
  <2>1. CASE UNCHANGED H!vars
    BY <2>1, Zenon DEF H!vars, FileInv, FileShape, Filling, Drained, BodyConsumedOnce, H!BodyConsumedOnce
  <2>2. CASE H!memfd_create
    BY <2>2, Fills DEF H!memfd_create, FileInv
  <2>3. CASE \E k \in Kids : H!ChildReads(k)
    BY <2>3, Reads
  <2>. QED  BY <2>1, <2>2, <2>3, Writes, Rewinds, Looks, Patches, Reuses DEF H!Next
<1>3. FileInv => BodyConsumedOnce
  BY DEF FileInv
<1>. QED  BY <1>1, <1>2, <1>3, PTL DEF H!Spec
=============================================================================
