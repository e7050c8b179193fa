------------------------------- MODULE PipeIo -------------------------------
(***************************************************************************)
(* write_all and read_all (fd.rs) over a kernel pipe (external). Several   *)
(* processes each write_all a buffer to one pipe and close it; one process *)
(* read_alls a buffer from it and closes it. Transfers are short, blocked  *)
(* calls are interrupted (EINTR), ends close early, descriptors may be     *)
(* non-blocking, a sink may report no progress, and a writer may die.      *)
(* One step is one system call and the loop code that handles its result.  *)
(***************************************************************************)
EXTENDS Integers, Sequences

CONSTANTS
    Writers,
    WLen,      \* how many bytes each writer's buffer holds
    RLen,      \* the length of the reader's buffer
    Capacity,  \* how many bytes the pipe holds
    MaxIntr    \* bound on the number of signals that interrupt a call

ASSUME WLenAssumption == WLen \in [Writers -> Nat]
ASSUME RLenAssumption == RLen \in Nat
ASSUME CapacityAssumption == Capacity \in Nat \ {0}
ASSUME MaxIntrAssumption == MaxIntr \in Nat

VARIABLES
    nonblock, \* the ends with O_NONBLOCK set
    stream,  \* every byte the pipe accepted, in order; a byte is <<writer, position>>
    total,   \* read_all's count, also the number of bytes taken out of the pipe
    rbuf,    \* the filled part of the reader's buffer
    sent,    \* how far write_all has advanced its slice (`buf = &buf[n..]`)
    wres,    \* write_all: "running", "Ok" or an errno; "died" with its process
    rres,    \* read_all: "running", "Ok" or an errno
    wopen,   \* writers whose end is open
    ropen,   \* whether the read end is open
    intrs    \* interruptions so far

vars == <<nonblock, stream, total, rbuf, sent, wres, rres, wopen, ropen, intrs>>

Byte == Writers \X (Nat \ {0})
Errnos == {"EIO", "EPIPE", "EAGAIN"}

TypeOK ==
    /\ nonblock \in SUBSET {"read", "write"}
    /\ stream \in Seq(Byte)
    /\ total \in 0..RLen
    /\ rbuf \in Seq(Byte)
    /\ sent \in [Writers -> Nat]
    /\ wres \in [Writers -> {"running", "Ok", "died"} \cup Errnos]
    /\ rres \in {"running", "Ok"} \cup Errnos
    /\ wopen \in SUBSET Writers
    /\ ropen \in BOOLEAN
    /\ intrs \in 0..MaxIntr

Init ==
    /\ nonblock \in SUBSET {"read", "write"}
    /\ stream = <<>>
    /\ total = 0
    /\ rbuf = <<>>
    /\ sent = [w \in Writers |-> 0]
    /\ wres = [w \in Writers |-> "running"]
    /\ rres = "running"
    /\ wopen = Writers
    /\ ropen = TRUE
    /\ intrs = 0

-----------------------------------------------------------------------------
(* The kernel's pipe (external). *)

InPipe == Len(stream) - total
Room == Capacity - InPipe
Least(a, b) == IF a < b THEN a ELSE b

\* The call on this end would block.
WriteBlocks == ropen /\ Room = 0
ReadBlocks == InPipe = 0 /\ wopen # {}

\* A blocked call is interrupted by a signal.
Interrupt ==
    /\ intrs < MaxIntr
    /\ intrs' = intrs + 1

-----------------------------------------------------------------------------
(* write_all. *)

Writing(w) == wres[w] = "running" /\ sent[w] < WLen[w]
Bytes(w, k, n) == [j \in 1..n |-> <<w, k + j>>]

WriteReturns(w, res) ==
    /\ wres' = [wres EXCEPT ![w] = res]
    /\ UNCHANGED <<nonblock, stream, total, rbuf, sent, rres, wopen, ropen, intrs>>

WriteSome_noadvance(w) ==
    /\ Writing(w)
    /\ ropen
    /\ \E n \in 1..Least(Room, WLen[w] - sent[w]) :
        /\ stream' = stream \o Bytes(w, 0, n)
        /\ sent' = [sent EXCEPT ![w] = @ + n]
    /\ UNCHANGED <<nonblock, total, rbuf, wres, rres, wopen, ropen, intrs>>

\* Ok(n): the slice advances by what the kernel took.
WriteSome(w) ==
    /\ Writing(w)
    /\ ropen
    /\ \E n \in 1..Least(Room, WLen[w] - sent[w]) :
        /\ stream' = stream \o Bytes(w, sent[w], n)
        /\ sent' = [sent EXCEPT ![w] = @ + n]
    /\ UNCHANGED <<nonblock, total, rbuf, wres, rres, wopen, ropen, intrs>>

\* Err(EINTR): go round the loop.
WriteInterrupted(w) ==
    /\ Writing(w)
    /\ WriteBlocks /\ "write" \notin nonblock
    /\ Interrupt
    /\ UNCHANGED <<nonblock, stream, total, rbuf, sent, wres, rres, wopen, ropen>>

WriteFails_spin(w) ==
    /\ Writing(w)
    /\ \/ ~ropen /\ UNCHANGED vars
       \/ WriteBlocks /\ "write" \in nonblock /\ UNCHANGED vars

\* An error other than EINTR is returned as it is.
WriteFails(w) ==
    /\ Writing(w)
    /\ \/ ~ropen /\ WriteReturns(w, "EPIPE")
       \/ WriteBlocks /\ "write" \in nonblock /\ WriteReturns(w, "EAGAIN")

\* Ok(0), from a sink that makes no progress, is turned into EIO.
WriteStalls(w) ==
    /\ Writing(w)
    /\ ropen
    /\ WriteReturns(w, "EIO")

WriteAllOk_short(w) ==
    /\ wres[w] = "running"
    /\ sent[w] > 0
    /\ WriteReturns(w, "Ok")

\* The slice is empty: Ok(()).
WriteAllOk(w) ==
    /\ wres[w] = "running"
    /\ sent[w] = WLen[w]
    /\ WriteReturns(w, "Ok")

write_all(w) == WriteSome(w) \/ WriteInterrupted(w) \/ WriteFails(w) \/ WriteAllOk(w)

\* The writer closes its end once write_all has returned.
CloseWrite(w) ==
    /\ wres[w] # "running"
    /\ w \in wopen
    /\ wopen' = wopen \ {w}
    /\ UNCHANGED <<nonblock, stream, total, rbuf, sent, wres, rres, ropen, intrs>>

\* The writer's process is killed: the kernel closes its end.
WriterDies(w) ==
    /\ wres[w] = "running"
    /\ wres' = [wres EXCEPT ![w] = "died"]
    /\ wopen' = wopen \ {w}
    /\ UNCHANGED <<nonblock, stream, total, rbuf, sent, rres, ropen, intrs>>

-----------------------------------------------------------------------------
(* read_all. *)

Reading == rres = "running" /\ total < RLen

ReadReturns(res) ==
    /\ rres' = res
    /\ UNCHANGED <<nonblock, stream, total, rbuf, sent, wres, wopen, ropen, intrs>>

\* Ok(n): the bytes land at buf[total..].
ReadSome ==
    /\ Reading
    /\ \E n \in 1..Least(InPipe, RLen - total) :
        /\ total' = total + n
        /\ rbuf' = rbuf \o SubSeq(stream, total + 1, total + n)
    /\ UNCHANGED <<nonblock, stream, sent, wres, rres, wopen, ropen, intrs>>

\* Err(EINTR): go round the loop.
ReadInterrupted ==
    /\ Reading
    /\ ReadBlocks /\ "read" \notin nonblock
    /\ Interrupt
    /\ UNCHANGED <<nonblock, stream, total, rbuf, sent, wres, rres, wopen, ropen>>

\* Any other error is returned; the bytes read so far are not.
ReadFails ==
    /\ Reading
    /\ ReadBlocks /\ "read" \in nonblock
    /\ ReadReturns("EAGAIN")

\* Ok(0): end-of-file.
ReadEof ==
    /\ Reading
    /\ InPipe = 0 /\ wopen = {}
    /\ ReadReturns("Ok")

ReadAllFull ==
    /\ rres = "running"
    /\ total = RLen
    /\ ReadReturns("Ok")

read_all == ReadSome \/ ReadInterrupted \/ ReadFails \/ ReadEof \/ ReadAllFull

CloseRead ==
    /\ rres # "running"
    /\ ropen
    /\ ropen' = FALSE
    /\ UNCHANGED <<nonblock, stream, total, rbuf, sent, wres, rres, wopen, intrs>>

-----------------------------------------------------------------------------
Next ==
    \/ read_all
    \/ CloseRead
    \/ \E w \in Writers : write_all(w) \/ WriteStalls(w) \/ CloseWrite(w) \/ WriterDies(w)

\* Each process keeps running; a call that can make progress is eventually
\* made, and each process closes its end. Signals stop after MaxIntr; nothing
\* obliges a sink to stall, or a process to die.
Fairness ==
    /\ WF_vars(read_all) /\ WF_vars(CloseRead)
    /\ \A w \in Writers : WF_vars(write_all(w)) /\ WF_vars(CloseWrite(w))

Spec == Init /\ [][Next]_vars /\ Fairness

-----------------------------------------------------------------------------
(* Properties *)

\* Short writes and retries neither lose, repeat nor reorder a writer's bytes,
\* however the writers interleave: the stream holds exactly the first sent[w]
\* bytes of each writer w, each once, in order.
StreamIntegrity ==
    /\ \A w \in Writers : \A m \in 1..sent[w] : \E k \in 1..Len(stream) : stream[k] = <<w, m>>
    /\ \A k \in 1..Len(stream) : stream[k][2] <= sent[stream[k][1]]
    /\ \A j, k \in 1..Len(stream) :
        j < k /\ stream[j][1] = stream[k][1] => stream[j][2] < stream[k][2]

\* write_all "drains the whole buffer": when it says Ok every byte of the
\* buffer is in the pipe.
WriteAllComplete ==
    \A w \in Writers : wres[w] = "Ok" =>
        \A m \in 1..WLen[w] : \E k \in 1..Len(stream) : stream[k] = <<w, m>>

\* read_all fills its buffer, over short reads, with exactly the bytes it took
\* out of the pipe, in order, and returns "less than buf.len() only when EOF
\* was reached first": every writer has closed and nothing is left.
ReadAllPrefix ==
    /\ Len(rbuf) = total /\ total <= Len(stream)
    /\ \A k \in 1..total : rbuf[k] = stream[k]
    /\ rres = "Ok" /\ total < RLen => wopen = {} /\ total = Len(stream)

\* Neither loop runs for ever: once signals stop, every call returns.
CallsReturn == \A w \in Writers : <>(wres[w] # "running") /\ <>(rres # "running")

\* The abstract specification of the two calls: the system calls and retries
\* are stuttering or single transfers of an unbounded byte stream.
Outcome(r) == IF r = "running" THEN "running" ELSE IF r = "Ok" THEN "ok" ELSE "err"
Abstract == INSTANCE ByteStream WITH
    wres <- [w \in Writers |-> Outcome(wres[w])],
    rres <- Outcome(rres)
ImplementsByteStream == Abstract!Spec
=============================================================================
