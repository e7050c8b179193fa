----------------------------- MODULE ByteStream -----------------------------
(***************************************************************************)
(* What write_all and read_all (fd.rs) promise their callers over a pipe,  *)
(* without system calls, interruptions, capacities or descriptors: every   *)
(* writer appends its own bytes in order; the reader gets a prefix of what *)
(* was appended; write_all says Ok only when all of its bytes are in, and  *)
(* read_all returns short only at the end of the stream.                   *)
(***************************************************************************)
EXTENDS Integers, Sequences

CONSTANTS Writers, WLen, RLen

VARIABLES
    stream,  \* the bytes appended so far; a byte is <<writer, position>>
    sent,    \* how many bytes of each writer are in the stream
    total,   \* how many bytes of the stream the reader has
    wres,    \* outcome of each write_all: "running", "ok" or "err"
    rres     \* outcome of read_all: "running", "ok" or "err"

vars == <<stream, sent, total, wres, rres>>

Init ==
    /\ stream = <<>>
    /\ sent = [w \in Writers |-> 0]
    /\ total = 0
    /\ wres = [w \in Writers |-> "running"]
    /\ rres = "running"

\* n bytes of writer w, starting after its first k.
Bytes(w, k, n) == [j \in 1..n |-> <<w, k + j>>]

Send(w) ==
    /\ wres[w] = "running"
    /\ \E n \in 1..(WLen[w] - sent[w]) :
        /\ stream' = stream \o Bytes(w, sent[w], n)
        /\ sent' = [sent EXCEPT ![w] = @ + n]
    /\ UNCHANGED <<total, wres, rres>>

WriteDone(w) ==
    /\ wres[w] = "running"
    /\ \/ sent[w] = WLen[w] /\ wres' = [wres EXCEPT ![w] = "ok"]
       \/ wres' = [wres EXCEPT ![w] = "err"]
    /\ UNCHANGED <<stream, sent, total, rres>>

Receive ==
    /\ rres = "running"
    /\ \E n \in 1..(Len(stream) - total) : total + n <= RLen /\ total' = total + n
    /\ UNCHANGED <<stream, sent, wres, rres>>

EndOfStream == total = Len(stream) /\ \A w \in Writers : wres[w] # "running"

ReadDone ==
    /\ rres = "running"
    /\ \/ (total = RLen \/ EndOfStream) /\ rres' = "ok"
       \/ rres' = "err"
    /\ UNCHANGED <<stream, sent, total, wres>>

Next == Receive \/ ReadDone \/ \E w \in Writers : Send(w) \/ WriteDone(w)

Spec == Init /\ [][Next]_vars
=============================================================================
