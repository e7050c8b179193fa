------------------------------ MODULE DnsParse ------------------------------
(***************************************************************************)
(* parse_header, skip_name and parse_answers_a / parse_answers_aaaa        *)
(* (dns.rs) on a received datagram: n bytes at the start of a zeroed       *)
(* buffer. One step is one turn of a loop. An index outside the buffer     *)
(* would panic; the highest index read is kept to say that none is.        *)
(***************************************************************************)
EXTENDS Integers, Sequences

CONSTANTS
    BufLen,     \* the length of the receive buffer (512 in query)
    MAX_ADDRS,  \* the capacity of an address list (8)
    Replies     \* the datagrams received: buf, n, and for the properties
                \* whether and as what they were sent: intact, records, full

Byte == 0..255
Buffer == [0..BufLen - 1 -> Byte]

QTYPE_A == 1
QTYPE_AAAA == 28
Types == {QTYPE_A, QTYPE_AAAA}
AddrLen(t) == IF t = QTYPE_A THEN 4 ELSE 16

VARIABLES
    reply,    \* the datagram
    qtype,    \* which of the two parsers runs
    pc,       \* "header", "loop", "name", "fields" or "done"
    part,     \* the section being walked: "question" or "answer"
    pos,      \* the position in the buffer
    left,     \* turns of the section's loop still to come
    ancount,  \* the header's answer count
    out,      \* the addresses found: where each starts, and its bytes
    top,      \* one more than the highest index read (history)
    result    \* "none", "Ok", "ENOENT" or "EINVAL"

vars == <<reply, qtype, pc, part, pos, left, ancount, out, top, result>>

Init ==
    /\ reply \in Replies
    /\ qtype \in Types
    /\ pc = "header"
    /\ part = "question"
    /\ pos = 0
    /\ left = 0
    /\ ancount = 0
    /\ out = <<>>
    /\ top = 0
    /\ result = "none"

-----------------------------------------------------------------------------
(* Reading the buffer. *)

buf == reply.buf
n == reply.n

At(p) == IF p \in 0..BufLen - 1 THEN buf[p] ELSE 0

Max2(a, b) == IF a > b THEN a ELSE b
Reads(p) == top' = Max2(top, p + 1)

\* read_u16; its own bounds check cannot fail where it is called, because pos + 10
\* is within n (NoOverread covers the indices).
U16(p) == At(p) * 256 + At(p + 1)

-----------------------------------------------------------------------------

Return(r) ==
    /\ pc' = "done"
    /\ result' = r
    /\ UNCHANGED <<reply, qtype, part, pos, left, ancount, out>>

\* parse_header up to the loop over the questions.
Header ==
    /\ pc = "header"
    /\ \/ n < 12 /\ Return("EINVAL") /\ UNCHANGED top
       \/ n >= 12 /\ U16(2) % 16 = 3 /\ Return("ENOENT") /\ Reads(3)
       \/ n >= 12 /\ U16(2) % 16 \notin {0, 3} /\ Return("EINVAL") /\ Reads(3)
       \/ /\ n >= 12 /\ U16(2) % 16 = 0
          /\ Reads(7)
          /\ left' = U16(4)
          /\ ancount' = U16(6)
          /\ pos' = 12
          /\ pc' = "loop"
          /\ UNCHANGED <<reply, qtype, part, out, result>>

\* `for _ in 0..qdcount`, then `for _ in 0..header.ancount`, then the verdict.
Loop ==
    /\ pc = "loop"
    /\ \/ /\ left > 0
          /\ pc' = "name"
          /\ UNCHANGED <<reply, qtype, part, pos, left, ancount, out, result>>
       \/ /\ left = 0 /\ part = "question"
          /\ part' = "answer" /\ left' = ancount
          /\ UNCHANGED <<reply, qtype, pc, pos, ancount, out, result>>
       \/ /\ left = 0 /\ part = "answer"
          /\ Return(IF out = <<>> THEN "ENOENT" ELSE "Ok")
    /\ UNCHANGED top

skip_name_unchecked ==
    /\ pc = "name"
    /\ \/ At(pos) = 0 /\ Reads(pos) /\ pos' = pos + 1 /\ pc' = "fields"
       \/ At(pos) >= 192 /\ Reads(pos) /\ pos' = pos + 2 /\ pc' = "fields"
       \/ At(pos) \in 1..191 /\ Reads(pos) /\ pos' = pos + 1 + At(pos) /\ pc' = "name"
    /\ UNCHANGED <<reply, qtype, part, left, ancount, out, result>>

skip_name_follows ==
    /\ pc = "name"
    /\ \/ pos >= BufLen /\ Return("EINVAL") /\ UNCHANGED top
       \/ /\ pos < BufLen
          /\ Reads(pos)
          /\ \/ At(pos) = 0 /\ pos' = pos + 1 /\ pc' = "fields"
             \/ At(pos) >= 192 /\ pos' = (At(pos) - 192) * 256 + At(pos + 1) /\ pc' = "name"
             \/ At(pos) \in 1..191 /\ pos' = pos + 1 + At(pos) /\ pc' = "name"
          /\ UNCHANGED <<reply, qtype, part, left, ancount, out, result>>

\* A turn of skip_name: the end of the name, a compression pointer (the two
\* high bits set), or another label.
skip_name ==
    /\ pc = "name"
    /\ \/ pos >= BufLen /\ Return("EINVAL") /\ UNCHANGED top
       \/ /\ pos < BufLen /\ At(pos) >= 192 /\ pos + 1 >= BufLen
          /\ Return("EINVAL") /\ Reads(pos)
       \/ /\ pos < BufLen
          /\ Reads(pos)
          /\ \/ At(pos) = 0 /\ pos' = pos + 1 /\ pc' = "fields"
             \/ At(pos) >= 192 /\ pos + 1 < BufLen /\ pos' = pos + 2 /\ pc' = "fields"
             \/ At(pos) \in 1..191 /\ pos' = pos + 1 + At(pos) /\ pc' = "name"
          /\ UNCHANGED <<reply, qtype, part, left, ancount, out, result>>

\* The rest of a question: qtype and qclass.
Question ==
    /\ pc = "fields" /\ part = "question"
    /\ \/ pos + 4 > n /\ Return("EINVAL")
       \/ /\ pos + 4 <= n
          /\ pos' = pos + 4
          /\ left' = left - 1
          /\ pc' = "loop"
          /\ UNCHANGED <<reply, qtype, part, ancount, out, result>>
    /\ UNCHANGED top

rdlength == U16(pos + 8)

Wanted_anylength == U16(pos) = qtype /\ Len(out) < MAX_ADDRS

\* An address record of the wanted type while there is room is copied; any
\* other record is skipped.
Wanted == U16(pos) = qtype /\ rdlength = AddrLen(qtype) /\ Len(out) < MAX_ADDRS

\* The rest of an answer: type, class, ttl, rdlength and the data.
Answer ==
    /\ pc = "fields" /\ part = "answer"
    /\ \/ pos + 10 > n /\ Return("EINVAL") /\ UNCHANGED top
       \/ pos + 10 <= n /\ pos + 10 + rdlength > n /\ Return("EINVAL") /\ Reads(pos + 9)
       \/ /\ pos + 10 + rdlength <= n
          /\ out' = IF Wanted
                    THEN Append(out, [at |-> pos + 10,
                                      addr |-> [j \in 0..AddrLen(qtype) - 1 |-> At(pos + 10 + j)]])
                    ELSE out
          /\ Reads(IF Wanted THEN pos + 9 + rdlength ELSE pos + 9)
          /\ pos' = pos + 10 + rdlength
          /\ left' = left - 1
          /\ pc' = "loop"
          /\ UNCHANGED <<reply, qtype, part, ancount, result>>

Next == Header \/ Loop \/ skip_name \/ Question \/ Answer

Spec == Init /\ [][Next]_vars /\ WF_vars(Next)

-----------------------------------------------------------------------------
(* Properties *)

TypeOK ==
    /\ buf \in Buffer /\ n \in 0..BufLen
    /\ qtype \in Types
    /\ pc \in {"header", "loop", "name", "fields", "done"}
    /\ part \in {"question", "answer"}
    /\ pos \in Nat /\ left \in Nat /\ ancount \in Nat /\ top \in Nat
    /\ out \in Seq([at : Nat, addr : [0..3 -> Byte] \cup [0..15 -> Byte]])
    /\ Len(out) <= MAX_ADDRS
    /\ result \in {"none", "Ok", "ENOENT", "EINVAL"}

\* No datagram makes the parser index outside its buffer, which would panic:
\* lengths, counts and pointers in the reply are whatever the sender chose.
NoOverread == top <= BufLen

\* Every address returned lies within the bytes that were received, not in the
\* zeroed rest of the buffer, and records follow one another: no byte is part
\* of two addresses.
AddressesInReply ==
    /\ \A k \in 1..Len(out) : out[k].at + AddrLen(qtype) <= n
    /\ \A j, k \in 1..Len(out) : j < k => out[j].at + AddrLen(qtype) + 10 < out[k].at

\* A server's reply to the query yields exactly its address records of the
\* queried type, in order, up to the list's capacity, ENOENT when there are
\* none; a reply cut short anywhere is EINVAL and yields nothing.
ParsesWhatWasSent ==
    LET wanted == SelectSeq(reply.records,
                      LAMBDA r : r.rtype = qtype /\ Len(r.rdata) = AddrLen(qtype))
    IN  pc = "done" /\ reply.intact =>
            IF n < reply.full THEN result = "EINVAL"
            ELSE /\ result = IF wanted = <<>> THEN "ENOENT" ELSE "Ok"
                 /\ Len(out) = IF Len(wanted) < MAX_ADDRS THEN Len(wanted) ELSE MAX_ADDRS
                 /\ \A k \in 1..Len(out) : \A j \in 1..AddrLen(qtype) :
                        out[k].addr[j - 1] = wanted[k].rdata[j]

\* The parser ends on every datagram: a compression pointer is stepped over,
\* never followed, and each turn moves on.
Terminates == <>(pc = "done")
=============================================================================
