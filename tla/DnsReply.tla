------------------------------ MODULE DnsReply ------------------------------
(***************************************************************************)
(* DNS messages: the query build_query makes (dns.rs) and the reply a      *)
(* server makes of it (external), as sequences of bytes, and the parsers   *)
(* of a reply (DnsParse) on a datagram of their own. A hostname is the     *)
(* sequence of the lengths of its labels, whose letters do not matter.     *)
(***************************************************************************)
EXTENDS Integers, Sequences

QCLASS_IN == 1
Letter == 97
U16Bytes(v) == <<v \div 256, v % 256>>

Joined(parts) ==
    LET upto[n \in 0..Len(parts)] == IF n = 0 THEN <<>> ELSE upto[n - 1] \o parts[n]
    IN  upto[Len(parts)]

\* A label: its length, then its letters.
Label(len) == <<len>> \o [j \in 1..len |-> Letter]
Name(labels) == Joined([j \in 1..Len(labels) |-> Label(labels[j])]) \o <<0>>

BadLabel(len) == len = 0 \/ len > 63

EINVAL == <<>>

\* build_query into a buffer of cap bytes: the encoded message, EINVAL if a
\* label is empty or too long or the message does not fit.
build_query(cap, id, labels, qtype) ==
    LET header == U16Bytes(id) \o U16Bytes(256) \o U16Bytes(1)
                    \o U16Bytes(0) \o U16Bytes(0) \o U16Bytes(0)
        message == header \o Name(labels) \o U16Bytes(qtype) \o U16Bytes(QCLASS_IN)
    IN  IF labels = <<>> \/ (\E j \in 1..Len(labels) : BadLabel(labels[j])) \/ Len(message) > cap
        THEN EINVAL
        ELSE message

-----------------------------------------------------------------------------
(* The server's side (external). *)

\* A record: an owner name (a pointer to the question, or labels), its type,
\* class IN, a TTL and the data.
Record(r) ==
    (IF r.name = "pointer" THEN <<192, 12>> ELSE Name(<<2, 1>>))
        \o U16Bytes(r.rtype) \o U16Bytes(QCLASS_IN) \o <<0, 0, 1, 44>>
        \o U16Bytes(Len(r.rdata)) \o r.rdata

\* The query with the response flags, its question, and the records.
Response(query, rcode, records) ==
    SubSeq(query, 1, 2) \o <<129, 128 + rcode>> \o SubSeq(query, 5, 6) \o U16Bytes(Len(records))
        \o SubSeq(query, 9, Len(query))
        \o Joined([j \in 1..Len(records) |-> Record(records[j])])

-----------------------------------------------------------------------------
(* The parsers. *)

CONSTANTS BufLen, MAX_ADDRS, Replies

VARIABLES reply, qtype, ppc, part, pos, left, ancount, out, top, verdict

P == INSTANCE DnsParse WITH pc <- ppc, result <- verdict

pvars == <<reply, qtype, ppc, part, pos, left, ancount, out, top, verdict>>

\* The buffer holds a header at least, a list an address, and a datagram's
\* bytes are at the start of the buffer.
ASSUME BufLenAssumption == BufLen \in Nat /\ BufLen >= 12
ASSUME MaxAddrsAssumption == MAX_ADDRS \in Nat \ {0}
ASSUME RepliesAssumption ==
    \A r \in Replies : r.buf \in P!Buffer /\ r.n \in 0..BufLen

-----------------------------------------------------------------------------
\* No datagram makes the parser index outside its buffer (DnsParse).
NoOverread == P!NoOverread

\* A server's reply yields exactly its address records of the queried type, in
\* order; a reply cut short anywhere yields nothing (DnsParse).
ParsesWhatWasSent == P!ParsesWhatWasSent
=============================================================================
