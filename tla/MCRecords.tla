----------------------------- MODULE MCRecords -----------------------------
(* The modules about packed records, for TLC: DNS replies (DnsParse) and    *)
(* directory entries and inotify events (DirWatch).  They share no state of *)
(* the code: which says which of them a behaviour is of, and the state of   *)
(* the other stays as it was at first.                                      *)
EXTENDS DnsReply

VARIABLES which, dir, queue, wd, changes, dpc, todo, dbuf, at, junk, known

-----------------------------------------------------------------------------
(* Replies to a query for a two-label name: up to three records, of both    *)
(* address types (1 and 28), of another type, and of an address type with   *)
(* the wrong length; those of up to two records cut short at every byte,    *)
(* and pairs with any single byte replaced. The buffer has no room after    *)
(* the longest reply.                                                       *)

Query == build_query(256, 4660, <<1, 2>>, 1)

Addr(k, len) == [j \in 1..len |-> 16 * k + j]
Shapes(k) ==
    {[name |-> "pointer", rtype |-> 1, rdata |-> Addr(k, 4)],
     [name |-> "labels", rtype |-> 1, rdata |-> Addr(k, 4)],
     [name |-> "pointer", rtype |-> 1, rdata |-> Addr(k, 3)],
     [name |-> "pointer", rtype |-> 5, rdata |-> <<192, 12>>],
     [name |-> "labels", rtype |-> 28, rdata |-> Addr(k, 16)]}

Short == {<<>>} \cup {<<a>> : a \in Shapes(1)} \cup {<<a, b>> : a \in Shapes(1), b \in Shapes(2)}
Long == {<<a, b, c>> : a \in Shapes(1), b \in Shapes(2), c \in Shapes(3)}

MCBufLen == 118

Received(bytes) == [p \in 0..MCBufLen - 1 |-> IF p < Len(bytes) THEN bytes[p + 1] ELSE 0]

Reply(bytes, records, m) ==
    [buf |-> Received(SubSeq(bytes, 1, m)), n |-> m, intact |-> TRUE,
     records |-> records, full |-> Len(bytes)]

Cut(records) ==
    LET bytes == Response(Query, 0, records) IN {Reply(bytes, records, m) : m \in 0..Len(bytes)}

Whole(records) ==
    LET bytes == Response(Query, 0, records) IN Reply(bytes, records, Len(bytes))

Corrupt(records) ==
    LET bytes == Response(Query, 0, records)
    IN  {[buf |-> [Received(bytes) EXCEPT ![p] = v], n |-> Len(bytes), intact |-> FALSE,
          records |-> records, full |-> Len(bytes)] :
            p \in 0..Len(bytes) - 1, v \in {0, 1, 3, 4, 22, 60, 129, 192, 255}}

MCReplies ==
    (UNION {Cut(records) : records \in Short})
        \cup {Whole(records) : records \in Long}
        \cup (UNION {Corrupt(<<a, b>>) : a \in Shapes(1), b \in {r \in Shapes(2) : r.rtype = 1}})
-----------------------------------------------------------------------------
\* A name whose record has padding after the terminating NUL, one that fills
\* its record, and one in between; a buffer that holds two of the records.
D == INSTANCE DirWatch WITH Names <- {<<97>>, <<98, 99, 100, 101>>, <<102, 103>>},
        Dirs <- {<<97>>}, Junk <- {0, 120}, BufLen <- 56, QueueMax <- 2, MaxChanges <- 3,
        pc <- dpc, buf <- dbuf, pos <- at

dvars == <<dir, queue, wd, changes, dpc, todo, dbuf, at, junk, known>>
MCvars == <<which, pvars, dvars>>

MCInit ==
    /\ P!Init
    /\ \/ which = "reply" /\ dir = {} /\ junk = 0
       \/ which = "directory" /\ reply = Whole(<<>>) /\ qtype = P!QTYPE_A
    /\ D!Init

IsReply(A) == which = "reply" /\ A /\ UNCHANGED <<which, dvars>>
IsDirectory(A) == which = "directory" /\ A /\ UNCHANGED <<which, pvars>>

MCNext == IsReply(P!Next) \/ IsDirectory(D!Next)

\* DnsParse's fairness: a parser runs.
MCSpec == MCInit /\ [][MCNext]_MCvars /\ WF_MCvars(IsReply(P!Next))

-----------------------------------------------------------------------------
\* Both parsers come to an end (DnsParse's Terminates).
ParseTerminates == which = "reply" => P!Terminates

\* A program that lists a directory and then follows its events has a current
\* copy of it (DirWatch).
CopyIsCurrent == D!CopyIsCurrent
=============================================================================
