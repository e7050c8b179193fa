------------------------------- MODULE FileIo -------------------------------
(***************************************************************************)
(* Reading and writing a seekable file through an offset that descriptors  *)
(* share (fd.rs): read, write, readv, writev, pread, pwrite, preadv,       *)
(* pwritev, lseek, ftruncate.                                              *)
(*                                                                         *)
(* The file is the one memfd_create documents: a shell writes the body of  *)
(* a here-document into it, seeks back to the start and dup2s the          *)
(* descriptor onto the input of its children.  All these descriptors share *)
(* one offset, so a group of children that reads the same input consumes   *)
(* it together, while the shell, which still holds the file, may look into *)
(* it and patch it with the positional calls.  When the children are done  *)
(* the shell empties the file and uses it again.                           *)
(***************************************************************************)
EXTENDS IoVec

CONSTANTS
    Kids,        \* the children that share the descriptor as their input
    Body,        \* the bytes of the here-document
    Patch,       \* a byte the shell may write over one of them
    Segments,    \* the lengths of the buffers of one vectored call
    MaxRounds    \* how often the file is filled

VARIABLES
    file,        \* the bytes of the file
    offset,      \* the offset of the open file description
    pc,          \* the shell: "create", "write", "wait"
    rest,        \* the part of the body not written yet
    round,
    got,         \* what the children read, in the order the reads happened
    eof,         \* the children that saw the end of the file
    seen         \* what the last positional read returned

vars == <<file, offset, pc, rest, round, got, eof, seen>>

SEEK_SET == 0
SEEK_CUR == 1
SEEK_END == 2

EINVAL == 22
Err(e) == [ok |-> FALSE, e |-> e]
Ok(v) == [ok |-> TRUE, v |-> v]

-----------------------------------------------------------------------------
(* The kernel's side: at most n bytes from position p, and bytes over the  *)
(* file from position p on, a gap before them filled with zeros.           *)

At(p, n) == Part(file, p, n)

\* The contents of an array of buffers, one after the other.
Joined(bufs) == Gather(IoSlice(bufs), bufs)

Zeros(n) == [i \in 1..n |-> 0]

Resized(n) == IF n <= Len(file) THEN SubSeq(file, 1, n)
              ELSE file \o Zeros(n - Len(file))

Over(p, bytes) ==
    SubSeq(Resized(p), 1, p) \o bytes \o SubSeq(file, p + Len(bytes) + 1, Len(file))

-----------------------------------------------------------------------------
(* One operator per call of fd.rs.  A call that moves the offset is an     *)
(* action on it; a positional call leaves it alone.  A write may be short. *)

read(n) == At(offset, n)

readv(iov) == Scatter(iov, At(offset, Total(iov)))

pread(n, pos) == [data |-> At(pos, n), offset |-> offset]

\* The bug a positional read made of lseek and read would have.
preadv_seeks(iov, pos) ==
    [data |-> Scatter(iov, At(pos, Total(iov))), offset |-> pos + Len(At(pos, Total(iov)))]

preadv(iov, pos) == [data |-> Scatter(iov, At(pos, Total(iov))), offset |-> offset]

write(bytes) ==
    /\ file' = Over(offset, bytes)
    /\ offset' = offset + Len(bytes)

writev(iov, bufs, n) == write(SubSeq(Gather(iov, bufs), 1, n))

pwrite(bytes, pos) == file' = Over(pos, bytes)

pwritev(iov, bufs, pos) == pwrite(Gather(iov, bufs), pos)

\* The new offset, or EINVAL for one before the start of the file.
lseek(off, whence) ==
    LET to == CASE whence = SEEK_SET -> off
                [] whence = SEEK_CUR -> offset + off
                [] whence = SEEK_END -> Len(file) + off
    IN  IF to < 0 THEN Err(EINVAL) ELSE Ok(to)

Seek(r) == offset' = IF r.ok THEN r.v ELSE offset

ftruncate(length) == file' = Resized(length)

-----------------------------------------------------------------------------
Init ==
    /\ file = <<>>
    /\ offset = 0
    /\ pc = "create"
    /\ rest = <<>>
    /\ round = 0
    /\ got = <<>>
    /\ eof = {}
    /\ seen = <<>>

\* A new memfd is empty and its offset is 0.
memfd_create ==
    /\ pc = "create"
    /\ file' = <<>>
    /\ offset' = 0
    /\ rest' = Body
    /\ round' = 1
    /\ pc' = "write"
    /\ UNCHANGED <<got, eof, seen>>

\* One write of the body, plain or gathered from two buffers; short counts
\* make the shell come back with the rest.
WriteBody ==
    /\ pc = "write"
    /\ rest # <<>>
    /\ \E n \in 1..Len(rest) :
        /\ \/ write(SubSeq(rest, 1, n))
           \/ \E cut \in 0..Len(rest) :
                LET bufs == <<SubSeq(rest, 1, cut), SubSeq(rest, cut + 1, Len(rest))>>
                IN  writev(IoSlice(bufs), bufs, n)
        /\ rest' = SubSeq(rest, n + 1, Len(rest))
    /\ UNCHANGED <<pc, round, got, eof, seen>>

Rewind ==
    /\ pc = "write"
    /\ rest = <<>>
    /\ \/ Seek(lseek(0, SEEK_SET))
       \/ Seek(lseek(0 - Len(Body), SEEK_END))
    /\ pc' = "wait"
    /\ UNCHANGED <<file, rest, round, got, eof, seen>>

\* A child reads its input, into one buffer or several.
ChildReads(k) ==
    /\ pc = "wait"
    /\ k \notin eof
    /\ \E bytes \in {read(n) : n \in {1, Len(Body)}}
                    \cup {Joined(readv(IoSliceMut(Segments)))} :
        /\ offset' = offset + Len(bytes)
        /\ got' = got \o bytes
        /\ eof' = IF bytes = <<>> THEN eof \cup {k} ELSE eof
    /\ UNCHANGED <<file, pc, rest, round, seen>>

\* The shell looks into the file while the children read it.
Inspect ==
    /\ pc = "wait"
    /\ \E p \in 0..Len(Body), r \in {TRUE, FALSE} :
        LET res == IF r THEN preadv(IoSliceMut(Segments), p)
                   ELSE [pread(1, p) EXCEPT !.data = <<@>>]
        IN  /\ seen' = Joined(res.data)
            /\ offset' = res.offset
    /\ UNCHANGED <<file, pc, rest, round, got, eof>>

\* It asks how far they are, which moves nothing.
Tell ==
    /\ pc = "wait"
    /\ Seek(lseek(0, SEEK_CUR))
    /\ UNCHANGED <<file, pc, rest, round, got, eof, seen>>

\* It patches one byte, or two with a gathered write.
PatchBody ==
    /\ pc = "wait"
    /\ \E p \in 0..Len(Body) - 2 :
        \/ pwrite(<<Patch>>, p)
        \/ pwritev(IoSlice(<<<<Patch>>, <<Patch>>>>), <<<<Patch>>, <<Patch>>>>, p)
    /\ UNCHANGED <<offset, pc, rest, round, got, eof, seen>>

\* Used again: ftruncate empties the file and leaves the offset where the
\* children left it, so the shell seeks back as well.
Reuse ==
    /\ pc = "wait"
    /\ eof = Kids
    /\ round < MaxRounds
    /\ ftruncate(0)
    /\ Seek(lseek(0, SEEK_SET))
    /\ rest' = Body
    /\ round' = round + 1
    /\ got' = <<>>
    /\ eof' = {}
    /\ pc' = "write"
    /\ UNCHANGED seen

Next ==
    \/ memfd_create \/ WriteBody \/ Rewind \/ Inspect \/ Tell \/ PatchBody \/ Reuse
    \/ \E k \in Kids : ChildReads(k)

Spec == Init /\ [][Next]_vars

-----------------------------------------------------------------------------
(* Properties *)

\* The here-document recipe of memfd_create hands the children the whole
\* body, each byte once: what they read, in the order of their reads, is the
\* body (up to bytes the shell patched), with nothing skipped, repeated or
\* torn by the vectored calls, by a positional read of the shell in between
\* or by what the file held before; a child sees the end of its input only
\* when the body has been consumed.
BodyConsumedOnce ==
    pc = "wait" =>
        /\ Len(got) = offset
        /\ \A i \in 1..Len(got) : got[i] \in {Body[i], Patch}
        /\ eof # {} => Len(got) = Len(Body)
=============================================================================
