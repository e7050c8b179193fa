------------------------------- MODULE IoVec --------------------------------
(***************************************************************************)
(* Buffers for vectored calls (fd.rs IoSlice, IoSliceMut; process.rs       *)
(* RemoteIoVec): arrays of { base, len } in the kernel's struct iovec      *)
(* layout, and how the kernel walks them.                                  *)
(***************************************************************************)
EXTENDS Integers, Sequences

\* At most n elements of s after the first p.
Part(s, p, n) == SubSeq(s, p + 1, IF p + n < Len(s) THEN p + n ELSE Len(s))

\* Buffers are named by their place in the caller's array.
IoSlice(bufs) == [i \in DOMAIN bufs |-> [base |-> i, len |-> Len(bufs[i])]]

IoSliceMut(lens) == [i \in DOMAIN lens |-> [base |-> i, len |-> lens[i]]]

\* A range of another process's memory is named by its address there.
RemoteIoVec(base, len) == [base |-> base, len |-> len]

Total(iov) ==
    LET sum[n \in 0..Len(iov)] == IF n = 0 THEN 0 ELSE sum[n - 1] + iov[n].len
    IN  sum[Len(iov)]

\* What the buffers hold when the kernel had `bytes` for them: each is filled
\* before the next is begun.
Scatter(iov, bytes) ==
    [i \in DOMAIN iov |-> Part(bytes, Total(SubSeq(iov, 1, i - 1)), iov[i].len)]

\* The bytes the kernel takes out of the buffers, in the array's order.
Gather(iov, bufs) ==
    LET taken[n \in 0..Len(iov)] ==
            IF n = 0 THEN <<>> ELSE taken[n - 1] \o Part(bufs[iov[n].base], 0, iov[n].len)
    IN  taken[Len(iov)]

\* The addresses a list of remote ranges names, in order.
Addresses(remote) ==
    LET upto[n \in 0..Len(remote)] ==
            IF n = 0 THEN <<>>
            ELSE upto[n - 1] \o [i \in 1..remote[n].len |-> remote[n].base + i - 1]
    IN  upto[Len(remote)]
=============================================================================
