-------------------------- MODULE ResourcesProofs --------------------------
(***************************************************************************)
(* What a process can rely on for its pages, its descriptors and its       *)
(* signal mask, for any number of pages, threads, descriptors, children    *)
(* and interrupts. Each theorem is of its component's own specification.   *)
(***************************************************************************)
EXTENDS Resources, ChildWatch, WellFoundedInduction, TLAPS

-----------------------------------------------------------------------------
(* Memory. A flush promises that a crash finds the flushed value or one     *)
(* written later; for that the cache has to hold such a value too, since    *)
(* the kernel writes it back at any time. A secret is only in private pages *)
(* that are pinned.                                                         *)

PageVals == Vals \cup {0, M!None}

MemShape ==
    /\ cache \in [Pages -> PageVals] /\ disk \in [Pages -> PageVals]
    /\ own \in [Pages -> PageVals]
    /\ promised \in [Pages -> SUBSET PageVals]
    /\ map \in [live : BOOLEAN, prot : SUBSET {1, 2},
                flags : {{}, {M!MAP_SHARED}, {M!MAP_PRIVATE}, {M!MAP_PRIVATE, M!MAP_ANONYMOUS}}]

Kept == \A p \in Pages : promised[p] # {} => disk[p] \in promised[p] /\ cache[p] \in promised[p]

Pinned ==
    /\ trusted \subseteq pinned
    /\ Secret \notin swap
    /\ \A p \in Pages : /\ cache[p] # Secret /\ disk[p] # Secret
                        /\ own[p] = Secret => p \in pinned

MemInv == MemShape /\ Kept /\ Pinned

LEMMA MemInit == M!Init => MemInv
  BY SecretAssumption DEF M!Init, M!NoMap, MemInv, MemShape, Kept, Pinned, PageVals

\* A value other than the secret arrives in the file.
LEMMA DirtyKeeps ==
  ASSUME MemInv, NEW p, NEW v \in Vals, v # Secret, M!Dirty(p, v), UNCHANGED <<disk, own>>
  PROVE  /\ cache' \in [Pages -> PageVals] /\ promised' \in [Pages -> SUBSET PageVals]
         /\ Kept'
         /\ \A q \in Pages : cache'[q] # Secret
<1>1. /\ cache' = [cache EXCEPT ![p] = v]
      /\ promised' = [promised EXCEPT ![p] = IF @ = {} THEN {} ELSE @ \cup {v}]
  BY DEF M!Dirty
<1>2. v \in PageVals
  BY DEF PageVals
<1>3. cache' \in [Pages -> PageVals] /\ promised' \in [Pages -> SUBSET PageVals]
  BY <1>1, <1>2, Zenon DEF MemInv, MemShape
<1>4. \A q \in Pages : cache'[q] # Secret
  BY <1>1 DEF MemInv, MemShape, Pinned
<1>5. Kept'
  BY <1>1 DEF MemInv, MemShape, Kept
<1>. QED  BY <1>3, <1>4, <1>5

\* A store into the mapping, of the secret into an anonymous trusted page only.
LEMMA StoreKeeps ==
  ASSUME MemInv, NEW p, NEW v \in Vals, v = Secret => M!Anonymous /\ p \in trusted,
         M!StoreAt(p, v), UNCHANGED <<disk, swap, map, pinned, trusted>>
  PROVE  MemInv'
<1>1. CASE M!MAP_SHARED \in map.flags
  <2>1. v # Secret
    BY <1>1 DEF MemInv, MemShape, M!Anonymous, M!MAP_SHARED, M!MAP_PRIVATE, M!MAP_ANONYMOUS
  <2>2. M!Dirty(p, v) /\ UNCHANGED own
    BY <1>1 DEF M!StoreAt
  <2>. QED  BY <2>1, <2>2, DirtyKeeps DEF MemInv, MemShape, Pinned
<1>2. CASE M!MAP_SHARED \notin map.flags
  <2>1. own' = [own EXCEPT ![p] = v] /\ UNCHANGED <<cache, promised>>
    BY <1>2 DEF M!StoreAt
  <2>. QED  BY <2>1, Zenon DEF MemInv, MemShape, Kept, Pinned, PageVals
<1>. QED  BY <1>1, <1>2

LEMMA FlushKeeps ==
  ASSUME MemInv, NEW S, M!Flush(S), UNCHANGED <<cache, own, map, swap, pinned, trusted>>
  PROVE  MemInv'
  BY DEF MemInv, MemShape, Kept, Pinned, M!Flush

\* The calls of mmap.rs, and fsync and fdatasync.
LEMMA MemCalls == MemInv /\ M!Calls => MemInv'
<1>. SUFFICES ASSUME MemInv, M!Calls PROVE MemInv'
  OBVIOUS
<1>. USE DEF M!file, M!locks, M!mapping, M!observer
<1>1. ASSUME NEW prot \in {{M!PROT_READ}, {M!PROT_READ, M!PROT_WRITE}}, M!mprotect(prot)
      PROVE  MemInv'
  BY <1>1 DEF M!mprotect, MemInv, MemShape, Kept, Pinned, M!PROT_READ, M!PROT_WRITE
<1>2. ASSUME NEW prot \in {{M!PROT_READ}, {M!PROT_READ, M!PROT_WRITE}},
             NEW flags \in {{M!MAP_SHARED}, {M!MAP_PRIVATE}, {M!MAP_PRIVATE, M!MAP_ANONYMOUS}},
             M!mmap(prot, flags)
      PROVE  MemInv'
  <2>1. map' \in [live : BOOLEAN, prot : SUBSET {1, 2},
                  flags : {{}, {M!MAP_SHARED}, {M!MAP_PRIVATE}, {M!MAP_PRIVATE, M!MAP_ANONYMOUS}}]
    BY <1>2 DEF M!mmap, M!PROT_READ, M!PROT_WRITE
  <2>. QED  BY <1>2, <2>1, SecretAssumption
            DEF M!mmap, MemInv, MemShape, Kept, Pinned, PageVals
<1>3. CASE M!munmap
  BY <1>3, SecretAssumption DEF M!munmap, M!NoMap, MemInv, MemShape, Kept, Pinned, PageVals
<1>4. ASSUME NEW advice \in {M!MADV_WILLNEED, M!MADV_DONTNEED, M!MADV_FREE}, M!madvise(advice)
      PROVE  MemInv'
  <2>1. /\ UNCHANGED <<cache, disk, promised, swap, map, pinned, trusted>> /\ pinned = {}
        /\ \E gone : own' = [p \in Pages |-> IF p \notin gone THEN own[p]
                                              ELSE IF M!Anonymous THEN 0 ELSE M!None]
    BY <1>4 DEF M!madvise
  <2>. QED  BY <2>1, SecretAssumption DEF MemInv, MemShape, Kept, Pinned, PageVals
<1>5. ASSUME NEW p \in Pages, M!mlock({p})
      PROVE  MemInv'
  BY <1>5 DEF M!mlock, MemInv, MemShape, Kept, Pinned
<1>6. ASSUME NEW p \in Pages, own[p] # Secret, M!munlock({p})
      PROVE  MemInv'
  BY <1>6 DEF M!munlock, MemInv, MemShape, Kept, Pinned
<1>7. ASSUME NEW p \in Pages, NEW flags \in {M!MS_ASYNC, M!MS_SYNC}, M!msync({p}, flags)
      PROVE  MemInv'
  <2>1. CASE UNCHANGED <<disk, promised>>
    BY <1>7, <2>1 DEF M!msync, MemInv, MemShape, Kept, Pinned
  <2>2. CASE M!Flush({p})
    BY <1>7, <2>2, FlushKeeps DEF M!msync
  <2>. QED  BY <1>7, <2>1, <2>2 DEF M!msync
<1>8. CASE M!fsync \/ M!fdatasync
  BY <1>8, FlushKeeps DEF M!fsync, M!fdatasync
<1>. QED  BY <1>1, <1>2, <1>3, <1>4, <1>5, <1>6, <1>7, <1>8, Zenon DEF M!Calls

\* Everybody else: the observer, other processes, the kernel, a crash.
LEMMA MemOthers ==
  ASSUME MemInv, M!Next, ~M!Calls
  PROVE  MemInv'
<1>. USE DEF M!file, M!locks, M!mapping, M!observer
<1>1. CASE M!process_vm_readv \/ M!process_vm_writev \/ M!Return
  BY <1>1 DEF M!process_vm_readv, M!process_vm_writev, M!process_vm, M!Return,
     MemInv, MemShape, Kept, Pinned
<1>2. CASE M!Crash
  BY <1>2, SecretAssumption DEF M!Crash, M!NoMap, MemInv, MemShape, Kept, Pinned, PageVals
<1>3. ASSUME NEW v \in Vals \ {0, Secret}, M!Transfer(v)
      PROVE  MemInv'
  <2>1. CASE vm.dir = "read"
    BY <1>3, <2>1 DEF M!Transfer, MemInv, MemShape, Kept, Pinned
  <2>2. CASE vm.dir # "read"
    BY <1>3, <2>2, StoreKeeps DEF M!Transfer
  <2>. QED  BY <2>1, <2>2
<1>4. ASSUME NEW p \in Pages, M!WriteBack(p)
      PROVE  MemInv'
  BY <1>4 DEF M!WriteBack, MemInv, MemShape, Kept, Pinned
<1>5. ASSUME NEW p \in Pages, M!SwapOut(p)
      PROVE  MemInv'
  BY <1>5 DEF M!SwapOut, MemInv, MemShape, Kept, Pinned
<1>6. ASSUME NEW p \in Pages, NEW v \in Vals, M!Store(p, v)
      PROVE  MemInv'
  BY <1>6, StoreKeeps DEF M!Store
<1>7. ASSUME NEW p \in Pages, NEW v \in Vals, M!WriteFile(p, v)
      PROVE  MemInv'
  BY <1>7, DirtyKeeps DEF M!WriteFile, MemInv, MemShape, Pinned
<1>. QED  BY <1>1, <1>2, <1>3, <1>4, <1>5, <1>6, <1>7 DEF M!Next

LEMMA MemInvHolds == M!Spec => []MemInv
<1>1. MemInv /\ [M!Next]_M!vars => MemInv'
  <2>. SUFFICES ASSUME MemInv, [M!Next]_M!vars PROVE MemInv'
    OBVIOUS
  <2>1. CASE UNCHANGED M!vars
    BY <2>1 DEF M!vars, M!file, M!locks, M!mapping, MemInv, MemShape, Kept, Pinned
  <2>. QED  BY <2>1, MemCalls, MemOthers
<1>. QED  BY <1>1, MemInit, PTL DEF M!Spec

\* What fsync, fdatasync or msync with MS_SYNC covered is found after a crash,
\* or a later value of that page is: for any pages, any writers and any crashes.
THEOREM FlushIsKept == M!Spec => []FlushedSurvives
<1>1. MemInv => FlushedSurvives
  BY DEF MemInv, Kept, FlushedSurvives, M!FlushedSurvives
<1>. QED  BY <1>1, MemInvHolds, PTL

\* What is stored only in pages mlock accepted reaches neither the swap area
\* nor the file, whatever the limit is and whatever madvise and crashes do.
THEOREM SecretIsKept == M!Spec => []SecretStaysInMemory
<1>1. MemInv => SecretStaysInMemory
  BY DEF MemInv, Pinned, SecretStaysInMemory, M!SecretStaysInMemory
<1>. QED  BY <1>1, MemInvHolds, PTL

-----------------------------------------------------------------------------
(* A remote read. Its addresses are those the ranges name, as far as there  *)
(* are buffers for them, whatever the lengths of the two lists; and what it *)
(* finds in a page now is among the values the page has had.                *)

\* Induction over the natural numbers.
LEMMA Induct ==
  ASSUME NEW A, 0 \in A, \A n \in Nat : n \in A => n + 1 \in A
  PROVE  \A n \in Nat : n \in A
<1>. SUFFICES ASSUME Nat \ A # {} PROVE FALSE
  OBVIOUS
<1>. DEFINE R == OpToRel(<, Nat)
<1>1. IsWellFoundedOn(R, Nat)
  BY NatLessThanWellFounded, Zenon
<1>2. \A y, z \in Nat : y < z => <<y, z>> \in R
  BY DEF OpToRel
<1>. HIDE DEF R
<1>3. PICK x \in Nat \ A : \A y \in Nat \ A : <<y, x>> \notin R
  BY <1>1, WFMin, Zenon
<1>4. x \in Nat /\ x # 0 /\ x - 1 \in Nat /\ x - 1 < x /\ (x - 1) + 1 = x
  BY <1>3
<1>5. x - 1 \in Nat \ A
  BY <1>3, <1>4
<1>. QED  BY <1>2, <1>3, <1>4, <1>5, Zenon

\* The lengths of the first n elements of a list of segments, added up.
Sums(iov) ==
    CHOOSE f : f = [n \in 0..Len(iov) |-> IF n = 0 THEN 0 ELSE f[n - 1] + iov[n].len]

LEMMA SumsRecur ==
  ASSUME NEW iov, Len(iov) \in Nat
  PROVE  Sums(iov) = [n \in 0..Len(iov) |-> IF n = 0 THEN 0 ELSE Sums(iov)[n - 1] + iov[n].len]
<1>. DEFINE A == {m \in Nat : \E g : g = [n \in 0..m |-> IF n = 0 THEN 0 ELSE g[n - 1] + iov[n].len]}
<1>1. 0 \in A
  <2>. DEFINE g == [n \in 0..0 |-> 0]
  <2>1. g = [n \in 0..0 |-> IF n = 0 THEN 0 ELSE g[n - 1] + iov[n].len]
    OBVIOUS
  <2>. QED  BY <2>1, Zenon
<1>2. ASSUME NEW m \in Nat, m \in A PROVE m + 1 \in A
  <2>1. PICK g : g = [n \in 0..m |-> IF n = 0 THEN 0 ELSE g[n - 1] + iov[n].len]
    BY <1>2
  <2>. DEFINE h == [n \in 0..(m + 1) |-> IF n = m + 1 THEN g[m] + iov[n].len ELSE g[n]]
  <2>2. \A n \in 0..(m + 1) : h[n] = IF n = 0 THEN 0 ELSE h[n - 1] + iov[n].len
    BY <2>1
  <2>3. h = [n \in 0..(m + 1) |-> IF n = 0 THEN 0 ELSE h[n - 1] + iov[n].len]
    BY <2>2
  <2>. HIDE DEF h
  <2>. QED  BY <2>3
<1>3. Len(iov) \in A
  <2>. HIDE DEF A
  <2>. QED  BY <1>1, <1>2, Induct
<1>. QED  BY <1>3 DEF Sums

LEMMA TotalIsSum ==
  ASSUME NEW iov, Len(iov) \in Nat, \A k \in 1..Len(iov) : iov[k].len \in Nat
  PROVE  /\ M!Total(iov) = Sums(iov)[Len(iov)] /\ M!Total(iov) \in Nat
         /\ Sums(iov) \in [0..Len(iov) -> Nat]
<1>. DEFINE A == {m \in Nat : m <= Len(iov) => Sums(iov)[m] \in Nat}
<1>1. 0 \in A
  BY SumsRecur
<1>2. ASSUME NEW m \in Nat, m \in A PROVE m + 1 \in A
  <2>. SUFFICES ASSUME m + 1 <= Len(iov) PROVE Sums(iov)[m + 1] \in Nat
    OBVIOUS
  <2>1. Sums(iov)[m + 1] = Sums(iov)[m] + iov[m + 1].len
    BY SumsRecur
  <2>. QED  BY <1>2, <2>1
<1>3. \A m \in 0..Len(iov) : Sums(iov)[m] \in Nat
  <2>1. \A m \in Nat : m \in A
    <3>. HIDE DEF A
    <3>. QED  BY <1>1, <1>2, Induct
  <2>. QED  BY <2>1
<1>4. M!Total(iov) = Sums(iov)[Len(iov)]
  BY DEF M!Total, Sums
<1>5. DOMAIN Sums(iov) = 0..Len(iov) /\ Sums(iov) = [n \in 0..Len(iov) |-> Sums(iov)[n]]
  BY SumsRecur
<1>. QED  BY <1>3, <1>4, <1>5

\* The addresses of the first n ranges, one after the other.
Range(r) == [i \in 1..r.len |-> r.base + i - 1]
Ranges(remote) ==
    CHOOSE f : f = [n \in 0..Len(remote) |-> IF n = 0 THEN <<>> ELSE f[n - 1] \o Range(remote[n])]

LEMMA RangesRecur ==
  ASSUME NEW remote, Len(remote) \in Nat
  PROVE  Ranges(remote) = [n \in 0..Len(remote) |->
             IF n = 0 THEN <<>> ELSE Ranges(remote)[n - 1] \o Range(remote[n])]
<1>. DEFINE A == {m \in Nat : \E g : g = [n \in 0..m |->
                                  IF n = 0 THEN <<>> ELSE g[n - 1] \o Range(remote[n])]}
<1>1. 0 \in A
  <2>. DEFINE g == [n \in 0..0 |-> <<>>]
  <2>1. g = [n \in 0..0 |-> IF n = 0 THEN <<>> ELSE g[n - 1] \o Range(remote[n])]
    OBVIOUS
  <2>. QED  BY <2>1, Zenon
<1>2. ASSUME NEW m \in Nat, m \in A PROVE m + 1 \in A
  <2>1. PICK g : g = [n \in 0..m |-> IF n = 0 THEN <<>> ELSE g[n - 1] \o Range(remote[n])]
    BY <1>2, Zenon
  <2>. DEFINE h == [n \in 0..(m + 1) |-> IF n = m + 1 THEN g[m] \o Range(remote[n]) ELSE g[n]]
  <2>2. \A n \in 0..(m + 1) : h[n] = IF n = 0 THEN <<>> ELSE h[n - 1] \o Range(remote[n])
    BY <2>1
  <2>3. h = [n \in 0..(m + 1) |-> IF n = 0 THEN <<>> ELSE h[n - 1] \o Range(remote[n])]
    BY <2>2, Zenon
  <2>. HIDE DEF h
  <2>. QED  BY <2>3
<1>3. Len(remote) \in A
  <2>. HIDE DEF A
  <2>. QED  BY <1>1, <1>2, Induct
<1>. QED  BY <1>3, Zenon DEF Ranges

LEMMA ElementOf ==
  ASSUME NEW S, NEW s \in Seq(S), NEW k \in 1..Len(s)
  PROVE  s[k] \in S
OBVIOUS

LEMMA Joins ==
  ASSUME NEW S, NEW s \in Seq(S), NEW t \in Seq(S)
  PROVE  s \o t \in Seq(S) /\ Len(s \o t) = Len(s) + Len(t)
OBVIOUS

LEMMA RangeFits ==
  ASSUME NEW S, NEW r \in [base : Nat, len : Nat], \A i \in 1..r.len : r.base + i - 1 \in S
  PROVE  Range(r) \in Seq(S) /\ Len(Range(r)) = r.len
<1>1. r.len \in Nat /\ Range(r) \in [1..r.len -> S]
  BY DEF Range
<1>. QED  BY <1>1

\* There are as many addresses as the lengths add up to, all in the mapping.
LEMMA AddressesFit ==
  /\ M!Addresses(Remotes) \in Seq(Pages)
  /\ Len(M!Addresses(Remotes)) = M!Total(Remotes) /\ M!Total(Remotes) \in Nat
<1>. DEFINE N == Len(Remotes)
<1>1. /\ N \in Nat
      /\ \A k \in 1..N : Remotes[k] \in [base : Nat, len : Nat]
      /\ \A k \in 1..N : Remotes[k].len \in Nat
  <2>1. Remotes \in Seq([base : Nat, len : Nat])
    BY RemotesAssumption
  <2>2. N \in Nat
    BY <2>1
  <2>3. \A k \in 1..N : Remotes[k] \in [base : Nat, len : Nat]
    BY <2>1, ElementOf, Zenon
  <2>. QED  BY <2>2, <2>3
<1>. DEFINE A == {m \in Nat : m <= N => /\ Ranges(Remotes)[m] \in Seq(Pages)
                                        /\ Len(Ranges(Remotes)[m]) = Sums(Remotes)[m]}
<1>. HIDE DEF N
<1>2. /\ Ranges(Remotes) = [n \in 0..N |->
                  IF n = 0 THEN <<>> ELSE Ranges(Remotes)[n - 1] \o Range(Remotes[n])]
      /\ Sums(Remotes) = [n \in 0..N |->
                  IF n = 0 THEN 0 ELSE Sums(Remotes)[n - 1] + Remotes[n].len]
  BY <1>1, RangesRecur, SumsRecur DEF N
<1>3. 0 \in A
  <2>1. Ranges(Remotes)[0] = <<>> /\ Sums(Remotes)[0] = 0
    BY <1>1, <1>2
  <2>2. <<>> \in Seq(Pages) /\ Len(<<>>) = 0
    OBVIOUS
  <2>. QED  BY <2>1, <2>2, Zenon
<1>4. ASSUME NEW m \in Nat, m \in A PROVE m + 1 \in A
  <2>. SUFFICES ASSUME m + 1 <= N
                PROVE  /\ Ranges(Remotes)[m + 1] \in Seq(Pages)
                       /\ Len(Ranges(Remotes)[m + 1]) = Sums(Remotes)[m + 1]
    OBVIOUS
  <2>1. /\ Ranges(Remotes)[m + 1] = Ranges(Remotes)[m] \o Range(Remotes[m + 1])
        /\ Sums(Remotes)[m + 1] = Sums(Remotes)[m] + Remotes[m + 1].len
    <3>1. m + 1 \in 0..N /\ m + 1 # 0 /\ (m + 1) - 1 = m
      BY <1>1
    <3>. QED  BY <1>2, <3>1, Zenon
  <2>2. Range(Remotes[m + 1]) \in Seq(Pages) /\ Len(Range(Remotes[m + 1])) = Remotes[m + 1].len
    <3>1. m + 1 \in 1..N
      BY <1>1
    <3>2. \A i \in 1..Remotes[m + 1].len : Remotes[m + 1].base + i - 1 \in Pages
      BY <3>1, RemotesAssumption DEF N
    <3>. QED  BY <1>1, <3>1, <3>2, RangeFits, Zenon
  <2>3. Ranges(Remotes)[m] \in Seq(Pages) /\ Len(Ranges(Remotes)[m]) = Sums(Remotes)[m]
    BY <1>1, <1>4
  <2>4. /\ Ranges(Remotes)[m + 1] \in Seq(Pages)
        /\ Len(Ranges(Remotes)[m + 1]) = Len(Ranges(Remotes)[m]) + Len(Range(Remotes[m + 1]))
    BY <2>1, <2>2, <2>3, Joins, Zenon
  <2>. QED  BY <2>1, <2>2, <2>3, <2>4
<1>5. \A m \in Nat : m \in A
  <2>. HIDE DEF A
  <2>. QED  BY <1>3, <1>4, Induct
<1>6. Ranges(Remotes)[N] \in Seq(Pages) /\ Len(Ranges(Remotes)[N]) = Sums(Remotes)[N]
  BY <1>1, <1>5
<1>7. M!Addresses(Remotes) = Ranges(Remotes)[N]
  BY DEF M!Addresses, Ranges, Range, N
<1>8. M!Total(Remotes) = Sums(Remotes)[N] /\ M!Total(Remotes) \in Nat
  BY <1>1, TotalIsSum DEF N
<1>. QED  BY <1>6, <1>7, <1>8

Matches == M!Matched(M!IoSliceMut(Locals), Remotes)

\* The shorter of the two lists decides.
LEMMA MatchesFit ==
  /\ Matches \in Seq(Pages)
  /\ Len(Matches) = M!Least(M!Total(M!IoSliceMut(Locals)), M!Total(Remotes))
<1>1. M!Total(M!IoSliceMut(Locals)) \in Nat
  <2>1. Len(Locals) \in Nat /\ DOMAIN Locals = 1..Len(Locals)
        /\ \A k \in 1..Len(Locals) : Locals[k] \in Nat
    BY RemotesAssumption
  <2>2. /\ Len(M!IoSliceMut(Locals)) = Len(Locals)
        /\ \A k \in 1..Len(Locals) : M!IoSliceMut(Locals)[k].len = Locals[k]
    BY <2>1 DEF M!IoSliceMut
  <2>. QED  BY <2>1, <2>2, TotalIsSum
<1>. DEFINE s == M!Addresses(Remotes)
            n == M!Total(M!IoSliceMut(Locals))
<1>2. Matches = SubSeq(s, 1, IF n < Len(s) THEN n ELSE Len(s))
  BY <1>1, AddressesFit DEF Matches, M!Matched, M!Part
<1>3. s \in Seq(Pages) /\ Len(s) = M!Total(Remotes) /\ Len(s) \in Nat /\ n \in Nat
  BY <1>1, AddressesFit
<1>. HIDE DEF s, n
<1>4. /\ Matches \in Seq(Pages)
      /\ Len(Matches) = IF n < Len(s) THEN n ELSE Len(s)
  BY <1>2, <1>3
<1>. QED  BY <1>3, <1>4 DEF M!Least, n

\* The call under way, and what its pages hold now.
VMs == [dir : {"none", "read", "write"}, addrs : Seq(Pages), done : Seq(PageVals)]

RemoteShape ==
    /\ MemShape
    /\ vm \in VMs
    /\ held = [i \in 1..Len(vm.addrs) |-> held[i]]
    /\ vm.dir = "none" => vm.addrs = <<>> /\ vm.done = <<>>
    /\ vm.dir # "none" => map.live /\ vm.addrs = Matches

Taken ==
    /\ \A i \in 1..Len(vm.addrs) : M!View(vm.addrs[i]) \in held[i]
    /\ vm.dir = "read" => /\ Len(vm.done) <= Len(vm.addrs)
                          /\ \A i \in 1..Len(vm.done) : vm.done[i] \in held[i]

RemoteInv == RemoteShape /\ Taken

\* No call is under way.
LEMMA NoCall ==
  ASSUME MemShape', vm' = M!Idle, held' = <<>>
  PROVE  RemoteInv'
<1>1. /\ vm'.dir = "none" /\ vm'.addrs = <<>> /\ vm'.done = <<>> /\ Len(vm'.addrs) = 0
      /\ vm' \in VMs
  BY DEF M!Idle, VMs
<1>2. held' = [i \in 1..0 |-> held'[i]]
  OBVIOUS
<1>. QED  BY <1>1, <1>2 DEF RemoteInv, RemoteShape, Taken

\* A step that changes no page the process sees.
LEMMA SameView ==
  ASSUME RemoteInv, MemShape', UNCHANGED <<cache, own, vm, held>>, map.live => map'.live
  PROVE  RemoteInv'
BY Zenon DEF RemoteInv, RemoteShape, Taken, M!View

\* A step that changes one, and is watched; the call may write its page.
LEMMA NewView ==
  ASSUME RemoteInv, MemShape', M!Watch, UNCHANGED map,
         vm' \in VMs,
         vm'.dir = vm.dir, vm'.addrs = vm.addrs,
         vm'.done = vm.done \/ vm.dir = "write"
  PROVE  RemoteInv'
<1>1. held' = [i \in 1..Len(vm.addrs) |-> held[i] \cup {M!View(vm.addrs[i])'}]
  <2>1. DOMAIN held = 1..Len(vm.addrs)
    BY DEF RemoteInv, RemoteShape
  <2>. QED  BY <2>1 DEF M!Watch
<1>2. \A i \in 1..Len(vm.addrs) : /\ M!View(vm.addrs[i])' \in held'[i]
                                  /\ held[i] \subseteq held'[i]
  BY <1>1
<1>3. RemoteShape'
  BY <1>1 DEF RemoteInv, RemoteShape
<1>4. Len(vm.addrs) \in Nat /\ Len(vm.done) \in Nat
  BY DEF RemoteInv, RemoteShape
<1>5. Taken'
  BY <1>2, <1>4 DEF RemoteInv, Taken
<1>. QED  BY <1>3, <1>5 DEF RemoteInv

LEMMA RemoteCalls ==
  ASSUME RemoteInv, MemInv', M!Calls
  PROVE  RemoteInv'
<1>0. MemShape'
  BY DEF MemInv
<1>. USE DEF M!file, M!locks, M!mapping, M!observer
<1>1. ASSUME NEW prot, M!mprotect(prot)
      PROVE  RemoteInv'
  <2>1. map.live /\ map'.live
    BY <1>1 DEF M!mprotect, RemoteInv, RemoteShape, MemShape
  <2>. QED  BY <1>0, <1>1, <2>1, SameView DEF M!mprotect
<1>2. ASSUME NEW prot, NEW flags, M!mmap(prot, flags)
      PROVE  RemoteInv'
  <2>1. vm.dir = "none" /\ UNCHANGED <<vm, held>>
    BY <1>2 DEF M!mmap, RemoteInv, RemoteShape
  <2>. QED  BY <1>0, <2>1 DEF RemoteInv, RemoteShape, Taken
<1>3. CASE M!munmap
  BY <1>0, <1>3, NoCall DEF M!munmap
<1>4. ASSUME NEW advice, M!madvise(advice)
      PROVE  RemoteInv'
  <2>1. UNCHANGED <<map, vm>> /\ M!Watch
    BY <1>4 DEF M!madvise
  <2>. QED  BY <1>0, <2>1, NewView DEF RemoteInv, RemoteShape
<1>5. ASSUME NEW p, M!mlock({p}) \/ M!munlock({p})
      PROVE  RemoteInv'
  BY <1>0, <1>5, SameView DEF M!mlock, M!munlock
<1>6. ASSUME NEW p, NEW flags, M!msync({p}, flags)
      PROVE  RemoteInv'
  BY <1>0, <1>6, SameView DEF M!msync
<1>7. CASE M!fsync \/ M!fdatasync
  BY <1>0, <1>7, SameView DEF M!fsync, M!fdatasync
<1>. QED  BY <1>1, <1>2, <1>3, <1>4, <1>5, <1>6, <1>7, Zenon DEF M!Calls

\* A call begins with what its pages hold.
LEMMA RemoteBegins ==
  ASSUME RemoteInv, MemInv', NEW dir \in {"read", "write"}, M!process_vm(dir, Matches)
  PROVE  RemoteInv'
<1>. USE DEF M!file, M!locks, M!mapping
<1>1. /\ map.live /\ vm' = [dir |-> dir, addrs |-> Matches, done |-> <<>>]
      /\ held' = [i \in DOMAIN Matches |-> {M!View(Matches[i])}]
      /\ UNCHANGED <<cache, own, map>>
  BY DEF M!process_vm
<1>2. Matches \in Seq(Pages) /\ DOMAIN Matches = 1..Len(Matches) /\ Len(Matches) \in Nat
  BY MatchesFit
<1>3. /\ vm' \in VMs
      /\ vm'.dir = dir /\ vm'.addrs = Matches /\ vm'.done = <<>> /\ Len(vm'.done) = 0
  BY <1>1, <1>2 DEF VMs
<1>4. \A i \in 1..Len(Matches) : M!View(Matches[i])' = M!View(Matches[i])
  BY <1>1 DEF M!View
<1>5. \A i \in 1..Len(Matches) : M!View(vm.addrs[i])' \in held'[i]
  BY <1>1, <1>2, <1>3, <1>4 DEF M!View
<1>6. held' = [i \in 1..Len(Matches) |-> held'[i]]
  BY <1>1, <1>2
<1>. QED  BY <1>1, <1>2, <1>3, <1>5, <1>6 DEF RemoteInv, RemoteShape, Taken, MemInv

LEMMA MovesOne ==
  ASSUME vm \in VMs, NEW x \in PageVals, vm' = [vm EXCEPT !.done = Append(@, x)]
  PROVE  /\ vm' \in VMs
         /\ vm'.dir = vm.dir /\ vm'.addrs = vm.addrs /\ vm'.done = Append(vm.done, x)
<1>1. /\ vm.dir \in {"none", "read", "write"} /\ vm.addrs \in Seq(Pages)
      /\ vm.done \in Seq(PageVals)
  BY DEF VMs
<1>2. vm' = [dir |-> vm.dir, addrs |-> vm.addrs, done |-> Append(vm.done, x)]
  BY Zenon DEF VMs
<1>3. Append(vm.done, x) \in Seq(PageVals)
  BY <1>1
<1>. QED  BY <1>1, <1>2, <1>3, Zenon DEF VMs

\* It takes or writes one page.
LEMMA RemoteMoves ==
  ASSUME RemoteInv, MemInv', NEW v \in Vals, M!Transfer(v)
  PROVE  RemoteInv'
<1>. USE DEF M!file, M!locks, M!mapping
<1>. DEFINE n == Len(vm.done) + 1
            p == vm.addrs[n]
<1>1. /\ vm \in VMs /\ Len(vm.done) \in Nat /\ n <= Len(vm.addrs) /\ Len(vm.addrs) \in Nat
      /\ vm.dir # "none" /\ n \in 1..Len(vm.addrs)
  BY DEF RemoteInv, RemoteShape, M!Transfer, VMs
<1>2. CASE vm.dir = "read"
  <2>1. /\ vm' = [vm EXCEPT !.done = Append(@, M!View(p))]
        /\ UNCHANGED <<cache, own, map, held>>
    BY <1>2 DEF M!Transfer
  <2>2. p \in Pages
    BY <1>1 DEF VMs
  <2>3. M!View(p) \in PageVals
    BY <2>2 DEF RemoteInv, RemoteShape, MemShape, M!View
  <2>4. /\ vm' \in VMs /\ vm'.dir = "read" /\ vm'.addrs = vm.addrs
        /\ vm'.done = Append(vm.done, M!View(p))
    BY <1>1, <1>2, <2>1, <2>3, MovesOne, Zenon
  <2>5. /\ Len(vm'.done) = n
        /\ \A i \in 1..n : vm'.done[i] = IF i = n THEN M!View(p) ELSE vm.done[i]
    BY <1>1, <2>4
  <2>6. \A i \in 1..n : vm'.done[i] \in held[i]
    BY <1>1, <1>2, <2>5 DEF RemoteInv, Taken
  <2>7. RemoteShape'
    BY <2>1, <2>4 DEF RemoteInv, RemoteShape, MemInv
  <2>8. \A i \in 1..Len(vm'.addrs) : M!View(vm.addrs[i])' \in held'[i]
    BY <2>1, <2>4 DEF RemoteInv, Taken, M!View
  <2>. QED  BY <1>1, <2>1, <2>4, <2>5, <2>6, <2>7, <2>8 DEF RemoteInv, Taken
<1>3. CASE vm.dir # "read"
  <2>1. vm' = [vm EXCEPT !.done = Append(@, v)] /\ UNCHANGED map /\ M!Watch
    BY <1>3 DEF M!Transfer
  <2>2. /\ vm' \in VMs /\ vm'.dir = vm.dir /\ vm'.addrs = vm.addrs /\ vm.dir = "write"
    <3>1. v \in PageVals
      BY DEF PageVals
    <3>2. vm.dir = "write"
      BY <1>1, <1>3 DEF VMs
    <3>. QED  BY <1>1, <2>1, <3>1, <3>2, MovesOne
  <2>. QED  BY <2>1, <2>2, NewView DEF MemInv
<1>. QED  BY <1>2, <1>3

\* However the segments of the two lists are cut and whatever the process does
\* meanwhile, process_vm_readv moves as many pages as the shorter list names and
\* takes from each a value it had during the call.
THEOREM RemoteRead == M!Spec => []RemoteReadMatches
<1>. USE DEF M!file, M!locks, M!mapping, M!observer
<1>1. M!Init => RemoteInv
  <2>. SUFFICES ASSUME M!Init PROVE RemoteInv
    OBVIOUS
  <2>1. MemShape /\ vm = M!Idle /\ held = <<>>
    BY MemInit DEF MemInv, M!Init
  <2>2. /\ vm.dir = "none" /\ vm.addrs = <<>> /\ vm.done = <<>> /\ Len(vm.addrs) = 0
        /\ vm \in VMs
    BY <2>1 DEF M!Idle, VMs
  <2>3. held = [i \in 1..0 |-> held[i]]
    BY <2>1
  <2>. QED  BY <2>1, <2>2, <2>3 DEF RemoteInv, RemoteShape, Taken
<1>2. MemInv /\ MemInv' /\ RemoteInv /\ [M!Next]_M!vars => RemoteInv'
  <2>. SUFFICES ASSUME MemInv', RemoteInv, [M!Next]_M!vars PROVE RemoteInv'
    OBVIOUS
  <2>0. MemShape'
    BY DEF MemInv
  <2>1. CASE UNCHANGED M!vars
    BY <2>0, <2>1, SameView DEF M!vars
  <2>2. CASE M!process_vm_readv \/ M!process_vm_writev
    BY <2>2, RemoteBegins DEF M!process_vm_readv, M!process_vm_writev, Matches
  <2>3. CASE M!Return
    BY <2>0, <2>3, NoCall DEF M!Return
  <2>4. CASE M!Crash
    BY <2>0, <2>4, NoCall DEF M!Crash
  <2>5. ASSUME NEW p \in Pages, M!WriteBack(p) \/ M!SwapOut(p)
        PROVE  RemoteInv'
    BY <2>0, <2>5, SameView DEF M!WriteBack, M!SwapOut
  <2>6. ASSUME NEW p \in Pages, NEW v \in Vals, M!Store(p, v) \/ M!WriteFile(p, v)
        PROVE  RemoteInv'
    <3>1. UNCHANGED <<map, vm>> /\ M!Watch
      BY <2>6 DEF M!Store, M!WriteFile
    <3>. QED  BY <2>0, <3>1, NewView DEF RemoteInv, RemoteShape
  <2>. QED  BY <2>1, <2>2, <2>3, <2>4, <2>5, <2>6, RemoteCalls, RemoteMoves DEF M!Next
<1>3. RemoteInv => RemoteReadMatches
  BY MatchesFit, Zenon DEF RemoteInv, RemoteShape, Taken, RemoteReadMatches, M!RemoteReadMatches
<1>. QED  BY <1>1, <1>2, <1>3, MemInvHolds, PTL DEF M!Spec

-----------------------------------------------------------------------------
(* FdTable. A thread takes free numbers only and gives up its own only; a   *)
(* running openpty's master is not among the numbers its thread was given.  *)

LEMMA LowestIn ==
  ASSUME NEW S \in SUBSET Nat, S # {}
  PROVE  D!Lowest(S) \in S
<1>. DEFINE R == OpToRel(<, Nat)
<1>1. IsWellFoundedOn(R, Nat)
  BY NatLessThanWellFounded, Zenon
<1>. HIDE DEF R
<1>2. PICK x \in S : \A y \in S : <<y, x>> \notin R
  BY <1>1, WFMin, Zenon
<1>3. ASSUME NEW y \in Nat, NEW z \in Nat, y < z  PROVE <<y, z>> \in R
  BY <1>3 DEF R, OpToRel
<1>4. ASSUME NEW y \in S  PROVE x <= y
  <2>1. x \in Nat /\ y \in Nat
    OBVIOUS
  <2>2. ~(y < x)
    BY <1>2, <1>3, <2>1, Zenon
  <2>. QED  BY <2>1, <2>2
<1>. QED  BY <1>4, Zenon DEF D!Lowest

FdShape ==
    /\ table \in [Fds -> D!Object \cup {D!Free}]
    /\ fpc \in [Threads -> {"idle", "unlock", "number", "slave", "cleanup"}]
    /\ master \in [Threads -> Fds \cup {D!None}]
    /\ owned \in [Threads -> SUBSET Fds]

MasterApart == \A t \in Threads : fpc[t] # "idle" => master[t] \in Fds \ owned[t]

FdInv == FdShape /\ MasterApart /\ D!Accounted

LEMMA HoldsOpen ==
  ASSUME FdInv, NEW t \in Threads
  PROVE  D!Holds(t) \subseteq D!Open(table) /\ D!FreeFds \cap D!Holds(t) = {}
  BY DEF FdInv, D!Accounted, D!FreeFds

\* A thread that takes numbers nobody holds, or its own again.
LEMMA TakesNumbers ==
  ASSUME FdInv, NEW t \in Threads, NEW S \in SUBSET (D!FreeFds \cup D!Holds(t)),
         D!Open(table)' = D!Open(table) \cup S, D!Holds(t)' = D!Holds(t) \cup S,
         \A u \in Threads \ {t} : D!Holds(u)' = D!Holds(u)
  PROVE  D!Accounted'
<1>1. \A u \in Threads : D!Holds(u) \subseteq D!Open(table) /\ D!FreeFds \cap D!Holds(u) = {}
  BY HoldsOpen
<1>2. /\ D!Open(table) = UNION {D!Holds(u) : u \in Threads}
      /\ \A u, v \in Threads : u # v => D!Holds(u) \cap D!Holds(v) = {}
  BY DEF FdInv, D!Accounted
<1>3. D!Open(table)' = UNION {D!Holds(u)' : u \in Threads}
  BY <1>2
<1>4. \A u, v \in Threads : u # v => D!Holds(u)' \cap D!Holds(v)' = {}
  BY <1>1, <1>2
<1>. QED  BY <1>3, <1>4 DEF D!Accounted

\* A thread that gives up one of its numbers.
LEMMA GivesUp ==
  ASSUME FdInv, NEW t \in Threads, NEW fd \in D!Holds(t),
         D!Open(table)' = D!Open(table) \ {fd}, D!Holds(t)' = D!Holds(t) \ {fd},
         \A u \in Threads \ {t} : D!Holds(u)' = D!Holds(u)
  PROVE  D!Accounted'
<1>1. /\ D!Open(table) = UNION {D!Holds(u) : u \in Threads}
      /\ \A u, v \in Threads : u # v => D!Holds(u) \cap D!Holds(v) = {}
  BY DEF FdInv, D!Accounted
<1>2. D!Open(table)' = UNION {D!Holds(u)' : u \in Threads}
  BY <1>1
<1>3. \A u, v \in Threads : u # v => D!Holds(u)' \cap D!Holds(v)' = {}
  BY <1>1
<1>. QED  BY <1>2, <1>3 DEF D!Accounted

LEMMA FdInit == D!Init => FdInv
<1>. SUFFICES ASSUME D!Init PROVE FdInv
  OBVIOUS
<1>1. FdShape /\ MasterApart
  BY DEF D!Init, FdShape, MasterApart
<1>2. \A t \in Threads : D!Holds(t) = {}
  BY Zenon DEF D!Init, D!Holds
<1>3. D!Open(table) = {}
  BY DEF D!Init, D!Open
<1>. QED  BY <1>1, <1>2, <1>3 DEF FdInv, D!Accounted

\* The table after one number was given an object.
LEMMA PutOne ==
  ASSUME FdShape, NEW fd \in Fds, NEW object \in D!Object, table' = [table EXCEPT ![fd] = object]
  PROVE  table' \in [Fds -> D!Object \cup {D!Free}] /\ D!Open(table)' = D!Open(table) \cup {fd}
<1>1. object # D!Free
  BY DEF D!Object, D!Free
<1>. QED  BY <1>1 DEF FdShape, D!Open

\* A call of an idle thread that puts an object at a number that is free or
\* its own.
LEMMA GainOne ==
  ASSUME FdInv, NEW t \in Threads, fpc[t] = "idle", UNCHANGED <<fpc, master>>,
         NEW fd \in D!FreeFds \cup owned[t], NEW object \in D!Object,
         table' = [table EXCEPT ![fd] = object], D!Gains(t, {fd})
  PROVE  FdInv'
<1>1. FdShape /\ MasterApart /\ fd \in Fds
  BY DEF FdInv, FdShape, D!FreeFds
<1>2. table' \in [Fds -> D!Object \cup {D!Free}] /\ D!Open(table)' = D!Open(table) \cup {fd}
  BY <1>1, PutOne, Zenon
<1>3. FdShape' /\ MasterApart'
  BY <1>1, <1>2 DEF FdShape, MasterApart, D!Gains
<1>4. /\ D!Holds(t)' = D!Holds(t) \cup {fd}
      /\ \A u \in Threads \ {t} : D!Holds(u)' = D!Holds(u)
      /\ owned[t] \subseteq D!Holds(t)
  BY <1>1 DEF D!Holds, D!Gains, FdShape
<1>5. {fd} \in SUBSET (D!FreeFds \cup D!Holds(t))
  BY <1>4
<1>6. D!Accounted'
  BY <1>2, <1>4, <1>5, TakesNumbers, Zenon
<1>. QED  BY <1>3, <1>6 DEF FdInv

\* A step that leaves numbers and holders as they are.
LEMMA NothingMoves ==
  ASSUME FdInv, UNCHANGED <<table, fpc, master, owned>>
  PROVE  FdInv'
  BY DEF FdInv, FdShape, MasterApart, D!Accounted, D!Open, D!Holds

LEMMA NewFdStep ==
  ASSUME FdInv, NEW t \in Threads, fpc[t] = "idle", UNCHANGED <<fpc, master>>,
         NEW op, NEW args, NEW object \in D!Object, D!NewFd(t, op, args, object)
  PROVE  FdInv'
<1>1. CASE D!FreeFds = {}
  BY <1>1, NothingMoves DEF D!NewFd, D!Refuse
<1>2. CASE D!FreeFds # {}
  <2>1. D!Lowest(D!FreeFds) \in D!FreeFds
    BY <1>2, FdsAssumption, LowestIn DEF D!FreeFds
  <2>2. /\ table' = [table EXCEPT ![D!Lowest(D!FreeFds)] = object]
        /\ D!Gains(t, {D!Lowest(D!FreeFds)})
    BY <1>2 DEF D!NewFd
  <2>. QED  BY <2>1, <2>2, GainOne, Zenon
<1>. QED  BY <1>1, <1>2

LEMMA DupDifferentStep ==
  ASSUME FdInv, NEW t \in Threads, fpc[t] = "idle", UNCHANGED <<fpc, master>>,
         NEW op, NEW o, NEW n \in D!Usable(t), NEW c \in BOOLEAN, D!DupDifferent(t, op, o, n, c)
  PROVE  FdInv'
<1>1. CASE ~D!IsOpen(table, o) \/ n \notin Fds
  BY <1>1, NothingMoves DEF D!DupDifferent, D!Refuse
<1>2. CASE D!IsOpen(table, o) /\ n \in Fds
  <2>1. n \in D!FreeFds \cup owned[t]
    BY <1>2, FdsAssumption DEF D!Usable, D!None
  <2>2. table[o] \in D!Object
    BY <1>2 DEF D!IsOpen, FdInv, FdShape
  <2>3. [table[o] EXCEPT !.cloexec = c] \in D!Object
    BY <2>2 DEF D!Object
  <2>4. table' = [table EXCEPT ![n] = [table[o] EXCEPT !.cloexec = c]] /\ D!Gains(t, {n})
    BY <1>2 DEF D!DupDifferent, D!DupOnto
  <2>. QED  BY <2>1, <2>3, <2>4, GainOne, Zenon
<1>. QED  BY <1>1, <1>2

LEMMA Pipe2Step ==
  ASSUME FdInv, NEW t \in Threads, fpc[t] = "idle", UNCHANGED <<fpc, master>>,
         NEW c \in BOOLEAN, D!pipe2(t, c)
  PROVE  FdInv'
<1>. DEFINE r == D!Lowest(D!FreeFds)
            w == D!Lowest(D!FreeFds \ {r})
            end == [D!Plain("pipe") EXCEPT !.cloexec = c]
<1>1. CASE D!FreeFds = {} \/ D!FreeFds = {r}
  BY <1>1, NothingMoves DEF D!pipe2, D!Refuse
<1>2. CASE D!FreeFds # {} /\ D!FreeFds # {r}
  <2>1. D!FreeFds \in SUBSET Nat
    BY FdsAssumption, Zenon DEF D!FreeFds
  <2>2. r \in D!FreeFds
    BY <1>2, <2>1, LowestIn
  <2>3. w \in D!FreeFds \ {r}
    <3>. HIDE DEF r
    <3>1. D!FreeFds \ {r} # {} /\ D!FreeFds \ {r} \in SUBSET Nat
      BY <1>2, <2>1, <2>2
    <3>. QED  BY <3>1, LowestIn
  <2>4. table' = [table EXCEPT ![r] = end, ![w] = end] /\ D!Gains(t, {r, w})
    BY <1>2, Zenon DEF D!pipe2
  <2>5. end \in D!Object /\ end # D!Free
    BY DEF D!Plain, D!Object, D!Free
  <2>. HIDE DEF r, w, end
  <2>6. /\ FdShape /\ MasterApart /\ r \in Fds /\ w \in Fds
    BY <2>2, <2>3 DEF FdInv, D!FreeFds
  <2>7. table' \in [Fds -> D!Object \cup {D!Free}] /\ D!Open(table)' = D!Open(table) \cup {r, w}
    BY <2>4, <2>5, <2>6 DEF FdShape, D!Open
  <2>8. FdShape' /\ MasterApart'
    BY <2>4, <2>6, <2>7 DEF FdShape, MasterApart, D!Gains
  <2>9. /\ D!Holds(t)' = D!Holds(t) \cup {r, w}
        /\ \A u \in Threads \ {t} : D!Holds(u)' = D!Holds(u)
    BY <2>4, <2>6 DEF D!Holds, D!Gains, FdShape
  <2>10. {r, w} \in SUBSET (D!FreeFds \cup D!Holds(t))
    BY <2>2, <2>3
  <2>11. D!Accounted'
    BY <2>7, <2>9, <2>10, TakesNumbers, Zenon
  <2>. QED  BY <2>8, <2>11 DEF FdInv
<1>. QED  BY <1>1, <1>2

LEMMA CloseStep ==
  ASSUME FdInv, NEW t \in Threads, fpc[t] = "idle", UNCHANGED <<fpc, master>>,
         NEW fd \in owned[t], D!close(t, fd)
  PROVE  FdInv'
<1>1. /\ FdShape /\ MasterApart /\ fd \in Fds
      /\ table' = [table EXCEPT ![fd] = D!Free] /\ owned' = [owned EXCEPT ![t] = @ \ {fd}]
  BY DEF FdInv, FdShape, D!close
<1>2. D!Open(table)' = D!Open(table) \ {fd} /\ table' \in [Fds -> D!Object \cup {D!Free}]
  BY <1>1 DEF FdShape, D!Open
<1>3. FdShape' /\ MasterApart'
  BY <1>1, <1>2 DEF FdShape, MasterApart
<1>4. /\ fd \in D!Holds(t) /\ D!Holds(t)' = D!Holds(t) \ {fd}
      /\ \A u \in Threads \ {t} : D!Holds(u)' = D!Holds(u)
  BY <1>1 DEF D!Holds, FdShape
<1>. QED  BY <1>2, <1>3, <1>4, GivesUp DEF FdInv

LEMMA SetFdStep ==
  ASSUME FdInv, NEW t \in Threads, UNCHANGED <<fpc, master>>,
         NEW fd \in owned[t], NEW c \in BOOLEAN, D!fcntl_setfd(t, fd, c)
  PROVE  FdInv'
<1>1. /\ FdShape /\ fd \in Fds /\ UNCHANGED owned
      /\ table' = [table EXCEPT ![fd] = [@ EXCEPT !.cloexec = c]]
  BY DEF FdInv, FdShape, D!fcntl_setfd
<1>2. fd \in D!Open(table)
  BY HoldsOpen DEF D!Holds
<1>3. table[fd] \in D!Object
  BY <1>1, <1>2 DEF D!Open, FdShape
<1>4. [table[fd] EXCEPT !.cloexec = c] \in D!Object
  BY <1>3 DEF D!Object
<1>5. table' \in [Fds -> D!Object \cup {D!Free}] /\ D!Open(table)' = D!Open(table) \cup {fd}
  BY <1>1, <1>4, PutOne, ZenonT(30)
<1>6. D!Open(table)' = D!Open(table)
  BY <1>2, <1>5
<1>7. \A u \in Threads : D!Holds(u)' = D!Holds(u)
  BY <1>1 DEF D!Holds
<1>8. FdShape' /\ MasterApart'
  BY <1>1, <1>5 DEF FdInv, FdShape, MasterApart
<1>9. D!Accounted'
  BY <1>6, <1>7 DEF FdInv, D!Accounted
<1>. QED  BY <1>8, <1>9 DEF FdInv

LEMMA CallStep ==
  ASSUME FdInv, NEW t \in Threads, D!Call(t)
  PROVE  FdInv'
<1>1. fpc[t] = "idle" /\ UNCHANGED <<fpc, master>>
  BY DEF D!Call, D!Begin
<1>2. ASSUME NEW c \in BOOLEAN, D!open(t, c)  PROVE  FdInv'
  <2>1. [D!Plain("file") EXCEPT !.cloexec = c] \in D!Object
    BY DEF D!Plain, D!Object
  <2>. QED  BY <1>1, <1>2, <2>1, NewFdStep DEF D!open
<1>3. ASSUME NEW o \in D!Usable(t), D!dup(t, o)  PROVE  FdInv'
  <2>1. CASE ~D!IsOpen(table, o)
    BY <1>1, <1>3, <2>1, NothingMoves DEF D!dup, D!Refuse
  <2>2. CASE D!IsOpen(table, o)
    <3>1. table[o] \in D!Object
      BY <2>2 DEF D!IsOpen, FdInv, FdShape
    <3>2. [table[o] EXCEPT !.cloexec = FALSE] \in D!Object
      BY <3>1, Zenon DEF D!Object
    <3>. QED  BY <1>1, <1>3, <2>2, <3>2, NewFdStep DEF D!dup
  <2>. QED  BY <2>1, <2>2
<1>4. ASSUME NEW o \in D!Usable(t), NEW n \in D!Usable(t), D!dup2(t, o, n)  PROVE  FdInv'
  <2>1. CASE o = n
    BY <1>1, <1>4, <2>1, NothingMoves DEF D!dup2, D!SysDup2, D!Refuse
  <2>2. CASE o # n
    BY <1>1, <1>4, <2>2, DupDifferentStep, Zenon DEF D!dup2, D!SysDup2
  <2>. QED  BY <2>1, <2>2
<1>5. ASSUME NEW o \in D!Usable(t), NEW n \in D!Usable(t), NEW c \in BOOLEAN, D!dup3(t, o, n, c)
      PROVE  FdInv'
  <2>1. CASE o = n
    BY <1>1, <1>5, <2>1, NothingMoves DEF D!dup3, D!Refuse
  <2>2. CASE o # n
    BY <1>1, <1>5, <2>2, DupDifferentStep DEF D!dup3
  <2>. QED  BY <2>1, <2>2
<1>. QED  BY <1>1, <1>2, <1>3, <1>4, <1>5, Pipe2Step, CloseStep, SetFdStep, ZenonT(30) DEF D!Call

LEMMA OpenMasterStep ==
  ASSUME FdInv, NEW t \in Threads, D!OpenMaster(t)
  PROVE  FdInv'
<1>. DEFINE fd == D!Lowest(D!FreeFds)
<1>1. fpc[t] = "idle" /\ FdShape /\ MasterApart
  BY DEF D!OpenMaster, D!Begin, FdInv
<1>2. CASE UNCHANGED <<table, owned, fpc, master>>
  BY <1>2, NothingMoves
<1>3. ASSUME D!FreeFds # {}, NEW n \in PtyNumbers,
             table' = [table EXCEPT ![fd] = D!Pty("master", n)],
             master' = [master EXCEPT ![t] = fd], D!Goto(t, "unlock"), UNCHANGED owned
      PROVE  FdInv'
  <2>1. fd \in D!FreeFds
    BY <1>3, FdsAssumption, LowestIn DEF D!FreeFds
  <2>. HIDE DEF fd
  <2>2. fd \in Fds /\ D!Pty("master", n) \in D!Object
    BY <2>1 DEF D!FreeFds, D!Pty, D!Object
  <2>3. table' \in [Fds -> D!Object \cup {D!Free}] /\ D!Open(table)' = D!Open(table) \cup {fd}
    BY <1>1, <1>3, <2>2, PutOne, ZenonT(30)
  <2>4. /\ fpc' = [fpc EXCEPT ![t] = "unlock"]
        /\ D!Holds(t) = owned[t] /\ D!Holds(t)' = D!Holds(t) \cup {fd}
        /\ \A u \in Threads \ {t} : D!Holds(u)' = D!Holds(u)
    BY <1>1, <1>3 DEF D!Goto, D!Holds, FdShape
  <2>5. fd \notin owned[t]
    BY <2>1, <2>4, HoldsOpen
  <2>6. FdShape' /\ MasterApart'
    BY <1>1, <1>3, <2>2, <2>3, <2>4, <2>5 DEF FdShape, MasterApart
  <2>7. {fd} \in SUBSET (D!FreeFds \cup D!Holds(t))
    BY <2>1
  <2>8. D!Accounted'
    BY <2>3, <2>4, <2>7, TakesNumbers, ZenonT(30)
  <2>. QED  BY <2>6, <2>8 DEF FdInv
<1>. QED  BY <1>2, <1>3 DEF D!OpenMaster, D!Refuse

\* openpty goes on, or gives up, without touching the table.
LEMMA GoesOn ==
  ASSUME FdInv, NEW t \in Threads, fpc[t] # "idle", NEW p \in {"number", "slave", "cleanup"},
         D!Goto(t, p), UNCHANGED <<table, master, owned>>
  PROVE  FdInv'
<1>1. fpc' = [fpc EXCEPT ![t] = p] /\ p # "idle" /\ FdShape
  BY DEF D!Goto, FdInv
<1>2. \A u \in Threads : D!Holds(u)' = D!Holds(u)
  BY <1>1 DEF D!Holds, FdShape
<1>3. FdShape' /\ MasterApart'
  BY <1>1 DEF FdInv, FdShape, MasterApart
<1>. QED  BY <1>2, <1>3 DEF FdInv, D!Accounted, D!Open

LEMMA OpenSlaveStep ==
  ASSUME FdInv, NEW t \in Threads, D!OpenSlave(t)
  PROVE  FdInv'
<1>. DEFINE n == D!Named(D!format_pts_path(ptn[t]))
            fd == D!Lowest(D!FreeFds)
<1>1. fpc[t] = "slave" /\ FdShape /\ MasterApart
  BY DEF D!OpenSlave, FdInv
<1>2. CASE D!StepFails(t)
  BY <1>1, <1>2, GoesOn DEF D!StepFails
<1>3. ASSUME D!FreeFds # {}, D!HasMaster(n), table' = [table EXCEPT ![fd] = D!Pty("slave", n)],
             D!Gains(t, {master[t], fd}), master' = [master EXCEPT ![t] = D!None], D!Goto(t, "idle")
      PROVE  FdInv'
  <2>1. fd \in D!FreeFds
    BY <1>3, FdsAssumption, LowestIn DEF D!FreeFds
  <2>. HIDE DEF fd, n
  <2>2. n \in PtyNumbers \cup {D!None}
    BY <1>1, <1>3 DEF D!HasMaster, FdShape, D!Object, D!Free
  <2>3. fd \in Fds /\ D!Pty("slave", n) \in D!Object
    BY <2>1, <2>2 DEF D!FreeFds, D!Pty, D!Object
  <2>4. table' \in [Fds -> D!Object \cup {D!Free}] /\ D!Open(table)' = D!Open(table) \cup {fd}
    BY <1>1, <1>3, <2>3, PutOne, ZenonT(30)
  <2>5. /\ fpc' = [fpc EXCEPT ![t] = "idle"]
        /\ owned' = [owned EXCEPT ![t] = @ \cup {master[t], fd}] /\ master[t] \in Fds
    BY <1>1, <1>3 DEF D!Goto, D!Gains, MasterApart
  <2>6. /\ D!Holds(t)' = D!Holds(t) \cup {fd}
        /\ \A u \in Threads \ {t} : D!Holds(u)' = D!Holds(u)
    BY <1>1, <1>3, <2>5 DEF D!Holds, FdShape
  <2>7. FdShape' /\ MasterApart'
    BY <1>1, <1>3, <2>3, <2>4, <2>5 DEF FdShape, MasterApart
  <2>8. {fd} \in SUBSET (D!FreeFds \cup D!Holds(t))
    BY <2>1
  <2>9. D!Accounted'
    BY <2>4, <2>6, <2>8, TakesNumbers, Zenon
  <2>. QED  BY <2>7, <2>9 DEF FdInv
<1>. QED  BY <1>2, <1>3, ZenonT(30) DEF D!OpenSlave

LEMMA CleanupStep ==
  ASSUME FdInv, NEW t \in Threads, D!Cleanup(t)
  PROVE  FdInv'
<1>1. /\ fpc[t] = "cleanup" /\ FdShape /\ MasterApart /\ master[t] \in Fds \ owned[t]
      /\ table' = [table EXCEPT ![master[t]] = D!Free] /\ master' = [master EXCEPT ![t] = D!None]
      /\ fpc' = [fpc EXCEPT ![t] = "idle"] /\ UNCHANGED owned
  BY DEF D!Cleanup, D!Goto, FdInv, MasterApart
<1>2. D!Open(table)' = D!Open(table) \ {master[t]} /\ table' \in [Fds -> D!Object \cup {D!Free}]
  BY <1>1 DEF FdShape, D!Open
<1>3. FdShape' /\ MasterApart'
  BY <1>1, <1>2 DEF FdShape, MasterApart
<1>4. /\ master[t] \in D!Holds(t) /\ D!Holds(t)' = D!Holds(t) \ {master[t]}
      /\ \A u \in Threads \ {t} : D!Holds(u)' = D!Holds(u)
  BY <1>1 DEF D!Holds, FdShape
<1>. QED  BY <1>2, <1>3, <1>4, GivesUp DEF FdInv

LEMMA FdInvHolds == D!Spec => []FdInv
<1>1. FdInv /\ [D!Next]_(D!vars) => FdInv'
  <2>. SUFFICES ASSUME FdInv, [D!Next]_(D!vars) PROVE FdInv'
    OBVIOUS
  <2>1. CASE UNCHANGED D!vars
    BY <2>1, NothingMoves DEF D!vars
  <2>2. ASSUME NEW t \in Threads, D!Unlock(t) \/ D!GetNumber(t)  PROVE  FdInv'
    BY <2>2, GoesOn DEF D!Unlock, D!GetNumber, D!StepFails
  <2>. QED  BY <2>1, <2>2, CallStep, OpenMasterStep, OpenSlaveStep, CleanupStep DEF D!Next,
                D!openpty
<1>. QED  BY <1>1, FdInit, PTL DEF D!Spec

\* No number leaks and none is closed for somebody else: for any threads, any
\* table and any numbering of the terminals, whatever step of openpty fails.
THEOREM NumbersAccounted == D!Spec => []Accounted
<1>1. FdInv => Accounted
  BY DEF FdInv, Accounted
<1>. QED  BY <1>1, FdInvHolds, PTL

-----------------------------------------------------------------------------
(* The pair openpty returns. The path's digits name the number they were    *)
(* made from, and the master stays what it was opened as, since nobody else *)
(* holds its number.                                                        *)

\* The digits of every number up to n; the last one, then the others.
Put(m, others) == IF m < 10 THEN <<m>> ELSE <<m % 10>> \o others
AllDigits(n) == CHOOSE f : f = [m \in 0..n |-> Put(m, f[m \div 10])]

LEMMA Tenth ==
  ASSUME NEW m \in Nat, m >= 10
  PROVE  /\ m \div 10 \in Nat /\ m \div 10 < m /\ m % 10 \in 0..9
         /\ 10 * (m \div 10) + (m % 10) = m
OBVIOUS

LEMMA DigitsRecur ==
  ASSUME NEW n \in Nat
  PROVE  AllDigits(n) = [m \in 0..n |-> Put(m, AllDigits(n)[m \div 10])]
<1>. DEFINE A == {k \in Nat : \E g : g = [m \in 0..k |-> Put(m, g[m \div 10])]}
<1>1. 0 \in A
  <2>. DEFINE g == [m \in 0..0 |-> <<m>>]
  <2>1. g = [m \in 0..0 |-> Put(m, g[m \div 10])]
    BY DEF Put
  <2>. HIDE DEF g
  <2>. QED  BY <2>1
<1>2. ASSUME NEW k \in Nat, k \in A PROVE k + 1 \in A
  <2>1. PICK g : g = [m \in 0..k |-> Put(m, g[m \div 10])]
    BY <1>2
  <2>. DEFINE h == [m \in 0..(k + 1) |-> IF m = k + 1 THEN Put(m, g[m \div 10]) ELSE g[m]]
  <2>2. \A m \in 0..k : h[m] = g[m] /\ g[m] = Put(m, g[m \div 10])
    BY <2>1
  <2>3. h[k + 1] = Put(k + 1, g[(k + 1) \div 10])
    OBVIOUS
  <2>4. h = [m \in 0..(k + 1) |-> h[m]]
    OBVIOUS
  <2>. HIDE DEF h
  <2>5. ASSUME NEW m \in 0..(k + 1)
        PROVE  h[m] = Put(m, h[m \div 10])
    <3>1. h[m] = Put(m, g[m \div 10])
      BY <2>2, <2>3
    <3>2. CASE m < 10
      BY <3>1, <3>2 DEF Put
    <3>3. CASE m >= 10
      <4>1. m \div 10 \in 0..k
        BY <3>3, Tenth
      <4>. QED  BY <2>2, <3>1, <4>1
    <3>. QED  BY <3>2, <3>3
  <2>6. h = [m \in 0..(k + 1) |-> Put(m, h[m \div 10])]
    BY <2>4, <2>5, Zenon
  <2>7. k + 1 \in Nat
    OBVIOUS
  <2>. QED  BY <2>6, <2>7, Zenon
<1>3. n \in A
  <2>. HIDE DEF A
  <2>. QED  BY <1>1, <1>2, Induct
<1>. QED  BY <1>3 DEF AllDigits

\* The values of the beginnings of a path, as the kernel reads it.
Values(path) ==
    CHOOSE f : f = [i \in 0..Len(path) |-> IF i = 0 THEN 0 ELSE 10 * f[i - 1] + path[i]]

LEMMA ValuesRecur ==
  ASSUME NEW path, Len(path) \in Nat
  PROVE  Values(path) = [i \in 0..Len(path) |->
                           IF i = 0 THEN 0 ELSE 10 * Values(path)[i - 1] + path[i]]
<1>. DEFINE A == {k \in Nat : \E g : g = [i \in 0..k |-> IF i = 0 THEN 0
                                                        ELSE 10 * g[i - 1] + path[i]]}
<1>1. 0 \in A
  <2>. DEFINE g == [i \in 0..0 |-> 0]
  <2>1. g = [i \in 0..0 |-> IF i = 0 THEN 0 ELSE 10 * g[i - 1] + path[i]]
    OBVIOUS
  <2>. HIDE DEF g
  <2>. QED  BY <2>1
<1>2. ASSUME NEW k \in Nat, k \in A PROVE k + 1 \in A
  <2>1. PICK g : g = [i \in 0..k |-> IF i = 0 THEN 0 ELSE 10 * g[i - 1] + path[i]]
    BY <1>2
  <2>. DEFINE h == [i \in 0..(k + 1) |-> IF i = k + 1 THEN 10 * g[k] + path[i] ELSE g[i]]
  <2>2. \A i \in 0..(k + 1) : h[i] = IF i = 0 THEN 0 ELSE 10 * h[i - 1] + path[i]
    BY <2>1
  <2>3. h = [i \in 0..(k + 1) |-> IF i = 0 THEN 0 ELSE 10 * h[i - 1] + path[i]]
    BY <2>2
  <2>. HIDE DEF h
  <2>4. k + 1 \in Nat
    OBVIOUS
  <2>. QED  BY <2>3, <2>4, Zenon
<1>3. Len(path) \in A
  <2>. HIDE DEF A
  <2>. QED  BY <1>1, <1>2, Induct
<1>. QED  BY <1>3, Zenon DEF Values

\* One digit more.
LEMMA NamedAppend ==
  ASSUME NEW path \in Seq(Nat), NEW x \in Nat
  PROVE  D!Named(Append(path, x)) = 10 * D!Named(path) + x
<1>. DEFINE n == Len(path)
            q == Append(path, x)
<1>1. n \in Nat /\ Len(q) = n + 1 /\ q[n + 1] = x /\ \A i \in 1..n : q[i] = path[i]
  OBVIOUS
<1>2. D!Named(path) = Values(path)[n] /\ D!Named(q) = Values(q)[Len(q)]
  BY DEF D!Named, Values
<1>. HIDE DEF n, q
<1>3. /\ Values(path) = [i \in 0..n |-> IF i = 0 THEN 0 ELSE 10 * Values(path)[i - 1] + path[i]]
      /\ Values(q) = [i \in 0..(n + 1) |-> IF i = 0 THEN 0 ELSE 10 * Values(q)[i - 1] + q[i]]
  <2>1. Len(q) \in Nat
    BY <1>1
  <2>2. Values(q) = [i \in 0..Len(q) |-> IF i = 0 THEN 0 ELSE 10 * Values(q)[i - 1] + q[i]]
    BY <2>1, ValuesRecur, Zenon
  <2>3. Values(path) = [i \in 0..n |-> IF i = 0 THEN 0 ELSE 10 * Values(path)[i - 1] + path[i]]
    BY <1>1, ValuesRecur, Zenon DEF n
  <2>. QED  BY <1>1, <2>2, <2>3
<1>. DEFINE A == {i \in Nat : i <= n => Values(q)[i] = Values(path)[i]}
<1>4. 0 \in A
  BY <1>1, <1>3
<1>5. ASSUME NEW i \in Nat, i \in A PROVE i + 1 \in A
  <2>. SUFFICES ASSUME i + 1 <= n PROVE Values(q)[i + 1] = Values(path)[i + 1]
    OBVIOUS
  <2>1. /\ i + 1 \in 0..n /\ i + 1 \in 0..(n + 1) /\ i + 1 \in 1..n /\ i + 1 # 0
        /\ (i + 1) - 1 = i /\ i <= n
    BY <1>1
  <2>2. /\ Values(path)[i + 1] = 10 * Values(path)[i] + path[i + 1]
        /\ Values(q)[i + 1] = 10 * Values(q)[i] + q[i + 1]
    BY <1>3, <2>1, Zenon
  <2>. QED  BY <1>1, <1>5, <2>1, <2>2
<1>6. \A i \in Nat : i \in A
  <2>. HIDE DEF A
  <2>. QED  BY <1>4, <1>5, Induct
<1>7. Values(q)[n] = Values(path)[n]
  BY <1>1, <1>6
<1>8. Values(q)[n + 1] = 10 * Values(q)[n] + q[n + 1]
  <2>1. n + 1 \in 0..(n + 1) /\ n + 1 # 0 /\ (n + 1) - 1 = n
    BY <1>1
  <2>. QED  BY <1>3, <2>1
<1>. QED  BY <1>1, <1>2, <1>7, <1>8 DEF q

Reversed(d) == [i \in 1..Len(d) |-> d[Len(d) + 1 - i]]

LEMMA SameSeq ==
  ASSUME NEW S, NEW s \in Seq(S), NEW f, DOMAIN f = 1..Len(s), f = [i \in DOMAIN f |-> f[i]],
         \A i \in 1..Len(s) : f[i] = s[i]
  PROVE  f = s
<1>1. s = [i \in 1..Len(s) |-> s[i]]
  OBVIOUS
<1>. QED  BY <1>1

LEMMA ReverseLast ==
  ASSUME NEW s \in Seq(Nat), NEW x \in Nat
  PROVE  /\ <<x>> \o s \in Seq(Nat) /\ Reversed(s) \in Seq(Nat)
         /\ Reversed(<<x>> \o s) = Append(Reversed(s), x)
<1>. DEFINE d == <<x>> \o s
            n == Len(s)
<1>1. /\ n \in Nat /\ d \in Seq(Nat) /\ Len(d) = n + 1 /\ d[1] = x
      /\ \A i \in 2..(n + 1) : d[i] = s[i - 1]
  OBVIOUS
<1>. HIDE DEF d, n
<1>2. Reversed(s) \in [1..n -> Nat]
  BY <1>1 DEF Reversed, n
<1>3. Reversed(s) \in Seq(Nat) /\ Len(Reversed(s)) = n
  BY <1>1, <1>2
<1>4. \A i \in 1..n : Append(Reversed(s), x)[i] = s[n + 1 - i]
  BY <1>1, <1>3 DEF Reversed, n
<1>5. /\ Append(Reversed(s), x) \in Seq(Nat) /\ Len(Append(Reversed(s), x)) = n + 1
      /\ Append(Reversed(s), x)[n + 1] = x
  BY <1>1, <1>3
<1>6. \A i \in 1..n : d[(n + 1) + 1 - i] = s[n + 1 - i]
  <2>. SUFFICES ASSUME NEW i \in 1..n PROVE d[(n + 1) + 1 - i] = s[n + 1 - i]
    OBVIOUS
  <2>1. (n + 1) + 1 - i \in 2..(n + 1) /\ ((n + 1) + 1 - i) - 1 = n + 1 - i
    BY <1>1
  <2>. QED  BY <1>1, <2>1
<1>7. Reversed(d) = [i \in 1..(n + 1) |-> d[(n + 1) + 1 - i]]
  BY <1>1 DEF Reversed
<1>8. \A i \in 1..(n + 1) : Reversed(d)[i] = Append(Reversed(s), x)[i]
  <2>1. (n + 1) + 1 - (n + 1) = 1 /\ n + 1 \in 1..(n + 1)
    BY <1>1
  <2>. QED  BY <1>1, <1>4, <1>5, <1>6, <1>7, <2>1
<1>9. Reversed(d) = Append(Reversed(s), x)
  <2>1. DOMAIN Reversed(d) = 1..(n + 1) /\ Reversed(d) = [i \in DOMAIN Reversed(d) |-> Reversed(d)[i]]
    BY <1>7
  <2>. QED  BY <1>5, <1>8, <2>1, SameSeq
<1>. QED  BY <1>1, <1>3, <1>9, Zenon DEF d

\* The path format_pts_path makes of a number names that number.
LEMMA PathNames ==
  ASSUME NEW n \in Nat
  PROVE  D!Named(D!format_pts_path(n)) = n
<1>. DEFINE d == AllDigits(n)
            Good(m) == d[m] \in Seq(Nat) /\ D!Named(Reversed(d[m])) = m
            A == {k \in Nat : \A m \in 0..k : m <= n => Good(m)}
<1>1. D!format_pts_path(n) = Reversed(d[n])
  BY DEF D!format_pts_path, D!Digits, AllDigits, Put, Reversed
<1>2. d = [m \in 0..n |-> Put(m, d[m \div 10])]
  BY DigitsRecur
<1>3. D!Named(<<>>) = 0 /\ <<>> \in Seq(Nat)
  <2>1. Len(<<>>) = 0
    OBVIOUS
  <2>2. D!Named(<<>>) = Values(<<>>)[0]
    BY <2>1 DEF D!Named, Values
  <2>3. Values(<<>>) = [i \in 0..0 |-> IF i = 0 THEN 0 ELSE 10 * Values(<<>>)[i - 1] + <<>>[i]]
    BY <2>1, ValuesRecur
  <2>. QED  BY <2>2, <2>3
<1>. HIDE DEF d
<1>4. ASSUME NEW m \in 0..n, m < 10 PROVE Good(m)
  <2>1. d[m] = <<m>> \o <<>>
    BY <1>2, <1>4 DEF Put
  <2>2. Reversed(<<>>) = <<>>
    BY DEF Reversed
  <2>3. m \in Nat /\ d[m] \in Seq(Nat) /\ Reversed(d[m]) = Append(<<>>, m)
    <3>1. m \in Nat
      OBVIOUS
    <3>2. /\ <<m>> \o <<>> \in Seq(Nat)
          /\ Reversed(<<m>> \o <<>>) = Append(Reversed(<<>>), m)
      BY <1>3, <3>1, ReverseLast, Zenon
    <3>. QED  BY <2>1, <2>2, <3>1, <3>2, Zenon
  <2>4. D!Named(Append(<<>>, m)) = 10 * D!Named(<<>>) + m
    BY <1>3, <2>3, NamedAppend, Zenon
  <2>. QED  BY <1>3, <2>3, <2>4
<1>5. ASSUME NEW m \in 0..n, m >= 10, Good(m \div 10) PROVE Good(m)
  <2>. DEFINE o == d[m \div 10]
              x == m % 10
  <2>1. m \in Nat /\ x \in Nat /\ 10 * (m \div 10) + x = m
    BY <1>5, Tenth
  <2>2. d[m] = <<x>> \o o
    <3>1. d[m] = Put(m, d[m \div 10])
      BY <1>2
    <3>. QED  BY <1>5, <2>1, <3>1 DEF Put
  <2>3. o \in Seq(Nat) /\ D!Named(Reversed(o)) = m \div 10
    BY <1>5
  <2>. HIDE DEF o, x
  <2>4. d[m] \in Seq(Nat) /\ Reversed(o) \in Seq(Nat) /\ Reversed(d[m]) = Append(Reversed(o), x)
    BY <2>1, <2>2, <2>3, ReverseLast
  <2>5. D!Named(Append(Reversed(o), x)) = 10 * D!Named(Reversed(o)) + x
    BY <2>1, <2>4, NamedAppend
  <2>. QED  BY <2>1, <2>3, <2>4, <2>5
<1>. HIDE DEF Good
<1>6. 0 \in A
  BY <1>4
<1>7. ASSUME NEW k \in Nat, k \in A PROVE k + 1 \in A
  <2>. SUFFICES ASSUME k + 1 <= n PROVE Good(k + 1)
    BY <1>7
  <2>1. CASE k + 1 < 10
    BY <1>4, <2>1
  <2>2. CASE k + 1 >= 10
    <3>1. k + 1 \in 0..n /\ (k + 1) \div 10 \in 0..k /\ (k + 1) \div 10 <= n
      BY <2>2, Tenth
    <3>2. Good((k + 1) \div 10)
      BY <1>7, <3>1
    <3>. QED  BY <1>5, <2>2, <3>1, <3>2
  <2>. QED  BY <2>1, <2>2
<1>8. n \in A
  <2>. HIDE DEF A
  <2>. QED  BY <1>6, <1>7, Induct
<1>. QED  BY <1>1, <1>8 DEF Good

\* A number that is open and another thread's stays what it is.
Untouched(t) == \A fd \in Fds : fd \notin D!FreeFds \cup D!Holds(t) => table'[fd] = table[fd]

LEMMA PutsOne ==
  ASSUME FdInv, NEW t, NEW fd \in D!FreeFds \cup D!Holds(t), NEW object,
         table' = [table EXCEPT ![fd] = object]
  PROVE  Untouched(t)
BY DEF Untouched, FdInv, FdShape

LEMMA LowestFree ==
  ASSUME D!FreeFds # {}
  PROVE  D!Lowest(D!FreeFds) \in D!FreeFds
BY FdsAssumption, LowestIn DEF D!FreeFds

LEMMA CallTouches ==
  ASSUME FdInv, NEW t \in Threads, D!Call(t)
  PROVE  Untouched(t)
<1>1. fpc[t] = "idle" /\ owned[t] \subseteq D!Holds(t)
  BY DEF D!Call, D!Begin, D!Holds
<1>2. CASE UNCHANGED table
  BY <1>2 DEF Untouched
<1>3. ASSUME NEW op, NEW args, NEW object, D!NewFd(t, op, args, object)
      PROVE  Untouched(t)
  <2>1. CASE D!FreeFds = {}
    BY <1>2, <1>3, <2>1 DEF D!NewFd, D!Refuse
  <2>2. CASE D!FreeFds # {}
    <3>1. table' = [table EXCEPT ![D!Lowest(D!FreeFds)] = object]
      BY <1>3, <2>2 DEF D!NewFd
    <3>. QED  BY <2>2, <3>1, LowestFree, PutsOne, Zenon
  <2>. QED  BY <2>1, <2>2
<1>4. ASSUME NEW c, D!pipe2(t, c)
      PROVE  Untouched(t)
  <2>. DEFINE r == D!Lowest(D!FreeFds)
              w == D!Lowest(D!FreeFds \ {r})
              end == [D!Plain("pipe") EXCEPT !.cloexec = c]
  <2>1. CASE D!FreeFds = {} \/ D!FreeFds = {r}
    BY <1>2, <1>4, <2>1 DEF D!pipe2, D!Refuse
  <2>2. CASE D!FreeFds # {} /\ D!FreeFds # {r}
    <3>1. r \in D!FreeFds
      BY <2>2, LowestFree
    <3>2. table' = [table EXCEPT ![r] = end, ![w] = end]
      BY <1>4, <2>2, Zenon DEF D!pipe2
    <3>. HIDE DEF r, end
    <3>3. D!FreeFds \ {r} # {} /\ D!FreeFds \ {r} \in SUBSET Nat
      BY <2>2, <3>1, FdsAssumption, Zenon DEF D!FreeFds
    <3>4. w \in D!FreeFds
      BY <3>3, LowestIn
    <3>. HIDE DEF w
    <3>. QED  BY <3>1, <3>2, <3>4 DEF Untouched, FdInv, FdShape
  <2>. QED  BY <2>1, <2>2
<1>5. ASSUME NEW op, NEW o, NEW n \in D!Usable(t), NEW c, D!DupDifferent(t, op, o, n, c)
      PROVE  Untouched(t)
  <2>1. CASE UNCHANGED table
    BY <1>2, <2>1
  <2>2. CASE n \in Fds /\ D!DupOnto(t, op, o, n, c)
    <3>1. n \in D!FreeFds \cup D!Holds(t)
      BY <1>1, <2>2, FdsAssumption DEF D!Usable, D!None
    <3>. QED  BY <2>2, <3>1, PutsOne, Zenon DEF D!DupOnto
  <2>. QED  BY <1>5, <2>1, <2>2 DEF D!DupDifferent, D!Refuse
<1>6. ASSUME NEW o \in D!Usable(t), NEW n \in D!Usable(t), NEW c,
             D!dup(t, o) \/ D!dup2(t, o, n) \/ D!dup3(t, o, n, c)
      PROVE  Untouched(t)
  BY <1>2, <1>3, <1>5, <1>6, Zenon DEF D!dup, D!dup2, D!dup3, D!SysDup2, D!Refuse
<1>7. ASSUME NEW fd \in owned[t], NEW c, D!close(t, fd) \/ D!fcntl_setfd(t, fd, c)
      PROVE  Untouched(t)
  BY <1>1, <1>7, PutsOne DEF D!close, D!fcntl_setfd
<1>. QED  BY <1>3, <1>4, <1>6, <1>7, Zenon DEF D!Call, D!open

\* The master of an unfinished openpty is one, and the number asked for is its.
Begun(t) ==
    /\ table[master[t]].kind = "master" /\ table[master[t]].pty \in PtyNumbers
    /\ fpc[t] = "slave" => ptn[t] = table[master[t]].pty

Numbered ==
    /\ ptn = [t \in Threads |-> ptn[t]]
    /\ \A t \in Threads : fpc[t] # "idle" => Begun(t)

LEMMA OthersBegun ==
  ASSUME FdInv, Numbered, NEW t \in Threads, Untouched(t), NEW u \in Threads, u # t,
         fpc'[u] = fpc[u], master'[u] = master[u], ptn'[u] = ptn[u], fpc[u] # "idle"
  PROVE  Begun(u)'
<1>1. master[u] \in Fds /\ master[u] \in D!Holds(u)
  BY DEF FdInv, MasterApart, D!Holds
<1>2. master[u] \notin D!FreeFds \cup D!Holds(t)
  BY <1>1, HoldsOpen DEF FdInv, D!Accounted
<1>3. table'[master[u]] = table[master[u]]
  BY <1>1, <1>2 DEF Untouched
<1>. QED  BY <1>3 DEF Numbered, Begun

\* A thread's step concerns itself only.
LEMMA OwnStep ==
  ASSUME FdInv, Numbered, NEW t \in Threads, Untouched(t),
         NEW p, NEW m, NEW n, fpc' = [fpc EXCEPT ![t] = p], master' = [master EXCEPT ![t] = m],
         ptn' = [ptn EXCEPT ![t] = n],
         p # "idle" => Begun(t)'
  PROVE  Numbered'
<1>1. \A u \in Threads \ {t} : fpc'[u] = fpc[u] /\ master'[u] = master[u] /\ ptn'[u] = ptn[u]
  BY DEF FdInv, FdShape, Numbered
<1>2. fpc'[t] = p /\ ptn' = [u \in Threads |-> ptn'[u]]
  BY DEF FdInv, FdShape, Numbered
<1>3. \A u \in Threads \ {t} : fpc'[u] # "idle" => Begun(u)'
  BY <1>1, OthersBegun
<1>. QED  BY <1>2, <1>3 DEF Numbered

LEMMA NumberedStep ==
  ASSUME FdInv, Numbered, NEW t \in Threads, D!Call(t) \/ D!openpty(t)
  PROVE  Numbered'
<1>. DEFINE fd == D!Lowest(D!FreeFds)
<1>0. FdShape /\ ptn = [u \in Threads |-> ptn[u]]
  BY DEF FdInv, Numbered
<1>1. CASE D!Call(t)
  <2>1. fpc[t] = "idle" /\ UNCHANGED <<fpc, master, ptn>> /\ Untouched(t)
    BY <1>1, CallTouches, ZenonT(30) DEF D!Call, D!Begin
  <2>2. \A u \in Threads : fpc[u] # "idle" => u # t /\ Begun(u)'
    BY <2>1, OthersBegun, Zenon
  <2>. QED  BY <2>1, <2>2 DEF Numbered
<1>2. CASE UNCHANGED <<table, fpc, master, ptn>>
  BY <1>2 DEF Numbered, Begun
<1>3. ASSUME UNCHANGED <<table, master>>, fpc[t] # "idle", NEW p, D!Goto(t, p),
             NEW n, ptn' = [ptn EXCEPT ![t] = n], p = "slave" => n = table[master[t]].pty
      PROVE  Numbered'
  <2>1. fpc' = [fpc EXCEPT ![t] = p] /\ Untouched(t) /\ master' = [master EXCEPT ![t] = master[t]]
    BY <1>0, <1>3 DEF D!Goto, Untouched, FdShape
  <2>2. Begun(t)'
    BY <1>0, <1>3, <2>1 DEF Numbered, Begun, FdShape
  <2>. QED  BY <1>3, <2>1, <2>2, OwnStep, ZenonT(30)
<1>4. CASE D!Unlock(t) \/ D!GetNumber(t) \/ (fpc[t] = "slave" /\ D!StepFails(t))
  <2>1. ptn = [ptn EXCEPT ![t] = ptn[t]]
    BY <1>0, ZenonT(30)
  <2>2. fpc[t] # "idle" /\ UNCHANGED <<table, master>>
    BY <1>4, Zenon DEF D!Unlock, D!GetNumber, D!StepFails
  <2>3. CASE (D!Goto(t, "number") \/ D!Goto(t, "cleanup")) /\ UNCHANGED ptn
    <3>1. ptn' = [ptn EXCEPT ![t] = ptn[t]]
      BY <2>1, <2>3
    <3>2. PICK p \in {"number", "cleanup"} : D!Goto(t, p)
      BY <2>3
    <3>3. p # "slave"
      BY <3>2
    <3>. QED  BY <1>3, <2>2, <3>1, <3>2, <3>3, Zenon
  <2>4. CASE D!Goto(t, "slave") /\ ptn' = [ptn EXCEPT ![t] = table[master[t]].pty]
    BY <1>3, <2>2, <2>4, Zenon
  <2>. QED  BY <1>4, <2>3, <2>4, Zenon DEF D!Unlock, D!GetNumber, D!StepFails
<1>5. ASSUME D!FreeFds # {}, NEW k \in PtyNumbers, UNCHANGED ptn,
             table' = [table EXCEPT ![fd] = D!Pty("master", k)],
             master' = [master EXCEPT ![t] = fd], D!Goto(t, "unlock")
      PROVE  Numbered'
  <2>1. fd \in D!FreeFds /\ fd \in Fds
    BY <1>5, LowestFree DEF D!FreeFds
  <2>. HIDE DEF fd
  <2>2. Untouched(t) /\ table'[fd] = D!Pty("master", k)
    BY <1>0, <1>5, <2>1, PutsOne, Zenon DEF FdShape
  <2>3. /\ fpc' = [fpc EXCEPT ![t] = "unlock"] /\ ptn' = [ptn EXCEPT ![t] = ptn[t]]
        /\ fpc'[t] = "unlock" /\ master'[t] = fd
    BY <1>0, <1>5 DEF D!Goto, FdShape
  <2>4. Begun(t)'
    BY <2>2, <2>3 DEF Begun, D!Pty
  <2>. QED  BY <1>5, <2>2, <2>3, <2>4, OwnStep, Zenon
<1>6. CASE D!OpenMaster(t)
  BY <1>2, <1>5, <1>6 DEF D!OpenMaster, D!Refuse
<1>7. ASSUME NEW g \in D!FreeFds \cup D!Holds(t), NEW object, D!Goto(t, "idle"),
             table' = [table EXCEPT ![g] = object], master' = [master EXCEPT ![t] = D!None],
             ptn' = [ptn EXCEPT ![t] = D!None]
      PROVE  Numbered'
  <2>1. Untouched(t) /\ fpc' = [fpc EXCEPT ![t] = "idle"]
    BY <1>7, PutsOne, Zenon DEF D!Goto
  <2>. QED  BY <1>7, <2>1, OwnStep, Zenon
<1>8. CASE D!OpenSlave(t)
  <2>1. CASE D!StepFails(t)
    BY <1>4, <1>8, <2>1, Zenon DEF D!OpenSlave
  <2>2. CASE ~D!StepFails(t)
    <3>1. /\ D!FreeFds # {} /\ D!Goto(t, "idle")
          /\ \E object : table' = [table EXCEPT ![fd] = object]
          /\ master' = [master EXCEPT ![t] = D!None] /\ ptn' = [ptn EXCEPT ![t] = D!None]
      BY <1>8, <2>2, Zenon DEF D!OpenSlave
    <3>2. fd \in D!FreeFds
      BY <3>1, LowestFree
    <3>. QED  BY <1>7, <3>1, <3>2, Zenon
  <2>. QED  BY <2>1, <2>2
<1>9. CASE D!Cleanup(t)
  <2>1. master[t] \in D!Holds(t)
    BY <1>9, Zenon DEF D!Cleanup, D!Holds
  <2>. QED  BY <1>7, <1>9, <2>1, Zenon DEF D!Cleanup
<1>. QED  BY <1>1, <1>4, <1>6, <1>8, <1>9 DEF D!openpty

\* What openpty returns.
LEMMA PairStep ==
  ASSUME FdInv, Numbered, [D!Next]_(D!vars), NEW t \in Threads, fpc[t] = "slave", fpc'[t] = "idle"
  PROVE  LET m == did'.args[1]
             s == did'.args[2]
         IN  /\ m = master[t] /\ m # s
             /\ table'[m].kind = "master" /\ table'[s].kind = "slave"
             /\ table'[m].pty = table'[s].pty
<1>. DEFINE n == D!Named(D!format_pts_path(ptn[t]))
            fd == D!Lowest(D!FreeFds)
<1>0. FdShape
  BY DEF FdInv
<1>1. D!OpenSlave(t) /\ ~D!StepFails(t)
  <2>1. fpc' # fpc
    OBVIOUS
  <2>2. PICK u \in Threads : D!Call(u) \/ D!openpty(u)
    BY <2>1 DEF D!Next, D!vars
  <2>3. \E p : fpc' = [fpc EXCEPT ![u] = p]
    BY <2>1, <2>2, Zenon DEF D!Call, D!openpty, D!OpenMaster, D!Unlock, D!GetNumber, D!OpenSlave,
       D!Cleanup, D!StepFails, D!Goto
  <2>4. u = t
    BY <1>0, <2>3 DEF FdShape
  <2>5. D!openpty(t) /\ ~D!Cleanup(t) /\ ~D!OpenMaster(t) /\ ~D!Unlock(t) /\ ~D!GetNumber(t)
    BY <2>1, <2>2, <2>4, Zenon DEF D!Call, D!OpenMaster, D!Begin, D!Unlock, D!GetNumber, D!Cleanup
  <2>6. ~D!StepFails(t)
    BY <1>0 DEF D!StepFails, D!Goto, FdShape
  <2>. QED  BY <2>5, <2>6 DEF D!openpty
<1>2. /\ D!FreeFds # {} /\ table' = [table EXCEPT ![fd] = D!Pty("slave", n)]
      /\ D!Did("openpty", <<master[t], fd>>, 0)
  BY <1>1, Zenon DEF D!OpenSlave
<1>3. table[master[t]].kind = "master" /\ ptn[t] = table[master[t]].pty /\ ptn[t] \in Nat
  BY PtyAssumption DEF Numbered, Begun
<1>4. n = ptn[t]
  BY <1>3, PathNames
<1>5. fd \in D!FreeFds /\ fd \in Fds
  BY <1>2, LowestFree DEF D!FreeFds
<1>6. master[t] \in Fds /\ master[t] \notin D!FreeFds
  BY HoldsOpen DEF FdInv, MasterApart, D!Holds
<1>. HIDE DEF n, fd
<1>7. did'.args = <<master[t], fd>>
  BY <1>2 DEF D!Did
<1>8. table'[master[t]] = table[master[t]] /\ table'[fd] = D!Pty("slave", n)
  BY <1>0, <1>2, <1>5, <1>6 DEF FdShape
<1>9. table'[fd].kind = "slave" /\ table'[fd].pty = n
  BY <1>8 DEF D!Pty
<1>10. did'.args[1] = master[t] /\ did'.args[2] = fd /\ master[t] # fd
  BY <1>5, <1>6, <1>7
<1>. QED  BY <1>3, <1>4, <1>8, <1>9, <1>10, Zenon

\* openpty returns the two ends of one pseudo-terminal, for any numbers of
\* terminals and descriptors and whatever other threads open and close meanwhile.
THEOREM PairIsOne == D!Spec => PtyPair
<1>1. D!Init => Numbered
  BY DEF D!Init, Numbered
<1>2. FdInv /\ Numbered /\ [D!Next]_(D!vars) => Numbered'
  <2>. SUFFICES ASSUME FdInv, Numbered, [D!Next]_(D!vars) PROVE Numbered'
    OBVIOUS
  <2>1. CASE UNCHANGED D!vars
    BY <2>1 DEF D!vars, Numbered, Begun
  <2>. QED  BY <2>1, NumberedStep DEF D!Next
<1>3. FdInv /\ Numbered /\ [D!Next]_(D!vars) =>
        [\A t \in Threads : fpc[t] = "slave" /\ fpc'[t] = "idle" =>
           LET m == did'.args[1]
               s == did'.args[2]
           IN  /\ m = master[t] /\ m # s
               /\ table'[m].kind = "master" /\ table'[s].kind = "slave"
               /\ table'[m].pty = table'[s].pty]_(D!vars)
  BY PairStep
<1>. QED  BY <1>1, <1>2, <1>3, FdInvHolds, PTL DEF D!Spec, PtyPair, D!PtyPair

-----------------------------------------------------------------------------
(* ChildWatch. MaskRestored speaks of the moments when no handler runs; the *)
(* invariant says what the first of the nested handlers will put back.      *)

Chld == SIGCHLD - 1
Early == {"install", "int", "block"}
Guarded == {"open", "check", "wait", "restore"}

\* The mask m is the one the shell's own code has where it is.
Proper(m) ==
    /\ pc \in Early => m \in {{}, {SIGINT - 1}}
    /\ pc \in Guarded => m = old \cup {Chld}
    /\ pc = "suspended" => m = old
    /\ pc = "done" => m = old \ {Chld}

Frames == [sig : Signals, mask : Masks]

WatchShape ==
    /\ pc \in Early \cup Guarded \cup {"suspended", "done"}
    /\ frames \in Seq(Frames)
    /\ mask \in Masks /\ old \in Masks /\ saved \in Masks

Unwinds ==
    /\ frames = <<>> => Proper(mask)
    /\ frames # <<>> => Proper(frames[1].mask)
    /\ pc = "suspended" => frames = <<>> /\ saved = old \cup {Chld}
    /\ pc \notin Early \cup {"done"} => Chld \notin old

\* A signal whose handler has run is caught by one that install set up.
Restorable(sig) ==
    disp[sig].handler = "fn" /\ Arch = "x86_64" => "SA_RESTORER" \in disp[sig].flags

HandlersReturn ==
    /\ DOMAIN disp = Signals
    /\ \A sig \in Signals : Restorable(sig)
    /\ \A i \in 1..Len(frames) : disp[frames[i].sig].handler = "fn"
    /\ crashed = FALSE

WatchInv == WatchShape /\ Unwinds /\ HandlersReturn

LEMMA MaskBits ==
  /\ {} \in Masks /\ {SIGINT - 1} \in Masks /\ {Chld} \in Masks
  /\ \A m \in Masks, n \in Masks : m \cup n \in Masks /\ m \ n \in Masks
  /\ \A sig \in Signals : {sig - 1} \in Masks
<1>1. \A sig \in Signals : sig - 1 \in {s - 1 : s \in Signals}
  OBVIOUS
<1>. QED  BY <1>1 DEF Masks, Signals, Chld

LEMMA WatchInit == Init => WatchInv
<1>. SUFFICES ASSUME Init PROVE WatchInv
  OBVIOUS
<1>1. WatchShape
  <2>1. frames \in Seq(Frames)
    BY DEF Init
  <2>. QED  BY <2>1, MaskBits DEF Init, WatchShape, NoMask, Early
<1>2. Unwinds
  BY DEF Init, Unwinds, Proper, Early, Guarded
<1>3. HandlersReturn
  <2>1. disp = [sig \in Signals |-> Default] /\ frames = <<>> /\ crashed = FALSE
    BY DEF Init
  <2>2. \A sig \in Signals : disp[sig].handler # "fn"
    BY <2>1 DEF Default
  <2>3. DOMAIN disp = Signals /\ 1..Len(frames) = {}
    BY <2>1
  <2>. QED  BY Zenon, <2>1, <2>2, <2>3 DEF HandlersReturn, Restorable
<1>. QED  BY <1>1, <1>2, <1>3 DEF WatchInv

\* A step of the kernel or of another process that leaves the mask alone.
LEMMA OutsideStep ==
  ASSUME WatchInv, UNCHANGED <<pc, mask, old, saved, disp, frames, crashed>>
  PROVE  WatchInv'
BY DEF WatchInv, WatchShape, Unwinds, Proper, HandlersReturn, Restorable

LEMMA HandlerStarts ==
  ASSUME WatchInv, NEW sig \in Signals, Deliver(sig)
  PROVE  WatchInv'
<1>1. CASE disp[sig].handler # "fn"
  <2>1. UNCHANGED <<pc, mask, old, saved, disp, frames, crashed>>
    BY <1>1, Zenon DEF Deliver
  <2>. QED  BY <2>1, OutsideStep
<1>2. CASE disp[sig].handler = "fn"
  <2>. DEFINE back == IF pc = "suspended" THEN saved ELSE mask
              f == [sig |-> sig, mask |-> back]
  <2>1. /\ frames' = Append(frames, f) /\ mask' = mask \cup {sig - 1}
        /\ UNCHANGED <<old, saved, disp, crashed>>
        /\ \/ pc \in {"suspended", "wait"} /\ pc' = "check"
           \/ pc # "suspended" /\ pc' = pc
    BY <1>2 DEF Deliver
  <2>2. back \in Masks /\ f \in Frames
    BY DEF WatchInv, WatchShape, Frames
  <2>3. frames \in Seq(Frames)
    BY DEF WatchInv, WatchShape
  <2>4. /\ frames' \in Seq(Frames) /\ Len(frames') = Len(frames) + 1 /\ frames' # <<>>
        /\ frames'[Len(frames) + 1] = f
        /\ \A i \in 1..Len(frames) : frames'[i] = frames[i]
    BY <2>1, <2>2, <2>3
  <2>5. WatchShape'
    <3>1. mask' \in Masks
      BY <2>1, MaskBits, Zenon DEF WatchInv, WatchShape
    <3>. QED  BY <2>1, <2>4, <3>1 DEF WatchInv, WatchShape, Early, Guarded
  <2>6. Unwinds'
    <3>1. \A m : (pc = "suspended" => m = old \cup {Chld}) /\ (pc # "suspended" => Proper(m))
                  => Proper(m)'
      BY <2>1 DEF Proper, Early, Guarded
    <3>2. (pc = "suspended" => frames'[1].mask = old \cup {Chld})
          /\ (pc # "suspended" => Proper(frames'[1].mask))
      <4>1. CASE frames = <<>>
        <5>1. frames'[1].mask = back
          BY <4>1, <2>4
        <5>2. (pc = "suspended" => saved = old \cup {Chld}) /\ Proper(mask)
          BY <4>1 DEF WatchInv, Unwinds
        <5>. QED  BY <5>1, <5>2
      <4>2. CASE frames # <<>>
        <5>1. frames'[1] = frames[1] /\ pc # "suspended"
          BY <4>2, <2>3, <2>4 DEF WatchInv, Unwinds
        <5>. QED  BY <4>2, <5>1 DEF WatchInv, Unwinds
      <4>. QED  BY <4>1, <4>2
    <3>3. pc' # "suspended" /\ (pc' \notin Early \cup {"done"} => pc \notin Early \cup {"done"})
      BY <2>1 DEF Early
    <3>. QED  BY <2>1, <2>4, <3>1, <3>2, <3>3 DEF WatchInv, Unwinds
  <2>7. HandlersReturn'
    <3>1. \A i \in 1..Len(frames') :
            frames'[i].sig = sig \/ (i \in 1..Len(frames) /\ frames'[i] = frames[i])
      BY <2>3, <2>4
    <3>2. UNCHANGED <<disp, crashed>>
      BY <2>1
    <3>. QED  BY <1>2, <3>1, <3>2 DEF WatchInv, HandlersReturn, Restorable
  <2>. QED  BY <2>5, <2>6, <2>7 DEF WatchInv
<1>. QED  BY <1>1, <1>2

LEMMA HandlerReturns ==
  ASSUME WatchInv, sigreturn_trampoline
  PROVE  WatchInv'
<1>. DEFINE f == frames[Len(frames)]
<1>1. frames \in Seq(Frames) /\ frames # <<>> /\ Len(frames) \in 1..Len(frames) /\ f \in Frames
  BY DEF WatchInv, WatchShape, sigreturn_trampoline
<1>2. ~(Arch = "x86_64" /\ "SA_RESTORER" \notin disp[f.sig].flags)
  <2>1. f.sig \in Signals /\ disp[f.sig].handler = "fn"
    BY <1>1 DEF Frames, WatchInv, HandlersReturn
  <2>. QED  BY <2>1 DEF WatchInv, HandlersReturn, Restorable
<1>3. /\ frames' = SubSeq(frames, 1, Len(frames) - 1) /\ mask' = f.mask
      /\ UNCHANGED <<pc, old, saved, disp, crashed>>
  BY <1>2 DEF sigreturn_trampoline
<1>4. /\ frames' \in Seq(Frames) /\ Len(frames') = Len(frames) - 1
      /\ \A i \in 1..Len(frames') : frames'[i] = frames[i] /\ i \in 1..Len(frames)
  <2>. DEFINE n == Len(frames) - 1
  <2>1. n \in Nat /\ Len(frames) = n + 1 /\ \A i \in 1..n : frames[i] \in Frames
    BY <1>1
  <2>. HIDE DEF n
  <2>2. frames' = SubSeq(frames, 1, n)
    BY <1>3 DEF n
  <2>3. /\ SubSeq(frames, 1, n) \in Seq(Frames)
        /\ Len(SubSeq(frames, 1, n)) = IF 1 <= n THEN n - 1 + 1 ELSE 0
        /\ \A i \in 1..n - 1 + 1 : SubSeq(frames, 1, n)[i] = frames[1 + i - 1]
    BY <2>1
  <2>4. Len(frames') = n /\ \A i \in 1..n : frames'[i] = frames[i]
    BY <2>1, <2>2, <2>3
  <2>. QED  BY <2>1, <2>2, <2>3, <2>4
<1>5. WatchShape'
  BY <1>1, <1>3, <1>4 DEF WatchInv, WatchShape, Frames
<1>6. Unwinds'
  <2>1. pc # "suspended" /\ Proper(frames[1].mask)
    BY <1>1 DEF WatchInv, Unwinds
  <2>2. \A m : Proper(m) => Proper(m)'
    BY <1>3 DEF Proper
  <2>3. CASE Len(frames) = 1
    <3>1. frames' = <<>> /\ mask' = frames[1].mask
      BY <2>3, <1>1, <1>3, <1>4
    <3>. QED  BY <1>3, <2>1, <2>2, <3>1 DEF WatchInv, Unwinds
  <2>4. CASE Len(frames) # 1
    <3>1. frames' # <<>> /\ frames'[1] = frames[1]
      BY <2>4, <1>1, <1>4
    <3>. QED  BY <1>3, <2>1, <2>2, <3>1 DEF WatchInv, Unwinds
  <2>. QED  BY <2>3, <2>4
<1>7. HandlersReturn'
  BY <1>3, <1>4 DEF WatchInv, HandlersReturn, Restorable
<1>. QED  BY <1>5, <1>6, <1>7 DEF WatchInv

LEMMA InstallStep ==
  ASSUME WatchInv, Install \/ InstallInt
  PROVE  WatchInv'
<1>1. PICK sig \in Signals, flags \in {{}, {"SA_RESTART"}} :
         disp' = [disp EXCEPT ![sig] = [handler |-> "fn",
                    flags |-> flags \cup (IF Arch = "x86_64" THEN {"SA_RESTORER"} ELSE {})]]
  BY DEF Install, InstallInt, signal, sigaction, install, Signals
<1>2. /\ pc \in Early /\ pc' \in Early
      /\ UNCHANGED <<mask, old, saved, frames, crashed>>
  BY DEF Install, InstallInt, Early
<1>3. WatchShape'
  BY <1>2 DEF WatchInv, WatchShape
<1>4. Unwinds'
  BY <1>2 DEF WatchInv, Unwinds, Proper, Early, Guarded
<1>5. HandlersReturn'
  <2>1. DOMAIN disp = Signals
    BY DEF WatchInv, HandlersReturn
  <2>2. /\ DOMAIN disp' = Signals /\ disp'[sig].handler = "fn"
        /\ Arch = "x86_64" => "SA_RESTORER" \in disp'[sig].flags
        /\ \A other \in Signals : other # sig => disp'[other] = disp[other]
    BY <1>1, <2>1
  <2>3. \A other \in Signals : Restorable(other)'
    BY <2>2 DEF WatchInv, HandlersReturn, Restorable
  <2>4. \A i \in 1..Len(frames') : disp'[frames'[i].sig].handler = "fn"
    <3>1. \A i \in 1..Len(frames) : frames[i].sig \in Signals
      <4>1. \A i \in 1..Len(frames) : frames[i] \in Frames
        BY DEF WatchInv, WatchShape
      <4>. QED  BY <4>1 DEF Frames
    <3>. QED  BY <1>2, <2>2, <3>1 DEF WatchInv, HandlersReturn
  <2>. QED  BY <1>2, <2>2, <2>3, <2>4, Zenon DEF WatchInv, HandlersReturn
<1>. QED  BY <1>3, <1>4, <1>5 DEF WatchInv

\* The steps of the shell's code that keep its handlers.
LEMMA MaskStep ==
  ASSUME WatchInv, frames = <<>>,
         Block \/ Open \/ Check \/ Suspend \/ ReadSignalfd \/ Restore
  PROVE  WatchInv'
<1>. USE DEF Early, Guarded
<1>1. UNCHANGED <<disp, frames, crashed>>
  BY DEF Block, Open, Check, Suspend, ReadSignalfd, Restore
<1>2. HandlersReturn'
  BY <1>1 DEF WatchInv, HandlersReturn, Restorable
<1>3. Proper(mask) /\ mask \in Masks /\ old \in Masks /\ saved \in Masks
  BY DEF WatchInv, WatchShape, Unwinds
<1>4. CASE Block
  <2>1. /\ pc = "block" /\ pc' \in {"open", "check"} /\ old' = mask /\ saved' = saved
        /\ mask' = mask \cup {Chld}
    BY <1>4 DEF Block, sigprocmask, sigmask, Chld
  <2>2. Chld \notin mask /\ mask' \in Masks
    BY <1>3, <2>1, MaskBits DEF Proper, Chld, SIGINT, SIGCHLD
  <2>. QED  BY <1>1, <1>2, <1>3, <2>1, <2>2 DEF WatchInv, WatchShape, Unwinds, Proper
<1>5. CASE Open \/ Check \/ ReadSignalfd
  <2>1. pc \in Guarded /\ pc' \in Guarded /\ UNCHANGED <<mask, old, saved>>
    BY <1>5 DEF Open, Check, ReadSignalfd
  <2>. QED  BY <1>1, <1>2, <1>3, <2>1 DEF WatchInv, WatchShape, Unwinds, Proper
<1>6. CASE Suspend
  <2>1. /\ pc = "wait" /\ pc' = "suspended" /\ old' = old /\ saved' = mask
        /\ mask' = old \ {Chld} /\ Chld \notin old
    BY <1>6 DEF Suspend, sigsuspend, sigmask, Chld, WatchInv, Unwinds
  <2>2. mask' = old /\ mask = old \cup {Chld}
    BY <1>3, <2>1 DEF Proper
  <2>. QED  BY <1>1, <1>2, <1>3, <2>1, <2>2 DEF WatchInv, WatchShape, Unwinds, Proper
<1>7. CASE Restore
  <2>1. /\ pc = "restore" /\ pc' = "done" /\ old' = mask /\ saved' = saved
        /\ mask' = old /\ Chld \notin old
    BY <1>7, Zenon DEF Restore, sigprocmask, WatchInv, Unwinds
  <2>2. mask' = old' \ {Chld}
    BY <1>3, <2>1 DEF Proper
  <2>. QED  BY <1>1, <1>2, <1>3, <2>1, <2>2 DEF WatchInv, WatchShape, Unwinds, Proper
<1>. QED  BY <1>4, <1>5, <1>6, <1>7

LEMMA WatchInvHolds == Spec => []WatchInv
<1>1. WatchInv /\ [Next]_vars => WatchInv'
  <2>. SUFFICES ASSUME WatchInv, [Next]_vars PROVE WatchInv'
    OBVIOUS
  <2>1. CASE Shell
    BY <2>1, InstallStep, MaskStep DEF Shell, Running
  <2>2. CASE Kernel
    BY <2>2, HandlerStarts DEF Kernel
  <2>3. CASE sigreturn_trampoline
    BY <2>3, HandlerReturns
  <2>4. CASE Interrupt \/ \E k \in Kids : KidDies(k)
    BY <2>4, OutsideStep DEF Interrupt, KidDies
  <2>5. CASE UNCHANGED vars
    BY <2>5, OutsideStep DEF vars
  <2>. QED  BY <2>1, <2>2, <2>3, <2>4, <2>5 DEF Next
<1>. QED  BY <1>1, WatchInit, PTL DEF Spec

\* However handlers interrupt the shell and one another, its own code runs with
\* SIGCHLD blocked from sigprocmask to the restore, also after sigsuspend put
\* the mask back, and it ends with the mask it started with.
THEOREM MaskIsRestored == Spec => []MaskRestored
<1>1. WatchInv => MaskRestored
  BY DEF WatchInv, Unwinds, Proper, Guarded, Chld, MaskRestored
<1>. QED  BY <1>1, WatchInvHolds, PTL

\* Every handler returns: whatever flags signal and sigaction were given, the
\* disposition install made has the restorer that x86_64 returns through.
THEOREM NoHandlerCrashes == Spec => []~crashed
<1>1. WatchInv => ~crashed
  BY DEF WatchInv, HandlersReturn
<1>. QED  BY <1>1, WatchInvHolds, PTL
=============================================================================
