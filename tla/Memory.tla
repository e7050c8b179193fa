------------------------------- MODULE Memory -------------------------------
(***************************************************************************)
(* Mapped memory (mmap.rs: mmap, munmap, mprotect, madvise, mlock,         *)
(* munlock, msync), flushing a file (fd.rs: fsync, fdatasync) and reaching *)
(* into another process's memory (process.rs: process_vm_readv,            *)
(* process_vm_writev).                                                     *)
(*                                                                         *)
(* A process maps a file, shared or privately, or anonymous memory, and    *)
(* stores into its pages; another process may read and write the same      *)
(* pages from outside while it runs.  The kernel writes dirty file pages   *)
(* back and swaps private pages out whenever it likes.  The machine may    *)
(* crash: what is on the disk is all that is left.                         *)
(***************************************************************************)
EXTENDS IoVec, FiniteSets

CONSTANTS
    Pages,      \* 0..n: the pages of the file, and of a mapping of it
    Vals,       \* what a page may hold; 0 is a page never written
    Secret,     \* a value kept in locked memory only
    MEMLOCK,    \* RLIMIT_MEMLOCK, in pages
    Locals,     \* lengths of the observer's buffers
    Remotes,    \* base and length of the ranges it names
    MaxStores   \* a bound on the values written

VARIABLES
    cache,      \* the file's pages as every process sees them
    disk,       \* the file's pages on the device
    swap,       \* the values of private pages in the swap area
    map,        \* the mapping: live, prot, flags
    own,        \* its private pages: a value, or None where it shows the file
    locked,     \* the pages the kernel holds in memory
    trusted,    \* the pages the process has had an Ok from mlock for
    promised,   \* per page, the values that may be found after a crash; {}
                \* when no flush has promised anything
    vm,         \* the observer's call: its addresses and what it has moved
    held,       \* per position of that call, the values the page has had
    stores

file == <<cache, disk, promised>>
locks == <<locked, trusted>>
mapping == <<map, own, locks>>
observer == <<vm, held>>
vars == <<file, swap, mapping, observer, stores>>

None == 99

PROT_READ == 1
PROT_WRITE == 2
MAP_SHARED == 1
MAP_PRIVATE == 2
MAP_ANONYMOUS == 32
MS_ASYNC == 1
MS_SYNC == 4
MADV_WILLNEED == 3
MADV_DONTNEED == 4
MADV_FREE == 8

NoMap == [live |-> FALSE, prot |-> {}, flags |-> {}]
Idle == [dir |-> "none", addrs |-> <<>>, done |-> <<>>]

Anonymous == MAP_ANONYMOUS \in map.flags

\* What the process sees in page p of its mapping.
View(p) == IF own[p] # None THEN own[p] ELSE cache[p]

\* The observer's pages as this step leaves them.
Watch == held' = [i \in DOMAIN held |-> held[i] \cup {View(vm.addrs[i])'}]

Init ==
    /\ cache = [p \in Pages |-> 0]
    /\ disk = cache
    /\ promised = [p \in Pages |-> {}]
    /\ swap = {}
    /\ map = NoMap
    /\ own = [p \in Pages |-> None]
    /\ locked = {}
    /\ trusted = {}
    /\ vm = Idle
    /\ held = <<>>
    /\ stores = 0

-----------------------------------------------------------------------------
(* mmap.rs *)

mmap(prot, flags) ==
    /\ ~map.live
    /\ map' = [live |-> TRUE, prot |-> prot, flags |-> flags]
    /\ own' = [p \in Pages |-> IF MAP_ANONYMOUS \in flags THEN 0 ELSE None]
    /\ UNCHANGED <<file, swap, locks, observer, stores>>

\* A call of the observer that is under way fails with EFAULT.
munmap ==
    /\ map.live
    /\ map' = NoMap
    /\ own' = [p \in Pages |-> None]
    /\ locked' = {}
    /\ trusted' = {}
    /\ vm' = Idle
    /\ held' = <<>>
    /\ UNCHANGED <<file, swap, stores>>

mprotect(prot) ==
    /\ map.live
    /\ map' = [map EXCEPT !.prot = prot]
    /\ UNCHANGED <<file, swap, own, locks, observer, stores>>

\* DONTNEED drops private pages at once (file pages are read again, anonymous
\* ones are zero) and is refused on locked ones; FREE drops anonymous pages
\* when memory is short, which may be now; WILLNEED drops nothing.
madvise(advice) ==
    /\ map.live
    /\ locked = {}
    /\ \E gone \in CASE advice = MADV_DONTNEED -> {Pages}
                     [] advice = MADV_FREE /\ Anonymous -> SUBSET Pages
                     [] OTHER -> {{}} :
        own' = [p \in Pages |-> IF p \notin gone THEN own[p]
                                ELSE IF Anonymous THEN 0 ELSE None]
    /\ UNCHANGED <<file, swap, map, locks, vm, stores>>
    /\ Watch

\* The bug of not looking at the result.
mlock_unchecked(pages) ==
    /\ map.live
    /\ locked' = IF Cardinality(locked \cup pages) <= MEMLOCK THEN locked \cup pages ELSE locked
    /\ trusted' = trusted \cup pages
    /\ UNCHANGED <<file, swap, map, own, observer, stores>>

\* The pages stay in memory until munlock or munmap; ENOMEM beyond the limit.
mlock(pages) ==
    /\ map.live
    /\ IF Cardinality(locked \cup pages) <= MEMLOCK
       THEN locked' = locked \cup pages /\ trusted' = trusted \cup pages
       ELSE UNCHANGED <<locked, trusted>>
    /\ UNCHANGED <<file, swap, map, own, observer, stores>>

munlock(pages) ==
    /\ map.live
    /\ locked' = locked \ pages
    /\ trusted' = trusted \ pages
    /\ UNCHANGED <<file, swap, map, own, observer, stores>>

\* The kernel's side of a flush: the page is on the device when it is done.
Flush(pages) ==
    /\ disk' = [p \in Pages |-> IF p \in pages THEN cache[p] ELSE disk[p]]
    /\ promised' = [p \in Pages |-> IF p \in pages THEN {cache[p]} ELSE promised[p]]

\* The bug of asking for the flush and not waiting for it.
msync_async(pages, flags) ==
    /\ map.live
    /\ promised' = [p \in Pages |-> IF p \in pages /\ ~Anonymous THEN {cache[p]} ELSE promised[p]]
    /\ UNCHANGED <<disk, cache, swap, mapping, observer, stores>>

\* With MS_SYNC the file's pages are on the device when it returns; MS_ASYNC
\* promises nothing, and an anonymous mapping has no file to flush to.
msync(pages, flags) ==
    /\ map.live
    /\ IF flags = MS_SYNC /\ ~Anonymous THEN Flush(pages) ELSE UNCHANGED <<disk, promised>>
    /\ UNCHANGED <<cache, swap, mapping, observer, stores>>

-----------------------------------------------------------------------------
(* fd.rs: both flush the data of the whole file; what fdatasync leaves out *)
(* is metadata that is not needed to read it back.                         *)

fsync == Flush(Pages) /\ UNCHANGED <<cache, swap, mapping, observer, stores>>

fdatasync == Flush(Pages) /\ UNCHANGED <<cache, swap, mapping, observer, stores>>

-----------------------------------------------------------------------------
(* process.rs *)

Least(a, b) == IF a < b THEN a ELSE b

\* The bug of pairing buffer i with range i.
Matched_pairs(local, remote) ==
    Addresses([i \in DOMAIN local |->
        [base |-> remote[i].base, len |-> Least(local[i].len, remote[i].len)]])

\* Local buffers and remote ranges are matched position by position over
\* their whole lengths, whatever the segments are; the shorter list ends it.
Matched(local, remote) == Part(Addresses(remote), 0, Total(local))

process_vm(dir, addrs) ==
    /\ map.live
    /\ vm.dir = "none"
    /\ vm' = [dir |-> dir, addrs |-> addrs, done |-> <<>>]
    /\ held' = [i \in DOMAIN addrs |-> {View(addrs[i])}]
    /\ UNCHANGED <<file, swap, mapping, stores>>

process_vm_readv == process_vm("read", Matched(IoSliceMut(Locals), Remotes))

process_vm_writev == process_vm("write", Matched(IoSliceMut(Locals), Remotes))

-----------------------------------------------------------------------------
(* The process, the observer, the kernel and the machine *)

\* A value arrives in page p of the file.
Dirty(p, v) ==
    /\ cache' = [cache EXCEPT ![p] = v]
    /\ promised' = [promised EXCEPT ![p] = IF @ = {} THEN {} ELSE @ \cup {v}]

\* A store into the mapping: a shared page is the file's, a private one is
\* copied first.
StoreAt(p, v) ==
    IF MAP_SHARED \in map.flags
    THEN Dirty(p, v) /\ UNCHANGED own
    ELSE own' = [own EXCEPT ![p] = v] /\ UNCHANGED <<cache, promised>>

\* The process respects the protection, and keeps a secret in locked
\* anonymous memory only.
Store(p, v) ==
    /\ map.live
    /\ PROT_WRITE \in map.prot
    /\ v = Secret => Anonymous /\ p \in trusted
    /\ stores < MaxStores
    /\ stores' = stores + 1
    /\ StoreAt(p, v)
    /\ UNCHANGED <<disk, swap, map, locks, vm>>
    /\ Watch

\* Another process writes the file.
WriteFile(p, v) ==
    /\ v # Secret
    /\ stores < MaxStores
    /\ stores' = stores + 1
    /\ Dirty(p, v)
    /\ UNCHANGED <<disk, swap, mapping, vm>>
    /\ Watch

\* The observer's call moves one page; nothing stops the process meanwhile.
Transfer(v) ==
    /\ vm.dir # "none"
    /\ Len(vm.done) < Len(vm.addrs)
    /\ LET p == vm.addrs[Len(vm.done) + 1]
       IN  IF vm.dir = "read"
           THEN /\ vm' = [vm EXCEPT !.done = Append(@, View(p))]
                /\ UNCHANGED <<file, swap, mapping, held, stores>>
           ELSE /\ stores < MaxStores
                /\ stores' = stores + 1
                /\ vm' = [vm EXCEPT !.done = Append(@, v)]
                /\ StoreAt(p, v)
                /\ UNCHANGED <<disk, swap, map, locks>>
                /\ Watch

Return ==
    /\ vm.dir # "none"
    /\ Len(vm.done) = Len(vm.addrs)
    /\ vm' = Idle
    /\ held' = <<>>
    /\ UNCHANGED <<file, swap, mapping, stores>>

WriteBack(p) ==
    /\ disk' = [disk EXCEPT ![p] = cache[p]]
    /\ UNCHANGED <<cache, promised, swap, mapping, observer, stores>>

SwapOut(p) ==
    /\ own[p] # None
    /\ p \notin locked
    /\ swap' = swap \cup {own[p]}
    /\ UNCHANGED <<file, mapping, observer, stores>>

Crash ==
    /\ cache' = disk
    /\ map' = NoMap
    /\ own' = [p \in Pages |-> None]
    /\ locked' = {}
    /\ trusted' = {}
    /\ swap' = {}
    /\ vm' = Idle
    /\ held' = <<>>
    /\ UNCHANGED <<disk, promised, stores>>

Calls ==
    \/ \E prot \in {{PROT_READ}, {PROT_READ, PROT_WRITE}} :
        \/ mprotect(prot)
        \/ \E flags \in {{MAP_SHARED}, {MAP_PRIVATE}, {MAP_PRIVATE, MAP_ANONYMOUS}} :
              mmap(prot, flags)
    \/ munmap
    \/ \E advice \in {MADV_WILLNEED, MADV_DONTNEED, MADV_FREE} : madvise(advice)
    \/ \E p \in Pages : mlock({p}) \/ (own[p] # Secret /\ munlock({p}))
    \/ \E p \in Pages, flags \in {MS_ASYNC, MS_SYNC} : msync({p}, flags)
    \/ fsync
    \/ fdatasync

Next ==
    \/ Calls
    \/ process_vm_readv
    \/ process_vm_writev
    \/ Return
    \/ Crash
    \/ \E v \in Vals \ {0, Secret} : Transfer(v)
    \/ \E p \in Pages : WriteBack(p) \/ SwapOut(p)
    \/ \E p \in Pages, v \in Vals : Store(p, v) \/ WriteFile(p, v)

Spec == Init /\ [][Next]_vars

-----------------------------------------------------------------------------
(* Properties *)

\* What fsync, fdatasync or msync with MS_SYNC flushed is found after a crash
\* of the machine, unless a later write to that page got there: a flush of
\* one mapping covers the writes of other processes to the page, and MS_ASYNC,
\* munmap or mprotect in between take nothing back.
FlushedSurvives == \A p \in Pages : promised[p] # {} => disk[p] \in promised[p]

\* A secret that a process stores only in pages mlock returned Ok for, and
\* wipes before munlock, never reaches a disk: not the swap area, nor the file
\* through a later shared mapping, whatever madvise and mprotect do.
SecretStaysInMemory ==
    Secret \notin swap \cup {disk[p] : p \in Pages} \cup {cache[p] : p \in Pages}

\* process_vm_readv moves as many pages as the shorter of its lists names,
\* position by position whatever the segment sizes are, and each value is one
\* the page had during the call, although the process is not stopped.
RemoteReadMatches ==
    vm.dir = "read" =>
        /\ Len(vm.addrs) = Least(Total(IoSliceMut(Locals)), Total(Remotes))
        /\ \A i \in 1..Len(vm.done) : vm.done[i] \in held[i]
=============================================================================
