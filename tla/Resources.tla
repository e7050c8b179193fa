----------------------------- MODULE Resources -----------------------------
(***************************************************************************)
(* What a process has of the kernel: descriptors (FdTable) and pages       *)
(* (Memory).                                                               *)
(***************************************************************************)
EXTENDS Integers, Sequences

CONSTANTS
    Threads, Fds, PtyNumbers, MaxCalls,                        \* FdTable
    Pages, Vals, Secret, MEMLOCK, Locals, Remotes, MaxStores   \* Memory

VARIABLES
    arch, table, locked, fpc, master, ptn, owned, did, calls,
    cache, disk, swap, map, own, pinned, trusted, promised, vm, held, stores

D == INSTANCE FdTable WITH pc <- fpc
M == INSTANCE Memory WITH locked <- pinned

dvars == <<arch, table, locked, fpc, master, ptn, owned, did, calls>>
mvars == <<cache, disk, swap, map, own, pinned, trusted, promised, vm, held, stores>>

\* Descriptors and pseudo-terminals are numbered.
ASSUME FdsAssumption == Fds \subseteq Nat
ASSUME PtyAssumption == PtyNumbers \subseteq Nat /\ MaxCalls \in Nat

\* The secret is neither a fresh page nor the mark of a page without a copy.
ASSUME SecretAssumption == Secret \notin {0, M!None}

\* Buffers have lengths, and the ranges the observer names are in the mapping.
ASSUME RemotesAssumption ==
    /\ Locals \in Seq(Nat) /\ Remotes \in Seq([base : Nat, len : Nat])
    /\ \A k \in 1..Len(Remotes) : \A i \in 1..Remotes[k].len :
          Remotes[k].base + i - 1 \in Pages

-----------------------------------------------------------------------------
\* Every open number has one owner (FdTable).
Accounted == D!Accounted

\* openpty returns the two ends of one pseudo-terminal (FdTable).
PtyPair == D!PtyPair

\* What fsync or msync(MS_SYNC) flushed survives a crash (Memory).
FlushedSurvives == M!FlushedSurvives

\* A secret kept in pages mlock locked reaches no disk (Memory).
SecretStaysInMemory == M!SecretStaysInMemory

\* process_vm_readv fills the buffers from the ranges in order (Memory).
RemoteReadMatches == M!RemoteReadMatches
=============================================================================
