----------------------------- MODULE VforkExec -----------------------------
(***************************************************************************)
(* vfork_exec and vfork_exec_redirected (process.rs) over the assembly     *)
(* trampolines vfork_execve and vfork_execve_redirected of both            *)
(* architectures (arch/x86_64.rs, arch/aarch64.rs).                        *)
(*                                                                         *)
(* The child borrows the parent's memory until it execs or exits, walks    *)
(* the redirect array with a counter held in a register, one dup per       *)
(* entry, then execs; it reports only through its exit status. One step is *)
(* one system call of the child together with the instructions up to the   *)
(* next. Meanwhile other threads of the parent close descriptors, and the  *)
(* child may be killed.                                                    *)
(***************************************************************************)
EXTENDS Integers, Sequences, WaitStatus

CONSTANTS
    Archs,        \* the architectures considered: "x86_64", "aarch64"
    Fds,          \* the descriptors a table can hold
    FdArgs,       \* the values a Redirect field may have, invalid ones included
    Files, NoFile,
    InitTables,   \* descriptor tables the parent may have when it calls
    MaxRedirects, \* bound on the length of the redirect array
    RetRip,       \* the return address `syscall` leaves in rcx
    ImageCodes    \* exit codes of the program that was executed

Entry == [file : Files \cup {NoFile}, cloexec : BOOLEAN]
Closed == [file |-> NoFile, cloexec |-> FALSE]
Table == [Fds -> Entry]
Redirect == [oldfd : FdArgs, newfd : FdArgs]
RedirectArrays == UNION {[1..n -> Redirect] : n \in 0..MaxRedirects}

ASSUME ArchsAssumption == Archs \subseteq {"x86_64", "aarch64"}
ASSUME FdsAssumption == Fds \subseteq Nat /\ Fds \subseteq FdArgs /\ FdArgs \subseteq Int
ASSUME FilesAssumption == NoFile \notin Files
ASSUME InitTablesAssumption == InitTables \subseteq Table
\* A return address is larger than any array length.
ASSUME BoundsAssumption ==
    MaxRedirects \in Nat /\ RetRip \in Nat /\ RetRip > MaxRedirects
ASSUME ImageCodesAssumption == ImageCodes \subseteq 0..255

VARIABLES
    arch,       \* which of the two trampolines was compiled
    pc,         \* the calling thread: "ready", "suspended" or "returned"
    ret,        \* what the call returned: "none", "pid" or "err"
    cpc,        \* the child: "none", where it is in the trampoline, or after it
    redirects,  \* the array the caller passed
    i,          \* the loop counter (rcx on x86_64, x14 on aarch64)
    tab,        \* the descriptor tables of the parent and the child
    tabs,       \* the child's table before each redirect and after the last (history)
    image,      \* <<the table the executed program started with>>, or <<>> (history)
    death,      \* how the child ended, for the kernel's wait status
    wstatus     \* the status word waitpid returned, -1 before

vars == <<arch, pc, ret, cpc, redirects, i, tab, tabs, image, death, wstatus>>

Trampoline == {"loop", "execve", "exit126", "exit127"}
NoImage == <<>>
Alive == [kind |-> "none", value |-> 0, core |-> FALSE, trace |-> 0]

TypeOK ==
    /\ arch \in Archs
    /\ pc \in {"ready", "suspended", "returned"}
    /\ ret \in {"none", "pid", "err"}
    /\ cpc \in Trampoline \cup {"none", "image", "zombie", "reaped"}
    /\ redirects \in Seq(Redirect) /\ Len(redirects) <= MaxRedirects
    /\ i \in 0..(RetRip + 1)
    /\ tab \in [{"parent", "child"} -> Table]
    /\ tabs \in Seq(Table)
    /\ image \in {NoImage} \cup [1..1 -> Table]
    /\ death \in Events \cup {Alive}
    /\ wstatus \in Int

Init ==
    /\ arch \in Archs
    /\ pc = "ready"
    /\ ret = "none"
    /\ cpc = "none"
    /\ redirects = <<>>
    /\ i = 0
    /\ tab \in [{"parent", "child"} -> InitTables]
    /\ tab["child"] = tab["parent"]
    /\ tabs = <<>>
    /\ image = NoImage
    /\ death = Alive
    /\ wstatus = -1

-----------------------------------------------------------------------------
(* The kernel, as the trampoline uses it (external). *)

Open(t, fd) == fd \in Fds /\ t[fd].file # NoFile

\* dup2, and dup3 with flags 0: the new descriptor is not close-on-exec. dup3
\* refuses oldfd = newfd where dup2 does nothing.
DupFails(t, r) ==
    \/ ~Open(t, r.oldfd)
    \/ r.newfd \notin Fds
    \/ arch = "aarch64" /\ r.oldfd = r.newfd

Dup(t, r) ==
    IF r.oldfd = r.newfd THEN t
    ELSE [t EXCEPT ![r.newfd] = [file |-> t[r.oldfd].file, cloexec |-> FALSE]]

CloseOnExec(t) == [fd \in Fds |-> IF t[fd].cloexec THEN Closed ELSE t[fd]]

-----------------------------------------------------------------------------
(* The flags process.rs passes, and slips in them. *)

CloneFlags == {"CLONE_VFORK", "CLONE_VM", "SIGCHLD"}

\* The table the child's system calls work on: its own copy, unless shared.
Mine == IF "CLONE_FILES" \in CloneFlags THEN "parent" ELSE "child"

-----------------------------------------------------------------------------
(* The calling thread. *)

\* clone succeeds: the child starts in the trampoline, at the loop unless the
\* array is empty (`jz 2f`, `cbz x13, 2f`).
Clone(rs) ==
    /\ pc = "ready"
    /\ pc' = IF "CLONE_VFORK" \in CloneFlags THEN "suspended" ELSE "returned"
    /\ ret' = IF "CLONE_VFORK" \in CloneFlags THEN "none" ELSE "pid"
    /\ cpc' = IF Len(rs) = 0 THEN "execve" ELSE "loop"
    /\ redirects' = rs
    /\ i' = 0
    /\ tab' = [tab EXCEPT !["child"] = tab["parent"]]
    /\ tabs' = <<tab["parent"]>>
    /\ UNCHANGED <<arch, image, death, wstatus>>

\* clone fails: the raw -errno is returned as Err and there is no child.
CloneFails ==
    /\ pc = "ready"
    /\ pc' = "returned"
    /\ ret' = "err"
    /\ UNCHANGED <<arch, cpc, redirects, i, tab, tabs, image, death, wstatus>>

vfork_exec == Clone(<<>>) \/ CloneFails

vfork_exec_redirected(rs) == Clone(rs) \/ CloneFails

\* The kernel lets the caller go on once the child has exec'd or died.
ParentResumes ==
    /\ pc = "suspended"
    /\ cpc \notin Trampoline
    /\ pc' = "returned"
    /\ ret' = "pid"
    /\ UNCHANGED <<arch, cpc, redirects, i, tab, tabs, image, death, wstatus>>

waitpid ==
    /\ pc = "returned" /\ ret = "pid"
    /\ cpc = "zombie"
    /\ cpc' = "reaped"
    /\ wstatus' = Encode(death)
    /\ UNCHANGED <<arch, pc, ret, redirects, i, tab, tabs, image, death>>

\* Another thread of the parent, which is not suspended, closes a descriptor.
OtherThreadCloses(fd) ==
    /\ Open(tab["parent"], fd)
    /\ tab' = [tab EXCEPT !["parent"][fd] = Closed]
    /\ UNCHANGED <<arch, pc, ret, cpc, redirects, i, tabs, image, death, wstatus>>

-----------------------------------------------------------------------------
(* The child, in the trampoline. *)

\* What a system call leaves in the counter: `syscall` overwrites rcx with the
\* return address; aarch64's `svc` preserves x14.
AfterSyscall(n) == IF arch = "x86_64" THEN RetRip ELSE n

\* `cmp rcx, r9; jb 8b`, `cmp x14, x13; b.lt 1b`.
MoreRedirects(n) == n < Len(redirects)

\* Label 6: advance the counter and loop or fall through to execve.
Advance(n) ==
    /\ i' = n + 1
    /\ cpc' = IF MoreRedirects(n + 1) THEN "loop" ELSE "execve"

SkipEqual_noadvance ==
    /\ cpc = "loop"
    /\ redirects[i + 1].oldfd = redirects[i + 1].newfd
    /\ UNCHANGED vars

\* oldfd = newfd: no system call (`je 6f`, `b.eq 6f`).
SkipEqual ==
    /\ cpc = "loop"
    /\ redirects[i + 1].oldfd = redirects[i + 1].newfd
    /\ Advance(i)
    /\ tabs' = Append(tabs, tab[Mine])
    /\ UNCHANGED <<arch, pc, ret, redirects, tab, image, death, wstatus>>

\* The dup fails: exit_group(126) without reaching execve.
DupError ==
    /\ cpc = "loop"
    /\ redirects[i + 1].oldfd # redirects[i + 1].newfd
    /\ DupFails(tab[Mine], redirects[i + 1])
    /\ cpc' = "exit126"
    /\ i' = AfterSyscall(i)
    /\ UNCHANGED <<arch, pc, ret, redirects, tab, tabs, image, death, wstatus>>

DupDone_swapped ==
    LET r == [oldfd |-> redirects[i + 1].newfd, newfd |-> redirects[i + 1].oldfd]
    IN  /\ cpc = "loop"
        /\ r.oldfd # r.newfd
        /\ ~DupFails(tab[Mine], r)
        /\ tab' = [tab EXCEPT ![Mine] = Dup(tab[Mine], r)]
        /\ tabs' = Append(tabs, tab'[Mine])
        /\ Advance(AfterSyscall(i))
        /\ UNCHANGED <<arch, pc, ret, redirects, image, death, wstatus>>

DupDone ==
    /\ cpc = "loop"
    /\ redirects[i + 1].oldfd # redirects[i + 1].newfd
    /\ ~DupFails(tab[Mine], redirects[i + 1])
    /\ tab' = [tab EXCEPT ![Mine] = Dup(tab[Mine], redirects[i + 1])]
    /\ tabs' = Append(tabs, tab'[Mine])
    /\ Advance(AfterSyscall(i))
    /\ UNCHANGED <<arch, pc, ret, redirects, image, death, wstatus>>

Execve ==
    /\ cpc = "execve"
    /\ cpc' = "image"
    /\ tab' = [tab EXCEPT ![Mine] = CloseOnExec(tab[Mine])]
    /\ image' = <<tab'[Mine]>>
    /\ UNCHANGED <<arch, pc, ret, redirects, i, tabs, death, wstatus>>

ExecveFails ==
    /\ cpc = "execve"
    /\ cpc' = "exit127"
    /\ UNCHANGED <<arch, pc, ret, redirects, i, tab, tabs, image, death, wstatus>>

Dies(e) ==
    /\ cpc' = "zombie"
    /\ death' = e
    /\ UNCHANGED <<arch, pc, ret, redirects, i, tab, tabs, image, wstatus>>

ExitEvent(code) == [kind |-> "exited", value |-> code, core |-> FALSE, trace |-> 0]

ExitGroup_swapped ==
    \/ cpc = "exit126" /\ Dies(ExitEvent(127))
    \/ cpc = "exit127" /\ Dies(ExitEvent(126))

ExitGroup ==
    \/ cpc = "exit126" /\ Dies(ExitEvent(126))
    \/ cpc = "exit127" /\ Dies(ExitEvent(127))

\* The program exits, or anything kills the child at any point.
ImageExits(code) == cpc = "image" /\ Dies(ExitEvent(code))

Killed ==
    /\ cpc \in Trampoline \cup {"image"}
    /\ Dies([kind |-> "signaled", value |-> 9, core |-> FALSE, trace |-> 0])

ChildStep == SkipEqual \/ DupError \/ DupDone \/ Execve \/ ExecveFails \/ ExitGroup

Next ==
    \/ vfork_exec
    \/ pc = "ready" /\ \E rs \in RedirectArrays : vfork_exec_redirected(rs)
    \/ ParentResumes
    \/ waitpid
    \/ \E fd \in Fds : OtherThreadCloses(fd)
    \/ ChildStep
    \/ \E code \in ImageCodes : ImageExits(code)
    \/ Killed

\* The scheduler runs the child and wakes the vfork parent; nothing makes a
\* call happen, the program exit, or the caller wait.
Fairness == WF_vars(ChildStep) /\ WF_vars(ParentResumes)

Spec == Init /\ [][Next]_vars /\ Fairness

-----------------------------------------------------------------------------
(* Properties *)

\* One redirect as documented: "dup2(oldfd, newfd)", equal descriptors a no-op.
Refused(t, r) == r.oldfd # r.newfd /\ (~Open(t, r.oldfd) \/ r.newfd \notin Fds)

Applies(t, r, u) == ~Refused(t, r) /\ u = Dup(t, r)

Completed == cpc \in {"execve", "exit127"} \/ image # NoImage

\* vfork_exec_redirected applies "each redirect via a raw dup2/dup3 before the
\* final execve": when the child reaches execve its table is the parent's
\* table at the call, changed by every redirect of the array in order, and the
\* program starts with that table minus its close-on-exec descriptors.
RedirectsApplied ==
    /\ Completed =>
        /\ Len(tabs) = Len(redirects) + 1
        /\ \A k \in 1..Len(redirects) : Applies(tabs[k], redirects[k], tabs[k + 1])
    /\ image # NoImage => image[1] = CloseOnExec(tabs[Len(redirects) + 1])

\* The loop is complete on aarch64, where `svc` leaves the counter alone.
Aarch64RedirectsApplied == arch = "aarch64" => RedirectsApplied

MetRefusal ==
    /\ Len(tabs) <= Len(redirects)
    /\ Refused(tabs[Len(tabs)], redirects[Len(tabs)])

\* "A caller distinguishes the two failure modes via the wait status": a child
\* that never became the program and exited is seen to exit 126 or 127; 126
\* means a redirect that dup2 refuses on the table at that point, and on
\* aarch64 127 means that none was.
ExitCodeNamesFailure ==
    cpc = "reaped" /\ image = NoImage /\ wifexited(wstatus) =>
        /\ wexitstatus(wstatus) \in {126, 127}
        /\ wexitstatus(wstatus) = 126 => MetRefusal
        /\ arch = "aarch64" /\ MetRefusal => wexitstatus(wstatus) = 126

\* What the redirect loop does on either architecture: the tables the child
\* went through follow the array from its first entry, and the program starts
\* with the last of them minus its close-on-exec descriptors.
PrefixApplied ==
    /\ Len(tabs) <= Len(redirects) + 1
    /\ \A k \in 1..Len(tabs) - 1 : Applies(tabs[k], redirects[k], tabs[k + 1])
    /\ image # NoImage => image[1] = CloseOnExec(tabs[Len(tabs)])

\* CLONE_VFORK: the caller, whose stack and redirect array the child reads
\* (CLONE_VM), does not return while the child is still in the trampoline.
NoBorrowAfterReturn == pc = "returned" => cpc \notin Trampoline

\* Without CLONE_FILES the child's dups and the close-on-exec sweep never touch
\* the parent's descriptors: the parent's table only ever loses what its own
\* threads close.
ParentTableIsolated ==
    [][\A fd \in Fds : tab'["parent"][fd] \in {tab["parent"][fd], Closed}]_vars

\* The suspended caller is always released: the redirect loop ends, and the
\* trampoline leaves no path but execve or exit_group.
CallerReleased == pc = "suspended" ~> pc = "returned"

=============================================================================
