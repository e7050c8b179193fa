---------------------------- MODULE ShellProofs ----------------------------
(***************************************************************************)
(* A shell that starts programs and edits its command line. VforkExec: the *)
(* redirects a program starts with, for every table size, array length and *)
(* file set. Terminal: in raw mode bytes are read as typed, and they are   *)
(* transmitted as written, for any keys, attributes and number of bytes.   *)
(* Each theorem is of its component's own specification.                   *)
(***************************************************************************)
EXTENDS VforkExec, Tty, SequenceTheorems, TLAPS

-----------------------------------------------------------------------------
(* VforkExec. The inductive invariant relates the register counter to the   *)
(* history of tables: while the child loops, the counter is the number of   *)
(* redirects applied, and its table is the last of the history.             *)

\* No child yet, or a history that starts at the call.
HistoryStarts ==
    IF cpc = "none"
    THEN tabs = <<>> /\ image = NoImage /\ redirects = <<>> /\ pc # "suspended" /\ ret # "pid"
    ELSE tabs # <<>> /\ pc # "ready"

\* The counter counts the redirects applied. (On x86_64 too: after a dup the
\* clobbered counter ends the loop, so cpc = "loop" is never seen with it.)
CounterCounts == cpc = "loop" => i = Len(tabs) - 1 /\ i < Len(redirects)

Chain ==
    /\ Len(tabs) <= Len(redirects) + 1
    /\ \A k \in 1..Len(tabs) - 1 : Applies(tabs[k], redirects[k], tabs[k + 1])

ChildTable ==
    /\ cpc \in Trampoline => tab["child"] = tabs[Len(tabs)] /\ image = NoImage
    /\ cpc = "image" => image # NoImage
    /\ image # NoImage => tabs # <<>> /\ image[1] = CloseOnExec(tabs[Len(tabs)])

\* Only aarch64's preserved counter makes the loop complete.
LoopCompletes ==
    arch = "aarch64" /\ Completed => Len(tabs) = Len(redirects) + 1

WasKilled == death.kind = "signaled" /\ death.value = 9 /\ death.core = FALSE

ExitsKnown ==
    /\ cpc = "exit126" => MetRefusal
    /\ cpc \in {"zombie", "reaped"} /\ image = NoImage =>
        \/ WasKilled
        \/ death = ExitEvent(126) /\ MetRefusal
        \/ death = ExitEvent(127) /\ (arch = "aarch64" => Len(tabs) = Len(redirects) + 1)
    /\ cpc \in {"zombie", "reaped"} => death \in Events
    /\ cpc = "reaped" => wstatus = Encode(death)

IInv ==
    /\ TypeOK
    /\ HistoryStarts
    /\ CounterCounts
    /\ Chain
    /\ ChildTable
    /\ LoopCompletes
    /\ ExitsKnown
    /\ NoBorrowAfterReturn

-----------------------------------------------------------------------------
(* Facts about the operators. *)

\* A redirect array is a sequence of redirects within the bound.
LEMMA ArraysAreSeqs ==
    ASSUME NEW rs \in RedirectArrays
    PROVE  rs \in Seq(Redirect) /\ Len(rs) <= MaxRedirects
<1>1. PICK n \in 0..MaxRedirects : rs \in [1..n -> Redirect]
  BY DEF RedirectArrays
<1>2. n \in Nat
  BY <1>1, BoundsAssumption
<1>3. rs \in Seq(Redirect) /\ Len(rs) = n
  BY <1>1, <1>2
<1> QED
  BY <1>1, <1>3, BoundsAssumption

\* The dup and close-on-exec operations of the kernel keep tables tables.
LEMMA TablesStayTables ==
    ASSUME NEW t \in Table, NEW r \in Redirect
    PROVE  /\ CloseOnExec(t) \in Table
           /\ ~Refused(t, r) => Dup(t, r) \in Table
<1>1. CloseOnExec(t) \in Table
  BY DEF CloseOnExec, Table, Entry, Closed
<1>2. ASSUME ~Refused(t, r) PROVE Dup(t, r) \in Table
  <2>1. CASE r.oldfd = r.newfd
    BY <2>1 DEF Dup
  <2>2. CASE r.oldfd # r.newfd
    <3>1. r.oldfd \in Fds /\ r.newfd \in Fds
      BY <1>2, <2>2 DEF Refused, Open
    <3>2. [file |-> t[r.oldfd].file, cloexec |-> FALSE] \in Entry
      BY <3>1 DEF Table, Entry
    <3> QED
      BY <2>2, <3>1, <3>2 DEF Dup, Table
  <2> QED
    BY <2>1, <2>2
<1> QED
  BY <1>1, <1>2

\* What the trampoline tests before a dup is exactly the documented refusal.
LEMMA DupFailsIsRefused ==
    ASSUME NEW t, NEW r, r.oldfd # r.newfd
    PROVE  DupFails(t, r) <=> Refused(t, r)
BY DEF DupFails, Refused

\* The child works on its own table.
LEMMA MineIsChild == Mine = "child"
BY DEF Mine, CloneFlags

\* The ways the trampoline ends a child are events the kernel can encode.
LEMMA DeathsAreEvents ==
    /\ \A code \in 0..255 : ExitEvent(code) \in Events
    /\ [kind |-> "signaled", value |-> 9, core |-> FALSE, trace |-> 0] \in Events
<1>1. ASSUME NEW code \in 0..255 PROVE ExitEvent(code) \in Exited
  BY DEF ExitEvent, Exited
<1>2. [kind |-> "signaled", value |-> 9, core |-> FALSE, trace |-> 0] \in Signaled
  BY DEF Signaled
<1> QED
  BY <1>1, <1>2, Zenon DEF Events

\* Every event's status word is an integer.
LEMMA EncodeInt == ASSUME NEW e \in Events PROVE Encode(e) \in Int
<1>1. CASE e \in Exited
  BY <1>1 DEF Exited, Encode
<1>2. CASE e \in Signaled
  BY <1>2 DEF Signaled, Encode
<1>3. CASE e \in Stopped
  BY <1>3 DEF Stopped, Encode
<1>4. CASE e \in SyscallStop
  BY <1>4 DEF SyscallStop, Encode, SIGTRAP
<1>5. CASE e \in Continued
  BY <1>5 DEF Continued, Encode
<1> QED
  BY <1>1, <1>2, <1>3, <1>4, <1>5 DEF Events

-----------------------------------------------------------------------------
(* The invariant is inductive: one lemma per action. *)

LEMMA InitIInv == Init => IInv
<1> SUFFICES ASSUME Init PROVE IInv
  OBVIOUS
<1>1. TypeOK
  <2>1. tab \in [{"parent", "child"} -> Table]
    BY InitTablesAssumption DEF Init
  <2>2. tabs \in Seq(Table) /\ redirects \in Seq(Redirect) /\ Len(redirects) <= MaxRedirects
    BY BoundsAssumption DEF Init
  <2>3. i \in 0..(RetRip + 1)
    BY BoundsAssumption DEF Init
  <2> QED
    BY <2>1, <2>2, <2>3 DEF Init, TypeOK
<1>2. HistoryStarts /\ CounterCounts /\ NoBorrowAfterReturn
  BY DEF Init, HistoryStarts, CounterCounts, NoBorrowAfterReturn, Trampoline
<1>3. Chain
  BY DEF Init, Chain
<1>4. ChildTable /\ LoopCompletes /\ ExitsKnown
  BY DEF Init, ChildTable, LoopCompletes, ExitsKnown, Completed, Trampoline, NoImage
<1> QED
  BY <1>1, <1>2, <1>3, <1>4 DEF IInv

\* The call: the history starts with the parent's table.
LEMMA CloneStep ==
    ASSUME IInv, NEW rs \in Seq(Redirect), Len(rs) <= MaxRedirects, Clone(rs)
    PROVE  IInv'
<1> USE DEF IInv
<1>0. "CLONE_VFORK" \in CloneFlags
  BY DEF CloneFlags
<1>1. cpc = "none" /\ image = NoImage
  BY DEF Clone, HistoryStarts
<1>2. tab["parent"] \in Table
  BY DEF TypeOK
<1>3. tabs' \in Seq(Table) /\ Len(tabs') = 1 /\ tabs'[1] = tab["parent"] /\ tabs' # <<>>
  BY <1>2 DEF Clone
<1>4. tab' \in [{"parent", "child"} -> Table] /\ tab'["child"] = tab["parent"]
  BY <1>2 DEF Clone, TypeOK
<1>5. pc' = "suspended" /\ ret' = "none" /\ i' = 0 /\ redirects' = rs
      /\ cpc' = (IF Len(rs) = 0 THEN "execve" ELSE "loop")
      /\ UNCHANGED <<arch, image, death, wstatus>>
  BY <1>0 DEF Clone
<1>6. Len(rs) \in Nat
  OBVIOUS
<1>7. TypeOK'
  BY <1>3, <1>4, <1>5, BoundsAssumption DEF TypeOK, Trampoline
<1>8. HistoryStarts' /\ CounterCounts' /\ NoBorrowAfterReturn'
  BY <1>3, <1>5, <1>6 DEF HistoryStarts, CounterCounts, NoBorrowAfterReturn
<1>9. Chain'
  BY <1>3, <1>5, <1>6 DEF Chain
<1>10. ChildTable' /\ LoopCompletes' /\ ExitsKnown'
  BY <1>1, <1>3, <1>4, <1>5, <1>6 DEF ChildTable, LoopCompletes, ExitsKnown, Completed, NoImage
<1> QED
  BY <1>7, <1>8, <1>9, <1>10

\* A step that extends the history by one table, from the loop: the two ways
\* through label 6. n is what the counter holds when it is advanced.
LEMMA ExtendStep ==
    ASSUME IInv, NEW n \in Nat, NEW u \in Table,
           cpc = "loop",
           n = i \/ (n = RetRip /\ arch = "x86_64"),
           Applies(tabs[Len(tabs)], redirects[i + 1], u),
           tab' \in [{"parent", "child"} -> Table], tab'["child"] = u,
           tabs' = Append(tabs, u),
           Advance(n),
           UNCHANGED <<arch, pc, ret, redirects, image, death, wstatus>>
    PROVE  IInv'
<1> USE DEF IInv
<1>1. /\ Len(tabs) \in Nat /\ tabs \in Seq(Table) /\ Len(redirects) \in Nat
      /\ redirects \in Seq(Redirect) /\ Len(redirects) <= MaxRedirects
      /\ i = Len(tabs) - 1 /\ i < Len(redirects) /\ tabs # <<>>
  BY DEF TypeOK, CounterCounts, HistoryStarts
<1>2. /\ tabs' \in Seq(Table) /\ Len(tabs') = Len(tabs) + 1 /\ tabs' # <<>>
      /\ tabs'[Len(tabs')] = u
      /\ \A k \in 1..Len(tabs) : tabs'[k] = tabs[k]
  BY <1>1
<1>3. /\ i' = n + 1
      /\ cpc' = (IF n + 1 < Len(redirects) THEN "loop" ELSE "execve")
  BY DEF Advance, MoreRedirects
<1>4. TypeOK'
  <2>1. i' \in 0..(RetRip + 1)
    BY <1>1, <1>3, BoundsAssumption
  <2> QED
    BY <1>1, <1>2, <1>3, <2>1 DEF TypeOK, Trampoline
<1>5. cpc' = "loop" => n = i
  BY <1>1, <1>3, BoundsAssumption
<1>6. CounterCounts'
  BY <1>1, <1>2, <1>3, <1>5 DEF CounterCounts
<1>7. HistoryStarts' /\ NoBorrowAfterReturn'
  BY <1>2, <1>3 DEF HistoryStarts, NoBorrowAfterReturn, Trampoline
<1>8. Chain'
  <2>1. Len(tabs') <= Len(redirects) + 1
    BY <1>1, <1>2
  <2>2. ASSUME NEW k \in 1..Len(tabs') - 1
        PROVE  Applies(tabs'[k], redirects[k], tabs'[k + 1])
    <3>1. CASE k \in 1..Len(tabs) - 1
      <4>1. k \in 1..Len(tabs) /\ k + 1 \in 1..Len(tabs)
        BY <1>1, <3>1
      <4> QED
        BY <1>2, <3>1, <4>1 DEF Chain
    <3>2. CASE k = Len(tabs)
      <4>1. k \in 1..Len(tabs) /\ k = i + 1 /\ k + 1 = Len(tabs')
        BY <1>1, <1>2, <3>2
      <4> QED
        BY <1>2, <3>2, <4>1
    <3> QED
      BY <1>1, <1>2, <3>1, <3>2
  <2> QED
    BY <2>1, <2>2 DEF Chain
<1>9. ChildTable' /\ ExitsKnown'
  BY <1>2, <1>3 DEF ChildTable, ExitsKnown, Trampoline
<1>10. LoopCompletes'
  <2>1. image = NoImage
    BY DEF ChildTable, Trampoline
  <2>2. CASE arch = "aarch64"
    BY <1>1, <1>2, <1>3, <2>1, <2>2 DEF LoopCompletes, Completed
  <2> QED
    BY <2>2 DEF LoopCompletes
<1> QED
  BY <1>4, <1>6, <1>7, <1>8, <1>9, <1>10

\* Label 6 reached by skipping a self-redirect.
LEMMA SkipEqualStep == ASSUME IInv, SkipEqual PROVE IInv'
<1> DEFINE r == redirects[i + 1]
           t == tabs[Len(tabs)]
<1>1. /\ cpc = "loop" /\ tab["child"] = t /\ r \in Redirect /\ i \in Nat
      /\ tab \in [{"parent", "child"} -> Table]
  BY DEF SkipEqual, IInv, ChildTable, CounterCounts, TypeOK, Trampoline
<1>2. Applies(t, r, t)
  BY DEF SkipEqual, Applies, Refused, Dup
<1>3. /\ tabs' = Append(tabs, t) /\ tab'["child"] = t /\ tab' = tab
      /\ Advance(i)
  BY <1>1, MineIsChild DEF SkipEqual
<1> HIDE DEF r, t
<1>4. t \in Table
  BY <1>1
<1> QED
  BY <1>1, <1>2, <1>3, <1>4, ExtendStep DEF SkipEqual, r, t

\* Label 6 reached by a dup: on x86_64 with the counter clobbered.
LEMMA DupDoneStep == ASSUME IInv, DupDone PROVE IInv'
<1> DEFINE r == redirects[i + 1]
           t == tabs[Len(tabs)]
           u == Dup(t, r)
<1>1. /\ cpc = "loop" /\ tab["child"] = t /\ r \in Redirect /\ i \in Nat
      /\ tab \in [{"parent", "child"} -> Table]
  BY DEF DupDone, IInv, ChildTable, CounterCounts, TypeOK, Trampoline
<1>2. ~Refused(t, r)
  BY <1>1, MineIsChild, DupFailsIsRefused DEF DupDone
<1>3. t \in Table
  BY <1>1
<1>4. u \in Table
  BY <1>1, <1>2, <1>3, TablesStayTables
<1>5. Applies(t, r, u)
  BY <1>2 DEF Applies
<1>6. /\ tab' = [tab EXCEPT !["child"] = u]
      /\ tabs' = Append(tabs, tab'["child"])
      /\ Advance(AfterSyscall(i))
      /\ UNCHANGED <<arch, pc, ret, redirects, image, death, wstatus>>
  BY <1>1, MineIsChild DEF DupDone
<1> HIDE DEF r, t, u
<1>7. tab' \in [{"parent", "child"} -> Table] /\ tab'["child"] = u
  BY <1>1, <1>4, <1>6
<1>8. /\ AfterSyscall(i) \in Nat
      /\ AfterSyscall(i) = i \/ (AfterSyscall(i) = RetRip /\ arch = "x86_64")
  BY <1>1, BoundsAssumption DEF AfterSyscall
<1> QED
  BY <1>1, <1>4, <1>5, <1>6, <1>7, <1>8, ExtendStep DEF r, t

\* A refused dup ends the loop.
LEMMA DupErrorStep == ASSUME IInv, DupError PROVE IInv'
<1> USE DEF IInv
<1>1. /\ cpc = "loop" /\ cpc' = "exit126" /\ i = Len(tabs) - 1 /\ i < Len(redirects)
      /\ tabs # <<>> /\ tab["child"] = tabs[Len(tabs)] /\ image = NoImage
      /\ UNCHANGED <<arch, pc, ret, redirects, tab, tabs, image, death, wstatus>>
      /\ pc # "ready"
  BY DEF DupError, CounterCounts, HistoryStarts, ChildTable, Trampoline
<1>2. Len(tabs) \in Nat /\ Len(redirects) \in Nat /\ i + 1 = Len(tabs)
  BY <1>1 DEF TypeOK
<1>3. Refused(tabs[Len(tabs)], redirects[Len(tabs)])
  BY <1>1, <1>2, MineIsChild, DupFailsIsRefused DEF DupError
<1>4. TypeOK'
  BY <1>1, BoundsAssumption DEF DupError, AfterSyscall, TypeOK, Trampoline
<1>5. Chain'
  BY <1>1 DEF Chain
<1>6. HistoryStarts' /\ CounterCounts' /\ NoBorrowAfterReturn'
  BY <1>1 DEF HistoryStarts, CounterCounts, NoBorrowAfterReturn, Trampoline
<1>7. ChildTable' /\ LoopCompletes' /\ ExitsKnown'
  BY <1>1, <1>2, <1>3 DEF ChildTable, LoopCompletes, Completed, ExitsKnown, MetRefusal, Trampoline
<1> QED
  BY <1>4, <1>5, <1>6, <1>7

\* execve: the program starts with the last table of the history.
LEMMA ExecveStep == ASSUME IInv, Execve PROVE IInv'
<1> USE DEF IInv
<1>1. /\ cpc = "execve" /\ cpc' = "image" /\ tab["child"] = tabs[Len(tabs)]
      /\ tabs # <<>> /\ pc # "ready" /\ image = NoImage
      /\ UNCHANGED <<arch, pc, ret, redirects, i, tabs, death, wstatus>>
  BY DEF Execve, HistoryStarts, ChildTable, Trampoline
<1>2. tab["child"] \in Table /\ CloseOnExec(tab["child"]) \in Table
  BY TablesStayTables DEF TypeOK, Table, CloseOnExec, Entry, Closed
<1>3. /\ tab' \in [{"parent", "child"} -> Table]
      /\ tab'["child"] = CloseOnExec(tab["child"])
  BY <1>2, MineIsChild DEF Execve, TypeOK
<1>4. image' = <<CloseOnExec(tab["child"])>>
  BY <1>3, MineIsChild DEF Execve
<1>5. image' \in [1..1 -> Table] /\ image' # NoImage /\ image'[1] = CloseOnExec(tab["child"])
  BY <1>2, <1>4 DEF NoImage
<1>6. TypeOK'
  BY <1>1, <1>3, <1>5 DEF TypeOK, Trampoline
<1>7. HistoryStarts' /\ CounterCounts' /\ Chain' /\ NoBorrowAfterReturn'
  BY <1>1 DEF HistoryStarts, CounterCounts, Chain, NoBorrowAfterReturn, Trampoline
<1>8. ChildTable' /\ LoopCompletes' /\ ExitsKnown'
  BY <1>1, <1>5 DEF ChildTable, LoopCompletes, Completed, ExitsKnown, Trampoline
<1> QED
  BY <1>6, <1>7, <1>8

\* The child ends, in each of the ways it can.
LEMMA DiesStep ==
    ASSUME IInv, NEW e \in Events, Dies(e), cpc \notin {"none", "zombie", "reaped"},
           \/ cpc = "image"
           \/ cpc = "exit126" /\ e = ExitEvent(126)
           \/ cpc = "exit127" /\ e = ExitEvent(127)
           \/ e.kind = "signaled" /\ e.value = 9 /\ e.core = FALSE
    PROVE  IInv'
<1> USE DEF IInv
<1>1. /\ cpc' = "zombie" /\ death' = e
      /\ UNCHANGED <<arch, pc, ret, redirects, i, tab, tabs, image, wstatus>>
  BY DEF Dies
<1>2. TypeOK'
  BY <1>1 DEF TypeOK
<1>3. HistoryStarts' /\ CounterCounts' /\ Chain' /\ NoBorrowAfterReturn'
  BY <1>1 DEF HistoryStarts, CounterCounts, Chain, NoBorrowAfterReturn, Trampoline
<1>4. ChildTable' /\ LoopCompletes'
  BY <1>1 DEF ChildTable, LoopCompletes, Completed, Trampoline
<1>5. cpc = "image" => image # NoImage
  BY DEF ChildTable
<1>6. ExitsKnown'
  BY <1>1, <1>5 DEF ExitsKnown, MetRefusal, LoopCompletes, Completed, WasKilled
<1> QED
  BY <1>2, <1>3, <1>4, <1>6

\* Every step of the specification preserves the invariant.
LEMMA NextIInv == IInv /\ [Next]_vars => IInv'
<1> SUFFICES ASSUME IInv, [Next]_vars PROVE IInv'
  OBVIOUS
<1>1. CASE vfork_exec
  <2>1. CASE Clone(<<>>)
    <3>1. <<>> \in Seq(Redirect) /\ Len(<<>>) <= MaxRedirects
      BY BoundsAssumption
    <3> QED
      BY <2>1, <3>1, CloneStep
  <2>2. CASE CloneFails
    BY <2>2 DEF CloneFails, IInv, TypeOK, HistoryStarts, CounterCounts, Chain, ChildTable,
                LoopCompletes, Completed, ExitsKnown, MetRefusal, NoBorrowAfterReturn, Trampoline,
                WasKilled
  <2> QED
    BY <1>1, <2>1, <2>2 DEF vfork_exec
<1>2. CASE \E rs \in RedirectArrays : vfork_exec_redirected(rs)
  <2>1. PICK rs \in RedirectArrays : vfork_exec_redirected(rs)
    BY <1>2
  <2>2. CASE Clone(rs)
    BY <2>1, <2>2, ArraysAreSeqs, CloneStep
  <2>3. CASE CloneFails
    BY <2>3, <1>1 DEF vfork_exec
  <2> QED
    BY <2>1, <2>2, <2>3 DEF vfork_exec_redirected
<1>3. CASE ParentResumes
  BY <1>3 DEF ParentResumes, IInv, TypeOK, HistoryStarts, CounterCounts, Chain, ChildTable,
              LoopCompletes, Completed, ExitsKnown, MetRefusal, NoBorrowAfterReturn, Trampoline,
              WasKilled
<1>4. CASE waitpid
  <2>1. death' = death /\ death \in Events
    BY <1>4 DEF waitpid, IInv, TypeOK, ExitsKnown
  <2>2. TypeOK'
    BY <1>4, <2>1, EncodeInt DEF waitpid, IInv, TypeOK
  <2>3. HistoryStarts' /\ CounterCounts' /\ Chain' /\ NoBorrowAfterReturn'
    BY <1>4 DEF waitpid, IInv, HistoryStarts, CounterCounts, Chain, NoBorrowAfterReturn, Trampoline
  <2>4. ChildTable' /\ LoopCompletes' /\ ExitsKnown'
    BY <1>4 DEF waitpid, IInv, ChildTable, LoopCompletes, Completed, ExitsKnown, MetRefusal,
                Trampoline, WasKilled
  <2> QED
    BY <2>2, <2>3, <2>4 DEF IInv
<1>5. CASE \E fd \in Fds : OtherThreadCloses(fd)
  <2>1. PICK fd \in Fds : OtherThreadCloses(fd)
    BY <1>5
  <2>2. tab' \in [{"parent", "child"} -> Table] /\ tab'["child"] = tab["child"]
    BY <2>1 DEF OtherThreadCloses, IInv, TypeOK, Table, Entry, Closed
  <2> QED
    BY <2>1, <2>2 DEF OtherThreadCloses, IInv, TypeOK, HistoryStarts, CounterCounts, Chain,
         ChildTable, LoopCompletes, Completed, ExitsKnown, MetRefusal, NoBorrowAfterReturn,
         WasKilled
<1>6. CASE SkipEqual
  BY <1>6, SkipEqualStep
<1>7. CASE DupError
  BY <1>7, DupErrorStep
<1>8. CASE DupDone
  BY <1>8, DupDoneStep
<1>9. CASE Execve
  BY <1>9, ExecveStep
<1>10. CASE ExecveFails
  BY <1>10 DEF ExecveFails, IInv, TypeOK, HistoryStarts, CounterCounts, Chain, ChildTable,
               LoopCompletes, Completed, ExitsKnown, MetRefusal, NoBorrowAfterReturn, Trampoline,
               WasKilled
<1>11. CASE ExitGroup
  <2>1. ExitEvent(126) \in Events /\ ExitEvent(127) \in Events
    BY DeathsAreEvents
  <2>2. CASE cpc = "exit126" /\ Dies(ExitEvent(126))
    BY <2>1, <2>2, DiesStep
  <2>3. CASE cpc = "exit127" /\ Dies(ExitEvent(127))
    BY <2>1, <2>3, DiesStep
  <2> QED
    BY <1>11, <2>2, <2>3 DEF ExitGroup
<1>12. CASE \E code \in ImageCodes : ImageExits(code)
  BY <1>12, DiesStep, DeathsAreEvents, ImageCodesAssumption DEF ImageExits
<1>13. CASE Killed
  <2> DEFINE e == [kind |-> "signaled", value |-> 9, core |-> FALSE, trace |-> 0]
  <2>1. e \in Events /\ e.kind = "signaled" /\ e.value = 9 /\ e.core = FALSE
    BY DeathsAreEvents
  <2>2. Dies(e) /\ cpc \notin {"none", "zombie", "reaped"}
    BY <1>13 DEF Killed, Trampoline
  <2> QED
    BY <2>1, <2>2, DiesStep
<1>14. CASE UNCHANGED vars
  BY <1>14 DEF vars, IInv, TypeOK, HistoryStarts, CounterCounts, Chain, ChildTable,
               LoopCompletes, Completed, ExitsKnown, MetRefusal, NoBorrowAfterReturn, WasKilled
<1> QED
  BY <1>1, <1>2, <1>3, <1>4, <1>5, <1>6, <1>7, <1>8, <1>9, <1>10, <1>11, <1>12, <1>13, <1>14
     DEF Next, ChildStep

LEMMA Invariance == Spec => []IInv
BY InitIInv, NextIInv, PTL DEF Spec

-----------------------------------------------------------------------------
(* The theorems. *)

\* Type correctness of the call, on both architectures: in particular the loop
\* counter stays in range even when `syscall` clobbers it.
THEOREM TypeCorrect == Spec => []TypeOK
<1>1. IInv => TypeOK
  BY DEF IInv
<1> QED
  BY <1>1, Invariance, PTL

\* On aarch64 every redirect of an array of any length is applied, in order,
\* before execve, and the program starts with exactly the resulting table.
THEOREM Aarch64Redirects ==
    Spec => []Aarch64RedirectsApplied
<1>1. IInv => Aarch64RedirectsApplied
  BY DEF IInv, Aarch64RedirectsApplied, RedirectsApplied, Chain, ChildTable, LoopCompletes, Completed, TypeOK
<1> QED
  BY <1>1, Invariance, PTL

\* On both architectures what the loop did apply is a prefix of the array.
THEOREM Prefix == Spec => []PrefixApplied
<1>1. IInv => PrefixApplied
  BY DEF IInv, PrefixApplied, Chain, ChildTable
<1> QED
  BY <1>1, Invariance, PTL

\* The wait status tells a refused redirect (126) from a failed execve (127):
\* 126 is never a false alarm, and on aarch64 neither is 127.
THEOREM ExitCodes == Spec => []ExitCodeNamesFailure
<1>1. ASSUME IInv, cpc = "reaped", image = NoImage, wifexited(wstatus)
      PROVE  /\ wexitstatus(wstatus) \in {126, 127}
             /\ wexitstatus(wstatus) = 126 => MetRefusal
             /\ arch = "aarch64" /\ MetRefusal => wexitstatus(wstatus) = 126
  <2>1. wstatus = Encode(death)
    BY <1>1 DEF IInv, ExitsKnown
  <2>2. ~WasKilled
    <3>1. WasKilled => Encode(death) = 9
      BY DEF WasKilled, Encode
    <3> QED
      BY <1>1, <2>1, <3>1 DEF wifexited
  <2>3. CASE death = ExitEvent(126) /\ MetRefusal
    <3>1. wexitstatus(wstatus) = 126
      BY <2>1, <2>3 DEF Encode, ExitEvent, wexitstatus
    <3> QED
      BY <2>3, <3>1
  <2>4. CASE death = ExitEvent(127) /\ (arch = "aarch64" => Len(tabs) = Len(redirects) + 1)
    <3>1. wexitstatus(wstatus) = 127
      BY <2>1, <2>4 DEF Encode, ExitEvent, wexitstatus
    <3>2. Len(redirects) \in Nat
      BY <1>1 DEF IInv, TypeOK
    <3> QED
      BY <2>4, <3>1, <3>2 DEF MetRefusal
  <2> QED
    BY <1>1, <2>2, <2>3, <2>4 DEF IInv, ExitsKnown
<1>2. IInv => ExitCodeNamesFailure
  BY <1>1 DEF ExitCodeNamesFailure
<1> QED
  BY <1>2, Invariance, PTL

\* On both architectures the caller never returns while the child still reads
\* its stack and its redirect array.
THEOREM NoBorrow == Spec => []NoBorrowAfterReturn
<1>1. IInv => NoBorrowAfterReturn
  BY DEF IInv
<1> QED
  BY <1>1, Invariance, PTL

\* The child never changes the parent's descriptors.
THEOREM Isolation == Spec => ParentTableIsolated
<1> DEFINE Keeps == \A fd \in Fds : tab'["parent"][fd] \in {tab["parent"][fd], Closed}
<1>1. ASSUME IInv, [Next]_vars PROVE [Keeps]_vars
  <2>1. tab \in [{"parent", "child"} -> Table]
    BY <1>1 DEF IInv, TypeOK
  <2>2. CASE \E fd \in Fds : OtherThreadCloses(fd)
    <3>1. PICK fd \in Fds : OtherThreadCloses(fd)
      BY <2>2
    <3> QED
      BY <2>1, <3>1 DEF OtherThreadCloses, Table
  <2>3. CASE tab'["parent"] = tab["parent"]
    BY <2>3
  <2> QED
    BY <1>1, <2>1, <2>2, <2>3, MineIsChild
       DEF Next, ChildStep, vfork_exec, vfork_exec_redirected, Clone, CloneFails, ParentResumes,
           waitpid, SkipEqual, DupError, DupDone, Execve, ExecveFails, ExitGroup, ImageExits,
           Killed, Dies, vars
<1> QED
  BY <1>1, Invariance, PTL DEF Spec, ParentTableIsolated

-----------------------------------------------------------------------------
(* Terminal. In raw mode the attributes are make_raw's, whatever they were  *)
(* made from, and output is queued under the attributes now in force, since *)
(* every change waits until the queue is empty.                             *)

CFlags == [size : {7, 8}, parity : BOOLEAN]
Attrs == [i : SUBSET STRING, o : SUBSET STRING, l : SUBSET STRING, c : CFlags,
          vmin : Nat, vtime : Nat]
Chars == [b : Nat, c : CFlags]

TermShape ==
    /\ attr \in Attrs /\ tsaved \in Attrs /\ tpc \in {"cooked", "raw"}
    /\ line \in Seq(Nat) /\ inq \in Seq(Nat) /\ expect \in Seq(Nat) /\ got \in Seq(Nat)
    /\ outq \in Seq(Chars) /\ wire \in Seq([sent : Nat, was : Chars])
    /\ sigs \in Nat

IsRaw(a) ==
    /\ a.i \cap T!IFlags = {}
    /\ a.l \cap {"ECHO", "ECHONL", "ICANON", "ISIG"} = {}
    /\ a.c.size = 8 /\ a.vmin = 1

RawMode == tpc = "raw" => IsRaw(attr) /\ got \o inq = expect /\ sigs = 0

\* zero is a Boolean; it stays FALSE.
NoEnd == ~zero

Queued == \A k \in 1..Len(outq) : outq[k].c = attr.c

Sent(w) == w.sent = T!Line8(w.was.c, w.was.b)
AllSent == \A k \in 1..Len(wire) : Sent(wire[k])

TermInv == TermShape /\ RawMode /\ NoEnd /\ Queued /\ AllSent

\* A byte is read from the front of t and put at the end of s.
LEMMA MoveHead ==
  ASSUME NEW s \in Seq(Nat), NEW t \in Seq(Nat), t # <<>>
  PROVE  Append(s, Head(t)) \o Tail(t) = s \o t
<1>1. Head(t) \in Nat /\ Tail(t) \in Seq(Nat) /\ Len(Tail(t)) = Len(t) - 1
  BY HeadTailProperties
<1>2. Append(s, Head(t)) \in Seq(Nat) /\ Len(Append(s, Head(t))) = Len(s) + 1
  BY <1>1
<1>. QED  BY <1>1, <1>2

LEMMA AppendRight ==
  ASSUME NEW s \in Seq(Nat), NEW t \in Seq(Nat), NEW x \in Nat
  PROVE  s \o (t \o <<x>>) = Append(s \o t, x)
<1>1. <<x>> \in Seq(Nat) /\ s \o t \in Seq(Nat)
  OBVIOUS
<1>2. (s \o t) \o <<x>> = s \o (t \o <<x>>)
  BY <1>1, ConcatAssociative
<1>3. Append(s \o t, x) = (s \o t) \o <<x>>
  BY <1>1
<1>. QED  BY <1>2, <1>3

LEMMA TermInit == T!Init => TermInv
<1>. SUFFICES ASSUME T!Init PROVE TermInv
  OBVIOUS
<1>1. TermShape
  BY CookedAssumption DEF T!Init, TermShape, Attrs, CFlags
<1>. QED  BY <1>1 DEF T!Init, TermInv, RawMode, NoEnd, Queued, AllSent

\* What input processing delivers is a sequence of bytes.
LEMMA InputBytes ==
  ASSUME NEW a \in Attrs, NEW b \in 0..T!BREAK
  PROVE  T!Input(a, b) \in Seq(Nat)
<1>. DEFINE s == IF "ISTRIP" \in a.i THEN b % 128 ELSE b
<1>1. s \in Nat
  BY DEF T!BREAK
<1>2. <<>> \in Seq(Nat) /\ <<0>> \in Seq(Nat) /\ <<255, 0, 0>> \in Seq(Nat)
  OBVIOUS
<1>3. <<10>> \in Seq(Nat) /\ <<13>> \in Seq(Nat) /\ <<255, 255>> \in Seq(Nat)
  OBVIOUS
<1>4. <<s>> \in Seq(Nat)
  BY <1>1
<1>5. CASE b = T!BREAK
  <2>1. T!Input(a, b) \in {<<>>, <<255, 0, 0>>, <<0>>}
    BY <1>5 DEF T!Input
  <2>. QED  BY <1>2, <2>1, Zenon
<1>6. CASE b # T!BREAK /\ s = 13
  <2>1. T!Input(a, b) \in {<<>>, <<10>>, <<13>>}
    BY <1>6 DEF T!Input, T!NL, T!CR
  <2>. QED  BY <1>2, <1>3, <2>1, Zenon
<1>7. CASE b # T!BREAK /\ s # 13
  <2>1. T!Input(a, b) \in {<<10>>, <<13>>, <<255, 255>>, <<s>>}
    BY <1>7 DEF T!Input, T!NL, T!CR
  <2>. HIDE DEF s
  <2>. QED  BY <1>3, <1>4, <2>1, Zenon
<1>. QED  BY <1>5, <1>6, <1>7

\* In raw mode a byte is delivered as it is, and a break as a zero byte; it is
\* no signal, stops nothing and is not echoed.
LEMMA RawInput ==
  ASSUME NEW a \in Attrs, NEW b \in 0..T!BREAK, IsRaw(a)
  PROVE  /\ ~T!IsSignal(a, b) /\ ~T!IsFlow(a, b)
         /\ T!Input(a, b) = <<IF b = T!BREAK THEN 0 ELSE b>>
         /\ \A bytes : T!Echoes(a, bytes) = <<>>
<1>1. a.i \cap {"IGNBRK", "BRKINT", "PARMRK", "ISTRIP", "INLCR", "IGNCR", "ICRNL", "IXON"} = {}
  BY DEF IsRaw, T!IFlags
<1>2. /\ "IGNBRK" \notin a.i /\ "BRKINT" \notin a.i /\ "PARMRK" \notin a.i /\ "ISTRIP" \notin a.i
      /\ "INLCR" \notin a.i /\ "IGNCR" \notin a.i /\ "ICRNL" \notin a.i /\ "IXON" \notin a.i
  BY <1>1
<1>3. "ECHO" \notin a.l /\ "ECHONL" \notin a.l /\ "ISIG" \notin a.l
  BY DEF IsRaw
<1>4. ~T!IsSignal(a, b) /\ ~T!IsFlow(a, b)
  BY <1>2, <1>3 DEF T!IsSignal, T!IsFlow
<1>5. T!Input(a, b) = <<IF b = T!BREAK THEN 0 ELSE b>>
  BY <1>2 DEF T!Input, T!NL, T!CR, T!BREAK
<1>. QED  BY <1>3, <1>4, <1>5 DEF T!Echoes

LEMMA OutChars ==
  ASSUME NEW a \in Attrs, NEW bytes \in Seq(Nat)
  PROVE  /\ T!Out(a, bytes) \in Seq(Chars)
         /\ \A j \in 1..Len(T!Out(a, bytes)) : T!Out(a, bytes)[j].c = a.c
  BY DEF T!Out, Attrs, Chars

\* Output queued under the attributes in force.
LEMMA QueueGrows ==
  ASSUME TermShape, Queued, NEW q \in Seq(Chars), \A j \in 1..Len(q) : q[j].c = attr.c,
         outq' = outq \o q, UNCHANGED attr
  PROVE  outq' \in Seq(Chars) /\ Queued'
<1>1. outq \in Seq(Chars)
  BY DEF TermShape
<1>2. /\ outq' \in Seq(Chars) /\ Len(outq') = Len(outq) + Len(q)
      /\ \A k \in 1..Len(outq') : outq'[k] = IF k <= Len(outq) THEN outq[k] ELSE q[k - Len(outq)]
  BY <1>1, ConcatProperties
<1>3. ASSUME NEW k \in 1..Len(outq')  PROVE  outq'[k].c = attr.c
  <2>1. CASE k <= Len(outq)
    BY <1>1, <1>2, <1>3, <2>1 DEF Queued
  <2>2. CASE k > Len(outq)
    <3>1. k - Len(outq) \in 1..Len(q)
      BY <1>1, <1>2, <1>3, <2>2
    <3>. QED  BY <1>1, <1>2, <1>3, <2>2, <3>1
  <2>. QED  BY <1>1, <1>2, <1>3, <2>1, <2>2
<1>. QED  BY <1>2, <1>3 DEF Queued

\* One more byte on the line.
LEMMA WireGrows ==
  ASSUME TermShape, AllSent, NEW w \in [sent : Nat, was : Chars], Sent(w), wire' = Append(wire, w)
  PROVE  wire' \in Seq([sent : Nat, was : Chars]) /\ AllSent'
  BY DEF TermShape, AllSent

LEMMA TypeStep ==
  ASSUME TermInv, NEW b \in Keys, T!Type(b)
  PROVE  TermInv'
<1>. DEFINE in == IF T!IsSignal(attr, b) \/ T!IsFlow(attr, b) THEN <<>> ELSE T!Input(attr, b)
            x == IF b = T!BREAK THEN 0 ELSE b
<1>1. b \in 0..T!BREAK /\ x \in Nat /\ attr \in Attrs /\ TermShape
  BY KeysAssumption DEF TermInv, TermShape, T!BREAK
<1>2. in \in Seq(Nat)
  BY <1>1, InputBytes
<1>3. /\ UNCHANGED <<attr, tsaved, tpc, wire, got, zero, written>>
      /\ sigs' = IF T!IsSignal(attr, b) THEN sigs + 1 ELSE sigs
      /\ expect' = IF tpc = "raw" THEN Append(expect, x) ELSE expect
      /\ outq' = outq \o T!Out(attr, T!Echoes(attr, in))
  BY DEF T!Type
<1>4. /\ line' = <<>> \/ line' = line \/ line' = line \o in
      /\ inq' = inq \/ inq' = inq \o in \/ inq' = inq \o line \o in
      /\ "ICANON" \notin attr.l => inq' = inq \o in
  BY DEF T!Type
<1>. HIDE DEF in, x
<1>5. T!Echoes(attr, in) \in Seq(Nat)
  BY <1>2 DEF T!Echoes
<1>6. outq' \in Seq(Chars) /\ Queued'
  BY <1>1, <1>3, <1>5, OutChars, QueueGrows DEF TermInv
<1>7. line' \in Seq(Nat) /\ inq' \in Seq(Nat)
  <2>1. line \o in \in Seq(Nat) /\ inq \o in \in Seq(Nat) /\ inq \o line \in Seq(Nat)
    BY <1>1, <1>2 DEF TermShape
  <2>2. inq \o line \o in \in Seq(Nat)
    BY <1>2, <2>1
  <2>3. <<>> \in Seq(Nat) /\ line \in Seq(Nat) /\ inq \in Seq(Nat)
    BY <1>1 DEF TermShape
  <2>. QED  BY <1>4, <2>1, <2>2, <2>3, Zenon
<1>8. TermShape'
  BY <1>1, <1>3, <1>6, <1>7 DEF TermShape
<1>9. RawMode'
  <2>. SUFFICES ASSUME tpc = "raw" PROVE RawMode'
    BY <1>3 DEF RawMode
  <2>1. IsRaw(attr) /\ got \o inq = expect /\ sigs = 0
    BY DEF TermInv, RawMode
  <2>2. ~T!IsSignal(attr, b) /\ ~T!IsFlow(attr, b) /\ T!Input(attr, b) = <<x>>
    BY <1>1, <2>1, RawInput DEF x
  <2>3. in = <<x>>
    BY <2>2 DEF in
  <2>4. "ICANON" \notin attr.l
    BY <2>1 DEF IsRaw
  <2>5. got \o (inq \o <<x>>) = Append(got \o inq, x)
    BY <1>1, AppendRight DEF TermShape
  <2>6. got' \o inq' = expect' /\ sigs' = 0
    BY <1>3, <1>4, <2>1, <2>2, <2>3, <2>4, <2>5
  <2>. QED  BY <1>3, <2>1, <2>6 DEF RawMode
<1>. QED  BY <1>3, <1>6, <1>8, <1>9 DEF TermInv, NoEnd, AllSent

LEMMA TransmitStep == TermInv /\ T!Transmit => TermInv'
<1>. SUFFICES ASSUME TermInv, T!Transmit PROVE TermInv'
  OBVIOUS
<1>. DEFINE w == [sent |-> T!Line8(attr.c, Head(outq).b), was |-> Head(outq)]
<1>1. /\ UNCHANGED <<attr, tsaved, tpc, line, inq, stopped, sigs, expect, got, zero>>
      /\ outq # <<>> /\ outq' = Tail(outq) /\ wire' = Append(wire, w)
  BY DEF T!Transmit
<1>2. TermShape /\ Queued /\ AllSent
  BY DEF TermInv
<1>3. Head(outq) \in Chars /\ Head(outq).c = attr.c /\ Tail(outq) \in Seq(Chars)
  BY <1>1, <1>2 DEF TermShape, Queued
<1>4. T!Line8(attr.c, Head(outq).b) \in Nat
  BY <1>3 DEF T!Line8, Chars
<1>5. w \in [sent : Nat, was : Chars] /\ Sent(w)
  BY <1>3, <1>4 DEF Sent
<1>. HIDE DEF w
<1>6. wire' \in Seq([sent : Nat, was : Chars]) /\ AllSent'
  BY <1>1, <1>2, <1>5, WireGrows
<1>7. TermShape'
  BY <1>1, <1>2, <1>3, <1>6 DEF TermShape
<1>8. Queued'
  BY <1>1, <1>2, <1>3 DEF TermShape, Queued
<1>. QED  BY <1>1, <1>6, <1>7, <1>8 DEF TermInv, RawMode, NoEnd

\* Attributes are set with the queue empty.
LEMMA SetAttrs ==
  ASSUME TermInv, NEW t \in Attrs, NEW how \in {T!TCSADRAIN, T!TCSAFLUSH},
         T!tcsetattr_with(how, t)
  PROVE  /\ outq = <<>> /\ attr' = t
         /\ inq' \in Seq(Nat) /\ line' \in Seq(Nat)
<1>1. /\ outq = <<>> /\ attr' = t
      /\ inq' = <<>> \/ inq' = inq \/ inq' = inq \o line
      /\ line' = <<>> \/ line' = line
  BY DEF T!tcsetattr_with, T!TCSADRAIN, T!TCSAFLUSH, T!TCSANOW
<1>2. inq \o line \in Seq(Nat) /\ inq \in Seq(Nat) /\ line \in Seq(Nat) /\ <<>> \in Seq(Nat)
  BY DEF TermInv, TermShape
<1>. QED  BY <1>1, <1>2, Zenon

LEMMA RawIsRaw ==
  ASSUME NEW t \in Attrs
  PROVE  T!make_raw(t) \in Attrs /\ IsRaw(T!make_raw(t))
<1>1. T!make_raw(t) \in Attrs
  BY DEF T!make_raw, Attrs, CFlags
<1>2. /\ T!make_raw(t).i = t.i \ {"IGNBRK", "BRKINT", "PARMRK", "ISTRIP",
                                  "INLCR", "IGNCR", "ICRNL", "IXON"}
      /\ T!make_raw(t).l = t.l \ {"ECHO", "ECHONL", "ICANON", "ISIG", "IEXTEN"}
      /\ T!make_raw(t).c = [size |-> 8, parity |-> FALSE] /\ T!make_raw(t).vmin = 1
  BY DEF T!make_raw, Attrs
<1>. QED  BY <1>1, <1>2 DEF IsRaw, T!IFlags

LEMMA SetRawStep == TermInv /\ T!SetRaw => TermInv'
<1>. SUFFICES ASSUME TermInv, T!SetRaw PROVE TermInv'
  OBVIOUS
<1>1. attr \in Attrs /\ TermShape
  BY DEF TermInv, TermShape
<1>2. /\ UNCHANGED <<outq, wire, stopped, zero>>
      /\ tsaved' = attr /\ expect' = inq' /\ got' = <<>> /\ sigs' = 0 /\ tpc' = "raw"
  BY DEF T!SetRaw, T!tcgetattr
<1>3. \E how \in {T!TCSADRAIN, T!TCSAFLUSH} : T!tcsetattr_with(how, T!make_raw(attr))
  BY DEF T!SetRaw, T!tcgetattr, T!tcsetattr
<1>4. /\ outq = <<>> /\ attr' = T!make_raw(attr)
      /\ inq' \in Seq(Nat) /\ line' \in Seq(Nat)
  BY <1>1, <1>3, SetAttrs, RawIsRaw
<1>5. attr' \in Attrs /\ IsRaw(attr')
  BY <1>1, <1>4, RawIsRaw
<1>6. TermShape'
  BY <1>1, <1>2, <1>4, <1>5 DEF TermShape
<1>7. <<>> \o inq' = inq'
  BY <1>4
<1>8. RawMode'
  BY <1>2, <1>5, <1>7 DEF RawMode, IsRaw
<1>9. Queued'
  BY <1>2, <1>4 DEF Queued
<1>. QED  BY <1>2, <1>6, <1>8, <1>9 DEF TermInv, NoEnd, AllSent
LEMMA RestoreStep == TermInv /\ T!Restore => TermInv'
<1>. SUFFICES ASSUME TermInv, T!Restore PROVE TermInv'
  OBVIOUS
<1>1. tsaved \in Attrs /\ TermShape
  BY DEF TermInv, TermShape
<1>2. /\ UNCHANGED <<tsaved, outq, wire, stopped, sigs, expect, got, zero>>
      /\ tpc' = "cooked" /\ T!tcsetattr_with(T!TCSAFLUSH, tsaved)
  BY DEF T!Restore
<1>3. /\ outq = <<>> /\ attr' = tsaved
      /\ inq' \in Seq(Nat) /\ line' \in Seq(Nat)
  BY <1>1, <1>2, SetAttrs
<1>4. TermShape'
  BY <1>1, <1>2, <1>3 DEF TermShape
<1>5. RawMode' /\ Queued'
  BY <1>2, <1>3 DEF RawMode, Queued
<1>. QED  BY <1>2, <1>4, <1>5 DEF TermInv, NoEnd, AllSent

\* VMIN is 1: a read finds a byte, and takes the first.
LEMMA ReadByteStep == TermInv /\ T!ReadByte => TermInv'
<1>. SUFFICES ASSUME TermInv, T!ReadByte PROVE TermInv'
  OBVIOUS
<1>1. TermShape /\ tpc = "raw" /\ attr.vmin = 1 /\ got \o inq = expect /\ sigs = 0
  BY DEF TermInv, RawMode, IsRaw, T!ReadByte
<1>2. inq # <<>>
  BY <1>1 DEF T!ReadByte
<1>3. /\ inq' = Tail(inq) /\ got' = Append(got, Head(inq))
      /\ UNCHANGED <<attr, tsaved, tpc, line, outq, wire, stopped, sigs, expect, zero>>
  BY <1>2 DEF T!ReadByte
<1>4. Head(inq) \in Nat /\ inq' \in Seq(Nat) /\ got' \in Seq(Nat)
  <2>1. inq \in Seq(Nat) /\ got \in Seq(Nat)
    BY <1>1 DEF TermShape
  <2>2. Head(inq) \in Nat /\ Tail(inq) \in Seq(Nat)
    BY <1>2, <2>1, HeadTailProperties
  <2>. QED  BY <1>3, <2>1, <2>2, AppendProperties
<1>5. got' \o inq' = expect'
  BY <1>1, <1>2, <1>3, MoveHead DEF TermShape
<1>6. TermShape'
  BY <1>1, <1>3, <1>4 DEF TermShape
<1>7. RawMode'
  BY <1>1, <1>3, <1>5 DEF TermInv, RawMode
<1>. QED  BY <1>3, <1>6, <1>7 DEF TermInv, NoEnd, Queued, AllSent

LEMMA WriteStep == TermInv /\ T!Write => TermInv'
<1>. SUFFICES ASSUME TermInv, T!Write PROVE TermInv'
  OBVIOUS
<1>1. TermShape /\ Queued /\ attr \in Attrs /\ <<233>> \in Seq(Nat)
  BY DEF TermInv, TermShape
<1>2. /\ UNCHANGED <<attr, tsaved, tpc, line, inq, wire, stopped, sigs, expect, got, zero>>
      /\ outq' = outq \o T!Out(attr, <<233>>)
  BY DEF T!Write
<1>3. outq' \in Seq(Chars) /\ Queued'
  BY <1>1, <1>2, OutChars, QueueGrows
<1>4. TermShape'
  BY <1>1, <1>2, <1>3 DEF TermShape
<1>. QED  BY <1>2, <1>3, <1>4 DEF TermInv, RawMode, NoEnd, AllSent

\* A character sent ahead of the queue in raw mode goes out whole.
LEMMA SentAhead ==
  ASSUME TermInv, tpc = "raw", NEW b \in Nat,
         wire' = Append(wire, [sent |-> b, was |-> [b |-> b, c |-> attr.c]])
  PROVE  wire' \in Seq([sent : Nat, was : Chars]) /\ AllSent'
<1>. DEFINE w == [sent |-> b, was |-> [b |-> b, c |-> attr.c]]
<1>1. TermShape /\ AllSent /\ attr.c \in CFlags /\ attr.c.size = 8
  BY DEF TermInv, TermShape, RawMode, IsRaw, Attrs
<1>2. w \in [sent : Nat, was : Chars] /\ Sent(w)
  BY <1>1 DEF Sent, Chars, T!Line8
<1>. HIDE DEF w
<1>3. wire' = Append(wire, w)
  BY DEF w
<1>. QED  BY <1>1, <1>2, <1>3, WireGrows

LEMMA ControlStep == TermInv /\ T!Control => TermInv'
<1>. SUFFICES ASSUME TermInv, T!Control PROVE TermInv'
  OBVIOUS
<1>1. /\ TermShape /\ tpc = "raw" /\ IsRaw(attr) /\ got \o inq = expect /\ sigs = 0
      /\ UNCHANGED <<attr, tsaved, tpc, sigs, got, zero>>
  BY DEF TermInv, RawMode, T!Control
<1>2. CASE T!tcflush(T!TCIFLUSH) /\ expect' = got /\ UNCHANGED <<wire, stopped>>
  <2>1. inq' = <<>> /\ line' = <<>> /\ UNCHANGED outq
    BY <1>2 DEF T!tcflush, T!TCIFLUSH, T!TCIOFLUSH, T!TCOFLUSH
  <2>2. got' \o inq' = expect'
    BY <1>1, <1>2, <2>1, ConcatEmptySeq DEF TermShape
  <2>3. TermShape'
    BY <1>1, <1>2, <2>1 DEF TermShape
  <2>4. RawMode'
    BY <1>1, <2>2 DEF RawMode
  <2>. QED  BY <1>1, <1>2, <2>1, <2>3, <2>4 DEF TermInv, NoEnd, Queued, AllSent
<1>3. CASE UNCHANGED <<inq, line, outq, expect, wire>>
  BY <1>1, <1>3 DEF TermInv, TermShape, RawMode, NoEnd, Queued, AllSent
<1>4. CASE \E b \in Nat : /\ wire' = Append(wire, [sent |-> b, was |-> [b |-> b, c |-> attr.c]])
                          /\ UNCHANGED <<inq, line, outq, expect>>
  <2>1. wire' \in Seq([sent : Nat, was : Chars]) /\ AllSent'
    BY <1>1, <1>4, SentAhead
  <2>2. TermShape'
    BY <1>1, <1>4, <2>1 DEF TermShape
  <2>. QED  BY <1>1, <1>4, <2>1, <2>2 DEF TermInv, RawMode, NoEnd, Queued
<1>5. ASSUME NEW action \in {T!TCOOFF, T!TCOON, T!TCIOFF, T!TCION}, T!tcflow(action)
      PROVE  \/ UNCHANGED wire
             \/ \E b \in Nat : wire' = Append(wire, [sent |-> b, was |-> [b |-> b, c |-> attr.c]])
  <2>1. \A b \in Nat : T!Out(attr, <<b>>)[1] = [b |-> b, c |-> attr.c]
    BY DEF T!Out
  <2>2. T!STOP \in Nat /\ T!START \in Nat
    BY DEF T!STOP, T!START
  <2>. QED  BY <1>5, <2>1, <2>2 DEF T!tcflow, T!TCOOFF, T!TCOON, T!TCIOFF, T!TCION
<1>6. ASSUME T!tcsendbreak(0)
      PROVE  \E b \in Nat : wire' = Append(wire, [sent |-> b, was |-> [b |-> b, c |-> attr.c]])
  BY <1>6 DEF T!tcsendbreak, T!BREAK
<1>. QED  BY <1>2, <1>3, <1>4, <1>5, <1>6 DEF T!Control

\* Every step of the terminal keeps the invariant.
LEMMA TermInvHolds == T!Spec => []TermInv
<1>1. TermInv /\ [T!Next]_T!vars => TermInv'
  <2>. SUFFICES ASSUME TermInv, [T!Next]_T!vars PROVE TermInv'
    OBVIOUS
  <2>1. CASE UNCHANGED T!vars
    BY <2>1 DEF T!vars, TermInv, TermShape, RawMode, NoEnd, Queued, AllSent
  <2>. QED  BY <2>1, SetRawStep, RestoreStep, ReadByteStep, WriteStep, ControlStep, TransmitStep,
               TypeStep DEF T!Next
<1>. QED  BY <1>1, TermInit, PTL DEF T!Spec

\* What is typed in raw mode is read byte for byte, with no signal and no end
\* of input, whatever the attributes were before make_raw and whatever is typed.
THEOREM RawIsTransparent == T!Spec => []RawTransparent
<1>1. TermInv => RawTransparent
  BY DEF TermInv, RawMode, NoEnd, RawTransparent, T!RawTransparent
<1>. QED  BY <1>1, TermInvHolds, PTL

\* No byte is transmitted under attributes set after it was written: tcsetattr
\* and tcsetattr_with(TCSAFLUSH) wait for the output queue to empty.
THEOREM SentWhole == T!Spec => []SentAsWritten
<1>1. TermInv => SentAsWritten
  BY DEF TermInv, AllSent, Sent, SentAsWritten, T!SentAsWritten
<1>. QED  BY <1>1, TermInvHolds, PTL
=============================================================================
