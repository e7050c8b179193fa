------------------------------ MODULE FdTable ------------------------------
(***************************************************************************)
(* The descriptor operations of fd.rs and openpty (tty.rs), called by      *)
(* threads that share one descriptor table. Each thread uses only numbers  *)
(* it was given; openpty takes several system calls, each of which may     *)
(* fail while the other threads go on. The table, the terminals and        *)
(* x86_64's dup2 are the kernel's (external). One step is one system call. *)
(***************************************************************************)
EXTENDS Integers, Sequences

CONSTANTS
    Threads,
    Fds,        \* the numbers the table has room for
    PtyNumbers, \* the numbers the kernel gives pseudo-terminals
    MaxCalls    \* bound on the calls of all threads

VARIABLES
    arch,    \* "x86_64" or "aarch64"
    table,   \* what each number refers to
    locked,  \* pseudo-terminals whose slave cannot be opened yet
    pc,      \* each thread: "idle", or where it is in openpty
    master,  \* the number openpty opened for the master, -1 outside
    ptn,     \* openpty's device number
    owned,   \* the numbers each thread holds
    did,     \* the dup2 or openpty this step completed: arguments, result
    calls    \* calls begun

vars == <<arch, table, locked, pc, master, ptn, owned, did, calls>>

EBADF == -9
EIO == -5     \* stands for any error of openpty's calls
EMFILE == -24
EINVAL == -22
None == -1

Object == [kind : {"file", "pipe", "master", "slave"}, pty : PtyNumbers \cup {None}, cloexec : BOOLEAN]
Free == [kind |-> "free", pty |-> None, cloexec |-> FALSE]

Open(t) == {fd \in Fds : t[fd] # Free}
IsOpen(t, fd) == fd \in Fds /\ t[fd] # Free
FreeFds == Fds \ Open(table)
Lowest(S) == CHOOSE fd \in S : \A g \in S : fd <= g
Plain(kind) == [kind |-> kind, pty |-> None, cloexec |-> FALSE]
Pty(kind, n) == [kind |-> kind, pty |-> n, cloexec |-> FALSE]

\* The kernel's ptys: a number is taken while either end is open.
Taken(n) == \E fd \in Fds : table[fd].pty = n
HasMaster(n) == \E fd \in Fds : table[fd].kind = "master" /\ table[fd].pty = n

Nothing == [op |-> "none", args |-> <<>>, ret |-> 0]

Init ==
    /\ arch \in {"x86_64", "aarch64"}
    /\ table = [fd \in Fds |-> Free]
    /\ locked = {}
    /\ pc = [t \in Threads |-> "idle"]
    /\ master = [t \in Threads |-> None]
    /\ ptn = [t \in Threads |-> None]
    /\ owned = [t \in Threads |-> {}]
    /\ did = Nothing
    /\ calls = 0

Begin(t) ==
    /\ pc[t] = "idle" /\ calls < MaxCalls
    /\ calls' = calls + 1

Did(op, args, ret) ==
    did' = IF op \in {"dup2", "openpty"} THEN [op |-> op, args |-> args, ret |-> ret] ELSE Nothing

Gains(t, fds) == owned' = [owned EXCEPT ![t] = @ \cup fds]

-----------------------------------------------------------------------------
(* Calls that are one system call. *)

Refuse(op, args, e) == Did(op, args, e) /\ UNCHANGED <<table, owned>>

NewFd(t, op, args, object) ==
    IF FreeFds = {} THEN Refuse(op, args, EMFILE)
    ELSE LET fd == Lowest(FreeFds)
         IN  /\ table' = [table EXCEPT ![fd] = object]
             /\ Gains(t, {fd})
             /\ Did(op, args, fd)

open(t, cloexec) == NewFd(t, "open", <<>>, [Plain("file") EXCEPT !.cloexec = cloexec])

pipe2(t, cloexec) ==
    LET r == Lowest(FreeFds)
        w == Lowest(FreeFds \ {r})
        end == [Plain("pipe") EXCEPT !.cloexec = cloexec]
    IN  IF FreeFds = {} \/ FreeFds = {r} THEN Refuse("pipe2", <<>>, EMFILE)
        ELSE /\ table' = [table EXCEPT ![r] = end, ![w] = end]
             /\ Gains(t, {r, w})
             /\ Did("pipe2", <<>>, 0)

dup(t, fd) ==
    IF ~IsOpen(table, fd) THEN Refuse("dup", <<fd>>, EBADF)
    ELSE NewFd(t, "dup", <<fd>>, [table[fd] EXCEPT !.cloexec = FALSE])

\* What the dup2 and dup3 system calls do with two different numbers.
DupOnto(t, op, o, n, cloexec) ==
    /\ table' = [table EXCEPT ![n] = [table[o] EXCEPT !.cloexec = cloexec]]
    /\ Gains(t, {n})
    /\ Did(op, <<o, n>>, n)

DupDifferent(t, op, o, n, cloexec) ==
    IF ~IsOpen(table, o) \/ n \notin Fds THEN Refuse(op, <<o, n>>, EBADF)
    ELSE DupOnto(t, op, o, n, cloexec)

dup3(t, o, n, cloexec) ==
    IF o = n THEN Refuse("dup3", <<o, n>>, EINVAL) ELSE DupDifferent(t, "dup3", o, n, cloexec)

\* fcntl(fd, F_GETFD): an error for a number that is not open.
fcntl_getfd(fd) == IsOpen(table, fd)

\* x86_64's system call.
SysDup2(t, o, n) ==
    IF o = n THEN Did("dup2", <<o, n>>, IF IsOpen(table, o) THEN n ELSE EBADF) /\ UNCHANGED <<table, owned>>
    ELSE DupDifferent(t, "dup2", o, n, FALSE)

\* aarch64: equal numbers are checked with fcntl, others go to dup3.
dup2(t, o, n) ==
    IF arch = "x86_64" THEN SysDup2(t, o, n)
    ELSE IF o = n
         THEN Refuse("dup2", <<o, n>>, IF fcntl_getfd(o) THEN n ELSE EBADF)
         ELSE DupDifferent(t, "dup2", o, n, FALSE)

\* fcntl(fd, F_SETFD, ..).
fcntl_setfd(t, fd, cloexec) ==
    /\ table' = [table EXCEPT ![fd] = [@ EXCEPT !.cloexec = cloexec]]
    /\ Did("setfd", <<fd>>, 0)
    /\ UNCHANGED owned

close(t, fd) ==
    /\ table' = [table EXCEPT ![fd] = Free]
    /\ owned' = [owned EXCEPT ![t] = @ \ {fd}]
    /\ Did("close", <<fd>>, 0)

\* A thread names its own numbers and ones that are not open.
Usable(t) == owned[t] \cup FreeFds \cup {None}

Call(t) ==
    /\ Begin(t)
    /\ \/ \E c \in BOOLEAN : open(t, c) \/ pipe2(t, c)
       \/ \E o \in Usable(t) : dup(t, o)
       \/ \E o, n \in Usable(t) : dup2(t, o, n) \/ \E c \in BOOLEAN : dup3(t, o, n, c)
       \/ \E fd \in owned[t] : close(t, fd) \/ \E c \in BOOLEAN : fcntl_setfd(t, fd, c)
    /\ UNCHANGED <<arch, locked, pc, master, ptn>>

-----------------------------------------------------------------------------
(* openpty. *)

Goto(t, p) == pc' = [pc EXCEPT ![t] = p]

\* The digits of a number, least significant first.
Digits(n) ==
    LET digits[m \in 0..n] == IF m < 10 THEN <<m>> ELSE <<m % 10>> \o digits[m \div 10]
    IN  digits[n]

format_pts_path_unreversed(n) == Digits(n)

\* The path's digits; digits[..len].reverse() puts them in order.
format_pts_path(n) ==
    LET d == Digits(n) IN [i \in 1..Len(d) |-> d[Len(d) + 1 - i]]

\* The terminal a path names, to the kernel.
Named(path) ==
    LET value[i \in 0..Len(path)] == IF i = 0 THEN 0 ELSE 10 * value[i - 1] + path[i]
    IN  value[Len(path)]

OpenMaster(t) ==
    /\ Begin(t)
    /\ \/ /\ FreeFds # {}
          /\ \E n \in {m \in PtyNumbers : ~Taken(m)} :
                /\ table' = [table EXCEPT ![Lowest(FreeFds)] = Pty("master", n)]
                /\ locked' = locked \cup {n}
          /\ master' = [master EXCEPT ![t] = Lowest(FreeFds)]
          /\ Goto(t, "unlock")
          /\ did' = Nothing
          /\ UNCHANGED owned
       \/ /\ Refuse("openpty", <<>>, EIO)
          /\ UNCHANGED <<locked, pc, master>>
    /\ UNCHANGED <<arch, ptn>>

\* An ioctl or the second open fails; close(master) comes next.
StepFails(t) ==
    /\ Goto(t, "cleanup")
    /\ did' = Nothing
    /\ UNCHANGED <<arch, table, locked, master, ptn, owned, calls>>

\* ioctl(master, TIOCSPTLCK, 0).
Unlock(t) ==
    /\ pc[t] = "unlock"
    /\ \/ /\ locked' = locked \ {table[master[t]].pty}
          /\ Goto(t, "number")
          /\ did' = Nothing
          /\ UNCHANGED <<arch, table, master, ptn, owned, calls>>
       \/ StepFails(t)

GetNumber_leak(t) ==
    /\ pc[t] = "number"
    /\ \/ ptn' = [ptn EXCEPT ![t] = table[master[t]].pty] /\ Goto(t, "slave") /\ did' = Nothing /\ UNCHANGED master
       \/ /\ Goto(t, "idle") /\ master' = [master EXCEPT ![t] = None]
          /\ Did("openpty", <<>>, EIO) /\ UNCHANGED ptn
    /\ UNCHANGED <<arch, table, locked, owned, calls>>

\* ioctl(master, TIOCGPTN).
GetNumber(t) ==
    /\ pc[t] = "number"
    /\ \/ /\ ptn' = [ptn EXCEPT ![t] = table[master[t]].pty]
          /\ Goto(t, "slave")
          /\ did' = Nothing
          /\ UNCHANGED <<arch, table, locked, master, owned, calls>>
       \/ StepFails(t)

\* open of the slave's path: Ok((master, slave)), or an error.
OpenSlave(t) ==
    LET n == Named(format_pts_path(ptn[t]))
        fd == Lowest(FreeFds)
    IN  /\ pc[t] = "slave"
        /\ \/ /\ FreeFds # {} /\ HasMaster(n) /\ n \notin locked
              /\ table' = [table EXCEPT ![fd] = Pty("slave", n)]
              /\ Gains(t, {master[t], fd})
              /\ Did("openpty", <<master[t], fd>>, 0)
              /\ master' = [master EXCEPT ![t] = None]
              /\ ptn' = [ptn EXCEPT ![t] = None]
              /\ Goto(t, "idle")
              /\ UNCHANGED <<arch, locked, calls>>
           \/ StepFails(t)

\* close(master), then Err(e).
Cleanup(t) ==
    /\ pc[t] = "cleanup"
    /\ table' = [table EXCEPT ![master[t]] = Free]
    /\ locked' = locked \ {table[master[t]].pty}
    /\ master' = [master EXCEPT ![t] = None]
    /\ ptn' = [ptn EXCEPT ![t] = None]
    /\ Goto(t, "idle")
    /\ Did("openpty", <<>>, EIO)
    /\ UNCHANGED <<arch, owned, calls>>

openpty(t) == OpenMaster(t) \/ Unlock(t) \/ GetNumber(t) \/ OpenSlave(t) \/ Cleanup(t)

Next == \E t \in Threads : Call(t) \/ openpty(t)

Spec == Init /\ [][Next]_vars

-----------------------------------------------------------------------------
(* Properties *)

\* openpty cleans up after itself and after nobody else: whatever fails, and
\* whoever takes numbers meanwhile, every open number is held by exactly one
\* thread or is the master of an openpty still running.
Holds(t) == owned[t] \cup IF pc[t] = "idle" THEN {} ELSE {master[t]}
Accounted ==
    /\ Open(table) = UNION {Holds(t) : t \in Threads}
    /\ \A t, u \in Threads : t # u => Holds(t) \cap Holds(u) = {}

\* openpty returns the two ends of one pseudo-terminal, also while another
\* thread's pseudo-terminal is open: the path built from the device number
\* names the slave of its own master.
PtyPair ==
    [][\A t \in Threads : pc[t] = "slave" /\ pc'[t] = "idle" =>
         LET m == did'.args[1]
             s == did'.args[2]
         IN  /\ m = master[t] /\ m # s
             /\ table'[m].kind = "master" /\ table'[s].kind = "slave"
             /\ table'[m].pty = table'[s].pty]_vars

=============================================================================
