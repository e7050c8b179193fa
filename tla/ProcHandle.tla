----------------------------- MODULE ProcHandle -----------------------------
(***************************************************************************)
(* A program's handles on a child it starts (process.rs, wait.rs): the pid *)
(* number fork returns and the pidfd of pidfd_open or fork_with_pidfd,     *)
(* used by one thread to signal the child while another reaps children.    *)
(* The kernel (external) gives a pid number to one process at a time: a    *)
(* dead process keeps its number until it is reaped, then the number is    *)
(* free for anybody.                                                       *)
(***************************************************************************)
EXTENDS Integers, FiniteSets

CONSTANTS
    Pids,       \* the pid numbers of the system
    MaxProcs,   \* bound on the processes that ever exist
    HasClone3   \* whether the kernel offers clone3

ASSUME PidsAssumption == Pids \subseteq Nat \ {0}
ASSUME BoundsAssumption == MaxProcs \in Nat /\ HasClone3 \in BOOLEAN

VARIABLES
    state,   \* each process: "unborn", "running", "zombie" or "gone"
    owner,   \* the process that holds each pid number, 0 if free
    child,   \* the process this program started, 0 before
    pc,      \* its main thread: "start", "fork", "open", "main"
    pid,     \* the number fork returned, 0 before
    pidfd,   \* the process the program's pidfd refers to, 0 while it has none
    ret,     \* what the last call of the main thread returned
    reaped,  \* whether the program has waited for the child (history)
    late,    \* whether it had before pidfd_open ran (history)
    hit      \* the processes signalled, and through which handle (history)

vars == <<state, owner, child, pc, pid, pidfd, ret, reaped, late, hit>>

Procs == 1..MaxProcs

TypeOK ==
    /\ state \in [Procs -> {"unborn", "running", "zombie", "gone"}]
    /\ owner \in [Pids -> Procs \cup {0}]
    /\ \A p \in Procs : state[p] \in {"running", "zombie"} <=> \E n \in Pids : owner[n] = p
    /\ child \in Procs \cup {0}
    /\ pc \in {"start", "fork", "open", "main"}
    /\ pid \in Pids \cup {0}
    /\ pidfd \in Procs \cup {0}
    /\ ret \in {"none", "Ok", "ESRCH", "EFAULT", "ENOSYS", "EAGAIN"}
    /\ reaped \in BOOLEAN /\ late \in BOOLEAN
    /\ hit \subseteq {"pid", "pidfd"} \X Procs

Init ==
    /\ state = [p \in Procs |-> "unborn"]
    /\ owner = [n \in Pids |-> 0]
    /\ child = 0
    /\ pc = "start"
    /\ pid = 0
    /\ pidfd = 0
    /\ ret = "none"
    /\ reaped = FALSE /\ late = FALSE
    /\ hit = {}

-----------------------------------------------------------------------------
(* The kernel's process table (external). *)

\* Process p, not yet born, starts with the free number n.
Start(p, n) ==
    /\ state[p] = "unborn" /\ \A q \in Procs : q < p => state[q] # "unborn"
    /\ owner[n] = 0
    /\ state' = [state EXCEPT ![p] = "running"]
    /\ owner' = [owner EXCEPT ![n] = p]

\* p is reaped and its number is free.
Free(p) ==
    /\ state' = [state EXCEPT ![p] = "gone"]
    /\ owner' = [n \in Pids |-> IF owner[n] = p THEN 0 ELSE owner[n]]

\* An unrelated process starts; its parent reaps it as it dies.
OtherStarts ==
    /\ \E p \in Procs, n \in Pids : Start(p, n)
    /\ UNCHANGED <<child, pc, pid, pidfd, ret, reaped, late, hit>>

OtherEnds ==
    /\ \E p \in Procs \ {child} : state[p] = "running" /\ Free(p)
    /\ UNCHANGED <<child, pc, pid, pidfd, ret, reaped, late, hit>>

exit_group_unwaited ==
    /\ child # 0 /\ state[child] = "running"
    /\ Free(child)
    /\ UNCHANGED <<child, pc, pid, pidfd, ret, reaped, late, hit>>

\* The child exits (exit_group) or is killed; SIGCHLD, its exit signal, leaves
\* it waitable.
exit_group ==
    /\ child # 0 /\ state[child] = "running"
    /\ state' = [state EXCEPT ![child] = "zombie"]
    /\ UNCHANGED <<owner, child, pc, pid, pidfd, ret, reaped, late, hit>>

-----------------------------------------------------------------------------
(* The main thread. *)

Fails(e, next) ==
    /\ ret' = e
    /\ pc' = next
    /\ UNCHANGED <<state, owner, child, pid, pidfd, reaped, late, hit>>

\* The pointer field of the clone_args is left 0 by `..Default::default()`, so
\* a kernel with clone3 cannot store the pidfd and creates no process: EFAULT.
\* The program then takes the documented fallback, fork and pidfd_open.
fork_with_pidfd ==
    /\ pc = "start"
    /\ Fails(IF HasClone3 THEN "EFAULT" ELSE "ENOSYS", "fork")

fork ==
    /\ pc = "fork"
    /\ \/ Fails("EAGAIN", "fork")
       \/ /\ \E p \in Procs, n \in Pids : Start(p, n) /\ child' = p /\ pid' = n
          /\ ret' = "Ok"
          /\ pc' = "open"
          /\ UNCHANGED <<pidfd, reaped, late, hit>>

\* The process that holds the number now; none: ESRCH.
pidfd_open ==
    /\ pc = "open"
    /\ late' = reaped
    /\ pidfd' = owner[pid]
    /\ ret' = IF owner[pid] = 0 THEN "ESRCH" ELSE "Ok"
    /\ pc' = "main"
    /\ UNCHANGED <<state, owner, child, pid, reaped, hit>>

Signal(how, p) ==
    /\ ret' = IF p # 0 THEN "Ok" ELSE "ESRCH"
    /\ hit' = IF p # 0 THEN hit \cup {<<how, p>>} ELSE hit
    /\ UNCHANGED <<state, owner, child, pc, pid, pidfd, reaped, late>>

kill == pc \in {"open", "main"} /\ Signal("pid", owner[pid])

pidfd_send_signal_bypid ==
    /\ pc = "main" /\ pidfd # 0
    /\ Signal("pidfd", owner[pid])

\* ESRCH once the process has been reaped, whoever has its number now.
pidfd_send_signal ==
    /\ pc = "main" /\ pidfd # 0
    /\ Signal("pidfd", IF state[pidfd] = "gone" THEN 0 ELSE pidfd)

-----------------------------------------------------------------------------
(* The reaping thread: waitpid(pid), or waitid on the pidfd. *)

waitpid ==
    /\ child # 0 /\ state[child] = "zombie"
    /\ Free(child)
    /\ reaped' = TRUE
    /\ UNCHANGED <<child, pc, pid, pidfd, ret, late, hit>>

Next ==
    \/ OtherStarts \/ OtherEnds \/ exit_group
    \/ fork_with_pidfd \/ fork \/ pidfd_open
    \/ kill \/ pidfd_send_signal
    \/ waitpid

Spec == Init /\ [][Next]_vars

-----------------------------------------------------------------------------
(* Properties *)

\* pidfd_open's and pidfd_send_signal's promise, "a stable handle to this
\* specific process": unless the child was reaped between fork and pidfd_open,
\* the pidfd is a handle on the child and no signal sent through it reaches
\* another process, however often the number is recycled.
PidfdReachesChild ==
    ~late => /\ pidfd \in {0, child}
             /\ \A h \in hit : h[1] = "pidfd" => h[2] = child

\* Death alone does not free the number: a signal sent by kill(pid) reaches
\* another process only after the program itself has reaped the child.
KillReachesChild == ~reaped => \A h \in hit : h[1] = "pid" => h[2] = child

\* fork_with_pidfd "hands back the pidfd as part of process creation": on a
\* kernel with clone3 it returns Ok to the parent.
ForkReturnsPidfd == [][pc = "start" /\ pc' # "start" /\ HasClone3 => ret' = "Ok"]_vars
=============================================================================
