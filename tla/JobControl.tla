------------------------------ MODULE JobControl ------------------------------
(***************************************************************************)
(* Process groups, sessions, the terminal's foreground group and the       *)
(* parent-death signal (process.rs, termios.rs) as a job-control shell     *)
(* uses them: it forks the processes of a job, parent and child both call  *)
(* setpgid because either may run first, the terminal is handed to the job *)
(* and a signal is sent to all of it; a further child becomes a daemon     *)
(* with setsid. A child of the job arms a parent-death signal and then     *)
(* looks whether its parent is still there. The shell may be killed at any *)
(* moment. The kernel is external.                                         *)
(***************************************************************************)
EXTENDS Integers

CONSTANTS
    Shell,   \* the shell's pid; the leader of its session and group
    Kids,    \* the pids of the job's processes, its leader the smallest
    Daemon   \* the pid of the child that leaves the session

VARIABLES
    st,         \* each process: "unborn", "live", "zombie" or "gone"
    pgid, sid, ppid, pdeath,  \* its group, session, parent and parent-death signal
    pc,         \* each process's next step
    ret,        \* each process's last return: a number, or a negated errno
    fg,         \* the terminal's foreground group
    signalled,  \* the processes a signal for the job has reached (history)
    sent        \* whether killpg was called for the job (history)

vars == <<st, pgid, sid, ppid, pdeath, pc, ret, fg, signalled, sent>>

Procs == {Shell, Daemon} \cup Kids
Leader == CHOOSE k \in Kids : \A j \in Kids : k <= j
InitPid == 1
SIGKILL == 9
EPERM == -1
ESRCH == -3
EACCES == -13
ENOTTY == -25

Init ==
    /\ st = [p \in Procs |-> IF p = Shell THEN "live" ELSE "unborn"]
    /\ pgid = [p \in Procs |-> Shell]
    /\ sid = [p \in Procs |-> Shell]
    /\ ppid = [p \in Procs |-> IF p = Shell THEN InitPid ELSE Shell]
    /\ pdeath = [p \in Procs |-> 0]
    /\ pc = [p \in Procs |-> IF p = Shell THEN "launch" ELSE "start"]
    /\ ret = [p \in Procs |-> 0]
    /\ fg = Shell
    /\ signalled = {}
    /\ sent = FALSE

-----------------------------------------------------------------------------
(* The kernel. *)

Exists(p) == p \in Procs /\ st[p] \in {"live", "zombie"}
Members(g) == {p \in Procs : Exists(p) /\ pgid[p] = g}
Executed(p) == pc[p] = "image"

\* Whom kill(2) signals, by the sign of its argument.
Targets(caller, pid) ==
    CASE pid > 0 -> {p \in {pid} : Exists(p)}
      [] pid = 0 -> Members(pgid[caller])
      [] pid = -1 -> {p \in Procs : Exists(p)} \ {caller}
      [] pid < -1 -> Members(-pid)

\* setpgid's errors, for a target and a group no longer abbreviated by 0.
SetpgidResult(caller, p, g) ==
    CASE ~Exists(p) -> ESRCH
      [] Exists(p) /\ p # caller /\ ppid[p] # caller -> ESRCH
      [] Exists(p) /\ p # caller /\ ppid[p] = caller /\ sid[p] # sid[caller] -> EPERM
      [] Exists(p) /\ p # caller /\ ppid[p] = caller /\ sid[p] = sid[caller]
            /\ Executed(p) -> EACCES
      [] Exists(p) /\ (p = caller \/ (ppid[p] = caller /\ sid[p] = sid[caller] /\ ~Executed(p))) ->
            IF \/ sid[p] = p
               \/ g # p /\ ~\E q \in Members(g) : sid[q] = sid[caller]
            THEN EPERM ELSE 0

\* p dies: its children get their parent-death signal, SIGKILL here, and a new
\* parent, which reaps them.
Dies(p) ==
    LET orphans == {c \in Procs : Exists(c) /\ ppid[c] = p}
        killed == {c \in orphans : pdeath[c] = SIGKILL}
    IN  /\ st' = [q \in Procs |->
                    CASE q = p -> IF ppid[p] = InitPid THEN "gone" ELSE "zombie"
                      [] q # p /\ (q \in killed \/ (q \in orphans /\ st[q] = "zombie")) -> "gone"
                      [] OTHER -> st[q]]
        /\ ppid' = [q \in Procs |-> IF q \in orphans THEN InitPid ELSE ppid[q]]

-----------------------------------------------------------------------------
(* The calls, by process c. *)

getpid(c) == c
getppid(c) == ppid[c]
getpgid(c, pid) == IF pid = 0 THEN pgid[c] ELSE IF Exists(pid) THEN pgid[pid] ELSE ESRCH
getsid(c, pid) == IF pid = 0 THEN sid[c] ELSE IF Exists(pid) THEN sid[pid] ELSE ESRCH
getpgrp(c) == getpgid(c, 0)

\* Both arguments may be 0 for "self".
setpgid(c, pid, pg) ==
    LET p == IF pid = 0 THEN c ELSE pid
        g == IF pg = 0 THEN p ELSE pg
        r == SetpgidResult(c, p, g)
    IN  /\ pgid' = IF r = 0 THEN [pgid EXCEPT ![p] = g] ELSE pgid
        /\ ret' = [ret EXCEPT ![c] = r]

\* EPERM for the leader of a process group.
setsid(c) ==
    IF Members(c) = {}
    THEN /\ pgid' = [pgid EXCEPT ![c] = c]
         /\ sid' = [sid EXCEPT ![c] = c]
         /\ ret' = [ret EXCEPT ![c] = c]
    ELSE /\ ret' = [ret EXCEPT ![c] = EPERM]
         /\ UNCHANGED <<pgid, sid>>

kill(c, pid) ==
    /\ signalled' = signalled \cup Targets(c, pid)
    /\ ret' = [ret EXCEPT ![c] = IF Targets(c, pid) = {} THEN ESRCH ELSE 0]

killpg_positive(c, pgrp) == kill(c, pgrp)

killpg(c, pgrp) == kill(c, 0 - pgrp)

\* TIOCSPGRP: a group of the terminal's session.
tcsetpgrp(c, pgrp) ==
    IF \E p \in Members(pgrp) : sid[p] = Shell
    THEN fg' = pgrp /\ ret' = [ret EXCEPT ![c] = 0]
    ELSE ret' = [ret EXCEPT ![c] = IF Members(pgrp) = {} THEN ESRCH ELSE EPERM] /\ UNCHANGED fg

tcgetpgrp(c) == IF sid[c] = Shell THEN fg ELSE ENOTTY
tcgetsid(c) == IF sid[c] = Shell THEN Shell ELSE ENOTTY

prctl_unset(c, sig) == pdeath' = pdeath

\* prctl(PR_SET_PDEATHSIG, sig).
prctl(c, sig) == pdeath' = [pdeath EXCEPT ![c] = sig]

set_pdeathsig(c, sig) == prctl(c, sig) /\ ret' = [ret EXCEPT ![c] = 0]

-----------------------------------------------------------------------------
(* The programs. *)

At(c, at) == st[c] = "live" /\ pc[c] = at
Goto(c, to) == pc' = [pc EXCEPT ![c] = to]

\* Fork the smallest child not yet started, or the daemon; a new process has no
\* parent-death signal.
Fork ==
    /\ At(Shell, "launch")
    /\ \E k \in Kids \cup {Daemon} :
          /\ st[k] = "unborn" /\ (k \in Kids => \A j \in Kids : j < k => st[j] # "unborn")
          /\ st' = [st EXCEPT ![k] = "live"]
          /\ pgid' = [pgid EXCEPT ![k] = getpgrp(Shell)]
          /\ sid' = [sid EXCEPT ![k] = getsid(Shell, 0)]
          /\ pdeath' = [pdeath EXCEPT ![k] = 0]
          /\ ret' = [ret EXCEPT ![Shell] = k, ![k] = 0]
          /\ Goto(Shell, IF k = Daemon THEN "launch" ELSE "place")
    /\ UNCHANGED <<ppid, fg, signalled, sent>>

\* The parent's setpgid; it does not look at the result, the child may have won.
PlaceChild ==
    /\ At(Shell, "place")
    /\ setpgid(Shell, ret[Shell], Leader)
    /\ Goto(Shell, IF \A k \in Kids : st[k] # "unborn" THEN "foreground" ELSE "launch")
    /\ UNCHANGED <<st, sid, ppid, pdeath, fg, signalled, sent>>

Foreground ==
    /\ At(Shell, "foreground") /\ tcgetsid(Shell) = getsid(Shell, 0)
    /\ tcsetpgrp(Shell, Leader)
    /\ Goto(Shell, "main")
    /\ UNCHANGED <<st, pgid, sid, ppid, pdeath, signalled, sent>>

SignalJob ==
    /\ At(Shell, "main") /\ ~sent
    /\ killpg(Shell, Leader)
    /\ sent' = TRUE
    /\ UNCHANGED <<st, pgid, sid, ppid, pdeath, pc, fg>>

\* A character typed at the terminal signals its foreground group.
Keyboard ==
    /\ At(Shell, "main") /\ tcgetpgrp(Shell) # getpgid(Shell, 0)
    /\ signalled' = signalled \cup Members(tcgetpgrp(Shell))
    /\ UNCHANGED <<st, pgid, sid, ppid, pdeath, pc, ret, fg, sent>>

Reap ==
    /\ At(Shell, "main")
    /\ \E k \in Kids : st[k] = "zombie" /\ st' = [st EXCEPT ![k] = "gone"]
    /\ UNCHANGED <<pgid, sid, ppid, pdeath, pc, ret, fg, signalled, sent>>

\* The job is over: the terminal is taken back.
TakeBack ==
    /\ At(Shell, "main") /\ \A k \in Kids : st[k] = "gone"
    /\ tcsetpgrp(Shell, getpgrp(Shell))
    /\ Goto(Shell, "done")
    /\ UNCHANGED <<st, pgid, sid, ppid, pdeath, signalled, sent>>

ShellKilled ==
    /\ st[Shell] = "live"
    /\ Dies(Shell)
    /\ UNCHANGED <<pgid, sid, pdeath, pc, ret, fg, signalled, sent>>

\* A child of the job before its execve: group, parent-death signal, check.
KidGroup(k) ==
    /\ At(k, "start")
    /\ setpgid(k, 0, IF getpid(k) = Leader THEN 0 ELSE Leader)
    /\ Goto(k, "arm")
    /\ UNCHANGED <<st, sid, ppid, pdeath, fg, signalled, sent>>

KidArms(k) ==
    /\ At(k, "arm")
    /\ set_pdeathsig(k, SIGKILL)
    /\ Goto(k, "check")
    /\ UNCHANGED <<st, pgid, sid, ppid, fg, signalled, sent>>

KidChecks(k) ==
    /\ At(k, "check") /\ getppid(k) = Shell
    /\ Goto(k, "image")
    /\ UNCHANGED <<st, pgid, sid, ppid, pdeath, ret, fg, signalled, sent>>

KidExits(k) ==
    /\ st[k] = "live"
    /\ pc[k] = "image" \/ (pc[k] = "check" /\ getppid(k) # Shell)
    /\ Dies(k)
    /\ UNCHANGED <<pgid, sid, pdeath, pc, ret, fg, signalled, sent>>

DaemonLeaves ==
    /\ At(Daemon, "start")
    /\ setsid(Daemon)
    /\ Goto(Daemon, "image")
    /\ UNCHANGED <<st, ppid, pdeath, fg, signalled, sent>>

KidSteps(k) == KidGroup(k) \/ KidArms(k) \/ KidChecks(k)

Next ==
    \/ Fork \/ PlaceChild \/ Foreground \/ SignalJob \/ Keyboard \/ Reap \/ TakeBack
    \/ ShellKilled \/ DaemonLeaves
    \/ \E k \in Kids : KidSteps(k) \/ KidExits(k)

\* A child runs on until it has checked its parent; a program it then executes
\* may run for ever.
Fairness ==
    \A k \in Kids : /\ WF_vars(KidSteps(k))
                    /\ WF_vars(getppid(k) # Shell /\ pc[k] = "check" /\ KidExits(k))

Spec == Init /\ [][Next]_vars /\ Fairness
-----------------------------------------------------------------------------
(* Properties *)

\* killpg sends to "every process in process group `pgrp`", and the terminal to
\* its foreground group: whichever of parent and child got to setpgid first, a
\* signal for the job reaches each of its processes and neither the shell nor
\* the daemon.
SignalReachesJob ==
    /\ signalled \subseteq Kids
    /\ sent => \A k \in Kids : Exists(k) /\ ppid[k] = Shell => k \in signalled

\* set_pdeathsig is "the standard fix for orphaned children surviving a
\* crashed/killed parent": with the look at getppid after arming it, no child
\* of the job outlives the shell, whenever the shell is killed.
OrphansDie ==
    \A k \in Kids : (st[Shell] = "gone" /\ st[k] # "unborn") ~> st[k] = "gone"

=============================================================================
