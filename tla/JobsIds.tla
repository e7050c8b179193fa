------------------------------- MODULE JobsIds -------------------------------
(***************************************************************************)
(* What a process belongs to: the groups and sessions of a shell's jobs    *)
(* (JobControl), and the ids a program runs under (Credentials).           *)
(***************************************************************************)
EXTENDS Naturals

CONSTANTS
    Shell, Kids, Daemon,             \* JobControl
    Threads, First, Ids, GroupLists  \* Credentials

VARIABLES
    st, pgid, sid, ppid, pdeath, jpc, jret, fg, signalled, jsent,
    cred, cpc, cret, dropped

J == INSTANCE JobControl WITH pc <- jpc, ret <- jret, sent <- jsent
C == INSTANCE Credentials WITH pc <- cpc, ret <- cret

jvars == <<st, pgid, sid, ppid, pdeath, jpc, jret, fg, signalled, jsent>>
cvars == <<cred, cpc, cret, dropped>>

\* Pids are positive, 1 is init's, and the job has a first process.
ASSUME JobPidsAssumption ==
    /\ Kids \subseteq Nat /\ Shell \in Nat /\ Daemon \in Nat
    /\ \A p \in Kids \cup {Shell, Daemon} : p > 1
    /\ Shell \notin Kids /\ Daemon \notin Kids /\ Shell # Daemon
    /\ \E k \in Kids : \A j \in Kids : k <= j

-----------------------------------------------------------------------------
\* killpg reaches every process of the job and nobody else (JobControl).
SignalReachesJob == J!SignalReachesJob

\* A child that set its parent-death signal and then looked at its parent does
\* not outlive the shell (JobControl).
OrphansDie == J!OrphansDie

\* A thread that dropped its ids with setgroups, setresgid and setresuid never
\* has another id again (Credentials).
DroppedForGood == C!DroppedForGood
=============================================================================
