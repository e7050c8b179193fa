----------------------------- MODULE ChildWatch -----------------------------
(***************************************************************************)
(* A shell waiting for its children with the primitives of signal.rs, in   *)
(* the two disciplines their documentation gives: block SIGCHLD, check the *)
(* jobs, sigsuspend with SIGCHLD unblocked; or block SIGCHLD and read a    *)
(* signalfd. Children die at any time, SIGINT arrives, standard signals    *)
(* coalesce while pending, and handlers run, nest and return through the   *)
(* restorer that install sets up. A mask is the set of its bits.           *)
(***************************************************************************)
EXTENDS Integers, Sequences

CONSTANTS
    Arch,         \* "x86_64" or "aarch64"
    Kids,
    MaxInt        \* bound on how often SIGINT is raised

ASSUME ArchAssumption == Arch \in {"x86_64", "aarch64"}
ASSUME BoundsAssumption == MaxInt \in Nat

SIGINT == 2
SIGCHLD == 17
Signals == {SIGINT, SIGCHLD}

VARIABLES
    discipline,  \* which of the two the shell follows: "sigsuspend" or "signalfd"
    pc,       \* the shell: "install", "int", "block", "open", "check", "wait", "suspended", "restore", "done"
    mask,     \* the blocked-signal mask
    old,      \* what sigprocmask returned
    saved,    \* the mask rt_sigsuspend puts back
    fdmask,   \* the mask of the signalfd
    disp,     \* the disposition of each signal: its handler and sa_flags
    frames,   \* the handlers on the stack: signal, and mask to put back
    pending,  \* the pending signals
    kid,      \* each child: "running", "zombie" or "reaped"
    ints,     \* how often SIGINT was raised
    crashed   \* whether a handler returned into nothing

vars == <<discipline, pc, mask, old, saved, fdmask, disp, frames, pending, kid, ints, crashed>>

NoMask == {}
Default == [handler |-> "SIG_DFL", flags |-> {}]

Init ==
    /\ discipline \in {"sigsuspend", "signalfd"}
    /\ pc = "install"
    /\ mask \in {{}, {SIGINT - 1}}
    /\ old = NoMask
    /\ saved = NoMask
    /\ fdmask = NoMask
    /\ disp = [s \in Signals |-> Default]
    /\ frames = <<>>
    /\ pending = {}
    /\ kid = [k \in Kids |-> "running"]
    /\ ints = 0
    /\ crashed = FALSE

-----------------------------------------------------------------------------
(* signal.rs *)

sigmask(sig) == {sig - 1}

\* The caller's flags, with SA_RESTORER added on x86_64.
install(sig, h, flags) ==
    disp' = [disp EXCEPT ![sig] =
        [handler |-> h, flags |-> flags \cup (IF Arch = "x86_64" THEN {"SA_RESTORER"} ELSE {})]]

signal(sig, h) == install(sig, h, {"SA_RESTART"})

sigaction(sig, h, flags) == install(sig, h, flags)

\* The previous mask is returned.
sigprocmask(how, set) ==
    /\ mask' = IF how = "SIG_BLOCK" THEN mask \cup set ELSE set
    /\ old' = mask

sigsuspend_forgets(m) ==
    /\ saved' = m
    /\ mask' = m
    /\ pc' = "suspended"

\* The mask is replaced and the thread waits, in one step.
sigsuspend(m) ==
    /\ saved' = mask
    /\ mask' = m
    /\ pc' = "suspended"

signalfd(m) == fdmask' = m

-----------------------------------------------------------------------------
(* The kernel's side of signals (external). *)

Blocked(sig) == sig - 1 \in mask

\* The shell's own code runs only while no handler does.
Running == frames = <<>> /\ ~crashed

\* An unblocked pending signal is delivered, between any two steps. A signal
\* that ends a sigsuspend leaves the mask saved there to be put back; a handler
\* without SA_RESTART may find the shell in the read and make it fail (EINTR).
Deliver(sig) ==
    /\ ~crashed
    /\ sig \in pending /\ ~Blocked(sig)
    /\ pending' = pending \ {sig}
    /\ IF disp[sig].handler = "fn"
       THEN /\ frames' = Append(frames, [sig |-> sig, mask |-> IF pc = "suspended" THEN saved ELSE mask])
            /\ mask' = mask \cup {sig - 1}
            /\ \/ pc = "suspended" /\ pc' = "check"
               \/ pc = "wait" /\ discipline = "signalfd" /\ "SA_RESTART" \notin disp[sig].flags /\ pc' = "check"
               \/ pc # "suspended" /\ pc' = pc
       ELSE UNCHANGED <<frames, mask, pc>>
    /\ UNCHANGED <<discipline, old, saved, fdmask, disp, kid, ints, crashed>>

\* Only handled signals and SIGCHLD, which is ignored by default, are raised.
Raise(sig) == pending' = pending \cup {sig}

KidDies(k) ==
    /\ kid[k] = "running"
    /\ kid' = [kid EXCEPT ![k] = "zombie"]
    /\ Raise(SIGCHLD)
    /\ UNCHANGED <<discipline, pc, mask, old, saved, fdmask, disp, frames, ints, crashed>>

Interrupt ==
    /\ ints < MaxInt
    /\ disp[SIGINT].handler = "fn"
    /\ ints' = ints + 1
    /\ Raise(SIGINT)
    /\ UNCHANGED <<discipline, pc, mask, old, saved, fdmask, disp, frames, kid, crashed>>

-----------------------------------------------------------------------------
(* A handler returns: on x86_64 through sa_restorer, sigreturn_trampoline.   *)

sigreturn_trampoline ==
    LET f == frames[Len(frames)]
    IN  /\ frames # <<>> /\ ~crashed
        /\ IF Arch = "x86_64" /\ "SA_RESTORER" \notin disp[f.sig].flags
           THEN crashed' = TRUE /\ UNCHANGED <<frames, mask>>
           ELSE /\ frames' = SubSeq(frames, 1, Len(frames) - 1)
                /\ mask' = f.mask
                /\ UNCHANGED crashed
        /\ UNCHANGED <<discipline, pc, old, saved, fdmask, disp, pending, kid, ints>>

-----------------------------------------------------------------------------
(* The shell. *)

Install ==
    /\ pc = "install"
    /\ signal(SIGCHLD, "fn")
    /\ pc' = "int"
    /\ UNCHANGED <<discipline, mask, old, saved, fdmask, frames, pending, kid, ints, crashed>>

InstallInt ==
    /\ pc = "int"
    /\ sigaction(SIGINT, "fn", {})
    /\ pc' = "block"
    /\ UNCHANGED <<discipline, mask, old, saved, fdmask, frames, pending, kid, ints, crashed>>

Block ==
    /\ pc = "block"
    /\ sigprocmask("SIG_BLOCK", sigmask(SIGCHLD))
    /\ pc' = IF discipline = "signalfd" THEN "open" ELSE "check"
    /\ UNCHANGED <<discipline, saved, fdmask, disp, frames, pending, kid, ints, crashed>>

Open ==
    /\ pc = "open"
    /\ signalfd(sigmask(SIGCHLD))
    /\ pc' = "check"
    /\ UNCHANGED <<discipline, mask, old, saved, disp, frames, pending, kid, ints, crashed>>

Check_once ==
    /\ pc = "check"
    /\ \/ \E k \in Kids : kid[k] = "zombie" /\ kid' = [kid EXCEPT ![k] = "reaped"] /\ pc' = "wait"
       \/ /\ \A k \in Kids : kid[k] # "zombie"
          /\ pc' = IF \E k \in Kids : kid[k] = "running" THEN "wait" ELSE "restore"
          /\ UNCHANGED kid
    /\ UNCHANGED <<discipline, mask, old, saved, fdmask, disp, frames, pending, ints, crashed>>

\* waitpid(-1, WNOHANG) until it reports nothing.
Check ==
    /\ pc = "check"
    /\ \/ \E k \in Kids : kid[k] = "zombie" /\ kid' = [kid EXCEPT ![k] = "reaped"] /\ pc' = pc
       \/ /\ \A k \in Kids : kid[k] # "zombie"
          /\ pc' = IF \E k \in Kids : kid[k] = "running" THEN "wait" ELSE "restore"
          /\ UNCHANGED kid
    /\ UNCHANGED <<discipline, mask, old, saved, fdmask, disp, frames, pending, ints, crashed>>

Suspend ==
    /\ pc = "wait" /\ discipline = "sigsuspend"
    /\ sigsuspend(old \ sigmask(SIGCHLD))
    /\ UNCHANGED <<discipline, old, fdmask, disp, frames, pending, kid, ints, crashed>>

\* read on the signalfd: takes one pending signal of its mask, or blocks.
ReadSignalfd ==
    /\ pc = "wait" /\ discipline = "signalfd"
    /\ \E sig \in pending : sig - 1 \in fdmask /\ pending' = pending \ {sig}
    /\ pc' = "check"
    /\ UNCHANGED <<discipline, mask, old, saved, fdmask, disp, frames, kid, ints, crashed>>

Restore ==
    /\ pc = "restore"
    /\ sigprocmask("SIG_SETMASK", old)
    /\ pc' = "done"
    /\ UNCHANGED <<discipline, saved, fdmask, disp, frames, pending, kid, ints, crashed>>

Shell ==
    /\ Running
    /\ Install \/ InstallInt \/ Block \/ Open \/ Check \/ Suspend \/ ReadSignalfd \/ Restore

Kernel == \E sig \in Signals : Deliver(sig)

Next ==
    \/ Shell \/ Kernel \/ sigreturn_trampoline \/ Interrupt
    \/ \E k \in Kids : KidDies(k)

\* The shell and its handlers keep running and pending signals are delivered;
\* nothing obliges a child to die or a user to press the interrupt key.
Spec == Init /\ [][Next]_vars /\ WF_vars(Shell) /\ WF_vars(Kernel) /\ WF_vars(sigreturn_trampoline)

-----------------------------------------------------------------------------
(* Properties *)

Masks == SUBSET {s - 1 : s \in Signals}

\* "A SIGCHLD arriving in between is not lost": every child that dies is
\* reaped, wherever in the loop the shell is at that moment and even when
\* several deaths leave a single pending SIGCHLD.
DeathsNoticed == \A k \in Kids : kid[k] = "zombie" ~> kid[k] = "reaped"

\* Between sigprocmask and the restore, the shell's code runs with SIGCHLD
\* blocked, also after each sigsuspend; its mask is otherwise the one it
\* started with, and it ends up with that one.
MaskRestored ==
    frames = <<>> =>
        /\ pc \in {"open", "check", "wait", "restore"} => mask = old \cup {SIGCHLD - 1}
        /\ pc = "done" => mask = old \ {SIGCHLD - 1}

=============================================================================
