------------------------------ MODULE WaitTrace ------------------------------
(***************************************************************************)
(* The two readers of a child's status word: a shell that waits for its    *)
(* jobs (JobWait) and a tracer (Tracer), each on a child of its own.       *)
(***************************************************************************)
CONSTANTS
    JobEvents, OptionSets,  \* JobWait
    Nrs, MaxOps             \* Tracer

VARIABLES
    life, event, fresh, got, told, view,
    arch, attach, tracee, traced, options, resume, regs, call, stopsig, queued,
    sent, delivered, ops, stepped, reported, tracer, status, inside, tret

W == INSTANCE JobWait
T == INSTANCE Tracer WITH ret <- tret

wvars == <<life, event, fresh, got, told, view>>
tvars == <<arch, attach, tracee, traced, options, resume, regs, call, stopsig, queued,
           sent, delivered, ops, stepped, reported, tracer, status, inside, tret>>

\* What happens to a child is what the kernel can encode in a status word.
ASSUME JobEventsAssumption == JobEvents \subseteq W!Events

-----------------------------------------------------------------------------
\* What waitpid and waitid tell a shell is the child's latest change (JobWait).
ViewIsCurrent == W!ViewIsCurrent

\* A tracer's toggle of ptrace_syscall stops follows the child in and out of
\* its calls, and syscall_nr names the call (Tracer).
EntryExitTracked == T!EntryExitTracked

\* A signal a ptrace stop intercepted reaches the child once it is resumed
\* with that signal (Tracer).
SignalsReinjected == T!SignalsReinjected
=============================================================================
