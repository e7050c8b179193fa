-------------------------------- MODULE Tracer --------------------------------
(***************************************************************************)
(* A tracer built on ptrace.rs and waitpid: it follows a child from stop   *)
(* to stop, tells syscall-stops from signals with is_syscall_stop, keeps   *)
(* its own count of entry and exit (the module leaves that to it), reads   *)
(* the registers, re-injects the signals it meets, single-steps, lets the  *)
(* child run or detaches; it may be killed at any moment. The child either *)
(* calls ptrace_traceme and stops itself, or is seized while it runs. The  *)
(* kernel's side of ptrace(2) is external.                                 *)
(***************************************************************************)
EXTENDS WaitStatus

CONSTANTS
    Nrs,       \* the numbers of the system calls the child makes
    MaxOps     \* bound on its system calls

VARIABLES
    arch,      \* "x86_64" or "aarch64"
    attach,    \* "traceme" or "seize": how the child comes to be traced
    tracee,    \* "user", "kernel" (in a call), "entry", "exit", "sigstop", "step", "dead"
    traced, options, \* whether it is traced, and the PTRACE_O_* bits
    resume,    \* how it was last resumed: "syscall", "cont" or "step"
    regs,      \* its registers (GpRegs)
    call,      \* the number of the call it is in or was last in (history)
    stopsig,   \* the signal of a signal-stop
    queued,    \* signals sent and not yet intercepted or delivered
    sent, delivered, ops,  \* counts (history)
    stepped,   \* whether it was ever resumed for a single step (history)
    reported,  \* whether the current stop or death was reported by waitpid
    tracer,    \* "wait", "handle", "done" or "dead"
    status,    \* the last status word waitpid returned
    inside,    \* the tracer's count: TRUE between an entry and its exit
    ret        \* the last ptrace return: 0, or a negated errno

conf == <<arch, attach>>
mode == <<traced, options, resume, stepped>>
cpu == <<regs, call, ops>>
sigs == <<stopsig, queued, sent, delivered>>
mine == <<tracer, status, inside>>
vars == <<conf, tracee, mode, cpu, sigs, reported, mine, ret>>

ESRCH == -3
SIGSTOP == 19
SIGUSR1 == 10
Stops == {"entry", "exit", "sigstop", "step"}

PTRACE_O_EXITKILL == "EXITKILL"
PTRACE_O_TRACESYSGOOD == "TRACESYSGOOD"

-----------------------------------------------------------------------------
(* Registers. *)

\* Of GpRegs: x86_64 has the call's number in orig_rax, and in rax until the
\* return value replaces it; aarch64 has x8, and x0 for the value.
RegsAtEntry(nr) == IF arch = "x86_64" THEN [orig_rax |-> nr, rax |-> nr] ELSE [x8 |-> nr, x0 |-> 0]
RegsAtExit(r, v) ==
    IF arch = "x86_64" THEN [orig_rax |-> r.orig_rax, rax |-> v] ELSE [x8 |-> r.x8, x0 |-> v]

syscall_nr_rax(r) == IF arch = "x86_64" THEN r.rax ELSE r.x8

syscall_nr(r) == IF arch = "x86_64" THEN r.orig_rax ELSE r.x8

-----------------------------------------------------------------------------
Init ==
    /\ arch \in {"x86_64", "aarch64"} /\ attach \in {"traceme", "seize"}
    /\ tracee = "user" /\ traced = FALSE /\ options = {} /\ resume = "cont"
    /\ regs = RegsAtEntry(0) /\ call = 0 /\ stopsig = 0
    /\ queued = {} /\ sent = {} /\ delivered = {} /\ ops = 0 /\ stepped = FALSE
    /\ reported = TRUE
    /\ tracer = "wait" /\ status = 0 /\ inside = FALSE /\ ret = 0

-----------------------------------------------------------------------------
(* The child, and the stops the kernel makes of what it does (external). *)

StopsAt(kind) == tracee' = kind /\ reported' = FALSE

\* Before it is traced, a child that is to call ptrace_traceme does nothing else.
Running ==
    /\ tracee = "user"
    /\ attach = "traceme" => traced \/ tracer \in {"done", "dead"}

\* ptrace_traceme, then kill(getpid(), SIGSTOP): a first stop to wait for.
ptrace_traceme ==
    /\ attach = "traceme" /\ tracee = "user" /\ ~traced /\ tracer = "wait"
    /\ traced' = TRUE /\ stopsig' = SIGSTOP /\ StopsAt("sigstop")
    /\ UNCHANGED <<conf, options, resume, stepped, cpu, queued, sent, delivered, mine, ret>>

Enters ==
    /\ Running /\ ops < MaxOps
    /\ \E nr \in Nrs : call' = nr /\ regs' = RegsAtEntry(nr)
    /\ ops' = ops + 1
    /\ IF traced /\ resume = "syscall" THEN StopsAt("entry")
       ELSE tracee' = "kernel" /\ UNCHANGED reported
    /\ UNCHANGED <<conf, mode, sigs, mine, ret>>

Leaves ==
    /\ tracee = "kernel"
    /\ regs' = RegsAtExit(regs, 0)
    /\ IF traced /\ resume = "syscall" THEN StopsAt("exit")
       ELSE IF traced /\ resume = "step" THEN StopsAt("step")
       ELSE tracee' = "user" /\ UNCHANGED reported
    /\ UNCHANGED <<conf, mode, call, ops, sigs, mine, ret>>

\* One instruction that is not a call.
Steps ==
    /\ Running /\ traced /\ resume = "step"
    /\ StopsAt("step")
    /\ UNCHANGED <<conf, mode, cpu, sigs, mine, ret>>

\* A signal is sent: SIGUSR1 by somebody, SIGTRAP by the child itself.
Signalled(s) ==
    /\ tracee # "dead" /\ s \notin sent
    /\ s = SIGTRAP => Running
    /\ sent' = sent \cup {s} /\ queued' = queued \cup {s}
    /\ UNCHANGED <<conf, tracee, mode, cpu, stopsig, delivered, reported, mine, ret>>

\* A traced child stops for it; another takes it.
TakesSignal(s) ==
    /\ Running /\ s \in queued
    /\ queued' = queued \ {s}
    /\ IF traced THEN StopsAt("sigstop") /\ stopsig' = s /\ UNCHANGED delivered
       ELSE delivered' = delivered \cup {s} /\ UNCHANGED <<tracee, reported, stopsig>>
    /\ UNCHANGED <<conf, mode, cpu, sent, mine, ret>>

Exits ==
    /\ Running /\ queued = {}
    /\ StopsAt("dead")
    /\ UNCHANGED <<conf, mode, cpu, sigs, mine, ret>>

\* The change of state wait4 reports for a stop.
StopEvent ==
    IF tracee \in {"entry", "exit"} /\ PTRACE_O_TRACESYSGOOD \in options
    THEN [kind |-> "syscall", value |-> SIGTRAP, core |-> FALSE, trace |-> 0]
    ELSE [kind |-> "stopped", value |-> IF tracee = "sigstop" THEN stopsig ELSE SIGTRAP,
          core |-> FALSE, trace |-> 0]

\* A resume request by the tracer's thread: ESRCH unless the child is in a
\* ptrace-stop.
Resume(how, sig) ==
    /\ IF traced /\ tracee \in Stops
       THEN /\ ret' = 0
            /\ resume' = how /\ stepped' = (stepped \/ how = "step")
            /\ tracee' = IF tracee = "entry" THEN "kernel" ELSE "user"
            /\ delivered' = IF sig # 0 /\ tracee = "sigstop" THEN delivered \cup {sig}
                            ELSE delivered
       ELSE ret' = ESRCH /\ UNCHANGED <<resume, stepped, tracee, delivered>>
    /\ UNCHANGED <<conf, options, cpu, stopsig, queued, sent, reported>>

-----------------------------------------------------------------------------
(* ptrace.rs. *)

\* Attaches without stopping; the options are set with it.
ptrace_seize(opts) ==
    /\ IF tracee # "dead" /\ ~traced
       THEN traced' = TRUE /\ options' = opts /\ ret' = 0
       ELSE ret' = ESRCH /\ UNCHANGED <<traced, options>>
    /\ UNCHANGED <<conf, tracee, resume, stepped, cpu, sigs, reported>>

ptrace_cont(sig) == Resume("cont", sig) /\ UNCHANGED traced
ptrace_singlestep(sig) == Resume("step", sig) /\ UNCHANGED traced

ptrace_syscall_nosig(sig) == Resume("syscall", 0) /\ UNCHANGED traced

ptrace_syscall(sig) == Resume("syscall", sig) /\ UNCHANGED traced
ptrace_detach(sig) == Resume("cont", sig) /\ traced' = FALSE

\* The mask replaces the one set before.
ptrace_setoptions(opts) == options' = opts

ptrace_getregset == regs
ptrace_setregset(r) == regs' = r

-----------------------------------------------------------------------------
(* The tracer. *)

Both == {PTRACE_O_EXITKILL, PTRACE_O_TRACESYSGOOD}

Seize ==
    /\ attach = "seize" /\ tracer = "wait" /\ ~traced /\ tracee \in {"user", "kernel"}
    /\ ptrace_seize(Both)
    /\ UNCHANGED mine

\* A call from a thread that is not the tracer fails and changes nothing.
OtherThread ==
    /\ tracer \in {"wait", "handle"} /\ traced
    /\ ret' = ESRCH
    /\ UNCHANGED <<conf, tracee, mode, cpu, sigs, reported, mine>>

\* waitpid reports each stop once, and the death.
WaitStop ==
    /\ tracer = "wait" /\ ~reported
    /\ status' = IF tracee = "dead" THEN 0 ELSE Encode(StopEvent)
    /\ reported' = TRUE
    /\ tracer' = IF wifstopped(status') THEN "handle" ELSE "done"
    /\ UNCHANGED <<conf, tracee, mode, cpu, sigs, inside, ret>>

\* The first stop of a child that called ptrace_traceme: set the options.
FirstStop ==
    /\ tracer = "handle" /\ options = {} /\ wstopsig(status) = SIGSTOP
    /\ ptrace_setoptions(Both)
    /\ UNCHANGED <<conf, tracee, traced, resume, stepped, cpu, sigs, reported, mine, ret>>

\* What to re-inject: the signal of a signal-stop, nothing for the handshake, a
\* syscall-stop, or the SIGTRAP that ends a single step.
Inject ==
    IF \/ is_syscall_stop(status)
       \/ wstopsig(status) = SIGSTOP
       \/ resume = "step" /\ wstopsig(status) = SIGTRAP
    THEN 0 ELSE wstopsig(status)

\* At an exit-stop the tracer may put back the registers it read.
WriteBack ==
    /\ tracer = "handle" /\ is_syscall_stop(status) /\ inside
    /\ ptrace_setregset(ptrace_getregset)
    /\ ret' = 0
    /\ UNCHANGED <<conf, tracee, mode, call, ops, sigs, reported, mine>>

\* Handle a stop: count it if it is a syscall-stop, resume. A tracer that lets
\* the child run from an entry-stop will not see the exit.
Handle ==
    /\ tracer = "handle" /\ options # {}
    /\ \/ ptrace_syscall(Inject) /\ inside' = (is_syscall_stop(status) # inside)
       \/ ptrace_cont(Inject) /\ inside' = FALSE
       \/ ptrace_singlestep(Inject) /\ inside' = FALSE
    /\ tracer' = "wait"
    /\ UNCHANGED status

Detach ==
    /\ tracer = "handle" /\ options # {}
    /\ ptrace_detach(Inject)
    /\ tracer' = "done" /\ inside' = FALSE
    /\ UNCHANGED status

\* The tracer is killed: the kernel kills the child or lets it go.
TracerDies ==
    /\ tracer \in {"wait", "handle"}
    /\ tracer' = "dead" /\ traced' = FALSE
    /\ tracee' = IF traced /\ PTRACE_O_EXITKILL \in options THEN "dead"
                 ELSE IF tracee \in Stops THEN "user" ELSE tracee
    /\ UNCHANGED <<conf, options, resume, stepped, cpu, sigs, reported, status, inside, ret>>

Next ==
    \/ ptrace_traceme \/ Enters \/ Leaves \/ Steps \/ Exits
    \/ \E s \in {SIGTRAP, SIGUSR1} : Signalled(s) \/ TakesSignal(s)
    \/ Seize \/ OtherThread \/ WaitStop \/ FirstStop \/ WriteBack \/ Handle \/ Detach
    \/ TracerDies

Spec == Init /\ [][Next]_vars

-----------------------------------------------------------------------------
(* Properties *)

\* "PTRACE_SYSCALL stops strictly alternate entry/exit/entry/exit, so a tracer
\* ... has to track that sequencing itself": with PTRACE_O_TRACESYSGOOD set and
\* is_syscall_stop deciding, the tracer's own count is right at every stop,
\* signals and the child's own SIGTRAP in between notwithstanding, and the
\* number it reads from the registers is the call's at entry and at exit.
EntryExitTracked ==
    tracer = "handle" /\ options # {} =>
        /\ is_syscall_stop(status) <=> tracee \in {"entry", "exit"}
        /\ tracee = "entry" => ~inside
        /\ tracee = "exit" => inside
        /\ is_syscall_stop(status) => syscall_nr(ptrace_getregset) = call

\* Each resume request is documented as "optionally re-injecting `signal`": a
\* tracer that passes on the stop's signal loses none, whichever request it
\* resumes with. (While single-stepping a SIGTRAP the child raised cannot be
\* told from the end of the step.)
SignalsReinjected ==
    \A s \in sent :
        \/ s \in queued \cup delivered \/ (tracee = "sigstop" /\ stopsig = s)
        \/ tracee = "dead" \/ tracer = "dead"
        \/ s = SIGTRAP /\ stepped
=============================================================================
