--------------------------- MODULE ChildrenProofs ---------------------------
(***************************************************************************)
(* What a program knows of its children. JobWait and Tracer: what a shell  *)
(* learns by waiting for a child, and what a tracer knows of the one it    *)
(* follows, for any events, options, system calls and number of            *)
(* operations. ProcHandle: the handles a program has of its child reach    *)
(* that child, for any set of pid numbers and any number of processes.     *)
(* Each theorem is of its component's own specification; an invariant,     *)
(* with what makes it inductive, stands at the head of each part.          *)
(***************************************************************************)
EXTENDS ProcHandle, WaitTrace, Sequences, TLAPS

-----------------------------------------------------------------------------
(* JobWait. *)

\* Once the kernel holds no unreported change the view is right; while it holds
\* one, that change is an event the kernel can encode.
WaitInv ==
    /\ event \in W!Events \cup {W!NoEvent}
    /\ fresh \in BOOLEAN
    /\ fresh => event \in W!Events
    /\ W!ViewIsCurrent

\* The helpers' verdict on the word of each kind of event: exactly one of them
\* claims it, and reads the value the kernel put in.
LEMMA ExitedWord ==
  ASSUME NEW e \in W!Exited, NEW old
  PROVE  W!Decode(W!Result(W!ChildPid, W!Encode(e)), old) = W!Meaning(e)
<1>. DEFINE s == W!Encode(e)
<1>1. e.kind = "exited" /\ e.value \in 0..255
  BY DEF W!Exited
<1>2. s = e.value * 256 /\ s \in Int
  BY <1>1 DEF W!Encode
<1>3. s % 128 = 0 /\ (s \div 256) % 256 = e.value /\ s % 256 = 0 /\ s # 65535
  <2>1. \A v \in 0..255 : (v * 256) % 256 = 0 /\ (v * 256) % 128 = 0
    OBVIOUS
  <2>2. \A v \in 0..255 : (v * 256) \div 256 = v /\ v % 256 = v
    OBVIOUS
  <2>. QED  BY <1>1, <1>2, <2>1, <2>2
<1>4. /\ W!wifexited(s) /\ ~W!wifsignaled(s)
      /\ ~W!wifstopped(s) /\ ~W!wifcontinued(s) /\ ~W!is_syscall_stop(s)
  BY <1>3 DEF W!wifexited, W!wifsignaled, W!wifstopped, W!wifcontinued, W!is_syscall_stop
<1>. HIDE DEF s
<1>5. W!Decode(W!Result(W!ChildPid, s), old) = [state |-> "exited", info |-> W!wexitstatus(s)]
  BY <1>4 DEF W!Decode, W!Result, W!ChildPid
<1>. QED  BY <1>1, <1>3, <1>5 DEF W!Meaning, W!wexitstatus, s

LEMMA SignaledWord ==
  ASSUME NEW e \in W!Signaled, NEW old
  PROVE  W!Decode(W!Result(W!ChildPid, W!Encode(e)), old) = W!Meaning(e)
<1>. DEFINE s == W!Encode(e)
<1>1. e.kind = "signaled" /\ e.value \in 1..64
  BY DEF W!Signaled
<1>2. s \in {e.value, e.value + 128} /\ s \in Int
  BY <1>1 DEF W!Encode
<1>3. s % 128 = e.value /\ s % 256 # 127 /\ s # 65535
  BY <1>1, <1>2
<1>4. /\ ~W!wifexited(s) /\ W!wifsignaled(s)
      /\ ~W!wifstopped(s) /\ ~W!wifcontinued(s) /\ ~W!is_syscall_stop(s)
  BY <1>1, <1>3 DEF W!wifexited, W!wifsignaled, W!wifstopped, W!wifcontinued, W!is_syscall_stop
<1>. HIDE DEF s
<1>5. W!Decode(W!Result(W!ChildPid, s), old) = [state |-> "signaled", info |-> W!wtermsig(s)]
  BY <1>4 DEF W!Decode, W!Result, W!ChildPid
<1>. QED  BY <1>1, <1>3, <1>5 DEF W!Meaning, W!wtermsig, s

LEMMA StoppedWord ==
  ASSUME NEW e \in W!Stopped, NEW old
  PROVE  W!Decode(W!Result(W!ChildPid, W!Encode(e)), old) = W!Meaning(e)
<1>. DEFINE s == W!Encode(e)
<1>. DEFINE t == e.trace  v == e.value
<1>1. e.kind = "stopped" /\ v \in 1..64 /\ t \in 0..128
  BY DEF W!Stopped
<1>2. s = t * 65536 + v * 256 + 127
  BY <1>1 DEF W!Encode
<1>. HIDE DEF t, v, s
<1>3. s % 128 = 127 /\ s % 256 = 127 /\ s # 65535
  BY <1>1, <1>2
<1>4. (s \div 256) % 256 = v
  <2>1. s \div 256 = t * 256 + v
    BY <1>1, <1>2
  <2>2. (t * 256 + v) % 256 = v
    BY <1>1
  <2>. QED  BY <2>1, <2>2
<1>5. /\ ~W!wifexited(s) /\ ~W!wifsignaled(s) /\ W!wifstopped(s) /\ ~W!wifcontinued(s)
      /\ ~W!is_syscall_stop(s)
  BY <1>1, <1>3, <1>4
     DEF W!wifexited, W!wifsignaled, W!wifstopped, W!wifcontinued, W!is_syscall_stop, W!wstopsig,
         W!SIGTRAP
<1>. HIDE DEF s
<1>6. W!Decode(W!Result(W!ChildPid, s), old) = [state |-> "stopped", info |-> W!wstopsig(s)]
  BY <1>5 DEF W!Decode, W!Result, W!ChildPid
<1>. QED  BY <1>1, <1>4, <1>6 DEF W!Meaning, W!wstopsig, s, v

LEMMA SyscallWord ==
  ASSUME NEW e \in W!SyscallStop, NEW old
  PROVE  W!Decode(W!Result(W!ChildPid, W!Encode(e)), old) = W!Meaning(e)
<1>. DEFINE s == W!Encode(e)
<1>1. e.kind = "syscall" /\ e.value = W!SIGTRAP
  BY DEF W!SyscallStop
<1>2. s = 34175
  BY <1>1 DEF W!Encode, W!SIGTRAP
<1>3. s % 128 = 127 /\ s % 256 = 127 /\ (s \div 256) % 256 = 133
  BY <1>2
<1>4. /\ ~W!wifexited(s) /\ ~W!wifsignaled(s) /\ W!wifstopped(s) /\ ~W!wifcontinued(s)
      /\ W!is_syscall_stop(s)
  BY <1>2, <1>3
     DEF W!wifexited, W!wifsignaled, W!wifstopped, W!wifcontinued, W!is_syscall_stop, W!wstopsig,
         W!SIGTRAP
<1>. HIDE DEF s
<1>5. W!Decode(W!Result(W!ChildPid, s), old) = [state |-> "syscall", info |-> W!SIGTRAP]
  BY <1>4 DEF W!Decode, W!Result, W!ChildPid
<1>. QED  BY <1>1, <1>5 DEF W!Meaning, s

LEMMA ContinuedWord ==
  ASSUME NEW e \in W!Continued, NEW old
  PROVE  W!Decode(W!Result(W!ChildPid, W!Encode(e)), old) = W!Meaning(e)
<1>. DEFINE s == W!Encode(e)
<1>1. e.kind = "continued"
  BY DEF W!Continued
<1>2. s = 65535
  BY <1>1 DEF W!Encode
<1>3. s % 128 = 127 /\ s % 256 = 255
  BY <1>2
<1>4. /\ ~W!wifexited(s) /\ ~W!wifsignaled(s) /\ ~W!wifstopped(s) /\ W!wifcontinued(s)
      /\ ~W!is_syscall_stop(s)
  BY <1>2, <1>3 DEF W!wifexited, W!wifsignaled, W!wifstopped, W!wifcontinued, W!is_syscall_stop
<1>. HIDE DEF s
<1>5. W!Decode(W!Result(W!ChildPid, s), old) = W!Running
  BY <1>4 DEF W!Decode, W!Result, W!ChildPid
<1>. QED  BY <1>1, <1>5 DEF W!Meaning, s

\* wait.rs's helpers decode the status word of every event the kernel can
\* report to exactly that event: one helper claims it, and it reads the exit
\* code or signal that was put in, core-dump bit and ptrace event code aside.
THEOREM StatusRoundTrip ==
  \A e \in W!Events : \A old : W!Decode(W!Result(W!ChildPid, W!Encode(e)), old) = W!Meaning(e)
BY ExitedWord, SignaledWord, StoppedWord, SyscallWord, ContinuedWord, Zenon DEF W!Events

\* So does the Siginfo, of a child that is not traced.
LEMMA SiginfoRoundTrip ==
  ASSUME NEW e \in W!Events, e.kind # "syscall"
  PROVE  W!DecodeSiginfo(W!Siginfo(e)) = W!Meaning(e)
<1>. DEFINE code == W!Siginfo(e).si_code
<1>. USE DEF W!CLD
<1>1. CASE e \in W!Exited
  <2>1. e.kind = "exited"
    BY <1>1 DEF W!Exited
  <2>2. W!Siginfo(e).si_code = 1 /\ W!Siginfo(e).si_status = e.value
    BY <2>1 DEF W!Siginfo
  <2>. QED  BY <2>1, <2>2 DEF W!DecodeSiginfo, W!Meaning
<1>2. CASE e \in W!Signaled
  <2>1. e.kind = "signaled"
    BY <1>2 DEF W!Signaled
  <2>2. W!Siginfo(e).si_code \in {2, 3} /\ W!Siginfo(e).si_status = e.value
    BY <2>1 DEF W!Siginfo
  <2>. QED  BY <2>1, <2>2 DEF W!DecodeSiginfo, W!Meaning
<1>3. CASE e \in W!Stopped
  <2>1. e.kind = "stopped"
    BY <1>3 DEF W!Stopped
  <2>2. W!Siginfo(e).si_code = 5 /\ W!Siginfo(e).si_status = e.value
    BY <2>1 DEF W!Siginfo
  <2>. QED  BY <2>1, <2>2 DEF W!DecodeSiginfo, W!Meaning
<1>4. CASE e \in W!Continued
  <2>1. e.kind = "continued"
    BY <1>4 DEF W!Continued
  <2>2. W!Siginfo(e).si_code = 6
    BY <2>1 DEF W!Siginfo
  <2>. QED  BY <2>1, <2>2 DEF W!DecodeSiginfo, W!Meaning
<1>5. e \notin W!SyscallStop
  BY DEF W!SyscallStop
<1>. QED  BY <1>1, <1>2, <1>3, <1>4, <1>5, Zenon DEF W!Events

LEMMA WaitInit == W!Init => WaitInv
<1>1. W!Meaning(W!NoEvent) = W!Running
  BY DEF W!Meaning, W!NoEvent
<1>. QED  BY <1>1 DEF W!Init, WaitInv, W!ViewIsCurrent

\* A call that finds nothing to report leaves the view alone.
LEMMA NothingKeepsView ==
  ASSUME NEW opts, W!NothingToReport(opts)
  PROVE  view' = view
<1>1. got'.pid # W!ChildPid
  BY DEF W!NothingToReport, W!ECHILD, W!Nothing, W!Result, W!ChildPid
<1>. QED  BY <1>1 DEF W!NothingToReport, W!Decode

LEMMA WaitStep == WaitInv /\ [W!Next]_W!vars => WaitInv'
<1>. SUFFICES ASSUME WaitInv, [W!Next]_W!vars PROVE WaitInv'
  OBVIOUS
<1>1. ASSUME NEW e \in JobEvents, W!Happens(e) PROVE WaitInv'
  BY <1>1, JobEventsAssumption DEF WaitInv, W!Happens, W!ViewIsCurrent
<1>2. ASSUME NEW opts, W!NothingToReport(opts) PROVE WaitInv'
  BY <1>2, NothingKeepsView DEF WaitInv, W!NothingToReport, W!ViewIsCurrent
<1>3. ASSUME NEW opts \in OptionSets, W!waitpid(opts) PROVE WaitInv'
  <2>1. CASE W!NothingToReport(opts)
    BY <1>2, <2>1
  <2>2. CASE ~W!NothingToReport(opts)
    <3>1. /\ fresh /\ event' = event /\ fresh' = FALSE
          /\ view' = W!Decode(W!Result(W!ChildPid, W!Encode(event)), view)
      BY <1>3, <2>2 DEF W!waitpid, W!Reportable, W!Consume
    <3>2. view' = W!Meaning(event)
      BY <3>1, StatusRoundTrip DEF WaitInv
    <3>. QED  BY <3>1, <3>2 DEF WaitInv, W!ViewIsCurrent
  <2>. QED  BY <2>1, <2>2
<1>4. ASSUME NEW opts \in OptionSets, W!waitid(opts) PROVE WaitInv'
  <2>1. CASE W!NothingToReport(opts)
    BY <1>2, <2>1
  <2>2. CASE ~W!NothingToReport(opts)
    <3>1. /\ fresh /\ event' = event /\ fresh' \in BOOLEAN /\ event.kind # "syscall"
          /\ view' = W!DecodeSiginfo(W!Siginfo(event))
      BY <1>4, <2>2 DEF W!waitid, W!Reportable, W!Consume, WaitInv
    <3>2. view' = W!Meaning(event)
      BY <3>1, SiginfoRoundTrip DEF WaitInv
    <3>. QED  BY <3>1, <3>2 DEF WaitInv, W!ViewIsCurrent
  <2>. QED  BY <2>1, <2>2
<1>5. CASE UNCHANGED W!vars
  BY <1>5 DEF W!vars, WaitInv, W!ViewIsCurrent
<1>. QED  BY <1>1, <1>3, <1>4, <1>5 DEF W!Next

\* A shell's entry for a child is the child's last change whenever the kernel
\* has nothing more to report, whatever options waitpid and waitid were given
\* and whatever happened to the child between the calls.
THEOREM ViewCurrent == W!Spec => []ViewIsCurrent
<1>1. WaitInv => ViewIsCurrent
  BY DEF WaitInv, ViewIsCurrent
<1>. QED  BY <1>1, WaitInit, WaitStep, PTL DEF W!Spec

-----------------------------------------------------------------------------
(* Tracer. *)

\* The tracer has not let go of the child.
Tracing == tracer \in {"wait", "handle"}

TraceShape ==
    /\ tracee \in {"user", "kernel", "dead"} \cup T!Stops
    /\ options \in {{}, T!Both}
    /\ resume \in {"syscall", "cont", "step"}
    /\ traced \in BOOLEAN /\ reported \in BOOLEAN /\ inside \in BOOLEAN /\ stepped \in BOOLEAN
    /\ tracer \in {"wait", "handle", "done", "dead"}
    /\ sent \subseteq {T!SIGTRAP, T!SIGUSR1}
    /\ tracee = "sigstop" => stopsig \in {T!SIGSTOP, T!SIGTRAP, T!SIGUSR1}
    /\ resume = "step" => stepped

\* The register syscall_nr reads survives the return value.
RegsHoldCall ==
    /\ arch = "x86_64" => regs = [orig_rax |-> call, rax |-> regs.rax]
    /\ arch # "x86_64" => regs = [x8 |-> call, x0 |-> regs.x0]

\* Where the child can be, by how it was resumed; the tracer's count is TRUE
\* exactly between an entry-stop it resumed with ptrace_syscall and the exit.
Follows ==
    Tracing =>
        /\ ~traced => resume = "cont" /\ tracee \in {"user", "kernel", "dead"}
        /\ traced /\ options = {} => tracee = "sigstop" /\ stopsig = T!SIGSTOP
        /\ tracee \in {"entry", "exit"} => resume = "syscall"
        /\ inside <=> tracee = "exit" \/ (tracee = "kernel" /\ resume = "syscall")
        /\ ~reported => tracee \in T!Stops \cup {"dead"}

\* The stop being handled is the one whose word waitpid returned.
Handling ==
    tracer = "handle" => tracee \in T!Stops /\ reported /\ status = T!Encode(T!StopEvent)

TraceInv == TraceShape /\ RegsHoldCall /\ Follows /\ Handling /\ T!SignalsReinjected

\* What is_syscall_stop and wstopsig make of a stop's status word.
LEMMA StopWord ==
  ASSUME TraceShape, tracee \in T!Stops
  PROVE  LET w == T!Encode(T!StopEvent)
             reportedAsCall == tracee \in {"entry", "exit"} /\ T!PTRACE_O_TRACESYSGOOD \in options
         IN  /\ T!wifstopped(w)
             /\ T!is_syscall_stop(w) <=> reportedAsCall
             /\ ~reportedAsCall => T!wstopsig(w) = IF tracee = "sigstop" THEN stopsig ELSE T!SIGTRAP
<1>. DEFINE w == T!Encode(T!StopEvent)
            byCall == tracee \in {"entry", "exit"} /\ T!PTRACE_O_TRACESYSGOOD \in options
            v == IF tracee = "sigstop" THEN stopsig ELSE T!SIGTRAP
<1>1. v \in {5, 10, 19}
  BY DEF TraceShape, T!SIGTRAP, T!SIGSTOP, T!SIGUSR1
<1>2. CASE byCall
  <2>1. w = 34175
    BY <1>2 DEF T!StopEvent, T!Encode, T!SIGTRAP
  <2>2. w % 256 = 127 /\ (w \div 256) % 256 = 133
    BY <2>1
  <2>. QED  BY <1>2, <2>2 DEF T!wifstopped, T!is_syscall_stop, T!wstopsig, T!SIGTRAP
<1>3. CASE ~byCall
  <2>1. w = v * 256 + 127
    BY <1>1, <1>3 DEF T!StopEvent, T!Encode
  <2>. HIDE DEF w, v
  <2>2. w % 256 = 127 /\ (w \div 256) % 256 = v
    BY <1>1, <2>1
  <2>3. T!wifstopped(w) /\ ~T!is_syscall_stop(w) /\ T!wstopsig(w) = v
    BY <1>1, <2>2 DEF T!wifstopped, T!is_syscall_stop, T!wstopsig, T!SIGTRAP
  <2>. QED  BY <1>3, <2>3 DEF w, v
<1>. QED  BY <1>2, <1>3

LEMMA TraceInit == T!Init => TraceInv
<1>. SUFFICES ASSUME T!Init PROVE TraceInv
  OBVIOUS
<1>1. TraceShape /\ Follows
  BY DEF T!Init, TraceShape, Follows
<1>2. RegsHoldCall
  BY DEF T!Init, RegsHoldCall, T!RegsAtEntry
<1>3. Handling /\ T!SignalsReinjected
  BY DEF T!Init, Handling, T!SignalsReinjected
<1>. QED  BY <1>1, <1>2, <1>3 DEF TraceInv

\* The child's own steps and what happens to it.
LEMMA TraceChild ==
  ASSUME TraceInv,
         \/ T!ptrace_traceme \/ T!Enters \/ T!Leaves \/ T!Steps \/ T!Exits
         \/ \E s \in {T!SIGTRAP, T!SIGUSR1} : T!Signalled(s) \/ T!TakesSignal(s)
  PROVE  TraceInv'
<1>. USE DEF TraceInv, Tracing, T!StopsAt, T!Running, T!conf, T!mode, T!cpu, T!sigs, T!mine
<1>1. CASE T!ptrace_traceme
  <2>1. TraceShape' /\ RegsHoldCall'
    BY <1>1 DEF T!ptrace_traceme, TraceShape, RegsHoldCall, T!Stops
  <2>2. Follows' /\ Handling'
    BY <1>1 DEF T!ptrace_traceme, TraceShape, Follows, Handling, T!Stops
  <2>3. T!SignalsReinjected'
    BY <1>1 DEF T!ptrace_traceme, T!SignalsReinjected
  <2>. QED  BY <2>1, <2>2, <2>3
<1>2. CASE T!Enters
  <2>1. TraceShape'
    BY <1>2 DEF T!Enters, TraceShape, T!Stops
  <2>2. RegsHoldCall'
    BY <1>2 DEF T!Enters, RegsHoldCall, T!RegsAtEntry
  <2>3. Follows' /\ Handling'
    BY <1>2 DEF T!Enters, TraceShape, Follows, Handling, T!Stops
  <2>4. T!SignalsReinjected'
    BY <1>2 DEF T!Enters, T!SignalsReinjected
  <2>. QED  BY <2>1, <2>2, <2>3, <2>4
<1>3. CASE T!Leaves
  <2>1. TraceShape'
    BY <1>3 DEF T!Leaves, TraceShape, T!Stops
  <2>2. RegsHoldCall'
    BY <1>3 DEF T!Leaves, RegsHoldCall, T!RegsAtExit
  <2>3. Follows' /\ Handling'
    BY <1>3 DEF T!Leaves, TraceShape, Follows, Handling, T!Stops
  <2>4. T!SignalsReinjected'
    BY <1>3 DEF T!Leaves, T!SignalsReinjected
  <2>. QED  BY <2>1, <2>2, <2>3, <2>4
<1>4. CASE T!Steps
  <2>1. TraceShape' /\ RegsHoldCall'
    BY <1>4 DEF T!Steps, TraceShape, RegsHoldCall, T!Stops
  <2>2. Follows' /\ Handling'
    BY <1>4 DEF T!Steps, TraceShape, Follows, Handling, T!Stops
  <2>3. T!SignalsReinjected'
    BY <1>4 DEF T!Steps, T!SignalsReinjected
  <2>. QED  BY <2>1, <2>2, <2>3
<1>5. CASE T!Exits
  <2>1. TraceShape' /\ RegsHoldCall'
    BY <1>5 DEF T!Exits, TraceShape, RegsHoldCall
  <2>2. Follows' /\ Handling'
    BY <1>5 DEF T!Exits, TraceShape, Follows, Handling, T!Stops
  <2>3. T!SignalsReinjected'
    BY <1>5 DEF T!Exits, T!SignalsReinjected
  <2>. QED  BY <2>1, <2>2, <2>3
<1>6. ASSUME NEW s \in {T!SIGTRAP, T!SIGUSR1}, T!Signalled(s) PROVE TraceInv'
  <2>1. TraceShape' /\ RegsHoldCall'
    BY <1>6 DEF T!Signalled, TraceShape, RegsHoldCall
  <2>2. Follows' /\ Handling'
    BY <1>6 DEF T!Signalled, Follows, Handling, T!StopEvent
  <2>3. T!SignalsReinjected'
    BY <1>6 DEF T!Signalled, T!SignalsReinjected
  <2>. QED  BY <2>1, <2>2, <2>3
<1>7. ASSUME NEW s \in {T!SIGTRAP, T!SIGUSR1}, T!TakesSignal(s) PROVE TraceInv'
  <2>1. TraceShape'
    BY <1>7 DEF T!TakesSignal, TraceShape, T!Stops
  <2>2. RegsHoldCall'
    BY <1>7 DEF T!TakesSignal, RegsHoldCall
  <2>3. Follows' /\ Handling'
    BY <1>7 DEF T!TakesSignal, TraceShape, Follows, Handling, T!Stops
  <2>4. T!SignalsReinjected'
    BY <1>7 DEF T!TakesSignal, T!SignalsReinjected
  <2>. QED  BY <2>1, <2>2, <2>3, <2>4
<1>. QED  BY <1>1, <1>2, <1>3, <1>4, <1>5, <1>6, <1>7

\* A signal-stop's signal is the one the tracer injects, unless a single step
\* hides a SIGTRAP or it is the handshake.
LEMMA InjectsTheSignal ==
  ASSUME TraceInv, tracer = "handle", tracee = "sigstop", stopsig \in {T!SIGTRAP, T!SIGUSR1}
  PROVE  T!Inject = stopsig \/ (stopsig = T!SIGTRAP /\ stepped)
<1>1. ~T!is_syscall_stop(status) /\ T!wstopsig(status) = stopsig
  BY StopWord DEF TraceInv, Handling, T!Stops
<1>. QED  BY <1>1 DEF T!Inject, TraceInv, TraceShape, T!SIGTRAP, T!SIGUSR1, T!SIGSTOP

\* Resuming the child from the stop being handled, with any request.
LEMMA TraceResume ==
  ASSUME TraceInv, tracer = "handle", options # {}, NEW how \in {"syscall", "cont", "step"},
         T!Resume(how, T!Inject), UNCHANGED status,
         inside' \in BOOLEAN,
         \/ /\ UNCHANGED traced /\ tracer' = "wait"
            /\ inside' <=> how = "syscall" /\ tracee = "entry"
         \/ traced' = FALSE /\ tracer' = "done"
  PROVE  TraceInv'
<1>. USE DEF TraceInv, Tracing, T!conf, T!cpu
<1>1. traced /\ tracee \in T!Stops /\ reported
  BY DEF Handling, Follows, T!Stops, TraceShape
<1>2. /\ resume' = how /\ stepped' = (stepped \/ how = "step")
      /\ tracee' = IF tracee = "entry" THEN "kernel" ELSE "user"
      /\ delivered' = IF T!Inject # 0 /\ tracee = "sigstop"
                      THEN delivered \cup {T!Inject} ELSE delivered
      /\ UNCHANGED <<arch, attach, options, regs, call, ops, stopsig, queued, sent, reported>>
  BY <1>1 DEF T!Resume
<1>3. TraceShape' /\ RegsHoldCall'
  BY <1>1, <1>2 DEF TraceShape, RegsHoldCall
<1>4. Follows' /\ Handling'
  BY <1>1, <1>2 DEF Follows, Handling, TraceShape, T!Stops
<1>5. T!SignalsReinjected'
  <2>. SUFFICES ASSUME NEW s \in sent
                PROVE  (\/ s \in queued \cup delivered \/ (tracee = "sigstop" /\ stopsig = s)
                        \/ tracee = "dead" \/ tracer = "dead"
                        \/ s = T!SIGTRAP /\ stepped)'
    BY <1>2 DEF T!SignalsReinjected
  <2>1. s \in {T!SIGTRAP, T!SIGUSR1} /\ s # 0
    BY DEF TraceShape, T!SIGTRAP, T!SIGUSR1
  <2>2. CASE tracee = "sigstop" /\ stopsig = s
    BY <1>2, <2>1, <2>2, InjectsTheSignal
  <2>3. CASE ~(tracee = "sigstop" /\ stopsig = s)
    BY <1>1, <1>2, <2>1, <2>3 DEF T!SignalsReinjected, T!Stops, TraceShape
  <2>. QED  BY <2>2, <2>3
<1>. QED  BY <1>3, <1>4, <1>5

\* The tracer's steps.
LEMMA TraceTracer ==
  ASSUME TraceInv,
         \/ T!Seize \/ T!OtherThread \/ T!WaitStop \/ T!FirstStop
         \/ T!WriteBack \/ T!Handle \/ T!Detach \/ T!TracerDies
  PROVE  TraceInv'
<1>. USE DEF TraceInv, Tracing, T!conf, T!mode, T!cpu, T!sigs, T!mine
<1>1. CASE T!Seize
  <2>1. TraceShape' /\ RegsHoldCall'
    BY <1>1 DEF T!Seize, T!ptrace_seize, TraceShape, RegsHoldCall
  <2>2. Follows' /\ Handling'
    BY <1>1 DEF T!Seize, T!ptrace_seize, TraceShape, Follows, Handling, T!Both
  <2>3. T!SignalsReinjected'
    BY <1>1 DEF T!Seize, T!ptrace_seize, T!SignalsReinjected
  <2>. QED  BY <2>1, <2>2, <2>3
<1>2. CASE T!OtherThread
  <2>1. TraceShape'
    BY <1>2 DEF T!OtherThread, TraceShape
  <2>2. RegsHoldCall'
    BY <1>2 DEF T!OtherThread, RegsHoldCall
  <2>3. Follows' /\ Handling'
    BY <1>2 DEF T!OtherThread, Follows, Handling, T!StopEvent
  <2>4. T!SignalsReinjected'
    BY <1>2 DEF T!OtherThread, T!SignalsReinjected
  <2>. QED  BY <2>1, <2>2, <2>3, <2>4
<1>3. CASE T!WaitStop
  <2>1. TraceShape' /\ RegsHoldCall'
    BY <1>3 DEF T!WaitStop, TraceShape, RegsHoldCall
  <2>2. tracee # "dead" => tracee \in T!Stops
    BY <1>3 DEF T!WaitStop, Follows
  <2>3. tracer' = "handle" => tracee \in T!Stops
    <3>1. ~T!wifstopped(0)
      BY DEF T!wifstopped
    <3>. QED  BY <1>3, <2>2, <3>1 DEF T!WaitStop
  <2>4. Follows'
    BY <1>3 DEF T!WaitStop, Follows
  <2>5. Handling'
    BY <1>3, <2>3 DEF T!WaitStop, Handling, T!StopEvent, T!Stops
  <2>6. T!SignalsReinjected'
    BY <1>3 DEF T!WaitStop, T!SignalsReinjected
  <2>. QED  BY <2>1, <2>4, <2>5, <2>6
<1>4. CASE T!FirstStop
  <2>1. TraceShape' /\ T!SignalsReinjected'
    BY <1>4 DEF T!FirstStop, T!ptrace_setoptions, TraceShape, T!SignalsReinjected
  <2>4. RegsHoldCall'
    BY <1>4 DEF T!FirstStop, T!ptrace_setoptions, RegsHoldCall
  <2>2. traced /\ tracee = "sigstop"
    BY <1>4 DEF T!FirstStop, Handling, Follows, T!Stops
  <2>3. Follows' /\ Handling'
    BY <1>4, <2>2 DEF T!FirstStop, T!ptrace_setoptions, Follows, Handling, T!StopEvent, T!Both
  <2>. QED  BY <2>1, <2>3, <2>4
<1>5. CASE T!WriteBack
  BY <1>5 DEF T!WriteBack, T!ptrace_setregset, T!ptrace_getregset, TraceShape, RegsHoldCall,
              Follows,
              Handling, T!SignalsReinjected, T!StopEvent
<1>6. CASE T!Handle
  <2>1. T!is_syscall_stop(status) <=> tracee \in {"entry", "exit"}
    <3>1. TraceShape /\ tracee \in T!Stops /\ status = T!Encode(T!StopEvent) /\ options = T!Both
      BY <1>6 DEF T!Handle, Handling, TraceShape
    <3>. QED  BY <3>1, StopWord DEF T!Both
  <2>2. inside <=> tracee = "exit"
    BY <1>6 DEF T!Handle, Handling, Follows, T!Stops
  <2>3. CASE T!ptrace_syscall(T!Inject) /\ inside' = (T!is_syscall_stop(status) # inside)
    <3>1. inside' \in BOOLEAN /\ (inside' <=> ~(T!is_syscall_stop(status) <=> inside))
      <4>1. T!is_syscall_stop(status) \in BOOLEAN /\ inside \in BOOLEAN
        BY DEF T!is_syscall_stop, T!wifstopped, TraceShape
      <4>. QED  BY <2>3, <4>1
    <3>2. inside' <=> tracee = "entry"
      BY <2>1, <2>2, <3>1
    <3>. QED  BY <1>6, <2>3, <3>1, <3>2, TraceResume DEF T!Handle, T!ptrace_syscall
  <2>4. CASE T!ptrace_cont(T!Inject) /\ inside' = FALSE
    BY <1>6, <2>4, TraceResume DEF T!Handle, T!ptrace_cont
  <2>5. CASE T!ptrace_singlestep(T!Inject) /\ inside' = FALSE
    BY <1>6, <2>5, TraceResume DEF T!Handle, T!ptrace_singlestep
  <2>. QED  BY <1>6, <2>3, <2>4, <2>5 DEF T!Handle
<1>7. CASE T!Detach
  BY <1>7, TraceResume DEF T!Detach, T!ptrace_detach
<1>8. CASE T!TracerDies
  <2>1. TraceShape'
    BY <1>8 DEF T!TracerDies, TraceShape, T!Stops
  <2>2. RegsHoldCall'
    BY <1>8 DEF T!TracerDies, RegsHoldCall
  <2>3. Follows' /\ Handling' /\ T!SignalsReinjected'
    BY <1>8 DEF T!TracerDies, Follows, Handling, T!SignalsReinjected
  <2>. QED  BY <2>1, <2>2, <2>3
<1>. QED  BY <1>1, <1>2, <1>3, <1>4, <1>5, <1>6, <1>7, <1>8

LEMMA TraceInvHolds == T!Spec => []TraceInv
<1>1. TraceInv /\ [T!Next]_T!vars => TraceInv'
  <2>. SUFFICES ASSUME TraceInv, [T!Next]_T!vars PROVE TraceInv'
    OBVIOUS
  <2>1. CASE T!Next
    BY <2>1, TraceChild, TraceTracer DEF T!Next
  <2>2. CASE UNCHANGED T!vars
    <3>0. /\ UNCHANGED <<arch, attach, tracee, traced, options, resume, regs, call, stopsig>>
          /\ UNCHANGED <<queued, sent, delivered, ops, stepped, reported, tracer, status>>
          /\ UNCHANGED <<inside, tret>>
      BY <2>2 DEF T!vars, T!conf, T!mode, T!cpu, T!sigs, T!mine
    <3>1. TraceShape'
      BY <3>0 DEF TraceInv, TraceShape
    <3>2. RegsHoldCall'
      BY <3>0 DEF TraceInv, RegsHoldCall
    <3>3. Follows' /\ Handling'
      BY <3>0 DEF TraceInv, Follows, Handling, T!StopEvent, Tracing
    <3>4. T!SignalsReinjected'
      BY <3>0 DEF TraceInv, T!SignalsReinjected
    <3>. QED  BY <3>1, <3>2, <3>3, <3>4 DEF TraceInv
  <2>. QED  BY <2>1, <2>2
<1>. QED  BY <1>1, TraceInit, PTL DEF T!Spec

\* A tracer that sets PTRACE_O_TRACESYSGOOD and asks is_syscall_stop has the
\* right idea of entry and exit at every stop, for any calls and signals, and
\* syscall_nr names the call.
THEOREM EntryExit == T!Spec => []EntryExitTracked
<1>1. TraceInv => EntryExitTracked
  <2>. SUFFICES ASSUME TraceInv, tracer = "handle", options # {}
       PROVE  /\ T!is_syscall_stop(status) <=> tracee \in {"entry", "exit"}
              /\ tracee = "entry" => ~inside
              /\ tracee = "exit" => inside
              /\ T!is_syscall_stop(status) => T!syscall_nr(T!ptrace_getregset) = call
    BY DEF EntryExitTracked, T!EntryExitTracked
  <2>1. TraceShape /\ tracee \in T!Stops /\ status = T!Encode(T!StopEvent) /\ options = T!Both
    BY DEF TraceInv, Handling, TraceShape
  <2>2. T!is_syscall_stop(status) <=> tracee \in {"entry", "exit"}
    BY <2>1, StopWord DEF T!Both
  <2>3. (tracee = "entry" => ~inside) /\ (tracee = "exit" => inside)
    BY DEF TraceInv, Follows, Tracing
  <2>4. T!syscall_nr(regs) = call
    BY DEF TraceInv, RegsHoldCall, T!syscall_nr
  <2>. QED  BY <2>2, <2>3, <2>4 DEF T!ptrace_getregset
<1>. QED  BY <1>1, TraceInvHolds, PTL

\* A signal sent to a traced child is still pending, at its signal-stop, or
\* delivered: the requests re-inject what the tracer passes them.
THEOREM NoSignalLost == T!Spec => []SignalsReinjected
<1>1. TraceInv => SignalsReinjected
  BY DEF TraceInv, SignalsReinjected
<1>. QED  BY <1>1, TraceInvHolds, PTL

-----------------------------------------------------------------------------
(* ProcHandle. Until the program waits for the child, the child holds the   *)
(* number that fork returned.                                               *)

\* One process per number and one number per process.
Injective == \A a, b \in Pids : owner[a] = owner[b] /\ owner[a] # 0 => a = b

\* Before fork there is nothing to signal and no handle; after it there is.
Phases ==
    /\ pc \in {"start", "fork"} => child = 0 /\ pidfd = 0 /\ hit = {}
    /\ pc \in {"open", "main"} => child \in Procs /\ pid \in Pids
    /\ pc # "main" => late = FALSE
    /\ reaped => child # 0

\* The child holds the number fork returned until the program reaps it.
Holds ==
    /\ child # 0 /\ ~reaped => state[child] \in {"running", "zombie"} /\ owner[pid] = child
    /\ reaped => state[child] = "gone"

IInv == TypeOK /\ Injective /\ Phases /\ Holds /\ PidfdReachesChild /\ KillReachesChild

LEMMA InitIInv == Init => IInv
<1> SUFFICES ASSUME Init PROVE IInv
  OBVIOUS
<1>0. 0 \notin Procs
  BY BoundsAssumption DEF Procs
<1>1. TypeOK
  <2>1. \A p \in Procs : state[p] \in {"running", "zombie"} <=> \E n \in Pids : owner[n] = p
    BY <1>0 DEF Init
  <2>2. reaped \in BOOLEAN /\ late \in BOOLEAN
    BY DEF Init
  <2>3. QED
    BY <2>1, <2>2 DEF Init, TypeOK
<1>2. Injective
  BY DEF Init, Injective
<1>3. Phases /\ Holds
  BY DEF Init, Phases, Holds
<1>4. PidfdReachesChild /\ KillReachesChild
  BY DEF Init, PidfdReachesChild, KillReachesChild
<1>5. QED
  BY <1>1, <1>2, <1>3, <1>4 DEF IInv

\* What birth and reaping do to the table.
LEMMA StartTable ==
  ASSUME TypeOK, Injective, NEW p \in Procs, NEW m \in Pids, Start(p, m)
  PROVE  /\ state' \in [Procs -> {"unborn", "running", "zombie", "gone"}]
         /\ owner' \in [Pids -> Procs \cup {0}]
         /\ \A q \in Procs : state'[q] \in {"running", "zombie"} <=> \E k \in Pids : owner'[k] = q
         /\ Injective'
         /\ \A q \in Procs : q # p => state'[q] = state[q]
         /\ \A k \in Pids : k # m => owner'[k] = owner[k]
         /\ state[p] = "unborn" /\ state'[p] = "running"
         /\ owner[m] = 0 /\ owner'[m] = p
<1> USE BoundsAssumption
<1>1. /\ state' \in [Procs -> {"unborn", "running", "zombie", "gone"}]
      /\ owner' \in [Pids -> Procs \cup {0}]
      /\ \A q \in Procs : q # p => state'[q] = state[q]
      /\ \A k \in Pids : k # m => owner'[k] = owner[k]
      /\ state[p] = "unborn" /\ state'[p] = "running"
      /\ owner[m] = 0 /\ owner'[m] = p
  BY DEF Start, TypeOK
<1>2. \A k \in Pids : owner[k] # p
  BY <1>1 DEF TypeOK
<1>3. 0 \notin Procs
  BY DEF Procs
<1>4. \A q \in Procs : state'[q] \in {"running", "zombie"} <=> \E k \in Pids : owner'[k] = q
  <2> SUFFICES ASSUME NEW q \in Procs
               PROVE  state'[q] \in {"running", "zombie"} <=> \E k \in Pids : owner'[k] = q
    OBVIOUS
  <2>1. CASE q = p
    BY <1>1, <2>1
  <2>2. CASE q # p
    BY <1>1, <1>3, <2>2 DEF TypeOK
  <2>3. QED
    BY <2>1, <2>2
<1>5. Injective'
  BY <1>1, <1>2 DEF Injective
<1>6. QED
  BY <1>1, <1>4, <1>5

LEMMA FreeTable ==
  ASSUME TypeOK, Injective, NEW p \in Procs, Free(p)
  PROVE  /\ state' \in [Procs -> {"unborn", "running", "zombie", "gone"}]
         /\ owner' \in [Pids -> Procs \cup {0}]
         /\ \A q \in Procs : state'[q] \in {"running", "zombie"} <=> \E k \in Pids : owner'[k] = q
         /\ Injective'
         /\ \A q \in Procs : q # p => state'[q] = state[q]
         /\ state'[p] = "gone"
         /\ \A k \in Pids : owner[k] # p => owner'[k] = owner[k]
<1> USE BoundsAssumption
<1>1. /\ state' \in [Procs -> {"unborn", "running", "zombie", "gone"}]
      /\ \A q \in Procs : q # p => state'[q] = state[q]
      /\ state'[p] = "gone"
  BY DEF Free, TypeOK
<1>2. /\ owner' \in [Pids -> Procs \cup {0}]
      /\ \A k \in Pids : owner'[k] = IF owner[k] = p THEN 0 ELSE owner[k]
  BY DEF Free, TypeOK
<1>3. 0 \notin Procs
  BY DEF Procs
<1>4. \A q \in Procs : state'[q] \in {"running", "zombie"} <=> \E k \in Pids : owner'[k] = q
  <2> SUFFICES ASSUME NEW q \in Procs
               PROVE  state'[q] \in {"running", "zombie"} <=> \E k \in Pids : owner'[k] = q
    OBVIOUS
  <2>1. CASE q = p
    BY <1>1, <1>2, <1>3, <2>1
  <2>2. CASE q # p
    BY <1>1, <1>2, <1>3, <2>2 DEF TypeOK
  <2>3. QED
    BY <2>1, <2>2
<1>5. Injective'
  BY <1>2 DEF Injective
<1>6. QED
  BY <1>1, <1>2, <1>4, <1>5

LEMMA StepIInv == IInv /\ [Next]_vars => IInv'
<1> SUFFICES ASSUME IInv, [Next]_vars
             PROVE  IInv'
  OBVIOUS
<1> USE BoundsAssumption, PidsAssumption
<1>0. 0 \notin Procs /\ 0 \notin Pids
  BY DEF Procs
<1>1. CASE OtherStarts
  <2>1. PICK p \in Procs, m \in Pids : Start(p, m)
    BY <1>1 DEF OtherStarts
  <2>2. UNCHANGED <<child, pc, pid, pidfd, ret, reaped, late, hit>>
    BY <1>1 DEF OtherStarts
  <2>3. TypeOK' /\ Injective'
    BY <2>1, <2>2, StartTable DEF IInv, TypeOK
  <2>4. Phases' /\ PidfdReachesChild' /\ KillReachesChild'
    BY <2>2 DEF IInv, Phases, PidfdReachesChild, KillReachesChild
  <2>5. Holds'
    BY <1>0, <2>1, <2>2, StartTable DEF IInv, Holds, Phases, TypeOK
  <2>6. QED
    BY <2>3, <2>4, <2>5 DEF IInv
<1>2. CASE OtherEnds
  <2>1. PICK p \in Procs \ {child} : state[p] = "running" /\ Free(p)
    BY <1>2 DEF OtherEnds
  <2>2. UNCHANGED <<child, pc, pid, pidfd, ret, reaped, late, hit>>
    BY <1>2 DEF OtherEnds
  <2>3. TypeOK' /\ Injective'
    BY <2>1, <2>2, FreeTable DEF IInv, TypeOK
  <2>4. Phases' /\ PidfdReachesChild' /\ KillReachesChild'
    BY <2>2 DEF IInv, Phases, PidfdReachesChild, KillReachesChild
  <2>5. Holds'
    BY <1>0, <2>1, <2>2, FreeTable DEF IInv, Holds, Phases, TypeOK
  <2>6. QED
    BY <2>3, <2>4, <2>5 DEF IInv
<1>3. CASE exit_group
  <2>1. TypeOK' /\ Injective'
    BY <1>3 DEF exit_group, IInv, TypeOK, Injective
  <2>2. Phases' /\ PidfdReachesChild' /\ KillReachesChild' /\ Holds'
    BY <1>3 DEF exit_group, IInv, Phases, PidfdReachesChild, KillReachesChild, Holds, TypeOK
  <2>3. QED
    BY <2>1, <2>2 DEF IInv
<1>4. CASE fork_with_pidfd
  BY <1>4 DEF fork_with_pidfd, Fails, IInv, TypeOK, Injective, Phases, Holds, PidfdReachesChild,
              KillReachesChild
<1>5. CASE fork
  <2>1. CASE Fails("EAGAIN", "fork")
    BY <1>5, <2>1 DEF fork, Fails, IInv, TypeOK, Injective, Phases, Holds, PidfdReachesChild,
                      KillReachesChild
  <2>2. CASE ~Fails("EAGAIN", "fork")
    <3>1. PICK p \in Procs, m \in Pids : Start(p, m) /\ child' = p /\ pid' = m
      BY <1>5, <2>2 DEF fork
    <3>2. pc = "fork" /\ ret' = "Ok" /\ pc' = "open" /\ UNCHANGED <<pidfd, reaped, late, hit>>
      BY <1>5, <2>2 DEF fork
    <3>3. TypeOK' /\ Injective'
      BY <3>1, <3>2, StartTable DEF IInv, TypeOK
    <3>4. ~reaped /\ child = 0 /\ pidfd = 0 /\ hit = {}
      BY <3>2 DEF IInv, Phases
    <3>5. late = FALSE
      BY <3>2 DEF IInv, Phases
    <3>6. Phases' /\ PidfdReachesChild' /\ KillReachesChild'
      BY <3>1, <3>2, <3>4, <3>5 DEF Phases, PidfdReachesChild, KillReachesChild
    <3>7. Holds'
      BY <1>0, <3>1, <3>2, <3>4, StartTable DEF IInv, Holds
    <3>8. QED
      BY <3>3, <3>6, <3>7 DEF IInv
  <2>3. QED
    BY <2>1, <2>2
<1>6. CASE pidfd_open
  <2>1. TypeOK' /\ Injective' /\ Phases' /\ Holds'
    BY <1>6 DEF pidfd_open, IInv, TypeOK, Injective, Phases, Holds
  <2>2. KillReachesChild'
    BY <1>6 DEF pidfd_open, IInv, KillReachesChild
  <2>3. pc = "open" /\ pidfd' = owner[pid] /\ late' = reaped /\ UNCHANGED <<child, hit>>
    BY <1>6 DEF pidfd_open
  <2>4. child # 0 /\ late = FALSE
    BY <1>0, <2>3 DEF IInv, Phases
  <2>5. PidfdReachesChild'
    <3>1. CASE reaped = TRUE
      <4>1. late' = TRUE
        BY <2>3, <3>1
      <4>2. QED
        BY <4>1 DEF PidfdReachesChild
    <3>2. CASE reaped = FALSE
      <4>1. owner[pid] = child
        BY <2>4, <3>2 DEF IInv, Holds
      <4>2. \A h \in hit : h[1] = "pidfd" => h[2] = child
        BY <2>4 DEF IInv, PidfdReachesChild
      <4>3. QED
        BY <2>3, <4>1, <4>2 DEF PidfdReachesChild
    <3>3. reaped \in BOOLEAN
      BY DEF IInv, TypeOK
    <3>4. QED
      BY <3>1, <3>2, <3>3
  <2>6. QED
    BY <2>1, <2>2, <2>5 DEF IInv
<1>7. CASE kill
  <2>1. pc \in {"open", "main"} /\ UNCHANGED <<state, owner, child, pc, pid, pidfd, reaped, late>>
    BY <1>7 DEF kill, Signal
  <2>2. child \in Procs /\ pid \in Pids /\ owner[pid] \in Procs \cup {0}
    BY <2>1 DEF IInv, Phases, TypeOK
  <2>3. \/ owner[pid] = 0 /\ hit' = hit /\ ret' = "ESRCH"
        \/ owner[pid] # 0 /\ hit' = hit \cup {<<"pid", owner[pid]>>} /\ ret' = "Ok"
    BY <1>7 DEF kill, Signal
  <2>4. TypeOK'
    BY <2>1, <2>2, <2>3 DEF IInv, TypeOK
  <2>7. Injective' /\ Phases' /\ Holds'
    BY <2>1, <2>2, <2>3 DEF IInv, Injective, Phases, Holds
  <2>5. PidfdReachesChild' /\ KillReachesChild'
    <3>1. PidfdReachesChild'
      BY <2>1, <2>3 DEF IInv, PidfdReachesChild
    <3>2. owner[pid] # 0 /\ ~reaped => owner[pid] = child
      BY <1>0, <2>2 DEF IInv, Holds
    <3>3. KillReachesChild'
      BY <2>1, <2>3, <3>2 DEF IInv, KillReachesChild
    <3>4. QED
      BY <3>1, <3>3
  <2>6. QED
    BY <2>4, <2>5, <2>7 DEF IInv
<1>8. CASE pidfd_send_signal
  <2> DEFINE p == IF state[pidfd] = "gone" THEN 0 ELSE pidfd
  <2>1. pc = "main" /\ pidfd # 0 /\ UNCHANGED <<state, owner, child, pc, pid, pidfd, reaped, late>>
    BY <1>8 DEF pidfd_send_signal, Signal
  <2>2. pidfd \in Procs /\ p \in {0, pidfd}
    BY <2>1 DEF IInv, TypeOK
  <2>3. \/ p = 0 /\ hit' = hit /\ ret' = "ESRCH"
        \/ p # 0 /\ hit' = hit \cup {<<"pidfd", p>>} /\ ret' = "Ok"
    BY <1>8 DEF pidfd_send_signal, Signal
  <2> HIDE DEF p
  <2>4. TypeOK'
    BY <2>1, <2>2, <2>3 DEF IInv, TypeOK
  <2>7. Injective' /\ Phases' /\ Holds'
    BY <2>1, <2>2, <2>3 DEF IInv, Injective, Phases, Holds
  <2>5. PidfdReachesChild' /\ KillReachesChild'
    BY <1>0, <2>1, <2>2, <2>3 DEF IInv, PidfdReachesChild, KillReachesChild
  <2>6. QED
    BY <2>4, <2>5, <2>7 DEF IInv
<1>9. CASE waitpid
  <2>1. child \in Procs /\ Free(child) /\ state[child] = "zombie" /\ reaped' = TRUE
    BY <1>9 DEF waitpid, IInv, TypeOK
  <2>2. UNCHANGED <<child, pc, pid, pidfd, ret, late, hit>>
    BY <1>9 DEF waitpid
  <2>3. TypeOK' /\ Injective'
    BY <2>1, <2>2, FreeTable DEF IInv, TypeOK
  <2>4. Holds'
    BY <2>1, <2>2, FreeTable DEF IInv, Holds
  <2>5. Phases' /\ PidfdReachesChild' /\ KillReachesChild'
    BY <1>0, <2>1, <2>2 DEF IInv, Phases, PidfdReachesChild, KillReachesChild
  <2>6. QED
    BY <2>3, <2>4, <2>5 DEF IInv
<1>10. CASE UNCHANGED vars
  BY <1>10 DEF vars, IInv, TypeOK, Injective, Phases, Holds, PidfdReachesChild, KillReachesChild
<1>11. QED
  BY <1>1, <1>2, <1>3, <1>4, <1>5, <1>6, <1>7, <1>8, <1>9, <1>10 DEF Next

\* Type correctness, with the process table's own consistency: the processes
\* that hold a number are exactly the running and the dead, unreaped ones.
THEOREM TypeCorrect == Spec => []TypeOK
<1>1. IInv => TypeOK
  BY DEF IInv
<1>2. QED
  BY InitIInv, StepIInv, <1>1, PTL DEF Spec

\* pidfd_open and pidfd_send_signal: a pidfd opened before the child was
\* reaped signals the child or nobody, for any recycling of its number.
THEOREM PidfdStable == Spec => []PidfdReachesChild
<1>1. IInv => PidfdReachesChild
  BY DEF IInv
<1>2. QED
  BY InitIInv, StepIInv, <1>1, PTL DEF Spec

\* kill with the number fork returned reaches the child as long as the program
\* has not waited for it.
THEOREM KillSafe == Spec => []KillReachesChild
<1>1. IInv => KillReachesChild
  BY DEF IInv
<1>2. QED
  BY InitIInv, StepIInv, <1>1, PTL DEF Spec
=============================================================================
