------------------------------ MODULE WaitStatus ------------------------------
(***************************************************************************)
(* The wait-status word of wait.rs: how the kernel encodes a child's state *)
(* change (external) and how the W* helpers and ptrace's is_syscall_stop   *)
(* decode it. A status is a non-negative word, so `status & 0x7f` is       *)
(* status % 128 and `(status >> 8) & 0xff` is (status \div 256) % 256.     *)
(***************************************************************************)
EXTENDS Integers

SIGTRAP == 5

-----------------------------------------------------------------------------
(* The kernel's side. *)

\* What can happen to a child. Only the low 8 bits of an exit_group argument
\* survive; a ptrace stop carries its PTRACE_EVENT_* code in `trace`.
Exited    == [kind : {"exited"}, value : 0..255, core : {FALSE}, trace : {0}]
Signaled  == [kind : {"signaled"}, value : 1..64, core : BOOLEAN, trace : {0}]
Stopped   == [kind : {"stopped"}, value : 1..64, core : {FALSE}, trace : 0..7 \cup {128}]
SyscallStop == [kind : {"syscall"}, value : {SIGTRAP}, core : {FALSE}, trace : {0}]
Continued == [kind : {"continued"}, value : {0}, core : {FALSE}, trace : {0}]

Events == Exited \cup Signaled \cup Stopped \cup SyscallStop \cup Continued

\* The word wait4 stores for an event. A syscall-stop under
\* PTRACE_O_TRACESYSGOOD is a stop by SIGTRAP | 0x80.
Encode(e) ==
    IF e.kind = "exited" THEN e.value * 256
    ELSE IF e.kind = "signaled" THEN e.value + (IF e.core THEN 128 ELSE 0)
    ELSE IF e.kind = "stopped" THEN e.trace * 65536 + e.value * 256 + 127
    ELSE IF e.kind = "syscall" THEN (e.value + 128) * 256 + 127
    ELSE 65535  \* continued

-----------------------------------------------------------------------------
(* Plausible slips in the decoders, kept as the mutants of the properties.  *)

\* Leaving the core-dump bit in the signal number.
wtermsig_lowbyte(s) == s % 256

-----------------------------------------------------------------------------
(* wait.rs and ptrace.rs: the decoders. *)

wifexited(s)    == s % 128 = 0
wexitstatus(s)  == (s \div 256) % 256
wifsignaled(s)  == LET sig == s % 128 IN sig # 0 /\ sig # 127
wtermsig(s)     == s % 128
wifstopped(s)   == s % 256 = 127
wstopsig(s)     == (s \div 256) % 256
wifcontinued(s) == s = 65535
is_syscall_stop(s) == wifstopped(s) /\ wstopsig(s) = SIGTRAP + 128

\* The caller's view of a status word: the helpers that claim it.
Verdicts(s) ==
    {k \in {"exited", "signaled", "stopped", "continued"} :
        \/ k = "exited"    /\ wifexited(s)
        \/ k = "signaled"  /\ wifsignaled(s)
        \/ k = "stopped"   /\ wifstopped(s)
        \/ k = "continued" /\ wifcontinued(s)}
=============================================================================
