------------------------------- MODULE JobWait -------------------------------
(***************************************************************************)
(* waitpid and waitid (wait.rs) as a job-control shell uses them: a child  *)
(* stops, continues and dies on its own; the kernel keeps one report of    *)
(* its latest change (external); the shell learns of it through the status *)
(* word or the Siginfo and updates its view of the job with the W* helpers.*)
(***************************************************************************)
EXTENDS WaitStatus, FiniteSets

CONSTANTS
    JobEvents,  \* the events that can happen to this child
    OptionSets  \* the sets of wait options the shell passes

VARIABLES
    life,   \* the child: "running", "stopped", "dead" or, once waited for, "reaped"
    event,  \* the latest thing that happened to it (history)
    fresh,  \* TRUE while the kernel still holds an unreported change
    got,    \* the last call's result as the caller sees it
    told,   \* the event that result was about, NoEvent if none (history)
    view    \* the shell's job table entry, decoded from results

vars == <<life, event, fresh, got, told, view>>

ChildPid == 1
NoEvent == [kind |-> "none", value |-> 0, core |-> FALSE, trace |-> 0]
Running == [state |-> "running", info |-> 0]

\* waitpid zero-initialises the status it returns (`let mut status: i32 = 0`),
\* so a WNOHANG call that finds nothing returns (0, 0).
Result(pid, word) == [pid |-> pid, status |-> word]
Nothing == Result(0, 0)
ECHILD == Result(-1, 0)

Init ==
    /\ life = "running"
    /\ event = NoEvent
    /\ fresh = FALSE
    /\ got = Nothing
    /\ told = NoEvent
    /\ view = Running

-----------------------------------------------------------------------------
(* The child, and the kernel's record of its latest change. *)

LifeAfter(e) ==
    CASE e.kind \in {"exited", "signaled"} -> "dead"
      [] e.kind \in {"stopped", "syscall"} -> "stopped"
      [] e.kind = "continued" -> "running"

Happens(e) ==
    /\ \/ life = "running" /\ e.kind # "continued"
       \/ life = "stopped" /\ e.kind \in {"continued", "signaled"}
    /\ life' = LifeAfter(e)
    /\ event' = e
    /\ fresh' = TRUE
    /\ UNCHANGED <<got, told, view>>

\* wait4/waitid report a death always, a stop and a continuation on request;
\* a traced child's stops need no request.
Reportable(opts) ==
    /\ fresh
    /\ \/ event.kind \in {"exited", "signaled", "syscall"}
       \/ event.kind = "stopped" /\ ("WUNTRACED" \in opts \/ event.trace # 0)
       \/ event.kind = "continued" /\ "WCONTINUED" \in opts

-----------------------------------------------------------------------------
(* Decoding a result. *)

\* What the W* helpers make of a status word. A result with pid 0 or an error
\* says nothing about the job.
Decode(r, old) ==
    CASE r.pid # ChildPid -> old
      [] r.pid = ChildPid /\ wifexited(r.status) ->
            [state |-> "exited", info |-> wexitstatus(r.status)]
      [] r.pid = ChildPid /\ wifsignaled(r.status) ->
            [state |-> "signaled", info |-> wtermsig(r.status)]
      [] r.pid = ChildPid /\ is_syscall_stop(r.status) ->
            [state |-> "syscall", info |-> SIGTRAP]
      [] r.pid = ChildPid /\ wifstopped(r.status) /\ ~is_syscall_stop(r.status) ->
            [state |-> "stopped", info |-> wstopsig(r.status)]
      [] r.pid = ChildPid /\ wifcontinued(r.status) -> Running

CLD == [exited |-> 1, killed |-> 2, dumped |-> 3, stopped |-> 5, continued |-> 6]
SIGCONT == 18

\* The Siginfo the kernel fills for an untraced child.
Siginfo(e) ==
    [si_pid |-> ChildPid,
     si_code |-> CASE e.kind = "exited" -> CLD.exited
                   [] e.kind = "signaled" -> IF e.core THEN CLD.dumped ELSE CLD.killed
                   [] e.kind = "stopped" -> CLD.stopped
                   [] e.kind = "continued" -> CLD.continued,
     si_status |-> IF e.kind = "continued" THEN SIGCONT ELSE e.value]

\* What a caller makes of it: "exit code (with CLD_EXITED) or the signal".
DecodeSiginfo(s) ==
    CASE s.si_code = CLD.exited -> [state |-> "exited", info |-> s.si_status]
      [] s.si_code \in {CLD.killed, CLD.dumped} ->
            [state |-> "signaled", info |-> s.si_status]
      [] s.si_code = CLD.stopped -> [state |-> "stopped", info |-> s.si_status]
      [] s.si_code = CLD.continued -> Running

-----------------------------------------------------------------------------
(* The two calls. *)

\* Nothing to report: ECHILD once the child is reaped, (0, 0) with WNOHANG;
\* otherwise the call blocks, which is no step.
NothingToReport(opts) ==
    /\ ~Reportable(opts)
    /\ \/ life = "reaped" /\ got' = ECHILD
       \/ life # "reaped" /\ "WNOHANG" \in opts /\ got' = Nothing
    /\ told' = NoEvent
    /\ view' = Decode(got', view)
    /\ UNCHANGED <<life, event, fresh>>

\* The kernel's side of a report: a dead child is reaped by it.
Consume ==
    /\ fresh' = FALSE
    /\ life' = IF life = "dead" THEN "reaped" ELSE life

waitpid(opts) ==
    \/ NothingToReport(opts)
    \/ /\ Reportable(opts)
       /\ got' = Result(ChildPid, Encode(event))
       /\ told' = event
       /\ view' = Decode(got', view)
       /\ Consume
       /\ UNCHANGED event

\* waitid on a job that is not being traced. WNOWAIT leaves the child waitable.
waitid(opts) ==
    /\ event.trace = 0 /\ event.kind # "syscall"
    /\ \/ NothingToReport(opts)
       \/ /\ Reportable(opts)
          /\ got' = Siginfo(event)
          /\ told' = event
          /\ view' = DecodeSiginfo(got')
          /\ IF "WNOWAIT" \in opts THEN UNCHANGED <<life, fresh>> ELSE Consume
          /\ UNCHANGED event

Next ==
    \/ \E e \in JobEvents : Happens(e)
    \/ \E opts \in OptionSets : waitid(opts) \/ ("WNOWAIT" \notin opts /\ waitpid(opts))

Spec == Init /\ [][Next]_vars
-----------------------------------------------------------------------------
(* Properties *)

\* What the shell should believe after an event.
Meaning(e) ==
    CASE e.kind \in {"none", "continued"} -> Running
      [] e.kind \in {"exited", "signaled", "stopped", "syscall"} ->
            [state |-> e.kind, info |-> e.value]

\* Once the kernel holds no unreported change, the job table entry the W*
\* helpers (waitpid) or the CLD_* codes (waitid) produced is exactly the
\* child's last change: same state, same exit code or signal. No report is
\* lost to a WNOHANG (0, 0), to a core-dump bit, or to a ptrace event code in
\* the upper half of the word.
ViewIsCurrent == ~fresh => view = Meaning(event)

=============================================================================
