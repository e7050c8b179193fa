---------------------------- MODULE MCProcesses ----------------------------
(* The modules about a program and the processes it starts, for TLC: its    *)
(* handles on a child (ProcHandle), what it learns by waiting for one       *)
(* (JobWait), tracing one (Tracer), the groups and sessions of a shell's    *)
(* jobs (JobControl), and the ids it runs under (Credentials).  They share  *)
(* no state of the code: which says which of them a behaviour is of, and    *)
(* the state of the others stays as it was at first.                        *)
EXTENDS ProcHandle, WaitTrace, JobsIds

VARIABLE which

WS == INSTANCE WaitStatus

\* Exit codes and signals at the edges of their fields, core dumps, and every
\* ptrace event code.
MCJobEvents ==
    {e \in WS!Events : /\ e.kind = "exited" => e.value \in {0, 1, 2, 126, 127, 128, 137, 255}
                       /\ e.kind = "signaled" => e.value \in {1, 9, 15, 64}
                       /\ e.kind = "stopped" => e.value \in {5, 19, 20, 22}}

MCOptionSets ==
    {{}, {"WNOHANG"}, {"WUNTRACED", "WCONTINUED"},
     {"WNOHANG", "WUNTRACED", "WCONTINUED"},
     {"WUNTRACED", "WCONTINUED", "WNOWAIT"}}

MCvars == <<which, vars, wvars, tvars, jvars, cvars>>

MCInit ==
    /\ which \in {"handle", "wait", "trace", "jobs", "ids"}
    /\ Init /\ W!Init /\ J!Init /\ C!Init
    /\ IF which = "trace" THEN T!Init ELSE arch = "x86_64" /\ attach = "seize" /\ T!Init

Handle == which = "handle" /\ Next /\ UNCHANGED <<which, wvars, tvars, jvars, cvars>>
Wait == which = "wait" /\ W!Next /\ UNCHANGED <<which, vars, tvars, jvars, cvars>>
Trace == which = "trace" /\ T!Next /\ UNCHANGED <<which, vars, wvars, jvars, cvars>>
Jobs == which = "jobs" /\ J!Next /\ UNCHANGED <<which, vars, wvars, tvars, cvars>>
SetIds == which = "ids" /\ C!Next /\ UNCHANGED <<which, vars, wvars, tvars, jvars>>

MCNext == Handle \/ Wait \/ Trace \/ Jobs \/ SetIds

\* JobControl's fairness: a child runs on until it has looked at its parent.
Kid(A) == which = "jobs" /\ A /\ UNCHANGED <<which, vars, wvars, tvars, cvars>>

MCSpec ==
    /\ MCInit /\ [][MCNext]_MCvars
    /\ \A k \in Kids :
        /\ WF_MCvars(Kid(J!KidSteps(k)))
        /\ WF_MCvars(Kid(J!getppid(k) # Shell /\ jpc[k] = "check" /\ J!KidExits(k)))
=============================================================================
