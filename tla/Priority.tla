------------------------------ MODULE Priority ------------------------------
(***************************************************************************)
(* The nice value and its limit (process.rs, rlimit.rs): a process adjusts *)
(* its own with nice, which reads, writes and reads again, while an        *)
(* administrator may renice it or change its RLIMIT_NICE between any two   *)
(* of those calls. The kernel's rules are external.                        *)
(***************************************************************************)
EXTENDS Integers

CONSTANTS
    Lowers, Raises,            \* the increments of nice, and the decrements
    AdminLowers, AdminRaises,  \* the values the administrator sets, and those below 0
    Ceilings,   \* the RLIMIT_NICE values anybody sets
    MaxAdmin    \* bound on the administrator's interventions

VARIABLES
    nicev,      \* the process's nice value
    limit,      \* its RLIMIT_NICE: [cur, max]
    privileged, \* whether the process itself has CAP_SYS_NICE (never changes)
    checks,     \* whether the build checks for overflow (never changes)
    pc,         \* "idle", or the step of nice that is next; "panicked"
    current, target, inc,  \* nice's locals and argument
    ret,        \* what its last call returned: [ok, value]
    start,      \* the nice value when the running or last nice began (history)
    disturbed,  \* whether the administrator acted since (history)
    admin       \* interventions so far

vars == <<nicev, limit, privileged, checks, pc, current, target, inc, ret, start,
          disturbed, admin>>

Incs == Lowers \cup {-n : n \in Raises}
AdminNice == AdminLowers \cup {-n : n \in AdminRaises}

IMax == 2147483647              \* i32::MAX
EPERM == 1
EACCES == 13
EINVAL == 22
Ok(v) == [ok |-> TRUE, value |-> v]
Err(e) == [ok |-> FALSE, value |-> e]

-----------------------------------------------------------------------------
(* The kernel. *)

ClampNice(v) == IF v < -20 THEN -20 ELSE IF v > 19 THEN 19 ELSE v

\* getpriority(2) returns 20 - nice, so that no value looks like an error.
SysGetpriority == 20 - nicev

\* A caller without CAP_SYS_NICE may go as low as its limit allows.
MayNice(v) == v >= nicev \/ privileged \/ 20 - v <= limit.cur

\* prlimit64 on the limit l by a caller, with or without CAP_SYS_RESOURCE.
PrlimitResult(l, root) ==
    IF l.cur > l.max THEN EINVAL ELSE IF l.max > limit.max /\ ~root THEN EPERM ELSE 0

-----------------------------------------------------------------------------
(* The calls. *)

getpriority == Ok(20 - SysGetpriority)

setpriority(prio) ==
    IF MayNice(ClampNice(prio))
    THEN nicev' = ClampNice(prio) /\ ret' = Ok(0)
    ELSE ret' = Err(EACCES) /\ UNCHANGED nicev

\* An old limit is always written, a new one is set if given.
prlimit(l, root) ==
    IF PrlimitResult(l, root) = 0
    THEN limit' = l /\ ret' = Ok(0)
    ELSE ret' = Err(PrlimitResult(l, root)) /\ UNCHANGED limit

getrlimit == limit
setrlimit(l) == prlimit(l, privileged)

\* `current + inc` in i32.
Overflows == current > 0 /\ inc > IMax - current
WrappingAdd == IF Overflows THEN (current - IMax - 1) + (inc - IMax - 1) ELSE current + inc

-----------------------------------------------------------------------------
Init ==
    /\ nicev = 0
    /\ limit = [cur |-> 0, max |-> 20]
    /\ privileged \in BOOLEAN /\ checks \in BOOLEAN
    /\ pc = "idle" /\ current = 0 /\ target = 0 /\ inc = 0
    /\ ret = Ok(0)
    /\ start = 0 /\ disturbed = FALSE /\ admin = 0

\* nice, one step per system call.
NiceGet ==
    /\ pc = "idle"
    /\ inc' \in Incs
    /\ current' = getpriority.value
    /\ start' = nicev /\ disturbed' = FALSE
    /\ pc' = "add"
    /\ UNCHANGED <<nicev, limit, privileged, checks, target, ret, admin>>

\* A build with overflow checks panics.
NiceAdd ==
    /\ pc = "add"
    /\ IF Overflows /\ checks
       THEN pc' = "panicked" /\ UNCHANGED target
       ELSE pc' = "set" /\ target' = WrappingAdd
    /\ UNCHANGED <<nicev, limit, privileged, checks, current, inc, ret, start, disturbed, admin>>

NiceSet ==
    /\ pc = "set"
    /\ setpriority(target)
    /\ pc' = IF ret'.ok THEN "reread" ELSE "idle"
    /\ UNCHANGED <<limit, privileged, checks, current, target, inc, start, disturbed, admin>>

NiceReread ==
    /\ pc = "reread"
    /\ ret' = getpriority
    /\ pc' = "idle"
    /\ UNCHANGED <<nicev, limit, privileged, checks, current, target, inc, start, disturbed, admin>>

\* The process changes its soft limit, keeping the hard one it read.
LimitSelf ==
    /\ pc = "idle"
    /\ \E c \in Ceilings : setrlimit([getrlimit EXCEPT !.cur = c])
    /\ start' = nicev /\ disturbed' = TRUE
    /\ UNCHANGED <<nicev, privileged, checks, pc, current, target, inc, admin>>

\* Another process, privileged: setpriority(PRIO_PROCESS, pid, v), prlimit(pid, ...).
Administrator ==
    /\ admin < MaxAdmin
    /\ \/ \E v \in AdminNice : nicev' = ClampNice(v) /\ UNCHANGED limit
       \/ \E c, m \in Ceilings : c <= m /\ limit' = [cur |-> c, max |-> m] /\ UNCHANGED nicev
    /\ admin' = admin + 1
    /\ disturbed' = TRUE
    /\ UNCHANGED <<privileged, checks, pc, current, target, inc, ret, start>>

Next ==
    \/ NiceGet \/ NiceAdd \/ NiceSet \/ NiceReread
    \/ LimitSelf \/ Administrator

Spec == Init /\ [][Next]_vars

-----------------------------------------------------------------------------
(* Properties *)

Returned == pc = "idle" /\ ~disturbed /\ inc # 0

\* In nice "positive lowers priority, negative raises it": a positive increment
\* never leaves the process running more favorably than before.
PositiveLowers == Returned /\ inc > 0 => nicev >= start
=============================================================================
