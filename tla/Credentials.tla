----------------------------- MODULE Credentials -----------------------------
(***************************************************************************)
(* The identity of a process (process.rs): its user and group ids, its     *)
(* supplementary groups, and the calls that change them, made in any order *)
(* by the threads of a program that starts as root. A thread may give its  *)
(* privilege up for good, by the sequence setgroups documents. The system  *)
(* calls are made raw, so they change the credentials of the calling       *)
(* thread; a thread started later inherits its creator's. The kernel's     *)
(* rules are external.                                                     *)
(***************************************************************************)
EXTENDS Integers, FiniteSets

CONSTANTS
    Threads,  \* the threads of the program
    First,    \* the one it starts with
    Ids,      \* user and group ids; 0 is the superuser
    GroupLists \* the supplementary group lists the program may set

VARIABLES
    cred,     \* each thread's ids and groups, NoCred before it starts
    pc,       \* each thread: "free", or its next step of the dropping sequence
    ret,      \* what the last call returned: 0, or a negated errno
    dropped   \* the threads whose dropping sequence succeeded (history)

vars == <<cred, pc, ret, dropped>>

EPERM == -1
EINVAL == -22
User == 1                                     \* whom the program drops to
NoCred == [uid |-> <<>>, gid |-> <<>>, groups |-> {}]
WithUid(c, uid) == [uid |-> uid, gid |-> c.gid, groups |-> c.groups]
WithGid(c, gid) == [uid |-> c.uid, gid |-> gid, groups |-> c.groups]
WithGroups(c, groups) == [uid |-> c.uid, gid |-> c.gid, groups |-> groups]
Real(id) == id[1]
Eff(id) == id[2]
Saved(id) == id[3]
Ok(c) == [ret |-> 0, cred |-> c]
Err(e, c) == [ret |-> e, cred |-> c]

-----------------------------------------------------------------------------
(* The kernel. *)

\* CAP_SETUID and CAP_SETGID: held in effect while the effective uid is 0.
Capable(c) == Eff(c.uid) = 0

KEEP_ID == -1

\* setresuid, setresgid on one triple: an unprivileged caller may set each id to
\* any of the three it has.
Allowed(c, id, new) ==
    Capable(c) \/ \A i \in 1..3 : new[i] = KEEP_ID \/ \E j \in 1..3 : new[i] = id[j]
Merge(id, new) == [i \in 1..3 |-> IF new[i] = KEEP_ID THEN id[i] ELSE new[i]]

\* setuid, setgid: all three ids for a capable caller; otherwise the effective
\* one only, and only to the real or the saved id.
SetId(c, id, new) ==
    IF Capable(c) THEN <<new, new, new>> ELSE <<Real(id), new, Saved(id)>>
MaySetId(c, id, new) == Capable(c) \/ new \in {Real(id), Saved(id)}

-----------------------------------------------------------------------------
(* The calls: each takes the caller's credentials and its arguments. *)

getuid(c) == Real(c.uid)
geteuid(c) == Eff(c.uid)
getgid(c) == Real(c.gid)
getegid(c) == Eff(c.gid)
getresuid(c) == <<Real(c.uid), Eff(c.uid), Saved(c.uid)>>
getresgid(c) == <<Real(c.gid), Eff(c.gid), Saved(c.gid)>>

setuid(c, u) ==
    IF MaySetId(c, c.uid, u) THEN Ok(WithUid(c, SetId(c, c.uid, u)))
    ELSE Err(EPERM, c)

setgid(c, g) ==
    IF MaySetId(c, c.gid, g) THEN Ok(WithGid(c, SetId(c, c.gid, g)))
    ELSE Err(EPERM, c)

setresuid_keepsaved(c, r, e, s) ==
    IF Allowed(c, c.uid, <<r, e, KEEP_ID>>)
    THEN Ok(WithUid(c, Merge(c.uid, <<r, e, KEEP_ID>>)))
    ELSE Err(EPERM, c)

setresuid(c, r, e, s) ==
    IF Allowed(c, c.uid, <<r, e, s>>) THEN Ok(WithUid(c, Merge(c.uid, <<r, e, s>>)))
    ELSE Err(EPERM, c)

setresgid(c, r, e, s) ==
    IF Allowed(c, c.gid, <<r, e, s>>) THEN Ok(WithGid(c, Merge(c.gid, <<r, e, s>>)))
    ELSE Err(EPERM, c)

seteuid(c, e) == setresuid(c, KEEP_ID, e, KEEP_ID)
setegid(c, e) == setresgid(c, KEEP_ID, e, KEEP_ID)

setgroups(c, gs) ==
    IF Capable(c) THEN Ok(WithGroups(c, gs)) ELSE Err(EPERM, c)

\* A size of 0 asks for the number only.
ngroups(c) == Cardinality(c.groups)

\* A buffer too small for all of them is EINVAL, not a truncated list.
getgroups(c, size) ==
    IF size < ngroups(c) THEN [ret |-> EINVAL, groups |-> {}]
    ELSE [ret |-> ngroups(c), groups |-> c.groups]

-----------------------------------------------------------------------------
(* The program. *)

Root == [uid |-> <<0, 0, 0>>, gid |-> <<0, 0, 0>>, groups |-> {0}]

Init ==
    /\ cred = [t \in Threads |-> IF t = First THEN Root ELSE NoCred]
    /\ pc = [t \in Threads |-> IF t = First THEN "free" ELSE "unborn"]
    /\ ret = 0
    /\ dropped = {}

\* The result r of a call by t.
Returns(t, r) ==
    /\ cred' = [cred EXCEPT ![t] = r.cred]
    /\ ret' = r.ret

Spawn(t, u) ==
    /\ pc[t] = "free" /\ pc[u] = "unborn"
    /\ cred' = [cred EXCEPT ![u] = cred[t]]
    /\ pc' = [pc EXCEPT ![u] = "free"]
    /\ dropped' = IF t \in dropped THEN dropped \cup {u} ELSE dropped
    /\ UNCHANGED ret

\* Any call of the family, with any arguments.
Calls(t) ==
    /\ pc[t] = "free"
    /\ LET c == cred[t]
           Args == Ids \cup {KEEP_ID}
       IN  \/ \E u \in Ids : Returns(t, setuid(c, u))
           \/ \E g \in Ids : Returns(t, setgid(c, g))
           \/ \E r, e, s \in Args : Returns(t, setresuid(c, r, e, s))
           \/ \E r, e, s \in Args : Returns(t, setresgid(c, r, e, s))
           \/ \E u \in Ids : Returns(t, seteuid(c, u))
           \/ \E g \in Ids : Returns(t, setegid(c, g))
           \/ \E gs \in GroupLists : Returns(t, setgroups(c, gs))
    /\ UNCHANGED <<pc, dropped>>

\* The documented sequence: the groups, then the group ids, then the user ids;
\* an error stops it.
DropStep(t, at, r, next) ==
    /\ pc[t] = at
    /\ Returns(t, r)
    /\ pc' = [pc EXCEPT ![t] = IF r.ret = 0 THEN next ELSE "free"]

DropPrivilege(t) ==
    \/ /\ DropStep(t, "free", setgroups(cred[t], {}), "drop_gid")
       /\ UNCHANGED dropped
    \/ /\ DropStep(t, "drop_gid", setresgid(cred[t], User, User, User), "drop_uid")
       /\ UNCHANGED dropped
    \/ LET r == setresuid(cred[t], User, User, User)
       IN  /\ DropStep(t, "drop_uid", r, "free")
           /\ dropped' = IF r.ret = 0 THEN dropped \cup {t} ELSE dropped

Next ==
    \/ \E t, u \in Threads : Spawn(t, u)
    \/ \E t \in Threads : Calls(t) \/ DropPrivilege(t)

Spec == Init /\ [][Next]_vars

-----------------------------------------------------------------------------
(* Properties *)

\* Dropping privilege irrevocably "needs all three set together": once the
\* sequence setgroups documents has succeeded, no further call of the family,
\* by this thread or one it starts, brings back any of root's ids or groups.
DroppedForGood ==
    \A t \in dropped : LET c == cred[t] IN
        /\ getuid(c) = User /\ geteuid(c) = User /\ getresuid(c) = <<User, User, User>>
        /\ getgid(c) = User /\ getegid(c) = User /\ getresgid(c) = <<User, User, User>>
        /\ getgroups(c, 0) = [ret |-> 0, groups |-> {}]

\* setuid's, setresuid's and setgroups' word for what they change is "the
\* calling process's" ids and groups: all of its threads have the same.
IdsAreProcessWide ==
    \A t, u \in Threads : pc[t] = "free" /\ pc[u] = "free" => cred[t].uid = cred[u].uid
=============================================================================
