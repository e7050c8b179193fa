---------------------------- MODULE JobsIdsProofs ----------------------------
(***************************************************************************)
(* Theorems about JobControl and Credentials, each of its own              *)
(* specification: whom a signal to a job reaches, for any number of        *)
(* processes in it, and that dropped ids stay dropped, for any threads,    *)
(* ids and group lists.                                                    *)
(***************************************************************************)
EXTENDS JobsIds, Integers, FiniteSetTheorems, TLAPS

-----------------------------------------------------------------------------
(* Credentials. *)

Triple == <<C!User, C!User, C!User>>
IsCred(c) == c = [uid |-> c.uid, gid |-> c.gid, groups |-> c.groups]
GivenUp(c) == c.uid = Triple /\ c.gid = Triple /\ c.groups = {}

\* Each thread has a record of credentials.
CredShape ==
    /\ cred = [t \in Threads |-> cred[t]] /\ \A t \in Threads : IsCred(cred[t])
    /\ cpc = [t \in Threads |-> cpc[t]]
    /\ dropped \subseteq Threads

\* What the steps of the dropping sequence before the next one have achieved.
DropProgress ==
    \A t \in Threads :
        /\ cpc[t] = "drop_gid" => cred[t].groups = {}
        /\ cpc[t] = "drop_uid" => cred[t].groups = {} /\ cred[t].gid = Triple

\* A thread that has dropped has nothing left, and is not in the middle of
\* another sequence.
DropFinal == \A t \in dropped : cpc[t] = "free" /\ GivenUp(cred[t])

CredInv == CredShape /\ DropProgress /\ DropFinal

-----------------------------------------------------------------------------
(* The calls. *)

\* Any result of the calls a thread may make at will.
CallResult(c, r) ==
    \/ \E u \in Ids : r = C!setuid(c, u)
    \/ \E g \in Ids : r = C!setgid(c, g)
    \/ \E a, e, s \in Ids \cup {C!KEEP_ID} : r = C!setresuid(c, a, e, s)
    \/ \E a, e, s \in Ids \cup {C!KEEP_ID} : r = C!setresgid(c, a, e, s)
    \/ \E u \in Ids : r = C!seteuid(c, u)
    \/ \E g \in Ids : r = C!setegid(c, g)
    \/ \E gs \in GroupLists : r = C!setgroups(c, gs)

\* Each call of the family leaves a record of credentials.
LEMMA CallShape ==
  ASSUME NEW c, IsCred(c), NEW r, CallResult(c, r)
  PROVE  IsCred(r.cred)
<1>1. ASSUME NEW a, NEW e, NEW s
      PROVE  IsCred(C!setresuid(c, a, e, s).cred) /\ IsCred(C!setresgid(c, a, e, s).cred)
  BY DEF IsCred, C!setresuid, C!setresgid, C!Ok, C!Err, C!WithUid, C!WithGid
<1>2. ASSUME NEW a
      PROVE  IsCred(C!setuid(c, a).cred) /\ IsCred(C!setgid(c, a).cred)
  BY DEF IsCred, C!setuid, C!setgid, C!Ok, C!Err, C!WithUid, C!WithGid
<1>3. ASSUME NEW a
      PROVE  IsCred(C!seteuid(c, a).cred) /\ IsCred(C!setegid(c, a).cred)
  BY <1>1 DEF C!seteuid, C!setegid
<1>4. ASSUME NEW gs PROVE IsCred(C!setgroups(c, gs).cred)
  BY DEF IsCred, C!setgroups, C!Ok, C!Err, C!WithGroups
<1>. QED  BY <1>1, <1>2, <1>3, <1>4 DEF CallResult

\* Merging ids that are all kept or User into three times User changes nothing.
LEMMA MergeKeeps ==
  ASSUME NEW a, NEW e, NEW s,
         \A i \in 1..3 : <<a, e, s>>[i] = C!KEEP_ID \/ \E j \in 1..3 : <<a, e, s>>[i] = Triple[j]
  PROVE  C!Merge(Triple, <<a, e, s>>) = Triple
<1>1. a \in {C!KEEP_ID, C!User} /\ e \in {C!KEEP_ID, C!User} /\ s \in {C!KEEP_ID, C!User}
  BY DEF Triple, C!KEEP_ID, C!User
<1>. QED  BY <1>1 DEF C!Merge, Triple, C!KEEP_ID, C!User

\* None of the calls brings anything back to a thread without privilege, and
\* setgroups fails.
LEMMA NothingComesBack ==
  ASSUME NEW c, IsCred(c), GivenUp(c)
  PROVE  /\ \A r : CallResult(c, r) => GivenUp(r.cred)
         /\ \A gs : C!setgroups(c, gs) = C!Err(C!EPERM, c)
<1>1. ~C!Capable(c)
  BY DEF GivenUp, Triple, C!Capable, C!Eff, C!User
<1>2. ASSUME NEW a, NEW e, NEW s
      PROVE  GivenUp(C!setresuid(c, a, e, s).cred)
  <2>1. CASE C!Allowed(c, c.uid, <<a, e, s>>)
    <3>1. C!Merge(c.uid, <<a, e, s>>) = Triple
      BY <1>1, <2>1, MergeKeeps DEF C!Allowed, GivenUp
    <3>. QED  BY <2>1, <3>1 DEF C!setresuid, C!Ok, C!WithUid, C!WithGid, GivenUp
  <2>2. CASE ~C!Allowed(c, c.uid, <<a, e, s>>)
    BY <2>2 DEF C!setresuid, C!Err
  <2>. QED  BY <2>1, <2>2
<1>3. ASSUME NEW a, NEW e, NEW s
      PROVE  GivenUp(C!setresgid(c, a, e, s).cred)
  <2>1. CASE C!Allowed(c, c.gid, <<a, e, s>>)
    <3>1. C!Merge(c.gid, <<a, e, s>>) = Triple
      BY <1>1, <2>1, MergeKeeps DEF C!Allowed, GivenUp
    <3>. QED  BY <2>1, <3>1 DEF C!setresgid, C!Ok, C!WithUid, C!WithGid, GivenUp
  <2>2. CASE ~C!Allowed(c, c.gid, <<a, e, s>>)
    BY <2>2 DEF C!setresgid, C!Err
  <2>. QED  BY <2>1, <2>2
<1>4. ASSUME NEW u PROVE GivenUp(C!setuid(c, u).cred) /\ GivenUp(C!setgid(c, u).cred)
  BY <1>1 DEF C!setuid, C!setgid, C!MaySetId, C!SetId, C!Real, C!Saved, GivenUp, Triple, C!Ok,
              C!Err, C!WithUid, C!WithGid
<1>5. \A gs : C!setgroups(c, gs) = C!Err(C!EPERM, c)
  BY <1>1 DEF C!setgroups
<1>6. ASSUME NEW u PROVE GivenUp(C!seteuid(c, u).cred) /\ GivenUp(C!setegid(c, u).cred)
  BY <1>2, <1>3 DEF C!seteuid, C!setegid
<1>7. ASSUME NEW gs PROVE GivenUp(C!setgroups(c, gs).cred)
  BY <1>5 DEF C!Err
<1>8. \A r : CallResult(c, r) => GivenUp(r.cred)
  BY <1>2, <1>3, <1>4, <1>6, <1>7 DEF CallResult
<1>. QED  BY <1>5, <1>8

LEMMA CredInit == C!Init => CredInv
<1>. SUFFICES ASSUME C!Init PROVE CredInv
  OBVIOUS
<1>1. IsCred(C!Root) /\ IsCred(C!NoCred)
  BY DEF IsCred, C!Root, C!NoCred
<1>2. CredShape
  BY <1>1 DEF C!Init, CredShape
<1>3. DropProgress /\ DropFinal
  BY DEF C!Init, DropProgress, DropFinal
<1>. QED  BY <1>2, <1>3 DEF CredInv

\* A step that leaves thread t with credentials c, at place p, and nothing else.
Leaves(t, c, p) ==
    /\ cred' = [cred EXCEPT ![t] = c]
    /\ cpc' = [cpc EXCEPT ![t] = p]

\* What the sequence has achieved by place p.
Achieved(c, p) ==
    /\ p = "drop_gid" => c.groups = {}
    /\ p = "drop_uid" => c.groups = {} /\ c.gid = Triple

LEMMA OneThread ==
  ASSUME CredInv, NEW t \in Threads, NEW c, NEW p, Leaves(t, c, p),
         IsCred(c), Achieved(c, p),
         dropped' \subseteq dropped \cup {t},
         t \in dropped' => p = "free" /\ GivenUp(c)
  PROVE  CredInv'
<1>1. /\ cred' = [u \in Threads |-> IF u = t THEN c ELSE cred[u]]
      /\ cpc' = [u \in Threads |-> IF u = t THEN p ELSE cpc[u]]
  <2>1. cred = [u \in Threads |-> cred[u]] /\ cpc = [u \in Threads |-> cpc[u]]
    BY DEF CredInv, CredShape
  <2>2. cred' = [u \in Threads |-> IF u = t THEN c ELSE cred[u]]
    BY <2>1 DEF Leaves
  <2>3. cpc' = [u \in Threads |-> IF u = t THEN p ELSE cpc[u]]
    BY <2>1 DEF Leaves
  <2>. QED  BY <2>2, <2>3
<1>2. cred'[t] = c /\ cpc'[t] = p
  BY <1>1
<1>3. \A u \in Threads : u # t => cred'[u] = cred[u] /\ cpc'[u] = cpc[u]
  BY <1>1
<1>4. CredShape'
  <2>1. \A u \in Threads : IsCred(cred'[u])
    BY <1>2, <1>3 DEF CredInv, CredShape
  <2>2. cred' = [u \in Threads |-> cred'[u]] /\ cpc' = [u \in Threads |-> cpc'[u]]
    BY <1>1
  <2>. QED  BY <2>1, <2>2 DEF CredInv, CredShape
<1>5. DropProgress'
  BY <1>2, <1>3 DEF CredInv, DropProgress, Achieved
<1>6. DropFinal'
  <2>. SUFFICES ASSUME NEW u \in dropped' PROVE cpc'[u] = "free" /\ GivenUp(cred'[u])
    BY DEF DropFinal
  <2>1. CASE u = t
    BY <2>1, <1>2
  <2>2. CASE u # t
    <3>1. u \in dropped /\ u \in Threads
      BY <2>2 DEF CredInv, CredShape
    <3>. QED  BY <2>2, <3>1, <1>3 DEF CredInv, DropFinal
  <2>. QED  BY <2>1, <2>2
<1>. QED  BY <1>4, <1>5, <1>6 DEF CredInv

LEMMA SpawnHolds ==
  ASSUME CredInv, NEW t \in Threads, NEW u \in Threads, C!Spawn(t, u)
  PROVE  CredInv'
<1>1. /\ Leaves(u, cred[t], "free")
      /\ dropped' = IF t \in dropped THEN dropped \cup {u} ELSE dropped
  BY DEF C!Spawn, Leaves
<1>2. u \notin dropped
  BY DEF CredInv, DropFinal, C!Spawn
<1>3. IsCred(cred[t]) /\ (t \in dropped => GivenUp(cred[t]))
  BY DEF CredInv, CredShape, DropFinal
<1>. QED  BY <1>1, <1>2, <1>3, OneThread DEF Achieved

LEMMA CallsHold ==
  ASSUME CredInv, NEW t \in Threads, C!Calls(t)
  PROVE  CredInv'
<1>1. PICK r : CallResult(cred[t], r) /\ C!Returns(t, r)
  <2>. DEFINE Args == Ids \cup {C!KEEP_ID}
  <2>1. CASE \E u \in Ids : C!Returns(t, C!setuid(cred[t], u))
    BY <2>1 DEF CallResult
  <2>2. CASE \E g \in Ids : C!Returns(t, C!setgid(cred[t], g))
    BY <2>2 DEF CallResult
  <2>3. CASE \E a, e, s \in Args : C!Returns(t, C!setresuid(cred[t], a, e, s))
    BY <2>3 DEF CallResult
  <2>4. CASE \E a, e, s \in Args : C!Returns(t, C!setresgid(cred[t], a, e, s))
    BY <2>4 DEF CallResult
  <2>5. CASE \E u \in Ids : C!Returns(t, C!seteuid(cred[t], u))
    BY <2>5 DEF CallResult
  <2>6. CASE \E g \in Ids : C!Returns(t, C!setegid(cred[t], g))
    BY <2>6 DEF CallResult
  <2>7. CASE \E gs \in GroupLists : C!Returns(t, C!setgroups(cred[t], gs))
    BY <2>7 DEF CallResult
  <2>. QED  BY Zenon, <2>1, <2>2, <2>3, <2>4, <2>5, <2>6, <2>7 DEF C!Calls
<1>2. Leaves(t, r.cred, "free") /\ dropped' = dropped
  BY <1>1 DEF C!Calls, C!Returns, CredInv, CredShape, Leaves
<1>3. IsCred(cred[t]) /\ (t \in dropped => GivenUp(cred[t]))
  BY DEF CredInv, CredShape, DropFinal
<1>4. IsCred(r.cred)
  BY <1>1, <1>3, CallShape
<1>5. t \in dropped => GivenUp(r.cred)
  BY <1>1, <1>3, NothingComesBack
<1>. QED  BY <1>2, <1>4, <1>5, OneThread DEF Achieved

LEMMA DropHolds ==
  ASSUME CredInv, NEW t \in Threads, C!DropPrivilege(t)
  PROVE  CredInv'
<1>0. IsCred(cred[t]) /\ (t \in dropped => cpc[t] = "free" /\ GivenUp(cred[t]))
  BY DEF CredInv, CredShape, DropFinal
<1>1. CASE C!DropStep(t, "free", C!setgroups(cred[t], {}), "drop_gid") /\ UNCHANGED dropped
  <2>. DEFINE r == C!setgroups(cred[t], {})
              p == IF r.ret = 0 THEN "drop_gid" ELSE "free"
  <2>1. Leaves(t, r.cred, p) /\ dropped' = dropped
    BY <1>1 DEF C!DropStep, C!Returns, Leaves
  <2>2. IsCred(r.cred) /\ (r.ret = 0 => r.cred.groups = {})
    BY <1>0 DEF C!setgroups, C!Ok, C!Err, C!WithGroups, IsCred, C!EPERM
  <2>3. GivenUp(cred[t]) => r.ret # 0 /\ r.cred = cred[t]
    BY <1>0, NothingComesBack DEF C!Err, C!EPERM
  <2>. HIDE DEF r
  <2>4. Achieved(r.cred, p) /\ (t \in dropped => p = "free" /\ GivenUp(r.cred))
    BY <1>0, <2>2, <2>3 DEF Achieved
  <2>. HIDE DEF p
  <2>. QED  BY <2>1, <2>2, <2>4, OneThread
<1>2. CASE C!DropStep(t, "drop_gid", C!setresgid(cred[t], C!User, C!User, C!User), "drop_uid")
           /\ UNCHANGED dropped
  <2>. DEFINE r == C!setresgid(cred[t], C!User, C!User, C!User)
              p == IF r.ret = 0 THEN "drop_uid" ELSE "free"
  <2>1. Leaves(t, r.cred, p) /\ dropped' = dropped /\ cpc[t] = "drop_gid"
    BY <1>2 DEF C!DropStep, C!Returns, Leaves
  <2>2. C!Merge(cred[t].gid, <<C!User, C!User, C!User>>) = Triple
    BY DEF C!Merge, Triple, C!User, C!KEEP_ID
  <2>3. /\ IsCred(r.cred) /\ r.cred.groups = cred[t].groups
        /\ r.ret = 0 => r.cred.gid = Triple
    BY <1>0, <2>2 DEF C!setresgid, C!Ok, C!Err, C!WithGid, IsCred, C!EPERM
  <2>. HIDE DEF r
  <2>4. t \notin dropped /\ cred[t].groups = {}
    BY <1>0, <2>1 DEF CredInv, DropProgress
  <2>5. Achieved(r.cred, p)
    BY <2>3, <2>4 DEF Achieved
  <2>. HIDE DEF p
  <2>. QED  BY <2>1, <2>3, <2>4, <2>5, OneThread
<1>3. CASE LET r == C!setresuid(cred[t], C!User, C!User, C!User)
           IN  /\ C!DropStep(t, "drop_uid", r, "free")
               /\ dropped' = IF r.ret = 0 THEN dropped \cup {t} ELSE dropped
  <2>. DEFINE r == C!setresuid(cred[t], C!User, C!User, C!User)
  <2>1. /\ Leaves(t, r.cred, "free") /\ cpc[t] = "drop_uid"
        /\ dropped' = IF r.ret = 0 THEN dropped \cup {t} ELSE dropped
    BY <1>3 DEF C!DropStep, C!Returns, Leaves
  <2>2. C!Merge(cred[t].uid, <<C!User, C!User, C!User>>) = Triple
    BY DEF C!Merge, Triple, C!User, C!KEEP_ID
  <2>3. /\ IsCred(r.cred) /\ r.cred.groups = cred[t].groups /\ r.cred.gid = cred[t].gid
        /\ r.ret = 0 => r.cred.uid = Triple
    BY <1>0, <2>2 DEF C!setresuid, C!Ok, C!Err, C!WithUid, IsCred, C!EPERM
  <2>. HIDE DEF r
  <2>4. t \notin dropped /\ cred[t].groups = {} /\ cred[t].gid = Triple
    BY <1>0, <2>1 DEF CredInv, DropProgress
  <2>5. t \in dropped' => GivenUp(r.cred)
    BY <2>1, <2>3, <2>4 DEF GivenUp
  <2>. QED  BY <2>1, <2>3, <2>5, OneThread DEF Achieved
<1>. QED  BY <1>1, <1>2, <1>3 DEF C!DropPrivilege

LEMMA CredInvHolds == C!Spec => []CredInv
<1>1. CredInv /\ [C!Next]_C!vars => CredInv'
  <2>1. CASE C!Next
    BY <2>1, SpawnHolds, CallsHold, DropHolds DEF C!Next
  <2>2. CASE UNCHANGED C!vars
    BY <2>2 DEF C!vars, CredInv, CredShape, DropProgress, DropFinal
  <2>. QED  BY <2>1, <2>2
<1>. QED  BY <1>1, CredInit, PTL DEF C!Spec

\* Privilege dropped by the sequence setgroups documents is never regained: no
\* call of the family by that thread, or by a thread it starts, in any order
\* and with any ids, gives it another user id, group id or group.
THEOREM DropIsFinal == C!Spec => []DroppedForGood
<1>1. CredInv => DroppedForGood
  <2>. SUFFICES ASSUME CredInv, NEW t \in dropped
       PROVE  /\ C!getuid(cred[t]) = C!User /\ C!geteuid(cred[t]) = C!User
              /\ C!getresuid(cred[t]) = <<C!User, C!User, C!User>>
              /\ C!getgid(cred[t]) = C!User /\ C!getegid(cred[t]) = C!User
              /\ C!getresgid(cred[t]) = <<C!User, C!User, C!User>>
              /\ C!getgroups(cred[t], 0) = [ret |-> 0, groups |-> {}]
    BY DEF DroppedForGood, C!DroppedForGood
  <2>1. GivenUp(cred[t])
    BY DEF CredInv, DropFinal
  <2>2. C!ngroups(cred[t]) = 0
    <3>1. C!Cardinality({}) = Cardinality({})
      BY DEF C!Cardinality, Cardinality
    <3>. QED  BY <2>1, <3>1, FS_EmptySet DEF GivenUp, C!ngroups
  <2>3. C!getgroups(cred[t], 0) = [ret |-> 0, groups |-> {}]
    BY <2>1, <2>2 DEF GivenUp, C!getgroups
  <2>. QED
    BY <2>1, <2>3 DEF GivenUp, Triple, C!getuid, C!geteuid, C!getresuid, C!getgid, C!getegid,
                      C!getresgid, C!Real, C!Eff, C!Saved
<1>. QED  BY <1>1, CredInvHolds, PTL

-----------------------------------------------------------------------------
(* JobControl. *)

Points == {"launch", "place", "foreground", "main", "done", "start", "arm", "check", "image"}

Born(k) == st[k] # "unborn"

JobShape ==
    /\ st \in [J!Procs -> {"unborn", "live", "zombie", "gone"}]
    /\ pgid \in [J!Procs -> Nat] /\ sid \in [J!Procs -> Nat]
    /\ ppid \in [J!Procs -> {Shell, J!InitPid}]
    /\ jpc \in [J!Procs -> Points] /\ jret \in [J!Procs -> Int]

\* Only the job's processes ever join its group, and they leave the shell's
\* group for no other.
Groups ==
    /\ pgid[Shell] = Shell /\ sid[Shell] = Shell /\ ppid[Shell] = J!InitPid
    /\ pgid[Daemon] # J!Leader
    /\ \A k \in Kids : pgid[k] \in {Shell, J!Leader} /\ sid[k] = Shell
    /\ fg \in {Shell, J!Leader}

\* The processes of the job are started in order, the leader first.
Births ==
    /\ \A j, k \in Kids : j < k /\ Born(k) => Born(j)
    /\ \A k \in Kids : ~Born(k) => jpc[k] = "start"
    /\ jpc[Shell] = "place" =>
        /\ jret[Shell] \in Kids /\ Born(jret[Shell])
        /\ \A k \in Kids : Born(k) => k <= jret[Shell]

\* While the shell lives: every process of the job that it has started is in the
\* job's group, but for the one it is about to place; and one that has come
\* past its own setpgid, so that the shell's may fail, has placed itself.
Placed ==
    st[Shell] = "live" =>
        \A k \in Kids :
            /\ ppid[k] = Shell
            /\ Born(k) /\ pgid[k] # J!Leader => jpc[Shell] = "place" /\ jret[Shell] = k
            /\ jpc[Shell] \in {"launch", "place"} => st[k] # "gone"
            /\ jpc[k] # "start" => pgid[k] = J!Leader

SentLate == jsent \in BOOLEAN /\ (jsent => jpc[Shell] \in {"main", "done"})

JobInv == JobShape /\ Groups /\ Births /\ Placed /\ SentLate /\ J!SignalReachesJob

LEMMA LeaderIsLeast == J!Leader \in Kids /\ \A j \in Kids : J!Leader <= j
BY JobPidsAssumption DEF J!Leader

\* The processes are distinct and none of them is init.
LEMMA Distinct ==
  /\ Shell \in J!Procs /\ Daemon \in J!Procs /\ J!Leader \in J!Procs /\ Kids \subseteq J!Procs
  /\ J!Procs \subseteq Nat /\ J!InitPid \notin J!Procs /\ 0 \notin J!Procs
  /\ Shell \notin Kids /\ Daemon \notin Kids /\ Shell # Daemon
  /\ J!Leader \in Kids /\ J!Leader > 1 /\ J!Leader # Shell /\ J!Leader # Daemon
BY JobPidsAssumption, LeaderIsLeast DEF J!Procs, J!InitPid

\* The group the signals are meant for holds processes of the job only.
LEMMA JobGroup == JobShape /\ Groups => J!Members(J!Leader) \subseteq Kids
BY Distinct DEF Groups, J!Members, J!Procs

LEMMA JobInit == J!Init => JobInv
<1>. SUFFICES ASSUME J!Init PROVE JobInv
  OBVIOUS
<1>. USE Distinct DEF J!Init
<1>1. JobShape
  BY JobPidsAssumption DEF JobShape, J!InitPid, Points
<1>2. Groups
  BY DEF Groups
<1>3. Births /\ Placed /\ SentLate
  BY DEF Births, Placed, SentLate, Born
<1>4. J!SignalReachesJob
  BY DEF J!SignalReachesJob
<1>. QED  BY <1>1, <1>2, <1>3, <1>4 DEF JobInv

\* A fork: the new process is the last started, and the next to be placed.
LEMMA ForkStep ==
  ASSUME JobInv, J!Fork
  PROVE  JobInv'
<1>. USE Distinct DEF JobInv
<1>1. PICK k \in Kids \cup {Daemon} :
          /\ st[k] = "unborn" /\ (k \in Kids => \A j \in Kids : j < k => st[j] # "unborn")
          /\ st' = [st EXCEPT ![k] = "live"]
          /\ pgid' = [pgid EXCEPT ![k] = Shell]
          /\ sid' = [sid EXCEPT ![k] = Shell]
          /\ jret' = [jret EXCEPT ![Shell] = k, ![k] = 0]
          /\ jpc' = [jpc EXCEPT ![Shell] = IF k = Daemon THEN "launch" ELSE "place"]
  BY DEF J!Fork, Groups, J!getpgrp, J!getpgid, J!getsid, J!Goto
<1>2. /\ st[Shell] = "live" /\ jpc[Shell] = "launch" /\ UNCHANGED <<ppid, fg, signalled, jsent>>
      /\ k \in J!Procs /\ k # Shell
  BY <1>1 DEF J!Fork, J!At
<1>3. JobShape'
  BY <1>1, <1>2 DEF JobShape, Points
<1>4. Groups'
  BY <1>1, <1>2 DEF JobShape, Groups
<1>5. Births'
  BY <1>1, <1>2, JobPidsAssumption DEF JobShape, Births, Born
<1>6. Placed'
  <2>1. CASE k \in Kids
    BY <1>1, <1>2, <2>1 DEF JobShape, Births, Placed, Born
  <2>2. CASE k = Daemon
    BY <1>1, <1>2, <2>2 DEF JobShape, Placed, Born
  <2>. QED  BY <2>1, <2>2
<1>7. SentLate' /\ J!SignalReachesJob'
  BY <1>1, <1>2 DEF JobShape, SentLate, J!SignalReachesJob
<1>. QED  BY <1>3, <1>4, <1>5, <1>6, <1>7

\* What the shell's setpgid does to the child it has just forked: the child is
\* in the job's group afterwards, whether it put itself there or not.
LEMMA PlaceStep ==
  ASSUME JobInv, J!PlaceChild
  PROVE  JobInv'
<1>. USE Distinct DEF JobInv
<1>. DEFINE k == jret[Shell]
<1>1. /\ k \in Kids /\ st[Shell] = "live" /\ jpc[Shell] = "place" /\ Born(k) /\ ppid[k] = Shell
      /\ sid[k] = Shell /\ sid[Shell] = Shell /\ st[k] # "gone"
  BY DEF J!PlaceChild, J!At, Births, Placed, Groups
<1>2. J!Exists(k) /\ k \in J!Procs /\ k # 0 /\ J!Leader # 0 /\ k # Shell
  BY <1>1 DEF J!Exists, Born, JobShape
<1>3. /\ pgid' = IF J!SetpgidResult(Shell, k, J!Leader) = 0
                 THEN [pgid EXCEPT ![k] = J!Leader] ELSE pgid
      /\ jret' = [jret EXCEPT ![Shell] = J!SetpgidResult(Shell, k, J!Leader)]
      /\ jpc' = [jpc EXCEPT ![Shell] =
                    IF \A j \in Kids : st[j] # "unborn" THEN "foreground" ELSE "launch"]
      /\ UNCHANGED <<st, sid, ppid, pdeath, fg, signalled, jsent>>
  BY <1>2 DEF J!PlaceChild, J!setpgid, J!Goto
<1>. HIDE DEF k
<1>4. J!SetpgidResult(Shell, k, J!Leader) = 0 \/ pgid[k] = J!Leader
  <2>1. CASE J!Executed(k)
    BY <1>1, <2>1 DEF J!Executed, Placed
  <2>2. CASE ~J!Executed(k)
    <3>1. sid[k] # k
      BY <1>1, <1>2
    <3>2. J!Leader # k => \E q \in J!Members(J!Leader) : sid[q] = sid[Shell]
      <4>. SUFFICES ASSUME J!Leader # k
                    PROVE  J!Leader \in J!Members(J!Leader) /\ sid[J!Leader] = Shell
        BY <1>1
      <4>1. J!Leader < k
        BY <1>1, LeaderIsLeast, JobPidsAssumption
      <4>2. Born(J!Leader)
        BY <1>1, <4>1 DEF Births
      <4>3. pgid[J!Leader] = J!Leader /\ st[J!Leader] # "gone" /\ sid[J!Leader] = Shell
        BY <1>1, <4>2 DEF Placed, Groups, k
      <4>. QED  BY <4>2, <4>3 DEF J!Members, J!Exists, Born, JobShape
    <3>. QED  BY <1>1, <1>2, <2>2, <3>1, <3>2 DEF J!SetpgidResult
  <2>. QED  BY <2>1, <2>2
<1>5. /\ pgid' = [pgid EXCEPT ![k] = J!Leader] \/ (pgid' = pgid /\ pgid[k] = J!Leader)
      /\ J!SetpgidResult(Shell, k, J!Leader) \in Int
  <2>1. J!SetpgidResult(Shell, k, J!Leader) \in Int
    BY <1>1, <1>2 DEF J!SetpgidResult, J!ESRCH, J!EPERM, J!EACCES
  <2>. QED  BY <1>3, <1>4, <2>1
<1>6. pgid'[k] = J!Leader /\ \A p \in J!Procs : p # k => pgid'[p] = pgid[p]
  BY <1>2, <1>5 DEF JobShape
<1>7. JobShape'
  BY <1>2, <1>3, <1>5 DEF JobShape, Points
<1>8. Groups'
  BY <1>1, <1>3, <1>6 DEF Groups
<1>9. Births'
  BY <1>3 DEF JobShape, Births, Born
<1>10. Placed'
  BY <1>1, <1>3, <1>6 DEF JobShape, Placed, Born, k
<1>11. SentLate' /\ J!SignalReachesJob'
  BY <1>1, <1>3 DEF SentLate, J!SignalReachesJob, J!Exists
<1>. QED  BY <1>7, <1>8, <1>9, <1>10, <1>11

\* The rest of the shell's steps.
LEMMA ShellStep ==
  ASSUME JobInv, J!Foreground \/ J!SignalJob \/ J!Keyboard \/ J!Reap \/ J!TakeBack
  PROVE  JobInv'
<1>. USE Distinct DEF JobInv
<1>1. CASE J!Foreground
  <2>1. /\ jpc' = [jpc EXCEPT ![Shell] = "main"] /\ jpc[Shell] = "foreground"
        /\ fg' \in {fg, J!Leader}
        /\ \E r \in Int : jret' = [jret EXCEPT ![Shell] = r]
        /\ UNCHANGED <<st, pgid, sid, ppid, signalled, jsent>>
    BY <1>1 DEF J!Foreground, J!At, J!Goto, J!tcsetpgrp, J!ESRCH, J!EPERM
  <2>2. JobShape'
    BY <2>1 DEF JobShape, Points
  <2>3. Groups' /\ Births' /\ Placed'
    BY <2>1 DEF JobShape, Groups, Births, Placed, Born
  <2>4. SentLate' /\ J!SignalReachesJob'
    BY <2>1 DEF JobShape, SentLate, J!SignalReachesJob, J!Exists
  <2>. QED  BY <2>2, <2>3, <2>4
<1>2. CASE J!SignalJob
  <2>1. /\ st[Shell] = "live" /\ jpc[Shell] = "main" /\ jsent' = TRUE
        /\ signalled' = signalled \cup J!Targets(Shell, 0 - J!Leader)
        /\ \E r \in Int : jret' = [jret EXCEPT ![Shell] = r]
        /\ UNCHANGED <<st, pgid, sid, ppid, jpc, fg>>
    BY <1>2 DEF J!SignalJob, J!At, J!killpg, J!kill, J!ESRCH
  <2>2. J!Targets(Shell, 0 - J!Leader) = J!Members(J!Leader)
    <3>1. 0 - J!Leader < -1 /\ -(0 - J!Leader) = J!Leader
      OBVIOUS
    <3>. QED  BY <3>1 DEF J!Targets
  <2>3. J!Members(J!Leader) \subseteq Kids
    BY JobGroup
  <2>4. \A k \in Kids : J!Exists(k) => k \in J!Members(J!Leader)
    BY <2>1 DEF J!Exists, J!Members, Placed, Born
  <2>5. JobShape' /\ Groups' /\ Births'
    BY <2>1 DEF JobShape, Groups, Births, Born
  <2>6. Placed' /\ SentLate'
    BY <2>1 DEF JobShape, Placed, SentLate, Born
  <2>7. J!SignalReachesJob'
    BY <2>1, <2>2, <2>3, <2>4 DEF J!SignalReachesJob, J!Exists
  <2>. QED  BY <2>5, <2>6, <2>7
<1>3. CASE J!Keyboard
  <2>1. /\ fg # Shell /\ signalled' = signalled \cup J!Members(fg)
        /\ UNCHANGED <<st, pgid, sid, ppid, jpc, jret, fg, jsent>>
    BY <1>3 DEF J!Keyboard, J!tcgetpgrp, J!getpgid, Groups
  <2>2. J!Members(fg) \subseteq Kids
    BY <2>1, JobGroup DEF Groups
  <2>3. JobShape' /\ Groups' /\ Births' /\ Placed' /\ SentLate'
    BY <2>1 DEF JobShape, Groups, Births, Placed, Born, SentLate
  <2>4. J!SignalReachesJob'
    BY <2>1, <2>2 DEF J!SignalReachesJob, J!Exists
  <2>. QED  BY <2>3, <2>4
<1>4. CASE J!Reap
  <2>1. PICK k \in Kids : st[k] = "zombie" /\ st' = [st EXCEPT ![k] = "gone"]
    BY <1>4 DEF J!Reap
  <2>2. jpc[Shell] = "main" /\ UNCHANGED <<pgid, sid, ppid, jpc, jret, fg, signalled, jsent>>
    BY <1>4 DEF J!Reap, J!At
  <2>3. JobShape' /\ Groups'
    BY <2>1, <2>2 DEF JobShape, Groups
  <2>4. Births' /\ Placed'
    BY <2>1, <2>2 DEF JobShape, Births, Placed, Born
  <2>5. SentLate' /\ J!SignalReachesJob'
    BY <2>1, <2>2 DEF JobShape, SentLate, J!SignalReachesJob, J!Exists
  <2>. QED  BY <2>3, <2>4, <2>5
<1>5. CASE J!TakeBack
  <2>1. /\ jpc' = [jpc EXCEPT ![Shell] = "done"] /\ jpc[Shell] = "main"
        /\ fg' \in {fg, Shell}
        /\ \E r \in Int : jret' = [jret EXCEPT ![Shell] = r]
        /\ UNCHANGED <<st, pgid, sid, ppid, signalled, jsent>>
    BY <1>5 DEF J!TakeBack, J!At, J!Goto, J!tcsetpgrp, J!getpgrp, J!getpgid, Groups, J!ESRCH,
                J!EPERM
  <2>2. JobShape'
    BY <2>1 DEF JobShape, Points
  <2>3. Groups' /\ Births' /\ Placed'
    BY <2>1 DEF JobShape, Groups, Births, Placed, Born
  <2>4. SentLate' /\ J!SignalReachesJob'
    BY <2>1 DEF JobShape, SentLate, J!SignalReachesJob, J!Exists
  <2>. QED  BY <2>2, <2>3, <2>4
<1>. QED  BY <1>1, <1>2, <1>3, <1>4, <1>5

\* The shell is killed: its children have another parent from then on.
LEMMA KilledStep ==
  ASSUME JobInv, J!ShellKilled
  PROVE  JobInv'
<1>. USE Distinct DEF JobInv
<1>1. UNCHANGED <<pgid, sid, jpc, jret, fg, signalled, jsent>>
  BY DEF J!ShellKilled
<1>2. /\ st' \in [J!Procs -> {"unborn", "live", "zombie", "gone"}] /\ st'[Shell] = "gone"
      /\ \A q \in J!Procs : q # Shell =>
            st'[q] \in {st[q], "gone"} /\ (st[q] = "unborn" => st'[q] = "unborn")
  BY DEF J!ShellKilled, J!Dies, JobShape, Groups, J!Exists
<1>3. /\ ppid' \in [J!Procs -> {Shell, J!InitPid}]
      /\ \A q \in J!Procs : ppid'[q] \in {ppid[q], J!InitPid}
  BY DEF J!ShellKilled, J!Dies, JobShape
<1>4. JobShape'
  BY <1>1, <1>2, <1>3 DEF JobShape
<1>5. Groups'
  BY <1>1, <1>3 DEF Groups
<1>6. Births'
  <2>1. \A j \in Kids : Born(j)' <=> Born(j)
    BY <1>2 DEF Born
  <2>. QED  BY <1>1, <2>1 DEF Births, Born
<1>7. Placed' /\ SentLate'
  BY <1>1, <1>2 DEF Placed, SentLate
<1>8. J!SignalReachesJob'
  BY <1>1, <1>2, <1>3 DEF J!SignalReachesJob, J!Exists
<1>. QED  BY <1>4, <1>5, <1>6, <1>7, <1>8

\* The daemon leaves the session; it was never in the job's group.
LEMMA DaemonStep ==
  ASSUME JobInv, J!DaemonLeaves
  PROVE  JobInv'
<1>. USE Distinct DEF JobInv
<1>1. /\ pgid' \in {pgid, [pgid EXCEPT ![Daemon] = Daemon]}
      /\ sid' \in {sid, [sid EXCEPT ![Daemon] = Daemon]}
      /\ \E r \in Int : jret' = [jret EXCEPT ![Daemon] = r]
      /\ jpc' = [jpc EXCEPT ![Daemon] = "image"]
      /\ UNCHANGED <<st, ppid, fg, signalled, jsent>>
  BY DEF J!DaemonLeaves, J!setsid, J!Goto, J!EPERM
<1>2. JobShape'
  BY <1>1 DEF JobShape, Points
<1>3. Groups'
  BY <1>1 DEF JobShape, Groups
<1>4. Births' /\ Placed'
  BY <1>1 DEF JobShape, Births, Placed, Born
<1>5. SentLate' /\ J!SignalReachesJob'
  BY <1>1 DEF JobShape, SentLate, J!SignalReachesJob, J!Exists
<1>. QED  BY <1>2, <1>3, <1>4, <1>5

\* A child's own setpgid: while the shell lives it ends in the job's group.
LEMMA KidGroupStep ==
  ASSUME JobInv, NEW k \in Kids, J!KidGroup(k)
  PROVE  JobInv'
<1>. USE Distinct DEF JobInv
<1>. DEFINE r == J!SetpgidResult(k, k, J!Leader)
<1>1. /\ st[k] = "live" /\ jpc[k] = "start" /\ k \in J!Procs /\ k # 0 /\ k # Shell
      /\ J!Exists(k) /\ sid[k] = Shell /\ sid[k] # k
  BY DEF J!KidGroup, J!At, Groups, J!Exists
<1>2. /\ pgid' = IF r = 0 THEN [pgid EXCEPT ![k] = J!Leader] ELSE pgid
      /\ jret' = [jret EXCEPT ![k] = r]
      /\ jpc' = [jpc EXCEPT ![k] = "arm"]
      /\ UNCHANGED <<st, sid, ppid, fg, signalled, jsent>>
  BY <1>1 DEF J!KidGroup, J!setpgid, J!getpid, J!Goto
<1>3. r \in Int
  BY <1>1 DEF J!SetpgidResult, J!EPERM
<1>4. st[Shell] = "live" => r = 0 \/ pgid[k] = J!Leader
  <2>. SUFFICES ASSUME st[Shell] = "live", pgid[k] # J!Leader PROVE r = 0
    OBVIOUS
  <2>1. jpc[Shell] = "place" /\ jret[Shell] = k
    BY <1>1 DEF Placed, Born
  <2>2. J!Leader # k => \E q \in J!Members(J!Leader) : sid[q] = sid[k]
    <3>. SUFFICES ASSUME J!Leader # k
                  PROVE  J!Leader \in J!Members(J!Leader) /\ sid[J!Leader] = Shell
      BY <1>1
    <3>1. J!Leader < k
      BY LeaderIsLeast, JobPidsAssumption
    <3>2. Born(J!Leader)
      BY <1>1, <3>1 DEF Births, Born
    <3>3. pgid[J!Leader] = J!Leader /\ st[J!Leader] # "gone" /\ sid[J!Leader] = Shell
      BY <2>1, <3>2 DEF Placed, Groups
    <3>. QED  BY <3>2, <3>3 DEF J!Members, J!Exists, Born, JobShape
  <2>. QED  BY <1>1, <2>2 DEF J!SetpgidResult
<1>. HIDE DEF r
<1>5. /\ \A p \in J!Procs : p # k => pgid'[p] = pgid[p]
      /\ pgid'[k] \in {pgid[k], J!Leader}
      /\ st[Shell] = "live" => pgid'[k] = J!Leader
  BY <1>1, <1>2, <1>4 DEF JobShape
<1>6. JobShape'
  BY <1>1, <1>2, <1>3 DEF JobShape, Points
<1>7. Groups'
  BY <1>1, <1>2, <1>5 DEF Groups
<1>8. Births'
  BY <1>1, <1>2 DEF JobShape, Births, Born
<1>9. Placed'
  BY <1>1, <1>2, <1>5 DEF JobShape, Placed, Born
<1>10. SentLate' /\ J!SignalReachesJob'
  BY <1>1, <1>2 DEF JobShape, SentLate, J!SignalReachesJob, J!Exists
<1>. QED  BY <1>6, <1>7, <1>8, <1>9, <1>10

LEMMA KidStep ==
  ASSUME JobInv, NEW k \in Kids, J!KidArms(k) \/ J!KidChecks(k)
  PROVE  JobInv'
<1>. USE Distinct DEF JobInv
<1>1. /\ st[k] = "live" /\ jpc[k] \in {"arm", "check"} /\ k \in J!Procs /\ k # Shell
      /\ \E to \in {"check", "image"} : jpc' = [jpc EXCEPT ![k] = to]
      /\ jret' \in {jret, [jret EXCEPT ![k] = 0]}
      /\ UNCHANGED <<st, pgid, sid, ppid, fg, signalled, jsent>>
  BY DEF J!KidArms, J!KidChecks, J!At, J!Goto, J!set_pdeathsig
<1>2. JobShape' /\ Groups'
  BY <1>1 DEF JobShape, Points, Groups
<1>3. Births' /\ Placed'
  BY <1>1 DEF JobShape, Births, Placed, Born
<1>4. SentLate' /\ J!SignalReachesJob'
  BY <1>1 DEF JobShape, SentLate, J!SignalReachesJob, J!Exists
<1>. QED  BY <1>2, <1>3, <1>4

\* A child dies: it has no children, and a living shell still has to reap it.
LEMMA ExitStep ==
  ASSUME JobInv, NEW k \in Kids, J!KidExits(k)
  PROVE  JobInv'
<1>. USE Distinct DEF JobInv
<1>1. /\ UNCHANGED <<pgid, sid, jpc, jret, fg, signalled, jsent>>
      /\ k \in J!Procs /\ k # Shell /\ st[k] = "live"
  BY DEF J!KidExits
<1>2. {c \in J!Procs : J!Exists(c) /\ ppid[c] = k} = {}
  BY DEF JobShape
<1>3. /\ \A q \in J!Procs : ppid'[q] = ppid[q]
      /\ ppid' \in [J!Procs -> {Shell, J!InitPid}]
  BY <1>2 DEF J!KidExits, J!Dies, JobShape
<1>4. /\ st' \in [J!Procs -> {"unborn", "live", "zombie", "gone"}]
      /\ \A q \in J!Procs : q # k => st'[q] = st[q]
      /\ st'[k] = IF ppid[k] = J!InitPid THEN "gone" ELSE "zombie"
  BY <1>1, <1>2 DEF J!KidExits, J!Dies, JobShape
<1>5. JobShape'
  BY <1>1, <1>3, <1>4 DEF JobShape
<1>6. Groups'
  BY <1>1, <1>3 DEF Groups
<1>7. Births'
  <2>1. \A j \in Kids : Born(j)' <=> Born(j)
    BY <1>1, <1>4 DEF Born
  <2>. QED  BY <1>1, <2>1 DEF Births, Born
<1>8. Placed'
  BY <1>1, <1>3, <1>4 DEF Placed, Born
<1>9. SentLate' /\ J!SignalReachesJob'
  BY <1>1, <1>3, <1>4 DEF SentLate, J!SignalReachesJob, J!Exists
<1>. QED  BY <1>5, <1>6, <1>7, <1>8, <1>9

\* For any number of processes in the job: a signal sent with killpg, or typed
\* at the terminal, reaches processes of the job only, and killpg reached every
\* one of them that exists and is still the shell's, whichever of parent and
\* child came first to setpgid.
THEOREM JobSignalled == J!Spec => []SignalReachesJob
<1>1. JobInv /\ [J!Next]_J!vars => JobInv'
  <2>1. CASE J!Next
    BY <2>1, ForkStep, PlaceStep, ShellStep, KilledStep, DaemonStep, KidGroupStep, KidStep,
       ExitStep
       DEF J!Next, J!KidSteps
  <2>2. CASE UNCHANGED J!vars
    BY <2>2 DEF J!vars, JobInv, JobShape, Groups, Births, Placed, Born, SentLate,
                J!SignalReachesJob, J!Exists
  <2>. QED  BY <2>1, <2>2
<1>2. JobInv => SignalReachesJob
  BY DEF JobInv, SignalReachesJob
<1>. QED  BY <1>1, <1>2, JobInit, PTL DEF J!Spec
=============================================================================
