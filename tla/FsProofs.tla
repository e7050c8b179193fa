------------------------------ MODULE FsProofs ------------------------------
(***************************************************************************)
(* What programs that share a directory can rely on, for any number of     *)
(* programs that take the lock.                                            *)
(***************************************************************************)
EXTENDS Fs, FiniteSetTheorems, TLAPS

-----------------------------------------------------------------------------
(* Fs. The names fall into four parties, of which a call changes one: the   *)
(* path and its copy, the other file, the published file and its new        *)
(* version, the lock and the lockers' own files. No inode has names of two  *)
(* parties.                                                                 *)

InodeRecs ==
    [kind : {"reg", "dir", "lnk"}, mode : SUBSET {"r", "w", "x"}, uid : Int, gid : Int,
     size : Int, atime : Int, mtime : Int, target : {"none", "victim"}]

Dirs == [Names -> {0} \cup Inodes]
Tables == [Inodes -> InodeRecs]

Party(n) ==
    CASE n \in {"path", "copy"} -> 1 [] n = "victim" -> 2 [] n \in {"conf", "new"} -> 3
      [] OTHER -> 4

FsShape ==
    /\ dir \in Dirs /\ inode \in Tables
    /\ holds \in [Lockers -> {"no", "rename", "link", "mkdir"}]
    /\ pub \in {"make", "mode", "size", "own", "times", "put", "drop"}

Parties == \A n, m \in Names : dir[n] # 0 /\ dir[n] = dir[m] => Party(n) = Party(m)

Victim == dir["victim"] = 2 /\ inode[2] = Blank

Locked ==
    /\ \A l \in Lockers : holds[l] # "no" => dir["lock"] # 0
    /\ LockExcludes

\* The published file, and what the new version already has.
Whole(x) == x.kind = "reg" /\ x.mode = {"r", "w"}
Published ==
    /\ seen = TRUE
    /\ dir["conf"] # 0 /\ Whole(inode[dir["conf"]])
    /\ dir["conf"] = 3 \/ inode[dir["conf"]].gid = 7
    /\ pub # "make" =>
        /\ dir["new"] \notin {0, dir["conf"]}
        /\ inode[dir["new"]].kind = "reg"
        /\ pub \in {"size", "own", "times", "put"} => Whole(inode[dir["new"]])
        /\ pub \in {"times", "put"} => inode[dir["new"]].gid = 7

FsInv == FsShape /\ Parties /\ Victim /\ Locked /\ Published

LEMMA OneMore ==
  ASSUME NEW S, NEW x, IsFiniteSet(S)
  PROVE  /\ IsFiniteSet(S \cup {x}) /\ Cardinality(S) \in Nat
         /\ Cardinality(S \cup {x}) <= Cardinality(S) + 1
<1>1. /\ IsFiniteSet(S \cup {x}) /\ Cardinality(S) \in Nat
      /\ Cardinality(S \cup {x}) = IF x \in S THEN Cardinality(S) ELSE Cardinality(S) + 1
  BY FS_AddElement, FS_CardinalityType
<1>. QED  BY <1>1

\* There are fewer names than inodes, so one of these is free.
LEMMA FreeInode ==
  ASSUME FsShape
  PROVE  Free \in Inodes /\ \A n \in Names : dir[n] # Free
<1>. DEFINE c == Cardinality(Lockers)
<1>1. IsFiniteSet(Lockers) /\ c \in Nat
  BY LockersAssumption, FS_CardinalityType
<1>2. IsFiniteSet(Names) /\ Cardinality(Names) <= 6 + c
  <2>. DEFINE A == Lockers \cup {"path"}
              B == A \cup {"victim"}
              C == B \cup {"copy"}
              D == C \cup {"lock"}
              E == D \cup {"conf"}
              G == E \cup {"new"}
  <2>1. IsFiniteSet(A) /\ Cardinality(Lockers) \in Nat /\ Cardinality(A) <= Cardinality(Lockers) + 1
    BY <1>1, OneMore
  <2>. HIDE DEF A
  <2>2. IsFiniteSet(B) /\ Cardinality(A) \in Nat /\ Cardinality(B) <= Cardinality(A) + 1
    BY <2>1, OneMore
  <2>. HIDE DEF B
  <2>3. IsFiniteSet(C) /\ Cardinality(B) \in Nat /\ Cardinality(C) <= Cardinality(B) + 1
    BY <2>2, OneMore
  <2>. HIDE DEF C
  <2>4. IsFiniteSet(D) /\ Cardinality(C) \in Nat /\ Cardinality(D) <= Cardinality(C) + 1
    BY <2>3, OneMore
  <2>. HIDE DEF D
  <2>5. IsFiniteSet(E) /\ Cardinality(D) \in Nat /\ Cardinality(E) <= Cardinality(D) + 1
    BY <2>4, OneMore
  <2>. HIDE DEF E
  <2>6. IsFiniteSet(G) /\ Cardinality(E) \in Nat /\ Cardinality(G) <= Cardinality(E) + 1
    BY <2>5, OneMore
  <2>7. Names = G
    BY DEF A, B, C, D, E, Names
  <2>. HIDE DEF G
  <2>8. Cardinality(G) \in Nat
    BY <2>6, FS_CardinalityType
  <2>. QED  BY <1>1, <2>1, <2>2, <2>3, <2>4, <2>5, <2>6, <2>7, <2>8
<1>. HIDE DEF c
<1>3. IsFiniteSet(Inodes) /\ Cardinality(Inodes) = 7 + c
  <2>1. Inodes = 1..(7 + c)
    BY DEF Inodes, c
  <2>. QED  BY <1>1, <2>1, FS_Interval
<1>4. ASSUME \A i \in Inodes : \E n \in Names : dir[n] = i  PROVE  FALSE
  <2>. DEFINE g == [i \in Inodes |-> CHOOSE n \in Names : dir[n] = i]
  <2>1. \A i \in Inodes : g[i] \in Names /\ dir[g[i]] = i
    BY <1>4
  <2>2. g \in [Inodes -> Names]
    BY <2>1
  <2>. HIDE DEF g
  <2>3. Cardinality(Names) \in Nat /\ Cardinality(Names) < Cardinality(Inodes)
    BY <1>1, <1>2, <1>3, FS_CardinalityType
  <2>4. \E x, y \in Inodes : x # y /\ g[x] = g[y]
    BY <1>2, <1>3, <2>2, <2>3, FS_PigeonHole
  <2>. QED  BY <2>1, <2>4
<1>5. \E i \in Inodes : \A n \in Names : dir[n] # i
  BY <1>4
<1>. QED  BY <1>5 DEF Free

LEMMA OwnInodes ==
  /\ OwnInode \in [Lockers -> 4..(3 + Cardinality(Lockers))]
  /\ Cardinality(Lockers) \in Nat
<1>. DEFINE c == Cardinality(Lockers)
<1>1. IsFiniteSet(Lockers) /\ c \in Nat
  BY LockersAssumption, FS_CardinalityType
<1>2. ExistsBijection(Lockers, 1..c)
  <2>1. IsFiniteSet(1..c) /\ Cardinality(1..c) = c
    BY <1>1, FS_Interval
  <2>. QED  BY <1>1, <2>1, FS_SameCardinalityBij
<1>3. PICK g \in [Lockers -> 1..c] : \A l, m \in Lockers : g[l] = g[m] => l = m
  BY <1>2 DEF ExistsBijection, Bijection, Injection, IsInjective
<1>. DEFINE f == [l \in Lockers |-> 3 + g[l]]
<1>4. f \in [Lockers -> 4..(3 + c)]
  BY <1>1, <1>3
<1>5. \A l, m \in Lockers : f[l] = f[m] => l = m
  BY <1>1, <1>3
<1>. HIDE DEF f
<1>. QED  BY <1>1, <1>4, <1>5 DEF OwnInode

LEMMA FsInit == Init => FsInv
<1>. SUFFICES ASSUME Init PROVE FsInv
  OBVIOUS
<1>. DEFINE c == Cardinality(Lockers)
<1>1. /\ OwnInode \in [Lockers -> 4..(3 + c)] /\ c \in Nat
      /\ {"path", "victim", "copy", "lock", "conf", "new"} \cap Lockers = {}
  BY OwnInodes, LockersAssumption
<1>. HIDE DEF c
<1>2. Inodes = 1..(7 + c)
  BY DEF Inodes, c
<1>3. /\ dir = [n \in Names |-> dir[n]] /\ dir["path"] = 1 /\ dir["victim"] = 2 /\ dir["conf"] = 3
      /\ dir["copy"] = 0 /\ dir["lock"] = 0 /\ dir["new"] = 0
      /\ \A l \in Lockers : dir[l] = OwnInode[l]
  BY <1>1 DEF Init, Names
<1>4. dir \in Dirs
  <2>1. \A n \in Names : dir[n] \in {0} \cup Inodes
    BY <1>1, <1>2, <1>3 DEF Names
  <2>. QED  BY <1>3, <2>1 DEF Dirs
<1>5. Blank \in InodeRecs /\ Whole(Blank)
  BY DEF Blank, Inode, InodeRecs, Whole
<1>6. inode \in Tables /\ inode[2] = Blank /\ inode[3] = Blank
  BY <1>1, <1>2, <1>5 DEF Init, Tables
<1>7. FsShape
  BY <1>4, <1>6 DEF Init, FsShape
<1>8. Parties
  <2>. SUFFICES ASSUME NEW n \in Names, NEW m \in Names, dir[n] # 0, dir[n] = dir[m]
                PROVE  Party(n) = Party(m)
    BY DEF Parties
  <2>1. CASE n \in Lockers
    BY <1>1, <1>3, <2>1 DEF Names, Party
  <2>2. CASE n \notin Lockers
    BY <1>1, <1>3, <2>2 DEF Names, Party
  <2>. QED  BY <2>1, <2>2
<1>9. Victim /\ Locked
  BY <1>3, <1>6 DEF Init, Victim, Locked, LockExcludes, LockExcludes
<1>10. Published
  BY <1>3, <1>5, <1>6 DEF Init, Published
<1>. QED  BY <1>7, <1>8, <1>9, <1>10 DEF FsInv

\* A call's result changes names of one party, and inodes of that party or
\* free ones.
Reach(k) == {0, Free} \cup {dir[m] : m \in {x \in Names : Party(x) = k}}
Within(k, r) ==
    /\ r.dir \in Dirs /\ r.inode \in Tables
    /\ \A n \in Names : IF Party(n) = k THEN r.dir[n] \in Reach(k) ELSE r.dir[n] = dir[n]
    /\ \A i \in Inodes : i \notin Reach(k) => r.inode[i] = inode[i]

LEMMA BlankRec == Blank \in InodeRecs
  BY DEF Blank, Inode, InodeRecs

\* The world after a call.
LEMMA DoesResult ==
  ASSUME FsShape, NEW r, r.dir \in Dirs, r.inode \in Tables, Does(r)
  PROVE  /\ dir' = r.dir /\ dir' \in Dirs /\ inode' \in Tables
         /\ \A n \in Names : dir'[n] # 0 =>
                dir'[n] \in Inodes /\ inode'[dir'[n]] = r.inode[dir'[n]]
<1>1. /\ dir' = r.dir
      /\ inode' = [i \in Inodes |->
                      IF \E n \in Names : r.dir[n] = i THEN r.inode[i] ELSE Blank]
  BY DEF Does
<1>2. inode' \in Tables
  BY <1>1, BlankRec DEF Tables
<1>. QED  BY <1>1, <1>2 DEF Dirs

\* The parties stay apart, and the others find their files as they were.
LEMMA OtherParties ==
  ASSUME FsShape, Parties, NEW k, NEW r, Within(k, r), Does(r)
  PROVE  /\ dir' = r.dir /\ dir' \in Dirs /\ inode' \in Tables /\ Parties'
         /\ \A n \in Names : Party(n) # k =>
                dir'[n] = dir[n] /\ (dir[n] # 0 => inode'[dir[n]] = inode[dir[n]])
<1>1. /\ dir' = r.dir /\ dir' \in Dirs /\ inode' \in Tables
      /\ \A n \in Names : dir'[n] # 0 =>
             dir'[n] \in Inodes /\ inode'[dir'[n]] = r.inode[dir'[n]]
  BY DoesResult DEF Within
<1>2. \A n \in Names : Party(n) = k => dir'[n] \in Reach(k)
  BY <1>1 DEF Within
<1>3. \A n \in Names : Party(n) # k => dir'[n] = dir[n]
  BY <1>1 DEF Within
<1>4. \A n \in Names : Party(n) # k /\ dir[n] # 0 => dir[n] \notin Reach(k)
  BY FreeInode DEF Reach, Parties
<1>5. \A n \in Names : Party(n) # k /\ dir[n] # 0 => inode'[dir[n]] = inode[dir[n]]
  BY <1>1, <1>3, <1>4 DEF Within
<1>6. Parties'
  <2>. SUFFICES ASSUME NEW n \in Names, NEW m \in Names, dir'[n] # 0, dir'[n] = dir'[m]
                PROVE  Party(n) = Party(m)
    BY DEF Parties
  <2>1. CASE Party(n) = k /\ Party(m) # k
    BY <1>2, <1>3, <1>4, <2>1
  <2>2. CASE Party(n) # k /\ Party(m) = k
    BY <1>2, <1>3, <1>4, <2>2
  <2>3. CASE Party(n) # k /\ Party(m) # k
    BY <1>3, <2>3 DEF Parties
  <2>. QED  BY <2>1, <2>2, <2>3
<1>. QED  BY <1>1, <1>3, <1>5, <1>6

-----------------------------------------------------------------------------
(* What the calls' results look like. *)

LEMMA SameResult ==
  ASSUME FsShape, NEW k, NEW r, r.dir = dir, r.inode = inode
  PROVE  Within(k, r)
  BY DEF Within, Reach, FsShape

LEMMA FailsResult ==
  ASSUME FsShape, NEW k, NEW e
  PROVE  /\ Within(k, Fails(e)) /\ Fails(e).ok = FALSE /\ Fails(e).dir = dir
         /\ Within(k, Gives(e)) /\ Gives(e).ok = TRUE
<1>1. /\ Fails(e).dir = dir /\ Fails(e).inode = inode /\ Fails(e).ok = FALSE
      /\ Gives(e).dir = dir /\ Gives(e).inode = inode /\ Gives(e).ok = TRUE
  BY DEF Fails, Gives
<1>. QED  BY <1>1, SameResult

LEMMA EntryResult ==
  ASSUME FsShape, NEW n \in Names, NEW i
  PROVE  /\ Entry(n, i).dir = [dir EXCEPT ![n] = i]
         /\ Entry(n, i).inode = inode /\ Entry(n, i).ok = TRUE
         /\ i \in Reach(Party(n)) /\ i \in {0} \cup Inodes => Within(Party(n), Entry(n, i))
<1>1. /\ Entry(n, i).dir = [dir EXCEPT ![n] = i]
      /\ Entry(n, i).inode = inode /\ Entry(n, i).ok = TRUE
  BY DEF Entry, Gives
<1>2. ASSUME i \in Reach(Party(n)), i \in {0} \cup Inodes  PROVE  Within(Party(n), Entry(n, i))
  <2>1. \A m \in Names : Party(m) = Party(n) => dir[m] \in Reach(Party(n))
    BY DEF Reach
  <2>. QED  BY <1>1, <1>2, <2>1 DEF Within, FsShape, Dirs
<1>. QED  BY <1>1, <1>2

\* A new inode: mkdir, symlink, the creation of a file.
Made(n, x) == [Entry(n, Free) EXCEPT !.inode[Free] = x]

LEMMA MadeResult ==
  ASSUME FsShape, NEW n \in Names, NEW x \in InodeRecs
  PROVE  /\ Made(n, x).dir = [dir EXCEPT ![n] = Free]
         /\ Made(n, x).inode = [inode EXCEPT ![Free] = x] /\ Made(n, x).ok = TRUE
         /\ Within(Party(n), Made(n, x))
<1>1. /\ Made(n, x).dir = [dir EXCEPT ![n] = Free]
      /\ Made(n, x).inode = [inode EXCEPT ![Free] = x] /\ Made(n, x).ok = TRUE
  BY DEF Made, Entry, Gives
<1>2. Free \in Inodes
  BY FreeInode
<1>3. /\ Free \in Reach(Party(n))
      /\ \A m \in Names : Party(m) = Party(n) => dir[m] \in Reach(Party(n))
  BY DEF Reach
<1>4. Made(n, x).dir \in Dirs /\ Made(n, x).inode \in Tables
  BY <1>1, <1>2 DEF FsShape, Dirs, Tables
<1>. QED  BY <1>1, <1>2, <1>3, <1>4 DEF Within, FsShape, Dirs, Tables

\* A changed inode: chmod, chown, truncate, utimens.
LEMMA ChangeResult ==
  ASSUME FsShape, NEW n \in Names, dir[n] # 0, NEW x \in InodeRecs
  PROVE  /\ Change(dir[n], x).dir = dir
         /\ Change(dir[n], x).inode = [inode EXCEPT ![dir[n]] = x]
         /\ Within(Party(n), Change(dir[n], x))
<1>1. /\ Change(dir[n], x).dir = dir
      /\ Change(dir[n], x).inode = [inode EXCEPT ![dir[n]] = x]
  BY DEF Change, Gives
<1>2. \A m \in Names : Party(m) = Party(n) => dir[m] \in Reach(Party(n))
  BY DEF Reach
<1>3. Change(dir[n], x).inode \in Tables
  BY <1>1 DEF FsShape, Tables
<1>. QED  BY <1>1, <1>2, <1>3 DEF Within, FsShape, Dirs, Tables

\* unlink and rmdir.
LEMMA UnlinkResult ==
  ASSUME FsShape, NEW n \in Names, NEW flags
  PROVE  Within(Party(n), unlinkat(n, flags))
<1>1. 0 \in Reach(Party(n))
  BY DEF Reach
<1>. QED  BY <1>1, FailsResult, EntryResult DEF unlinkat

\* link, which does not follow.
LEMMA LinkResult ==
  ASSUME FsShape, NEW old \in Names, NEW new \in Names, Party(old) = Party(new)
  PROVE  /\ Within(Party(new), link(old, new))
         /\ link(old, new).ok => dir[new] = 0 /\ link(old, new).dir[new] # 0
         /\ ~link(old, new).ok => link(old, new).dir = dir
<1>1. link(old, new) = IF dir[old] = 0 THEN Fails(ENOENT)
                         ELSE IF dir[new] # 0 THEN Fails(EEXIST)
                         ELSE Entry(new, dir[old])
  BY DEF link, linkat, Walk
<1>2. dir[old] \in Reach(Party(new)) /\ dir[old] \in {0} \cup Inodes
  BY DEF Reach, FsShape, Dirs
<1>3. CASE dir[old] = 0 \/ dir[new] # 0
  BY <1>1, <1>3, FailsResult
<1>4. CASE dir[old] # 0 /\ dir[new] = 0
  <2>1. link(old, new) = Entry(new, dir[old])
    BY <1>1, <1>4
  <2>2. /\ Entry(new, dir[old]).dir = [dir EXCEPT ![new] = dir[old]]
        /\ Within(Party(new), Entry(new, dir[old])) /\ Entry(new, dir[old]).ok = TRUE
    BY <1>2, EntryResult
  <2>3. Entry(new, dir[old]).dir[new] = dir[old]
    BY <2>2 DEF FsShape, Dirs
  <2>. QED  BY <1>4, <2>1, <2>2, <2>3
<1>. QED  BY <1>3, <1>4

\* rename and renameat2 with its flags, between two names of a party.
Moved(old, new, i) == [Entry(new, dir[old]) EXCEPT !.dir[old] = i]

LEMMA MovedResult ==
  ASSUME FsShape, NEW old \in Names, NEW new \in Names, old # new, Party(old) = Party(new),
         NEW i \in {0, dir[new]}
  PROVE  /\ Moved(old, new, i).dir[new] = dir[old] /\ Moved(old, new, i).dir[old] = i
         /\ Moved(old, new, i).inode = inode /\ Moved(old, new, i).ok = TRUE
         /\ Within(Party(new), Moved(old, new, i))
<1>1. /\ Moved(old, new, i).dir = [dir EXCEPT ![new] = dir[old], ![old] = i]
      /\ Moved(old, new, i).inode = inode /\ Moved(old, new, i).ok = TRUE
  BY DEF Moved, Entry, Gives, FsShape, Dirs
<1>2. /\ \A m \in Names : Party(m) = Party(new) => dir[m] \in Reach(Party(new))
      /\ i \in Reach(Party(new)) /\ i \in {0} \cup Inodes
  BY DEF Reach, FsShape, Dirs
<1>3. Moved(old, new, i).dir[new] = dir[old] /\ Moved(old, new, i).dir[old] = i
  BY <1>1 DEF FsShape, Dirs
<1>. QED  BY <1>1, <1>2, <1>3 DEF Within, FsShape, Dirs

LEMMA NoReplaceResult ==
  ASSUME FsShape, NEW old \in Names, NEW new \in Names, old # new, Party(old) = Party(new),
         NEW r, r = renameat2(old, new, {RENAME_NOREPLACE})
  PROVE  /\ Within(Party(new), r)
         /\ r.ok => dir[new] = 0 /\ r.dir[new] # 0
         /\ ~r.ok => r.dir = dir
<1>1. RENAME_EXCHANGE # RENAME_NOREPLACE
  BY DEF RENAME_EXCHANGE, RENAME_NOREPLACE
<1>2. CASE dir[old] = 0 \/ dir[new] # 0
  <2>1. r = Fails(ENOENT) \/ r = Fails(EEXIST)
    BY <1>1, <1>2 DEF renameat2
  <2>. QED  BY <2>1, FailsResult
<1>3. CASE dir[old] # 0 /\ dir[new] = 0
  <2>1. r = Moved(old, new, 0)
    BY <1>1, <1>3 DEF renameat2, Moved
  <2>2. /\ Moved(old, new, 0).ok = TRUE /\ Moved(old, new, 0).dir[new] = dir[old]
        /\ Within(Party(new), Moved(old, new, 0))
    BY MovedResult
  <2>. QED  BY <1>3, <2>1, <2>2
<1>. QED  BY <1>2, <1>3

LEMMA RenameResult ==
  ASSUME FsShape, NEW old \in Names, NEW new \in Names, old # new, Party(old) = Party(new)
  PROVE  /\ Within(Party(new), rename(old, new))
         /\ dir[old] # 0 /\ dir[old] # dir[new] => rename(old, new) = Moved(old, new, 0)
<1>1. rename(old, new) = IF dir[old] = 0 THEN Fails(ENOENT)
                           ELSE IF dir[old] = dir[new] THEN Gives(0) ELSE Moved(old, new, 0)
  BY DEF rename, renameat2, Moved
<1>2. Within(Party(new), Fails(ENOENT)) /\ Within(Party(new), Gives(0))
  BY FailsResult
<1>3. Within(Party(new), Moved(old, new, 0))
  BY MovedResult
<1>. QED  BY <1>1, <1>2, <1>3

LEMMA ExchangeResult ==
  ASSUME FsShape, NEW old \in Names, NEW new \in Names, dir[old] # 0, dir[new] # 0
  PROVE  renameat2(old, new, {RENAME_EXCHANGE}) = Moved(old, new, dir[new])
<1>1. RENAME_EXCHANGE # RENAME_NOREPLACE
  BY DEF RENAME_EXCHANGE, RENAME_NOREPLACE
<1>. QED  BY <1>1 DEF renameat2, Moved

-----------------------------------------------------------------------------
(* The three groups of processes. *)

LEMMA Names4 ==
  /\ {"path", "victim", "copy", "lock", "conf", "new"} \cup Lockers = Names
  /\ Party("path") = 1 /\ Party("copy") = 1 /\ Party("victim") = 2 /\ Party("conf") = 3
  /\ Party("new") = 3 /\ Party("lock") = 4
  /\ \A l \in Lockers : Party(l) = 4 /\ l # "lock"
<1>1. {"path", "victim", "copy", "lock", "conf", "new"} \cap Lockers = {}
  BY LockersAssumption
<1>. QED  BY <1>1 DEF Names, Party

\* What one party does leaves the properties of the others.
LEMMA VictimStays ==
  ASSUME FsInv, NEW k, k # 2, NEW r, Within(k, r), Does(r)
  PROVE  Victim'
  BY OtherParties, Names4 DEF FsInv, Victim

LEMMA LockStays ==
  ASSUME FsInv, NEW k, k # 4, NEW r, Within(k, r), Does(r), UNCHANGED holds
  PROVE  Locked'
  BY OtherParties, Names4 DEF FsInv, Locked, LockExcludes, LockExcludes

LEMMA PublishedStays ==
  ASSUME FsInv, NEW k, k # 3, NEW r, Within(k, r), Does(r), UNCHANGED <<pub, seen>>
  PROVE  Published'
<1>1. /\ dir'["conf"] = dir["conf"] /\ dir'["new"] = dir["new"]
      /\ dir["conf"] # 0 => inode'[dir["conf"]] = inode[dir["conf"]]
      /\ dir["new"] # 0 => inode'[dir["new"]] = inode[dir["new"]]
  BY OtherParties, Names4 DEF FsInv
<1>. QED  BY <1>1 DEF FsInv, Published, Whole

LEMMA FsShapeStays ==
  ASSUME FsInv, NEW k, NEW r, Within(k, r), Does(r),
         holds' \in [Lockers -> {"no", "rename", "link", "mkdir"}],
         pub' \in {"make", "mode", "size", "own", "times", "put", "drop"}
  PROVE  FsShape' /\ Parties'
  BY OtherParties DEF FsInv, FsShape

LEMMA WorldStays ==
  ASSUME FsInv, UNCHANGED <<dir, inode, holds, pub>>, seen' = TRUE
  PROVE  FsInv'
  BY DEF FsInv, FsShape, Parties, Victim, Locked, LockExcludes, LockExcludes, Published, Whole

\* The administrator and the owner of the path.
LEMMA CleanupCall ==
  ASSUME FsInv, NEW r, Within(1, r), Does(r), UNCHANGED <<holds, pub, seen>>
  PROVE  FsInv'
<1>1. FsShape' /\ Parties'
  BY FsShapeStays DEF FsInv, FsShape
<1>2. Victim' /\ Locked' /\ Published'
  BY VictimStays, LockStays, PublishedStays
<1>. QED  BY <1>1, <1>2 DEF FsInv

\* An inode whose owner or times are changed.
Owned(x, uid, gid) ==
    [x EXCEPT !.uid = IF uid = DONT_CHANGE THEN @ ELSE uid,
              !.gid = IF gid = DONT_CHANGE THEN @ ELSE gid]
Timed(x, a, m) == [x EXCEPT !.atime = a, !.mtime = m]

LEMMA OwnedRec ==
  ASSUME NEW x \in InodeRecs, NEW uid \in Int, NEW gid \in Int
  PROVE  /\ Owned(x, uid, gid) \in InodeRecs
         /\ Owned(x, uid, gid).kind = x.kind /\ Owned(x, uid, gid).mode = x.mode
         /\ gid # DONT_CHANGE => Owned(x, uid, gid).gid = gid
  BY DEF Owned, InodeRecs

LEMMA ChownResult ==
  ASSUME FsShape, NEW uid \in Int, NEW gid \in Int, NEW n \in Names, NEW flags,
         Walk(n, AT_SYMLINK_NOFOLLOW \notin flags) = dir[n],
         NEW r, r = fchownat(n, uid, gid, flags)
  PROVE  /\ Within(Party(n), r)
         /\ dir[n] # 0 => r = Change(dir[n], Owned(inode[dir[n]], uid, gid))
<1>. DEFINE x == Owned(inode[dir[n]], uid, gid)
<1>1. r = IF dir[n] = 0 THEN Fails(ENOENT) ELSE Change(dir[n], x)
  BY DEF fchownat, Owned
<1>2. CASE dir[n] = 0
  BY <1>1, <1>2, FailsResult
<1>3. CASE dir[n] # 0
  <2>1. inode[dir[n]] \in InodeRecs
    BY <1>3 DEF FsShape, Dirs, Tables
  <2>2. x \in InodeRecs
    BY <2>1, OwnedRec
  <2>3. r = Change(dir[n], x)
    BY <1>1, <1>3
  <2>. HIDE DEF x
  <2>4. Within(Party(n), r)
    BY <1>3, <2>2, <2>3, ChangeResult
  <2>. QED  BY <2>3, <2>4 DEF x
<1>. QED  BY <1>2, <1>3

LEMMA UtimensResult ==
  ASSUME FsShape, NEW n \in Names, NEW flags, NEW times \in {<<>>, <<UTIME_OMIT, UTIME_NOW>>},
         Walk(n, AT_SYMLINK_NOFOLLOW \notin flags) = dir[n],
         NEW r, r = utimensat(n, times, flags)
  PROVE  /\ Within(Party(n), r)
         /\ dir[n] # 0 => \E a, m \in Int :
                r = Change(dir[n], Timed(inode[dir[n]], a, m))
<1>. DEFINE old == inode[dir[n]]
<1>1. CASE dir[n] = 0
  <2>1. r = Fails(ENOENT)
    BY <1>1 DEF utimensat
  <2>. QED  BY <1>1, <2>1, FailsResult
<1>2. CASE dir[n] # 0
  <2>1. old \in InodeRecs /\ old.atime \in Int /\ old.mtime \in Int
    BY <1>2 DEF FsShape, Dirs, Tables, InodeRecs
  <2>2. \E a, m \in Int : r = Change(dir[n], Timed(old, a, m))
    <3>. DEFINE Set(t, o) == CASE t = UTIME_OMIT -> o [] t = UTIME_NOW -> Now [] OTHER -> t
                ts == IF times = <<>> THEN <<UTIME_NOW, UTIME_NOW>> ELSE times
    <3>1. r = Change(dir[n], Timed(old, Set(ts[1], old.atime), Set(ts[2], old.mtime)))
      BY <1>2 DEF utimensat, Timed
    <3>2. ts[1] \in Int /\ ts[2] \in Int
      BY DEF UTIME_NOW, UTIME_OMIT
    <3>. HIDE DEF ts, old
    <3>3. Set(ts[1], old.atime) \in Int /\ Set(ts[2], old.mtime) \in Int
      BY <2>1, <3>2 DEF Now
    <3>. HIDE DEF Set
    <3>. QED  BY <3>1, <3>3
  <2>3. PICK a \in Int, m \in Int : r = Change(dir[n], Timed(old, a, m))
    BY <2>2
  <2>4. Timed(old, a, m) \in InodeRecs
    <3>. HIDE DEF old
    <3>. QED  BY <2>1 DEF InodeRecs, Timed
  <2>5. Within(Party(n), r)
    BY <1>2, <2>3, <2>4, ChangeResult
  <2>. QED  BY <2>2, <2>5
<1>. QED  BY <1>1, <1>2

LEMMA AdminStepKeeps == FsInv /\ AdminStep => FsInv'
<1>. SUFFICES ASSUME FsInv, AdminStep PROVE FsInv'
  OBVIOUS
<1>1. UNCHANGED <<holds, pub, seen>> /\ FsShape
  BY DEF AdminStep, FsInv
<1>2. CASE UNCHANGED world
  BY <1>1, <1>2, WorldStays DEF world, FsInv, Published
<1>3. ASSUME Does(lchown("path", 0, DONT_CHANGE))  PROVE  FsInv'
  <2>1. Walk("path", AT_SYMLINK_NOFOLLOW \notin {AT_SYMLINK_NOFOLLOW}) = dir["path"]
    BY DEF Walk
  <2>2. DONT_CHANGE \in Int /\ 0 \in Int /\ "path" \in Names
    BY Names4 DEF DONT_CHANGE
  <2>3. Within(Party("path"), lchown("path", 0, DONT_CHANGE))
    BY <1>1, <2>1, <2>2, ChownResult DEF lchown
  <2>4. Party("path") = 1
    BY Names4
  <2>. QED  BY <1>1, <1>3, <2>3, <2>4, CleanupCall
<1>4. ASSUME Does(utimensat("path", <<UTIME_OMIT, UTIME_NOW>>, {AT_SYMLINK_NOFOLLOW}))
      PROVE  FsInv'
  <2>1. Walk("path", AT_SYMLINK_NOFOLLOW \notin {AT_SYMLINK_NOFOLLOW}) = dir["path"]
    BY DEF Walk
  <2>2. Within(Party("path"),
               utimensat("path", <<UTIME_OMIT, UTIME_NOW>>, {AT_SYMLINK_NOFOLLOW}))
    BY <1>1, <2>1, UtimensResult, Names4
  <2>3. Party("path") = 1
    BY Names4
  <2>. QED  BY <1>1, <1>4, <2>2, <2>3, CleanupCall
<1>5. ASSUME Does(link("path", "copy"))  PROVE  FsInv'
  <2>1. Within(1, link("path", "copy"))
    BY <1>1, LinkResult, Names4
  <2>. QED  BY <1>1, <1>5, <2>1, CleanupCall
<1>6. ASSUME Does(unlink("copy"))  PROVE  FsInv'
  <2>1. Within(1, unlink("copy"))
    BY <1>1, UnlinkResult, Names4 DEF unlink
  <2>. QED  BY <1>1, <1>6, <2>1, CleanupCall
<1>. QED  BY <1>2, <1>3, <1>4, <1>5, <1>6 DEF AdminStep

LEMMA SwapKeeps == FsInv /\ Swap => FsInv'
<1>. SUFFICES ASSUME FsInv, Swap PROVE FsInv'
  OBVIOUS
<1>. DEFINE lnk == Inode("lnk", {"r", "w", "x"}, "victim")
            reg == Inode("reg", {"r"}, "none")
<1>1. UNCHANGED <<holds, pub, seen>> /\ FsShape /\ "path" \in Names /\ Party("path") = 1
  BY Names4 DEF Swap, FsInv
<1>2. lnk \in InodeRecs /\ reg \in InodeRecs
  BY DEF Inode, InodeRecs
<1>3. \/ Does(unlink("path")) \/ Does(Made("path", lnk)) \/ Does(Made("path", reg))
  BY DEF Swap, symlink, symlinkat, Made
<1>. HIDE DEF lnk, reg
<1>4. Within(Party("path"), unlink("path"))
  BY <1>1, UnlinkResult DEF unlink
<1>5. Within(Party("path"), Made("path", lnk)) /\ Within(Party("path"), Made("path", reg))
  BY <1>1, <1>2, MadeResult
<1>. QED  BY <1>1, <1>3, <1>4, <1>5, CleanupCall

\* Each way of taking the lock succeeds only when the name was free, and
\* leaves it in use.
LEMMA AttemptResult ==
  ASSUME FsShape, NEW l \in Lockers, NEW how \in {"rename", "link", "mkdir"},
         NEW r, r = Attempt(l, how)
  PROVE  /\ Within(4, r)
         /\ r.ok => dir["lock"] = 0 /\ r.dir["lock"] # 0
         /\ ~r.ok => r.dir = dir
<1>1. /\ l \in Names /\ "lock" \in Names /\ l # "lock" /\ Party(l) = 4 /\ Party("lock") = 4
  BY Names4
<1>2. CASE how = "rename"
  <2>1. r = renameat2(l, "lock", {RENAME_NOREPLACE})
    BY <1>2 DEF Attempt
  <2>. QED  BY <1>1, <2>1, NoReplaceResult
<1>3. CASE how = "link"
  <2>1. r = link(l, "lock")
    BY <1>3 DEF Attempt
  <2>. QED  BY <1>1, <2>1, LinkResult
<1>4. CASE how = "mkdir"
  <2>. DEFINE x == Inode("dir", {"r", "w", "x"} \ mask, "none")
  <2>1. r = IF dir["lock"] # 0 THEN Fails(EEXIST) ELSE Made("lock", x)
    BY <1>4 DEF Attempt, mkdir, mkdirat, Made
  <2>2. x \in InodeRecs
    BY DEF Inode, InodeRecs
  <2>. HIDE DEF x
  <2>3. CASE dir["lock"] # 0
    BY <2>1, <2>3, FailsResult
  <2>4. CASE dir["lock"] = 0
    <3>1. r = Made("lock", x)
      BY <2>1, <2>4
    <3>2. /\ Made("lock", x).dir = [dir EXCEPT !["lock"] = Free] /\ Made("lock", x).ok = TRUE
          /\ Within(Party("lock"), Made("lock", x))
      BY <1>1, <2>2, MadeResult
    <3>3. Free # 0
      BY FreeInode, OwnInodes DEF Inodes
    <3>4. Made("lock", x).dir["lock"] # 0
      BY <1>1, <3>2, <3>3 DEF FsShape, Dirs
    <3>. QED  BY <1>1, <2>4, <3>1, <3>2, <3>4
  <2>. QED  BY <2>3, <2>4
<1>. QED  BY <1>2, <1>3, <1>4

LEMMA AcquireKeeps ==
  ASSUME FsInv, NEW l \in Lockers, Acquire(l)
  PROVE  FsInv'
<1>1. PICK how \in {"rename", "link", "mkdir"} :
          /\ Does(Attempt(l, how))
          /\ holds' = [holds EXCEPT ![l] = IF Attempt(l, how).ok THEN how ELSE "no"]
  BY DEF Acquire
<1>. DEFINE r == Attempt(l, how)
<1>2. FsShape /\ Parties /\ Locked /\ UNCHANGED <<pub, seen>>
  BY DEF FsInv, Acquire
<1>3. /\ Within(4, r)
      /\ r.ok => dir["lock"] = 0 /\ r.dir["lock"] # 0
      /\ ~r.ok => r.dir = dir
  BY <1>2, AttemptResult
<1>4. Does(r) /\ holds' = [holds EXCEPT ![l] = IF r.ok THEN how ELSE "no"] /\ dir' = r.dir
  BY <1>1 DEF Does
<1>. HIDE DEF r
<1>5. holds' \in [Lockers -> {"no", "rename", "link", "mkdir"}]
  BY <1>2, <1>4 DEF FsShape
<1>6. FsShape' /\ Parties' /\ Victim' /\ Published'
  BY <1>2, <1>3, <1>4, <1>5, FsShapeStays, VictimStays, PublishedStays DEF FsShape
<1>7. Locked'
  <2>1. CASE r.ok
    <3>1. \A m \in Lockers : holds[m] = "no"
      BY <1>2, <1>3, <2>1 DEF Locked
    <3>2. \A m \in Lockers \ {l} : holds'[m] = "no"
      BY <1>2, <1>4, <3>1 DEF FsShape
    <3>. QED  BY <1>3, <1>4, <2>1, <3>2 DEF Locked, LockExcludes, LockExcludes
  <2>2. CASE ~r.ok
    <3>1. r.dir["lock"] = dir["lock"]
      BY <1>3, <2>2
    <3>2. holds[l] = "no" /\ UNCHANGED holds
      BY <1>2, <1>4, <2>2 DEF Acquire, FsShape
    <3>. QED  BY <1>2, <1>4, <3>1, <3>2 DEF Locked, LockExcludes, LockExcludes
  <2>. QED  BY <2>1, <2>2
<1>. QED  BY <1>6, <1>7 DEF FsInv

LEMMA ReleaseKeeps ==
  ASSUME FsInv, NEW l \in Lockers, Release(l)
  PROVE  FsInv'
<1>. DEFINE r == CASE holds[l] = "rename" -> rename("lock", l)
                   [] holds[l] = "link" -> unlink("lock")
                   [] holds[l] = "mkdir" -> rmdir("lock")
<1>1. /\ FsShape /\ Parties /\ Locked /\ UNCHANGED <<pub, seen>> /\ Does(r)
      /\ holds[l] # "no" /\ holds' = [holds EXCEPT ![l] = "no"]
  BY DEF FsInv, Release
<1>2. l \in Names /\ "lock" \in Names /\ l # "lock" /\ Party(l) = 4 /\ Party("lock") = 4
  BY Names4
<1>3. Within(4, rename("lock", l))
  <2>1. Within(Party(l), rename("lock", l))
    BY <1>1, <1>2, RenameResult
  <2>. QED  BY <1>2, <2>1
<1>4. Within(4, unlink("lock")) /\ Within(4, rmdir("lock"))
  BY <1>1, <1>2, UnlinkResult DEF unlink, rmdir
<1>5. Within(4, r)
  BY <1>1, <1>3, <1>4 DEF FsShape
<1>. HIDE DEF r
<1>6. \A m \in Lockers : holds'[m] = "no"
  BY <1>1 DEF FsShape, Locked, LockExcludes, LockExcludes
<1>7. FsShape' /\ Parties' /\ Victim' /\ Published'
  BY <1>1, <1>5, FsShapeStays, VictimStays, PublishedStays DEF FsShape
<1>. QED  BY <1>6, <1>7 DEF FsInv, Locked, LockExcludes, LockExcludes

\* The publisher.
LEMMA PublishCall ==
  ASSUME FsInv, NEW r, Within(3, r), Does(r), UNCHANGED holds, Published',
         pub' \in {"make", "mode", "size", "own", "times", "put", "drop"}
  PROVE  FsInv'
<1>1. FsShape' /\ Parties'
  BY FsShapeStays DEF FsInv, FsShape
<1>2. Victim' /\ Locked'
  BY VictimStays, LockStays
<1>. QED  BY <1>1, <1>2 DEF FsInv

\* A call that changes the new version's inode leaves the published one's.
LEMMA NewChanged ==
  ASSUME FsInv, pub # "make", NEW x \in InodeRecs, NEW r, r = Change(dir["new"], x), Does(r)
  PROVE  /\ dir' = dir /\ inode'[dir["new"]] = x /\ inode'[dir["conf"]] = inode[dir["conf"]]
         /\ Within(3, r)
<1>1. /\ FsShape /\ "conf" \in Names /\ "new" \in Names /\ Party("new") = 3
      /\ dir["conf"] # 0 /\ dir["new"] # 0 /\ dir["conf"] # dir["new"]
  BY Names4 DEF FsInv, Published
<1>2. r.dir = dir /\ r.inode = [inode EXCEPT ![dir["new"]] = x] /\ Within(3, r)
  BY <1>1, ChangeResult
<1>3. r.dir \in Dirs /\ r.inode \in Tables
  BY <1>2 DEF Within
<1>4. dir' = r.dir /\ \A n \in Names : dir'[n] # 0 => inode'[dir'[n]] = r.inode[dir'[n]]
  BY <1>1, <1>3, DoesResult
<1>5. dir["conf"] \in Inodes /\ dir["new"] \in Inodes
  BY <1>1 DEF FsShape, Dirs
<1>6. r.inode[dir["new"]] = x /\ r.inode[dir["conf"]] = inode[dir["conf"]]
  BY <1>1, <1>2, <1>5 DEF FsShape, Tables
<1>. QED  BY <1>1, <1>2, <1>4, <1>6

\* The new version is a file, so the following forms find it.
LEMMA NewFound ==
  ASSUME FsInv, pub # "make"
  PROVE  /\ Walk("new", TRUE) = dir["new"] /\ dir["new"] # 0
         /\ inode[dir["new"]] \in InodeRecs /\ inode[dir["new"]].kind = "reg"
         /\ "new" \in Names /\ Party("new") = 3 /\ FsShape
<1>1. dir["new"] # 0 /\ inode[dir["new"]].kind = "reg" /\ FsShape
  BY DEF FsInv, Published
<1>2. "new" \in Names /\ Party("new") = 3
  BY Names4
<1>3. inode[dir["new"]] \in InodeRecs
  BY <1>1, <1>2 DEF FsShape, Dirs, Tables
<1>. QED  BY <1>1, <1>2, <1>3 DEF Walk

LEMMA MakeKeeps ==
  ASSUME FsInv, pub = "make", pub' = "mode", UNCHANGED <<holds, seen>>,
         Does(Made("new", Inode("reg", {"r", "w"} \ mask, "none")))
  PROVE  FsInv'
<1>. DEFINE x == Inode("reg", {"r", "w"} \ mask, "none")
            r == Made("new", x)
<1>1. x \in InodeRecs /\ x.kind = "reg"
  BY DEF Inode, InodeRecs
<1>2. /\ FsShape /\ "new" \in Names /\ "conf" \in Names /\ Party("new") = 3
      /\ dir["conf"] # 0
  BY Names4 DEF FsInv, Published
<1>. HIDE DEF x
<1>3. /\ r.dir = [dir EXCEPT !["new"] = Free] /\ r.inode = [inode EXCEPT ![Free] = x]
      /\ Within(3, r)
  BY <1>1, <1>2, MadeResult
<1>4. Free \in Inodes /\ Free # 0 /\ Free # dir["conf"]
  BY <1>2, FreeInode, OwnInodes DEF Inodes
<1>5. Does(r)
  BY DEF x
<1>. HIDE DEF r
<1>6. /\ dir' = r.dir
      /\ \A n \in Names : dir'[n] # 0 => inode'[dir'[n]] = r.inode[dir'[n]]
  <2>1. r.dir \in Dirs /\ r.inode \in Tables
    BY <1>3 DEF Within
  <2>. QED  BY <1>2, <1>5, <2>1, DoesResult
<1>7. /\ dir'["new"] = Free /\ dir'["conf"] = dir["conf"]
      /\ dir["conf"] \in Inodes
  BY <1>2, <1>3, <1>6 DEF FsShape, Dirs
<1>8. inode'[dir'["new"]] = x /\ inode'[dir'["conf"]] = inode[dir["conf"]]
  BY <1>2, <1>3, <1>4, <1>6, <1>7 DEF FsShape, Tables
<1>9. Published'
  BY <1>1, <1>4, <1>7, <1>8 DEF FsInv, Published, Whole
<1>. QED  BY <1>3, <1>5, <1>9, PublishCall

LEMMA ModeKeeps ==
  ASSUME FsInv, pub = "mode", pub' = "size", UNCHANGED <<holds, seen>>,
         Does(chmod("new", {"r", "w"}))
  PROVE  FsInv'
<1>. DEFINE x == [inode[dir["new"]] EXCEPT !.mode = {"r", "w"}]
            r == Change(dir["new"], x)
<1>1. /\ Walk("new", TRUE) = dir["new"] /\ dir["new"] # 0 /\ FsShape
      /\ inode[dir["new"]] \in InodeRecs /\ inode[dir["new"]].kind = "reg"
      /\ "new" \in Names /\ Party("new") = 3
  BY NewFound
<1>2. x \in InodeRecs /\ Whole(x)
  BY <1>1 DEF InodeRecs, Whole
<1>3. Does(r)
  BY <1>1 DEF chmod, fchmodat
<1>. HIDE DEF x
<1>4. /\ dir' = dir /\ inode'[dir["new"]] = x /\ inode'[dir["conf"]] = inode[dir["conf"]]
      /\ Within(3, r)
  BY <1>2, <1>3, NewChanged
<1>. HIDE DEF r
<1>5. Published'
  BY <1>2, <1>4 DEF FsInv, Published, Whole
<1>. QED  BY <1>3, <1>4, <1>5, PublishCall

LEMMA SizeKeeps ==
  ASSUME FsInv, pub = "size", pub' = "own", UNCHANGED <<holds, seen>>,
         Does(truncate("new", 0))
  PROVE  FsInv'
<1>. DEFINE x == [inode[dir["new"]] EXCEPT !.size = 0]
            r == Change(dir["new"], x)
<1>1. /\ Walk("new", TRUE) = dir["new"] /\ dir["new"] # 0 /\ FsShape
      /\ inode[dir["new"]] \in InodeRecs /\ "new" \in Names /\ Party("new") = 3
  BY NewFound
<1>2. Whole(inode[dir["new"]])
  BY DEF FsInv, Published
<1>3. x \in InodeRecs /\ Whole(x)
  BY <1>1, <1>2 DEF InodeRecs, Whole
<1>4. Does(r)
  BY <1>1 DEF truncate
<1>. HIDE DEF x
<1>5. /\ dir' = dir /\ inode'[dir["new"]] = x /\ inode'[dir["conf"]] = inode[dir["conf"]]
      /\ Within(3, r)
  BY <1>3, <1>4, NewChanged
<1>. HIDE DEF r
<1>6. Published'
  BY <1>3, <1>5 DEF FsInv, Published, Whole
<1>. QED  BY <1>4, <1>5, <1>6, PublishCall

LEMMA OwnKeeps ==
  ASSUME FsInv, pub = "own", pub' = "times", UNCHANGED <<holds, seen>>,
         Does(chown("new", DONT_CHANGE, 7))
  PROVE  FsInv'
<1>. DEFINE x == Owned(inode[dir["new"]], DONT_CHANGE, 7)
            r == fchownat("new", DONT_CHANGE, 7, {})
<1>1. /\ Walk("new", TRUE) = dir["new"] /\ dir["new"] # 0 /\ FsShape
      /\ inode[dir["new"]] \in InodeRecs /\ "new" \in Names /\ Party("new") = 3
  BY NewFound
<1>2. Whole(inode[dir["new"]])
  BY DEF FsInv, Published
<1>3. DONT_CHANGE \in Int /\ 7 \in Int /\ DONT_CHANGE # 7
  BY DEF DONT_CHANGE
<1>4. x \in InodeRecs /\ Whole(x) /\ x.gid = 7
  BY <1>1, <1>2, <1>3, OwnedRec DEF Whole
<1>5. Does(r)
  BY DEF chown
<1>6. Walk("new", AT_SYMLINK_NOFOLLOW \notin {}) = dir["new"]
  BY <1>1
<1>7. r = Change(dir["new"], x)
  BY <1>1, <1>3, <1>6, ChownResult
<1>. HIDE DEF x, r
<1>8. /\ dir' = dir /\ inode'[dir["new"]] = x /\ inode'[dir["conf"]] = inode[dir["conf"]]
      /\ Within(3, r)
  BY <1>4, <1>5, <1>7, NewChanged
<1>9. Published'
  BY <1>4, <1>8 DEF FsInv, Published, Whole
<1>. QED  BY <1>5, <1>8, <1>9, PublishCall

LEMMA TimesKeeps ==
  ASSUME FsInv, pub = "times", pub' = "put", UNCHANGED <<holds, seen>>,
         Does(utimens("new", <<>>))
  PROVE  FsInv'
<1>. DEFINE r == utimensat("new", <<>>, {})
<1>1. /\ Walk("new", TRUE) = dir["new"] /\ dir["new"] # 0 /\ FsShape
      /\ inode[dir["new"]] \in InodeRecs /\ "new" \in Names /\ Party("new") = 3
  BY NewFound
<1>2. Whole(inode[dir["new"]]) /\ inode[dir["new"]].gid = 7
  BY DEF FsInv, Published
<1>3. Does(r)
  BY DEF utimens
<1>4. Walk("new", AT_SYMLINK_NOFOLLOW \notin {}) = dir["new"]
  BY <1>1
<1>5. \E a, m \in Int : r = Change(dir["new"], Timed(inode[dir["new"]], a, m))
  BY <1>1, <1>4, UtimensResult
<1>. HIDE DEF r
<1>6. PICK a \in Int, m \in Int : r = Change(dir["new"], Timed(inode[dir["new"]], a, m))
  BY <1>5
<1>. DEFINE x == Timed(inode[dir["new"]], a, m)
<1>7. x \in InodeRecs /\ Whole(x) /\ x.gid = 7
  BY <1>1, <1>2 DEF InodeRecs, Whole, Timed
<1>. HIDE DEF x
<1>8. r = Change(dir["new"], x)
  BY <1>6 DEF x
<1>9. /\ dir' = dir /\ inode'[dir["new"]] = x /\ inode'[dir["conf"]] = inode[dir["conf"]]
      /\ Within(3, r)
  BY <1>3, <1>7, <1>8, NewChanged
<1>10. Published'
  BY <1>7, <1>9 DEF FsInv, Published, Whole
<1>. QED  BY <1>3, <1>9, <1>10, PublishCall

\* The new version takes the place of the old one, which goes or is exchanged.
LEMMA PutKeeps ==
  ASSUME FsInv, pub = "put", UNCHANGED <<holds, seen>>, NEW i \in {0, dir["conf"]},
         Does(Moved("new", "conf", i)), pub' = IF i = 0 THEN "make" ELSE "drop"
  PROVE  FsInv'
<1>. DEFINE r == Moved("new", "conf", i)
<1>1. /\ FsShape /\ "new" \in Names /\ "conf" \in Names /\ Party("new") = 3
      /\ Party("conf") = 3 /\ dir["conf"] # 0 /\ dir["new"] # 0 /\ dir["new"] # dir["conf"]
  BY Names4 DEF FsInv, Published
<1>2. /\ Whole(inode[dir["new"]]) /\ inode[dir["new"]].gid = 7 /\ Whole(inode[dir["conf"]])
  BY DEF FsInv, Published
<1>3. /\ r.dir["conf"] = dir["new"] /\ r.dir["new"] = i /\ r.inode = inode
      /\ Within(Party("conf"), r)
  <2>1. Party("new") = Party("conf") /\ "new" # "conf"
    BY <1>1
  <2>2. CASE i = 0
    <3>1. LET m == Moved("new", "conf", 0)
          IN  /\ m.dir["conf"] = dir["new"] /\ m.dir["new"] = 0 /\ m.inode = inode
              /\ Within(Party("conf"), m)
      BY <1>1, <2>1, MovedResult
    <3>. QED  BY <2>2, <3>1
  <2>3. CASE i = dir["conf"]
    <3>1. LET m == Moved("new", "conf", dir["conf"])
          IN  /\ m.dir["conf"] = dir["new"] /\ m.dir["new"] = dir["conf"] /\ m.inode = inode
              /\ Within(Party("conf"), m)
      BY <1>1, <2>1, MovedResult
    <3>. QED  BY <2>3, <3>1
  <2>. QED  BY <2>2, <2>3
<1>. HIDE DEF r
<1>4. /\ dir' = r.dir
      /\ \A n \in Names : dir'[n] # 0 => inode'[dir'[n]] = inode[dir'[n]]
  BY <1>1, <1>3, DoesResult DEF Within, r
<1>5. dir'["conf"] = dir["new"] /\ dir'["new"] = i
  BY <1>3, <1>4
<1>6. /\ inode'[dir'["conf"]] = inode[dir["new"]]
      /\ i # 0 => inode'[dir'["new"]] = inode[dir["conf"]]
  BY <1>1, <1>4, <1>5
<1>7. seen' = TRUE /\ pub' \in {"make", "drop"}
  BY DEF FsInv, Published
<1>8. Published'
  BY <1>1, <1>2, <1>5, <1>6, <1>7 DEF Published, Whole
<1>. QED  BY <1>1, <1>3, <1>7, <1>8, PublishCall DEF r

LEMMA DropKeeps ==
  ASSUME FsInv, pub = "drop", pub' = "make", UNCHANGED <<holds, seen>>, Does(unlink("new"))
  PROVE  FsInv'
<1>. DEFINE r == unlink("new")
<1>1. /\ FsShape /\ "new" \in Names /\ "conf" \in Names /\ Party("new") = 3
      /\ dir["conf"] # 0 /\ dir["new"] # 0 /\ inode[dir["new"]].kind = "reg"
  BY Names4 DEF FsInv, Published
<1>2. r = Entry("new", 0)
  BY <1>1 DEF unlink, unlinkat
<1>3. 0 \in Reach(Party("new"))
  BY DEF Reach
<1>4. r.dir = [dir EXCEPT !["new"] = 0] /\ r.inode = inode /\ Within(Party("new"), r)
  <2>. HIDE DEF r
  <2>. QED  BY <1>1, <1>2, <1>3, EntryResult
<1>. HIDE DEF r
<1>5. /\ dir' = r.dir
      /\ \A n \in Names : dir'[n] # 0 => inode'[dir'[n]] = inode[dir'[n]]
  BY <1>1, <1>4, DoesResult DEF Within, r
<1>6. dir'["conf"] = dir["conf"]
  BY <1>1, <1>4, <1>5 DEF FsShape, Dirs
<1>7. Published'
  BY <1>1, <1>5, <1>6 DEF FsInv, Published, Whole
<1>. QED  BY <1>1, <1>4, <1>7, PublishCall DEF r

LEMMA PublishKeeps == FsInv /\ Publish => FsInv'
<1>. SUFFICES ASSUME FsInv, Publish PROVE FsInv'
  OBVIOUS
<1>1. UNCHANGED <<holds, seen>>
  BY DEF Publish
<1>2. CASE pub = "put" /\ Does(rename("new", "conf")) /\ pub' = "make"
  <2>1. rename("new", "conf") = Moved("new", "conf", 0)
    BY <1>2, Names4, RenameResult DEF FsInv, Published
  <2>. QED  BY <1>1, <1>2, <2>1, PutKeeps
<1>3. CASE /\ pub = "put" /\ pub' = "drop"
           /\ Does(renameat2("new", "conf", {RENAME_EXCHANGE}))
  <2>1. dir["conf"] # 0
    BY DEF FsInv, Published
  <2>2. renameat2("new", "conf", {RENAME_EXCHANGE}) = Moved("new", "conf", dir["conf"])
    BY <1>3, Names4, ExchangeResult DEF FsInv, Published
  <2>. QED  BY <1>1, <1>3, <2>1, <2>2, PutKeeps
<1>. QED  BY <1>1, <1>2, <1>3, MakeKeeps, ModeKeeps, SizeKeeps, OwnKeeps, TimesKeeps, DropKeeps
          DEF Publish, Made

LEMMA LookKeeps == FsInv /\ Look => FsInv'
<1>. SUFFICES ASSUME FsInv, Look PROVE FsInv'
  OBVIOUS
<1>1. /\ UNCHANGED <<dir, inode, holds, pub>>
      /\ dir["conf"] # 0 /\ inode[dir["conf"]].kind = "reg"
  BY DEF Look, world, FsInv, Published, Whole
<1>2. Walk("conf", TRUE) = dir["conf"]
  BY <1>1 DEF Walk
<1>3. access("conf", F_OK) = Gives(0)
  BY <1>1, <1>2 DEF access, faccessat, F_OK
<1>4. stat("conf") = Gives(Statx(dir["conf"]))
  BY <1>1, <1>2 DEF stat, statx
<1>5. access("conf", F_OK).ok = TRUE /\ stat("conf").ok = TRUE
  BY <1>3, <1>4 DEF Gives
<1>6. seen' = TRUE
  BY <1>5, Zenon DEF Look
<1>. QED  BY <1>1, <1>6, WorldStays

\* Every step on the directory keeps the invariant.
LEMMA FsInvHolds == Spec => []FsInv
<1>1. FsInv /\ [Next]_vars => FsInv'
  <2>. SUFFICES ASSUME FsInv, [Next]_vars PROVE FsInv'
    OBVIOUS
  <2>1. CASE UNCHANGED vars \/ UmaskThread
    <3>1. UNCHANGED <<dir, inode, holds, pub, seen>>
      BY <2>1 DEF vars, UmaskThread, world
    <3>. QED  BY <3>1, WorldStays DEF FsInv, Published
  <2>. QED  BY <2>1, AdminStepKeeps, SwapKeeps, PublishKeeps, LookKeeps, AcquireKeeps, ReleaseKeeps
            DEF Next
<1>. QED  BY <1>1, FsInit, PTL DEF Spec

\* lchown, utimensat with AT_SYMLINK_NOFOLLOW and link leave the file a
\* symlink points to as it was, with one name, however often and whenever the
\* owner of the path puts a symlink to it there.
THEOREM TargetIsUntouched == Spec => []TargetUntouched
<1>1. FsInv => TargetUntouched
  <2>. SUFFICES ASSUME FsInv PROVE TargetUntouched
    OBVIOUS
  <2>1. dir["victim"] = 2 /\ inode[2] = Blank
    BY DEF FsInv, Victim
  <2>2. {n \in Names : dir[n] = 2} = {"victim"}
    <3>1. "victim" \in Names /\ Party("victim") = 2
      BY Names4
    <3>2. \A n \in Names : dir[n] = 2 => Party(n) = 2
      BY <2>1, <3>1 DEF FsInv, Parties
    <3>3. \A n \in Names : Party(n) = 2 => n = "victim"
      BY DEF Party
    <3>. QED  BY <2>1, <3>1, <3>2, <3>3
  <2>3. Cardinality({n \in Names : dir[n] = 2}) = 1
    BY <2>2, FS_Singleton
  <2>. QED  BY <2>1, <2>3 DEF TargetUntouched, TargetUntouched, Statx
<1>. QED  BY <1>1, FsInvHolds, PTL

\* At most one program holds the lock, for any number of programs that take it
\* by renameat2 with RENAME_NOREPLACE, link or mkdir, each as it likes.
THEOREM OneHolder == Spec => []LockExcludes
<1>1. FsInv => LockExcludes
  BY DEF FsInv, Locked
<1>. QED  BY <1>1, FsInvHolds, PTL

\* Readers find the published file at every moment, with its mode and group.
THEOREM AlwaysWhole == Spec => []PublishedWhole
<1>1. FsInv => PublishedWhole
  <2>. SUFFICES ASSUME FsInv PROVE PublishedWhole
    OBVIOUS
  <2>1. /\ seen = TRUE /\ dir["conf"] # 0 /\ inode[dir["conf"]].mode = {"r", "w"}
        /\ dir["conf"] = 3 \/ inode[dir["conf"]].gid = 7
    BY DEF FsInv, Published, Whole
  <2>. QED  BY <2>1, Zenon DEF PublishedWhole, PublishedWhole
<1>. QED  BY <1>1, FsInvHolds, PTL
=============================================================================
