--------------------------------- MODULE Fs ---------------------------------
(***************************************************************************)
(* The file system calls (fs.rs, umask.rs) over one directory that several *)
(* processes use at once.                                                  *)
(*                                                                         *)
(*   - an administrator cleans up a path with the calls that act on a      *)
(*     terminal symlink itself (lstat, lchown, utimensat with              *)
(*     AT_SYMLINK_NOFOLLOW, link, readlink, unlink), while its owner keeps *)
(*     replacing the file there by a symlink to another file and back;     *)
(*   - two programs take turns with a lock file, made by renameat2 with    *)
(*     RENAME_NOREPLACE, by link or by mkdir;                              *)
(*   - a publisher replaces a file by renaming a new version over it, or   *)
(*     exchanging the two, while readers look it up; another thread of it  *)
(*     changes the umask and sets it back.                                 *)
(*                                                                         *)
(* The three groups use different names and do not meet, so a behaviour    *)
(* shows one of them.                                                      *)
(*                                                                         *)
(* A mode is the set of its bits.  The following forms (stat, chown,       *)
(* chmod, truncate, utimens) are the publisher's.                          *)
(***************************************************************************)
EXTENDS Integers, FiniteSets

CONSTANTS
    Lockers,   \* the programs that contend for the lock
    MaxSwaps   \* how often the owner replaces the path

\* A locker's own file has none of the names the others use.
ASSUME LockersAssumption ==
    IsFiniteSet(Lockers) /\ Lockers \cap {"path", "victim", "copy", "lock", "conf", "new"} = {}

VARIABLES
    scene,     \* which of the three groups of processes is at work
    dir,       \* the directory: name -> inode, 0 where there is none
    inode,     \* inode -> its record
    mask,      \* the publishing process's umask
    saved,     \* what umask returned to the other thread; {"none"} outside
    admin,     \* the administrator's next step
    holds,     \* per locker: how it holds the lock, "no" otherwise
    pub,       \* the publisher's next step
    seen,      \* what a reader's access and stat returned
    swaps

world == <<dir, inode>>
vars == <<scene, world, mask, saved, admin, holds, pub, seen, swaps>>

Names == {"path", "victim", "copy", "lock", "conf", "new"} \cup Lockers

\* One inode more than there are names.
Inodes == 1..(7 + Cardinality(Lockers))

\* Each locker has a file of its own.
OwnInode == CHOOSE f \in [Lockers -> 4..(3 + Cardinality(Lockers))] :
                \A l, m \in Lockers : f[l] = f[m] => l = m

AT_SYMLINK_NOFOLLOW == 256
AT_SYMLINK_FOLLOW == 1024
AT_REMOVEDIR == 512
RENAME_NOREPLACE == 1
RENAME_EXCHANGE == 2
DONT_CHANGE == 99
UTIME_NOW == 98
UTIME_OMIT == 97
F_OK == {}

ENOENT == 2
EACCES == 13
EEXIST == 17
ENOTDIR == 20
EISDIR == 21
EINVAL == 22

Inode(kind, mode, target) ==
    [kind |-> kind, mode |-> mode, uid |-> 1, gid |-> 1, size |-> 1, atime |-> 0,
     mtime |-> 0, target |-> target]

Blank == Inode("reg", {"r", "w"}, "none")

Now == 5    \* the time of the one clock reading that UTIME_NOW makes

Free == CHOOSE i \in Inodes : \A n \in Names : dir[n] # i

-----------------------------------------------------------------------------
(* One operator per call, giving its result and the directory and inodes   *)
(* it leaves.                                                              *)

Fails(e) == [ok |-> FALSE, v |-> e, dir |-> dir, inode |-> inode]
Gives(v) == [ok |-> TRUE, v |-> v, dir |-> dir, inode |-> inode]
Entry(n, i) == [Gives(0) EXCEPT !.dir[n] = i]
Change(i, r) == [Gives(0) EXCEPT !.inode[i] = r]

\* An inode without a name is free again.
Does(r) ==
    /\ dir' = r.dir
    /\ inode' = [i \in Inodes |-> IF \E n \in Names : r.dir[n] = i THEN r.inode[i] ELSE Blank]

\* The kernel's path walk: a terminal symlink is followed unless told not to.
Walk(n, follow) ==
    IF follow /\ dir[n] # 0 /\ inode[dir[n]].kind = "lnk"
    THEN dir[inode[dir[n]].target] ELSE dir[n]

faccessat(n, bits) ==
    LET i == Walk(n, TRUE)
    IN  IF i = 0 THEN Fails(ENOENT)
        ELSE IF bits \subseteq inode[i].mode THEN Gives(0) ELSE Fails(EACCES)

access(n, bits) == faccessat(n, bits)

\* The fields of struct statx the callers use.
Statx(i) == [stx_ino |-> i, file_type |-> inode[i].kind, stx_mode |-> inode[i].mode,
             stx_uid |-> inode[i].uid, stx_size |-> inode[i].size,
             stx_nlink |-> Cardinality({n \in Names : dir[n] = i})]

is_symlink(s) == s.file_type = "lnk"

statx(n, flags) ==
    LET i == Walk(n, AT_SYMLINK_NOFOLLOW \notin flags)
    IN  IF i = 0 THEN Fails(ENOENT) ELSE Gives(Statx(i))

stat(n) == statx(n, {})

lstat(n) == statx(n, {AT_SYMLINK_NOFOLLOW})

unlinkat(n, flags) ==
    IF dir[n] = 0 THEN Fails(ENOENT)
    ELSE IF AT_REMOVEDIR \in flags /\ inode[dir[n]].kind # "dir" THEN Fails(ENOTDIR)
    ELSE IF AT_REMOVEDIR \notin flags /\ inode[dir[n]].kind = "dir" THEN Fails(EISDIR)
    ELSE Entry(n, 0)

unlink(n) == unlinkat(n, {})

rmdir(n) == unlinkat(n, {AT_REMOVEDIR})

mkdirat(n, mode) ==
    IF dir[n] # 0 THEN Fails(EEXIST)
    ELSE [Entry(n, Free) EXCEPT !.inode[Free] = Inode("dir", mode \ mask, "none")]

mkdir(n, mode) == mkdirat(n, mode)

\* The bug of dropping the flags.
renameat2_noflags(old, new, flags) ==
    IF dir[old] = 0 THEN Fails(ENOENT)
    ELSE IF dir[old] = dir[new] THEN Gives(0)
    ELSE [Entry(new, dir[old]) EXCEPT !.dir[old] = 0]

\* Renaming one link of a file over another leaves both.
renameat2(old, new, flags) ==
    IF dir[old] = 0 \/ (RENAME_EXCHANGE \in flags /\ dir[new] = 0) THEN Fails(ENOENT)
    ELSE IF RENAME_NOREPLACE \in flags /\ dir[new] # 0 THEN Fails(EEXIST)
    ELSE IF RENAME_EXCHANGE \in flags THEN [Entry(new, dir[old]) EXCEPT !.dir[old] = dir[new]]
    ELSE IF dir[old] = dir[new] THEN Gives(0)
    ELSE [Entry(new, dir[old]) EXCEPT !.dir[old] = 0]

\* The bug of making way for the new name first.
rename_unlinks(old, new) == IF dir[new] # 0 THEN Entry(new, 0) ELSE renameat2(old, new, {})

rename(old, new) == renameat2(old, new, {})

symlinkat(target, n) ==
    IF dir[n] # 0 THEN Fails(EEXIST)
    ELSE [Entry(n, Free) EXCEPT !.inode[Free] = Inode("lnk", {"r", "w", "x"}, target)]

symlink(target, n) == symlinkat(target, n)

linkat(old, new, flags) ==
    LET i == Walk(old, AT_SYMLINK_FOLLOW \in flags)
    IN  IF i = 0 THEN Fails(ENOENT)
        ELSE IF dir[new] # 0 THEN Fails(EEXIST)
        ELSE Entry(new, i)

link(old, new) == linkat(old, new, {})

readlinkat(n) ==
    IF dir[n] = 0 THEN Fails(ENOENT)
    ELSE IF inode[dir[n]].kind = "lnk" THEN Gives(inode[dir[n]].target) ELSE Fails(EINVAL)

readlink(n) == readlinkat(n)

\* Sets the bits exactly; there is no way to name the link itself.
fchmodat(n, mode) ==
    LET i == Walk(n, TRUE)
    IN  IF i = 0 THEN Fails(ENOENT) ELSE Change(i, [inode[i] EXCEPT !.mode = mode])

chmod(n, mode) == fchmodat(n, mode)

truncate(n, length) ==
    LET i == Walk(n, TRUE)
    IN  IF i = 0 THEN Fails(ENOENT) ELSE Change(i, [inode[i] EXCEPT !.size = length])

fchownat(n, uid, gid, flags) ==
    LET i == Walk(n, AT_SYMLINK_NOFOLLOW \notin flags)
        Set(id, old) == IF id = DONT_CHANGE THEN old ELSE id
    IN  IF i = 0 THEN Fails(ENOENT)
        ELSE Change(i, [inode[i] EXCEPT !.uid = Set(uid, @), !.gid = Set(gid, @)])

chown(n, uid, gid) == fchownat(n, uid, gid, {})

\* The bug of the flag left out.
lchown_follows(n, uid, gid) == fchownat(n, uid, gid, {})

lchown(n, uid, gid) == fchownat(n, uid, gid, {AT_SYMLINK_NOFOLLOW})

\* times is <<>> for None, else atime and mtime.
utimensat(n, times, flags) ==
    LET i == Walk(n, AT_SYMLINK_NOFOLLOW \notin flags)
        Set(t, old) == CASE t = UTIME_OMIT -> old [] t = UTIME_NOW -> Now [] OTHER -> t
        ts == IF times = <<>> THEN <<UTIME_NOW, UTIME_NOW>> ELSE times
    IN  IF i = 0 THEN Fails(ENOENT)
        ELSE Change(i, [inode[i] EXCEPT !.atime = Set(ts[1], @), !.mtime = Set(ts[2], @)])

utimens(n, times) == utimensat(n, times, {})

umask(m) == [prev |-> mask, now |-> m]

-----------------------------------------------------------------------------
Init ==
    /\ dir = [n \in Names |->
                CASE n = "path" -> 1 [] n = "victim" -> 2 [] n = "conf" -> 3
                  [] n \in Lockers -> OwnInode[n]
                  [] OTHER -> 0]
    /\ inode = [i \in Inodes |-> Blank]
    /\ scene \in {"cleanup", "lock", "publish"}
    /\ mask = {"w"}
    /\ saved = {"none"}
    /\ admin = "lstat"
    /\ holds = [l \in Lockers |-> "no"]
    /\ pub = "make"
    /\ seen = TRUE
    /\ swaps = 0

-----------------------------------------------------------------------------
(* The administrator, and the owner of the path *)

AdminStep ==
    /\ \/ /\ admin = "lstat"
          /\ LET r == lstat("path")
             IN  admin' = CASE ~r.ok -> "lstat" [] is_symlink(r.v) -> "read" [] OTHER -> "chown"
          /\ UNCHANGED world
       \/ /\ admin = "read"
          /\ admin' = IF readlink("path").ok THEN "copy" ELSE "lstat"
          /\ UNCHANGED world
       \/ admin = "chown" /\ Does(lchown("path", 0, DONT_CHANGE)) /\ admin' = "touch"
       \/ /\ admin = "touch"
          /\ Does(utimensat("path", <<UTIME_OMIT, UTIME_NOW>>, {AT_SYMLINK_NOFOLLOW}))
          /\ admin' = "copy"
       \/ admin = "copy" /\ Does(link("path", "copy")) /\ admin' = "drop"
       \/ admin = "drop" /\ Does(unlink("copy")) /\ admin' = "lstat"
    /\ UNCHANGED <<mask, saved, holds, pub, seen, swaps>>

\* The owner removes what is there and puts a symlink or a file in its place.
Swap ==
    /\ swaps < MaxSwaps
    /\ swaps' = swaps + 1
    /\ IF dir["path"] # 0 THEN Does(unlink("path"))
       ELSE \/ Does(symlink("victim", "path"))
            \/ Does([Entry("path", Free) EXCEPT !.inode[Free] = Inode("reg", {"r"}, "none")])
    /\ UNCHANGED <<mask, saved, admin, holds, pub, seen>>

-----------------------------------------------------------------------------
(* The lock *)

Attempt(l, how) ==
    CASE how = "rename" -> renameat2(l, "lock", {RENAME_NOREPLACE})
      [] how = "link" -> link(l, "lock")
      [] how = "mkdir" -> mkdir("lock", {"r", "w", "x"})

Acquire(l) ==
    /\ holds[l] = "no"
    /\ \E how \in {"rename", "link", "mkdir"} :
        LET r == Attempt(l, how)
        IN  Does(r) /\ holds' = [holds EXCEPT ![l] = IF r.ok THEN how ELSE "no"]
    /\ UNCHANGED <<mask, saved, admin, pub, seen, swaps>>

Release(l) ==
    /\ holds[l] # "no"
    /\ Does(CASE holds[l] = "rename" -> rename("lock", l)
              [] holds[l] = "link" -> unlink("lock")
              [] holds[l] = "mkdir" -> rmdir("lock"))
    /\ holds' = [holds EXCEPT ![l] = "no"]
    /\ UNCHANGED <<mask, saved, admin, pub, seen, swaps>>

-----------------------------------------------------------------------------
(* The publisher: a new version with exactly the mode it wants, put in the *)
(* place of the old one.                                                   *)

Publish ==
    /\ \/ /\ pub = "make"
          /\ Does([Entry("new", Free) EXCEPT !.inode[Free] = Inode("reg", {"r", "w"} \ mask, "none")])
          /\ pub' = "mode"
       \/ pub = "mode" /\ Does(chmod("new", {"r", "w"})) /\ pub' = "size"
       \/ pub = "size" /\ Does(truncate("new", 0)) /\ pub' = "own"
       \/ pub = "own" /\ Does(chown("new", DONT_CHANGE, 7)) /\ pub' = "times"
       \/ pub = "times" /\ Does(utimens("new", <<>>)) /\ pub' = "put"
       \/ pub = "put" /\ Does(rename("new", "conf")) /\ pub' = "make"
       \/ pub = "put" /\ Does(renameat2("new", "conf", {RENAME_EXCHANGE})) /\ pub' = "drop"
       \/ pub = "drop" /\ Does(unlink("new")) /\ pub' = "make"
    /\ UNCHANGED <<mask, saved, admin, holds, seen, swaps>>

Look ==
    /\ seen' = (access("conf", F_OK).ok /\ stat("conf").ok)
    /\ UNCHANGED <<world, mask, saved, admin, holds, pub, swaps>>

UmaskThread ==
    /\ IF saved = {"none"}
       THEN mask' = umask({}).now /\ saved' = umask({}).prev
       ELSE mask' = umask(saved).now /\ saved' = {"none"}
    /\ UNCHANGED <<world, admin, holds, pub, seen, swaps>>

Next ==
    \/ scene = "cleanup" /\ (AdminStep \/ Swap) /\ UNCHANGED scene
    \/ scene = "publish" /\ (Publish \/ Look \/ UmaskThread) /\ UNCHANGED scene
    \/ scene = "lock" /\ (\E l \in Lockers : Acquire(l) \/ Release(l)) /\ UNCHANGED scene

Spec == Init /\ [][Next]_vars

-----------------------------------------------------------------------------
(* Properties *)

\* The calls that act on a terminal symlink itself never reach the file it
\* points to: whatever the owner puts at the path between the
\* administrator's lstat and its lchown, utimensat and link, the other file
\* keeps its owner, its times and its one name.
TargetUntouched ==
    LET v == dir["victim"]
    IN  /\ inode[v] = Blank
        /\ Statx(v).stx_nlink = 1

\* The lock excludes: renameat2 with RENAME_NOREPLACE, link and mkdir fail
\* when the name exists, in every mix of the three by two programs.
LockExcludes == \A l, m \in Lockers : holds[l] # "no" /\ holds[m] # "no" => l = m

\* A file that is replaced by rename, or exchanged, is there for every reader
\* at every moment, and only ever in a version that is complete: with the
\* mode asked for whatever umask another thread had set, and its group.
PublishedWhole ==
    /\ seen
    /\ dir["conf"] # 0
    /\ LET c == inode[dir["conf"]]
       IN  /\ c.mode = {"r", "w"}
           /\ dir["conf"] = 3 \/ c.gid = 7
=============================================================================
