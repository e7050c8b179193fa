------------------------------ MODULE DirWatch ------------------------------
(***************************************************************************)
(* Reading a directory and watching it (fs.rs getdents64 and dirents,      *)
(* inotify.rs).                                                            *)
(*                                                                         *)
(* A program keeps a copy of a directory's names: it adds a watch, lists   *)
(* the directory once, and then applies the events it reads.  Meanwhile    *)
(* others create, remove and rename entries.  When the kernel reports that *)
(* its queue overflowed the program lists the directory again.  At the end *)
(* it removes the watch and reads up to the trailing IN_IGNORED.           *)
(*                                                                         *)
(* Both calls fill a buffer with packed records of bytes, and the          *)
(* iterators of the crate take them apart; a slice out of bounds is a      *)
(* panic.                                                                  *)
(***************************************************************************)
EXTENDS Integers, Sequences, FiniteSets, SequencesExt

CONSTANTS
    Names,      \* the names that may be in the directory, as bytes
    Dirs,       \* those of them that are directories
    Junk,       \* what the kernel may leave in the padding of a dirent
    BufLen,     \* the length of the program's buffer
    QueueMax,   \* how many events the kernel keeps
    MaxChanges  \* a bound on the changes of the directory

VARIABLES
    dir,        \* the names in the directory
    queue,      \* the events not read yet
    wd,         \* the watch descriptor, 0 when there is no watch
    changes,
    pc,         \* "start", "open", "list", "dirents", "read", "events", "closed",
                \* "panic"
    todo,       \* the names a listing has still to return
    buf,        \* the filled part of the buffer
    pos,        \* where the iterator is in it
    junk,
    known       \* the program's copy

kernel == <<dir, queue, wd, changes, junk>>
program == <<pc, buf, pos, known>>
vars == <<kernel, todo, program>>

IN_MOVED_FROM == 64
IN_MOVED_TO == 128
IN_CREATE == 256
IN_DELETE == 512
IN_Q_OVERFLOW == 16384
IN_IGNORED == 32768
IN_ISDIR == 1073741824
DT_DIR == 4
DT_REG == 8

Has(mask, bit) == (mask \div bit) % 2 = 1

-----------------------------------------------------------------------------
(* The kernel's records, in bytes *)

Fill(n, b) == [i \in 1..n |-> b]

RoundUp(n, k) == ((n + k - 1) \div k) * k

Le16(v) == <<v % 256, v \div 256>>

Le32(v) == IF v < 0 THEN Fill(4, 255)
           ELSE <<v % 256, (v \div 256) % 256, (v \div 65536) % 256, v \div 16777216>>

Ino(n) == CHOOSE i \in 1..Cardinality(Names) : SetToSeq(Names)[i] = n

\* struct linux_dirent64: the name ends with a nul, what follows is padding.
Dirent(n) ==
    LET reclen == RoundUp(19 + Len(n) + 1, 8)
    IN  <<Ino(n)>> \o Fill(7, 0) \o Fill(8, 0) \o Le16(reclen)
        \o <<IF n \in Dirs THEN DT_DIR ELSE DT_REG>> \o n \o <<0>>
        \o Fill(reclen - 20 - Len(n), junk)

\* struct inotify_event: a name is padded with nuls, or there is none.
Event(e) ==
    LET len == IF e.name = <<>> THEN 0 ELSE RoundUp(Len(e.name) + 1, 16)
    IN  Le32(e.wd) \o Le32(e.mask) \o Le32(e.cookie) \o Le32(len)
        \o e.name \o Fill(len - Len(e.name), 0)

\* As many whole records as fit.
Packed(recs) ==
    LET upTo(k) == FlattenSeq(SubSeq(recs, 1, k))
        fit == {k \in 0..Len(recs) : Len(upTo(k)) <= BufLen}
    IN  [bytes |-> upTo(Max(fit)), count |-> Max(fit)]

\* A new event; one equal to the last is merged with it, and when the queue
\* is full the loss is recorded once.
Queued(q, e) ==
    IF q # <<>> /\ q[Len(q)] = e THEN q
    ELSE IF Len(q) < QueueMax THEN Append(q, e)
    ELSE IF q[Len(q)].mask = IN_Q_OVERFLOW THEN q
    ELSE Append(q, [wd |-> -1, mask |-> IN_Q_OVERFLOW, cookie |-> 0, name |-> <<>>])

Ev(mask, cookie, n) ==
    [wd |-> wd, mask |-> mask + IF n \in Dirs THEN IN_ISDIR ELSE 0, cookie |-> cookie, name |-> n]

Report(events) == queue' = IF wd = 0 THEN queue ELSE FoldLeft(Queued, queue, events)

-----------------------------------------------------------------------------
(* The iterators *)

\* Rust's &s[from..to], from and to counted from 0.
Slice(s, from, to) == SubSeq(s, from + 1, to)

U16(b) == b[1] + 256 * b[2]
I32(b) == IF b[4] < 128 THEN b[1] + 256 * b[2] + 65536 * b[3] + 16777216 * b[4]
          ELSE -1 - ((255 - b[1]) + 256 * (255 - b[2]) + 65536 * (255 - b[3])
                     + 16777216 * (255 - b[4]))

\* The bytes before the first nul.
UntilNul(s) ==
    LET nuls == {i \in 1..Len(s) : s[i] = 0}
    IN  IF nuls = {} THEN s ELSE SubSeq(s, 1, Min(nuls) - 1)

Panics == [panic |-> TRUE]

\* The bug of taking the padding for part of the name.
dirents_next_padded(rec) ==
    LET d_reclen == U16(Slice(rec, 16, 18))
        region == Slice(rec, 19, d_reclen)
    IN  [panic |-> FALSE, d_ino |-> rec[1], d_type |-> rec[19],
         d_name |-> SelectSeq(region, LAMBDA b : b # 0), used |-> d_reclen]

\* Dirents::next on the rest of the buffer.
dirents_next(rec) ==
    IF Len(rec) < 19 THEN Panics
    ELSE LET d_reclen == U16(Slice(rec, 16, 18))
         IN  IF d_reclen < 19 \/ d_reclen > Len(rec) THEN Panics
             ELSE [panic |-> FALSE, d_ino |-> rec[1], d_type |-> rec[19],
                   d_name |-> UntilNul(Slice(rec, 19, d_reclen)), used |-> d_reclen]

\* InotifyEvents::next on the rest of the buffer.
inotify_events_next(rec) ==
    IF Len(rec) < 16 THEN Panics
    ELSE LET len == I32(Slice(rec, 12, 16))
         IN  IF 16 + len > Len(rec) THEN Panics
             ELSE [panic |-> FALSE, wd |-> I32(Slice(rec, 0, 4)), mask |-> I32(Slice(rec, 4, 8)),
                   cookie |-> I32(Slice(rec, 8, 12)), name |-> Slice(rec, 16, 16 + len),
                   used |-> 16 + len]

\* InotifyEvent::name: none when the record carries none.
event_name(e) == IF e.name = <<>> THEN {} ELSE {UntilNul(e.name)}

Rest == Slice(buf, pos, Len(buf))

-----------------------------------------------------------------------------
Init ==
    /\ dir \in SUBSET Names
    /\ queue = <<>>
    /\ wd = 0
    /\ changes = 0
    /\ junk \in Junk
    /\ pc = "start"
    /\ todo = {}
    /\ buf = <<>>
    /\ pos = 0
    /\ known = {}

\* inotify_init1 and inotify_add_watch; the listing starts after them.
inotify_add_watch ==
    /\ pc = "start"
    /\ wd' = 1
    /\ pc' = "open"
    /\ UNCHANGED <<dir, queue, changes, junk, todo, buf, pos, known>>

OpenDir ==
    /\ pc = "open"
    /\ todo' = dir
    /\ pc' = "list"
    /\ UNCHANGED <<kernel, buf, pos, known>>

\* One fill of the buffer with names still to come; a name that was removed
\* since the directory was opened may be left out, one that was added may be
\* left out or not.  Nothing left is the end, 0.
getdents64 ==
    /\ pc = "list"
    /\ \E gone \in SUBSET (todo \ dir), more \in SUBSET (dir \ (todo \cup known)) :
        LET names == SetToSeq((todo \ gone) \cup more)
            fill == Packed([i \in 1..Len(names) |-> Dirent(names[i])])
        IN  /\ buf' = fill.bytes
            /\ todo' = Range(SubSeq(names, fill.count + 1, Len(names)))
            /\ pc' = IF fill.bytes = <<>> THEN "read" ELSE "dirents"
    /\ pos' = 0
    /\ UNCHANGED <<kernel, known>>

NextDirent ==
    /\ pc = "dirents"
    /\ IF pos >= Len(buf)
       THEN pc' = "list" /\ UNCHANGED <<pos, known>>
       ELSE LET e == dirents_next(Rest)
            IN  IF e.panic THEN pc' = "panic" /\ UNCHANGED <<pos, known>>
                ELSE /\ known' = known \cup {e.d_name}
                     /\ pos' = pos + e.used
                     /\ UNCHANGED pc
    /\ UNCHANGED <<kernel, todo, buf>>

\* A read of the inotify descriptor, when there is something to read.
ReadEvents ==
    /\ pc = "read"
    /\ queue # <<>>
    /\ LET fill == Packed([i \in 1..Len(queue) |-> Event(queue[i])])
       IN  /\ buf' = fill.bytes
           /\ queue' = SubSeq(queue, fill.count + 1, Len(queue))
    /\ pos' = 0
    /\ pc' = "events"
    /\ UNCHANGED <<dir, wd, changes, junk, todo, known>>

\* An overflow, which names no watch, makes it list the directory again once
\* the buffer is used up.
Apply(e) ==
    CASE e.wd = -1 -> {<<>>}
      [] Has(e.mask, IN_CREATE) \/ Has(e.mask, IN_MOVED_TO) -> known \cup event_name(e)
      [] Has(e.mask, IN_DELETE) \/ Has(e.mask, IN_MOVED_FROM) -> known \ event_name(e)
      [] OTHER -> known

NextEvent ==
    /\ pc = "events"
    /\ IF pos >= Len(buf)
       THEN /\ pc' = IF <<>> \in known THEN "open" ELSE "read"
            /\ known' = IF <<>> \in known THEN {} ELSE known
            /\ UNCHANGED pos
       ELSE LET e == inotify_events_next(Rest)
            IN  IF e.panic THEN pc' = "panic" /\ UNCHANGED <<pos, known>>
                ELSE /\ known' = Apply(e)
                     /\ pos' = pos + e.used
                     /\ pc' = IF e.wd # -1 /\ Has(e.mask, IN_IGNORED) THEN "closed" ELSE pc
    /\ UNCHANGED <<kernel, todo, buf>>

\* The watch is gone; the trailing event is queued.
inotify_rm_watch ==
    /\ pc = "read"
    /\ wd # 0
    /\ queue' = Queued(queue, [wd |-> wd, mask |-> IN_IGNORED, cookie |-> 0, name |-> <<>>])
    /\ wd' = 0
    /\ UNCHANGED <<dir, changes, junk, todo, program>>

-----------------------------------------------------------------------------
(* The other processes *)

Create(n) == n \notin dir /\ dir' = dir \cup {n} /\ Report(<<Ev(IN_CREATE, 0, n)>>)

Delete(n) == n \in dir /\ dir' = dir \ {n} /\ Report(<<Ev(IN_DELETE, 0, n)>>)

Rename(m, n) ==
    /\ m \in dir
    /\ m # n
    /\ m \in Dirs <=> n \in Dirs
    /\ dir' = (dir \ {m}) \cup {n}
    /\ Report(<<Ev(IN_MOVED_FROM, 1, m), Ev(IN_MOVED_TO, 1, n)>>)

Others ==
    /\ changes < MaxChanges
    /\ changes' = changes + 1
    /\ \E m, n \in Names : Create(n) \/ Delete(n) \/ Rename(m, n)
    /\ UNCHANGED <<wd, junk, todo, program>>

Next ==
    \/ inotify_add_watch \/ OpenDir \/ getdents64 \/ NextDirent \/ ReadEvents
    \/ NextEvent \/ inotify_rm_watch \/ Others

Spec == Init /\ [][Next]_vars

-----------------------------------------------------------------------------
(* Properties *)

\* The program's copy is the directory whenever it has read everything there
\* is to read: no entry is missed, repeated or misspelt by the iterators over
\* the packed records, whatever changes while the directory is listed, for
\* names that fill their record and names that do not, and also after the
\* kernel's queue has overflowed.  No iterator panics on what the kernel
\* fills in.
CopyIsCurrent ==
    /\ pc # "panic"
    /\ pc = "read" /\ queue = <<>> /\ wd # 0 => known = dir
=============================================================================
