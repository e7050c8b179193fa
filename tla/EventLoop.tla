------------------------------ MODULE EventLoop ------------------------------
(***************************************************************************)
(* An event loop of this crate's parts: it waits with poll (fd.rs) or      *)
(* epoll (epoll.rs) on an eventfd other threads post to (eventfd.rs) and   *)
(* on a signalfd another process sends payloads to with sigqueue           *)
(* (signal.rs), and reads what is reported. Events arrive at any moment,   *)
(* before and after each registration; the kernel's objects are external.  *)
(***************************************************************************)
EXTENDS Integers, Sequences, SequencesExt

CONSTANTS
    CounterMax,  \* the largest eventfd counter (the kernel's is 2^64 - 2)
    Adds,        \* the values threads write to the eventfd
    MaxPosts,    \* bound on those writes
    Payloads     \* the values sent with sigqueue, each at most once

VARIABLES
    conf,     \* what waits and how (Confs), chosen at the start; ppoll is aarch64's poll
    efd,      \* the eventfd: [counter, semaphore], NoFd before it exists
    queue,    \* the pending realtime signals a signalfd read takes from
    reg,      \* the registrations: descriptor -> EpollEvent (or PollFd)
    rdl,      \* epoll's list of descriptors that may be ready
    events,   \* what the last wait returned, not yet handled
    pc,       \* the loop: "create", "add", "wait", "handle"
    posted, taken,  \* sums written to and read from the eventfd (history)
    posts,    \* number of writes so far
    sent, got \* payloads sent and received, in order (history)

vars == <<conf, efd, queue, reg, rdl, events, pc, posted, taken, posts, sent, got>>

Fds == {"event", "signal"}
NoFd == [counter |-> 0, semaphore |-> FALSE]
Confs == [mux : {"poll", "ppoll", "epoll"}, timeout : {-1, 0}, edge : BOOLEAN,
          semaphore : BOOLEAN, room : {1, 2}]

-----------------------------------------------------------------------------
(* The kernel. *)

Readable(fd) == IF fd = "event" THEN efd.counter > 0 ELSE queue # <<>>

\* A descriptor became readable: an epoll instance lists it, once.
Wake(fd) ==
    rdl' = IF fd \in DOMAIN reg /\ conf.mux = "epoll" /\ ~Contains(rdl, fd)
           THEN Append(rdl, fd) ELSE rdl

\* A read of 8 bytes: the whole counter, or 1 from a semaphore.
EventfdRead(e) == IF e.semaphore THEN 1 ELSE e.counter

-----------------------------------------------------------------------------
(* The crate. *)

EFD_SEMAPHORE == TRUE

eventfd(initval, flags) == [counter |-> initval, semaphore |-> flags]

EpollEvent_edge(edge, data) == [edge |-> TRUE, data |-> data]

\* EpollEvent::new: the flags (EPOLLIN, and EPOLLET or not) and the opaque data.
EpollEvent(edge, data) == [edge |-> edge, data |-> data]

\* PollFd::new, with POLLIN and nothing reported yet.
PollFd(fd) == [edge |-> FALSE, data |-> fd]

\* EPOLL_CTL_ADD; a descriptor that is readable already is listed.
epoll_ctl(fd, event) ==
    /\ reg' = reg @@ (fd :> event)
    /\ rdl' = IF Readable(fd) THEN Append(rdl, fd) ELSE rdl

\* Up to `room` entries from the head of the list that are really readable; a
\* level-triggered one goes back to its end.
epoll_wait(room) ==
    LET ready == SelectSeq(rdl, Readable)
        n == IF Len(ready) < room THEN Len(ready) ELSE room
        out == SubSeq(ready, 1, n)
        again == SelectSeq(out, LAMBDA fd : ~reg[fd].edge)
    IN  /\ events' = [i \in 1..n |-> reg[out[i]].data]
        /\ rdl' = SubSeq(ready, n + 1, Len(ready)) \o again

\* aarch64's poll converts the timeout; a negative one becomes a null timespec.
PollTimespec(ms) == IF ms < 0 THEN <<>> ELSE <<ms \div 1000, (ms % 1000) * 1000000>>
Blocks == IF conf.mux = "ppoll" THEN PollTimespec(conf.timeout) = <<>> ELSE conf.timeout < 0

\* Every descriptor of the set that is readable.
poll ==
    /\ events' = SelectSeq(<<"event", "signal">>, LAMBDA fd : fd \in DOMAIN reg /\ Readable(fd))
    /\ UNCHANGED rdl

\* si_code SI_QUEUE; a signalfd reader finds si_value in ssi_ptr.
SigqueueInfo(value) == [ssi_code |-> -1, ssi_ptr |-> value]

-----------------------------------------------------------------------------
Init ==
    /\ conf \in {c \in Confs : c.mux # "epoll" => ~c.edge /\ c.room = 2}
    /\ efd = NoFd /\ queue = <<>>
    /\ reg = <<>> /\ rdl = <<>> /\ events = <<>>
    /\ pc = "create"
    /\ posted = 0 /\ taken = 0 /\ posts = 0
    /\ sent = <<>> /\ got = <<>>

\* Another thread writes to the eventfd; it blocks while the sum would overflow.
Post ==
    /\ pc # "create" /\ posts < MaxPosts
    /\ \E v \in Adds :
          /\ efd.counter + v <= CounterMax
          /\ efd' = [efd EXCEPT !.counter = @ + v]
          /\ posted' = posted + v
    /\ posts' = posts + 1
    /\ Wake("event")
    /\ UNCHANGED <<conf, queue, reg, events, pc, taken, sent, got>>

\* Another process sends a realtime signal with a payload; the signal is blocked.
sigqueue(v) ==
    /\ ~Contains(sent, v)
    /\ queue' = Append(queue, SigqueueInfo(v))
    /\ sent' = Append(sent, v)
    /\ Wake("signal")
    /\ UNCHANGED <<conf, efd, reg, events, pc, posted, taken, posts, got>>

Create ==
    /\ pc = "create"
    /\ efd' = eventfd(0, IF conf.semaphore THEN EFD_SEMAPHORE ELSE FALSE)
    /\ pc' = "add"
    /\ UNCHANGED <<conf, queue, reg, rdl, events, posted, taken, posts, sent, got>>

Add ==
    /\ pc = "add"
    /\ \E fd \in Fds \ DOMAIN reg :
          IF conf.mux = "epoll" THEN epoll_ctl(fd, EpollEvent(conf.edge, fd))
          ELSE reg' = reg @@ (fd :> PollFd(fd)) /\ UNCHANGED rdl
    /\ pc' = IF Fds \subseteq DOMAIN reg' THEN "wait" ELSE "add"
    /\ UNCHANGED <<conf, efd, queue, events, posted, taken, posts, sent, got>>

\* Nothing to report: a wait with timeout 0 returns empty, one with a negative
\* timeout blocks.
Wait ==
    /\ pc = "wait"
    /\ IF conf.mux = "epoll" THEN epoll_wait(conf.room) ELSE poll
    /\ events' # <<>> \/ ~Blocks
    /\ pc' = IF events' = <<>> THEN "wait" ELSE "handle"
    /\ UNCHANGED <<conf, efd, queue, reg, posted, taken, posts, sent, got>>

\* One read for a level-triggered event; an edge-triggered descriptor is read
\* until it would block.
More(fd) == conf.edge /\ Readable(fd)'
Handled(fd) ==
    /\ events' = IF More(fd) THEN events ELSE Tail(events)
    /\ pc' = IF events' = <<>> THEN "wait" ELSE "handle"

HandleEvent ==
    /\ pc = "handle" /\ Head(events) = "event"
    /\ efd' = [efd EXCEPT !.counter = @ - EventfdRead(efd)]
    /\ taken' = taken + EventfdRead(efd)
    /\ Handled("event")
    /\ UNCHANGED <<conf, queue, reg, rdl, posted, posts, sent, got>>

HandleSignal ==
    /\ pc = "handle" /\ Head(events) = "signal"
    /\ got' = Append(got, Head(queue).ssi_ptr)
    /\ queue' = Tail(queue)
    /\ Handled("signal")
    /\ UNCHANGED <<conf, efd, reg, rdl, posted, taken, posts, sent>>

Loop == Create \/ Add \/ Wait \/ HandleEvent \/ HandleSignal

Next == Loop \/ Post \/ \E v \in Payloads : sigqueue(v)

\* The loop's thread runs; posters and senders need not.
Spec == Init /\ [][Next]_vars /\ WF_vars(Loop)
-----------------------------------------------------------------------------
(* Properties *)

\* Every write of an eventfd and every sigqueue is noticed, and what is read is
\* what was sent: with poll, with epoll level-triggered (one read per event,
\* whatever `events.len()` is) and edge-triggered (read until it would block),
\* the loop comes to read the sum of all that was posted and every payload,
\* "delivered back verbatim" in ssi_ptr, once and in order, however they fall
\* between the waits, reads and registrations.
NoWakeupLost ==
    /\ taken # posted ~> taken = posted
    /\ got # sent ~> got = sent
=============================================================================
