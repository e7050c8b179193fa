------------------------------ MODULE MCEvents ------------------------------
(* The modules about signals, waiting and time, for TLC: a shell's SIGCHLD  *)
(* loop (ChildWatch), an event loop (EventLoop), the vDSO clock             *)
(* (VdsoClock) and sleeping (Sleep).  They share no state of the code:      *)
(* which says which of them a behaviour is of, and the state of the others  *)
(* stays as it was at first.                                                *)
EXTENDS ChildWatch, Times

CONSTANTS CounterMax, Adds, MaxPosts, Payloads   \* EventLoop

VARIABLES
    which,
    conf, efd, queue, reg, rdl, events, epc, posted, taken, posts, sent, got

-----------------------------------------------------------------------------
(* vDSO images: linked at zero and elsewhere, of another machine or class,   *)
(* without a SysV hash table, with the symbol after one whose name continues *)
(* it, only referred to before it is defined, or missing; and none at all.   *)
(* They are for x86_64 (machine 62) and loaded at address 1000.              *)

Function(name, addr) == [name |-> name, addr |-> addr]
Longer == Function(<<"clock", "gettime", "64">>, 1700)
Shorter == Function(<<"clock">>, 1710)
Wanted == Function(<<"clock", "gettime">>, 1720)
Undefined == Function(<<"clock", "gettime">>, 0)

Good == [mapped |-> TRUE, class |-> 2, machine |-> 62, hash |-> TRUE, linked |-> 0,
         functions |-> <<Shorter, Longer, Wanted>>]

MCImages ==
    {Good,
     [Good EXCEPT !.linked = 50000],
     [Good EXCEPT !.functions = <<Undefined, Wanted, Longer>>, !.linked = 300],
     [Good EXCEPT !.functions = <<Longer, Shorter>>],
     [Good EXCEPT !.machine = 183],
     [Good EXCEPT !.class = 1],
     [Good EXCEPT !.hash = FALSE],
     [Good EXCEPT !.mapped = FALSE]}

-----------------------------------------------------------------------------
E == INSTANCE EventLoop WITH pc <- epc

evars == <<conf, efd, queue, reg, rdl, events, epc, posted, taken, posts, sent, got>>
MCvars == <<which, vars, evars, vvars, svars>>

MCInit ==
    /\ which \in {"watch", "loop", "vdso", "sleep"}
    /\ IF which = "watch" THEN Init ELSE discipline = "sigsuspend" /\ mask = {} /\ Init
    /\ IF which = "loop" THEN E!Init
       ELSE /\ conf = [mux |-> "poll", timeout |-> 0, edge |-> FALSE, semaphore |-> FALSE,
                       room |-> 2]
            /\ E!Init
    /\ IF which = "vdso" THEN V!Init ELSE image = Good /\ other = 0 /\ V!Init
    /\ IF which = "sleep" THEN S!Init ELSE mode = "nanosleep" /\ S!Init

IsWatch(A) == which = "watch" /\ A /\ UNCHANGED <<which, evars, vvars, svars>>
IsLoop(A) == which = "loop" /\ A /\ UNCHANGED <<which, vars, vvars, svars>>
IsVdso(A) == which = "vdso" /\ A /\ UNCHANGED <<which, vars, evars, svars>>
IsSleep(A) == which = "sleep" /\ A /\ UNCHANGED <<which, vars, evars, vvars>>

MCNext == IsWatch(Next) \/ IsLoop(E!Next) \/ IsVdso(V!Next) \/ IsSleep(S!Next)

\* The fairness of ChildWatch and of EventLoop.
MCSpec ==
    /\ MCInit /\ [][MCNext]_MCvars
    /\ WF_MCvars(IsWatch(Shell)) /\ WF_MCvars(IsWatch(Kernel))
    /\ WF_MCvars(IsWatch(sigreturn_trampoline))
    /\ WF_MCvars(IsLoop(E!Loop))

-----------------------------------------------------------------------------
\* The event loop comes to read all that eventfd writers and sigqueue sent
\* (EventLoop).
NoWakeupLost == E!NoWakeupLost
=============================================================================
