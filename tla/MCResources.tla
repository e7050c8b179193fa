---------------------------- MODULE MCResources ----------------------------
(* The modules about names, descriptors, mappings and terminals, for TLC.   *)
(* They share no state of the code: which says which of them a behaviour is *)
(* of, and the state of the others stays as it was at first.                *)
EXTENDS Fs, Resources, Tty, TLC

VARIABLE which

\* The threads of FdTable are interchangeable.
Symmetry == Permutations(Threads)

\* The buffers and the ranges of process_vm_readv, split differently.
MCLocals == <<2, 1>>
MCRemotes == <<[base |-> 1, len |-> 1], [base |-> 0, len |-> 2]>>

\* A shell's usual attributes on a 7-bit line, and two with the flags and
\* control characters that those do not have.
MCCooked ==
    {[i |-> {"ICRNL", "IXON", "BRKINT"}, o |-> {"OPOST"},
      l |-> {"ICANON", "ECHO", "ISIG", "IEXTEN"}, c |-> [size |-> 7, parity |-> TRUE],
      vmin |-> 1, vtime |-> 0],
     [i |-> {"PARMRK", "INLCR", "IGNCR"}, o |-> {"OPOST"},
      l |-> {"ECHONL", "ICANON"}, c |-> [size |-> 8, parity |-> FALSE],
      vmin |-> 0, vtime |-> 5],
     [i |-> {"IGNBRK", "ISTRIP"}, o |-> {}, l |-> {"ISIG"},
      c |-> [size |-> 8, parity |-> FALSE], vmin |-> 0, vtime |-> 0]}

MCvars == <<which, vars, dvars, mvars, tvars>>

MCInit ==
    /\ which \in {"fds", "names", "memory", "terminal"}
    /\ IF which = "names" THEN Init ELSE scene = "lock" /\ Init
    /\ IF which = "fds" THEN D!Init ELSE arch = "x86_64" /\ D!Init
    /\ M!Init
    /\ IF which = "terminal" THEN T!Init
       ELSE attr = (CHOOSE a \in Cooked : a.c.size = 7) /\ T!Init

IsNames(A) == which = "names" /\ A /\ UNCHANGED <<which, dvars, mvars, tvars>>
IsFds(A) == which = "fds" /\ A /\ UNCHANGED <<which, vars, mvars, tvars>>
IsMemory(A) == which = "memory" /\ A /\ UNCHANGED <<which, vars, dvars, tvars>>
IsTerminal(A) == which = "terminal" /\ A /\ UNCHANGED <<which, vars, dvars, mvars>>

MCNext == IsNames(Next) \/ IsFds(D!Next) \/ IsMemory(M!Next) \/ IsTerminal(T!Next)

MCSpec == MCInit /\ [][MCNext]_MCvars
=============================================================================
