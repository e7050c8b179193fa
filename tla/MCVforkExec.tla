---------------------------- MODULE MCVforkExec ----------------------------
(* Three descriptors, two files, a table with a hole and a close-on-exec    *)
(* entry. Arrays of up to two or three redirects over valid and invalid     *)
(* descriptors include the swap of two descriptors through a third, 2>&1    *)
(* before and after another redirect, self-redirects and every position of  *)
(* a failing redirect.                                                      *)
EXTENDS VforkExec, TLC

MCFds == {0, 1, 2}
MCFdArgs == {-1, 0, 1, 2}
MCFiles == {"tty", "pipe"}

E(f, c) == [file |-> f, cloexec |-> c]
MCInitTables == {(0 :> E("tty", FALSE) @@ 1 :> Closed @@ 2 :> E("pipe", TRUE))}
=============================================================================
