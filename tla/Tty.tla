-------------------------------- MODULE Tty --------------------------------
(***************************************************************************)
(* A program on a terminal (Terminal).                                     *)
(***************************************************************************)
EXTENDS Integers

CONSTANTS Keys, Cooked, MaxTyped, MaxWritten

VARIABLES
    attr, tsaved, tpc, line, inq, outq, wire, stopped, sigs, expect, got, zero, typed,
    written

T == INSTANCE Terminal WITH saved <- tsaved, pc <- tpc

tvars == <<attr, tsaved, tpc, line, inq, outq, wire, stopped, sigs, expect, got, zero, typed,
           written>>

\* A key is a byte, or a break condition; flags are names.
ASSUME KeysAssumption == Keys \subseteq 0..T!BREAK
ASSUME CookedAssumption ==
    Cooked \subseteq [i : SUBSET STRING, o : SUBSET STRING, l : SUBSET STRING,
                      c : [size : {7, 8}, parity : BOOLEAN], vmin : Nat, vtime : Nat]

-----------------------------------------------------------------------------
\* In raw mode what is typed is what is read (Terminal).
RawTransparent == T!RawTransparent

\* Bytes are transmitted with the settings they were written under (Terminal).
SentAsWritten == T!SentAsWritten
=============================================================================
