------------------------------ MODULE Terminal ------------------------------
(***************************************************************************)
(* Terminal attributes (termios.rs) as a line editor uses them: it saves   *)
(* the attributes, sets raw mode for a prompt, reads bytes and puts the    *)
(* saved attributes back, while somebody types and the line transmits.     *)
(*                                                                         *)
(* The line discipline of the kernel is modelled from what the flags of    *)
(* termios.rs are documented to do.  A flag word is the set of its flags;  *)
(* the character size and parity are the part of c_cflag that changes what *)
(* goes over the wire.                                                     *)
(***************************************************************************)
EXTENDS Integers, Sequences, FiniteSets

CONSTANTS
    Keys,       \* the bytes that may be typed
    Cooked,     \* the attributes the terminal may have at first
    MaxTyped,
    MaxWritten

VARIABLES
    attr,       \* the terminal's attributes
    saved,      \* the editor's copy
    pc,         \* "cooked", "raw"
    line,       \* canonical mode: the line being typed
    inq,        \* input ready to be read
    outq,       \* output waiting for transmission, with its c_cflag when written
    wire,       \* what was transmitted, likewise
    stopped,    \* output is suspended
    sigs,       \* how many signals the keyboard sent in raw mode
    expect,     \* what was typed since raw mode was set
    got,        \* what was read since then
    zero,       \* a read in raw mode returned 0, the end of the input
    typed, written

vars == <<attr, saved, pc, line, inq, outq, wire, stopped, sigs, expect, got, zero,
          typed, written>>

NL == 10
CR == 13
INTR == 3
STOP == 19
START == 17
BREAK == 256     \* not a byte: a break condition on the line

IFlags == {"IGNBRK", "BRKINT", "PARMRK", "ISTRIP", "INLCR", "IGNCR", "ICRNL", "IXON"}

TCSANOW == 0
TCSADRAIN == 1
TCSAFLUSH == 2
TCIFLUSH == 0
TCOFLUSH == 1
TCIOFLUSH == 2
TCOOFF == 0
TCOON == 1
TCIOFF == 2
TCION == 3

-----------------------------------------------------------------------------
(* The kernel's side *)

Line8(cflag, b) == IF cflag.size = 8 THEN b ELSE b % 128

\* What input processing makes of a byte: the bytes delivered.
Input(a, b) ==
    LET s == IF "ISTRIP" \in a.i THEN b % 128 ELSE b
    IN  CASE b = BREAK -> IF "IGNBRK" \in a.i \/ "BRKINT" \in a.i THEN <<>>
                          ELSE IF "PARMRK" \in a.i THEN <<255, 0, 0>> ELSE <<0>>
          [] b # BREAK /\ s = CR -> IF "IGNCR" \in a.i THEN <<>>
                                    ELSE IF "ICRNL" \in a.i THEN <<NL>> ELSE <<CR>>
          [] b # BREAK /\ s = NL -> IF "INLCR" \in a.i THEN <<CR>> ELSE <<NL>>
          [] b # BREAK /\ s = 255 /\ "PARMRK" \in a.i -> <<255, 255>>
          [] OTHER -> <<s>>

IsSignal(a, b) ==
    \/ b = INTR /\ "ISIG" \in a.l
    \/ b = BREAK /\ "BRKINT" \in a.i /\ "IGNBRK" \notin a.i

IsFlow(a, b) == b \in {STOP, START} /\ "IXON" \in a.i

Echoes(a, bytes) == IF "ECHO" \in a.l \/ ("ECHONL" \in a.l /\ bytes = <<NL>>) THEN bytes ELSE <<>>

Out(a, bytes) == [i \in 1..Len(bytes) |-> [b |-> bytes[i], c |-> a.c]]

\* A typed byte, or a break.
Type(b) ==
    /\ pc \in {"cooked", "raw"}
    /\ typed < MaxTyped
    /\ typed' = typed + 1
    /\ LET in == IF IsSignal(attr, b) \/ IsFlow(attr, b) THEN <<>> ELSE Input(attr, b)
           canon == "ICANON" \in attr.l
       IN  /\ stopped' = IF IsFlow(attr, b) THEN b = STOP ELSE stopped
           /\ sigs' = IF IsSignal(attr, b) THEN sigs + 1 ELSE sigs
           /\ line' = IF ~canon THEN line ELSE IF in = <<NL>> THEN <<>> ELSE line \o in
           /\ inq' = IF ~canon THEN inq \o in
                     ELSE IF in = <<NL>> THEN inq \o line \o in ELSE inq
           /\ outq' = outq \o Out(attr, Echoes(attr, in))
    /\ expect' = IF pc = "raw" THEN Append(expect, IF b = BREAK THEN 0 ELSE b) ELSE expect
    /\ UNCHANGED <<attr, saved, pc, wire, got, zero, written>>

Transmit ==
    /\ ~stopped
    /\ outq # <<>>
    /\ wire' = Append(wire, [sent |-> Line8(attr.c, Head(outq).b), was |-> Head(outq)])
    /\ outq' = Tail(outq)
    /\ UNCHANGED <<attr, saved, pc, line, inq, stopped, sigs, expect, got, zero,
                   typed, written>>

-----------------------------------------------------------------------------
(* termios.rs *)

\* The bug of leaving the read parameters as they are.
make_raw_keepcc(t) ==
    [t EXCEPT !.i = @ \ IFlags,
              !.o = @ \ {"OPOST"},
              !.l = @ \ {"ECHO", "ECHONL", "ICANON", "ISIG", "IEXTEN"},
              !.c = [size |-> 8, parity |-> FALSE]]

make_raw(t) ==
    [t EXCEPT !.i = @ \ {"IGNBRK", "BRKINT", "PARMRK", "ISTRIP", "INLCR", "IGNCR", "ICRNL", "IXON"},
              !.o = @ \ {"OPOST"},
              !.l = @ \ {"ECHO", "ECHONL", "ICANON", "ISIG", "IEXTEN"},
              !.c = [size |-> 8, parity |-> FALSE],
              !.vmin = 1,
              !.vtime = 0]

tcgetattr == attr

\* The bug of setting at once what was to wait.
tcsetattr_with_now(actions, t) ==
    /\ attr' = t
    /\ inq' = IF actions = TCSAFLUSH THEN <<>>
              ELSE IF "ICANON" \in t.l THEN inq ELSE inq \o line
    /\ line' = IF actions = TCSAFLUSH \/ "ICANON" \notin t.l THEN <<>> ELSE line

\* An unknown action drains too.  Leaving canonical mode makes the line that
\* is being typed readable.
tcsetattr_with(actions, t) ==
    /\ actions # TCSANOW => outq = <<>>
    /\ attr' = t
    /\ inq' = IF actions = TCSAFLUSH THEN <<>>
              ELSE IF "ICANON" \in t.l THEN inq ELSE inq \o line
    /\ line' = IF actions = TCSAFLUSH \/ "ICANON" \notin t.l THEN <<>> ELSE line

tcsetattr(t) == tcsetattr_with(TCSADRAIN, t)

tcflush(queue) ==
    /\ inq' = IF queue \in {TCIFLUSH, TCIOFLUSH} THEN <<>> ELSE inq
    /\ line' = IF queue \in {TCIFLUSH, TCIOFLUSH} THEN <<>> ELSE line
    /\ outq' = IF queue \in {TCOFLUSH, TCIOFLUSH} THEN <<>> ELSE outq

tcdrain == outq = <<>>

\* TCIOFF and TCION send a character to the other side, ahead of the queue.
tcflow(action) ==
    /\ stopped' = CASE action = TCOOFF -> TRUE [] action = TCOON -> FALSE [] OTHER -> stopped
    /\ wire' = CASE action = TCIOFF -> Append(wire, [sent |-> STOP, was |-> Out(attr, <<STOP>>)[1]])
                 [] action = TCION -> Append(wire, [sent |-> START, was |-> Out(attr, <<START>>)[1]])
                 [] OTHER -> wire

\* TCSBRKP sends a break whatever the duration.
tcsendbreak(duration) ==
    wire' = Append(wire, [sent |-> BREAK, was |-> [b |-> BREAK, c |-> attr.c]])

-----------------------------------------------------------------------------
Init ==
    /\ attr \in Cooked
    /\ saved = attr
    /\ pc = "cooked"
    /\ line = <<>>
    /\ inq = <<>>
    /\ outq = <<>>
    /\ wire = <<>>
    /\ stopped = FALSE
    /\ sigs = 0
    /\ expect = <<>>
    /\ got = <<>>
    /\ zero = FALSE
    /\ typed = 0
    /\ written = 0

\* The recipe of make_raw.
SetRaw ==
    /\ pc = "cooked"
    /\ saved' = tcgetattr
    /\ \E how \in {TCSADRAIN, TCSAFLUSH} :
        IF how = TCSADRAIN THEN tcsetattr(make_raw(tcgetattr))
        ELSE tcsetattr_with(TCSAFLUSH, make_raw(tcgetattr))
    /\ expect' = inq'
    /\ got' = <<>>
    /\ sigs' = 0
    /\ pc' = "raw"
    /\ UNCHANGED <<outq, wire, stopped, zero, typed, written>>

Restore ==
    /\ pc = "raw"
    /\ tcsetattr_with(TCSAFLUSH, saved)
    /\ pc' = "cooked"
    /\ UNCHANGED <<saved, outq, wire, stopped, sigs, expect, got, zero, typed, written>>

\* A read for one byte: it waits for VMIN bytes.
ReadByte ==
    /\ pc = "raw"
    /\ Len(inq) >= attr.vmin
    /\ IF inq = <<>> THEN zero' = TRUE /\ UNCHANGED <<inq, got>>
       ELSE inq' = Tail(inq) /\ got' = Append(got, Head(inq)) /\ UNCHANGED zero
    /\ UNCHANGED <<attr, saved, pc, line, outq, wire, stopped, sigs, expect, typed,
                   written>>

\* Output of the editor, or of the program it runs between two prompts.
Write ==
    /\ pc \in {"cooked", "raw"}
    /\ written < MaxWritten
    /\ written' = written + 1
    /\ outq' = outq \o Out(attr, <<233>>)
    /\ UNCHANGED <<attr, saved, pc, line, inq, wire, stopped, sigs, expect, got, zero,
                   typed>>

\* Type-ahead is dropped after an interrupt; flow control; a break.
Control ==
    /\ pc = "raw"
    /\ \/ /\ tcflush(TCIFLUSH)
          /\ expect' = got
          /\ UNCHANGED <<wire, stopped>>
       \/ /\ tcdrain
          /\ UNCHANGED <<inq, line, outq, expect, wire, stopped>>
       \/ /\ Len(wire) < MaxWritten
          /\ \/ \E action \in {TCOOFF, TCOON, TCIOFF, TCION} : tcflow(action)
             \/ tcsendbreak(0) /\ UNCHANGED stopped
          /\ UNCHANGED <<inq, line, outq, expect>>
    /\ UNCHANGED <<attr, saved, pc, sigs, got, zero, typed, written>>

Next ==
    \/ SetRaw \/ Restore \/ ReadByte \/ Write \/ Control \/ Transmit
    \/ \E b \in Keys : Type(b)

Spec == Init /\ [][Next]_vars

-----------------------------------------------------------------------------
(* Properties *)

\* Raw mode passes every byte: what is typed while it is set is read byte for
\* byte, with nothing translated, swallowed, stripped, doubled or turned into
\* a signal or into flow control, whatever attributes the terminal had, and a
\* read never returns 0, which would be taken for the end of the input.
RawTransparent ==
    pc = "raw" => /\ got \o inq = expect
                  /\ sigs = 0
                  /\ ~zero

\* A change of attributes that waits for the output leaves what was written
\* before it alone: every byte is transmitted with the character size that
\* was set when it was written.
SentAsWritten == \A i \in 1..Len(wire) : wire[i].sent = Line8(wire[i].was.c, wire[i].was.b)
=============================================================================
