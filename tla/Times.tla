------------------------------- MODULE Times --------------------------------
(***************************************************************************)
(* How a program waits for a time (Sleep) and reads one (VdsoClock).       *)
(***************************************************************************)
EXTENDS Integers, Sequences

CONSTANTS
    Interval, Latency, Work, MaxSignals, Jump, MaxTicks,      \* Sleep
    Threads, Images, Clocks, VdsoClocks, BadClock, FdLimit,   \* VdsoClock
    MaxTime, MaxCalls

VARIABLES
    mode, clock, now, offset, spc, until, rem, begin, deadline, laps, signals, timer,
    image, CACHE, vpc, vclock, start, entry, res, calls, leaked, other, vnow

S == INSTANCE Sleep WITH MaxTime <- MaxTicks, pc <- spc
V == INSTANCE VdsoClock WITH pc <- vpc, clock <- vclock, now <- vnow

vvars == <<image, CACHE, vpc, vclock, start, entry, res, calls, leaked, other, vnow>>
svars == <<mode, clock, now, offset, spc, until, rem, begin, deadline, laps, signals, timer>>

\* Ticks are counted; the work of a period fits into the period, and the wall
\* clock is only set forward.
ASSUME TimesAssumption ==
    /\ Interval \in Nat \ {0} /\ Latency \in Nat /\ Jump \in Nat
    /\ Work \in 0..Interval

\* The vDSO serves clocks the kernel has.
ASSUME ClocksAssumption == VdsoClocks \subseteq Clocks

\* A function of an image lies inside it, after the header at its base.
ASSUME ImagesAssumption ==
    \A d \in Images :
        /\ d.mapped \in BOOLEAN /\ d.hash \in BOOLEAN /\ d.linked \in Nat
        /\ d.functions \in Seq([name : Seq(STRING), addr : Nat])
        /\ \A k \in 1..Len(d.functions) :
             d.functions[k].addr = 0 \/ d.functions[k].addr > V!Base

-----------------------------------------------------------------------------
\* An interrupted and resumed nanosleep lasts the interval (Sleep).
SleepsTheInterval == S!SleepsTheInterval

\* Periodic wake-ups by absolute deadline or timerfd keep the period (Sleep).
NoDrift == S!NoDrift

\* A clock_gettime that returns gives a time of the call (VdsoClock).
ResultIsCurrent == V!ResultIsCurrent

\* What threads cache and call is the vDSO's function (VdsoClock).
PointerIsReal == V!PointerIsReal
=============================================================================
