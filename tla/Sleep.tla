-------------------------------- MODULE Sleep --------------------------------
(***************************************************************************)
(* Sleeping and timers (time.rs): a thread sleeps an interval with         *)
(* nanosleep or clock_nanosleep, resuming after signals with the remaining *)
(* time; or it wakes periodically, by absolute deadlines as                *)
(* clock_nanosleep documents or by a repeating timerfd. Time is a counter  *)
(* of ticks; the wall clock is at an offset that may be set forward. The   *)
(* kernel wakes a thread at most Latency ticks late (external).            *)
(***************************************************************************)
EXTENDS Integers

CONSTANTS
    Interval,    \* the length of the sleep, and the period
    Latency,     \* scheduling latency, in ticks
    Work,        \* ticks a period's work may take
    MaxSignals,  \* bound on the signals that interrupt a sleep
    Jump,        \* how far the wall clock is set forward, once
    MaxTime      \* bound on the clock

VARIABLES
    mode,     \* "nanosleep", "relative", "periodic" or "timerfd"
    clock,    \* "monotonic" or "realtime"
    now,      \* CLOCK_MONOTONIC
    offset,   \* CLOCK_REALTIME - CLOCK_MONOTONIC
    pc,       \* "call", "asleep", "awake"; with a timerfd "armed", "off"
    until,    \* the end of the sleep: [clock, time]
    rem,      \* the caller's variable for the remaining time
    begin,    \* when the thread started (history)
    deadline, \* the periodic thread's next deadline, on its clock
    laps,     \* periods completed (history)
    signals,  \* interruptions so far
    timer     \* the timerfd: [next, interval, count]; next = 0: disarmed

vars == <<mode, clock, now, offset, pc, until, rem, begin, deadline, laps, signals, timer>>

Epoch == 5   \* CLOCK_REALTIME when CLOCK_MONOTONIC is 0
At(c, n, o) == IF c = "realtime" THEN n + o ELSE n
Time(c) == At(c, now, offset)

-----------------------------------------------------------------------------
(* The kernel. *)

\* A relative sleep counts ticks whatever its clock; an absolute one follows
\* the clock.
SleepUntil(c, abstime, t) ==
    IF abstime THEN [clock |-> c, time |-> t] ELSE [clock |-> "monotonic", time |-> now + t]

Due == Time(until.clock) >= until.time
TimeLeft == IF Due THEN 0 ELSE until.time - Time(until.clock)
Overdue == pc = "asleep" /\ Time(until.clock) >= until.time + Latency

\* The expirations of a timer from its next one until time t.
Expirations(tm, t) ==
    IF tm.next = 0 \/ t < tm.next THEN 0
    ELSE IF tm.interval = 0 THEN 1 ELSE (t - tm.next) \div tm.interval + 1

Expire(tm, t) ==
    LET n == Expirations(tm, t)
    IN  [next |-> IF n = 0 THEN tm.next ELSE IF tm.interval = 0 THEN 0
                  ELSE tm.next + n * tm.interval,
         interval |-> tm.interval, count |-> tm.count + n]

-----------------------------------------------------------------------------
(* time.rs. *)

TIMER_ABSTIME == 1
NoTimer == [next |-> 0, interval |-> 0, count |-> 0]

Init ==
    /\ mode \in {"nanosleep", "relative", "periodic", "timerfd"}
    /\ clock \in IF mode = "nanosleep" THEN {"monotonic"} ELSE {"monotonic", "realtime"}
    /\ now = 1 /\ offset = Epoch
    /\ pc = "call" /\ until = [clock |-> "monotonic", time |-> 0]
    /\ rem = 0 /\ begin = now
    /\ deadline = Time(clock) + Interval
    /\ laps = 0 /\ signals = 0
    /\ timer = NoTimer

Unchanged == UNCHANGED <<mode, clock, begin>>

\* Suspends the caller; the call ends with Wakes or Interrupted.
clock_nanosleep_relative(c, flags, req) == until' = SleepUntil(c, FALSE, req)

clock_nanosleep(c, flags, req) == until' = SleepUntil(c, flags = TIMER_ABSTIME, req)

nanosleep(req) == until' = SleepUntil("monotonic", FALSE, req)

\* EINTR: the time left goes to rem, except for an absolute sleep.
RemOnEintr_never == rem' = rem

RemOnEintr ==
    rem' = IF mode = "periodic" THEN rem ELSE TimeLeft

\* Returns the schedule in effect before; all zero disarms.
timerfd_settime(first, interval) ==
    timer' = Expire([next |-> first, interval |-> interval, count |-> 0], Time(clock))

\* The time until the next expiration, and the interval.
timerfd_gettime ==
    [it_value |-> IF timer.next = 0 THEN 0 ELSE timer.next - Time(clock),
     it_interval |-> timer.interval]

-----------------------------------------------------------------------------
(* The thread. *)

\* The interval, or after an interruption what is left of it.
SleepCall ==
    /\ pc = "call" /\ mode \in {"nanosleep", "relative"}
    /\ LET req == IF signals = 0 THEN Interval ELSE rem
       IN  IF mode = "nanosleep" THEN nanosleep(req) ELSE clock_nanosleep(clock, 0, req)
    /\ pc' = "asleep"
    /\ Unchanged /\ UNCHANGED <<now, offset, rem, deadline, laps, signals, timer>>

\* Each deadline is the last one plus the period; a signal does not change it.
PeriodicCall ==
    /\ pc = "call" /\ mode = "periodic"
    /\ clock_nanosleep(clock, TIMER_ABSTIME, deadline)
    /\ pc' = "asleep"
    /\ Unchanged /\ UNCHANGED <<now, offset, rem, deadline, laps, signals, timer>>

Arm ==
    /\ pc = "call" /\ mode = "timerfd"
    /\ timerfd_settime(deadline, Interval)
    /\ pc' = "armed"
    /\ Unchanged /\ UNCHANGED <<now, offset, until, rem, deadline, laps, signals>>

\* A read of 8 bytes: the expirations since the last read.
TimerRead ==
    /\ pc = "armed" /\ timer.count > 0
    /\ laps' = laps + timer.count
    /\ timer' = [timer EXCEPT !.count = 0]
    /\ Unchanged /\ UNCHANGED <<now, offset, pc, until, rem, deadline, signals>>

\* An all-zero schedule disarms; the expirations not yet read are forgotten.
Disarm ==
    /\ pc = "armed"
    /\ timerfd_settime(0, 0)
    /\ pc' = "off"
    /\ Unchanged /\ UNCHANGED <<now, offset, until, rem, deadline, laps, signals>>

Wakes ==
    /\ pc = "asleep" /\ Due
    /\ laps' = laps + 1
    /\ deadline' = deadline + Interval
    /\ pc' = "awake"
    /\ Unchanged /\ UNCHANGED <<now, offset, until, rem, signals, timer>>

Interrupted ==
    /\ pc = "asleep" /\ ~Due /\ signals < MaxSignals
    /\ RemOnEintr
    /\ signals' = signals + 1
    /\ pc' = "call"
    /\ Unchanged /\ UNCHANGED <<now, offset, until, deadline, laps, timer>>

\* The periodic thread's work for this period ends.
Again ==
    /\ pc = "awake" /\ mode = "periodic"
    /\ pc' = "call"
    /\ Unchanged /\ UNCHANGED <<now, offset, until, rem, deadline, laps, signals, timer>>

\* A running thread is not delayed for ever: calls take no time, work at most Work.
Tick ==
    /\ now < MaxTime /\ ~Overdue /\ pc # "call"
    /\ pc = "awake" => mode = "periodic" /\ Time(clock) - until.time < Latency + Work
    /\ now' = now + 1
    /\ timer' = IF mode = "timerfd" THEN Expire(timer, At(clock, now', offset)) ELSE timer
    /\ Unchanged /\ UNCHANGED <<offset, pc, until, rem, deadline, laps, signals>>

\* CLOCK_REALTIME is "settable; can jump".
SetClock ==
    /\ offset = Epoch
    /\ offset' = offset + Jump
    /\ timer' = IF mode = "timerfd" THEN Expire(timer, At(clock, now, offset')) ELSE timer
    /\ Unchanged /\ UNCHANGED <<now, pc, until, rem, deadline, laps, signals>>

Next ==
    \/ SleepCall \/ PeriodicCall \/ Arm \/ TimerRead \/ Disarm
    \/ Wakes \/ Interrupted \/ Again \/ Tick \/ SetClock

Spec == Init /\ [][Next]_vars

-----------------------------------------------------------------------------
(* Properties *)

\* nanosleep suspends "for at least the interval `req`", and after EINTR rem
\* lets "the caller ... resume": however often it is interrupted and resumed,
\* and whatever is done to the wall clock, the sleep is not over early, and at
\* most the latency late.
SleepsTheInterval ==
    mode \in {"nanosleep", "relative"} /\ pc = "awake" =>
        now - begin \in Interval..(Interval + Latency)

\* Absolute deadlines give "a drift-free periodic sleep": on the monotonic
\* clock the k-th wake-up is between k periods and k periods plus one latency
\* after the start, however late the earlier ones were and however often
\* signals interrupted them. A repeating timerfd has counted k expirations by
\* then too, none lost to a late read or a jump of its clock, and
\* timerfd_gettime gives the time left until the next one.
NoDrift ==
    /\ mode = "periodic" =>
          /\ deadline = begin + (IF clock = "realtime" THEN Epoch ELSE 0) + (laps + 1) * Interval
          /\ pc = "awake" => Time(clock) >= begin + laps * Interval
          /\ pc = "asleep" /\ clock = "monotonic" => now <= begin + (laps + 1) * Interval + Latency
    /\ mode = "timerfd" /\ pc = "armed" =>
          /\ laps + timer.count = (Time(clock) - deadline) \div Interval + 1
          /\ Time(clock) + timerfd_gettime.it_value = deadline + (laps + timer.count) * Interval
=============================================================================
