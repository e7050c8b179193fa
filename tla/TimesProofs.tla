----------------------------- MODULE TimesProofs -----------------------------
(***************************************************************************)
(* Theorems about Sleep and VdsoClock, each of its own specification: how  *)
(* long sleeps last, for any interval, latency, number of signals and      *)
(* setting of the clock; and what clock_gettime finds, calls and returns,  *)
(* for any vDSO image and number of threads.                               *)
(***************************************************************************)
EXTENDS Times, WellFoundedInduction, TLAPS

-----------------------------------------------------------------------------
(* Sleep. The invariant says where the end of a sleep lies while it lasts,  *)
(* which neither property mentions: an interval after the start, however    *)
(* often it was resumed; the next deadline; and for a timer, the expiration *)
(* that its count, read or not, has come to.                                *)

Calls == {"call", "asleep", "awake"}

TimeShape ==
    /\ mode \in {"nanosleep", "relative", "periodic", "timerfd"}
    /\ clock \in {"monotonic", "realtime"}
    /\ now \in Nat /\ offset \in Nat /\ begin \in Nat /\ rem \in Nat
    /\ deadline \in Nat /\ laps \in Nat /\ signals \in Nat
    /\ until \in [clock : {"monotonic", "realtime"}, time : Nat]
    /\ timer \in [next : Nat, interval : Nat, count : Nat]

\* A sleep of one interval ends an interval after it began.
Resumed ==
    mode \in {"nanosleep", "relative"} =>
        /\ spc \in Calls
        /\ spc = "call" => now + (IF signals = 0 THEN Interval ELSE rem) = begin + Interval
        /\ spc \in {"asleep", "awake"} =>
              /\ until = [clock |-> "monotonic", time |-> begin + Interval]
              /\ now <= begin + Interval + Latency
        /\ spc = "awake" => now >= begin + Interval

\* The clock's reading at the start of the first period.
Start == begin + (IF clock = "realtime" THEN S!Epoch ELSE 0)

\* An absolute sleep ends at the deadline, the work after it within a period.
OnTime ==
    mode = "periodic" =>
        /\ spc \in Calls
        /\ deadline = Start + (laps + 1) * Interval
        /\ spc = "asleep" => until = [clock |-> clock, time |-> deadline]
        /\ spc = "awake" =>
              /\ until = [clock |-> clock, time |-> deadline - Interval]
              /\ S!Time(clock) >= deadline - Interval
              /\ clock = "monotonic" => now <= deadline - Interval + Latency + Work
        /\ clock = "monotonic" /\ spc \in {"call", "asleep"} => now <= deadline + Latency

\* The next expiration is the first one after now, and the one that follows
\* those counted.
Counting ==
    mode = "timerfd" =>
        /\ spc \in {"call", "armed", "off"}
        /\ deadline > 0
        /\ S!Time(clock) >= deadline - Interval
        /\ spc = "call" => laps = 0
        /\ spc # "armed" => timer.next = 0
        /\ spc = "armed" =>
              /\ timer.interval = Interval
              /\ timer.next = deadline + (laps + timer.count) * Interval
              /\ S!Time(clock) < timer.next /\ S!Time(clock) >= timer.next - Interval

SleepInv == TimeShape /\ Resumed /\ OnTime /\ Counting

LEMMA DivBounds ==
  ASSUME NEW a \in Int, NEW b \in Nat \ {0}
  PROVE  a \div b \in Int /\ b * (a \div b) <= a /\ a < b * (a \div b) + b
OBVIOUS

LEMMA TimesMonotone ==
  ASSUME NEW b \in Nat \ {0}, NEW p \in Int, NEW q \in Int, p < q
  PROVE  b * p + b <= b * q
<1>1. b * (q - p - 1) \in Nat
  OBVIOUS
<1>2. b * (q - p - 1) = b * q - b * p - b
  OBVIOUS
<1>. QED  BY <1>1, <1>2

LEMMA DivUnique ==
  ASSUME NEW a \in Int, NEW b \in Nat \ {0}, NEW q \in Int, b * q <= a, a < b * q + b
  PROVE  a \div b = q
<1>. DEFINE d == a \div b
<1>1. d \in Int /\ b * d <= a /\ a < b * d + b
  BY DivBounds
<1>. HIDE DEF d
<1>2. ~(d < q) /\ ~(q < d)
  BY <1>1, TimesMonotone
<1>. QED  BY <1>1, <1>2 DEF d

\* A repeating timer whose last expiration is not after t expires until its
\* next one is the first after t.
LEMMA ExpireFacts ==
  ASSUME NEW x \in Nat \ {0}, NEW c \in Nat, NEW t \in Nat, x - Interval <= t
  PROVE  \E e \in Nat :
            /\ S!Expire([next |-> x, interval |-> Interval, count |-> c], t)
                 = [next |-> x + e * Interval, interval |-> Interval, count |-> c + e]
            /\ t < x + e * Interval /\ x + e * Interval - Interval <= t
<1>. DEFINE tm == [next |-> x, interval |-> Interval, count |-> c]
<1>0. /\ Interval \in Nat \ {0}
      /\ tm.next = x /\ tm.interval = Interval /\ tm.count = c
  BY TimesAssumption
<1>1. CASE t < x
  <2>1. S!Expirations(tm, t) = 0
    BY <1>0, <1>1 DEF S!Expirations
  <2>2. S!Expire(tm, t) = [next |-> x, interval |-> Interval, count |-> c + 0]
    BY <1>0, <2>1 DEF S!Expire
  <2>3. 0 * Interval = 0
    BY <1>0
  <2>. HIDE DEF tm
  <2>4. /\ S!Expire(tm, t) = [next |-> x + 0 * Interval, interval |-> Interval, count |-> c + 0]
        /\ t < x + 0 * Interval /\ x + 0 * Interval - Interval <= t
    BY <1>0, <1>1, <2>2, <2>3
  <2>. QED  BY <2>4 DEF tm
<1>2. CASE x <= t
  <2>. DEFINE q == (t - x) \div Interval
              e == q + 1
  <2>1. q \in Int /\ Interval * q <= t - x /\ t - x < Interval * q + Interval
    BY <1>0, DivBounds
  <2>2. S!Expirations(tm, t) = e
    BY <1>0, <1>2 DEF S!Expirations
  <2>. HIDE DEF tm, q
  <2>3. q >= 0
    <3>1. SUFFICES ASSUME q < 0 PROVE FALSE
      BY <2>1
    <3>2. Interval * q + Interval <= Interval * 0
      BY <1>0, <2>1, <3>1, TimesMonotone
    <3>. QED  BY <1>0, <1>2, <2>1, <3>2
  <2>4. e \in Nat /\ e # 0 /\ e * Interval = Interval * q + Interval
    BY <1>0, <2>1, <2>3
  <2>. HIDE DEF e
  <2>5. S!Expire(tm, t) = [next |-> x + e * Interval, interval |-> Interval, count |-> c + e]
    BY <1>0, <2>2, <2>4 DEF S!Expire
  <2>6. t < x + e * Interval /\ x + e * Interval - Interval <= t
    BY <1>0, <2>1, <2>4
  <2>. QED  BY <2>4, <2>5, <2>6 DEF tm
<1>3. t < x \/ x <= t
  OBVIOUS
<1>. QED  BY <1>1, <1>2, <1>3, Zenon

LEMMA SleepInit == S!Init => SleepInv
<1>. SUFFICES ASSUME S!Init PROVE SleepInv
  OBVIOUS
<1>1. /\ now = 1 /\ offset = 5 /\ spc = "call" /\ rem = 0 /\ begin = 1 /\ laps = 0 /\ signals = 0
      /\ deadline = S!Time(clock) + Interval
      /\ until = [clock |-> "monotonic", time |-> 0]
      /\ timer = [next |-> 0, interval |-> 0, count |-> 0]
      /\ mode \in {"nanosleep", "relative", "periodic", "timerfd"}
      /\ clock \in {"monotonic", "realtime"}
  BY DEF S!Init, S!Epoch, S!NoTimer
<1>2. S!Time(clock) = Start /\ Start \in Nat /\ S!Time(clock) \in Nat \ {0}
  BY <1>1 DEF S!Time, S!At, Start, S!Epoch
<1>3. TimeShape
  BY <1>1, <1>2, TimesAssumption DEF TimeShape
<1>4. Resumed
  BY <1>1, TimesAssumption DEF Resumed, Calls
<1>5. OnTime
  <2>1. (0 + 1) * Interval = Interval
    BY TimesAssumption
  <2>2. clock = "monotonic" => now <= deadline + Latency
    BY <1>1, TimesAssumption DEF S!Time, S!At
  <2>. QED  BY <1>1, <1>2, <2>1, <2>2 DEF OnTime, Calls
<1>6. Counting
  BY <1>1, <1>2, TimesAssumption DEF Counting
<1>. QED  BY <1>3, <1>4, <1>5, <1>6 DEF SleepInv

\* A timer that is not armed does not expire.
LEMMA DisarmedStays ==
  ASSUME NEW t \in Nat, timer \in [next : Nat, interval : Nat, count : Nat], timer.next = 0
  PROVE  S!Expire(timer, t) = timer
<1>1. S!Expirations(timer, t) = 0
  BY DEF S!Expirations
<1>2. S!Expire(timer, t) = [next |-> timer.next, interval |-> timer.interval, count |-> timer.count]
  BY <1>1 DEF S!Expire
<1>. QED  BY <1>2

\* An armed timer stays in step with its clock when the clock moves on to t.
LEMMA ArmedMoves ==
  ASSUME SleepInv, mode = "timerfd", spc = "armed", NEW t \in Nat, S!Time(clock) <= t
  PROVE  LET tm == S!Expire(timer, t)
         IN  /\ tm \in [next : Nat, interval : Nat, count : Nat]
             /\ tm.interval = Interval
             /\ tm.next = deadline + (laps + tm.count) * Interval
             /\ t < tm.next /\ t >= tm.next - Interval
<1>. DEFINE x == timer.next  c == timer.count
<1>1. /\ Interval \in Nat \ {0} /\ deadline \in Nat /\ laps \in Nat /\ c \in Nat /\ x \in Nat
      /\ timer = [next |-> x, interval |-> Interval, count |-> c]
      /\ x = deadline + (laps + c) * Interval
      /\ S!Time(clock) < x /\ S!Time(clock) >= x - Interval
      /\ S!Time(clock) \in Nat
  BY TimesAssumption DEF SleepInv, TimeShape, Counting, S!Time, S!At
<1>. HIDE DEF x, c
<1>a. x \in Nat \ {0} /\ x - Interval <= t
  BY <1>1
<1>2. PICK e \in Nat :
            /\ S!Expire([next |-> x, interval |-> Interval, count |-> c], t)
                 = [next |-> x + e * Interval, interval |-> Interval, count |-> c + e]
            /\ t < x + e * Interval /\ x + e * Interval - Interval <= t
  BY <1>1, <1>a, ExpireFacts
<1>3. (laps + (c + e)) * Interval = (laps + c) * Interval + e * Interval
      /\ e * Interval \in Nat
  BY <1>1
<1>4. S!Expire(timer, t) = [next |-> x + e * Interval, interval |-> Interval, count |-> c + e]
  BY <1>1, <1>2
<1>. QED  BY <1>1, <1>2, <1>3, <1>4

LEMMA SleepCallStep == SleepInv /\ S!SleepCall => SleepInv'
<1>. SUFFICES ASSUME SleepInv, S!SleepCall PROVE SleepInv'
  OBVIOUS
<1>. USE TimesAssumption
<1>1. mode \in {"nanosleep", "relative"} /\ spc = "call" /\ TimeShape /\ Resumed
  BY DEF SleepInv, S!SleepCall
<1>2. UNCHANGED <<mode, clock, begin, now, offset, rem, deadline, laps, signals, timer>>
      /\ spc' = "asleep"
  BY DEF S!SleepCall, S!Unchanged
<1>3. until' = [clock |-> "monotonic", time |-> now + (IF signals = 0 THEN Interval ELSE rem)]
  BY <1>1 DEF S!SleepCall, S!nanosleep, S!clock_nanosleep, S!SleepUntil, S!TIMER_ABSTIME
<1>4. until' = [clock |-> "monotonic", time |-> begin + Interval]
  BY <1>1, <1>3 DEF Resumed
<1>5. TimeShape'
  BY <1>1, <1>2, <1>4 DEF TimeShape
<1>6. Resumed'
  BY <1>1, <1>2, <1>4 DEF Resumed, TimeShape, Calls
<1>. QED  BY <1>1, <1>2, <1>5, <1>6 DEF SleepInv, OnTime, Counting

LEMMA PeriodicCallStep == SleepInv /\ S!PeriodicCall => SleepInv'
<1>. SUFFICES ASSUME SleepInv, S!PeriodicCall PROVE SleepInv'
  OBVIOUS
<1>1. mode = "periodic" /\ spc = "call" /\ TimeShape /\ OnTime
  BY DEF SleepInv, S!PeriodicCall
<1>2. UNCHANGED <<mode, clock, begin, now, offset, rem, deadline, laps, signals, timer>>
      /\ spc' = "asleep"
  BY DEF S!PeriodicCall, S!Unchanged
<1>3. until' = [clock |-> clock, time |-> deadline]
  BY DEF S!PeriodicCall, S!clock_nanosleep, S!SleepUntil, S!TIMER_ABSTIME
<1>4. TimeShape'
  BY <1>1, <1>2, <1>3 DEF TimeShape
<1>5. OnTime'
  BY <1>1, <1>2, <1>3 DEF OnTime, Calls, Start
<1>. QED  BY <1>1, <1>2, <1>4, <1>5 DEF SleepInv, Resumed, Counting

\* Armed at a deadline of at most one period ahead, or long past it.
LEMMA ArmStep == SleepInv /\ S!Arm => SleepInv'
<1>. SUFFICES ASSUME SleepInv, S!Arm PROVE SleepInv'
  OBVIOUS
<1>1. mode = "timerfd" /\ spc = "call" /\ TimeShape /\ Counting
  BY DEF SleepInv, S!Arm
<1>2. UNCHANGED <<mode, clock, begin, now, offset, until, rem, deadline, laps, signals>>
      /\ spc' = "armed"
  BY DEF S!Arm, S!Unchanged
<1>3. /\ deadline \in Nat \ {0} /\ S!Time(clock) \in Nat /\ S!Time(clock)' = S!Time(clock)
      /\ deadline - Interval <= S!Time(clock) /\ laps = 0 /\ Interval \in Nat \ {0}
  BY <1>1, <1>2, TimesAssumption DEF TimeShape, Counting, S!Time, S!At
<1>4. PICK e \in Nat :
            /\ S!Expire([next |-> deadline, interval |-> Interval, count |-> 0], S!Time(clock))
                 = [next |-> deadline + e * Interval, interval |-> Interval, count |-> 0 + e]
            /\ S!Time(clock) < deadline + e * Interval
            /\ deadline + e * Interval - Interval <= S!Time(clock)
  BY <1>3, ExpireFacts
<1>5. timer' = [next |-> deadline + e * Interval, interval |-> Interval, count |-> e]
  BY <1>3, <1>4 DEF S!Arm, S!timerfd_settime
<1>6. e * Interval \in Nat /\ laps + e = e
  BY <1>3
<1>7. TimeShape'
  BY <1>1, <1>2, <1>3, <1>5, <1>6 DEF TimeShape
<1>8. Counting'
  BY <1>1, <1>2, <1>3, <1>4, <1>5, <1>6 DEF Counting
<1>. QED  BY <1>1, <1>2, <1>7, <1>8 DEF SleepInv, Resumed, OnTime

\* A read moves the count into laps.
LEMMA TimerReadStep == SleepInv /\ S!TimerRead => SleepInv'
<1>. SUFFICES ASSUME SleepInv, S!TimerRead PROVE SleepInv'
  OBVIOUS
<1>1. spc = "armed" /\ TimeShape /\ Resumed /\ OnTime /\ Counting
  BY DEF SleepInv, S!TimerRead
<1>2. mode = "timerfd"
  BY <1>1 DEF TimeShape, Resumed, OnTime, Calls
<1>3. UNCHANGED <<mode, clock, begin, now, offset, spc, until, rem, deadline, signals>>
  BY DEF S!TimerRead, S!Unchanged
<1>4. laps' = laps + timer.count
      /\ timer' = [next |-> timer.next, interval |-> timer.interval, count |-> 0]
  BY <1>1 DEF S!TimerRead, TimeShape
<1>5. TimeShape'
  BY <1>1, <1>3, <1>4 DEF TimeShape
<1>6. Counting'
  <2>1. S!Time(clock)' = S!Time(clock)
    BY <1>3 DEF S!Time, S!At
  <2>2. laps' + timer'.count = laps + timer.count
    BY <1>1, <1>4 DEF TimeShape
  <2>. QED  BY <1>1, <1>2, <1>3, <1>4, <2>1, <2>2 DEF Counting
<1>. QED  BY <1>2, <1>3, <1>5, <1>6 DEF SleepInv, Resumed, OnTime

LEMMA DisarmStep == SleepInv /\ S!Disarm => SleepInv'
<1>. SUFFICES ASSUME SleepInv, S!Disarm PROVE SleepInv'
  OBVIOUS
<1>1. spc = "armed" /\ TimeShape /\ Resumed /\ OnTime /\ Counting
  BY DEF SleepInv, S!Disarm
<1>2. mode = "timerfd"
  BY <1>1 DEF TimeShape, Resumed, OnTime, Calls
<1>3. UNCHANGED <<mode, clock, begin, now, offset, until, rem, deadline, laps, signals>>
      /\ spc' = "off"
  BY DEF S!Disarm, S!Unchanged
<1>4. timer' = [next |-> 0, interval |-> 0, count |-> 0]
  BY DEF S!Disarm, S!timerfd_settime, S!Expire, S!Expirations
<1>5. TimeShape'
  BY <1>1, <1>3, <1>4 DEF TimeShape
<1>6. Counting'
  BY <1>1, <1>2, <1>3, <1>4 DEF Counting, S!Time, S!At
<1>. QED  BY <1>2, <1>3, <1>5, <1>6 DEF SleepInv, Resumed, OnTime

LEMMA WakesStep == SleepInv /\ S!Wakes => SleepInv'
<1>. SUFFICES ASSUME SleepInv, S!Wakes PROVE SleepInv'
  OBVIOUS
<1>. USE TimesAssumption
<1>1. spc = "asleep" /\ S!Due /\ TimeShape /\ Resumed /\ OnTime /\ Counting
  BY DEF SleepInv, S!Wakes
<1>2. mode # "timerfd"
  BY <1>1 DEF Counting
<1>3. UNCHANGED <<mode, clock, begin, now, offset, until, rem, signals, timer>>
      /\ spc' = "awake" /\ laps' = laps + 1 /\ deadline' = deadline + Interval
  BY DEF S!Wakes, S!Unchanged
<1>4. TimeShape'
  BY <1>1, <1>3 DEF TimeShape
<1>5. Resumed'
  BY <1>1, <1>3 DEF Resumed, TimeShape, Calls, S!Due, S!Time, S!At
<1>6. OnTime'
  <2>. SUFFICES ASSUME mode = "periodic" PROVE OnTime'
    BY <1>3 DEF OnTime
  <2>1. /\ deadline = Start + (laps + 1) * Interval /\ Start \in Nat /\ Start' = Start
        /\ until = [clock |-> clock, time |-> deadline] /\ deadline' - Interval = deadline
    BY <1>1, <1>3 DEF OnTime, TimeShape, Start, S!Epoch
  <2>2. (laps + 1 + 1) * Interval = (laps + 1) * Interval + Interval
    BY <1>1 DEF TimeShape
  <2>3. deadline' = Start' + (laps' + 1) * Interval
    BY <1>1, <1>3, <2>1, <2>2 DEF TimeShape
  <2>4. S!Time(clock)' = S!Time(clock) /\ S!Time(clock) >= deadline
    BY <1>1, <1>3, <2>1 DEF S!Due, S!Time, S!At
  <2>5. clock = "monotonic" => now <= deadline + Latency + Work
    BY <1>1 DEF OnTime, TimeShape
  <2>. QED  BY <1>3, <2>1, <2>3, <2>4, <2>5 DEF OnTime, Calls
<1>. QED  BY <1>2, <1>3, <1>4, <1>5, <1>6 DEF SleepInv, Counting

\* What is left goes to rem, so that the resumed sleep ends where this one did.
LEMMA InterruptedStep == SleepInv /\ S!Interrupted => SleepInv'
<1>. SUFFICES ASSUME SleepInv, S!Interrupted PROVE SleepInv'
  OBVIOUS
<1>. USE TimesAssumption
<1>1. spc = "asleep" /\ ~S!Due /\ TimeShape /\ Resumed /\ OnTime /\ Counting
  BY DEF SleepInv, S!Interrupted
<1>2. mode # "timerfd"
  BY <1>1 DEF Counting
<1>3. UNCHANGED <<mode, clock, begin, now, offset, until, deadline, laps, timer>>
      /\ spc' = "call" /\ signals' = signals + 1
  BY DEF S!Interrupted, S!Unchanged
<1>4. rem' = IF mode = "periodic" THEN rem ELSE until.time - S!Time(until.clock)
  BY <1>1 DEF S!Interrupted, S!RemOnEintr, S!TimeLeft
<1>5. ~(S!Time(until.clock) >= until.time) /\ S!Time(until.clock) \in Nat /\ until.time \in Nat
  BY <1>1 DEF S!Due, TimeShape, S!Time, S!At
<1>6. rem' \in Nat
  BY <1>1, <1>4, <1>5 DEF TimeShape
<1>7. TimeShape'
  BY <1>1, <1>3, <1>6 DEF TimeShape
<1>8. Resumed'
  <2>. SUFFICES ASSUME mode \in {"nanosleep", "relative"} PROVE Resumed'
    BY <1>3 DEF Resumed
  <2>1. until = [clock |-> "monotonic", time |-> begin + Interval] /\ S!Time(until.clock) = now
    BY <1>1 DEF Resumed, S!Time, S!At
  <2>2. now' + rem' = begin' + Interval /\ signals' # 0
    BY <1>1, <1>3, <1>4, <2>1 DEF TimeShape
  <2>. QED  BY <1>3, <2>2 DEF Resumed, Calls
<1>9. OnTime'
  BY <1>1, <1>3 DEF OnTime, Calls, Start
<1>. QED  BY <1>2, <1>3, <1>7, <1>8, <1>9 DEF SleepInv, Counting

\* The work fits into the period, so that the next call is in time again.
LEMMA AgainStep == SleepInv /\ S!Again => SleepInv'
<1>. SUFFICES ASSUME SleepInv, S!Again PROVE SleepInv'
  OBVIOUS
<1>1. mode = "periodic" /\ spc = "awake" /\ TimeShape /\ OnTime
  BY DEF SleepInv, S!Again
<1>2. UNCHANGED <<mode, clock, begin, now, offset, until, rem, deadline, laps, signals, timer>>
      /\ spc' = "call"
  BY DEF S!Again, S!Unchanged
<1>3. TimeShape'
  BY <1>1, <1>2 DEF TimeShape
<1>4. clock = "monotonic" => now <= deadline + Latency
  BY <1>1, TimesAssumption DEF OnTime, TimeShape
<1>5. OnTime'
  BY <1>1, <1>2, <1>4 DEF OnTime, Calls, Start
<1>. QED  BY <1>1, <1>2, <1>3, <1>5 DEF SleepInv, Resumed, Counting

\* The timer when its clock moves on, by a tick or by being set.
LEMMA TimerMoves ==
  ASSUME SleepInv, NEW t \in Nat, S!Time(clock) <= t,
         timer' = IF mode = "timerfd" THEN S!Expire(timer, t) ELSE timer,
         S!Time(clock)' = t,
         UNCHANGED <<mode, clock, spc, deadline, laps>>
  PROVE  timer' \in [next : Nat, interval : Nat, count : Nat] /\ Counting'
<1>1. TimeShape /\ Counting
  BY DEF SleepInv
<1>2. S!Time(clock) \in Nat /\ deadline \in Nat /\ Interval \in Nat
  BY <1>1, TimesAssumption DEF TimeShape, S!Time, S!At
<1>3. CASE mode # "timerfd"
  BY <1>1, <1>3 DEF TimeShape, Counting
<1>4. CASE mode = "timerfd" /\ spc # "armed"
  <2>1. timer' = timer
    BY <1>1, <1>4, DisarmedStays DEF TimeShape, Counting
  <2>. QED  BY <1>1, <1>2, <1>4, <2>1 DEF TimeShape, Counting
<1>5. CASE mode = "timerfd" /\ spc = "armed"
  <2>1. timer' = S!Expire(timer, t)
    BY <1>5
  <2>2. /\ timer' \in [next : Nat, interval : Nat, count : Nat]
        /\ timer'.interval = Interval
        /\ timer'.next = deadline + (laps + timer'.count) * Interval
        /\ t < timer'.next /\ t >= timer'.next - Interval
    BY <1>5, <2>1, ArmedMoves
  <2>. QED  BY <1>1, <1>2, <1>5, <2>2 DEF Counting
<1>. QED  BY <1>3, <1>4, <1>5

\* The kernel wakes a sleeper before the latency is over.
LEMMA TickStep == SleepInv /\ S!Tick => SleepInv'
<1>. SUFFICES ASSUME SleepInv, S!Tick PROVE SleepInv'
  OBVIOUS
<1>. USE TimesAssumption
<1>1. TimeShape /\ Resumed /\ OnTime /\ Counting /\ spc # "call"
  BY DEF SleepInv, S!Tick
<1>2. UNCHANGED <<mode, clock, begin, offset, spc, until, rem, deadline, laps, signals>>
      /\ now' = now + 1
  BY DEF S!Tick, S!Unchanged
<1>3. /\ spc = "asleep" => ~(S!Time(until.clock) >= until.time + Latency)
      /\ spc = "awake" => mode = "periodic" /\ S!Time(clock) - until.time < Latency + Work
  BY DEF S!Tick, S!Overdue
<1>. DEFINE t == S!At(clock, now', offset)
<1>4. t \in Nat /\ t = S!Time(clock) + 1 /\ S!Time(clock)' = t /\ S!Time(clock) \in Nat
  BY <1>1, <1>2 DEF TimeShape, S!Time, S!At
<1>5. timer' = IF mode = "timerfd" THEN S!Expire(timer, t) ELSE timer
  BY DEF S!Tick
<1>. HIDE DEF t
<1>6. timer' \in [next : Nat, interval : Nat, count : Nat] /\ Counting'
  BY <1>2, <1>4, <1>5, TimerMoves
<1>7. TimeShape'
  BY <1>1, <1>2, <1>6 DEF TimeShape
<1>8. Resumed'
  <2>. SUFFICES ASSUME mode \in {"nanosleep", "relative"} PROVE Resumed'
    BY <1>2 DEF Resumed
  <2>1. spc = "asleep" /\ until = [clock |-> "monotonic", time |-> begin + Interval]
    BY <1>1, <1>3 DEF Resumed, Calls
  <2>2. now < begin + Interval + Latency
    BY <1>1, <1>3, <2>1 DEF TimeShape, S!Time, S!At
  <2>3. now' <= begin' + Interval + Latency
    BY <1>1, <1>2, <2>2 DEF TimeShape
  <2>. QED  BY <1>2, <2>1, <2>3 DEF Resumed, Calls
<1>9. OnTime'
  <2>. SUFFICES ASSUME mode = "periodic" PROVE OnTime'
    BY <1>2 DEF OnTime
  <2>1. spc \in {"asleep", "awake"} /\ Start' = Start
    BY <1>1, <1>2 DEF OnTime, Calls, Start
  <2>2. CASE spc = "asleep"
    <3>1. until = [clock |-> clock, time |-> deadline]
      BY <1>1, <2>2 DEF OnTime
    <3>2. clock = "monotonic" => now < deadline + Latency
      BY <1>1, <1>3, <2>2, <3>1 DEF TimeShape, S!Time, S!At
    <3>3. clock = "monotonic" => now' <= deadline' + Latency
      BY <1>1, <1>2, <3>2 DEF TimeShape
    <3>. QED  BY <1>1, <1>2, <2>1, <2>2, <3>3 DEF OnTime, Calls
  <2>3. CASE spc = "awake"
    <3>1. until = [clock |-> clock, time |-> deadline - Interval]
          /\ S!Time(clock) >= deadline - Interval
      BY <1>1, <2>3 DEF OnTime
    <3>2. clock = "monotonic" => now - (deadline - Interval) < Latency + Work
      BY <1>3, <2>3, <3>1 DEF S!Time, S!At
    <3>3. clock = "monotonic" => now' <= deadline' - Interval + Latency + Work
      BY <1>1, <1>2, <3>2 DEF TimeShape
    <3>4. S!Time(clock)' >= deadline' - Interval
      BY <1>1, <1>2, <1>4, <3>1 DEF TimeShape
    <3>. QED  BY <1>1, <1>2, <2>1, <2>3, <3>3, <3>4 DEF OnTime, Calls
  <2>. QED  BY <2>1, <2>2, <2>3
<1>. QED  BY <1>6, <1>7, <1>8, <1>9 DEF SleepInv

\* Setting the wall clock forward moves no sleep that counts the ticks.
LEMMA SetClockStep == SleepInv /\ S!SetClock => SleepInv'
<1>. SUFFICES ASSUME SleepInv, S!SetClock PROVE SleepInv'
  OBVIOUS
<1>. USE TimesAssumption
<1>1. TimeShape /\ Resumed /\ OnTime /\ Counting
  BY DEF SleepInv
<1>2. UNCHANGED <<mode, clock, begin, now, spc, until, rem, deadline, laps, signals>>
      /\ offset' = offset + Jump
  BY DEF S!SetClock, S!Unchanged
<1>. DEFINE t == S!At(clock, now, offset')
<1>3. t \in Nat /\ S!Time(clock) <= t /\ S!Time(clock)' = t /\ S!Time(clock) \in Nat
  BY <1>1, <1>2 DEF TimeShape, S!Time, S!At
<1>4. timer' = IF mode = "timerfd" THEN S!Expire(timer, t) ELSE timer
  BY DEF S!SetClock
<1>. HIDE DEF t
<1>5. timer' \in [next : Nat, interval : Nat, count : Nat] /\ Counting'
  BY <1>2, <1>3, <1>4, TimerMoves
<1>6. TimeShape'
  BY <1>1, <1>2, <1>5 DEF TimeShape
<1>7. Resumed'
  BY <1>1, <1>2 DEF Resumed, Calls
<1>8. OnTime'
  <2>1. spc = "awake" /\ mode = "periodic" => S!Time(clock)' >= deadline - Interval
    BY <1>1, <1>3 DEF OnTime, TimeShape
  <2>. QED  BY <1>1, <1>2, <2>1 DEF OnTime, Calls, Start
<1>. QED  BY <1>5, <1>6, <1>7, <1>8 DEF SleepInv

LEMMA SleepInvHolds == S!Spec => []SleepInv
<1>1. SleepInv /\ [S!Next]_S!vars => SleepInv'
  <2>. SUFFICES ASSUME SleepInv, [S!Next]_S!vars PROVE SleepInv'
    OBVIOUS
  <2>1. CASE UNCHANGED S!vars
    BY <2>1 DEF S!vars, SleepInv, TimeShape, Resumed, Start, OnTime, Counting, S!Time, S!At
  <2>2. CASE S!Next
    BY <2>2, SleepCallStep, PeriodicCallStep, ArmStep, TimerReadStep, DisarmStep, WakesStep,
       InterruptedStep, AgainStep, TickStep, SetClockStep DEF S!Next
  <2>. QED  BY <2>1, <2>2
<1>. QED  BY <1>1, SleepInit, PTL DEF S!Spec

\* nanosleep and a relative clock_nanosleep, resumed with rem after every
\* EINTR: for every interval, latency and number of signals the sleep is not
\* over early and at most one latency late, and a jump of the wall clock does
\* not change that.
THEOREM SleepsInterval == S!Spec => []SleepsTheInterval
<1>1. SleepInv => SleepsTheInterval
  BY TimesAssumption
     DEF SleepInv, TimeShape, Resumed, Calls, SleepsTheInterval, S!SleepsTheInterval
<1>. QED  BY <1>1, SleepInvHolds, PTL

\* Absolute deadlines and a repeating timerfd do not drift: for every period,
\* latency and jump of the clock, as long as a period's work fits into it.
THEOREM DriftFree == S!Spec => []NoDrift
<1>1. ASSUME SleepInv PROVE NoDrift
  <2>. USE TimesAssumption
  <2>1. TimeShape /\ OnTime /\ Counting
    BY <1>1 DEF SleepInv
  <2>2. ASSUME mode = "periodic"
        PROVE  /\ deadline = begin + (IF clock = "realtime" THEN S!Epoch ELSE 0)
                             + (laps + 1) * Interval
               /\ spc = "awake" => S!Time(clock) >= begin + laps * Interval
               /\ spc = "asleep" /\ clock = "monotonic"
                    => now <= begin + (laps + 1) * Interval + Latency
    <3>1. deadline = Start + (laps + 1) * Interval
      BY <2>1, <2>2 DEF OnTime
    <3>2. (laps + 1) * Interval = laps * Interval + Interval /\ laps * Interval \in Nat
      BY <2>1 DEF TimeShape
    <3>3. Start \in Nat /\ begin <= Start /\ (clock = "monotonic" => Start = begin)
      BY <2>1 DEF Start, S!Epoch, TimeShape
    <3>4. S!Time(clock) \in Nat
      BY <2>1 DEF TimeShape, S!Time, S!At
    <3>5. spc = "awake" => S!Time(clock) >= begin + laps * Interval
      BY <2>1, <2>2, <3>1, <3>2, <3>3, <3>4 DEF OnTime, TimeShape
    <3>6. spc = "asleep" /\ clock = "monotonic"
            => now <= begin + (laps + 1) * Interval + Latency
      BY <2>1, <2>2, <3>1, <3>3 DEF OnTime, TimeShape
    <3>. QED  BY <3>1, <3>5, <3>6 DEF Start
  <2>3. ASSUME mode = "timerfd", spc = "armed"
        PROVE  /\ laps + timer.count = (S!Time(clock) - deadline) \div Interval + 1
               /\ S!Time(clock) + S!timerfd_gettime.it_value
                    = deadline + (laps + timer.count) * Interval
    <3>. DEFINE n == laps + timer.count  t == S!Time(clock)
    <3>1. /\ n \in Nat /\ t \in Nat /\ deadline \in Nat
          /\ timer.next = deadline + n * Interval /\ timer.next \in Nat
          /\ t < timer.next /\ t >= timer.next - Interval
      BY <2>1, <2>3 DEF TimeShape, Counting, S!Time, S!At
    <3>2. S!timerfd_gettime.it_value = timer.next - t
      BY <3>1 DEF S!timerfd_gettime
    <3>. HIDE DEF n, t
    <3>3. Interval * (n - 1) = n * Interval - Interval
      BY <3>1
    <3>4. (t - deadline) \div Interval = n - 1
      BY <3>1, <3>3, DivUnique
    <3>5. /\ n = (t - deadline) \div Interval + 1
          /\ t + S!timerfd_gettime.it_value = deadline + n * Interval
      BY <3>1, <3>2, <3>4
    <3>. QED  BY <3>5 DEF n, t
  <2>. QED  BY <2>2, <2>3 DEF NoDrift, S!NoDrift
<1>. QED  BY <1>1, SleepInvHolds, PTL

-----------------------------------------------------------------------------
(* VdsoClock. *)

LEMMA BaseIsNat == V!Base \in Nat /\ V!Base + 100 # 0 /\ V!Base + 200 # 0 /\ V!Base + 300 # 0
  BY SMT DEF V!Base

\* The least of a set of numbers is the one First finds, the greatest Last.
LEMMA FirstIs ==
  ASSUME NEW I \in SUBSET Nat, NEW i \in I, \A j \in I : i <= j
  PROVE  V!First(I) = i
<1>1. \A k \in I : (\A j \in I : k <= j) => k = i
  OBVIOUS
<1>. QED  BY <1>1 DEF V!First

LEMMA LastIs ==
  ASSUME NEW I \in SUBSET Nat, NEW i \in I, \A j \in I : j <= i
  PROVE  V!Last(I) = i
<1>1. \A k \in I : (\A j \in I : j <= k) => k = i
  OBVIOUS
<1>. QED  BY <1>1 DEF V!Last

\* vdso_base finds the image's base if the vector has it.
LEMMA BaseFound ==
  ASSUME NEW d \in Images
  PROVE  V!vdso_base(V!Auxv(d)) = IF d.mapped THEN V!Base ELSE V!None
<1>. DEFINE a == V!Auxv(d)
            I == {k \in 1..Len(a) : a[k].key \in {V!AT_SYSINFO_EHDR, V!AT_NULL}}
<1>1. /\ Len(a) = 4 /\ a[1].key = 3
      /\ a[2].key = IF d.mapped THEN 33 ELSE 6
      /\ d.mapped => a[2].val = V!Base
      /\ a[3].key = 0
  BY DEF V!Auxv, V!AT_SYSINFO_EHDR, V!AT_NULL
<1>. HIDE DEF a
<1>2. I \in SUBSET Nat /\ 1 \notin I /\ 3 \in I /\ (2 \in I <=> d.mapped)
  BY <1>1 DEF V!AT_SYSINFO_EHDR, V!AT_NULL
<1>3. \A k \in I : k \in Nat /\ k >= 2 /\ (~d.mapped => k >= 3)
  BY <1>2
<1>4. V!First(I) = IF d.mapped THEN 2 ELSE 3
  <2>. HIDE DEF I
  <2>. QED  BY <1>2, <1>3, FirstIs
<1>5. V!vdso_base(a) = IF V!First(I) # 0 /\ a[V!First(I)].key = V!AT_SYSINFO_EHDR
                       THEN a[V!First(I)].val ELSE V!None
  BY DEF V!vdso_base
<1>. HIDE DEF I
<1>6. V!vdso_base(a) = IF d.mapped THEN V!Base ELSE V!None
  BY <1>1, <1>4, <1>5 DEF V!AT_SYSINFO_EHDR
<1>. QED  BY <1>6 DEF a

\* The dynamic table is read up to DT_NULL.
LEMMA EntriesFound ==
  ASSUME NEW dyn, NEW h \in BOOLEAN, NEW base, NEW off, Len(dyn) = 5,
         dyn[1].tag = 5, dyn[2].tag = 6, dyn[3].tag = IF h THEN 4 ELSE 7, dyn[4].tag = 0
  PROVE  /\ V!DynamicEntry(dyn, V!DT_STRTAB, base, off) = V!reloc(base, off, dyn[1].val)
         /\ V!DynamicEntry(dyn, V!DT_SYMTAB, base, off) = V!reloc(base, off, dyn[2].val)
         /\ V!DynamicEntry(dyn, V!DT_HASH, base, off)
              = IF h THEN V!reloc(base, off, dyn[3].val) ELSE V!None
<1>. DEFINE N == {k \in 1..Len(dyn) : dyn[k].tag = V!DT_NULL}
            T(tag, end) == {k \in 1..(end - 1) : dyn[k].tag = tag}
<1>1. V!First(N) = 4
  <2>1. N \in SUBSET Nat /\ 4 \in N /\ \A k \in N : 4 <= k
    BY DEF V!DT_NULL
  <2>. HIDE DEF N
  <2>. QED  BY <2>1, FirstIs
<1>2. ASSUME NEW tag
      PROVE  V!DynamicEntry(dyn, tag, base, off)
               = IF V!Last(T(tag, 4)) = 0 THEN V!None
                 ELSE V!reloc(base, off, dyn[V!Last(T(tag, 4))].val)
  <2>1. V!DynamicEntry(dyn, tag, base, off)
          = IF V!Last(T(tag, V!First(N))) = 0 THEN V!None
            ELSE V!reloc(base, off, dyn[V!Last(T(tag, V!First(N)))].val)
    BY DEF V!DynamicEntry
  <2>. HIDE DEF N, T
  <2>. QED  BY <1>1, <2>1
<1>3. V!Last(T(V!DT_STRTAB, 4)) = 1
  <2>. DEFINE I == T(V!DT_STRTAB, 4)
  <2>1. I \in SUBSET Nat /\ 1 \in I /\ \A k \in I : k <= 1
    BY DEF V!DT_STRTAB
  <2>. HIDE DEF I
  <2>. QED  BY <2>1, LastIs DEF I
<1>4. V!Last(T(V!DT_SYMTAB, 4)) = 2
  <2>. DEFINE I == T(V!DT_SYMTAB, 4)
  <2>1. I \in SUBSET Nat /\ 2 \in I /\ \A k \in I : k <= 2
    BY DEF V!DT_SYMTAB
  <2>. HIDE DEF I
  <2>. QED  BY <2>1, LastIs DEF I
<1>5. V!Last(T(V!DT_HASH, 4)) = IF h THEN 3 ELSE 0
  <2>. DEFINE I == T(V!DT_HASH, 4)
  <2>1. h => I \in SUBSET Nat /\ 3 \in I /\ \A k \in I : k <= 3
    BY DEF V!DT_HASH
  <2>2. ~h => I = {}
    BY DEF V!DT_HASH
  <2>3. ~h => V!Last(I) = 0
    BY <2>2 DEF V!Last
  <2>. HIDE DEF I
  <2>4. h => V!Last(I) = 3
    BY <2>1, LastIs
  <2>. QED  BY <2>3, <2>4 DEF I
<1>. HIDE DEF T
<1>. QED  BY <1>2, <1>3, <1>4, <1>5

\* Where a linked image has what.
LEMMA LinkedImage ==
  ASSUME NEW d \in Images
  PROVE  /\ V!ValidHeader(V!Link(d)) <=> d.class = 2 /\ d.machine = V!E_MACHINE
         /\ Len(V!Link(d).phdrs) = 3
         /\ V!Link(d).phdrs[1].p_type = V!PT_DYNAMIC /\ V!Link(d).phdrs[1].p_offset = 400
         /\ V!Link(d).phdrs[2].p_type = V!PT_LOAD /\ V!Link(d).phdrs[2].p_offset = 0
         /\ V!Link(d).phdrs[2].p_vaddr = d.linked
         /\ V!Link(d).phdrs[3].p_type = V!PT_LOAD
         /\ V!TableAt(V!Link(d).tables, V!Base + 100) = V!Hash(d)
         /\ V!TableAt(V!Link(d).tables, V!Base + 200) = V!Symbols(d)
         /\ V!TableAt(V!Link(d).tables, V!Base + 300) = V!Strings(d)
         /\ V!TableAt(V!Link(d).tables, V!Base + 400) = V!Dynamic(d)
<1>1. V!ValidHeader(V!Link(d)) <=> d.class = 2 /\ d.machine = V!E_MACHINE
  BY DEF V!ValidHeader, V!Link
<1>2. V!Link(d).phdrs = <<[p_type |-> V!PT_DYNAMIC, p_offset |-> 400, p_vaddr |-> d.linked + 400],
                          [p_type |-> V!PT_LOAD, p_offset |-> 0, p_vaddr |-> d.linked],
                          [p_type |-> V!PT_LOAD, p_offset |-> 600, p_vaddr |-> d.linked + 4096]>>
  BY DEF V!Link
<1>3. /\ V!Base + 100 # V!Base + 200 /\ V!Base + 100 # V!Base + 300
      /\ V!Base + 200 # V!Base + 300 /\ V!Base + 100 # V!Base + 400
      /\ V!Base + 200 # V!Base + 400 /\ V!Base + 300 # V!Base + 400
  BY BaseIsNat, SMT
<1>. DEFINE f == V!Link(d).tables
<1>4. /\ DOMAIN f = {V!Base + 100, V!Base + 200, V!Base + 300, V!Base + 400}
      /\ f[V!Base + 100] = V!Hash(d) /\ f[V!Base + 200] = V!Symbols(d)
      /\ f[V!Base + 300] = V!Strings(d) /\ f[V!Base + 400] = V!Dynamic(d)
  BY <1>3, SMT DEF V!Link
<1>5. /\ V!TableAt(f, V!Base + 100) = V!Hash(d) /\ V!TableAt(f, V!Base + 200) = V!Symbols(d)
      /\ V!TableAt(f, V!Base + 300) = V!Strings(d) /\ V!TableAt(f, V!Base + 400) = V!Dynamic(d)
  <2>. HIDE DEF f
  <2>. QED  BY <1>4 DEF V!TableAt
<1>6. /\ Len(V!Link(d).phdrs) = 3
      /\ V!Link(d).phdrs[1].p_type = V!PT_DYNAMIC /\ V!Link(d).phdrs[1].p_offset = 400
      /\ V!Link(d).phdrs[2].p_type = V!PT_LOAD /\ V!Link(d).phdrs[2].p_offset = 0
      /\ V!Link(d).phdrs[2].p_vaddr = d.linked
      /\ V!Link(d).phdrs[3].p_type = V!PT_LOAD
  BY <1>2, SMT
<1>. QED  BY <1>1, <1>5, <1>6

LEMMA FirstExists ==
  ASSUME NEW I \in SUBSET Nat, I # {}
  PROVE  \E i \in I : \A j \in I : i <= j
<1>. DEFINE R == OpToRel(<, Nat)
<1>1. IsWellFoundedOn(R, Nat)
  BY NatLessThanWellFounded
<1>. HIDE DEF R
<1>2. PICK x \in I : \A y \in I : <<y, x>> \notin R
  BY <1>1, WFMin
<1>3. ASSUME NEW y \in Nat, NEW z \in Nat, y < z  PROVE <<y, z>> \in R
  BY <1>3 DEF R, OpToRel
<1>4. ASSUME NEW y \in I  PROVE x <= y
  <2>1. x \in Nat /\ y \in Nat
    OBVIOUS
  <2>2. ~(y < x)
    BY <1>2, <1>3, <2>1, Zenon
  <2>. QED  BY <2>1, <2>2
<1>. QED  BY <1>4

\* The elements of a sequence.
LEMMA ElementOf ==
  ASSUME NEW A, NEW s \in Seq(A), NEW k \in 1..Len(s)
  PROVE  s[k] \in A
OBVIOUS

\* The names lookup compares are equal when cstr_eq says so.
LEMMA NamesEqual ==
  ASSUME NEW n \in Seq(STRING)
  PROVE  V!cstr_eq(n, V!SYMBOL) <=> n = V!SYMBOL
<1>. DEFINE Words == STRING \cup {"clock", "gettime"}
<1>1. V!SYMBOL \in Seq(Words) /\ n \in Seq(Words)
  <2>1. "clock" \in Words /\ "gettime" \in Words /\ STRING \subseteq Words
    OBVIOUS
  <2>. HIDE DEF Words
  <2>2. V!SYMBOL \in Seq(Words)
    BY <2>1 DEF V!SYMBOL
  <2>3. n \in Seq(Words)
    <3>1. \A i \in 1..Len(n) : n[i] \in Words
      BY <2>1, ElementOf
    <3>2. n \in [1..Len(n) -> Words] /\ Len(n) \in Nat
      BY <3>1
    <3>. QED  BY <3>2
  <2>. QED  BY <2>2, <2>3
<1>. HIDE DEF Words
<1>2. ASSUME V!cstr_eq(n, V!SYMBOL) PROVE n = V!SYMBOL
  BY <1>1, <1>2 DEF V!cstr_eq
<1>3. V!cstr_eq(V!SYMBOL, V!SYMBOL)
  BY DEF V!cstr_eq
<1>. QED  BY <1>2, <1>3

\* The functions of that name the image defines.
Defs(d) == {k \in 1..Len(d.functions) :
                d.functions[k].name = V!SYMBOL /\ d.functions[k].addr # 0}

\* The scan meets them in the symbol table's order, one place further on.
LEMMA ScanFinds ==
  ASSUME NEW d \in Images
  PROVE  V!Scan(V!Symbols(d), V!Strings(d), Len(d.functions) + 1)
           = IF Defs(d) = {} THEN 0 ELSE V!First(Defs(d)) + 1
<1>. DEFINE n == Len(d.functions)
            syms == V!Symbols(d)
            names == V!Strings(d)
            K == {k \in 1..(n + 1) : /\ syms[k].st_name # 0 /\ syms[k].st_value # 0
                                     /\ V!cstr_eq(names[syms[k].st_name], V!SYMBOL)}
<1>1. /\ n \in Nat /\ d.linked \in Nat
      /\ \A k \in 1..n : /\ d.functions[k].name \in Seq(STRING)
                         /\ d.functions[k].addr \in Nat
                         /\ d.functions[k].addr # 0 => d.functions[k].addr > V!Base
  <2>1. d.functions \in Seq([name : Seq(STRING), addr : Nat])
    BY ImagesAssumption
  <2>2. \A k \in 1..n : d.functions[k] \in [name : Seq(STRING), addr : Nat]
    BY <2>1, ElementOf
  <2>. QED  BY <2>1, <2>2, ImagesAssumption
<1>2. ASSUME NEW k \in 1..(n + 1)
      PROVE  k \in K <=> k # 1 /\ k - 1 \in Defs(d)
  <2>1. syms[k].st_name = k - 1
    BY DEF V!Symbols
  <2>2. CASE k = 1
    BY <2>1, <2>2
  <2>3. CASE k # 1
    <3>1. k - 1 \in 1..n /\ k - 1 # 0
      BY <1>1, <2>3
    <3>2. syms[k].st_value = V!vaddr(d, d.functions[k - 1].addr)
      BY <2>3 DEF V!Symbols
    <3>3. syms[k].st_value # 0 <=> d.functions[k - 1].addr # 0
      <4>. DEFINE a == d.functions[k - 1].addr
      <4>1. a \in Nat /\ (a # 0 => a > V!Base) /\ d.linked \in Nat /\ V!Base \in Nat
        BY <1>1, <3>1, BaseIsNat
      <4>. HIDE DEF a
      <4>2. V!vaddr(d, a) # 0 <=> a # 0
        BY <4>1 DEF V!vaddr
      <4>. QED  BY <3>2, <4>2 DEF a
    <3>4. names[k - 1] = d.functions[k - 1].name
      BY <3>1 DEF V!Strings
    <3>5. V!cstr_eq(names[k - 1], V!SYMBOL) <=> d.functions[k - 1].name = V!SYMBOL
      BY <1>1, <3>1, <3>4, NamesEqual
    <3>6. k \in K <=> syms[k].st_value # 0 /\ V!cstr_eq(names[k - 1], V!SYMBOL)
      BY <2>1, <3>1
    <3>. QED  BY <2>3, <3>1, <3>3, <3>5, <3>6 DEF Defs
  <2>. QED  BY <2>2, <2>3
<1>3. V!Scan(syms, names, n + 1) = V!First(K)
  BY DEF V!Scan
<1>4. K \in SUBSET (1..(n + 1)) /\ K \in SUBSET Nat /\ Defs(d) \in SUBSET (1..n)
  BY <1>1 DEF Defs
<1>. HIDE DEF K
<1>5. CASE Defs(d) = {}
  <2>1. K = {}
    BY <1>2, <1>4, <1>5
  <2>. QED  BY <1>3, <1>5, <2>1 DEF V!First
<1>6. CASE Defs(d) # {}
  <2>. HIDE DEF n
  <2>1. Defs(d) \in SUBSET Nat
    BY <1>4, <1>1
  <2>2. PICK m \in Defs(d) : \A j \in Defs(d) : m <= j
    BY <1>6, <2>1, FirstExists
  <2>3. V!First(Defs(d)) = m
    BY <2>1, <2>2, FirstIs
  <2>4. m + 1 \in K
    BY <1>1, <1>2, <1>4, <2>2
  <2>5. ASSUME NEW j \in K PROVE m + 1 <= j
    <3>1. j \in 1..(n + 1) /\ j - 1 \in Defs(d)
      BY <1>2, <1>4
    <3>2. m <= j - 1 /\ m \in Nat /\ j \in Nat
      BY <1>1, <2>1, <2>2, <3>1
    <3>. QED  BY <3>2
  <2>6. V!First(K) = m + 1
    BY <1>4, <2>4, <2>5, FirstIs
  <2>. QED  BY <1>3, <1>6, <2>3, <2>6 DEF n
<1>. QED  BY <1>5, <1>6

\* The addresses of the tables and of a function are where the image was loaded.
LEMMA Relocated ==
  ASSUME NEW d \in Images, NEW a \in Nat, a # 0
  PROVE  V!reloc(V!Base, 0 - d.linked, V!vaddr(d, a)) = a
<1>1. d.linked \in Nat /\ V!Base \in Nat
  BY ImagesAssumption, BaseIsNat
<1>. QED  BY <1>1 DEF V!reloc, V!vaddr

\* The search of the ELF image finds exactly the function that it exports.
LEMMA LookupFinds ==
  ASSUME NEW d \in Images
  PROVE  V!lookup(V!Link(d), V!Base)
           = IF d.class = 2 /\ d.machine = V!E_MACHINE /\ d.hash /\ Defs(d) # {}
             THEN d.functions[V!First(Defs(d))].addr ELSE V!None
<1>. DEFINE img == V!Link(d)
            load == V!First({k \in 1..Len(img.phdrs) : img.phdrs[k].p_type = V!PT_LOAD})
            dynamic == V!Last({k \in 1..Len(img.phdrs) : img.phdrs[k].p_type = V!PT_DYNAMIC})
            off == 0 - d.linked
            dyn == V!Dynamic(d)
<1>1. load = 2 /\ dynamic = 1
  <2>. DEFINE L == {k \in 1..Len(img.phdrs) : img.phdrs[k].p_type = V!PT_LOAD}
              M == {k \in 1..Len(img.phdrs) : img.phdrs[k].p_type = V!PT_DYNAMIC}
  <2>. HIDE DEF img
  <2>1. /\ Len(img.phdrs) = 3 /\ img.phdrs[1].p_type = 2
        /\ img.phdrs[2].p_type = 1 /\ img.phdrs[3].p_type = 1
    BY LinkedImage DEF img, V!PT_LOAD, V!PT_DYNAMIC
  <2>2. L \in SUBSET Nat /\ 2 \in L /\ \A k \in L : 2 <= k
    BY <2>1 DEF V!PT_LOAD
  <2>3. M \in SUBSET Nat /\ 1 \in M /\ \A k \in M : k <= 1
    BY <2>1 DEF V!PT_DYNAMIC
  <2>. HIDE DEF L, M
  <2>4. V!First(L) = 2 /\ V!Last(M) = 1
    BY <2>2, <2>3, FirstIs, LastIs
  <2>. QED  BY <2>4 DEF L, M
<1>2. /\ V!DynamicEntry(dyn, V!DT_STRTAB, V!Base, off) = V!Base + 300
      /\ V!DynamicEntry(dyn, V!DT_SYMTAB, V!Base, off) = V!Base + 200
      /\ V!DynamicEntry(dyn, V!DT_HASH, V!Base, off) = IF d.hash THEN V!Base + 100 ELSE V!None
  <2>1. /\ Len(dyn) = 5 /\ dyn[1].tag = 5 /\ dyn[2].tag = 6
        /\ dyn[3].tag = (IF d.hash THEN 4 ELSE 7) /\ dyn[4].tag = 0
        /\ dyn[1].val = V!vaddr(d, V!Base + 300) /\ dyn[2].val = V!vaddr(d, V!Base + 200)
        /\ dyn[3].val = V!vaddr(d, V!Base + 100)
    BY DEF V!Dynamic, V!DT_STRTAB, V!DT_SYMTAB, V!DT_HASH, V!DT_OTHER, V!DT_NULL
  <2>2. d.hash \in BOOLEAN
    BY ImagesAssumption
  <2>3. /\ V!Base + 300 \in Nat /\ V!Base + 200 \in Nat /\ V!Base + 100 \in Nat
        /\ V!Base + 300 # 0 /\ V!Base + 200 # 0 /\ V!Base + 100 # 0
    BY BaseIsNat, SMT
  <2>4. /\ V!reloc(V!Base, off, dyn[1].val) = V!Base + 300
        /\ V!reloc(V!Base, off, dyn[2].val) = V!Base + 200
        /\ V!reloc(V!Base, off, dyn[3].val) = V!Base + 100
    BY <2>1, <2>3, Relocated
  <2>. HIDE DEF dyn, off
  <2>. QED  BY <2>1, <2>2, <2>4, EntriesFound
<1>3. /\ img.phdrs[2].p_offset - img.phdrs[2].p_vaddr = off
      /\ V!TableAt(img.tables, V!Base + img.phdrs[1].p_offset) = dyn
      /\ V!ValidHeader(img) <=> d.class = 2 /\ d.machine = V!E_MACHINE
      /\ V!TableAt(img.tables, V!Base + 100) = V!Hash(d)
      /\ V!TableAt(img.tables, V!Base + 200) = V!Symbols(d)
      /\ V!TableAt(img.tables, V!Base + 300) = V!Strings(d)
  <2>. HIDE DEF img
  <2>. QED  BY LinkedImage DEF img
<1>. DEFINE i == V!Scan(V!Symbols(d), V!Strings(d), Len(d.functions) + 1)
<1>4. V!Hash(d)[2] = Len(d.functions) + 1
  BY DEF V!Hash
<1>5. ASSUME d.hash
      PROVE  V!lookup(img, V!Base)
               = IF ~V!ValidHeader(img) \/ i = 0 THEN V!None
                 ELSE V!reloc(V!Base, off, V!Symbols(d)[i].st_value)
  <2>1. V!Base + 300 # V!None /\ V!Base + 200 # V!None /\ V!Base + 100 # V!None
    BY BaseIsNat DEF V!None
  <2>. DEFINE at == img.phdrs[load].p_offset - img.phdrs[load].p_vaddr
              table == V!TableAt(img.tables, V!Base + img.phdrs[dynamic].p_offset)
              strtab == V!DynamicEntry(table, V!DT_STRTAB, V!Base, at)
              symtab == V!DynamicEntry(table, V!DT_SYMTAB, V!Base, at)
              hash == V!DynamicEntry(table, V!DT_HASH, V!Base, at)
              syms == V!TableAt(img.tables, symtab)
              k == V!Scan(syms, V!TableAt(img.tables, strtab), V!TableAt(img.tables, hash)[2])
  <2>2. V!lookup(img, V!Base)
          = IF \/ ~V!ValidHeader(img)
               \/ load = 0 \/ dynamic = 0
               \/ strtab = V!None \/ symtab = V!None \/ hash = V!None
               \/ k = 0
            THEN V!None ELSE V!reloc(V!Base, at, syms[k].st_value)
    BY DEF V!lookup
  <2>. HIDE DEF img, dyn, off
  <2>3. at = off /\ table = dyn
    BY <1>1, <1>3
  <2>. HIDE DEF at, table, load, dynamic
  <2>4. strtab = V!Base + 300 /\ symtab = V!Base + 200 /\ hash = V!Base + 100
    BY <1>2, <1>5, <2>3
  <2>. HIDE DEF strtab, symtab, hash
  <2>5. syms = V!Symbols(d) /\ k = i
    BY <1>3, <1>4, <2>4
  <2>. HIDE DEF syms, k, i
  <2>. QED  BY <1>1, <2>1, <2>2, <2>3, <2>4, <2>5
<1>6. ~d.hash => V!lookup(img, V!Base) = V!None
  <2>. HIDE DEF img, dyn, off
  <2>. QED  BY <1>1, <1>2, <1>3, Zenon DEF V!lookup
<1>7. i = IF Defs(d) = {} THEN 0 ELSE V!First(Defs(d)) + 1
  BY ScanFinds
<1>8. ASSUME Defs(d) # {}
      PROVE  /\ V!First(Defs(d)) \in Defs(d) /\ i # 0
             /\ V!reloc(V!Base, off, V!Symbols(d)[i].st_value)
                  = d.functions[V!First(Defs(d))].addr
  <2>1. Defs(d) \in SUBSET Nat
    BY DEF Defs
  <2>2. PICK m \in Defs(d) : \A j \in Defs(d) : m <= j
    BY <1>8, <2>1, FirstExists
  <2>3. V!First(Defs(d)) = m
    BY <2>1, <2>2, FirstIs
  <2>4. i = m + 1 /\ m \in 1..Len(d.functions) /\ Len(d.functions) \in Nat
        /\ d.functions[m].addr \in Nat /\ d.functions[m].addr # 0
    <3>1. m \in 1..Len(d.functions) /\ d.functions[m].addr # 0
      BY DEF Defs
    <3>2. d.functions \in Seq([name : Seq(STRING), addr : Nat])
      BY ImagesAssumption
    <3>3. d.functions[m] \in [name : Seq(STRING), addr : Nat]
      BY <3>1, <3>2, ElementOf
    <3>. QED  BY <1>7, <1>8, <2>3, <3>1, <3>2, <3>3
  <2>. HIDE DEF i
  <2>5. V!Symbols(d)[i].st_value = V!vaddr(d, d.functions[m].addr)
    <3>1. i \in 1..(Len(d.functions) + 1) /\ i # 1 /\ i - 1 = m
      BY <2>4
    <3>. QED  BY <3>1 DEF V!Symbols
  <2>6. V!reloc(V!Base, off, V!Symbols(d)[i].st_value) = d.functions[m].addr
    BY <2>4, <2>5, Relocated
  <2>7. i # 0
    BY <2>4
  <2>. QED  BY <2>2, <2>3, <2>6, <2>7
<1>. HIDE DEF i, off, img
<1>9. CASE d.hash
  BY <1>3, <1>5, <1>7, <1>8, <1>9 DEF img
<1>10. CASE ~d.hash
  BY <1>6, <1>10 DEF img
<1>. QED  BY <1>9, <1>10

LEMMA ResolvesExported ==
  ASSUME NEW d \in Images
  PROVE  V!resolve(V!Process(d)) = V!Exported(d)
<1>1. V!Process(d).auxv = V!Auxv(d) /\ V!Process(d).elf = V!Link(d)
  BY DEF V!Process
<1>2. V!Base # V!None
  BY SMT DEF V!Base, V!None
<1>3. V!resolve(V!Process(d))
        = IF d.mapped THEN V!lookup(V!Link(d), V!Base) ELSE V!None
  BY <1>1, <1>2, BaseFound DEF V!resolve
<1>4. V!Exported(d) = IF d.mapped /\ d.class = 2 /\ d.machine = V!E_MACHINE /\ d.hash /\ Defs(d) # {}
                      THEN d.functions[V!First(Defs(d))].addr ELSE V!None
  BY DEF V!Exported, Defs
<1>5. V!lookup(V!Link(d), V!Base)
        = IF d.class = 2 /\ d.machine = V!E_MACHINE /\ d.hash /\ Defs(d) # {}
          THEN d.functions[V!First(Defs(d))].addr ELSE V!None
  BY LookupFinds
<1>. QED  BY <1>3, <1>4, <1>5

\* The cache and every thread past clock_gettime_fn hold the function the image
\* exports or nothing, and a call began no later than now.
Places == {"idle", "load", "auxv_open", "auxv_read", "store", "vdso", "syscall"}

ClockShape ==
    /\ image \in Images
    /\ vpc \in [Threads -> Places]
    /\ entry = [t \in Threads |-> entry[t]]
    /\ res = [t \in Threads |-> res[t]]
    /\ vnow \in Nat
    /\ start \in [Threads -> Nat]
    /\ \A t \in Threads : start[t] <= vnow

Pointers ==
    /\ CACHE \notin {0, V!FAILED} => CACHE = V!Exported(image)
    /\ \A t \in Threads :
         /\ vpc[t] = "vdso" => entry[t] = V!Exported(image) /\ entry[t] # V!None
         /\ vpc[t] = "store" => entry[t] \in {V!None, V!Exported(image)}

ClockInv == ClockShape /\ Pointers

LEMMA ClockStep == ClockInv /\ [V!Next]_(V!vars) => ClockInv'
<1>. SUFFICES ASSUME ClockInv, [V!Next]_(V!vars) PROVE ClockInv'
  OBVIOUS
<1>0. image' = image /\ V!Exported(image') = V!Exported(image)
  <2>1. image' = image
    BY DEF V!Next, V!OtherFds, V!Tick, V!Call, V!clock_gettime, V!Load, V!OpenAuxv, V!ReadAuxv,
           V!Store, V!VdsoCall, V!Syscall, V!Return, V!vars
  <2>. QED  BY <2>1
<1>1. CASE V!OtherFds \/ UNCHANGED V!vars
  BY <1>1 DEF V!OtherFds, V!vars, ClockInv, ClockShape, Pointers
<1>2. CASE V!Tick
  <2>1. ClockShape'
    BY <1>2 DEF V!Tick, ClockInv, ClockShape
  <2>. QED  BY <1>2, <2>1 DEF V!Tick, ClockInv, Pointers
<1>3. ASSUME NEW t \in Threads, V!Call(t) PROVE ClockInv'
  <2>1. ClockShape'
    BY <1>3 DEF V!Call, V!Goto, ClockInv, ClockShape, Places
  <2>2. Pointers'
    BY <1>3 DEF V!Call, V!Goto, ClockInv, ClockShape, Pointers
  <2>. QED  BY <2>1, <2>2 DEF ClockInv
<1>4. ASSUME NEW t \in Threads, V!Load(t) PROVE ClockInv'
  <2>1. ClockShape'
    BY <1>4 DEF V!Load, V!Goto, ClockInv, ClockShape, Places
  <2>2. Pointers'
    BY <1>0, <1>4 DEF V!Load, V!Goto, V!None, V!FAILED, ClockInv, ClockShape, Pointers
  <2>. QED  BY <2>1, <2>2 DEF ClockInv
<1>5. ASSUME NEW t \in Threads, V!OpenAuxv(t) PROVE ClockInv'
  <2>1. ClockShape'
    BY <1>5 DEF V!OpenAuxv, V!Goto, ClockInv, ClockShape, Places
  <2>2. Pointers'
    BY <1>0, <1>5 DEF V!OpenAuxv, V!Goto, ClockInv, ClockShape, Pointers
  <2>. QED  BY <2>1, <2>2 DEF ClockInv
<1>6. ASSUME NEW t \in Threads, V!ReadAuxv(t) PROVE ClockInv'
  <2>1. ClockShape'
    BY <1>6 DEF V!ReadAuxv, V!Goto, ClockInv, ClockShape, Places
  <2>2. V!resolve(V!Process(image)) = V!Exported(image)
    BY ResolvesExported DEF ClockInv, ClockShape
  <2>3. Pointers'
    BY <1>0, <1>6, <2>2 DEF V!ReadAuxv, V!Goto, ClockInv, ClockShape, Pointers
  <2>. QED  BY <2>1, <2>3 DEF ClockInv
<1>7. ASSUME NEW t \in Threads, V!Store(t) PROVE ClockInv'
  <2>1. ClockShape'
    BY <1>7 DEF V!Store, V!Goto, ClockInv, ClockShape, Places
  <2>2. Pointers'
    BY <1>0, <1>7 DEF V!Store, V!Goto, ClockInv, ClockShape, Pointers
  <2>. QED  BY <2>1, <2>2 DEF ClockInv
<1>8. ASSUME NEW t \in Threads, V!VdsoCall(t) \/ V!Syscall(t) PROVE ClockInv'
  <2>1. ClockShape'
    BY <1>8 DEF V!VdsoCall, V!Syscall, V!Return, V!Goto, ClockInv, ClockShape, Places
  <2>2. Pointers'
    BY <1>0, <1>8 DEF V!VdsoCall, V!Syscall, V!Return, V!Goto, ClockInv, ClockShape, Pointers
  <2>. QED  BY <2>1, <2>2 DEF ClockInv
<1>. QED  BY <1>1, <1>2, <1>3, <1>4, <1>5, <1>6, <1>7, <1>8 DEF V!Next, V!clock_gettime

LEMMA ClockInvHolds == V!Spec => []ClockInv
<1>1. V!Init => ClockInv
  BY DEF V!Init, V!FAILED, ClockInv, ClockShape, Pointers, Places
<1>. QED  BY <1>1, ClockStep, PTL DEF V!Spec

\* What threads cache and call is the function named SYMBOL that the image for
\* this machine exports, at the address it was loaded at (vdso.rs), for any
\* image, number of threads and descriptors running out at any moment.
THEOREM PointersAreReal == V!Spec => []PointerIsReal
<1>1. ClockInv => PointerIsReal
  BY DEF ClockInv, Pointers, PointerIsReal, V!PointerIsReal
<1>. QED  BY <1>1, ClockInvHolds, PTL

\* Whichever way clock_gettime (time.rs) went, it returns a time the clock
\* showed during the call, or EINVAL for a clock the kernel does not know.
THEOREM ResultsAreCurrent == V!Spec => ResultIsCurrent
<1>. DEFINE Current ==
       \A t \in Threads : vpc[t] # "idle" /\ vpc'[t] = "idle" =>
         IF vclock[t] \in Clocks THEN res'[t] \in start[t]..vnow ELSE res'[t] = V!EINVAL
<1>1. ClockInv /\ [V!Next]_(V!vars) => [Current]_(V!vars)
  <2>. SUFFICES ASSUME ClockInv, V!Next, NEW t \in Threads,
                       vpc[t] # "idle", vpc'[t] = "idle"
       PROVE  IF vclock[t] \in Clocks THEN res'[t] \in start[t]..vnow ELSE res'[t] = V!EINVAL
    OBVIOUS
  <2>1. V!VdsoCall(t) \/ V!Syscall(t)
    <3>1. ~V!OtherFds /\ ~V!Tick
      BY DEF V!OtherFds, V!Tick
    <3>2. ASSUME NEW u \in Threads, V!Call(u) PROVE FALSE
      BY <3>2 DEF V!Call, V!Goto, ClockInv, ClockShape
    <3>3. ASSUME NEW u \in Threads, V!Load(u) \/ V!OpenAuxv(u) \/ V!ReadAuxv(u) \/ V!Store(u)
          PROVE  FALSE
      BY <3>3 DEF V!Load, V!OpenAuxv, V!ReadAuxv, V!Store, V!Goto, ClockInv, ClockShape
    <3>4. ASSUME NEW u \in Threads, V!VdsoCall(u) \/ V!Syscall(u) PROVE u = t
      BY <3>4 DEF V!VdsoCall, V!Syscall, V!Return, V!Goto, ClockInv, ClockShape
    <3>. QED  BY <3>1, <3>2, <3>3, <3>4 DEF V!Next, V!clock_gettime
  <2>2. res'[t] = IF vclock[t] \in Clocks THEN vnow ELSE V!EINVAL
    <3>1. CASE V!VdsoCall(t)
      BY <3>1, ClocksAssumption DEF V!VdsoCall, V!Return, V!Goto, ClockInv, ClockShape
    <3>2. CASE V!Syscall(t)
      BY <3>2 DEF V!Syscall, V!Return, ClockInv, ClockShape
    <3>. QED  BY <2>1, <3>1, <3>2
  <2>3. vnow \in start[t]..vnow
    BY DEF ClockInv, ClockShape
  <2>. QED  BY <2>2, <2>3
<1>. QED  BY <1>1, ClockInvHolds, PTL DEF V!Spec, ResultIsCurrent, V!ResultIsCurrent
==============================================================================
