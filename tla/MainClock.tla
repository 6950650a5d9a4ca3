----------------------------- MODULE MainClock -----------------------------
(***************************************************************************)
(* How main() of ndppd.cc measures time: at the end of every turn of the   *)
(* loop it reads the wall clock, takes the difference to the previous      *)
(* reading in whole milliseconds and starts again from the new reading.    *)
(* All timers of the daemon run on the sum of these differences.           *)
(*                                                                         *)
(* A struct timeval is a pair of seconds and microseconds.                 *)
(***************************************************************************)
EXTENDS Integers

CONSTANTS
  Usec,       \* microseconds in a millisecond
  Msec,       \* milliseconds in a second
  IntRange,   \* the values of an int are -IntRange .. IntRange - 1
  Starts,     \* the time the daemon may start at, in microseconds
  Waits,      \* microseconds that may pass in a turn of the loop
  Jumps,      \* microseconds by which the wall clock may be set
  MaxWall,    \* bound: the wall clock stops here (seconds)
  MaxJumps    \* bound: how often it is set

VARIABLES
  wall,       \* the wall clock
  t1,         \* its last reading
  measured,   \* sum of elapsed_time over all turns (history)
  start,      \* the first reading (history)
  jumps       \* how often the clock was set (history)

clockVars == <<wall, t1, measured, start, jumps>>

Second == Usec * Msec

ASSUME ClockAssumption ==
  /\ Usec \in Nat \ {0} /\ Msec \in Nat \ {0}
  /\ IntRange \in Nat \ {0}
  /\ Starts \subseteq Nat
  /\ Waits \subseteq Nat
  /\ \A d \in Waits : d < (IntRange - 1) * Usec
  /\ Jumps \subseteq Int
  /\ MaxWall \in Nat /\ MaxJumps \in Nat

timeval == [sec : Int, usec : 0 .. Second - 1]

\* t in microseconds, and back.
Micros(t) == t.sec * Second + t.usec
Timeval(n) == [sec |-> n \div Second, usec |-> n % Second]

\* Integer division of C: towards zero.
Quot(a, b) == IF a >= 0 THEN a \div b ELSE -((-a) \div b)

\* The conversion of a long to int.
ToInt(n) == ((n + IntRange) % (2 * IntRange)) - IntRange

\* Mutant: the difference is rounded down.
elapsed_time_floor(a, b) ==
  ToInt((b.sec - a.sec) * Msec + (b.usec - a.usec) \div Usec)

elapsed_time(a, b) ==
  ToInt((b.sec - a.sec) * Msec + Quot(b.usec - a.usec, Usec))

ClockInit ==
  /\ wall \in {Timeval(n) : n \in Starts}
  /\ t1 = wall
  /\ measured = 0
  /\ start = wall
  /\ jumps = 0

\* A turn of the loop that takes d microseconds.
Turn(d) ==
  LET t2 == Timeval(Micros(wall) + d)
  IN  /\ t2.sec <= MaxWall
      /\ wall' = t2
      /\ t1' = t2
      /\ measured' = measured + elapsed_time(t1, t2)
      /\ UNCHANGED <<start, jumps>>

\* The wall clock is set while the loop waits.
Jump(d) ==
  /\ jumps < MaxJumps
  /\ Micros(wall) + d \in 0 .. (MaxWall + 1) * Second - 1
  /\ wall' = Timeval(Micros(wall) + d)
  /\ jumps' = jumps + 1
  /\ UNCHANGED <<t1, measured, start>>

ClockNext == (\E d \in Waits : Turn(d)) \/ (\E d \in Jumps : Jump(d))

ClockSpec == ClockInit /\ [][ClockNext]_clockVars

-----------------------------------------------------------------------------
(***************************************************************************)
(* Properties.                                                             *)
(***************************************************************************)
\* As long as nobody sets the clock the timers neither stand still nor run away:
\* however short the turns are and whatever each of them loses, at least one
\* millisecond is counted for every second that begins, and less than one in
\* excess of the time that passed (the loop of main).
MeasuresTime ==
  jumps = 0 =>
    LET seconds == t1.sec - start.sec
    IN  /\ measured >= seconds
        /\ measured * Usec <= Micros(t1) - Micros(start) + (Usec - 1) * seconds

\* A single turn is measured to the millisecond, also one in which the clock is
\* set forward or back, unless the difference leaves the range of an int
\* (elapsed_time).
TurnToTheMillisecond ==
  [][LET d == Micros(t1') - Micros(t1)
         e == (measured' - measured) * Usec
     IN  d > (1 - IntRange) * Usec /\ d < (IntRange - 1) * Usec =>
           e - d > -Usec /\ e - d < Usec]_clockVars
=============================================================================
