----------------------------- MODULE MainProofs -----------------------------
(***************************************************************************)
(* Theorems about the start of the daemon, for every configuration file,   *)
(* and about its clock, for every length of turns and every setting.       *)
(***************************************************************************)
EXTENDS Main, FiniteSetTheorems, WellFoundedInduction, TLAPS


-----------------------------------------------------------------------------
(***************************************************************************)
(* Arithmetic.                                                             *)
(***************************************************************************)
\* \div and % of a positive divisor.
LEMMA DivMod ==
  ASSUME NEW n \in Int, NEW b \in Nat \ {0}
  PROVE  /\ n \div b \in Int /\ n % b \in 0 .. b - 1
         /\ n = (n \div b) * b + (n % b)
  BY SMT

\* A factor can be cancelled.
LEMMA Cancel ==
  ASSUME NEW a \in Int, NEW c \in Int, NEW u \in Nat \ {0}, a * u < c * u
  PROVE  a < c
  BY SMT

\* A product of two factors that are not negative.
LEMMA Product ==
  ASSUME NEW a \in Nat, NEW c \in Nat
  PROVE  a * c \in Nat
  BY SMT

\* The rounding of Quot is less than one divisor, towards zero.
LEMMA QuotBounds ==
  ASSUME NEW a \in Int, NEW b \in Nat \ {0}
  PROVE  /\ Quot(a, b) \in Int
         /\ a >= 0 => Quot(a, b) * b <= a /\ Quot(a, b) * b > a - b
         /\ a < 0 => Quot(a, b) * b >= a /\ Quot(a, b) * b < a + b
<1>1. CASE a >= 0
  <2>1. Quot(a, b) = a \div b
    BY <1>1 DEF Quot
  <2> QED  BY <1>1, <2>1, DivMod
<1>2. CASE a < 0
  <2> DEFINE q == (-a) \div b
  <2>1. Quot(a, b) = -q
    BY <1>2 DEF Quot
  <2>2. q \in Int /\ (-a) % b \in 0 .. b - 1 /\ -a = q * b + ((-a) % b)
    <3>1. -a \in Int
      OBVIOUS
    <3> QED  BY <3>1, DivMod, Zenon
  <2>3. (-q) * b = -(q * b)
    BY <2>2
  <2>4. q * b \in Int
    BY <2>2
  <2> HIDE DEF q
  <2> QED  BY <1>2, <2>1, <2>2, <2>3, <2>4
<1> QED  BY <1>1, <1>2

\* A number in the range of an int is converted to itself.
LEMMA ToIntFits ==
  ASSUME NEW n \in Int, -IntRange <= n, n < IntRange
  PROVE  ToInt(n) = n
<1> IntRange \in Nat \ {0}
  BY ClockAssumption
<1> DEFINE m == n + IntRange
<1>1. m \in 0 .. 2 * IntRange - 1
  OBVIOUS
<1>2. m % (2 * IntRange) = m
  BY <1>1
<1> QED  BY <1>2 DEF ToInt

LEMMA SecondNat == Second \in Nat \ {0}
  BY ClockAssumption DEF Second

LEMMA MicrosTimeval ==
  ASSUME NEW n \in Int
  PROVE  Timeval(n) \in timeval /\ Micros(Timeval(n)) = n
  BY SecondNat, DivMod DEF Timeval, timeval, Micros

(***************************************************************************)
(* The difference of two readings, before the conversion to int.           *)
(***************************************************************************)
Difference(a, b) == (b.sec - a.sec) * Msec + Quot(b.usec - a.usec, Usec)

\* It is the time between them, to the millisecond.
LEMMA DifferenceBounds ==
  ASSUME NEW a \in timeval, NEW b \in timeval
  PROVE  LET d == Micros(b) - Micros(a)
             s == b.sec - a.sec
             u == b.usec - a.usec
             r == Difference(a, b)
         IN  /\ r \in Int /\ s \in Int /\ u \in Int /\ d \in Int
             /\ d = s * Second + u
             /\ u > -Second /\ u < Second
             /\ u >= 0 => r * Usec <= d /\ r * Usec > d - Usec
             /\ u < 0 => r * Usec >= d /\ r * Usec < d + Usec
<1> DEFINE s == b.sec - a.sec
           u == b.usec - a.usec
           q == Quot(u, Usec)
<1>1. Usec \in Nat \ {0} /\ Msec \in Nat \ {0} /\ Second = Usec * Msec /\ Second \in Nat
  BY ClockAssumption, SecondNat DEF Second
<1>2. s \in Int /\ u \in Int /\ u > -Second /\ u < Second
  BY <1>1 DEF timeval
<1>3. q \in Int /\ (u >= 0 => q * Usec <= u /\ q * Usec > u - Usec)
                /\ (u < 0 => q * Usec >= u /\ q * Usec < u + Usec)
  BY <1>1, <1>2, QuotBounds, Zenon
<1>4. Micros(b) - Micros(a) = s * Second + u
  BY <1>1 DEF Micros, timeval
<1>5. Difference(a, b) = s * Msec + q
  BY DEF Difference
<1> HIDE DEF s, u, q
<1>6. (s * Msec + q) * Usec = s * Second + q * Usec
  BY <1>1, <1>2, <1>3
<1>7. s * Second \in Int /\ q * Usec \in Int /\ s * Msec \in Int
  BY <1>1, <1>2, <1>3
<1> QED  BY <1>1, <1>2, <1>3, <1>4, <1>5, <1>6, <1>7 DEF s, u

LEMMA ElapsedIsDifference ==
  ASSUME NEW a, NEW b
  PROVE  elapsed_time(a, b) = ToInt(Difference(a, b))
  BY DEF elapsed_time, Difference

\* Between two readings in order it is not negative, and at least the seconds
\* that began; it exceeds the time by less than one millisecond, and only if a
\* second began.
LEMMA ForwardBounds ==
  ASSUME NEW a \in timeval, NEW b \in timeval, Micros(a) <= Micros(b)
  PROVE  LET d == Micros(b) - Micros(a)
             s == b.sec - a.sec
             r == Difference(a, b)
         IN  /\ s \in Nat /\ r \in Nat
             /\ r >= s
             /\ r * Usec <= d + (Usec - 1) * s
             /\ r * Usec < d + Usec
<1> DEFINE d == Micros(b) - Micros(a)
           s == b.sec - a.sec
           u == b.usec - a.usec
           r == Difference(a, b)
<1>1. Usec \in Nat \ {0} /\ Msec \in Nat \ {0} /\ Second = Usec * Msec
      /\ Second \in Nat \ {0}
  BY ClockAssumption, SecondNat DEF Second
<1>2. /\ r \in Int /\ s \in Int /\ u \in Int /\ d \in Int
      /\ d = s * Second + u /\ u > -Second /\ u < Second
      /\ u >= 0 => r * Usec <= d /\ r * Usec > d - Usec
      /\ u < 0 => r * Usec >= d /\ r * Usec < d + Usec
  BY DifferenceBounds
<1>3. d >= 0
  BY <1>1 DEF Micros, timeval
<1> HIDE DEF d, s, u, r
<1>4. s >= 0
  <2>1. (-1) * Second < s * Second
    BY <1>1, <1>2, <1>3
  <2> QED  BY <2>1, <1>1, <1>2, Cancel
<1>5. s = 0 => r \in Nat /\ r >= s /\ r * Usec <= d + (Usec - 1) * s /\ r * Usec < d + Usec
  <2> HAVE s = 0
  <2>1. u >= 0 /\ d = u
    BY <1>1, <1>2, <1>3
  <2>2. (-1) * Usec < r * Usec
    BY <2>1, <1>1, <1>2, <1>3
  <2>3. r >= 0
    BY <2>2, <1>1, <1>2, Cancel
  <2>4. (Usec - 1) * s = 0
    BY <1>1
  <2>5. r * Usec <= d /\ r * Usec \in Int
    BY <1>1, <1>2, <2>1
  <2> QED  BY <1>1, <1>2, <2>3, <2>4, <2>5
<1>6. s >= 1 => r \in Nat /\ r >= s /\ r * Usec <= d + (Usec - 1) * s /\ r * Usec < d + Usec
  <2> HAVE s >= 1
  <2>1. r * Usec > d - Usec /\ r * Usec < d + Usec /\ r * Usec \in Int
    BY <1>1, <1>2
  <2>2. r >= s
    <3>1. (s - 1) * (Msec - 1) >= 0
      BY <1>1, <1>2, Product
    <3>2. (s - 1) * (Msec - 1) = s * Msec - s - Msec + 1
      BY <1>1, <1>2
    <3>3. (s * Msec - Msec) * Usec < r * Usec
      <4>1. (s * Msec - Msec) * Usec = s * Second - Second
        BY <1>1, <1>2
      <4>2. CASE u >= 0
        <5>1. Usec <= Second
          <6>1. Usec * (Msec - 1) \in Nat
            BY <1>1, Product
          <6>2. Usec * (Msec - 1) = Second - Usec
            BY <1>1
          <6> QED  BY <6>1, <6>2, <1>1
        <5> QED  BY <4>1, <4>2, <5>1, <1>1, <1>2, <2>1, SMTT(30)
      <4>3. CASE u < 0
        BY <4>1, <4>3, <1>1, <1>2, <2>1, SMTT(30)
      <4> QED  BY <4>2, <4>3, <1>2
    <3>4. s * Msec - Msec < r
      BY <3>3, <1>1, <1>2, Cancel
    <3> QED  BY <3>1, <3>2, <3>4, <1>1, <1>2
  <2>3. (Usec - 1) * s >= Usec - 1
    <3>1. (Usec - 1) * (s - 1) >= 0
      BY <1>1, <1>2, Product
    <3>2. (Usec - 1) * (s - 1) = (Usec - 1) * s - (Usec - 1)
      BY <1>1, <1>2
    <3> QED  BY <3>1, <3>2, <1>1, <1>2
  <2>4. (Usec - 1) * s \in Int
    BY <1>1, <1>2
  <2> QED  BY <1>1, <1>2, <1>4, <2>1, <2>2, <2>3, <2>4, SMTT(30)
<1> QED  BY <1>2, <1>4, <1>5, <1>6 DEF d, s, r
(***************************************************************************)
(* The inductive invariant: as long as the clock is not set it shows the   *)
(* last reading whenever a turn begins.                                    *)
(***************************************************************************)
ClockInv ==
  /\ wall \in timeval /\ t1 \in timeval /\ start \in timeval
  /\ measured \in Int
  /\ jumps \in Nat
  /\ jumps = 0 => wall = t1
  /\ MeasuresTime

LEMMA ClockInit_Inv == ClockInit => ClockInv
<1> SUFFICES ASSUME ClockInit PROVE ClockInv
  OBVIOUS
<1>1. wall \in timeval
  BY ClockAssumption, MicrosTimeval DEF ClockInit
<1>2. Micros(wall) \in Int /\ Usec \in Nat /\ wall.sec \in Int
  BY <1>1, SecondNat, ClockAssumption DEF timeval, Micros
<1> QED  BY <1>1, <1>2 DEF ClockInit, ClockInv, MeasuresTime

LEMMA MicrosInt ==
  ASSUME NEW t \in timeval
  PROVE  Micros(t) \in Int /\ t.sec \in Int
  BY SecondNat DEF timeval, Micros

\* A turn that starts from the last reading counts what ForwardBounds says.
LEMMA TurnMeasures ==
  ASSUME ClockInv, NEW d \in Waits, Turn(d), jumps = 0
  PROVE  MeasuresTime'
<1> DEFINE r == Difference(t1, t1')
           s == t1'.sec - t1.sec
           s0 == t1.sec - start.sec
           e == Micros(t1) - Micros(start)
<1>1. Usec \in Nat \ {0} /\ IntRange \in Nat \ {0} /\ d \in Nat
      /\ d < (IntRange - 1) * Usec
  BY ClockAssumption
<1>2. t1 \in timeval /\ start \in timeval /\ wall = t1 /\ measured \in Int
  BY DEF ClockInv
<1>3. Micros(t1) \in Int /\ Micros(start) \in Int /\ t1.sec \in Int /\ start.sec \in Int
  BY <1>2, MicrosInt
<1>4. t1' = Timeval(Micros(t1) + d) /\ start' = start
      /\ measured' = measured + ToInt(r)
  BY <1>2, ElapsedIsDifference DEF Turn
<1>5. t1' \in timeval /\ Micros(t1') = Micros(t1) + d
  BY <1>1, <1>3, <1>4, MicrosTimeval
<1>6. /\ s \in Nat /\ r \in Nat /\ r >= s
      /\ r * Usec <= d + (Usec - 1) * s
      /\ r * Usec < d + Usec
  BY <1>1, <1>2, <1>3, <1>5, ForwardBounds
<1>7. measured >= s0 /\ measured * Usec <= e + (Usec - 1) * s0
  BY DEF ClockInv, MeasuresTime
<1>8. Micros(t1') - Micros(start') = e + d /\ t1'.sec - start'.sec = s0 + s
      /\ e \in Int /\ s0 \in Int
  <2>1. t1'.sec \in Int
    BY <1>5, MicrosInt
  <2> QED  BY <2>1, <1>1, <1>3, <1>4, <1>5
<1> HIDE DEF r, s, s0, e
<1>9. ToInt(r) = r
  <2>1. r * Usec < IntRange * Usec
    <3>1. (IntRange - 1) * Usec = IntRange * Usec - Usec /\ IntRange * Usec \in Int
          /\ r * Usec \in Int
      BY <1>1, <1>6
    <3> QED  BY <3>1, <1>1, <1>6
  <2>2. r < IntRange
    BY <2>1, <1>1, <1>6, Cancel
  <2> QED  BY <2>2, <1>1, <1>6, ToIntFits
<1>10. (measured + r) * Usec = measured * Usec + r * Usec
       /\ (Usec - 1) * (s0 + s) = (Usec - 1) * s0 + (Usec - 1) * s
       /\ measured * Usec \in Int /\ r * Usec \in Int
       /\ (Usec - 1) * s0 \in Int /\ (Usec - 1) * s \in Int
  BY <1>1, <1>2, <1>6, <1>8
<1>11. measured + r >= s0 + s
       /\ (measured + r) * Usec <= e + d + (Usec - 1) * (s0 + s)
  BY <1>1, <1>2, <1>6, <1>7, <1>8, <1>10
<1> QED  BY <1>4, <1>8, <1>9, <1>11 DEF MeasuresTime

LEMMA ClockNext_Inv == ClockInv /\ [ClockNext]_clockVars => ClockInv'
<1> SUFFICES ASSUME ClockInv, [ClockNext]_clockVars PROVE ClockInv'
  OBVIOUS
<1>0. wall \in timeval /\ t1 \in timeval /\ start \in timeval /\ measured \in Int
      /\ jumps \in Nat /\ Micros(wall) \in Int
  BY MicrosInt DEF ClockInv
<1>1. ASSUME NEW d \in Waits, Turn(d) PROVE ClockInv'
  <2>1. d \in Int
    BY ClockAssumption
  <2>2. wall' \in timeval /\ t1' = wall' /\ start' = start /\ jumps' = jumps
    BY <1>0, <1>1, <2>1, MicrosTimeval DEF Turn
  <2>3. measured' \in Int
    <3>1. elapsed_time(t1, t1') = ToInt(Difference(t1, t1')) /\ Difference(t1, t1') \in Int
      BY <1>0, <2>2, ElapsedIsDifference, DifferenceBounds
    <3>2. ASSUME NEW n \in Int PROVE ToInt(n) \in Int
      <4>1. IntRange \in Nat \ {0} /\ 2 * IntRange \in Nat \ {0} /\ n + IntRange \in Int
        BY ClockAssumption
      <4>2. (n + IntRange) % (2 * IntRange) \in Int
        BY <4>1, DivMod
      <4> QED  BY <4>1, <4>2 DEF ToInt
    <3> QED  BY <1>0, <1>1, <3>1, <3>2, SMTT(30) DEF Turn
  <2>4. MeasuresTime'
    <3>1. CASE jumps = 0
      BY <3>1, <1>1, TurnMeasures
    <3>2. CASE jumps # 0
      BY <3>2, <2>2 DEF MeasuresTime
    <3> QED  BY <3>1, <3>2
  <2> QED  BY <1>0, <2>2, <2>3, <2>4 DEF ClockInv
<1>2. ASSUME NEW d \in Jumps, Jump(d) PROVE ClockInv'
  <2>1. wall' \in timeval
    BY <1>0, <1>2, ClockAssumption, MicrosTimeval DEF Jump
  <2>2. jumps' \in Nat /\ jumps' # 0
    BY <1>0, <1>2 DEF Jump
  <2> QED  BY <1>0, <1>2, <2>1, <2>2 DEF ClockInv, MeasuresTime, Jump
<1>3. CASE UNCHANGED clockVars
  BY <1>3 DEF ClockInv, MeasuresTime, clockVars
<1> QED  BY <1>1, <1>2, <1>3 DEF ClockNext

\* As long as nobody sets the clock the timers of the daemon neither stand still
\* nor run away, for turns of any length (the loop of main).
THEOREM TimersFollowTheClock == ClockSpec => []MeasuresTime
<1>1. ClockInv => MeasuresTime
  BY DEF ClockInv
<1> QED  BY <1>1, ClockInit_Inv, ClockNext_Inv, PTL DEF ClockSpec

\* Whatever is done to the clock, a turn is measured to the millisecond, unless
\* the difference leaves the range of an int (elapsed_time).
THEOREM TurnsAreMeasured == ClockSpec => TurnToTheMillisecond
<1> DEFINE
     Exact == LET d == Micros(t1') - Micros(t1)
                  e == (measured' - measured) * Usec
              IN  d > (1 - IntRange) * Usec /\ d < (IntRange - 1) * Usec =>
                    e - d > -Usec /\ e - d < Usec
<1>1. ASSUME ClockInv, [ClockNext]_clockVars PROVE [Exact]_clockVars
  <2>0. wall \in timeval /\ t1 \in timeval /\ measured \in Int /\ Usec \in Nat \ {0}
        /\ IntRange \in Nat \ {0} /\ Micros(wall) \in Int /\ Micros(t1) \in Int
    BY <1>1, MicrosInt, ClockAssumption DEF ClockInv
  <2>1. ASSUME NEW w \in Waits, Turn(w) PROVE Exact
    <3> DEFINE d == Micros(t1') - Micros(t1)
               r == Difference(t1, t1')
    <3> SUFFICES ASSUME d > (1 - IntRange) * Usec, d < (IntRange - 1) * Usec
                 PROVE  (measured' - measured) * Usec - d > -Usec
                        /\ (measured' - measured) * Usec - d < Usec
      OBVIOUS
    <3>1. w \in Int
      BY ClockAssumption
    <3>2. t1' \in timeval
      BY <2>0, <2>1, <3>1, MicrosTimeval DEF Turn
    <3>3. measured' = measured + ToInt(r)
      BY <2>1, ElapsedIsDifference, Zenon DEF Turn
    <3>4. r \in Int /\ d \in Int /\ r * Usec > d - Usec /\ r * Usec < d + Usec
          /\ r * Usec \in Int
      BY <2>0, <3>2, DifferenceBounds
    <3> HIDE DEF d, r
    <3>5. ToInt(r) = r
      <4>1. (1 - IntRange) * Usec - Usec = (-IntRange) * Usec
            /\ (IntRange - 1) * Usec + Usec = IntRange * Usec
            /\ (-IntRange) * Usec \in Int /\ IntRange * Usec \in Int
            /\ (1 - IntRange) * Usec \in Int /\ (IntRange - 1) * Usec \in Int
        BY <2>0
      <4>2. (-IntRange) * Usec < r * Usec /\ r * Usec < IntRange * Usec
        BY <2>0, <3>4, <4>1
      <4>3. -IntRange < r /\ r < IntRange
        BY <2>0, <3>4, <4>2, Cancel
      <4> QED  BY <2>0, <3>4, <4>3, ToIntFits
    <3>6. measured' - measured = r
      BY <2>0, <3>3, <3>4, <3>5
    <3> QED  BY <2>0, <3>4, <3>6
  <2>2. ASSUME NEW w \in Jumps, Jump(w) PROVE Exact
    <3>1. t1' = t1 /\ measured' = measured
      BY <2>2 DEF Jump
    <3> QED  BY <2>0, <3>1
  <2> QED  BY <1>1, <2>1, <2>2 DEF ClockNext
<1>2. ClockSpec => [][Exact]_clockVars
  BY <1>1, ClockInit_Inv, ClockNext_Inv, PTL DEF ClockSpec
<1> QED  BY <1>2 DEF TurnToTheMillisecond
-----------------------------------------------------------------------------
(***************************************************************************)
(* Sequences.                                                              *)
(***************************************************************************)
IsSequence(s) == \E S : s \in Seq(S)

LEMMA SequenceType ==
  ASSUME NEW s, IsSequence(s)
  PROVE  Len(s) \in Nat /\ DOMAIN s = 1 .. Len(s)
  BY DEF IsSequence

LEMMA AppendType ==
  ASSUME NEW s, IsSequence(s), NEW e
  PROVE  /\ IsSequence(Append(s, e))
         /\ Len(Append(s, e)) = Len(s) + 1
         /\ Append(s, e)[Len(s) + 1] = e
         /\ \A n \in 1 .. Len(s) : Append(s, e)[n] = s[n]
<1>1. PICK S : s \in Seq(S)
  BY DEF IsSequence
<1>2. s \in Seq(S \cup {e})
  BY <1>1
<1>3. Append(s, e) \in Seq(S \cup {e})
  BY <1>2
<1>4. IsSequence(Append(s, e))
  BY <1>3 DEF IsSequence
<1> QED BY <1>2, <1>4

\* A place of a sequence is a place of every sequence that is no shorter.
LEMMA LongerDomain ==
  ASSUME NEW s, IsSequence(s), NEW t, IsSequence(t), Len(s) <= Len(t), NEW r \in DOMAIN s
  PROVE  r \in DOMAIN t
  BY SequenceType

\* One more place.
LEMMA OneMore ==
  ASSUME NEW k \in Nat, NEW r
  PROVE  r \in 1 .. k + 1 <=> r \in 1 .. k \/ r = k + 1
  OBVIOUS

\* A set of naturals that is not empty has a least element.
LEMMA LeastNat ==
  ASSUME NEW S, S \subseteq Nat, S # {}
  PROVE  \E m \in S : \A k \in S : m <= k
<1> DEFINE R == OpToRel(<, Nat)
<1>1. IsWellFoundedOn(R, Nat)
  BY NatLessThanWellFounded, Zenon
<1>2. \A x, y \in Nat : <<y, x>> \in R <=> y < x
  BY DEF OpToRel
<1> HIDE DEF R
<1>3. PICK x \in S : \A y \in S : ~ (<<y, x>> \in R)
  BY <1>1, WFMin, Zenon
<1>4. ASSUME NEW k \in S PROVE x <= k
  <2>1. x \in Nat /\ k \in Nat /\ ~ (<<k, x>> \in R)
    BY <1>3, <1>4
  <2>2. ~ (k < x)
    BY <1>2, <2>1
  <2> QED BY <2>1, <2>2
<1> QED BY <1>3, <1>4

-----------------------------------------------------------------------------
(***************************************************************************)
(* The entries of a section (conf::find_all).                              *)
(***************************************************************************)
\* There is an n-th element.
LEMMA PlaceType ==
  ASSUME NEW P, P \subseteq Nat, IsFiniteSet(P), NEW n \in 1 .. Cardinality(P)
  PROVE  Place(P, n) \in P
<1> DEFINE Below(m) == {j \in P : j < m}
           Bad == {i \in 1 .. Cardinality(P) : ~\E m \in P : Cardinality(Below(m)) = i - 1}
<1>1. Cardinality(P) \in Nat
  BY FS_CardinalityType
<1>2. \A m : IsFiniteSet(Below(m)) /\ Cardinality(Below(m)) \in Nat
  <2> TAKE m
  <2>1. Below(m) \subseteq P
    OBVIOUS
  <2>2. IsFiniteSet(Below(m))
    BY <2>1, FS_Subset
  <2> QED BY <2>2, FS_CardinalityType
<1>3. Bad = {}
  <2> SUFFICES ASSUME Bad # {} PROVE FALSE
    OBVIOUS
  <2>1. Bad \subseteq Nat
    BY <1>1
  <2>2. PICK b \in Bad : \A k \in Bad : b <= k
    <3> HIDE DEF Bad
    <3> QED BY <2>1, LeastNat, Zenon
  <2>3. b \in 1 .. Cardinality(P) /\ b \in Nat
    BY <1>1
  <2>4. CASE b = 1
    <3>1. P # {}
      BY <1>1, <2>3, FS_EmptySet
    <3>2. PICK m \in P : \A k \in P : m <= k
      BY <3>1, LeastNat, Zenon
    <3>3. Below(m) = {}
      <4>1. ASSUME NEW k \in P PROVE ~(k < m)
        <5>1. m \in Nat /\ k \in Nat /\ m <= k
          BY <3>2, <4>1
        <5> QED BY <5>1
      <4> QED BY <4>1, Zenon
    <3>4. Cardinality(Below(m)) = 0
      BY <3>3, FS_EmptySet, Zenon
    <3> QED BY <2>4, <3>4
  <2>5. CASE b > 1
    <3>1. b - 1 \in 1 .. Cardinality(P) /\ b - 1 \notin Bad
      BY <1>1, <2>2, <2>3, <2>5
    <3>2. PICK m0 \in P : Cardinality(Below(m0)) = b - 1 - 1
      BY <3>1
    <3> DEFINE Up == {j \in P : j > m0}
               To == Below(m0) \cup {m0}
    <3>3. Cardinality(To) = b - 1
      <4>1. m0 \notin Below(m0)
        OBVIOUS
      <4>2. Cardinality(To) = Cardinality(Below(m0)) + 1
        <5> HIDE DEF Below
        <5> QED BY <1>2, <4>1, FS_AddElement, Zenon
      <4> QED BY <2>3, <3>2, <4>2
    <3>4. Up # {}
      <4> SUFFICES ASSUME Up = {} PROVE FALSE
        OBVIOUS
      <4>1. P = To
        <5>1. ASSUME NEW k \in P PROVE k < m0 \/ k = m0
          <6>1. k \in Nat /\ m0 \in Nat /\ ~(k > m0)
            BY <5>1
          <6> QED BY <6>1
        <5> QED BY <3>2, <5>1, Zenon
      <4>2. Cardinality(P) = b - 1
        BY <3>3, <4>1, Zenon
      <4> QED BY <2>3, <4>2
    <3>5. PICK m \in Up : \A k \in Up : m <= k
      <4>1. Up \subseteq Nat
        BY Zenon
      <4> HIDE DEF Up
      <4> QED BY <3>4, <4>1, LeastNat, Zenon
    <3>6. Below(m) = To
      <4>1. ASSUME NEW k \in P PROVE k < m <=> (k < m0 \/ k = m0)
        <5>1. k \in Nat /\ m0 \in Nat /\ m \in Nat /\ m > m0 /\ (k > m0 => m <= k)
          BY <3>2, <3>5, <4>1
        <5> QED BY <5>1
      <4> QED BY <3>2, <4>1, Zenon
    <3>7. Cardinality(Below(m)) = b - 1
      BY <3>3, <3>6, Zenon
    <3> QED BY <3>5, <3>7, Zenon
  <2> QED BY <2>3, <2>4, <2>5
<1>4. \E m \in P : Cardinality(Below(m)) = n - 1
  BY <1>3
<1> QED BY <1>4, Zenon DEF Place

\* A set of sections that contains their entries.
Tree(T) == \A c \in T : c = Conf(c.key, c.value, c.map) /\ c.map \in Seq(T)

\* find_all finds sections.
LEMMA FindAllType ==
  ASSUME NEW T, Tree(T), NEW c \in T, NEW k
  PROVE  find_all(c, k) \in Seq(T)
<1> DEFINE P == Places(c, k)
<1>1. c.map \in Seq(T) /\ Len(c.map) \in Nat /\ DOMAIN c.map = 1 .. Len(c.map)
  BY DEF Tree
<1>2. P \subseteq 1 .. Len(c.map)
  BY <1>1 DEF Places
<1>3. IsFiniteSet(P) /\ P \subseteq Nat
  <2>1. 1 \in Int /\ Len(c.map) \in Int
    BY <1>1
  <2>2. IsFiniteSet(1 .. Len(c.map))
    BY <2>1, FS_Interval
  <2> QED BY <1>1, <1>2, <2>2, FS_Subset
<1>4. Cardinality(P) \in Nat
  BY <1>3, FS_CardinalityType
<1>5. \A n \in 1 .. Cardinality(P) : c.map[Place(P, n)] \in T
  <2> TAKE n \in 1 .. Cardinality(P)
  <2> HIDE DEF P
  <2>1. Place(P, n) \in P
    BY <1>3, PlaceType, Zenon
  <2> QED BY <1>1, <1>2, <2>1
<1> QED BY <1>4, <1>5 DEF find_all

-----------------------------------------------------------------------------
(***************************************************************************)
(* The tree of the parser.                                                 *)
(***************************************************************************)
ParserInv == \E T : Tree(T) /\ blocks \in Seq(T) /\ Len(blocks) >= 1

\* A section may become an entry of another one.
LEMMA AddToTree ==
  ASSUME NEW T, Tree(T), NEW bs \in Seq(T), Len(bs) >= 1, NEW e \in T
  PROVE  \E U : Tree(U) /\ AddTo(bs, e) \in Seq(U) /\ Len(AddTo(bs, e)) >= 1
<1> DEFINE L == Len(bs)
           b == bs[L]
           new == Conf(b.key, b.value, Append(b.map, e))
           U == T \cup {new}
<1>1. L \in 1 .. Len(bs) /\ DOMAIN bs = 1 .. Len(bs) /\ Len(bs) \in Nat
  OBVIOUS
<1>2. b \in T
  BY <1>1
<1>3. b = Conf(b.key, b.value, b.map) /\ b.map \in Seq(T)
  BY <1>2 DEF Tree
<1>4. [b EXCEPT !.map = Append(@, e)] = new
  <2> HIDE DEF b
  <2>1. b = [key |-> b.key, value |-> b.value, map |-> b.map]
    BY <1>3 DEF Conf
  <2> QED BY <2>1, SMTT(30) DEF Conf
<1>5. AddTo(bs, e) = [bs EXCEPT ![L] = new]
  BY <1>4, Zenon DEF AddTo
<1>6. Append(b.map, e) \in Seq(T)
  BY <1>3
<1>7. new.map = Append(b.map, e) /\ new = Conf(new.key, new.value, new.map)
  BY DEF Conf
<1> HIDE DEF new, b, L
<1>8. \A s \in Seq(T) : s \in Seq(U)
  OBVIOUS
<1>9. Tree(U)
  BY <1>6, <1>7, <1>8, Zenon DEF Tree
<1>10. [bs EXCEPT ![L] = new] \in Seq(U) /\ Len([bs EXCEPT ![L] = new]) = Len(bs)
  BY <1>1, <1>8
<1> QED BY <1>1, <1>5, <1>9, <1>10

\* An entry without entries.
LEMMA LeafTree ==
  ASSUME NEW T, Tree(T), NEW k, NEW v
  PROVE  Tree(T \cup {Conf(k, v, <<>>)})
<1> DEFINE e == Conf(k, v, <<>>)
           U == T \cup {e}
<1>1. e.map = <<>> /\ e = Conf(e.key, e.value, e.map)
  BY DEF Conf
<1> HIDE DEF e
<1>2. \A s \in Seq(T) : s \in Seq(U)
  OBVIOUS
<1>3. <<>> \in Seq(U)
  OBVIOUS
<1>4. ASSUME NEW c \in U PROVE c = Conf(c.key, c.value, c.map) /\ c.map \in Seq(U)
  <2>1. CASE c \in T
    BY <1>2, <2>1 DEF Tree
  <2>2. CASE c = e
    BY <1>1, <1>3, <2>2, Zenon
  <2> QED BY <2>1, <2>2
<1> QED BY <1>4 DEF Tree, e

LEMMA ParserInit_Inv == ParserInit => ParserInv
<1>1. Tree({})
  BY DEF Tree
<1>2. Tree({} \cup {Nil})
  BY <1>1, LeafTree DEF Nil
<1>3. <<Nil>> \in Seq({} \cup {Nil}) /\ Len(<<Nil>>) = 1
  OBVIOUS
<1> QED BY <1>2, <1>3 DEF ParserInit, ParserInv

LEMMA ParseEntryInv ==
  ASSUME ParserInv, ParseEntry
  PROVE  ParserInv'
<1>1. PICK T : Tree(T) /\ blocks \in Seq(T) /\ Len(blocks) >= 1
  BY DEF ParserInv
<1>2. \E k, v : \/ blocks' = Append(blocks, Conf(k, v, <<>>))
                \/ blocks' = AddTo(blocks, Conf(k, v, <<>>))
  BY Zenon DEF ParseEntry
<1>3. PICK k, v : \/ blocks' = Append(blocks, Conf(k, v, <<>>))
                  \/ blocks' = AddTo(blocks, Conf(k, v, <<>>))
  BY <1>2
<1> DEFINE e == Conf(k, v, <<>>)
           U == T \cup {e}
<1>4. Tree(U) /\ e \in U
  BY <1>1, LeafTree
<1> HIDE DEF e
<1>5. blocks \in Seq(U)
  BY <1>1
<1>6. CASE blocks' = Append(blocks, e)
  <2>1. blocks' \in Seq(U) /\ Len(blocks') >= 1
    BY <1>1, <1>5, <1>6
  <2> QED BY <1>4, <2>1 DEF ParserInv
<1>7. CASE blocks' = AddTo(blocks, e)
  <2>1. \E W : Tree(W) /\ AddTo(blocks, e) \in Seq(W) /\ Len(AddTo(blocks, e)) >= 1
    BY <1>1, <1>4, <1>5, AddToTree, Zenon
  <2> QED BY <1>7, <2>1 DEF ParserInv
<1> QED BY <1>3, <1>6, <1>7 DEF e

LEMMA ParseCloseInv ==
  ASSUME ParserInv, ParseClose
  PROVE  ParserInv'
<1>1. PICK T : Tree(T) /\ blocks \in Seq(T) /\ Len(blocks) >= 1
  BY DEF ParserInv
<1> DEFINE F == SubSeq(blocks, 1, Len(blocks) - 1)
<1>2. blocks' = AddTo(F, blocks[Len(blocks)]) /\ Len(blocks) > 1
  BY Zenon DEF ParseClose, CloseLast
<1>3. Len(blocks) \in Nat /\ blocks[Len(blocks)] \in T
  BY <1>1
<1>4. F \in Seq(T) /\ Len(F) >= 1
  BY <1>1, <1>2, <1>3
<1> HIDE DEF F
<1>5. \E U : Tree(U) /\ AddTo(F, blocks[Len(blocks)]) \in Seq(U)
             /\ Len(AddTo(F, blocks[Len(blocks)])) >= 1
  BY <1>1, <1>3, <1>4, AddToTree, Zenon
<1> QED BY <1>2, <1>5 DEF ParserInv

\* Steps that leave the blocks alone.
LEMMA ParserKept ==
  ASSUME ParserInv, blocks' = blocks
  PROVE  ParserInv'
  BY DEF ParserInv

\* The sections and rules of the configuration.
LEMMA ConfType ==
  ASSUME ParserInv
  PROVE  /\ IsSequence(proxies)
         /\ \A n \in DOMAIN proxies : IsSequence(rules(n))
<1>1. PICK T : Tree(T) /\ blocks \in Seq(T) /\ Len(blocks) >= 1
  BY DEF ParserInv
<1>2. conf \in T
  BY <1>1 DEF conf
<1>3. proxies \in Seq(T)
  BY <1>1, <1>2, FindAllType DEF proxies
<1>4. ASSUME NEW n \in DOMAIN proxies PROVE rules(n) \in Seq(T)
  <2>1. proxies[n] \in T
    BY <1>3, <1>4
  <2> QED BY <1>1, <2>1, FindAllType DEF rules
<1> QED BY <1>3, <1>4 DEF IsSequence

-----------------------------------------------------------------------------
(***************************************************************************)
(* The inductive invariant of the startup: whatever is opened, at any      *)
(* stage, is the beginning of what the valid tree says.                    *)
(***************************************************************************)
RuleOf(c) == IF found(c, "iface") THEN IfaceRule(c) ELSE OtherRule(c)

Section(n) ==
  /\ opened[n] = [ifa |-> proxies[n].value, opt |-> Options(proxies[n]),
                  rules |-> opened[n].rules]
  /\ IsSequence(opened[n].rules)
  /\ Len(opened[n].rules) <= Len(rules(n))
  /\ \A r \in DOMAIN opened[n].rules : opened[n].rules[r] = RuleOf(rules(n)[r])
  /\ n < Len(opened) => Len(opened[n].rules) = Len(rules(n))

Built ==
  /\ IsSequence(opened)
  /\ Len(opened) <= Len(proxies)
  /\ \A n \in DOMAIN opened : Section(n)

Flags ==
  /\ any_auto <=> \E n \in DOMAIN opened : \E r \in DOMAIN opened[n].rules :
                    opened[n].rules[r].aut
  /\ any_iface <=> \E n \in DOMAIN opened : \E r \in DOMAIN opened[n].rules :
                     opened[n].rules[r].daughter # <<>>

Progress ==
  /\ stage \in {"file", "loaded", "configure", "ready", "failed"}
  /\ stage = "file" => opened = <<>>
  /\ stage # "file" => pc = "read"
  /\ stage \in {"loaded", "configure", "ready"} \/ opened # <<>> => Valid
  /\ stage = "ready" => Complete /\ Len(opened) = Len(proxies)

StartupInv == Progress /\ Built /\ Flags

\* The tree stands still while it is read.
LEMMA ConfKept ==
  ASSUME blocks' = blocks
  PROVE  /\ proxies' = proxies
         /\ \A n : rules(n)' = rules(n)
         /\ Valid' <=> Valid
<1>1. proxies' = proxies
  BY DEF proxies, conf
<1>2. \A n : rules(n)' = rules(n)
  BY <1>1 DEF rules
<1>3. Valid' <=> Valid
  BY <1>1, <1>2 DEF Valid
<1> QED BY <1>1, <1>2, <1>3

\* A step that opens nothing.
LEMMA BuiltKept ==
  ASSUME Built, Flags, blocks' = blocks, UNCHANGED <<opened, any_auto, any_iface>>
  PROVE  Built' /\ Flags' /\ (Complete' <=> Complete)
<1>1. proxies' = proxies /\ \A n : rules(n)' = rules(n)
  BY ConfKept, ZenonT(30)
<1>2. Built'
  BY <1>1, ZenonT(30) DEF Built, Section, IsSequence
<1>3. Flags'
  BY DEF Flags
<1>4. Complete' <=> Complete
  BY <1>1 DEF Complete
<1> QED BY <1>2, <1>3, <1>4

LEMMA StartupInit_Inv == ParserInv /\ StartupInit => StartupInv
<1> SUFFICES ASSUME ParserInv, StartupInit PROVE StartupInv
  OBVIOUS
<1>1. IsSequence(<<>>) /\ Len(<<>>) = 0 /\ DOMAIN <<>> = {}
  <2>1. <<>> \in Seq({})
    OBVIOUS
  <2> QED BY <2>1 DEF IsSequence
<1>2. Len(proxies) \in Nat
  BY ConfType, SequenceType
<1>3. opened = <<>> /\ stage = "file" /\ any_auto = FALSE /\ any_iface = FALSE
  BY DEF StartupInit
<1>4. Progress
  BY <1>3 DEF Progress
<1>5. Built
  BY <1>1, <1>2, <1>3 DEF Built
<1>6. Flags
  BY <1>1, <1>3 DEF Flags
<1> QED BY <1>4, <1>5, <1>6 DEF StartupInv

\* The parser and the writer are at work before the tree is read.
LEMMA WorkInv ==
  ASSUME StartupInv, UNCHANGED startupVars, ParserInv, ParserInv', pc # "read"
  PROVE  StartupInv'
<1>1. stage = "file" /\ opened = <<>> /\ opened' = opened /\ stage' = stage
      /\ any_auto' = any_auto /\ any_iface' = any_iface
  BY DEF StartupInv, Progress, startupVars
<1>2. Progress'
  BY <1>1 DEF Progress
<1>3. Built'
  <2>1. Len(proxies)' \in Nat
    <3>1. IsSequence(proxies)'
      BY ConfType, PTL
    <3> QED BY <3>1 DEF IsSequence
  <2> QED BY <1>1, <2>1 DEF Built, StartupInv, IsSequence
<1>4. Flags'
  BY <1>1 DEF StartupInv, Flags
<1> QED BY <1>2, <1>3, <1>4 DEF StartupInv

LEMMA load_configInv ==
  ASSUME StartupInv, load_config
  PROVE  StartupInv'
<1>1. /\ blocks' = blocks /\ opened' = opened /\ any_auto' = any_auto /\ any_iface' = any_iface
      /\ stage = "file" /\ pc' = "read" /\ opened = <<>>
      /\ stage' \in {"loaded", "failed"} /\ (stage' = "loaded" => Valid)
  BY DEF load_config, Forget, StartupInv, Progress
<1>2. Built' /\ Flags' /\ (Valid' <=> Valid)
  BY <1>1, BuiltKept, ConfKept DEF StartupInv
<1>3. Progress'
  BY <1>1, <1>2 DEF Progress
<1> QED BY <1>2, <1>3 DEF StartupInv

LEMMA FailInv ==
  ASSUME StartupInv, Fail, stage # "file"
  PROVE  StartupInv'
<1>1. /\ blocks' = blocks /\ opened' = opened /\ any_auto' = any_auto /\ any_iface' = any_iface
      /\ pc' = pc /\ stage' = "failed"
  BY DEF Fail, parserVars
<1>2. Built' /\ Flags' /\ (Valid' <=> Valid)
  BY <1>1, BuiltKept, ConfKept DEF StartupInv
<1>3. Progress'
  BY <1>1, <1>2 DEF Progress, StartupInv
<1> QED BY <1>2, <1>3 DEF StartupInv

LEMMA configuredInv ==
  ASSUME StartupInv, configured
  PROVE  StartupInv'
<1>1. /\ blocks' = blocks /\ opened' = opened /\ any_auto' = any_auto /\ any_iface' = any_iface
      /\ pc' = pc /\ stage' = "ready" /\ stage \in {"loaded", "configure"}
      /\ Complete /\ Len(opened) = Len(proxies)
  BY DEF configured, Configuring, parserVars
<1>2. Built' /\ Flags' /\ (Valid' <=> Valid) /\ Complete' /\ proxies' = proxies
  BY <1>1, BuiltKept, ConfKept, Zenon DEF StartupInv
<1>3. Progress'
  BY <1>1, <1>2 DEF Progress, StartupInv
<1> QED BY <1>2, <1>3 DEF StartupInv

LEMMA open_proxyInv ==
  ASSUME StartupInv, ParserInv, open_proxy
  PROVE  StartupInv'
<1>a. IsSequence(opened) /\ Len(opened) \in Nat
  BY SequenceType DEF StartupInv, Built
<1>b. PICK L \in Nat : L = Len(opened)
  BY <1>a
<1> DEFINE c == proxies[L + 1]
           p == [ifa |-> c.value, opt |-> Options(c), rules |-> <<>>]
<1>0. Configuring /\ Complete /\ L < Len(proxies) /\ stage # "file"
  BY <1>b DEF open_proxy, Configuring
<1>1. CASE Fail
  BY <1>0, <1>1, FailInv
<1>2. CASE ~Fail
  <2>1. /\ blocks' = blocks /\ opened' = Append(opened, p) /\ any_auto' = any_auto
        /\ any_iface' = any_iface /\ pc' = pc /\ stage' = "configure"
    BY <1>b, <1>2 DEF open_proxy, parserVars
  <2>2. proxies' = proxies /\ (\A n : rules(n)' = rules(n)) /\ (Valid' <=> Valid)
    BY <2>1, ConfKept
  <2>3. /\ IsSequence(opened) /\ L \in Nat /\ DOMAIN opened = 1 .. L
        /\ IsSequence(proxies) /\ Len(proxies) \in Nat /\ DOMAIN proxies = 1 .. Len(proxies)
    BY <1>a, <1>b, ConfType, SequenceType, Zenon
  <2>4. /\ IsSequence(opened') /\ Len(opened') = L + 1 /\ DOMAIN opened' = 1 .. L + 1
        /\ opened'[L + 1] = p /\ \A n \in 1 .. L : opened'[n] = opened[n]
    <3> HIDE DEF p
    <3>1. /\ IsSequence(Append(opened, p)) /\ Len(Append(opened, p)) = L + 1
          /\ Append(opened, p)[L + 1] = p
          /\ \A n \in 1 .. L : Append(opened, p)[n] = opened[n]
      BY <1>b, <2>3, AppendType
    <3>2. DOMAIN Append(opened, p) = 1 .. L + 1
      BY <3>1, SequenceType
    <3> QED BY <2>1, <3>1, <3>2
  <2>5. Progress'
    BY <1>0, <2>1, <2>2 DEF Progress, StartupInv, Configuring
  <2>6. IsSequence(<<>>) /\ Len(<<>>) = 0 /\ DOMAIN <<>> = {}
    <3>1. <<>> \in Seq({})
      BY SMTT(30)
    <3> QED BY <3>1 DEF IsSequence
  <2>7. ASSUME NEW n \in 1 .. L PROVE Section(n)'
    <3>1. Section(n)
      BY <2>3 DEF StartupInv, Built
    <3>2. Len(opened[n].rules) = Len(rules(n))
      <4>1. CASE n < L
        BY <1>b, <3>1, <4>1 DEF Section
      <4>2. CASE n = L
        <5>1. opened # <<>>
          BY <1>b, <2>3, <4>2
        <5> QED BY <1>0, <1>b, <4>2, <5>1 DEF Complete
      <4>3. n \in Nat /\ n <= L
        BY <2>3, <2>7, SMTT(30)
      <4> QED BY <2>3, <4>1, <4>2, <4>3, SMTT(30)
    <3> QED BY <2>2, <2>4, <3>1, <3>2, Zenon DEF Section, IsSequence
  <2>8. Section(L + 1)'
    <3>1. Len(rules(L + 1)) \in Nat
      <4>1. L + 1 \in DOMAIN proxies
        BY <1>0, <2>3, SMTT(30)
      <4> QED BY <4>1, ConfType, SequenceType
    <3>2. opened'[L + 1].rules = <<>> /\ opened'[L + 1].ifa = c.value
          /\ opened'[L + 1].opt = Options(c)
      BY <2>4, SMTT(30)
    <3>3. ~(L + 1 < Len(opened'))
      BY <2>3, <2>4
    <3>4. opened'[L + 1] = [ifa |-> proxies'[L + 1].value, opt |-> Options(proxies'[L + 1]),
                            rules |-> opened'[L + 1].rules]
      BY <2>2, <2>4, <3>2, Zenon
    <3>5. IsSequence(opened'[L + 1].rules) /\ Len(opened'[L + 1].rules) = 0
          /\ DOMAIN opened'[L + 1].rules = {}
      BY <2>6, <3>2
    <3>6. Len(opened'[L + 1].rules) <= Len(rules(L + 1)')
      BY <2>2, <3>1, <3>5, SMTT(30)
    <3> QED BY <3>3, <3>4, <3>5, <3>6, Zenon DEF Section, IsSequence
  <2>9. Built'
    <3>1. \A n \in DOMAIN opened' : Section(n)'
      BY <2>3, <2>4, <2>7, <2>8, SMTT(30)
    <3>2. Len(opened') <= Len(proxies')
      BY <1>0, <2>2, <2>3, <2>4, SMTT(30)
    <3> QED BY <2>4, <3>1, <3>2, Zenon DEF Built, IsSequence
  <2>10. Flags'
    <3>1. Flags
      BY DEF StartupInv
    <3>2. \A r \in DOMAIN opened'[L + 1].rules : FALSE
      BY <2>4, <2>6, SMTT(30)
    <3>3. ASSUME NEW n \in DOMAIN opened', NEW r \in DOMAIN opened'[n].rules
          PROVE  n \in DOMAIN opened /\ opened'[n] = opened[n]
      BY <2>3, <2>4, <3>2, SMTT(30)
    <3>4. \A n \in DOMAIN opened : n \in DOMAIN opened' /\ opened'[n] = opened[n]
      BY <2>3, <2>4
    <3> QED BY <2>1, <3>1, <3>3, <3>4 DEF Flags
  <2> QED BY <2>5, <2>9, <2>10, ZenonT(30) DEF StartupInv
<1> QED BY <1>1, <1>2

LEMMA add_ruleInv ==
  ASSUME StartupInv, ParserInv, add_rule
  PROVE  StartupInv'
<1>1. /\ stage = "configure" /\ ~Complete /\ pc = "read" /\ Valid
      /\ Built /\ Flags /\ IsSequence(opened) /\ IsSequence(proxies)
  BY ConfType DEF add_rule, StartupInv, Progress, Built
<1>2. /\ Len(opened) \in Nat /\ DOMAIN opened = 1 .. Len(opened)
      /\ Len(proxies) \in Nat /\ DOMAIN proxies = 1 .. Len(proxies)
  BY <1>1, SequenceType, SMTT(30)
<1>3. PICK n \in Nat : n = Len(opened)
  BY <1>2, Zenon
<1>4. opened # <<>> /\ Len(opened[n].rules) # Len(rules(n))
  BY <1>1, <1>3 DEF Complete
<1>5. n \in DOMAIN opened /\ n \in DOMAIN proxies
  <2>1. n # 0
    BY <1>1, <1>3, <1>4 DEF IsSequence
  <2>2. n <= Len(proxies)
    BY <1>1, <1>3 DEF Built
  <2> QED BY <1>2, <1>3, <2>1, <2>2
<1>6. Section(n) /\ IsSequence(rules(n))
  BY <1>1, <1>5, ConfType, Zenon DEF Built
<1>7. IsSequence(opened[n].rules) /\ Len(opened[n].rules) <= Len(rules(n))
  BY <1>6 DEF Section
<1>8. /\ Len(opened[n].rules) \in Nat
      /\ DOMAIN opened[n].rules = 1 .. Len(opened[n].rules)
      /\ Len(rules(n)) \in Nat /\ DOMAIN rules(n) = 1 .. Len(rules(n))
  BY <1>6, <1>7, SequenceType
<1>9. PICK k \in Nat : k = Len(opened[n].rules)
  BY <1>8
<1>10. k + 1 \in DOMAIN rules(n) /\ k + 1 <= Len(rules(n))
  BY <1>4, <1>7, <1>8, <1>9, SMTT(30)
<1> DEFINE c == rules(n)[k + 1]
<1>11. ValidRule(c)
  BY <1>1, <1>5, <1>10 DEF Valid
<1>12. CASE Fail
  BY <1>1, <1>12, FailInv
<1>13. CASE ~Fail
  <2>1. /\ opened' = [opened EXCEPT ![n].rules = Append(@, RuleOf(c))]
        /\ stage' = stage /\ pc' = pc /\ blocks' = blocks
    BY <1>3, <1>9, <1>13, Zenon DEF add_rule, RuleOf, parserVars
  <2>2. /\ any_auto' <=> any_auto \/ RuleOf(c).aut
        /\ any_iface' <=> any_iface \/ RuleOf(c).daughter # <<>>
    <3>1. CASE found(c, "iface")
      <4>1. RuleOf(c).aut = FALSE /\ RuleOf(c).daughter # <<>>
        BY <1>11, <3>1, Zenon DEF RuleOf, IfaceRule, ValidRule
      <4>2. any_iface' = TRUE /\ any_auto' = any_auto
        BY <1>3, <1>9, <1>13, <3>1 DEF add_rule
      <4> QED BY <4>1, <4>2, Zenon
    <3>2. CASE ~found(c, "iface")
      <4>1. RuleOf(c).aut = found(c, "auto") /\ RuleOf(c).daughter = <<>>
        BY <3>2 DEF RuleOf, OtherRule
      <4>2. any_iface' = any_iface /\ any_auto' = (any_auto \/ found(c, "auto"))
        BY <1>3, <1>9, <1>13, <3>2 DEF add_rule
      <4> QED BY <4>1, <4>2, Zenon
    <3> QED BY <3>1, <3>2, Zenon
  <2>3. proxies' = proxies /\ (\A m : rules(m)' = rules(m)) /\ (Valid' <=> Valid)
    BY <2>1, ConfKept, Zenon
  <2> DEFINE ru == RuleOf(c)
             R == Append(opened[n].rules, ru)
  <2>4. /\ IsSequence(R) /\ Len(R) = k + 1 /\ DOMAIN R = 1 .. k + 1
        /\ R[k + 1] = ru /\ \A r \in 1 .. k : R[r] = opened[n].rules[r]
    <3> HIDE DEF ru
    <3>1. /\ IsSequence(R) /\ Len(R) = k + 1 /\ R[k + 1] = ru
          /\ \A r \in 1 .. k : R[r] = opened[n].rules[r]
      BY <1>7, <1>9, AppendType
    <3> HIDE DEF R
    <3>2. DOMAIN R = 1 .. k + 1
      BY <3>1, SequenceType, ZenonT(30)
    <3> QED BY <3>1, <3>2, Zenon
  <2> HIDE DEF ru, R
  <2>5. opened[n] = [ifa |-> proxies[n].value, opt |-> Options(proxies[n]),
                     rules |-> opened[n].rules]
    BY <1>6, Zenon DEF Section
  <2>6. /\ opened'[n] = [ifa |-> proxies[n].value, opt |-> Options(proxies[n]), rules |-> R]
        /\ DOMAIN opened' = DOMAIN opened
        /\ \A m \in DOMAIN opened : m # n => opened'[m] = opened[m]
    <3>1. opened' = [opened EXCEPT ![n] = [opened[n] EXCEPT !.rules = R]]
      BY <2>1 DEF R, ru
    <3>2. [opened[n] EXCEPT !.rules = R] =
            [ifa |-> proxies[n].value, opt |-> Options(proxies[n]), rules |-> R]
      BY <2>5
    <3> QED BY <1>5, <3>1, <3>2
  <2>7. IsSequence(opened') /\ Len(opened') = n
    <3>1. PICK S : opened \in Seq(S)
      BY <1>1 DEF IsSequence
    <3>2. opened \in Seq(S \cup {opened'[n]})
      BY <3>1
    <3>3. opened' = [opened EXCEPT ![n] = opened'[n]]
      BY <1>5, <2>1, <2>6
    <3>4. opened' \in Seq(S \cup {opened'[n]}) /\ Len(opened') = Len(opened)
      BY <1>5, <3>2, <3>3, SMTT(30)
    <3> QED BY <1>3, <3>4 DEF IsSequence
  <2>8. opened'[n].rules = R
    BY <2>6, SMTT(30)
  <2>9. Section(n)'
    <3>1. \A r \in DOMAIN R : R[r] = RuleOf(rules(n)[r])
      <4>1. \A r \in 1 .. k : opened[n].rules[r] = RuleOf(rules(n)[r])
        BY <1>6, <1>8, <1>9, Zenon DEF Section
      <4>2. R[k + 1] = RuleOf(rules(n)[k + 1])
        BY <2>4, Zenon DEF ru
      <4> QED BY <2>4, <4>1, <4>2, SMTT(30)
    <3>2. opened'[n] = [ifa |-> proxies'[n].value, opt |-> Options(proxies'[n]),
                        rules |-> opened'[n].rules]
      BY <2>3, <2>6, <2>8, Zenon
    <3>3. IsSequence(opened'[n].rules) /\ Len(opened'[n].rules) <= Len(rules(n)')
      BY <1>10, <2>3, <2>4, <2>8, ZenonT(30)
    <3>4. \A r \in DOMAIN opened'[n].rules : opened'[n].rules[r] = RuleOf(rules(n)'[r])
      BY <2>3, <2>8, <3>1
    <3>5. ~(n < Len(opened'))
      BY <2>7, SMTT(30)
    <3> QED BY <3>2, <3>3, <3>4, <3>5, ZenonT(30) DEF Section, IsSequence
  <2>10. ASSUME NEW m \in DOMAIN opened, m # n PROVE Section(m)'
    <3>1. Section(m) /\ opened'[m] = opened[m]
      BY <1>1, <2>6, <2>10, Zenon DEF Built
    <3> QED BY <1>3, <2>3, <2>7, <3>1, Zenon DEF Section, IsSequence
  <2>11. Built'
    <3>1. \A m \in DOMAIN opened' : Section(m)'
      BY <2>6, <2>9, <2>10
    <3>2. Len(opened') <= Len(proxies')
      BY <1>3, <2>3, <2>7, <1>1 DEF Built
    <3> QED BY <2>7, <3>1, <3>2, Zenon DEF Built, IsSequence
  <2>12. Progress'
    BY <1>1, <2>1, <2>3, Zenon DEF Progress
  <2>13. Flags'
    <3>1. \A r : r \in DOMAIN R <=> r \in DOMAIN opened[n].rules \/ r = k + 1
      BY <1>8, <1>9, <2>4, OneMore, Zenon
    <3>2. \A r \in DOMAIN opened[n].rules : R[r] = opened[n].rules[r]
      BY <1>8, <1>9, <2>4, ZenonT(30)
    <3>3. (\E m \in DOMAIN opened' : \E r \in DOMAIN opened'[m].rules : opened'[m].rules[r].aut)
          <=> (ru.aut \/ \E m \in DOMAIN opened : \E r \in DOMAIN opened[m].rules :
                           opened[m].rules[r].aut)
      BY <1>5, <2>4, <2>6, <2>8, <3>1, <3>2, ZenonT(30)
    <3>4. (\E m \in DOMAIN opened' : \E r \in DOMAIN opened'[m].rules :
             opened'[m].rules[r].daughter # <<>>)
          <=> (ru.daughter # <<>> \/ \E m \in DOMAIN opened :
                 \E r \in DOMAIN opened[m].rules : opened[m].rules[r].daughter # <<>>)
      BY <1>5, <2>4, <2>6, <2>8, <3>1, <3>2, SMTT(30)
    <3>5. /\ any_auto' <=> any_auto \/ ru.aut
          /\ any_iface' <=> any_iface \/ ru.daughter # <<>>
      BY <2>2, Zenon DEF ru
    <3> QED BY <1>1, <3>3, <3>4, <3>5, Zenon DEF Flags
  <2> QED BY <2>11, <2>12, <2>13, Zenon DEF StartupInv
<1> QED BY <1>12, <1>13, SMTT(30)

-----------------------------------------------------------------------------
(***************************************************************************)
(* What the startup invariant gives.                                       *)
(***************************************************************************)
\* The rule that is made of a valid one.
LEMMA RuleOfValid ==
  ASSUME NEW c, ValidRule(c)
  PROVE  /\ RuleOf(c).addr = c.value /\ c.value # <<>>
         /\ RuleOf(c).aut => RuleOf(c).daughter = <<>>
         /\ \A m \in {"iface", "auto", "static"} : found(c, m) <=> m \in Method(RuleOf(c))
<1>1. CASE found(c, "iface")
  <2>1. RuleOf(c) = IfaceRule(c)
    BY <1>1 DEF RuleOf
  <2>2. /\ RuleOf(c).addr = c.value /\ RuleOf(c).aut = FALSE
        /\ RuleOf(c).daughter = find(c, "iface").value
    BY <2>1 DEF IfaceRule
  <2>3. /\ c.value # <<>> /\ ~found(c, "static") /\ ~found(c, "auto")
        /\ find(c, "iface").value # <<>>
    BY <1>1, Zenon DEF ValidRule
  <2>4. Method(RuleOf(c)) = {"iface"}
    BY <2>2, <2>3, Zenon DEF Method
  <2> QED BY <1>1, <2>2, <2>3, <2>4
<1>2. CASE ~found(c, "iface")
  <2>1. RuleOf(c) = OtherRule(c)
    BY <1>2 DEF RuleOf
  <2>2. /\ RuleOf(c).addr = c.value /\ RuleOf(c).aut = found(c, "auto")
        /\ RuleOf(c).daughter = <<>>
    BY <2>1 DEF OtherRule
  <2>3. c.value # <<>> /\ found(c, "static") # found(c, "auto")
    BY <1>2 DEF ValidRule
  <2>4. found(c, "static") \in BOOLEAN /\ found(c, "auto") \in BOOLEAN
    BY DEF found
  <2>5. Method(RuleOf(c)) = IF found(c, "auto") THEN {"auto"} ELSE {"static"}
    BY <2>2 DEF Method
  <2> QED BY <1>2, <2>2, <2>3, <2>4, <2>5
<1> QED BY <1>1, <1>2, ZenonT(30)

\* No negative times.
LEMMA ClampType ==
  ASSUME NEW c, NEW k, NEW a \in Int, NEW b \in Nat
  PROVE  Clamp(IntOr(c, k, a), b) \in Nat
<1>1. \A v : as_int(v) \in Int
  BY StartupAssumption DEF as_int
<1>2. IntOr(c, k, a) \in Int
  BY <1>1 DEF IntOr
<1> QED BY <1>2 DEF Clamp

LEMMA OptionTimes ==
  ASSUME NEW c
  PROVE  Options(c).ttl \in Nat /\ Options(c).deadtime \in Nat /\ Options(c).timeout \in Nat
<1> DEFINE ttl == Clamp(IntOr(c, "ttl", 30000), 30000)
           deadtime == Clamp(IntOr(c, "deadtime", ttl), 30000)
           timeout == Clamp(IntOr(c, "timeout", 500), 500)
<1>1. ttl \in Nat
  BY ClampType, SMT
<1>2. timeout \in Nat
  BY ClampType, SMT
<1>3. deadtime \in Nat
  <2> HIDE DEF ttl
  <2> QED BY <1>1, ClampType, SMTT(30)
<1>4. Options(c).ttl = ttl /\ Options(c).deadtime = deadtime /\ Options(c).timeout = timeout
  BY SMT DEF Options
<1> HIDE DEF ttl, deadtime, timeout
<1> QED BY <1>1, <1>2, <1>3, <1>4

LEMMA InvRunsWhatIsWritten ==
  ASSUME StartupInv, ParserInv
  PROVE  RunsWhatIsWritten
<1> SUFFICES ASSUME stage = "ready"
             PROVE  /\ Len(opened) = Len(proxies)
                    /\ \A n \in DOMAIN opened :
                         /\ opened[n].ifa = proxies[n].value
                         /\ Len(opened[n].rules) = Len(rules(n))
                         /\ \A r \in DOMAIN opened[n].rules :
                              /\ opened[n].rules[r].addr = rules(n)[r].value
                              /\ \A m \in {"iface", "auto", "static"} :
                                   found(rules(n)[r], m) <=> m \in Method(opened[n].rules[r])
  BY DEF RunsWhatIsWritten
<1>1. Complete /\ Len(opened) = Len(proxies) /\ Valid /\ Built
  BY DEF StartupInv, Progress
<1>2. /\ Len(opened) \in Nat /\ DOMAIN opened = 1 .. Len(opened)
      /\ DOMAIN proxies = 1 .. Len(proxies)
  BY <1>1, ConfType, SequenceType, SMTT(30) DEF Built
<1>3. ASSUME NEW n \in DOMAIN opened
      PROVE  /\ opened[n].ifa = proxies[n].value
             /\ Len(opened[n].rules) = Len(rules(n))
             /\ \A r \in DOMAIN opened[n].rules :
                  /\ opened[n].rules[r].addr = rules(n)[r].value
                  /\ \A m \in {"iface", "auto", "static"} :
                       found(rules(n)[r], m) <=> m \in Method(opened[n].rules[r])
  <2>1. Section(n) /\ n \in DOMAIN proxies
    BY <1>1, <1>2, <1>3, SMTT(30) DEF Built
  <2>2. opened[n].ifa = proxies[n].value
    <3>1. opened[n] = [ifa |-> proxies[n].value, opt |-> Options(proxies[n]),
                       rules |-> opened[n].rules]
      BY <2>1, Zenon DEF Section
    <3> QED BY <3>1, SMTT(30)
  <2>3. Len(opened[n].rules) = Len(rules(n))
    <3>1. CASE n < Len(opened)
      BY <2>1, <3>1 DEF Section
    <3>2. CASE n = Len(opened)
      <4>1. opened # <<>>
        BY <1>2, <1>3, SMTT(30)
      <4> QED BY <1>1, <3>2, <4>1 DEF Complete
    <3> QED BY <1>2, <1>3, <3>1, <3>2, SMTT(30)
  <2>4. DOMAIN opened[n].rules = DOMAIN rules(n)
    BY <2>1, <2>3, ConfType, SequenceType, Zenon DEF Section
  <2>5. ASSUME NEW r \in DOMAIN opened[n].rules
        PROVE  opened[n].rules[r] = RuleOf(rules(n)[r]) /\ ValidRule(rules(n)[r])
    BY <1>1, <2>1, <2>4, <2>5, Zenon DEF Section, Valid
  <2> QED BY <2>2, <2>3, <2>5, RuleOfValid, ZenonT(30)
<1> QED BY <1>1, <1>3, ZenonT(30)

LEMMA InvDaemonCanRely ==
  ASSUME StartupInv, ParserInv
  PROVE  DaemonCanRely
<1>1. ASSUME NEW n \in DOMAIN opened
      PROVE  /\ opened[n].opt.ttl \in Nat /\ opened[n].opt.deadtime \in Nat
             /\ opened[n].opt.timeout \in Nat
             /\ opened[n].ifa # <<>>
             /\ \A r \in DOMAIN opened[n].rules :
                  /\ opened[n].rules[r].addr # <<>>
                  /\ opened[n].rules[r].aut => opened[n].rules[r].daughter = <<>>
  <2>1. Built /\ IsSequence(opened) /\ opened # <<>>
    BY <1>1 DEF StartupInv, Built
  <2>2. Valid /\ Section(n) /\ n \in DOMAIN proxies
    <3>1. Valid
      BY <2>1 DEF StartupInv, Progress
    <3>2. Section(n) /\ Len(opened) <= Len(proxies)
      BY <1>1, <2>1, Zenon DEF Built
    <3> QED BY <1>1, <2>1, <3>1, <3>2, ConfType, SequenceType, SMTT(30)
  <2>3. /\ opened[n] = [ifa |-> proxies[n].value, opt |-> Options(proxies[n]),
                        rules |-> opened[n].rules]
        /\ Len(opened[n].rules) <= Len(rules(n)) /\ IsSequence(opened[n].rules)
    BY <2>2, Zenon DEF Section
  <2>4. opened[n].ifa = proxies[n].value /\ opened[n].opt = Options(proxies[n])
    BY <2>3
  <2>5. proxies[n].value # <<>>
    BY <2>2, Zenon DEF Valid
  <2>6. ASSUME NEW r \in DOMAIN opened[n].rules
        PROVE  opened[n].rules[r] = RuleOf(rules(n)[r]) /\ ValidRule(rules(n)[r])
    <3>1. r \in DOMAIN rules(n)
      <4>1. IsSequence(rules(n))
        BY <2>2, ConfType, Zenon
      <4> QED BY <2>3, <2>6, <4>1, LongerDomain, Zenon
    <3> QED BY <2>2, <2>6, <3>1, ZenonT(30) DEF Section, Valid
  <2>7. /\ opened[n].opt.ttl \in Nat /\ opened[n].opt.deadtime \in Nat
        /\ opened[n].opt.timeout \in Nat
    BY <2>4, OptionTimes, Zenon
  <2>8. ASSUME NEW r \in DOMAIN opened[n].rules
        PROVE  /\ opened[n].rules[r].addr # <<>>
               /\ opened[n].rules[r].aut => opened[n].rules[r].daughter = <<>>
    BY <2>6, RuleOfValid, Zenon
  <2> QED BY <2>4, <2>5, <2>7, <2>8, Zenon
<1> QED BY <1>1, Zenon DEF DaemonCanRely, StartupInv, Flags

-----------------------------------------------------------------------------
(***************************************************************************)
(* main().                                                                 *)
(***************************************************************************)
\* How far the process is, and what its launcher has seen.
ProcessInv ==
  /\ process \in {"none", "main", "loop", "exited"}
  /\ process = "none" => stage = "file"
  /\ process = "loop" => stage = "ready"
  /\ stage = "file" => daemon = FALSE
  /\ process # "exited" => status = "0"
  /\ process # "exited" /\ ~daemon => launcher = "waits"
  /\ process \in {"none", "main"} => measured = 0 /\ jumps = 0

IInv == ParserInv /\ StartupInv /\ ProcessInv /\ StatusTellsFailure /\ ClockInv

LEMMA InitIInv == Init => IInv
<1> SUFFICES ASSUME Init PROVE IInv
  OBVIOUS
<1>1. ParserInv
  BY ParserInit_Inv DEF Init
<1>2. StartupInv
  BY <1>1, StartupInit_Inv DEF Init
<1>3. ProcessInv /\ StatusTellsFailure
  BY DEF Init, StartupInit, ClockInit, ProcessInv, StatusTellsFailure
<1>4. ClockInv
  BY ClockInit_Inv DEF Init
<1> QED BY <1>1, <1>2, <1>3, <1>4 DEF IInv

\* Steps of the parser and the writer.
LEMMA TextSteps ==
  ASSUME IInv, Edit \/ Parse
  PROVE  IInv'
<1>1. /\ UNCHANGED <<startupVars, clockVars, mainVars>> /\ pc # "read"
      /\ blocks' = blocks \/ ParseEntry \/ ParseClose
  BY Zenon DEF Edit, Parse, Writer, Write, Open, Close, Parser, Unreadable, ParseEntry, ParseAccept,
         ParseClose, ParseReject
<1>2. ParserInv'
  BY <1>1, ParserKept, ParseEntryInv, ParseCloseInv DEF IInv
<1>3. StartupInv'
  BY <1>1, <1>2, WorkInv, Zenon DEF IInv
<1>4. ProcessInv' /\ StatusTellsFailure' /\ ClockInv'
  BY <1>1, ClockNext_Inv
  DEF IInv, ProcessInv, StatusTellsFailure, startupVars, clockVars, mainVars
<1> QED BY <1>2, <1>3, <1>4, SMTT(30) DEF IInv

\* A step that leaves the tree and what is made of it alone.
LEMMA StartupKept ==
  ASSUME IInv, UNCHANGED <<parserVars, startupVars>>
  PROVE  ParserInv' /\ StartupInv'
<1>1. /\ blocks' = blocks /\ pc' = pc /\ stage' = stage
      /\ UNCHANGED <<opened, any_auto, any_iface>>
  BY DEF parserVars, startupVars
<1>2. Built' /\ Flags' /\ (Complete' <=> Complete) /\ proxies' = proxies /\ (Valid' <=> Valid)
  BY <1>1, BuiltKept, ConfKept, Zenon DEF IInv, StartupInv
<1>3. Progress'
  BY <1>1, <1>2 DEF IInv, StartupInv, Progress
<1> QED BY <1>1, <1>2, <1>3, ParserKept DEF IInv, StartupInv

LEMMA LaunchKeeps ==
  ASSUME IInv, Launch
  PROVE  IInv'
<1>1. /\ blocks' = blocks /\ UNCHANGED <<startupVars, clockVars>> /\ pc # "read"
      /\ process = "none" /\ process' = "main" /\ UNCHANGED <<daemon, status, launcher>>
  BY DEF Launch, Load
<1>2. ParserInv'
  BY <1>1, ParserKept DEF IInv
<1>3. StartupInv'
  BY <1>1, <1>2, WorkInv, Zenon DEF IInv
<1>4. ProcessInv' /\ StatusTellsFailure' /\ ClockInv'
  BY <1>1, ClockNext_Inv DEF IInv, ProcessInv, StatusTellsFailure, startupVars, clockVars
<1> QED BY <1>2, <1>3, <1>4 DEF IInv

LEMMA LoadConfigKeeps ==
  ASSUME IInv, LoadConfig
  PROVE  IInv'
<1>1. /\ process = "main" /\ load_config /\ UNCHANGED <<process, status, launcher, clockVars>>
      /\ daemon' \in BOOLEAN
  BY DEF LoadConfig
<1>2. stage = "file" /\ stage' # "file" /\ blocks' = blocks
  BY <1>1 DEF load_config, Forget
<1>3. ParserInv' /\ StartupInv'
  BY <1>1, <1>2, ParserKept, load_configInv, Zenon DEF IInv
<1>4. ProcessInv' /\ StatusTellsFailure' /\ ClockInv'
  BY <1>1, <1>2, ClockNext_Inv DEF IInv, ProcessInv, StatusTellsFailure, clockVars
<1> QED BY <1>3, <1>4 DEF IInv

LEMMA ConfigureKeeps ==
  ASSUME IInv, Configure
  PROVE  IInv'
<1>1. process = "main" /\ configure /\ UNCHANGED <<clockVars, mainVars>>
  BY Zenon DEF Configure
<1>2. blocks' = blocks /\ stage # "file" /\ stage' # "file"
  BY <1>1 DEF configure, open_proxy, add_rule, configured, Configuring, Fail, parserVars
<1>3. ParserInv' /\ StartupInv'
  BY <1>1, <1>2, ParserKept, open_proxyInv, add_ruleInv, configuredInv, Zenon DEF IInv, configure
<1>4. ProcessInv' /\ StatusTellsFailure' /\ ClockInv'
  BY <1>1, <1>2, ClockNext_Inv DEF IInv, ProcessInv, StatusTellsFailure, clockVars, mainVars
<1> QED BY <1>3, <1>4 DEF IInv

\* The process becomes a daemon, ends, or is told to.
LEMMA ProcessSteps ==
  ASSUME IInv, Daemonize \/ DaemonizeFails \/ Refuse \/ LeaveLoop \/ exit_ndppd
  PROVE  IInv'
<1>1. UNCHANGED <<parserVars, startupVars, clockVars>>
  BY DEF Daemonize, DaemonizeFails, Refuse, LeaveLoop, exit_ndppd
<1>2. ParserInv' /\ StartupInv'
  BY <1>1, StartupKept
<1>3. ClockInv'
  BY <1>1, ClockNext_Inv DEF IInv
<1>4. ProcessInv' /\ StatusTellsFailure'
  <2>1. stage' = stage /\ measured' = measured /\ jumps' = jumps
    BY <1>1 DEF startupVars, clockVars
  <2>2. ProcessInv /\ StatusTellsFailure
    BY Zenon DEF IInv
  <2>3. CASE Daemonize
    BY <2>1, <2>2, <2>3, Zenon DEF Daemonize, ProcessInv, StatusTellsFailure
  <2>4. CASE DaemonizeFails
    BY <2>1, <2>2, <2>4, Zenon DEF DaemonizeFails, ProcessInv, StatusTellsFailure
  <2>5. CASE Refuse
    BY <2>1, <2>2, <2>5, Zenon DEF Refuse, Exit, ProcessInv, StatusTellsFailure
  <2>6. CASE LeaveLoop
    BY <2>1, <2>2, <2>6, Zenon DEF LeaveLoop, Exit, ProcessInv, StatusTellsFailure
  <2>7. CASE exit_ndppd
    BY <2>1, <2>2, <2>7 DEF exit_ndppd, ProcessInv, StatusTellsFailure
  <2> QED BY <2>3, <2>4, <2>5, <2>6, <2>7, Zenon
<1> QED BY <1>2, <1>3, <1>4, Zenon DEF IInv

LEMMA EnterLoopKeeps ==
  ASSUME IInv, EnterLoop
  PROVE  IInv'
<1>1. /\ process = "main" /\ stage = "ready" /\ process' = "loop"
      /\ t1' = wall /\ start' = wall
      /\ UNCHANGED <<wall, measured, jumps, daemon, status, launcher, parserVars, startupVars>>
  BY DEF EnterLoop
<1>2. ParserInv' /\ StartupInv'
  BY <1>1, StartupKept, Zenon
<1>3. ProcessInv' /\ StatusTellsFailure'
  BY <1>1 DEF IInv, ProcessInv, StatusTellsFailure, startupVars
<1>4. ClockInv'
  <2>1. wall \in timeval /\ measured = 0 /\ jumps = 0
    BY <1>1 DEF IInv, ClockInv, ProcessInv
  <2>2. Micros(wall) \in Int /\ wall.sec \in Int /\ Usec \in Nat
    BY <2>1, MicrosInt, ClockAssumption
  <2>3. MeasuresTime'
    BY <1>1, <2>1, <2>2 DEF MeasuresTime
  <2> QED BY <1>1, <2>1, <2>3 DEF ClockInv
<1> QED BY <1>2, <1>3, <1>4 DEF IInv

LEMMA LoopKeeps ==
  ASSUME IInv, Loop
  PROVE  IInv'
<1>1. process = "loop" /\ ClockNext /\ UNCHANGED <<parserVars, startupVars, mainVars>>
  BY DEF Loop
<1>2. ParserInv' /\ StartupInv'
  BY <1>1, StartupKept
<1>3. ProcessInv' /\ StatusTellsFailure'
  BY <1>1 DEF IInv, ProcessInv, StatusTellsFailure, startupVars, mainVars
<1>4. ClockInv'
  BY <1>1, ClockNext_Inv DEF IInv
<1> QED BY <1>2, <1>3, <1>4 DEF IInv

LEMMA NextIInv == IInv /\ [Next]_vars => IInv'
<1> SUFFICES ASSUME IInv, [Next]_vars PROVE IInv'
  OBVIOUS
<1>1. CASE UNCHANGED vars
  <2>1. ParserInv' /\ StartupInv'
    BY <1>1, StartupKept, Zenon DEF vars
  <2>2. ProcessInv' /\ StatusTellsFailure' /\ ClockInv'
    BY <1>1, ClockNext_Inv
    DEF vars, IInv, ProcessInv, StatusTellsFailure, startupVars, clockVars, mainVars
  <2> QED BY <2>1, <2>2 DEF IInv
<1>2. CASE Next
  BY <1>2, TextSteps, LaunchKeeps, LoadConfigKeeps, ConfigureKeeps, ProcessSteps, EnterLoopKeeps,
     LoopKeeps
  DEF Next, Works
<1> QED BY <1>1, <1>2

LEMMA SpecIInv == Spec => []IInv
  BY InitIInv, NextIInv, PTL DEF Spec

\* Whatever a file says that the daemon gets to run with, it runs with that: the
\* proxies, rules and methods of the file (load_config, configure).
THEOREM RunsAsWritten == Spec => []RunsWhatIsWritten
<1>1. IInv => RunsWhatIsWritten
  BY InvRunsWhatIsWritten DEF IInv
<1> QED BY <1>1, SpecIInv, PTL

\* Sessions and rules find the options, methods and flags they rely on, also when
\* the configuration fails halfway (configure, rule::create).
THEOREM DaemonRelies == Spec => []DaemonCanRely
<1>1. IInv => DaemonCanRely
  BY InvDaemonCanRely DEF IInv
<1> QED BY <1>1, SpecIInv, PTL

\* Failure reaches the launcher as an exit status, whatever fails and whenever a
\* signal arrives (main).
THEOREM FailureIsReported == Spec => []StatusTellsFailure
<1>1. IInv => StatusTellsFailure
  BY DEF IInv
<1> QED BY <1>1, SpecIInv, PTL

\* The clock of the running daemon, which starts when the loop is entered (main).
THEOREM LoopMeasuresTime == Spec => []MeasuresTime
<1>1. IInv => MeasuresTime
  BY DEF IInv, ClockInv
<1> QED BY <1>1, SpecIInv, PTL

-----------------------------------------------------------------------------
(***************************************************************************)
(* The parser gets through every text.                                     *)
(***************************************************************************)
\* A set of numbers up to N has a greatest element.
LEMMA Greatest ==
  ASSUME NEW N \in Nat, NEW S, S \subseteq 1 .. N, S # {}
  PROVE  \E m \in S : \A k \in S : k <= m
<1> DEFINE R == {n \in Nat : \E k \in S : n = N - k}
<1>1. R # {}
  <2>1. PICK k \in S : TRUE
    BY Zenon
  <2>2. N - k \in Nat
    BY <2>1
  <2> QED BY <2>1, <2>2, Zenon
<1>2. PICK r \in R : \A k \in R : r <= k
  BY <1>1, LeastNat, Zenon
<1>3. PICK m \in S : r = N - m
  BY <1>2
<1>4. ASSUME NEW k \in S PROVE k <= m
  <2>1. N - k \in Nat
    OBVIOUS
  <2>2. N - k \in R
    BY <2>1, Zenon
  <2>3. N - m <= N - k
    BY <1>2, <1>3, <2>2, Zenon
  <2> HIDE DEF R
  <2> QED BY <2>3
<1> QED BY <1>4

\* A function that is defined by recursion to greater arguments exists.
Recursion(f, N, stop, base, next) ==
  f = [k \in 1 .. N |-> IF k \in stop THEN base[k] ELSE f[next[k]]]

\* A function defined by going to greater places of the text exists.
LEMMA RecursionExists ==
  ASSUME NEW N \in Nat, NEW stop, NEW base, NEW next,
         \A k \in 1 .. N : k \notin stop => next[k] \in k + 1 .. N
  PROVE  \E f : Recursion(f, N, stop, base, next)
<1> DEFINE Partial(g, k) == g = [j \in k .. N |-> IF j \in stop THEN base[j] ELSE g[next[j]]]
           Bad == {k \in 1 .. N : ~\E g : Partial(g, k)}
<1>1. CASE N = 0
  <2> DEFINE f == [k \in 1 .. N |-> base[k]]
  <2>1. f = [k \in 1 .. N |-> IF k \in stop THEN base[k] ELSE f[next[k]]]
    BY <1>1
  <2> QED BY <2>1, Zenon DEF Recursion
<1>2. CASE N # 0 /\ Bad # {}
  <2>1. PICK k \in Bad : \A j \in Bad : j <= k
    <3> HIDE DEF Partial
    <3>1. Bad \subseteq 1 .. N
      OBVIOUS
    <3> HIDE DEF Bad
    <3> QED BY <1>2, <3>1, Greatest, Zenon
  <2>2. \E g : Partial(g, k + 1)
    <3>1. CASE k = N
      <4> DEFINE g == [j \in N + 1 .. N |-> 0]
      <4>1. Partial(g, k + 1)
        BY <3>1
      <4> QED BY <4>1
    <3>2. CASE k # N
      <4>1. k + 1 \in 1 .. N /\ ~(k + 1 <= k)
        BY <2>1, <3>2
      <4> HIDE DEF Partial
      <4> QED BY <2>1, <4>1
    <3> QED BY <3>1, <3>2, SMTT(30)
  <2>3. PICK g : Partial(g, k + 1)
    BY <2>2
  <2> DEFINE first == IF k \in stop THEN base[k] ELSE g[next[k]]
             h == [j \in k .. N |-> IF j = k THEN first ELSE g[j]]
  <2>4. k \in 1 .. N
    BY <2>1, Zenon
  <2>5. ASSUME NEW j \in k .. N
        PROVE  h[j] = IF j \in stop THEN base[j] ELSE h[next[j]]
    <3>1. CASE j \in stop
      <4>1. CASE j = k
        BY <3>1, <4>1, Zenon
      <4>2. CASE j # k
        <5>1. j \in k + 1 .. N
          BY <2>4, <2>5, <4>2, SMTT(30)
        <5>2. h[j] = g[j]
          BY <4>2, Zenon
        <5> QED BY <2>3, <3>1, <5>1, <5>2, SMTT(30)
      <4> QED BY <4>1, <4>2, Zenon
    <3>2. CASE j \notin stop
      <4>1. next[j] \in j + 1 .. N
        BY <2>4, <2>5, <3>2, SMTT(30)
      <4>2. next[j] \in k .. N /\ next[j] # k
        BY <2>4, <2>5, <4>1, SMTT(30)
      <4>3. h[next[j]] = g[next[j]]
        BY <4>2
      <4>4. CASE j = k
        BY <3>2, <4>3, <4>4, Zenon
      <4>5. CASE j # k
        <5>1. j \in k + 1 .. N
          BY <2>4, <2>5, <4>5
        <5>2. h[j] = g[j]
          BY <4>5
        <5> QED BY <2>3, <3>2, <4>3, <5>1, <5>2, ZenonT(30)
      <4> QED BY <4>4, <4>5
    <3> QED BY <3>1, <3>2, Zenon
  <2>6. Partial(h, k)
    <3>1. h = [j \in k .. N |-> h[j]]
      OBVIOUS
    <3> HIDE DEF h
    <3>2. [j \in k .. N |-> h[j]] = [j \in k .. N |-> IF j \in stop THEN base[j] ELSE h[next[j]]]
      BY <2>5
    <3> QED BY <3>1, <3>2, SMTT(30)
  <2> QED BY <2>1, <2>6, Zenon
<1>3. CASE N # 0 /\ Bad = {}
  <2>1. 1 \in 1 .. N
    BY <1>3
  <2> QED BY <1>3, <2>1, Zenon DEF Recursion
<1> QED BY <1>1, <1>2, <1>3

\* The positions of the pointer into the text, the end included.
Positions == 1 .. Len(text) + 1

\* Past a run of characters is further on, within the text or at its end.
LEMMA PastType ==
  ASSUME IsSequence(text), NEW n \in Positions, NEW C, "end" \notin C
  PROVE  /\ Past(n, C) \in n .. Len(text) + 1 /\ At(Past(n, C)) \notin C
         /\ Past(n, C) \in Positions
<1> DEFINE L == Len(text)
           S == {m \in n .. L + 1 : At(m) \notin C}
<1>1. L \in Nat /\ n \in 1 .. L + 1
  BY SequenceType DEF Positions
<1>2. At(L + 1) = "end"
  BY <1>1 DEF At
<1> HIDE DEF L
<1>3. S # {} /\ S \subseteq Nat
  <2>1. L + 1 \in n .. L + 1 /\ n .. L + 1 \subseteq Nat
    BY <1>1
  <2> QED BY <1>2, <2>1, Zenon
<1>4. PICK m \in S : \A k \in S : m <= k
  BY <1>3, LeastNat, Zenon
<1>5. ASSUME NEW k \in n .. m - 1 PROVE At(k) \in C
  <2>1. m \in n .. L + 1
    BY <1>4
  <2>2. k \in n .. L + 1 /\ ~(m <= k)
    BY <1>1, <2>1
  <2> QED BY <1>4, <2>2, Zenon
<1>6. \E j \in n .. L + 1 : At(j) \notin C /\ \A k \in n .. j - 1 : At(k) \in C
  BY <1>4, <1>5, Zenon
<1>7. Past(n, C) \in n .. L + 1 /\ At(Past(n, C)) \notin C
  BY <1>6, Zenon DEF Past, L
<1> QED BY <1>1, <1>7 DEF L, Positions

\* So is the place a search ends at.
LEMMA SeekType ==
  ASSUME IsSequence(text), NEW n \in Positions, NEW C
  PROVE  /\ Seek(n, C) \in n .. Len(text) + 1 /\ At(Seek(n, C)) \in C \cup {"end"}
         /\ Seek(n, C) \in Positions
<1> DEFINE L == Len(text)
           S == {m \in n .. L + 1 : At(m) \in C \cup {"end"}}
<1>1. L \in Nat /\ n \in 1 .. L + 1
  BY SequenceType DEF Positions
<1>2. At(L + 1) = "end"
  BY <1>1 DEF At
<1> HIDE DEF L
<1>3. S # {} /\ S \subseteq Nat
  <2>1. L + 1 \in n .. L + 1 /\ n .. L + 1 \subseteq Nat
    BY <1>1
  <2>2. "end" \in C \cup {"end"}
    OBVIOUS
  <2> QED BY <1>2, <2>1, <2>2, Zenon
<1>4. PICK m \in S : \A k \in S : m <= k
  BY <1>3, LeastNat, Zenon
<1>5. ASSUME NEW k \in n .. m - 1 PROVE At(k) \notin C
  <2>1. m \in n .. L + 1
    BY <1>4
  <2>2. k \in n .. L + 1 /\ ~(m <= k)
    BY <1>1, <2>1
  <2>3. k \notin S
    BY <1>4, <2>2, Zenon
  <2> QED BY <2>2, <2>3
<1>6. \E j \in n .. L + 1 : At(j) \in C \cup {"end"} /\ \A k \in n .. j - 1 : At(k) \notin C
  BY <1>4, <1>5, Zenon
<1>7. Seek(n, C) \in n .. L + 1 /\ At(Seek(n, C)) \in C \cup {"end"}
  BY <1>6, Zenon DEF Seek, L
<1> QED BY <1>1, <1>7 DEF L, Positions

\* One round of skip: where the blanks from k on end, and where the text goes on
\* behind the comment that begins there.
Marks == {"#", "//", "/*"}
BlanksEnd(k, newlines) == Past(k, Blank(newlines))
CommentEnd(m) ==
  IF At(m) \in {"#", "//"} THEN Seek(m, {"nl"})
  ELSE IF At(Seek(m, {"*/"})) = "end" THEN Seek(m, {"*/"}) ELSE Seek(m, {"*/"}) + 1

\* A comment is left behind.
LEMMA CommentAdvances ==
  ASSUME IsSequence(text), NEW m \in Positions, At(m) \in Marks
  PROVE  CommentEnd(m) \in m + 1 .. Len(text) + 1
<1>0. Len(text) \in Nat /\ m \in 1 .. Len(text) + 1
  BY SequenceType DEF Positions
<1>1. CASE At(m) \in {"#", "//"}
  <2>1. Seek(m, {"nl"}) \in m .. Len(text) + 1 /\ At(Seek(m, {"nl"})) \in {"nl"} \cup {"end"}
    BY SeekType, Zenon
  <2>2. Seek(m, {"nl"}) # m
    BY <1>1, <2>1
  <2>3. Seek(m, {"nl"}) \in m + 1 .. Len(text) + 1
    BY <1>0, <2>1, <2>2
  <2> QED BY <1>1, <2>3, Zenon DEF CommentEnd
<1>2. CASE At(m) = "/*"
  <2> DEFINE e == Seek(m, {"*/"})
  <2>1. e \in m .. Len(text) + 1 /\ At(e) \in {"*/"} \cup {"end"}
    BY SeekType, Zenon
  <2>2. e # m
    BY <1>2, <2>1
  <2>3. CommentEnd(m) = IF At(e) = "end" THEN e ELSE e + 1
    BY <1>2 DEF CommentEnd
  <2> HIDE DEF e
  <2>4. CASE At(e) = "end"
    BY <1>0, <2>1, <2>2, <2>3, <2>4, SMTT(30)
  <2>5. CASE At(e) # "end"
    <3>1. e <= Len(text)
      BY <1>0, <2>1, <2>5 DEF At
    <3> QED BY <1>0, <2>1, <2>2, <2>3, <2>5, <3>1, SMTT(30)
  <2> QED BY <2>4, <2>5
<1> QED BY <1>1, <1>2 DEF Marks

\* skip as the recursion it is.
SkipFrom(newlines) ==
  CHOOSE f : f = [k \in 1 .. Len(text) + 1 |->
    IF At(BlanksEnd(k, newlines)) \in Marks THEN f[CommentEnd(BlanksEnd(k, newlines))]
    ELSE BlanksEnd(k, newlines)]

\* skip is the value of a recursion, which goes on behind every comment.
LEMMA SkipIsFrom ==
  ASSUME NEW n, NEW b
  PROVE  skip(n, b) = SkipFrom(b)[n]
  BY Zenon DEF skip, SkipFrom, BlanksEnd, CommentEnd, Marks

\* The recursion has a solution, and SkipFrom is one.
LEMMA SkipRecursion ==
  ASSUME IsSequence(text), NEW b, NEW n \in Positions
  PROVE  SkipFrom(b)[n] = IF At(BlanksEnd(n, b)) \in Marks
                          THEN SkipFrom(b)[CommentEnd(BlanksEnd(n, b))]
                          ELSE BlanksEnd(n, b)
<1> DEFINE N == Len(text) + 1
           stop == {k \in 1 .. N : At(BlanksEnd(k, b)) \notin Marks}
           base == [k \in 1 .. N |-> BlanksEnd(k, b)]
           next == [k \in 1 .. N |-> CommentEnd(BlanksEnd(k, b))]
           body(f) == [k \in 1 .. N |->
                         IF At(BlanksEnd(k, b)) \in Marks
                         THEN f[CommentEnd(BlanksEnd(k, b))] ELSE BlanksEnd(k, b)]
<1>1. N \in Nat
  BY SequenceType
<1>2. ASSUME NEW k \in 1 .. N, k \notin stop PROVE next[k] \in k + 1 .. N
  <2>1. "end" \notin Blank(b)
    BY DEF Blank
  <2>2. k \in Positions
    BY DEF Positions
  <2>3. BlanksEnd(k, b) \in k .. N /\ BlanksEnd(k, b) \in Positions
    BY <2>1, <2>2, PastType, Zenon DEF BlanksEnd
  <2>4. At(BlanksEnd(k, b)) \in Marks
    BY <1>2, Zenon
  <2>5. CommentEnd(BlanksEnd(k, b)) \in BlanksEnd(k, b) + 1 .. N
    BY <2>3, <2>4, CommentAdvances, Zenon
  <2>6. next[k] = CommentEnd(BlanksEnd(k, b))
    BY <1>2, Zenon
  <2> HIDE DEF N, next
  <2> QED BY <1>1, <2>3, <2>5, <2>6
<1> HIDE DEF N
<1>3. PICK f : f = [k \in 1 .. N |-> IF k \in stop THEN base[k] ELSE f[next[k]]]
  <2>1. \A k \in 1 .. N : k \notin stop => next[k] \in k + 1 .. N
    BY <1>2, Zenon
  <2> HIDE DEF stop, base, next
  <2>2. \E f : Recursion(f, N, stop, base, next)
    BY <1>1, <2>1, RecursionExists
  <2> QED BY <2>2, Zenon DEF Recursion
<1>4. [k \in 1 .. N |-> IF k \in stop THEN base[k] ELSE f[next[k]]] = body(f)
  BY Zenon
<1>5. f = body(f)
  BY <1>3, <1>4, Zenon
<1>6. SkipFrom(b) = CHOOSE g : g = body(g)
  BY Zenon DEF SkipFrom, N
<1>7. SkipFrom(b) = body(SkipFrom(b))
  <2> HIDE DEF body
  <2> QED BY <1>5, <1>6, Zenon
<1>8. n \in 1 .. N
  BY DEF N, Positions
<1> QED BY <1>7, <1>8, Zenon

\* skip never goes back, stops inside the text or at its end, and not at a blank.
LEMMA SkipType ==
  ASSUME IsSequence(text), NEW b, NEW n \in Positions
  PROVE  /\ skip(n, b) \in n .. Len(text) + 1 /\ skip(n, b) \in Positions
         /\ At(skip(n, b)) \notin Blank(b)
<1> DEFINE N == Len(text) + 1
           Fine(k) == SkipFrom(b)[k] \in k .. N /\ At(SkipFrom(b)[k]) \notin Blank(b)
           Bad == {k \in 1 .. N : ~Fine(k)}
<1>1. N \in Nat
  BY SequenceType
<1>2. Bad = {}
  <2> SUFFICES ASSUME Bad # {} PROVE FALSE
    OBVIOUS
  <2>1. PICK k \in Bad : \A j \in Bad : j <= k
    <3>1. Bad \subseteq 1 .. N
      OBVIOUS
    <3> HIDE DEF Bad, N
    <3> QED BY <1>1, <3>1, Greatest, Zenon
  <2>2. k \in 1 .. N /\ ~Fine(k)
    BY <2>1, Zenon
  <2> DEFINE m == BlanksEnd(k, b)
  <2>3. m \in k .. N /\ m \in Positions /\ At(m) \notin Blank(b)
    <3>1. "end" \notin Blank(b)
      BY DEF Blank
    <3>2. k \in Positions
      BY <2>2 DEF Positions
    <3> QED BY <3>1, <3>2, PastType, Zenon DEF BlanksEnd
  <2>4. SkipFrom(b)[k] = IF At(m) \in Marks THEN SkipFrom(b)[CommentEnd(m)] ELSE m
    <3>1. k \in Positions
      BY <2>2 DEF Positions
    <3> QED BY <3>1, SkipRecursion, Zenon
  <2>5. CASE At(m) \in Marks
    <3>1. CommentEnd(m) \in m + 1 .. N
      BY <2>3, <2>5, CommentAdvances, Zenon
    <3> HIDE DEF m, Bad, N, Fine
    <3>2. CommentEnd(m) \in 1 .. N /\ CommentEnd(m) > k
      BY <1>1, <2>2, <2>3, <3>1, SMTT(30)
    <3>3. CommentEnd(m) \notin Bad
      BY <2>1, <2>2, <3>2
    <3>4. Fine(CommentEnd(m))
      BY <3>2, <3>3, Zenon DEF Bad
    <3>5. SkipFrom(b)[k] = SkipFrom(b)[CommentEnd(m)]
      BY <2>4, <2>5, Zenon
    <3>6. SkipFrom(b)[k] \in CommentEnd(m) .. N /\ At(SkipFrom(b)[k]) \notin Blank(b)
      BY <3>4, <3>5, Zenon DEF Fine
    <3>7. SkipFrom(b)[k] \in k .. N
      BY <1>1, <2>2, <3>2, <3>6
    <3> QED BY <2>2, <3>6, <3>7, Zenon DEF Fine
  <2>6. CASE At(m) \notin Marks
    BY <2>2, <2>3, <2>4, <2>6, Zenon
  <2> QED BY <2>5, <2>6
<1>3. n \in 1 .. N
  BY DEF Positions
<1>4. Fine(n)
  BY <1>2, <1>3, Zenon
<1>5. skip(n, b) \in n .. N /\ At(skip(n, b)) \notin Blank(b)
  BY <1>4, SkipIsFrom, Zenon
<1>6. skip(n, b) \in 1 .. N
  <2> HIDE DEF N
  <2> QED BY <1>1, <1>3, <1>5
<1> QED BY <1>5, <1>6, Zenon DEF Positions

\* At(n) is a lexeme of the text or the end.
LEMMA InText ==
  ASSUME NEW n, At(n) # "end"
  PROVE  n <= Len(text)
  BY Zenon DEF At

\* The place behind one in the text.
LEMMA NextPlace ==
  ASSUME IsSequence(text), NEW n \in Positions, n <= Len(text)
  PROVE  n + 1 \in Positions
  BY SequenceType DEF Positions

\* Behind a key, and behind its value.
LEMMA ValueStartType ==
  ASSUME IsSequence(text), NEW n \in Positions
  PROVE  /\ ValueStart(n) \in n .. Len(text) + 1 /\ ValueStart(n) \in Positions
         /\ ValueStart(n) = n => At(n) # "="
<1>0. Len(text) \in Nat /\ n \in 1 .. Len(text) + 1
  BY SequenceType DEF Positions
<1> DEFINE m == skip(n, FALSE)
           r == skip(m + 1, FALSE)
<1>1. m \in n .. Len(text) + 1 /\ m \in Positions
  BY SkipType, Zenon
<1>2. ValueStart(n) = IF At(m) = "=" THEN r ELSE m
  BY DEF ValueStart
<1>3. CASE At(m) # "="
  BY <1>1, <1>2, <1>3, Zenon
<1>4. CASE At(m) = "="
  <2>1. m <= Len(text)
    BY <1>4, InText, Zenon
  <2>2. m + 1 \in Positions
    BY <1>1, <2>1, NextPlace, Zenon
  <2>3. r \in m + 1 .. Len(text) + 1 /\ r \in Positions
    BY <2>2, SkipType, Zenon
  <2> HIDE DEF m, r
  <2>4. r \in n .. Len(text) + 1 /\ r # n
    BY <1>0, <1>1, <2>3
  <2> QED BY <1>2, <1>4, <2>3, <2>4, Zenon
<1> QED BY <1>3, <1>4, Zenon

\* A value is empty only in front of a blank, a brace or the end.
LEMMA ValueEndType ==
  ASSUME IsSequence(text), NEW n \in Positions
  PROVE  /\ ValueEnd(n) \in n .. Len(text) + 1 /\ ValueEnd(n) \in Positions
         /\ ValueEnd(n) = n => At(n) \in {"sp", "nl", "{", "}", "end"}
<1>0. Len(text) \in Nat /\ n \in 1 .. Len(text) + 1
  BY SequenceType DEF Positions
<1>1. CASE At(n) = "quote"
  <2> DEFINE e == Seek(n + 1, {"quote", "nl"})
  <2>1. n <= Len(text)
    BY <1>1, InText, Zenon
  <2>2. n + 1 \in Positions
    BY <2>1, NextPlace, Zenon
  <2>3. e \in n + 1 .. Len(text) + 1 /\ e \in Positions
    BY <2>2, SeekType, Zenon
  <2>4. ValueEnd(n) = e
    BY <1>1, Zenon DEF ValueEnd
  <2> HIDE DEF e
  <2>5. e \in n .. Len(text) + 1 /\ e # n
    BY <1>0, <2>3
  <2> QED BY <2>3, <2>4, <2>5, Zenon
<1>2. CASE At(n) # "quote"
  <2> DEFINE C == {"sp", "nl", "{", "}"}
             e == Seek(n, C)
  <2>1. e \in n .. Len(text) + 1 /\ At(e) \in C \cup {"end"} /\ e \in Positions
    BY SeekType, Zenon
  <2>2. ValueEnd(n) = e
    BY <1>2, Zenon DEF ValueEnd
  <2>3. C \cup {"end"} = {"sp", "nl", "{", "}", "end"}
    BY Zenon
  <2> HIDE DEF e
  <2> QED BY <2>1, <2>2, <2>3, Zenon
<1> QED BY <1>1, <1>2, Zenon

\* The text and the position of the parser in it.
TextInv ==
  /\ IsSequence(text)
  /\ pos \in Positions
  /\ pc = "write" => pos = 1 /\ style \in Styles

\* A turn of the loop of parse_block gets on, whatever the text is.
LEMMA EntryAdvances ==
  ASSUME TextInv, ParseEntry
  PROVE  pos' > pos /\ TextInv'
<1>0. IsSequence(text) /\ pos \in Positions
  BY DEF TextInv
<1> DEFINE L == Len(text)
           key == skip(pos, TRUE)
           end == Past(key, Word)
           val == ValueStart(end)
           stop == ValueEnd(val)
           rest == skip(stop, FALSE)
<1>1. L \in Nat /\ pos \in 1 .. L + 1
  BY <1>0, SequenceType DEF Positions
<1> DEFINE opens == At(rest) = "{"
<1>2. At(key) \notin {"}", "end"} /\ IF opens THEN pos' = rest + 1 ELSE pos' = rest
  BY Zenon DEF ParseEntry
<1>3. key \in pos .. L + 1 /\ key \in Positions /\ At(key) \notin {"sp", "nl"}
  <2>1. Blank(TRUE) = {"sp", "nl"}
    BY DEF Blank
  <2> QED BY <1>0, <2>1, SkipType, Zenon
<1>4. end \in key .. L + 1 /\ end \in Positions
  BY <1>0, <1>3, ParserAssumption, PastType, Zenon
<1>5. val \in end .. L + 1 /\ val \in Positions
  BY <1>0, <1>4, ValueStartType, Zenon
<1>6. /\ stop \in val .. L + 1 /\ stop \in Positions
      /\ stop = val => At(val) \in {"sp", "nl", "{", "}", "end"}
  BY <1>0, <1>5, ValueEndType, Zenon
<1>7. rest \in stop .. L + 1 /\ rest \in Positions
  BY <1>0, <1>6, SkipType, Zenon
<1>8. opens => rest <= L
  <2>1. "{" # "end"
    BY Zenon
  <2> QED BY <2>1, InText, Zenon
<1>9. rest >= pos /\ (rest = pos => key = pos /\ val = pos /\ stop = pos)
  <2>1. key \in pos .. L + 1 /\ stop \in val .. L + 1
    BY <1>3, <1>6, Zenon
  <2> HIDE DEF L, key, end, val, stop, rest, opens
  <2> QED BY <1>1, <1>4, <1>5, <1>7, <2>1, SMTT(30)
<1>10. rest = pos => opens
  <2>1. stop = val /\ key = val => At(val) = "{"
    BY <1>2, <1>3, <1>6, Zenon
  <2> QED BY <1>9, <2>1, Zenon
<1>11. pos' > pos /\ pos' \in 1 .. L + 1
  <2>1. IF opens THEN pos' = rest + 1 ELSE pos' = rest
    BY <1>2, Zenon
  <2>2. rest \in 1 .. L + 1
    BY <1>7, Zenon DEF Positions
  <2> HIDE DEF L, key, end, val, stop, rest, opens
  <2> QED BY <1>1, <1>8, <1>9, <1>10, <2>1, <2>2, SMTT(30)
<1>12. text' = text /\ pc' = pc /\ pc = "parse"
  BY Zenon DEF ParseEntry
<1>13. Positions' = 1 .. L + 1
  BY <1>12, Zenon DEF Positions
<1>14. pc' # "write"
  BY <1>12
<1> QED BY <1>0, <1>11, <1>12, <1>13, <1>14, Zenon DEF TextInv

\* So does the return from a block.
LEMMA CloseAdvances ==
  ASSUME TextInv, ParseClose
  PROVE  pos' > pos /\ TextInv'
<1>0. IsSequence(text) /\ pos \in Positions
  BY DEF TextInv
<1> DEFINE L == Len(text)
           n == skip(pos, TRUE)
<1>1. L \in Nat /\ pos \in 1 .. L + 1
  BY <1>0, SequenceType DEF Positions
<1>2. At(n) = "}" /\ pos' = n + 1 /\ text' = text /\ pc' = pc /\ pc = "parse"
  BY Zenon DEF ParseClose
<1>3. n \in pos .. L + 1
  BY <1>0, SkipType, Zenon
<1>4. n <= L
  <2>1. "}" # "end"
    BY Zenon
  <2> QED BY <1>2, <2>1, InText, Zenon
<1>5. pos' > pos /\ pos' \in 1 .. L + 1
  <2>1. pos' = n + 1
    BY <1>2, Zenon
  <2> HIDE DEF n, L
  <2> QED BY <1>1, <1>3, <1>4, <2>1
<1>6. Positions' = 1 .. L + 1
  BY <1>2, Zenon DEF Positions
<1>7. pc' # "write"
  <2>1. pc' = "parse"
    BY <1>2, Zenon
  <2> QED BY <2>1
<1> QED BY <1>0, <1>2, <1>5, <1>6, <1>7, Zenon DEF TextInv

\* The empty text.
LEMMA EmptySequence == IsSequence(<<>>) /\ Len(<<>>) = 0
<1>1. <<>> \in Seq({})
  OBVIOUS
<1> QED BY <1>1, Zenon DEF IsSequence

\* A file is empty at first.
LEMMA InitText ==
  ASSUME ParserInit
  PROVE  TextInv
<1>1. text = <<>> /\ pos = 1 /\ pc = "write" /\ style \in Styles
  BY DEF ParserInit
<1>2. IsSequence(text) /\ Len(text) = 0
  BY <1>1, EmptySequence
<1>3. pos \in Positions
  BY <1>1, <1>2 DEF Positions
<1> QED BY <1>1, <1>2, <1>3 DEF TextInv

\* A longer text.
LEMMA LongerText ==
  ASSUME TextInv, pc = "write", IsSequence(text'), UNCHANGED <<style, pc, pos>>
  PROVE  TextInv'
<1>1. pos' = 1 /\ pos' \in Positions'
  BY SequenceType DEF TextInv, Positions
<1> QED BY <1>1 DEF TextInv

\* Sequences put together, and short ones.
LEMMA Concat ==
  ASSUME NEW s, IsSequence(s), NEW t, IsSequence(t)
  PROVE  IsSequence(s \o t)
<1>1. PICK S : s \in Seq(S)
  BY DEF IsSequence
<1>2. PICK T : t \in Seq(T)
  BY DEF IsSequence
<1>3. s \in Seq(S \cup T) /\ t \in Seq(S \cup T)
  BY <1>1, <1>2
<1>4. s \o t \in Seq(S \cup T)
  BY <1>3
<1> QED BY <1>4, Zenon DEF IsSequence

\* What is written at once is a sequence.
LEMMA Short ==
  ASSUME NEW c, NEW d
  PROVE  IsSequence(<<>>) /\ IsSequence(<<c>>) /\ IsSequence(<<c, d>>)
<1> DEFINE S == {c, d}
<1>1. c \in S /\ d \in S
  OBVIOUS
<1> HIDE DEF S
<1>2. <<>> \in Seq(S) /\ <<c>> \in Seq(S) /\ <<c, d>> \in Seq(S)
  BY <1>1
<1> QED BY <1>2, Zenon DEF IsSequence

\* What the writer puts between, around and behind the values is text.
LEMMA WriterText ==
  ASSUME TextInv, Writer
  PROVE  TextInv' /\ pc' = "write"
<1>1. CASE Close
  <2>1. pc = "write" /\ text' = text \o <<"}", "nl">> /\ UNCHANGED <<style, pc, pos>>
    BY <1>1, Zenon DEF Close
  <2>2. IsSequence(text)
    BY DEF TextInv
  <2>3. IsSequence(text')
    BY <2>1, <2>2, Short, Concat, Zenon
  <2> QED BY <2>1, <2>3, LongerText, Zenon
<1>2. ASSUME NEW n \in DOMAIN Keys, NEW e \in Keys[n], Write(e[1], e[2]) \/ Open(e[1], e[2])
      PROVE  TextInv' /\ pc' = "write"
  <2> DEFINE k == e[1]
             v == e[2]
  <2>1. pc = "write" /\ UNCHANGED <<style, pc, pos>>
    BY <1>2, Zenon DEF Write, Open
  <2>2. IsSequence(text) /\ style \in Styles
    BY <2>1 DEF TextInv
  <2>3. IsSequence(v)
    <3>1. v \in Seq(STRING)
      BY ParserAssumption
    <3> QED BY <3>1, Zenon DEF IsSequence
  <2>4. IsSequence(style.sep) /\ IsSequence(style.end)
    <3>1. style.sep \in Seq(STRING) /\ style.end \in Seq(STRING)
      BY <2>2, ParserAssumption
    <3> QED BY <3>1, Zenon DEF IsSequence
  <2> HIDE DEF k, v
  <2>5. IsSequence(Between(v)) /\ IsSequence(Quoted(v)) /\ IsSequence(Ends(v))
    <3>1. IsSequence(<<"quote">> \o v \o <<"quote">>)
      BY <2>3, Short, Concat, Zenon
    <3> QED BY <2>3, <2>4, <3>1, Short, Zenon DEF Between, Quoted, Ends
  <2>6. IsSequence(text \o <<k>> \o Between(v))
    BY <2>2, <2>5, Short, Concat, Zenon
  <2>7. CASE Write(k, v)
    <3>1. text' = text \o <<k>> \o Between(v) \o Quoted(v) \o Ends(v)
      BY <2>7, Zenon DEF Write
    <3>2. IsSequence(text')
      BY <2>5, <2>6, <3>1, Concat, Zenon
    <3> QED BY <2>1, <3>2, LongerText, Zenon
  <2>8. CASE Open(k, v)
    <3>1. text' = text \o <<k>> \o Between(v) \o v \o <<"sp", "{">> \o style.end
      BY <2>8, Zenon DEF Open
    <3>2. IsSequence(text \o <<k>> \o Between(v) \o v \o <<"sp", "{">>)
      BY <2>3, <2>6, Short, Concat, Zenon
    <3>3. IsSequence(text')
      BY <2>4, <3>1, <3>2, Concat, Zenon
    <3> QED BY <2>1, <3>3, LongerText, Zenon
  <2> QED BY <1>2, <2>7, <2>8, Zenon DEF k, v
<1> QED BY <1>1, <1>2, Zenon DEF Writer

\* A step of the parser, also one that ends it.
LEMMA ParserText ==
  ASSUME TextInv, Parser
  PROVE  TextInv' /\ (pc' = "parse" => pos' > pos)
<1>1. CASE ParseEntry \/ ParseClose
  BY <1>1, EntryAdvances, CloseAdvances, Zenon
<1>2. CASE Unreadable \/ ParseAccept \/ ParseReject
  <2>1. text' = <<>> /\ pos' = 1 /\ pc' \in {"unreadable", "accepted", "rejected"}
    BY <1>2, Zenon DEF Unreadable, ParseAccept, ParseReject
  <2>2. IsSequence(text') /\ Len(text') = 0 /\ pc' # "write" /\ pc' # "parse"
    BY <2>1, EmptySequence
  <2>3. pos' \in Positions'
    BY <2>1, <2>2 DEF Positions
  <2> QED BY <2>2, <2>3, Zenon DEF TextInv
<1> QED BY <1>1, <1>2, Zenon DEF Parser

\* Nothing else moves the parser or changes the text before it.
LEMMA StepText ==
  ASSUME TextInv, [Next]_vars
  PROVE  TextInv' /\ (pc = "parse" /\ pc' = "parse" => pos' > pos \/ UNCHANGED parserVars)
<1>1. CASE UNCHANGED parserVars
  <2>1. UNCHANGED <<style, text, pc, pos>>
    BY <1>1 DEF parserVars
  <2> QED BY <1>1, <2>1 DEF TextInv, Positions
<1>2. CASE Edit
  <2>1. TextInv' /\ pc' = "write"
    BY <1>2, WriterText, Zenon DEF Edit
  <2> QED BY <2>1
<1>3. CASE Parse
  BY <1>3, ParserText, Zenon DEF Parse
<1>4. CASE Launch
  <2>1. pc = "write" /\ pc' = "parse" /\ UNCHANGED <<text, pos>>
    BY <1>4, Zenon DEF Launch, Load
  <2> QED BY <2>1 DEF TextInv, Positions
<1>5. CASE LoadConfig
  <2>1. pc' = "read" /\ UNCHANGED <<text, pos>>
    BY <1>5, Zenon DEF LoadConfig, load_config, Forget
  <2> QED BY <2>1 DEF TextInv, Positions
<1>6. CASE Configure
  <2>1. configure
    BY <1>6, Zenon DEF Configure
  <2>2. UNCHANGED parserVars
    BY <2>1 DEF configure, open_proxy, add_rule, configured, Fail
  <2> QED BY <1>1, <2>2
<1>7. CASE Daemonize \/ DaemonizeFails \/ Refuse \/ EnterLoop \/ Loop \/ LeaveLoop \/ exit_ndppd
  <2>1. UNCHANGED parserVars
    BY <1>7, Zenon
    DEF Daemonize, DaemonizeFails, Refuse, EnterLoop, Loop, LeaveLoop, exit_ndppd
  <2> QED BY <1>1, <2>1
<1>8. CASE UNCHANGED vars
  <2>1. UNCHANGED parserVars
    BY <1>8, Zenon DEF vars
  <2> QED BY <1>1, <2>1
<1> QED
  BY <1>2, <1>3, <1>4, <1>5, <1>6, <1>7, <1>8, ZenonT(30) DEF Next, Works

\* The parser gets on in every text that can be written, with comments, quotes and
\* blocks left open anywhere, so a start is never stuck in it (parse_block, skip).
THEOREM ParserGetsOn == Spec => ParseProgress
<1> DEFINE Advance == pc = "parse" /\ pc' = "parse" => pos' > pos
<1>1. Init => TextInv
  BY InitText DEF Init
<1>2. TextInv /\ [Next]_vars => TextInv'
  BY StepText
<1>3. TextInv /\ [Next]_vars => [Advance]_parserVars
  BY StepText
<1>4. Spec => [][Advance]_parserVars
  BY <1>1, <1>2, <1>3, PTL DEF Spec
<1> QED BY <1>4 DEF ParseProgress
=============================================================================
