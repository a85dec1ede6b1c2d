----------------------------- MODULE ClockProofs -----------------------------
(***************************************************************************)
(* Proofs about SimClock, for all readers, rates, shifts, waits and        *)
(* calendars.                                                              *)
(***************************************************************************)
EXTENDS SimClock, SequenceTheorems, TLAPS

-----------------------------------------------------------------------------
(* The arithmetic of the clock.                                            *)

\* Division as the prover needs it.
LEMMA Quotient ==
  ASSUME NEW x \in Int, NEW d \in Nat \ {0}
  PROVE  /\ x \div d \in Int /\ d * (x \div d) <= x /\ x < d * (x \div d) + d
         /\ x >= 0 => x \div d >= 0
OBVIOUS

\* A product grows with its first operand ...
LEMMA Growing ==
  ASSUME NEW x \in Int, NEW y \in Int, NEW n \in Nat, x <= y
  PROVE  x * n <= y * n
OBVIOUS

\* ... and so does a quotient.
LEMMA DivGrowing ==
  ASSUME NEW x \in Int, NEW y \in Int, NEW d \in Nat \ {0}, x <= y
  PROVE  x \div d <= y \div d
OBVIOUS

\* A fraction greater than zero.
Fraction == [num : Nat \ {0}, den : Nat \ {0}]

\* Truncation is division that rounds towards zero ...
LEMMA TruncatedIs ==
  ASSUME NEW x \in Int, NEW d \in Nat \ {0}
  PROVE  /\ Truncated(x, d) \in Int
         /\ x >= 0 => /\ d * Truncated(x, d) <= x /\ x < d * Truncated(x, d) + d
                      /\ Truncated(x, d) >= 0
         /\ x < 0 => /\ x <= d * Truncated(x, d) /\ d * Truncated(x, d) < x + d
                     /\ Truncated(x, d) <= 0
<1>1. CASE x >= 0
  <2>1. Truncated(x, d) = x \div d
    BY <1>1 DEF Truncated
  <2> QED
    BY <1>1, <2>1, Quotient
<1>2. CASE x < 0
  <2> DEFINE z == 0 - x  t == z \div d
  <2>1. Truncated(x, d) = 0 - t
    BY <1>2 DEF Truncated
  <2>2. z \in Int /\ z >= 0
    BY <1>2
  <2>3. t \in Int /\ d * t <= z /\ z < d * t + d /\ t >= 0
    <3> HIDE DEF z
    <3> QED
      BY <2>2, Quotient
  <2> HIDE DEF t
  <2>4. d * (0 - t) = 0 - d * t
    BY <2>3
  <2>5. d * t \in Int
    BY <2>3
  <2> QED
    BY <1>2, <2>1, <2>3, <2>4, <2>5
<1> QED
  BY <1>1, <1>2

\* ... and grows, across zero as well.
LEMMA TruncatedGrows ==
  ASSUME NEW x \in Int, NEW y \in Int, NEW d \in Nat \ {0}, x <= y
  PROVE  Truncated(x, d) <= Truncated(y, d)
<1>1. CASE x >= 0
  BY <1>1, DivGrowing DEF Truncated
<1>2. CASE x < 0 /\ y >= 0
  BY <1>2, TruncatedIs
<1>3. CASE y < 0
  <2> DEFINE a == 0 - x  b == 0 - y
  <2>1. a \in Int /\ b \in Int /\ b <= a
    OBVIOUS
  <2>2. Truncated(x, d) = 0 - (a \div d) /\ Truncated(y, d) = 0 - (b \div d)
    BY <1>3 DEF Truncated
  <2> HIDE DEF a, b
  <2>3. b \div d <= a \div d /\ a \div d \in Int /\ b \div d \in Int
    BY <2>1, DivGrowing, Quotient
  <2> QED
    BY <2>2, <2>3
<1> QED
  BY <1>1, <1>2, <1>3

\* The clock shows later times later, at any rate.  (now_millis)
LEMMA SimtimeGrows ==
  ASSUME NEW c1 \in Nat, NEW c2 \in Nat, c1 <= c2,
         NEW start \in Int, NEW diff \in Int, NEW f \in Fraction
  PROVE  /\ Simtime(c1, start, f, diff) \in Int
         /\ Simtime(c1, start, f, diff) <= Simtime(c2, start, f, diff)
<1> DEFINE x == (c1 - start) * f.num  y == (c2 - start) * f.num  d == f.den
<1>1. f.num \in Nat /\ d \in Nat \ {0}
  BY DEF Fraction
<1>2. x \in Int /\ y \in Int /\ x <= y
  <2> DEFINE n == f.num  a == c1 - start  b == c2 - start
  <2>1. a \in Int /\ b \in Int /\ a <= b /\ n \in Nat
    BY <1>1
  <2> HIDE DEF n, a, b
  <2>2. a * n \in Int /\ b * n \in Int /\ a * n <= b * n
    BY <2>1, Growing
  <2> QED
    BY <2>2 DEF n, a, b
<1> HIDE DEF x, y, d
<1>3. /\ Truncated(x, d) <= Truncated(y, d) /\ Truncated(x, d) \in Int
      /\ Truncated(y, d) \in Int
  BY <1>1, <1>2, TruncatedGrows, TruncatedIs
<1>4. /\ Simtime(c1, start, f, diff) = start + Truncated(x, d) + diff
      /\ Simtime(c2, start, f, diff) = start + Truncated(y, d) + diff
  BY DEF Simtime, x, y, d
<1> QED
  BY <1>3, <1>4

\* Truncated numbers are as far apart as the numbers, give or take one.
LEMMA Distance ==
  ASSUME NEW x \in Int, NEW k \in Nat, NEW d \in Nat \ {0}
  PROVE  /\ k - 2 * d < d * (Truncated(x + k, d) - Truncated(x, d))
         /\ d * (Truncated(x + k, d) - Truncated(x, d)) < k + d
<1> DEFINE y == x + k  s == Truncated(x, d)  t == Truncated(y, d)  ds == d * s  dt == d * t
<1>1. y \in Int /\ x <= y
  OBVIOUS
<1>2. s \in Int /\ (x >= 0 => ds <= x /\ x < ds + d) /\ (x < 0 => x <= ds /\ ds < x + d)
  BY TruncatedIs
<1>3. t \in Int /\ (y >= 0 => dt <= y /\ y < dt + d) /\ (y < 0 => y <= dt /\ dt < y + d)
  <2> HIDE DEF y
  <2> QED
    BY <1>1, TruncatedIs
<1> HIDE DEF s, t
<1>4. ds \in Int /\ dt \in Int /\ d * (t - s) = dt - ds
  BY <1>2, <1>3
<1> HIDE DEF ds, dt
<1>5. k - 2 * d < dt - ds /\ dt - ds < k + d
  BY <1>1, <1>2, <1>3, <1>4
<1> QED
  BY <1>4, <1>5 DEF s, t

\* A scaled wait is a millisecond at least, and otherwise the wait divided by
\* the factor, rounded down.  (real_wait_duration)
LEMMA ScaleWaitIs ==
  ASSUME NEW ms \in Nat, NEW f \in Fraction
  PROVE  /\ ScaleWait(ms, f) \in Nat \ {0}
         /\ ms * f.den - f.num < ScaleWait(ms, f) * f.num
         /\ \/ ScaleWait(ms, f) * f.num <= ms * f.den
            \/ ScaleWait(ms, f) = 1
<1> DEFINE n == f.num  d == f.den  p == ms * d  q == p \div n
<1>1. n \in Nat \ {0} /\ d \in Nat \ {0}
  BY DEF Fraction
<1>2. p \in Int /\ p >= 0
  <2> HIDE DEF d
  <2> QED
    BY <1>1
<1>3. q \in Int /\ n * q <= p /\ p < n * q + n /\ q >= 0
  <2> HIDE DEF p, n
  <2> QED
    BY <1>1, <1>2, Quotient
<1>4. ScaleWait(ms, f) = IF q < 1 THEN 1 ELSE q
  BY DEF ScaleWait
<1> HIDE DEF n, q, p
<1>5. n * q \in Int /\ n * q = q * n /\ (q < 1 => q = 0)
  BY <1>1, <1>3
<1>6. CASE q < 1
  <2>1. q = 0 /\ n * q = 0 /\ 1 * n = n
    BY <1>1, <1>5, <1>6
  <2>2. p - n < 1 * n
    BY <1>1, <1>2, <1>3, <2>1
  <2> QED
    BY <1>4, <1>6, <2>2 DEF p, n
<1>7. CASE ~ (q < 1)
  <2>1. p - n < q * n /\ q * n <= p /\ q \in Nat \ {0}
    BY <1>1, <1>2, <1>3, <1>5, <1>7
  <2> QED
    BY <1>4, <1>7, <2>1 DEF p, n
<1> QED
  BY <1>6, <1>7

\* What the clock advances in one real millisecond bounds the error.
LEMMA LessFactor ==
  ASSUME NEW a \in Int, NEW b \in Int, NEW d \in Nat \ {0}, d * a < d * b
  PROVE  a < b
<1>1. CASE b <= a
  <2>1. b * d <= a * d
    BY <1>1, Growing
  <2> QED
    BY <2>1
<1> QED
  BY <1>1

\* Over a scaled wait the clock advances by what was asked, give or take that
\* and one.
LEMMA WaitAdvances ==
  ASSUME NEW c \in Nat, NEW ms \in Nat, NEW f \in Fraction, NEW start \in Int,
         NEW diff \in Int
  PROVE  LET w == ScaleWait(ms, f)
             factor == f.num \div f.den + 1
             now == Simtime(c, start, f, diff)
             then == Simtime(c + w, start, f, diff)
         IN  then - now \in ms - factor - 1 .. LargerOf(ms, factor) + 1
<1> DEFINE n == f.num  d == f.den  w == ScaleWait(ms, f)  e == n \div d  factor == e + 1
           x == (c - start) * n  k == w * n
           now == Simtime(c, start, f, diff)  then == Simtime(c + w, start, f, diff)
           s == Truncated(x, d)  t == Truncated(x + k, d)  far == t - s
<1>1. n \in Nat \ {0} /\ d \in Nat \ {0}
  BY DEF Fraction
<1>2. w \in Nat \ {0} /\ ms * d - n < k /\ (k <= ms * d \/ w = 1)
  BY ScaleWaitIs
<1>3. e \in Int /\ d * e <= n /\ n < d * e + d /\ e >= 0
  <2> HIDE DEF n, d
  <2> QED
    BY <1>1, Quotient
<1>4. now = start + s + diff /\ then = start + t + diff
  <2>1. ((c + w) - start) * n = x + k
    <3> HIDE DEF w, n
    <3> QED
      BY <1>1, <1>2
  <2>2. then = start + Truncated(((c + w) - start) * n, d) + diff
    BY Zenon DEF Simtime
  <2>3. now = start + s + diff
    BY Zenon DEF Simtime
  <2> QED
    BY Zenon, <2>1, <2>2, <2>3
<1> HIDE DEF w, e, n, d, now, then
<1>5. x \in Int /\ k \in Nat
  BY <1>1, <1>2
<1> HIDE DEF x, k
<1>6. k - 2 * d < d * far /\ d * far < k + d
  BY <1>1, <1>5, Distance
<1>7. s \in Int /\ t \in Int
  <2> DEFINE y == x + k
  <2>1. y \in Int
    BY <1>5
  <2> HIDE DEF y
  <2>2. Truncated(x, d) \in Int /\ Truncated(y, d) \in Int
    BY <1>1, <1>5, <2>1, TruncatedIs
  <2> QED
    BY <2>2 DEF y
<1>8. then - now = far /\ far \in Int
  <2> HIDE DEF s, t
  <2> QED
    BY <1>4, <1>7
<1> HIDE DEF far
<1>9. /\ ms * d \in Int /\ d * e \in Int /\ d * far \in Int
      /\ d * (ms - factor - 2) = ms * d - d * e - 3 * d
      /\ d * (ms + 1) = ms * d + d /\ d * (factor + 1) = d * e + 2 * d
  BY <1>1, <1>3, <1>8
<1>10. ms - factor - 1 <= far
  <2>1. d * (ms - factor - 2) < d * far
    BY <1>1, <1>2, <1>3, <1>5, <1>6, <1>9
  <2>2. ms - factor - 2 < far
    <3> DEFINE a == ms - factor - 2
    <3>1. a \in Int /\ d * a < d * far
      BY <1>3, <2>1
    <3> HIDE DEF a
    <3>2. a < far
      BY <1>1, <1>8, <3>1, LessFactor
    <3> QED
      BY <3>2 DEF a
  <2> QED
    BY <1>3, <1>8, <2>2
<1>11. far < ms + 1 \/ far < factor + 1
  <2>1. CASE k <= ms * d
    <3> DEFINE b == ms + 1
    <3>1. b \in Int /\ d * far < d * b
      BY <1>1, <1>5, <1>6, <1>9, <2>1
    <3> HIDE DEF b
    <3>2. far < b
      BY <1>1, <1>8, <3>1, LessFactor
    <3> QED
      BY <3>2 DEF b
  <2>2. CASE w = 1
    <3> DEFINE b == factor + 1
    <3>1. k = n
      BY <1>1, <2>2 DEF k
    <3>2. b \in Int /\ d * far < d * b
      BY <1>1, <1>3, <1>5, <1>6, <1>9, <3>1
    <3> HIDE DEF b
    <3>3. far < b
      BY <1>1, <1>8, <3>2, LessFactor
    <3> QED
      BY <3>3 DEF b
  <2> QED
    BY <1>2, <2>1, <2>2
<1>12. far \in ms - factor - 1 .. LargerOf(ms, factor) + 1
  BY <1>3, <1>8, <1>10, <1>11 DEF LargerOf
<1> QED
  BY <1>8, <1>12 DEF now, then, w, e, n, d

-----------------------------------------------------------------------------
(* Files and readings.                                                     *)

\* The three files, and what each of them may hold.
Names == {"start", "factor", "diff"}
Clock == {Absent, Empty} \cup {Number(n) : n \in Start .. MaxCal}
Factors == {Absent, Empty} \cup Rate
Shifts == {Absent, Empty} \cup {Number(n) : n \in Shift}

\* Any fraction.
Ratio == [num : Int, den : Nat \ {0}]

\* Files with contents of their kinds.
Valid(fs) ==
  /\ DOMAIN fs = Names
  /\ fs["start"] \in Clock /\ fs["factor"] \in Factors /\ fs["diff"] \in Shifts

\* A reader makes v of the file.
Is(fs, name, v) == Parse(name, fs[name]) = Result(v)

\* A result is one value, and no failure.
LEMMA ResultIs ==
  ASSUME NEW a, NEW b
  PROVE  /\ Result(a) = Result(b) => a = b
         /\ Result(a).ok /\ Result(a).v = a /\ Result(a) # Failed /\ ~ Failed.ok
BY DEF Result, Failed

\* What may be in a file.
LEMMA ContentsAre ==
  ASSUME NEW fs, Valid(fs), NEW name \in Names
  PROVE  LET c == fs[name]
         IN  \/ c = Absent
             \/ c = Empty
             \/ c = Text /\ name = "factor"
             \/ \E n : c = Number(n) /\ n \in (IF name = "factor" THEN Ratio ELSE Int)
<1> DEFINE c == fs[name]
<1>1. CASE name = "start"
  <2>1. c \in Clock
    BY <1>1 DEF Valid
  <2>2. \A n \in Start .. MaxCal : n \in Int
    OBVIOUS
  <2> QED
    BY <1>1, <2>1, <2>2 DEF Clock
<1>2. CASE name = "diff"
  <2>1. c \in Shifts
    BY <1>2 DEF Valid
  <2>2. \A n \in Shift : n \in Int
    BY BoundsAssumption
  <2> QED
    BY <1>2, <2>1, <2>2 DEF Shifts
<1>3. CASE name = "factor"
  <2>1. c \in {Absent, Empty} \cup Rate
    BY <1>3 DEF Valid, Factors
  <2>2. CASE c \in Rate
    <3>1. c = Text \/ c \in [kind : {"number"}, n : Ratio]
      BY <2>2, RateAssumption DEF Ratio
    <3>2. CASE c \in [kind : {"number"}, n : Ratio]
      <4> DEFINE m == c.n
      <4>1. c = [kind |-> "number", n |-> m] /\ m \in Ratio
        BY <3>2
      <4>2. c = Number(m)
        BY <4>1 DEF Number
      <4> QED
        BY <1>3, <4>1, <4>2
    <3> QED
      BY <1>3, <3>1, <3>2
  <2> QED
    BY <2>1, <2>2
<1> QED
  BY <1>1, <1>2, <1>3 DEF Names

\* Only a factor can be no number; what a reader makes of a file has the type
\* of its value, and a file that is missing has its preset.
LEMMA ParseIs ==
  ASSUME NEW fs, Valid(fs), NEW name \in Names
  PROVE  /\ \/ \E v : Is(fs, name, v)
            \/ /\ Parse(name, fs[name]) = Failed /\ name = "factor"
               /\ \/ fs["factor"].kind = "text"
                  \/ fs["factor"].kind = "number" /\ fs["factor"].n.num <= 0
         /\ \A v : Is(fs, name, v) =>
              IF name = "factor" THEN v \in Fraction ELSE v \in Int
         /\ fs[name] = Absent => Is(fs, name, Preset(name))
<1> DEFINE c == fs[name]
<1>1. Preset(name) \in (IF name = "factor" THEN Fraction ELSE Int)
  <2>1. One \in Fraction
    BY DEF One, Fraction
  <2>2. CASE name = "factor"
    BY <2>1, <2>2 DEF Preset
  <2>3. CASE name # "factor"
    BY <2>3 DEF Preset
  <2> QED
    BY <2>2, <2>3
<1>2. CASE c = Absent \/ c = Empty
  <2>1. c.kind \in {"absent", "empty"}
    BY <1>2 DEF Absent, Empty
  <2>2. Parse(name, c) = Result(Preset(name))
    BY <2>1 DEF Parse
  <2> QED
    BY <1>1, <2>2, ResultIs DEF Is
<1>3. CASE c = Text /\ name = "factor"
  <2>1. c.kind = "text" /\ c # Absent
    BY <1>3 DEF Text, Absent
  <2>2. Parse(name, c) = Failed
    BY <2>1 DEF Parse
  <2> QED
    BY <1>3, <2>1, <2>2, ResultIs DEF Is
<1>4. ASSUME NEW n, c = Number(n), n \in (IF name = "factor" THEN Ratio ELSE Int)
      PROVE  /\ \/ \E v : Is(fs, name, v)
                \/ /\ Parse(name, fs[name]) = Failed /\ name = "factor"
                   /\ \/ fs["factor"].kind = "text"
                      \/ fs["factor"].kind = "number" /\ fs["factor"].n.num <= 0
             /\ \A v : Is(fs, name, v) =>
                  IF name = "factor" THEN v \in Fraction ELSE v \in Int
             /\ fs[name] = Absent => Is(fs, name, Preset(name))
  <2>1. c.kind = "number" /\ c.n = n /\ c # Absent
    BY <1>4 DEF Number, Absent
  <2>2. CASE name = "factor" /\ c.n.num <= 0
    <3>1. Parse(name, c) = Failed
      BY <2>1, <2>2 DEF Parse
    <3> QED
      BY <2>1, <2>2, <3>1, ResultIs DEF Is
  <2>3. CASE ~ (name = "factor" /\ c.n.num <= 0)
    <3>1. Parse(name, c) = Result(n)
      BY <2>1, <2>3 DEF Parse
    <3>2. IF name = "factor" THEN n \in Fraction ELSE n \in Int
      <4>1. CASE name = "factor"
        <5>1. n \in Ratio /\ ~ (n.num <= 0)
          BY <1>4, <2>1, <2>3, <4>1
        <5> QED
          BY <4>1, <5>1 DEF Ratio, Fraction
      <4> QED
        BY <1>4, <4>1
    <3> QED
      BY <2>1, <3>1, <3>2, ResultIs DEF Is
  <2> QED
    BY <2>2, <2>3
<1>5. CASE \E n : c = Number(n) /\ n \in (IF name = "factor" THEN Ratio ELSE Int)
  <2>1. PICK n : c = Number(n) /\ n \in (IF name = "factor" THEN Ratio ELSE Int)
    BY <1>5
  <2> QED
    BY <1>4, <2>1
<1> QED
  BY <1>2, <1>3, <1>5, ContentsAre

\* The clock shows what a reader would make of the files all at once.
LEMMA ShownIs ==
  ASSUME NEW fs, Valid(fs), NEW c
  PROVE  \A v : v \in Shown(c, fs) <=>
           \E a, f, d : /\ Is(fs, "start", a) /\ Is(fs, "factor", f) /\ Is(fs, "diff", d)
                        /\ v = Simtime(c, a, f, d)
<1> DEFINE p == [name \in DOMAIN fs |-> Parse(name, fs[name])]
           ok == \A name \in DOMAIN fs : p[name].ok
<1>1. DOMAIN fs = Names
  BY DEF Valid
<1>2. Shown(c, fs) = IF ok THEN {Simtime(c, p["start"].v, p["factor"].v, p["diff"].v)} ELSE {}
  BY Zenon DEF Shown
<1>3. /\ p["start"] = Parse("start", fs["start"])
      /\ p["factor"] = Parse("factor", fs["factor"])
      /\ p["diff"] = Parse("diff", fs["diff"])
  BY <1>1 DEF Names
<1>4. ok <=> p["start"].ok /\ p["factor"].ok /\ p["diff"].ok
  BY <1>1 DEF Names
<1> HIDE DEF p, ok
<1>5. \A name \in Names : (\E v : Is(fs, name, v)) \/ Parse(name, fs[name]) = Failed
  BY ParseIs
<1>6. \A name \in Names : Parse(name, fs[name]).ok <=> \E v : Is(fs, name, v)
  BY <1>5, ResultIs DEF Is
<1>7. \A name \in Names : \A v : Is(fs, name, v) => Parse(name, fs[name]).v = v
  BY ResultIs DEF Is
<1>8. "start" \in Names /\ "factor" \in Names /\ "diff" \in Names
  BY DEF Names
<1>9. CASE ok
  <2>1. PICK a, f, d : Is(fs, "start", a) /\ Is(fs, "factor", f) /\ Is(fs, "diff", d)
    BY <1>3, <1>4, <1>6, <1>8, <1>9
  <2>2. p["start"].v = a /\ p["factor"].v = f /\ p["diff"].v = d
    BY <1>3, <1>7, <1>8, <2>1
  <2>3. Shown(c, fs) = {Simtime(c, a, f, d)}
    BY <1>2, <1>9, <2>2
  <2>4. \A a2, f2, d2 : Is(fs, "start", a2) /\ Is(fs, "factor", f2) /\ Is(fs, "diff", d2)
                          => a2 = a /\ f2 = f /\ d2 = d
    BY <2>1, ResultIs DEF Is
  <2> QED
    BY Zenon, <2>1, <2>3, <2>4
<1>10. CASE ~ ok
  <2>1. Shown(c, fs) = {}
    BY <1>2, <1>10
  <2>2. ~ \E a, f, d : Is(fs, "start", a) /\ Is(fs, "factor", f) /\ Is(fs, "diff", d)
    BY <1>3, <1>4, <1>6, <1>8, <1>10
  <2> QED
    BY <2>1, <2>2
<1> QED
  BY <1>9, <1>10

\* While the files rest, it shows later times later.
LEMMA ShownGrows ==
  ASSUME NEW fs, Valid(fs), NEW c1 \in Nat, NEW c2 \in Nat, c1 <= c2,
         NEW v \in Shown(c1, fs), NEW w \in Shown(c2, fs)
  PROVE  v <= w
<1>1. PICK a, f, d : /\ Is(fs, "start", a) /\ Is(fs, "factor", f) /\ Is(fs, "diff", d)
                     /\ v = Simtime(c1, a, f, d)
  BY ShownIs
<1>2. PICK a2, f2, d2 : /\ Is(fs, "start", a2) /\ Is(fs, "factor", f2) /\ Is(fs, "diff", d2)
                        /\ w = Simtime(c2, a2, f2, d2)
  BY ShownIs
<1>3. a2 = a /\ f2 = f /\ d2 = d
  BY <1>1, <1>2, ResultIs DEF Is
<1>4. a \in Int /\ f \in Fraction /\ d \in Int
  BY <1>1, ParseIs DEF Names
<1> QED
  BY <1>1, <1>2, <1>3, <1>4, SimtimeGrows

\* The types of what belongs to the readers.
Readers ==
  /\ doing \in [Reader -> {"idle", "reading", "scaling", "asleep"}]
  /\ next \in [Reader -> 1 .. 3]
  /\ there \in [Reader -> BOOLEAN]
  /\ got \in [Reader -> [cal : Nat, val : [start : Int, factor : Fraction, diff : Int]]]
  /\ wake \in [Reader -> Nat]
  /\ asked \in [Reader -> [ms : Nat, cal : Nat, factor : Fraction]]
  /\ DOMAIN crossed = Reader /\ DOMAIN shown = Reader /\ DOMAIN floor = Reader
  /\ crossed = [q \in Reader |-> crossed[q]] /\ shown = [q \in Reader |-> shown[q]]
  /\ floor = [q \in Reader |-> floor[q]]

\* The order of reading.
LEMMA OrderIs == /\ Order[1] = "start" /\ Order[2] = "factor" /\ Order[3] = "diff"
                 /\ Len(Order) = 3 /\ \A k \in 1 .. 3 : Order[k] \in Names
BY DEF Order, Names

\* Everything of reader q stays.
Same(q) ==
  /\ doing'[q] = doing[q] /\ next'[q] = next[q] /\ there'[q] = there[q]
  /\ got'[q] = got[q]
  /\ wake'[q] = wake[q] /\ asked'[q] = asked[q] /\ crossed'[q] = crossed[q]
  /\ shown'[q] = shown[q] /\ floor'[q] = floor[q]

\* What a reader that is through goes back to.
NoneRead == [cal |-> 0, val |-> Presets]
NotAsked == [ms |-> 0, cal |-> 0, factor |-> One]

\* A reader that finishes is idle, and nobody else changes.
LEMMA Finished ==
  ASSUME Readers, NEW r \in Reader, NEW result, Finish(r, result)
  PROVE  /\ doing'[r] = "idle" /\ next'[r] = 1 /\ there'[r] = FALSE
         /\ got'[r] = NoneRead
         /\ wake'[r] = 0 /\ asked'[r] = NotAsked /\ floor'[r] = {} /\ crossed'[r] = {}
         /\ shown'[r] = {} /\ reading' = result
         /\ \A q \in Reader \ {r} : Same(q)
         /\ Readers'
         /\ \/ latest' = latest
            \/ /\ doing[r] = "reading" /\ result.ok /\ crossed[r] = {}
               /\ latest' = {result.v}
<1>1. NoneRead \in [cal : Nat, val : [start : Int, factor : Fraction, diff : Int]]
      /\ NotAsked \in [ms : Nat, cal : Nat, factor : Fraction]
  BY DEF NoneRead, NotAsked, Presets, One, Fraction
<1>2. /\ doing' = [doing EXCEPT ![r] = "idle"] /\ next' = [next EXCEPT ![r] = 1]
      /\ there' = [there EXCEPT ![r] = FALSE] /\ got' = [got EXCEPT ![r] = NoneRead]
      /\ wake' = [wake EXCEPT ![r] = 0] /\ asked' = [asked EXCEPT ![r] = NotAsked]
      /\ floor' = [floor EXCEPT ![r] = {}] /\ crossed' = [crossed EXCEPT ![r] = {}]
      /\ shown' = [shown EXCEPT ![r] = {}] /\ reading' = result
  BY DEF Finish, NoneRead, NotAsked
<1>3. \/ latest' = latest
      \/ /\ doing[r] = "reading" /\ result.ok /\ crossed[r] = {}
         /\ latest' = {result.v}
  BY DEF Finish
<1> HIDE DEF NoneRead, NotAsked
<1>4. /\ doing'[r] = "idle" /\ next'[r] = 1 /\ there'[r] = FALSE /\ got'[r] = NoneRead
      /\ wake'[r] = 0 /\ asked'[r] = NotAsked /\ floor'[r] = {} /\ crossed'[r] = {}
      /\ shown'[r] = {}
  BY <1>2 DEF Readers
<1>5. \A q \in Reader \ {r} : Same(q)
  BY <1>2 DEF Readers, Same
<1>6. Readers'
  <2>1. /\ doing' \in [Reader -> {"idle", "reading", "scaling", "asleep"}]
        /\ next' \in [Reader -> 1 .. 3]
        /\ there' \in [Reader -> BOOLEAN]
        /\ wake' \in [Reader -> Nat]
    BY <1>2 DEF Readers
  <2>2. /\ got' \in [Reader -> [cal : Nat, val : [start : Int, factor : Fraction, diff : Int]]]
        /\ asked' \in [Reader -> [ms : Nat, cal : Nat, factor : Fraction]]
    BY <1>1, <1>2 DEF Readers
  <2>3. /\ DOMAIN crossed' = Reader /\ DOMAIN shown' = Reader /\ DOMAIN floor' = Reader
        /\ crossed' = [q \in Reader |-> crossed'[q]]
        /\ shown' = [q \in Reader |-> shown'[q]]
        /\ floor' = [q \in Reader |-> floor'[q]]
    BY <1>2 DEF Readers
  <2> QED
    BY <2>1, <2>2, <2>3 DEF Readers
<1> QED
  BY <1>2, <1>3, <1>4, <1>5, <1>6

\* The five outcomes of looking for a file or reading it.
LEMMA LooksOrReads ==
  ASSUME NEW r, Look(r) \/ Read(r)
  PROVE  LET name == Order[next[r]]
         IN  /\ UNCHANGED <<testEnv, cal, harness>> /\ doing[r] \in {"reading", "scaling"}
             /\ \/ /\ ~ there[r] /\ file[name] = Absent /\ Advance(r, Preset(name))
                \/ /\ ~ there[r] /\ file[name] # Absent
                   /\ there' = [there EXCEPT ![r] = TRUE]
                   /\ UNCHANGED <<doing, next, got, wake, reading, asked, floor, crossed,
                                  shown, latest>>
                \/ /\ there[r] /\ file[name] = Absent /\ Finish(r, Failed)
                \/ /\ there[r] /\ file[name] # Absent /\ Parse(name, file[name]).ok
                   /\ Advance(r, Parse(name, file[name]).v)
                \/ /\ there[r] /\ file[name] # Absent /\ ~ Parse(name, file[name]).ok
                   /\ Finish(r, Failed)
<1> DEFINE name == Order[next[r]]
<1>1. CASE Look(r)
  BY Zenon, <1>1 DEF Look
<1>2. CASE Read(r)
  <2> DEFINE v == IF file[name] = Absent THEN Failed ELSE Parse(name, file[name])
  <2>1. /\ UNCHANGED <<testEnv, cal, harness>>
        /\ doing[r] \in {"reading", "scaling"} /\ there[r]
        /\ IF v.ok THEN Advance(r, v.v) ELSE Finish(r, Failed)
    BY Zenon, <1>2 DEF Read
  <2>2. CASE file[name] = Absent
    BY <2>1, <2>2, ResultIs
  <2>3. CASE file[name] # Absent
    <3>1. v = Parse(name, file[name])
      BY <2>3
    <3> HIDE DEF v
    <3> QED
      BY <2>1, <2>3, <3>1
  <2> QED
    BY <2>2, <2>3
<1> QED
  BY <1>1, <1>2

\* The reading after one more file, the k-th.
Known(g, k, v) ==
  [cal |-> g.cal,
   val |-> [start |-> IF k = 1 THEN v ELSE g.val.start,
            factor |-> IF k = 2 THEN v ELSE g.val.factor,
            diff |-> g.val.diff]]

\* A value leads to the sleep, to the next file or to the result.
LEMMA Advances ==
  ASSUME Readers, NEW r \in Reader, NEW v, Advance(r, v),
         doing[r] = "scaling" => next[r] = 2
  PROVE  \/ /\ doing[r] = "scaling"
            /\ doing' = [doing EXCEPT ![r] = "asleep"]
            /\ wake' = [wake EXCEPT ![r] = cal + ScaleWait(asked[r].ms, v)]
            /\ asked' = [asked EXCEPT ![r] = [ms |-> asked[r].ms, cal |-> cal, factor |-> v]]
            /\ there' = [there EXCEPT ![r] = FALSE]
            /\ UNCHANGED <<next, got, reading, floor, crossed, shown, latest>>
         \/ /\ doing[r] # "scaling" /\ next[r] \in {1, 2}
            /\ next' = [next EXCEPT ![r] = next[r] + 1]
            /\ there' = [there EXCEPT ![r] = FALSE]
            /\ got' = [got EXCEPT ![r] = Known(got[r], next[r], v)]
            /\ UNCHANGED <<doing, wake, reading, asked, floor, crossed, shown, latest>>
         \/ /\ doing[r] # "scaling" /\ next[r] = 3
            /\ Finish(r, Result(Simtime(got[r].cal, got[r].val.start, got[r].val.factor, v)))
<1> DEFINE val == [got[r].val EXCEPT ![Order[next[r]]] = v]  g == got[r]
<1>1. CASE doing[r] = "scaling"
  <2>1. /\ doing' = [doing EXCEPT ![r] = "asleep"]
        /\ wake' = [wake EXCEPT ![r] = cal + ScaleWait(asked[r].ms, v)]
        /\ asked' = [asked EXCEPT ![r].cal = cal, ![r].factor = v]
        /\ there' = [there EXCEPT ![r] = FALSE]
        /\ UNCHANGED <<next, got, reading, floor, crossed, shown, latest>>
    BY <1>1 DEF Advance
  <2>2. asked' = [asked EXCEPT ![r] = [ms |-> asked[r].ms, cal |-> cal, factor |-> v]]
    <3> DEFINE a == asked[r]
    <3>1. a = [ms |-> a.ms, cal |-> a.cal, factor |-> a.factor]
      BY DEF Readers
    <3>2. asked' = [asked EXCEPT ![r] = [[a EXCEPT !.cal = cal] EXCEPT !.factor = v]]
      BY <2>1 DEF Readers
    <3> HIDE DEF a
    <3> DEFINE b == [a EXCEPT !.cal = cal]
    <3>4. b = [ms |-> a.ms, cal |-> cal, factor |-> a.factor]
      BY <3>1
    <3>5. [b EXCEPT !.factor = v] = [ms |-> a.ms, cal |-> cal, factor |-> v]
      <4>1. /\ b = [ms |-> b.ms, cal |-> b.cal, factor |-> b.factor]
            /\ b.ms = a.ms /\ b.cal = cal
        BY <3>4
      <4> HIDE DEF b
      <4> QED
        BY <4>1
    <3>3. [[a EXCEPT !.cal = cal] EXCEPT !.factor = v]
          = [ms |-> a.ms, cal |-> cal, factor |-> v]
      BY <3>5
    <3> QED
      BY <3>2, <3>3 DEF a
  <2> QED
    BY <1>1, <2>1, <2>2
<1>2. CASE doing[r] # "scaling" /\ next[r] < Len(Order)
  <2>1. /\ next' = [next EXCEPT ![r] = @ + 1]
        /\ there' = [there EXCEPT ![r] = FALSE]
        /\ got' = [got EXCEPT ![r].val = val]
        /\ UNCHANGED <<doing, wake, reading, asked, floor, crossed, shown, latest>>
    BY <1>2 DEF Advance
  <2>2. next[r] \in {1, 2}
    BY <1>2, OrderIs DEF Readers
  <2>3. g = [cal |-> g.cal, val |-> g.val]
        /\ g.val = [start |-> g.val.start, factor |-> g.val.factor, diff |-> g.val.diff]
    BY DEF Readers
  <2>4. got' = [got EXCEPT ![r] = [cal |-> g.cal, val |-> val]]
    <3>1. got' = [got EXCEPT ![r] = [g EXCEPT !.val = val]]
      BY <2>1 DEF Readers
    <3> HIDE DEF val, g
    <3>2. [g EXCEPT !.val = val] = [cal |-> g.cal, val |-> val]
      BY <2>3
    <3> QED
      BY <3>1, <3>2
  <2>5. [cal |-> g.cal, val |-> val] = Known(g, next[r], v)
    <3> DEFINE x == g.val
    <3>1. val = [x EXCEPT ![Order[next[r]]] = v]
          /\ x = [start |-> x.start, factor |-> x.factor, diff |-> x.diff]
      BY <2>3
    <3> HIDE DEF val, x
    <3>2. CASE next[r] = 1
      <4>1. val = [x EXCEPT !["start"] = v]
        BY <3>1, <3>2, OrderIs
      <4>2. val = [start |-> v, factor |-> x.factor, diff |-> x.diff]
        BY <3>1, <4>1
      <4> QED
        BY <3>2, <4>2 DEF Known, x
    <3>3. CASE next[r] = 2
      <4>1. val = [x EXCEPT !["factor"] = v]
        BY <3>1, <3>3, OrderIs
      <4>2. val = [start |-> x.start, factor |-> v, diff |-> x.diff]
        BY <3>1, <4>1
      <4> QED
        BY <3>3, <4>2 DEF Known, x
    <3> QED
      BY <2>2, <3>2, <3>3
  <2>6. got' = [got EXCEPT ![r] = Known(got[r], next[r], v)]
    BY <2>4, <2>5
  <2> QED
    BY <1>2, <2>1, <2>2, <2>6
<1>3. CASE doing[r] # "scaling" /\ ~ (next[r] < Len(Order))
  <2>1. next[r] = 3
    BY <1>3, OrderIs DEF Readers
  <2>2. Finish(r, Result(Simtime(got[r].cal, val.start, val.factor, val.diff)))
    BY <1>3 DEF Advance
  <2>3. val.start = g.val.start /\ val.factor = g.val.factor /\ val.diff = v
    <3> DEFINE x == g.val
    <3>1. val = [x EXCEPT !["diff"] = v]
      BY <2>1, OrderIs
    <3>2. x = [start |-> x.start, factor |-> x.factor, diff |-> x.diff]
      BY DEF Readers
    <3> HIDE DEF val, x
    <3>3. val.start = x.start /\ val.factor = x.factor /\ val.diff = v
      BY <3>1, <3>2
    <3> QED
      BY <3>3 DEF x
  <2> HIDE DEF val
  <2> QED
    BY <1>3, <2>1, <2>2, <2>3
<1> QED
  BY <1>1, <1>2, <1>3

-----------------------------------------------------------------------------
(* The inductive invariant.                                                *)

\* The operations of each script.
Writes(name, contents) == {Op(name, c) : c \in contents}

Steps(what) ==
  CASE what = "travel" -> Writes("diff", Shifts \ {Absent})
    [] what = "return" -> Writes("diff", {Absent})
    [] what = "accelerate" ->
         Writes("start", {Empty, Now}) \cup Writes("factor", {Empty} \cup Rate)
    [] what = "rest" -> Writes("factor", {Absent}) \cup Writes("start", {Absent})
    [] OTHER -> {}

\* What is left of a return to the calendar's rate: the factor goes first.
FactorGoes == <<Op("factor", Absent), Op("start", Absent)>>
StartGoes == <<Op("start", Absent)>>

\* The files, the script and the calendar.
Files ==
  /\ Valid(file)
  /\ todo \in Seq(Steps(kind))
  /\ kind = "rest" => todo \in {FactorGoes, StartGoes, <<>>}
  /\ script \in Nat /\ cal \in Start .. MaxCal /\ testEnv \in BOOLEAN

\* The parts of a reader's state fit together.
Steady(r) ==
  /\ got[r].cal <= cal
  /\ doing[r] = "idle" => next[r] = 1 /\ crossed[r] = {}
  /\ doing[r] = "scaling" => next[r] = 2
  /\ doing[r] \in {"idle", "asleep"} => ~ there[r]
  /\ doing[r] \in {"reading", "scaling"} => testEnv
  /\ doing[r] = "asleep" =>
       wake[r] = asked[r].cal + ScaleWait(asked[r].ms, asked[r].factor)

\* A script that crosses a reading is the present one or an earlier one; the
\* return to the calendar's rate crosses none before its first write; and a
\* file that was seen and is gone was removed by a script that crosses.
Crossings(r) ==
  /\ \A w \in crossed[r] :
       /\ w[1] \in 0 .. script
       /\ w[1] = script => w[2] = kind /\ (kind = "rest" => todo # FactorGoes)
  /\ there[r] /\ file[Order[next[r]]] = Absent =>
       \E w \in crossed[r] : w[2] \in {"rest", "return"}

\* Only the difference was written meanwhile.
Shifted(r) == \A w \in crossed[r] : w[2] \in {"travel", "return"}

\* A value that was read is still what the file holds, if nothing or only a
\* shift crosses.
Undisturbed(r) ==
  /\ doing[r] = "reading" /\ Shifted(r) =>
       /\ next[r] > 1 => Is(file, "start", got[r].val.start)
       /\ next[r] > 2 => Is(file, "factor", got[r].val.factor)
  /\ doing[r] = "asleep" /\ crossed[r] = {} /\ testEnv
       => Is(file, "factor", asked[r].factor)

\* The files as a reader at its k-th will have seen them, if they rest from
\* now on: what it has read, and the rest as it is.
Sees(fs, k, val, a, f, d) ==
  /\ IF k > 1 THEN a = val.start ELSE Is(fs, "start", a)
  /\ IF k > 2 THEN f = val.factor ELSE Is(fs, "factor", f)
  /\ Is(fs, "diff", d)

\* One script crosses, and it is no change of the rate.
Slow(r) == /\ \A w \in crossed[r] : w[2] # "accelerate"
           /\ \A w1, w2 \in crossed[r] : w1[1] = w2[1]

\* Then, if they rest, the reading will be what the clock showed: the part
\* that makes ReadingsAreSnapshots inductive.
Snapshot(r) ==
  doing[r] = "reading" /\ Slow(r) =>
    \A a, f, d :
      Sees(file, next[r], got[r].val, a, f, d) => Simtime(got[r].cal, a, f, d) \in shown[r]

\* Each of S was shown by these files, at c at the latest.
Past(S, c, fs) == \A v \in S : \E c0 \in 0 .. c : v \in Shown(c0, fs)

\* What a reading must not fall below was shown before it began.
Floor(r) == doing[r] = "reading" /\ crossed[r] = {} => Past(floor[r], got[r].cal, file)

\* All of this for one reader.
Fine(r) == Steady(r) /\ Crossings(r) /\ Undisturbed(r) /\ Snapshot(r) /\ Floor(r)

\* The reading that ended last.
Answer == reading = Failed \/ \E v \in Int : reading = Result(v)

\* The inductive invariant.
Inv == /\ Files /\ Readers /\ Answer
       /\ \A r \in Reader : Fine(r)
       /\ Past(latest, cal, file)

\* The calendar is a number.
LEMMA CalIs ==
  ASSUME Files
  PROVE  cal \in Nat
<1>1. Start \in Nat /\ MaxCal \in Nat
  BY BoundsAssumption
<1> QED
  BY <1>1 DEF Files

\* The invariant holds at first.
LEMMA Initially == Init => Inv
<1> SUFFICES ASSUME Init PROVE Inv
  OBVIOUS
<1>1. Files
  <2>1. Valid(file)
    BY DEF Init, Valid, Names, Clock, Factors, Shifts
  <2>2. todo = <<>> /\ kind = "none"
    BY DEF Init
  <2>3. todo \in Seq(Steps(kind))
    BY <2>2
  <2>4. Start \in Start .. MaxCal
    BY BoundsAssumption
  <2> QED
    BY <2>1, <2>2, <2>3, <2>4 DEF Init, Files
<1>2. Readers
  <2>1. Presets \in [start : Int, factor : Fraction, diff : Int] /\ One \in Fraction
    BY DEF Presets, One, Fraction
  <2>2. /\ [cal |-> 0, val |-> Presets]
             \in [cal : Nat, val : [start : Int, factor : Fraction, diff : Int]]
        /\ [ms |-> 0, cal |-> 0, factor |-> One] \in [ms : Nat, cal : Nat, factor : Fraction]
    BY <2>1
  <2>3. /\ got \in [Reader -> [cal : Nat, val : [start : Int, factor : Fraction, diff : Int]]]
        /\ asked \in [Reader -> [ms : Nat, cal : Nat, factor : Fraction]]
    BY <2>2 DEF Init
  <2>4. /\ doing \in [Reader -> {"idle", "reading", "scaling", "asleep"}]
        /\ next \in [Reader -> 1 .. 3]
        /\ there \in [Reader -> BOOLEAN]
        /\ wake \in [Reader -> Nat]
    BY DEF Init
  <2>5. /\ DOMAIN crossed = Reader /\ DOMAIN shown = Reader /\ DOMAIN floor = Reader
        /\ crossed = [q \in Reader |-> crossed[q]]
        /\ shown = [q \in Reader |-> shown[q]]
        /\ floor = [q \in Reader |-> floor[q]]
    BY DEF Init
  <2> QED
    BY <2>3, <2>4, <2>5 DEF Readers
<1>3. Answer
  BY DEF Init, Answer
<1>4. ASSUME NEW r \in Reader
      PROVE  Fine(r)
  <2>1. /\ doing[r] = "idle" /\ next[r] = 1 /\ crossed[r] = {} /\ there[r] = FALSE
        /\ got[r].cal = 0 /\ cal \in Nat
    BY CalIs, <1>1 DEF Init
  <2>2. Steady(r) /\ Crossings(r)
    BY <2>1 DEF Steady, Crossings
  <2> QED
    BY <2>1, <2>2 DEF Fine, Undisturbed, Snapshot, Floor
<1>5. Past(latest, cal, file)
  BY DEF Init, Past
<1> QED
  BY <1>1, <1>2, <1>3, <1>4, <1>5 DEF Inv

\* A reader that does not move stays fine while the files rest, though time
\* passes, another reads, or the next script begins.
LEMMA Untouched ==
  ASSUME Files, cal' \in Nat, cal <= cal', UNCHANGED <<testEnv, file>>,
         \/ UNCHANGED <<script, kind, todo>>
         \/ script' = script + 1,
         NEW q \in Reader, Readers, Fine(q), Same(q)
  PROVE  Fine(q)'
<1> USE CalIs DEF Same
<1>1. Steady(q)'
  <2>1. got[q].cal \in Nat /\ got[q].cal <= cal
    BY DEF Readers, Fine, Steady
  <2>2. got'[q].cal <= cal'
    BY <2>1
  <2> QED
    BY <2>2 DEF Fine, Steady
<1>2. Crossings(q)'
  BY DEF Fine, Crossings, Files
<1>3. Undisturbed(q)'
  BY DEF Fine, Undisturbed, Shifted
<1>4. Snapshot(q)'
  BY DEF Fine, Snapshot, Slow
<1>5. Floor(q)'
  BY DEF Fine, Floor
<1> QED
  BY <1>1, <1>2, <1>3, <1>4, <1>5 DEF Fine

-----------------------------------------------------------------------------
(* The harness writes.                                                     *)

\* Which file each script writes.
Touches == {<<"travel", "diff">>, <<"return", "diff">>, <<"accelerate", "start">>,
            <<"accelerate", "factor">>, <<"rest", "factor">>, <<"rest", "start">>}

\* An operation of a script writes its file with contents of that file's kind;
\* only two scripts remove.
LEMMA StepsAre ==
  ASSUME NEW k, NEW op \in Steps(k)
  PROVE  \E name \in Names : \E c :
           /\ op = Op(name, c) /\ <<k, name>> \in Touches
           /\ c = Absent => k \in {"return", "rest"}
           /\ \/ c = Absent
              \/ name = "start" /\ c \in {Empty, Now}
              \/ name = "factor" /\ c \in {Empty} \cup Rate
              \/ name = "diff" /\ c \in Shifts
<1>1. CASE k = "travel"
  <2>1. op \in Writes("diff", Shifts \ {Absent})
    BY <1>1 DEF Steps
  <2> QED
    BY <1>1, <2>1 DEF Writes, Names, Touches
<1>2. CASE k = "return"
  <2>1. op \in Writes("diff", {Absent})
    BY <1>2 DEF Steps
  <2> QED
    BY <1>2, <2>1 DEF Writes, Names, Touches
<1>3. CASE k = "accelerate"
  <2>1. op \in Writes("start", {Empty, Now}) \cup Writes("factor", {Empty} \cup Rate)
    BY <1>3 DEF Steps
  <2>2. Now # Absent /\ Empty # Absent
    BY DEF Now, Empty, Absent
  <2>3. ASSUME NEW f \in Rate
        PROVE  f # Absent
    BY RateAssumption DEF Text, Absent
  <2>4. CASE op \in Writes("start", {Empty, Now})
    BY <1>3, <2>2, <2>4 DEF Writes, Names, Touches
  <2>5. CASE op \in Writes("factor", {Empty} \cup Rate)
    BY <1>3, <2>2, <2>3, <2>5 DEF Writes, Names, Touches
  <2> QED
    BY <2>1, <2>4, <2>5
<1>4. CASE k = "rest"
  <2>1. op \in Writes("factor", {Absent}) \cup Writes("start", {Absent})
    BY <1>4 DEF Steps
  <2> QED
    BY <1>4, <2>1 DEF Writes, Names, Touches
<1>5. CASE k \notin {"travel", "return", "accelerate", "rest"}
  <2>1. op \in {}
    BY <1>5 DEF Steps
  <2> QED
    BY <2>1
<1> QED
  BY <1>1, <1>2, <1>3, <1>4, <1>5

\* Short lists.
LEMMA Lists ==
  ASSUME NEW S, NEW a \in S, NEW b \in S
  PROVE  <<a>> \in Seq(S) /\ <<a, b>> \in Seq(S)
OBVIOUS

\* A script that begins writes nothing yet.
LEMMA Begun ==
  ASSUME Files, Travel \/ TravelBack \/ Accelerate \/ Rest
  PROVE  /\ script' = script + 1
         /\ UNCHANGED <<testEnv, cal, file, reader, crossed, shown, latest>>
         /\ Files'
<1>1. ASSUME NEW k, NEW ops, Begin(k, ops), ops \in Seq(Steps(k)),
             k = "rest" => ops \in {FactorGoes, StartGoes, <<>>}
      PROVE  /\ script' = script + 1
             /\ UNCHANGED <<testEnv, cal, file, reader, crossed, shown, latest>>
             /\ Files'
  <2>1. /\ script' = script + 1 /\ kind' = k /\ todo' = ops
        /\ UNCHANGED <<testEnv, cal, file, reader, crossed, shown, latest>>
    BY <1>1 DEF Begin
  <2>2. script' \in Nat
    BY <2>1 DEF Files
  <2> QED
    BY <1>1, <2>1, <2>2 DEF Files
<1>2. CASE Travel
  <2>1. PICK d \in Shift : Begin("travel", Redirect("diff", Number(d)))
    BY <1>2 DEF Travel
  <2>2. Number(d) \in Shifts \ {Absent} /\ Empty \in Shifts \ {Absent}
    BY DEF Shifts, Number, Absent, Empty
  <2>3. Op("diff", Empty) \in Steps("travel") /\ Op("diff", Number(d)) \in Steps("travel")
    BY <2>2 DEF Steps, Writes
  <2>4. Redirect("diff", Number(d)) \in Seq(Steps("travel"))
    BY <2>3, Lists DEF Redirect
  <2> QED
    BY <1>1, <2>1, <2>4
<1>3. CASE TravelBack
  <2>1. Op("diff", Absent) \in Steps("return")
    BY DEF Steps, Writes
  <2>2. <<Op("diff", Absent)>> \in Seq(Steps("return"))
    BY <2>1, Lists
  <2> QED
    BY <1>1, <1>3, <2>2 DEF TravelBack
<1>4. CASE Accelerate
  <2>1. PICK f \in Rate : Begin("accelerate", Redirect("start", Now) \o Redirect("factor", f))
    BY <1>4 DEF Accelerate
  <2>2. /\ Op("start", Empty) \in Steps("accelerate")
        /\ Op("start", Now) \in Steps("accelerate")
        /\ Op("factor", Empty) \in Steps("accelerate")
        /\ Op("factor", f) \in Steps("accelerate")
    BY DEF Steps, Writes
  <2> DEFINE S == Seq(Steps("accelerate"))
             a == Redirect("start", Now)  b == Redirect("factor", f)
  <2>3. a \in S /\ b \in S
    BY <2>2, Lists DEF Redirect
  <2> HIDE DEF a, b
  <2>4. a \o b \in S
    BY <2>3, ConcatProperties
  <2> QED
    BY <1>1, <2>1, <2>4 DEF a, b
<1>5. CASE Rest
  <2>1. Op("factor", Absent) \in Steps("rest") /\ Op("start", Absent) \in Steps("rest")
    BY DEF Steps, Writes
  <2>2. FactorGoes \in Seq(Steps("rest"))
    BY <2>1, Lists DEF FactorGoes
  <2>3. Begin("rest", FactorGoes)
    BY <1>5 DEF Rest, FactorGoes
  <2> QED
    BY <1>1, <2>2, <2>3
<1> QED
  BY <1>2, <1>3, <1>4, <1>5

\* A step of the harness writes one file of the script's.
LEMMA Wrote ==
  ASSUME Files, HarnessStep
  PROVE  \E name \in Names : \E c :
           /\ file' = [file EXCEPT ![name] = c] /\ <<kind, name>> \in Touches
           /\ c = Absent => kind \in {"return", "rest"}
           /\ kind = "rest" => /\ name = "start" => todo # FactorGoes
                               /\ name = "factor" => todo = FactorGoes
                               /\ todo' # FactorGoes
           /\ Files'
<1> DEFINE S == Steps(kind)  op == Head(todo)
<1>1. /\ todo # <<>> /\ todo' = Tail(todo) /\ UNCHANGED <<testEnv, cal, script, kind>>
      /\ file' = [file EXCEPT ![op.name] =
                    IF op.contents = Now THEN Number(cal) ELSE op.contents]
  BY DEF HarnessStep
<1>2. todo \in Seq(S)
  BY DEF Files
<1> HIDE DEF S
<1>3. op \in S /\ todo' \in Seq(S)
  BY <1>1, <1>2, HeadTailProperties
<1>4. PICK name, c :
           /\ name \in Names
           /\ op = Op(name, c) /\ <<kind, name>> \in Touches
           /\ c = Absent => kind \in {"return", "rest"}
           /\ \/ c = Absent
              \/ name = "start" /\ c \in {Empty, Now}
              \/ name = "factor" /\ c \in {Empty} \cup Rate
              \/ name = "diff" /\ c \in Shifts
  BY <1>3, StepsAre DEF S
<1>5. op.name = name /\ op.contents = c
  BY <1>4 DEF Op
<1> DEFINE e == IF op.contents = Now THEN Number(cal) ELSE op.contents
<1>6. /\ e = Absent => kind \in {"return", "rest"}
      /\ e \in (CASE name = "start" -> Clock [] name = "factor" -> Factors [] OTHER -> Shifts)
  <2>1. Now # Absent /\ Now # Empty /\ Number(cal) # Absent
    BY DEF Now, Absent, Empty, Number
  <2>2. ASSUME NEW f \in Rate
        PROVE  f # Now
    BY RateAssumption DEF Now, Text
  <2>3. ASSUME NEW f \in Shifts
        PROVE  f # Now
    BY DEF Shifts, Now, Absent, Empty, Number
  <2>4. Number(cal) \in Clock
    BY DEF Clock, Files
  <2>5. Absent \in Clock /\ Absent \in Factors /\ Absent \in Shifts /\ Empty \in Clock
        /\ Empty \in Factors /\ Rate \subseteq Factors
    BY DEF Clock, Factors, Shifts
  <2>6. e = IF c = Now THEN Number(cal) ELSE c
    BY <1>5
  <2> HIDE DEF e
  <2>7. CASE c = Now
    <3>1. name = "start" /\ e = Number(cal)
      BY <1>4, <2>1, <2>2, <2>3, <2>6, <2>7
    <3> QED
      BY <2>1, <2>4, <3>1
  <2>8. CASE c # Now
    <3>1. e = c
      BY <2>6, <2>8
    <3>2. CASE name = "start"
      BY <1>4, <2>5, <2>8, <3>1, <3>2
    <3>3. CASE name = "factor"
      BY <1>4, <2>5, <2>8, <3>1, <3>3
    <3>4. CASE name = "diff"
      BY <1>4, <2>5, <2>8, <3>1, <3>4
    <3> QED
      BY <1>4, <3>2, <3>3, <3>4 DEF Names
  <2> QED
    BY <2>7, <2>8
<1>7. file' = [file EXCEPT ![name] = e]
  BY <1>1, <1>5
<1> HIDE DEF e
<1>8. Valid(file')
  <2>1. DOMAIN file = Names /\ DOMAIN file' = Names
    BY <1>7 DEF Files, Valid
  <2>2. /\ file'[name] = e
        /\ \A n \in Names \ {name} : file'[n] = file[n]
    BY <1>4, <1>7, <2>1
  <2>3. file["start"] \in Clock /\ file["factor"] \in Factors /\ file["diff"] \in Shifts
    BY DEF Files, Valid
  <2>4. file'["start"] \in Clock
    BY <1>6, <2>2, <2>3 DEF Names
  <2>5. file'["factor"] \in Factors
    BY <1>6, <2>2, <2>3 DEF Names
  <2>6. file'["diff"] \in Shifts
    BY <1>6, <2>2, <2>3 DEF Names
  <2> QED
    BY <2>1, <2>4, <2>5, <2>6 DEF Valid
<1>9. kind = "rest" => /\ name = "start" => todo # FactorGoes
                       /\ name = "factor" => todo = FactorGoes
                       /\ todo' \in {StartGoes, <<>>}
  <2> SUFFICES ASSUME kind = "rest"
               PROVE  /\ name = "start" => todo # FactorGoes
                      /\ name = "factor" => todo = FactorGoes
                      /\ todo' \in {StartGoes, <<>>}
    OBVIOUS
  <2>1. todo = FactorGoes \/ todo = StartGoes
    BY <1>1 DEF Files
  <2>2. CASE todo = FactorGoes
    <3>1. op = Op("factor", Absent) /\ Tail(todo) = StartGoes
      BY <2>2 DEF FactorGoes, StartGoes
    <3>2. name = "factor"
      BY <1>5, <3>1 DEF Op
    <3> QED
      BY <1>1, <2>2, <3>1, <3>2
  <2>3. CASE todo = StartGoes
    <3>1. op = Op("start", Absent) /\ Tail(todo) = <<>> /\ todo # FactorGoes
      BY <2>3 DEF FactorGoes, StartGoes
    <3>2. name = "start"
      BY <1>5, <3>1 DEF Op
    <3> QED
      BY <1>1, <2>3, <3>1, <3>2
  <2> QED
    BY <2>1, <2>2, <2>3
<1>10. StartGoes # FactorGoes /\ <<>> # FactorGoes
  BY DEF StartGoes, FactorGoes
<1>11. Files'
  BY <1>1, <1>3, <1>8, <1>9 DEF Files, S
<1> QED
  BY <1>4, <1>6, <1>7, <1>9, <1>10, <1>11

\* Everybody who is not idle is crossed.
LEMMA Noticed ==
  ASSUME Readers, HarnessStep
  PROVE  /\ UNCHANGED <<testEnv, cal, script, kind, reader>> /\ latest' = {}
         /\ Readers'
         /\ \A q \in Reader :
              /\ doing[q] = "idle" => crossed'[q] = crossed[q]
              /\ doing[q] # "idle" =>
                   /\ crossed'[q] = crossed[q] \cup {<<script, kind>>}
                   /\ shown'[q] = shown[q] \cup Shown(got[q].cal, file')
<1> DEFINE busy == {r \in Reader : doing[r] # "idle"}
<1>1. /\ crossed' = [r \in Reader |-> IF r \in busy THEN crossed[r] \cup {<<script, kind>>}
                                      ELSE crossed[r]]
      /\ shown' = [r \in Reader |-> IF r \in busy THEN shown[r] \cup Shown(got[r].cal, file')
                                    ELSE shown[r]]
      /\ UNCHANGED <<testEnv, cal, script, kind, reader>> /\ latest' = {}
  BY Zenon DEF HarnessStep
<1>2. Readers'
  <2>1. /\ doing' \in [Reader -> {"idle", "reading", "scaling", "asleep"}]
        /\ next' \in [Reader -> 1 .. 3]
        /\ there' \in [Reader -> BOOLEAN]
        /\ got' \in [Reader -> [cal : Nat, val : [start : Int, factor : Fraction, diff : Int]]]
        /\ wake' \in [Reader -> Nat]
        /\ asked' \in [Reader -> [ms : Nat, cal : Nat, factor : Fraction]]
        /\ DOMAIN floor' = Reader /\ floor' = [q \in Reader |-> floor'[q]]
    BY <1>1 DEF Readers, reader
  <2>2. /\ DOMAIN crossed' = Reader /\ DOMAIN shown' = Reader
        /\ crossed' = [q \in Reader |-> crossed'[q]]
        /\ shown' = [q \in Reader |-> shown'[q]]
    <3> HIDE DEF busy
    <3> QED
      BY Zenon, <1>1
  <2> QED
    BY <2>1, <2>2 DEF Readers
<1>3. \A q \in Reader : /\ q \in busy <=> doing[q] # "idle"
                        /\ crossed'[q] = (IF q \in busy THEN crossed[q] \cup {<<script, kind>>}
                                          ELSE crossed[q])
                        /\ shown'[q] = (IF q \in busy THEN shown[q] \cup Shown(got[q].cal, file')
                                        ELSE shown[q])
  BY Zenon, <1>1
<1> HIDE DEF busy
<1> QED
  BY <1>1, <1>2, <1>3

\* A write keeps Snapshot.  A shift or the return of it: what was read still
\* holds, so the reading will be what the files show now.  The calendar's rate:
\* who has read past the file sees what it saw before; who has not, and sees
\* the factor go, has been crossed by nothing before; and who sees the anchor
\* go has not read any file.
LEMMA SeenByWriting ==
  ASSUME Files, HarnessStep, Valid(file'), NEW q \in Reader, Readers, Fine(q),
         doing[q] = "reading", Slow(q)', NEW a, NEW f, NEW d,
         Sees(file', next[q], got[q].val, a, f, d)
  PROVE  Simtime(got[q].cal, a, f, d) \in shown'[q]
<1>1. PICK name, c :
           /\ name \in Names
           /\ file' = [file EXCEPT ![name] = c] /\ <<kind, name>> \in Touches
           /\ kind = "rest" => /\ name = "start" => todo # FactorGoes
                               /\ name = "factor" => todo = FactorGoes
                               /\ todo' # FactorGoes
  BY Wrote
<1>2. /\ crossed'[q] = crossed[q] \cup {<<script, kind>>}
      /\ shown'[q] = shown[q] \cup Shown(got[q].cal, file')
  BY Noticed
<1>3. DOMAIN file = Names
  BY DEF Files, Valid
<1>4. \A n \in Names : \A v : n # name => (Is(file', n, v) <=> Is(file, n, v))
  BY <1>1, <1>3 DEF Is
<1> DEFINE k == next[q]  val == got[q].val
<1>5. k \in 1 .. 3
  BY DEF Readers
<1>6. /\ <<script, kind>> \in crossed'[q]
      /\ kind # "accelerate"
      /\ \A w \in crossed[q] : w[1] = script /\ w[2] = kind
                               /\ (kind = "rest" => todo # FactorGoes)
  <2>1. <<script, kind>> \in crossed'[q] /\ crossed[q] \subseteq crossed'[q]
    BY <1>2
  <2>2. <<script, kind>>[1] = script /\ <<script, kind>>[2] = kind
    OBVIOUS
  <2>3. kind # "accelerate" /\ \A w \in crossed[q] : w[1] = script
    BY <2>1, <2>2 DEF Slow
  <2>4. \A w \in crossed[q] :
          w[1] = script => w[2] = kind /\ (kind = "rest" => todo # FactorGoes)
    BY DEF Fine, Crossings
  <2> QED
    BY <2>1, <2>3, <2>4
<1>7. Slow(q)
  BY <1>2 DEF Slow
<1>8. ASSUME Sees(file, k, val, a, f, d)
      PROVE  Simtime(got[q].cal, a, f, d) \in shown'[q]
  BY <1>2, <1>7, <1>8 DEF Fine, Snapshot
<1>9. ASSUME Is(file', "start", a), Is(file', "factor", f), Is(file', "diff", d)
      PROVE  Simtime(got[q].cal, a, f, d) \in shown'[q]
  <2>1. Simtime(got[q].cal, a, f, d) \in Shown(got[q].cal, file')
    BY <1>9, ShownIs
  <2> QED
    BY <1>2, <2>1
<1>10. /\ IF k > 1 THEN a = val.start ELSE Is(file', "start", a)
       /\ IF k > 2 THEN f = val.factor ELSE Is(file', "factor", f)
       /\ Is(file', "diff", d)
  BY DEF Sees
<1>11. Shifted(q) => /\ k > 1 => Is(file, "start", val.start)
                     /\ k > 2 => Is(file, "factor", val.factor)
  BY DEF Fine, Undisturbed
<1>12. "start" \in Names /\ "factor" \in Names /\ "diff" \in Names
  BY DEF Names
<1>13. \/ kind \in {"travel", "return"} /\ name = "diff"
       \/ kind = "rest" /\ name = "factor" /\ crossed[q] = {}
       \/ kind = "rest" /\ name = "start"
  BY <1>1, <1>6 DEF Touches
<1> HIDE DEF k, val
<1>14. CASE kind \in {"travel", "return"} /\ name = "diff"
  <2>1. Shifted(q)
    BY <1>6, <1>14 DEF Shifted
  <2>2. Is(file', "start", a)
    BY <1>4, <1>10, <1>11, <1>12, <1>14, <2>1
  <2>3. Is(file', "factor", f)
    BY <1>4, <1>10, <1>11, <1>12, <1>14, <2>1
  <2> QED
    BY <1>9, <1>10, <2>2, <2>3
<1>15. CASE kind = "rest" /\ name = "factor" /\ crossed[q] = {}
  <2>1. CASE k > 2
    <3>1. Sees(file, k, val, a, f, d)
      BY <1>4, <1>5, <1>10, <1>12, <1>15, <2>1 DEF Sees, k
    <3> QED
      BY <1>8, <3>1
  <2>2. CASE ~ (k > 2)
    <3>1. Shifted(q)
      BY <1>15 DEF Shifted
    <3>2. Is(file', "start", a)
      BY <1>4, <1>10, <1>11, <1>12, <1>15, <3>1
    <3> QED
      BY <1>9, <1>10, <2>2, <3>2
  <2> QED
    BY <2>1, <2>2
<1>16. CASE kind = "rest" /\ name = "start"
  <2>1. CASE k > 1
    <3>1. Sees(file, k, val, a, f, d)
      BY <1>4, <1>10, <1>12, <1>16, <2>1 DEF Sees
    <3> QED
      BY <1>8, <3>1
  <2>2. CASE ~ (k > 1)
    <3>1. ~ (k > 2)
      BY <1>5, <2>2 DEF k
    <3> QED
      BY <1>9, <1>10, <2>2, <3>1
  <2> QED
    BY <2>1, <2>2
<1> QED
  BY <1>13, <1>14, <1>15, <1>16

\* A write keeps every reader fine.
LEMMA Rewritten ==
  ASSUME Files, HarnessStep, NEW q \in Reader, Readers, Fine(q)
  PROVE  Fine(q)'
<1>1. PICK name, c :
           /\ name \in Names
           /\ file' = [file EXCEPT ![name] = c] /\ <<kind, name>> \in Touches
           /\ c = Absent => kind \in {"return", "rest"}
           /\ kind = "rest" => /\ name = "start" => todo # FactorGoes
                               /\ name = "factor" => todo = FactorGoes
                               /\ todo' # FactorGoes
           /\ Files'
  BY Wrote
<1>2. /\ UNCHANGED <<testEnv, cal, script, kind, reader>>
      /\ doing[q] = "idle" => crossed'[q] = crossed[q]
      /\ doing[q] # "idle" =>
           /\ crossed'[q] = crossed[q] \cup {<<script, kind>>}
           /\ shown'[q] = shown[q] \cup Shown(got[q].cal, file')
  BY Noticed
<1>3. DOMAIN file = Names
  BY DEF Files, Valid
<1>4. /\ doing' = doing /\ next' = next /\ there' = there /\ got' = got /\ wake' = wake
      /\ asked' = asked /\ floor' = floor
  BY <1>2 DEF reader
<1>5. Steady(q)'
  BY <1>2, <1>4 DEF Fine, Steady
<1>6. Crossings(q)'
  <2>1. \A w \in crossed[q] :
          /\ w[1] \in 0 .. script
          /\ w[1] = script => w[2] = kind /\ (kind = "rest" => todo # FactorGoes)
    BY DEF Fine, Crossings
  <2>2. ASSUME NEW w \in crossed'[q]
        PROVE  /\ w[1] \in 0 .. script'
               /\ w[1] = script' => w[2] = kind' /\ (kind' = "rest"
                    => todo' # FactorGoes)
    <3>1. w \in crossed[q] \/ w = <<script, kind>>
      BY <1>2
    <3>2. script \in 0 .. script
      BY DEF Files
    <3> QED
      BY <1>1, <1>2, <2>1, <3>1, <3>2
  <2>3. ASSUME there'[q], file'[Order[next'[q]]] = Absent
        PROVE  \E w \in crossed'[q] : w[2] \in {"rest", "return"}
    <3>1. doing[q] # "idle"
      BY <1>4, <2>3 DEF Fine, Steady
    <3>2. Order[next[q]] \in Names
      BY OrderIs DEF Readers
    <3>3. file[Order[next[q]]] = Absent \/ c = Absent
      BY <1>1, <1>3, <1>4, <2>3, <3>2
    <3>4. CASE file[Order[next[q]]] = Absent
      BY <1>2, <1>4, <2>3, <3>1, <3>4 DEF Fine, Crossings
    <3>5. CASE c = Absent
      <4>1. <<script, kind>> \in crossed'[q] /\ <<script, kind>>[2] \in {"rest", "return"}
        BY <1>1, <1>2, <3>1, <3>5
      <4> QED
        BY <4>1
    <3> QED
      BY <3>3, <3>4, <3>5
  <2> QED
    BY <2>2, <2>3 DEF Crossings
<1>7. ASSUME doing[q] # "idle"
      PROVE  /\ crossed'[q] # {} /\ crossed[q] \subseteq crossed'[q]
             /\ <<script, kind>> \in crossed'[q]
  BY <1>2, <1>7
<1>8. Undisturbed(q)'
  <2>1. ASSUME doing[q] = "reading", Shifted(q)'
        PROVE  /\ next[q] > 1 => Is(file', "start", got[q].val.start)
               /\ next[q] > 2 => Is(file', "factor", got[q].val.factor)
    <3>1. Shifted(q) /\ kind \in {"travel", "return"}
      BY <1>7, <2>1 DEF Shifted
    <3>2. name = "diff"
      BY <1>1, <3>1 DEF Touches
    <3>3. file'["start"] = file["start"] /\ file'["factor"] = file["factor"]
      BY <1>1, <1>3, <3>2
    <3> QED
      BY <2>1, <3>1, <3>3 DEF Fine, Undisturbed, Is
  <2> QED
    BY <1>4, <1>7, <2>1 DEF Undisturbed
<1>9. Snapshot(q)'
  <2>1. ASSUME doing[q] = "reading", Slow(q)', NEW a, NEW f, NEW d,
               Sees(file', next[q], got[q].val, a, f, d)
        PROVE  Simtime(got[q].cal, a, f, d) \in shown'[q]
    <3>1. Valid(file')
      BY <1>1 DEF Files
    <3> QED
      BY <2>1, <3>1, SeenByWriting
  <2> QED
    BY <1>4, <2>1 DEF Snapshot
<1>10. Floor(q)'
  BY <1>4, <1>7 DEF Floor
<1> QED
  BY <1>5, <1>6, <1>8, <1>9, <1>10 DEF Fine

-----------------------------------------------------------------------------
(* The programs read.                                                      *)

\* What a step of reader r leaves.
Kept(r) == /\ UNCHANGED <<testEnv, cal, harness>>
           /\ Readers' /\ Answer' /\ Fine(r)' /\ Past(latest, cal, file)'
           /\ \A q \in Reader \ {r} : Same(q)

\* A reader may finish with a failure, or with what the files show.
LEMMA FinishedIsFine ==
  ASSUME Inv, NEW r \in Reader, NEW result, Finish(r, result), UNCHANGED <<testEnv,
         cal, harness>>,
         result = Failed \/ \E v \in Int : result = Result(v),
         doing[r] = "reading" /\ result.ok /\ crossed[r] = {}
           => result.v \in Shown(got[r].cal, file)
  PROVE  Kept(r)
<1>1. /\ doing'[r] = "idle" /\ next'[r] = 1 /\ there'[r] = FALSE /\ got'[r] = NoneRead
      /\ crossed'[r] = {} /\ reading' = result
      /\ \A q \in Reader \ {r} : Same(q)
      /\ Readers'
      /\ \/ latest' = latest
         \/ /\ doing[r] = "reading" /\ result.ok /\ crossed[r] = {}
            /\ latest' = {result.v}
  BY Finished DEF Inv
<1>2. file' = file /\ cal' = cal
  BY DEF harness
<1>3. cal \in Nat
  BY CalIs DEF Inv
<1>4. got'[r].cal = 0
  BY <1>1 DEF NoneRead
<1>5. Fine(r)'
  <2>1. Steady(r)' /\ Crossings(r)'
    BY <1>1, <1>2, <1>3, <1>4 DEF Steady, Crossings
  <2> QED
    BY <1>1, <2>1 DEF Fine, Undisturbed, Snapshot, Floor
<1>6. Past(latest, cal, file)'
  <2>1. CASE latest' = latest
    BY <1>2, <2>1 DEF Inv
  <2>2. CASE /\ doing[r] = "reading" /\ result.ok /\ crossed[r] = {}
             /\ latest' = {result.v}
    <3>1. result.v \in Shown(got[r].cal, file)
      BY <2>2
    <3>2. got[r].cal \in Nat /\ got[r].cal <= cal
      BY DEF Inv, Readers, Fine, Steady
    <3>3. got[r].cal \in 0 .. cal
      BY <1>3, <3>2
    <3> QED
      BY <1>2, <2>2, <3>1, <3>3 DEF Past
  <2> QED
    BY <1>1, <2>1, <2>2
<1>7. Answer'
  BY <1>1 DEF Answer
<1> QED
  BY <1>1, <1>5, <1>6, <1>7 DEF Kept

\* now_millis begins.
LEMMA ClockRead ==
  ASSUME Inv, NEW r \in Reader, NowMillis(r)
  PROVE  Kept(r)
<1>1. doing[r] = "idle" /\ UNCHANGED <<testEnv, cal, harness>>
  BY DEF NowMillis
<1>2. cal \in Nat
  BY CalIs DEF Inv
<1>3. CASE ~ testEnv
  <2>1. Finish(r, Result(cal))
    BY <1>3 DEF NowMillis
  <2>2. \E v \in Int : Result(cal) = Result(v)
    BY <1>2
  <2> QED
    BY <1>1, <2>1, <2>2, FinishedIsFine
<1>4. CASE testEnv
  <2>1. /\ doing' = [doing EXCEPT ![r] = "reading"]
        /\ got' = [got EXCEPT ![r].cal = cal]
        /\ floor' = [floor EXCEPT ![r] = latest]
        /\ shown' = [shown EXCEPT ![r] = Shown(cal, file)]
        /\ reading' = Failed
        /\ UNCHANGED <<next, there, wake, asked, crossed, latest>>
    BY <1>4 DEF NowMillis
  <2>2. Readers /\ Fine(r) /\ Files
    BY DEF Inv
  <2> DEFINE g == got[r]
  <2>3. g \in [cal : Nat, val : [start : Int, factor : Fraction, diff : Int]]
    BY <2>2 DEF Readers
  <2>4. got' = [got EXCEPT ![r] = [cal |-> cal, val |-> g.val]]
    <3>1. got' = [got EXCEPT ![r] = [g EXCEPT !.cal = cal]]
      BY <2>1, <2>2 DEF Readers
    <3> HIDE DEF g
    <3>2. [g EXCEPT !.cal = cal] = [cal |-> cal, val |-> g.val]
      BY <2>3
    <3> QED
      BY <3>1, <3>2
  <2>5. [cal |-> cal, val |-> g.val]
          \in [cal : Nat, val : [start : Int, factor : Fraction, diff : Int]]
    BY <1>2, <2>3
  <2> HIDE DEF g
  <2>6. /\ doing'[r] = "reading" /\ next'[r] = 1 /\ there'[r] = FALSE
        /\ crossed'[r] = {}
        /\ got'[r].cal = cal /\ floor'[r] = latest /\ shown'[r] = Shown(cal, file)
    <3>1. next[r] = 1 /\ crossed[r] = {} /\ there[r] = FALSE
      BY <1>1, <2>2 DEF Fine, Steady, Readers
    <3>2. got'[r] = [cal |-> cal, val |-> g.val]
      BY <2>2, <2>4 DEF Readers
    <3>3. floor'[r] = latest /\ shown'[r] = Shown(cal, file)
      BY <2>1, <2>2 DEF Readers
    <3> QED
      BY <2>1, <2>2, <3>1, <3>2, <3>3 DEF Readers
  <2>7. \A q \in Reader \ {r} : Same(q)
    BY <2>1, <2>2, <2>4 DEF Readers, Same
  <2>8. Readers'
    <3>1. /\ doing' \in [Reader -> {"idle", "reading", "scaling", "asleep"}]
          /\ next' \in [Reader -> 1 .. 3]
          /\ there' \in [Reader -> BOOLEAN]
          /\ wake' \in [Reader -> Nat]
          /\ asked' \in [Reader -> [ms : Nat, cal : Nat, factor : Fraction]]
      BY <2>1, <2>2 DEF Readers
    <3>2. got' \in [Reader -> [cal : Nat, val : [start : Int, factor : Fraction, diff : Int]]]
      BY <2>2, <2>4, <2>5 DEF Readers
    <3>3. /\ DOMAIN crossed' = Reader /\ DOMAIN shown' = Reader
          /\ DOMAIN floor' = Reader
          /\ crossed' = [q \in Reader |-> crossed'[q]]
          /\ shown' = [q \in Reader |-> shown'[q]]
          /\ floor' = [q \in Reader |-> floor'[q]]
      BY <2>1, <2>2 DEF Readers
    <3> QED
      BY <3>1, <3>2, <3>3 DEF Readers
  <2>9. file' = file /\ cal' = cal /\ testEnv' = testEnv
    BY <1>1 DEF harness
  <2>10. Steady(r)' /\ Crossings(r)' /\ Undisturbed(r)'
    <3>1. Steady(r)'
      BY <1>2, <1>4, <2>6, <2>9 DEF Steady
    <3>2. Crossings(r)' /\ Undisturbed(r)'
      BY <2>6 DEF Crossings, Undisturbed
    <3> QED
      BY <3>1, <3>2
  <2>11. Snapshot(r)'
    <3>1. ASSUME NEW a, NEW f, NEW d, Sees(file', 1, got'[r].val, a, f, d)
          PROVE  Simtime(cal, a, f, d) \in Shown(cal, file)
      <4>1. Is(file, "start", a) /\ Is(file, "factor", f) /\ Is(file, "diff", d)
        BY <2>9, <3>1 DEF Sees
      <4> QED
        BY <2>2, <4>1, ShownIs DEF Files
    <3> QED
      BY <2>6, <3>1 DEF Snapshot
  <2>12. Floor(r)'
    BY <2>6, <2>9 DEF Floor, Inv
  <2>13. Past(latest, cal, file)'
    BY <2>1, <2>9 DEF Inv
  <2>14. Answer'
    BY <2>1 DEF Answer
  <2> QED
    BY <1>1, <2>7, <2>8, <2>10, <2>11, <2>12, <2>13, <2>14 DEF Kept, Fine
<1> QED
  BY <1>3, <1>4

\* wait_factor begins.
LEMMA FactorAsked ==
  ASSUME Inv, NEW r \in Reader, NEW ms \in Wait, WaitFactor(r, ms)
  PROVE  Kept(r)
<1>1. doing[r] = "idle" /\ UNCHANGED <<testEnv, cal, harness>>
      /\ UNCHANGED <<there, got, reading, floor, crossed, shown, latest>>
      /\ asked' = [asked EXCEPT ![r] = [ms |-> ms, cal |-> cal, factor |-> One]]
  BY DEF WaitFactor
<1>2. cal \in Nat /\ ms \in Nat
  BY CalIs, BoundsAssumption DEF Inv
<1>3. Readers /\ Fine(r) /\ Files
  BY DEF Inv
<1>4. One \in Fraction
  BY DEF One, Fraction
<1>5. ScaleWait(ms, One) \in Nat
  BY <1>2, <1>4, ScaleWaitIs
<1>6. /\ doing' \in [Reader -> {"idle", "reading", "scaling", "asleep"}]
      /\ next' \in [Reader -> 1 .. 3]
      /\ wake' \in [Reader -> Nat]
      /\ doing'[r] # "idle" /\ doing'[r] # "reading"
      /\ doing'[r] = "scaling" => next'[r] = 2 /\ testEnv
      /\ doing'[r] = "asleep" => ~ testEnv /\ wake'[r] = cal + ScaleWait(ms, One)
      /\ \A q \in Reader \ {r} :
           doing'[q] = doing[q] /\ next'[q] = next[q] /\ wake'[q] = wake[q]
  <2>1. CASE testEnv
    <3>1. /\ doing' = [doing EXCEPT ![r] = "scaling"]
          /\ next' = [next EXCEPT ![r] = CHOOSE k \in 1 .. 3 : Order[k] = "factor"]
          /\ wake' = wake
      BY <2>1 DEF WaitFactor
    <3>2. (CHOOSE k \in 1 .. 3 : Order[k] = "factor") = 2
      <4>1. \A k \in 1 .. 3 : Order[k] = "factor" <=> k = 2
        BY OrderIs
      <4> QED
        BY <4>1
    <3>3. next' = [next EXCEPT ![r] = 2]
      BY <3>1, <3>2
    <3> QED
      BY <1>3, <2>1, <3>1, <3>3 DEF Readers
  <2>2. CASE ~ testEnv
    <3>1. /\ doing' = [doing EXCEPT ![r] = "asleep"]
          /\ wake' = [wake EXCEPT ![r] = cal + ScaleWait(ms, One)]
          /\ next' = next
      BY <2>2 DEF WaitFactor
    <3>2. cal + ScaleWait(ms, One) \in Nat
      BY <1>2, <1>5
    <3> QED
      BY <1>3, <2>2, <3>1, <3>2 DEF Readers
  <2> QED
    BY <2>1, <2>2
<1>7. [ms |-> ms, cal |-> cal, factor |-> One] \in [ms : Nat, cal : Nat, factor : Fraction]
  BY <1>2, <1>4
<1>8. /\ asked' \in [Reader -> [ms : Nat, cal : Nat, factor : Fraction]]
      /\ asked'[r] = [ms |-> ms, cal |-> cal, factor |-> One]
      /\ \A q \in Reader \ {r} : asked'[q] = asked[q]
  BY <1>1, <1>3, <1>7 DEF Readers
<1>9. asked'[r].ms = ms /\ asked'[r].cal = cal /\ asked'[r].factor = One
  BY <1>8
<1>10. Readers'
  BY <1>1, <1>3, <1>6, <1>8 DEF Readers
<1>11. \A q \in Reader \ {r} : Same(q)
  BY <1>1, <1>6, <1>8 DEF Same
<1>12. there[r] = FALSE /\ crossed[r] = {} /\ got[r].cal <= cal
  BY <1>1, <1>3 DEF Fine, Steady, Readers
<1>13. Steady(r)'
  BY <1>1, <1>6, <1>9, <1>12 DEF Steady
<1>14. Crossings(r)' /\ Undisturbed(r)' /\ Snapshot(r)' /\ Floor(r)'
  BY <1>1, <1>6, <1>12 DEF Crossings, Undisturbed, Snapshot, Floor
<1>15. Past(latest, cal, file)'
  BY <1>1 DEF Inv, harness
<1>16. Answer'
  BY <1>1 DEF Inv, Answer
<1> QED
  BY <1>1, <1>10, <1>11, <1>13, <1>14, <1>15, <1>16 DEF Kept, Fine

\* The difference is read last: the result is in Snapshot's range.
LEMMA Seen ==
  ASSUME Inv, NEW r \in Reader, doing[r] = "reading", next[r] = 3, NEW v, Is(file,
         "diff", v)
  PROVE  LET w == Simtime(got[r].cal, got[r].val.start, got[r].val.factor, v)
         IN  /\ w \in Int
             /\ crossed[r] = {} => w \in Shown(got[r].cal, file)
             /\ Slow(r) => w \in shown[r]
<1> DEFINE g == got[r]  a == g.val.start  f == g.val.factor
<1>1. g.cal \in Nat /\ g.cal <= g.cal /\ a \in Int /\ f \in Fraction
  BY DEF Inv, Readers
<1>2. Valid(file) /\ Fine(r) /\ "diff" \in Names
  BY DEF Inv, Files, Names
<1>3. v \in Int
  BY <1>2, ParseIs
<1>4. Simtime(g.cal, a, f, v) \in Int
  BY <1>1, <1>3, SimtimeGrows
<1>5. crossed[r] = {} => Is(file, "start", a) /\ Is(file, "factor", f)
  BY <1>2 DEF Fine, Undisturbed, Shifted
<1>6. crossed[r] = {} => Simtime(g.cal, a, f, v) \in Shown(g.cal, file)
  BY <1>2, <1>5, ShownIs
<1>7. Sees(file, next[r], g.val, a, f, v)
  BY DEF Sees
<1>8. Slow(r) => Simtime(g.cal, a, f, v) \in shown[r]
  BY <1>2, <1>7 DEF Fine, Snapshot
<1> QED
  BY <1>4, <1>6, <1>8

\* A value is read: all three ways to go on.
LEMMA Advanced ==
  ASSUME Inv, NEW r \in Reader, NEW v, Is(file, Order[next[r]], v), Advance(r, v),
         UNCHANGED <<testEnv, cal, harness>>, doing[r] \in {"reading", "scaling"}
  PROVE  Kept(r)
<1> DEFINE name == Order[next[r]]
<1>1. Readers /\ Fine(r) /\ Files /\ Valid(file) /\ cal \in Nat
  BY CalIs DEF Inv, Files
<1>2. name \in Names
  BY <1>1, OrderIs DEF Readers
<1>3. IF name = "factor" THEN v \in Fraction ELSE v \in Int
  BY <1>1, <1>2, ParseIs
<1>4. doing[r] = "scaling" => next[r] = 2
  BY <1>1 DEF Fine, Steady
<1>5. file' = file /\ cal' = cal /\ testEnv' = testEnv /\ script' = script /\ kind' = kind
      /\ todo' = todo
  BY DEF harness
<1>6. got[r].cal \in Nat /\ got[r].cal <= cal
  BY <1>1 DEF Readers, Fine, Steady
<1>7. CASE /\ doing[r] = "scaling"
           /\ doing' = [doing EXCEPT ![r] = "asleep"]
           /\ wake' = [wake EXCEPT ![r] = cal + ScaleWait(asked[r].ms, v)]
           /\ asked' = [asked EXCEPT ![r] = [ms |-> asked[r].ms, cal |-> cal, factor |-> v]]
           /\ there' = [there EXCEPT ![r] = FALSE]
           /\ UNCHANGED <<next, got, reading, floor, crossed, shown, latest>>
  <2> DEFINE e == [ms |-> asked[r].ms, cal |-> cal, factor |-> v]
  <2>1. name = "factor" /\ v \in Fraction
    BY <1>3, <1>4, <1>7, OrderIs
  <2>2. asked[r].ms \in Nat
    BY <1>1 DEF Readers
  <2>3. cal + ScaleWait(asked[r].ms, v) \in Nat
    BY <1>1, <2>1, <2>2, ScaleWaitIs
  <2>4. /\ e \in [ms : Nat, cal : Nat, factor : Fraction]
        /\ e.ms = asked[r].ms /\ e.cal = cal
        /\ e.factor = v
    BY <1>1, <2>1, <2>2
  <2> HIDE DEF e
  <2>5. /\ doing'[r] = "asleep" /\ wake'[r] = cal + ScaleWait(asked[r].ms, v)
        /\ asked'[r] = e /\ there'[r] = FALSE
        /\ \A q \in Reader \ {r} : Same(q)
    BY <1>1, <1>7 DEF Readers, Same, e
  <2>6. Readers'
    <3>1. /\ asked' \in [Reader -> [ms : Nat, cal : Nat, factor : Fraction]]
          /\ wake' \in [Reader -> Nat]
      BY <1>1, <1>7, <2>3, <2>4 DEF Readers, e
    <3>2. /\ doing' \in [Reader -> {"idle", "reading", "scaling", "asleep"}]
          /\ there' \in [Reader -> BOOLEAN]
      BY <1>1, <1>7 DEF Readers
    <3> QED
      BY <1>1, <1>7, <3>1, <3>2 DEF Readers
  <2>7. Steady(r)'
    BY <1>5, <1>6, <1>7, <2>4, <2>5 DEF Steady
  <2>8. Crossings(r)'
    BY <1>1, <1>5, <1>7, <2>5 DEF Fine, Crossings
  <2>9. Undisturbed(r)'
    BY <1>5, <2>1, <2>4, <2>5 DEF Undisturbed
  <2>10. Snapshot(r)' /\ Floor(r)'
    BY <2>5 DEF Snapshot, Floor
  <2>11. Past(latest, cal, file)' /\ Answer'
    BY <1>5, <1>7 DEF Inv, Answer
  <2> QED
    BY <2>5, <2>6, <2>7, <2>8, <2>9, <2>10, <2>11 DEF Kept, Fine
<1>8. CASE /\ doing[r] # "scaling" /\ next[r] \in {1, 2}
           /\ next' = [next EXCEPT ![r] = next[r] + 1]
           /\ there' = [there EXCEPT ![r] = FALSE]
           /\ got' = [got EXCEPT ![r] = Known(got[r], next[r], v)]
           /\ UNCHANGED <<doing, wake, reading, asked, floor, crossed, shown, latest>>
  <2> DEFINE k == next[r]  g == got[r]  h == Known(g, k, v)
  <2>1. doing[r] = "reading"
    BY <1>8
  <2>2. g \in [cal : Nat, val : [start : Int, factor : Fraction, diff : Int]]
    BY <1>1 DEF Readers
  <2>3. \/ k = 1 /\ v \in Int /\ Is(file, "start", v)
        \/ k = 2 /\ v \in Fraction /\ Is(file, "factor", v)
    <3>1. CASE k = 1
      BY <1>3, <3>1, OrderIs
    <3>2. CASE k = 2
      BY <1>3, <3>2, OrderIs
    <3> QED
      BY <1>8, <3>1, <3>2
  <2>4. /\ h \in [cal : Nat, val : [start : Int, factor : Fraction, diff : Int]]
        /\ h.cal = g.cal
        /\ k = 1 => h.val.start = v
        /\ k = 2 => h.val.start = g.val.start /\ h.val.factor = v
    <3> HIDE DEF g, k
    <3>1. /\ g.cal \in Nat /\ g.val.start \in Int
          /\ g.val.factor \in Fraction /\ g.val.diff \in Int
      BY <2>2
    <3> QED
      BY <2>3, <3>1 DEF Known
  <2> HIDE DEF h
  <2>5. /\ doing'[r] = "reading" /\ next'[r] = k + 1 /\ there'[r] = FALSE /\ got'[r] = h
        /\ crossed' = crossed /\ shown' = shown /\ floor' = floor
        /\ \A q \in Reader \ {r} : Same(q)
    BY <1>1, <1>8, <2>1 DEF Readers, Same, h
  <2>6. Readers'
    <3>1. got' \in [Reader -> [cal : Nat, val : [start : Int, factor : Fraction, diff : Int]]]
      BY <1>1, <1>8, <2>4 DEF Readers, h
    <3>2. k + 1 \in 1 .. 3
      BY <1>8
    <3>3. /\ next' \in [Reader -> 1 .. 3]
          /\ there' \in [Reader -> BOOLEAN]
      BY <1>1, <1>8, <3>2 DEF Readers
    <3> QED
      BY <1>1, <1>8, <3>1, <3>3 DEF Readers
  <2>7. Steady(r)'
    BY <1>1, <1>5, <1>6, <2>1, <2>4, <2>5 DEF Steady, Fine
  <2>8. Crossings(r)'
    BY <1>1, <1>5, <2>5 DEF Fine, Crossings
  <2>9. /\ doing[r] = "reading" /\ Shifted(r) =>
             /\ k > 1 => Is(file, "start", g.val.start)
             /\ k > 2 => Is(file, "factor", g.val.factor)
    BY <1>1 DEF Fine, Undisturbed
  <2>10. Shifted(r) => /\ Is(file, "start", h.val.start)
                       /\ k + 1 > 2 => Is(file, "factor", h.val.factor)
    BY <2>1, <2>3, <2>4, <2>9
  <2>11. Undisturbed(r)'
    BY <1>5, <2>5, <2>10 DEF Undisturbed, Shifted
  <2>12. ASSUME NEW a, NEW f, NEW d, Sees(file, k + 1, h.val, a, f, d)
         PROVE  Sees(file, k, g.val, a, f, d)
    BY <2>3, <2>4, <2>12 DEF Sees
  <2>13. Snapshot(r)'
    <3>1. ASSUME Slow(r), NEW a, NEW f, NEW d, Sees(file, k + 1, h.val, a, f, d)
          PROVE  Simtime(h.cal, a, f, d) \in shown[r]
      BY <1>1, <2>1, <2>4, <2>12, <3>1 DEF Fine, Snapshot
    <3> QED
      BY <1>5, <2>5, <3>1 DEF Snapshot, Slow
  <2>14. Floor(r)'
    BY <1>1, <1>5, <2>1, <2>4, <2>5 DEF Fine, Floor
  <2>15. Past(latest, cal, file)' /\ Answer'
    BY <1>5, <1>8 DEF Inv, Answer
  <2> QED
    BY <2>5, <2>6, <2>7, <2>8, <2>11, <2>13, <2>14, <2>15 DEF Kept, Fine
<1>9. CASE /\ doing[r] # "scaling" /\ next[r] = 3
           /\ Finish(r, Result(Simtime(got[r].cal, got[r].val.start, got[r].val.factor, v)))
  <2> DEFINE w == Simtime(got[r].cal, got[r].val.start, got[r].val.factor, v)
  <2>1. doing[r] = "reading" /\ Is(file, "diff", v)
    BY <1>9, OrderIs
  <2>2. w \in Int /\ (crossed[r] = {} => w \in Shown(got[r].cal, file))
    BY <1>9, <2>1, Seen
  <2> HIDE DEF w
  <2>3. Finish(r, Result(w)) /\ Result(w).v = w /\ (\E x \in Int : Result(w) = Result(x))
    BY <1>9, <2>2, ResultIs DEF w
  <2> DEFINE result == Result(w)
  <2>4. /\ Finish(r, result) /\ result.v = w
        /\ \E x \in Int : result = Result(x)
    BY <2>3
  <2> HIDE DEF result
  <2> QED
    BY <2>2, <2>4, FinishedIsFine
<1> HIDE DEF name
<1> QED
  BY <1>1, <1>4, <1>7, <1>8, <1>9, Advances

\* Looking and reading.
LEMMA FileRead ==
  ASSUME Inv, NEW r \in Reader, Look(r) \/ Read(r)
  PROVE  Kept(r)
<1> DEFINE name == Order[next[r]]
<1>1. /\ UNCHANGED <<testEnv, cal, harness>> /\ doing[r] \in {"reading", "scaling"}
      /\ \/ /\ ~ there[r] /\ file[name] = Absent /\ Advance(r, Preset(name))
         \/ /\ ~ there[r] /\ file[name] # Absent
            /\ there' = [there EXCEPT ![r] = TRUE]
            /\ UNCHANGED <<doing, next, got, wake, reading, asked, floor, crossed,
                           shown, latest>>
         \/ /\ there[r] /\ file[name] = Absent /\ Finish(r, Failed)
         \/ /\ there[r] /\ file[name] # Absent /\ Parse(name, file[name]).ok
            /\ Advance(r, Parse(name, file[name]).v)
         \/ /\ there[r] /\ file[name] # Absent /\ ~ Parse(name, file[name]).ok
            /\ Finish(r, Failed)
  BY LooksOrReads
<1>2. name \in Names /\ Valid(file) /\ Readers /\ Fine(r)
  BY OrderIs DEF Inv, Readers, Files
<1>3. CASE file[name] = Absent /\ Advance(r, Preset(name))
  <2>1. Is(file, name, Preset(name))
    BY <1>2, <1>3, ParseIs
  <2> QED
    BY <1>1, <1>3, <2>1, Advanced
<1>4. CASE Finish(r, Failed)
  <2>1. ~ Failed.ok
    BY ResultIs
  <2> QED
    BY <1>1, <1>4, <2>1, FinishedIsFine
<1>5. CASE Parse(name, file[name]).ok /\ Advance(r, Parse(name, file[name]).v)
  <2>1. PICK v : Is(file, name, v)
    BY <1>2, <1>5, ParseIs, ResultIs
  <2>2. Parse(name, file[name]).v = v
    BY <2>1, ResultIs DEF Is
  <2>3. Advance(r, v)
    BY <1>5, <2>2
  <2> QED
    BY <1>1, <2>1, <2>3, Advanced
<1>6. CASE /\ file[name] # Absent
           /\ there' = [there EXCEPT ![r] = TRUE]
           /\ UNCHANGED <<doing, next, got, wake, reading, asked, floor, crossed, shown,
                          latest>>
  <2>1. /\ file' = file /\ cal' = cal /\ testEnv' = testEnv
        /\ script' = script /\ kind' = kind
        /\ todo' = todo
    BY <1>1 DEF harness
  <2>2. Readers' /\ there'[r] /\ \A q \in Reader \ {r} : Same(q)
    BY <1>2, <1>6 DEF Readers, Same
  <2>3. Steady(r)'
    BY <1>1, <1>2, <1>6, <2>1 DEF Fine, Steady
  <2>4. Crossings(r)'
    BY <1>2, <1>6, <2>1 DEF Fine, Crossings
  <2>5. Undisturbed(r)'
    BY <1>2, <1>6, <2>1 DEF Fine, Undisturbed, Shifted
  <2>6. Snapshot(r)' /\ Floor(r)'
    BY <1>2, <1>6, <2>1 DEF Fine, Snapshot, Slow, Floor
  <2>7. Past(latest, cal, file)' /\ Answer'
    BY <1>6, <2>1 DEF Inv, Answer
  <2> QED
    BY <1>1, <2>2, <2>3, <2>4, <2>5, <2>6, <2>7 DEF Kept, Fine
<1> HIDE DEF name
<1> QED
  BY <1>1, <1>3, <1>4, <1>5, <1>6

\* A sleep ends.
LEMMA Woken ==
  ASSUME Inv, NEW r \in Reader, Wake(r)
  PROVE  Kept(r)
<1>1. doing[r] = "asleep" /\ Finish(r, reading) /\ UNCHANGED <<testEnv, cal, harness>>
  BY DEF Wake
<1>2. reading = Failed \/ \E v \in Int : reading = Result(v)
  BY DEF Inv, Answer
<1> QED
  BY <1>1, <1>2, FinishedIsFine

-----------------------------------------------------------------------------
(* What follows.                                                           *)

\* A step of reader r.
Reads(r) ==
  \/ NowMillis(r) \/ Look(r) \/ Read(r) \/ Wake(r)
  \/ \E ms \in Wait : WaitFactor(r, ms)

\* Each of them.
LEMMA Keeps ==
  ASSUME Inv, NEW r \in Reader, Reads(r)
  PROVE  Kept(r)
<1>1. CASE NowMillis(r)
  BY <1>1, ClockRead
<1>2. CASE Look(r) \/ Read(r)
  BY <1>2, FileRead
<1>3. CASE Wake(r)
  BY <1>3, Woken
<1>4. CASE \E ms \in Wait : WaitFactor(r, ms)
  BY <1>4, FactorAsked
<1> QED
  BY <1>1, <1>2, <1>3, <1>4 DEF Reads

\* Every step keeps the invariant.
LEMMA Onward ==
  ASSUME Inv, [Next]_vars
  PROVE  Inv'
<1> USE DEF Inv
<1>1. cal \in Nat
  BY CalIs
<1>2. CASE Tick
  <2>1. /\ cal < MaxCal /\ cal' = cal + 1
        /\ UNCHANGED <<testEnv, harness, reader, crossed, shown, latest>>
    BY <1>2 DEF Tick
  <2>2. cal' \in Nat /\ cal <= cal' /\ cal' \in Start .. MaxCal
    BY <1>1, <2>1, BoundsAssumption DEF Files
  <2>3. Files'
    BY <2>1, <2>2 DEF Files, harness
  <2>4. Readers' /\ Answer'
    BY <2>1 DEF Readers, Answer, reader
  <2>5. \A q \in Reader : Same(q)
    BY <2>1 DEF Same, reader
  <2>6. \A q \in Reader : Fine(q)'
    BY <2>1, <2>2, <2>5, Untouched DEF harness
  <2>7. Past(latest, cal, file)'
    <3>1. latest' = latest /\ file' = file
      BY <2>1 DEF harness
    <3>2. \A c0 \in 0 .. cal : c0 \in 0 .. cal'
      BY <1>1, <2>2
    <3> QED
      BY <3>1, <3>2 DEF Past
  <2> QED
    BY <2>3, <2>4, <2>6, <2>7
<1>3. CASE Travel \/ TravelBack \/ Accelerate \/ Rest
  <2>1. /\ script' = script + 1
        /\ UNCHANGED <<testEnv, cal, file, reader, crossed, shown, latest>> /\ Files'
    BY <1>3, Begun
  <2>2. Readers' /\ Answer'
    BY <2>1 DEF Readers, Answer, reader
  <2>3. \A q \in Reader : Same(q)
    BY <2>1 DEF Same, reader
  <2>4. cal' \in Nat /\ cal <= cal'
    BY <1>1, <2>1
  <2>5. \A q \in Reader : Fine(q)'
    BY <2>1, <2>3, <2>4, Untouched
  <2>6. Past(latest, cal, file)'
    BY <2>1
  <2> QED
    BY <2>1, <2>2, <2>5, <2>6
<1>4. CASE HarnessStep
  <2>1. Files'
    BY <1>4, Wrote
  <2>2. UNCHANGED <<testEnv, cal, script, kind, reader>> /\ latest' = {} /\ Readers'
    BY <1>4, Noticed
  <2>3. Answer'
    BY <2>2 DEF Answer, reader
  <2>4. \A q \in Reader : Fine(q)'
    BY <1>4, Rewritten
  <2>5. Past(latest, cal, file)'
    BY <2>2 DEF Past
  <2> QED
    BY <2>1, <2>2, <2>3, <2>4, <2>5
<1>5. ASSUME NEW r \in Reader, Reads(r)
      PROVE  Inv'
  <2>1. Kept(r)
    BY <1>5, Keeps
  <2>2. UNCHANGED <<testEnv, cal, file, todo, script, kind>>
    BY <2>1 DEF Kept, harness
  <2>3. Files'
    BY <2>2 DEF Files
  <2>4. cal' \in Nat /\ cal <= cal'
    BY <1>1, <2>2
  <2>5. \A q \in Reader \ {r} : Fine(q)'
    BY <2>1, <2>2, <2>4, Untouched DEF Kept
  <2> QED
    BY <2>1, <2>3, <2>5 DEF Kept
<1>6. CASE UNCHANGED vars
  <2>1. UNCHANGED <<testEnv, cal, harness, reader, crossed, shown, latest>>
    BY <1>6 DEF vars
  <2>2. Files'
    BY <2>1 DEF Files, harness
  <2>3. Readers' /\ Answer'
    BY <2>1 DEF Readers, Answer, reader
  <2>4. \A q \in Reader : Same(q)
    BY <2>1 DEF Same, reader
  <2>5. cal' \in Nat /\ cal <= cal'
    BY <1>1, <2>1
  <2>6. \A q \in Reader : Fine(q)'
    BY <2>1, <2>4, <2>5, Untouched DEF harness
  <2>7. Past(latest, cal, file)'
    BY <2>1 DEF harness
  <2> QED
    BY <2>2, <2>3, <2>6, <2>7
<1> QED
  BY <1>2, <1>3, <1>4, <1>5, <1>6 DEF Next, Reads

\* The inductive invariant holds throughout.
THEOREM Invariance == Spec => []Inv
<1>1. Inv /\ [Next]_vars => Inv'
  BY Onward
<1> QED
  BY <1>1, Initially, PTL DEF Spec

\* The types hold throughout, for all readers, rates, shifts and waits.
THEOREM TypeCorrect == Spec => []TypeOK
<1>1. Inv => TypeOK
  <2> SUFFICES ASSUME Inv PROVE TypeOK
    OBVIOUS
  <2>1. Files /\ Readers /\ Answer /\ cal \in Nat
    BY CalIs DEF Inv
  <2>2. /\ file["start"] \in Contents(Start .. MaxCal)
        /\ file["factor"] \in Rate \cup {Absent, Empty}
        /\ file["diff"] \in Contents(Shift)
    BY <2>1 DEF Files, Valid, Contents, Clock, Factors, Shifts
  <2>3. ASSUME NEW r \in Reader
        PROVE  got[r].cal \in Nat /\ got[r].val.factor.num > 0
    <3> DEFINE f == got[r].val.factor
    <3>1. got[r].cal \in Nat /\ f \in Fraction
      BY <2>1 DEF Readers
    <3>2. f.num > 0
      <4> HIDE DEF f
      <4> QED
        BY <3>1 DEF Fraction
    <3> QED
      BY <3>1, <3>2
  <2>4. reading = Failed \/ reading.v \in Int
    BY <2>1, ResultIs DEF Answer
  <2> QED
    BY <2>1, <2>2, <2>3, <2>4 DEF TypeOK, Files, Readers
<1> QED
  BY <1>1, Invariance, PTL

\* A wait that real_wait_duration scaled ends when the engine's clock has
\* advanced by what was asked, whatever the rate, the shift and the anchor.
THEOREM WaitsScale == Spec => []WaitsAreEngineTime
<1>1. Inv => WaitsAreEngineTime
  <2> SUFFICES ASSUME Inv, NEW r \in Reader, doing[r] = "asleep", crossed[r] = {}
               PROVE  LET s == asked[r]
                          factor == s.factor.num \div s.factor.den + 1
                      IN  /\ wake[r] > s.cal
                          /\ testEnv =>
                               \A now \in Shown(s.cal, file), then \in Shown(wake[r], file) :
                                 then - now \in s.ms - factor - 1 .. LargerOf(s.ms, factor) + 1
    BY DEF WaitsAreEngineTime
  <2> DEFINE s == asked[r]  factor == s.factor.num \div s.factor.den + 1
  <2>1. s.ms \in Nat /\ s.cal \in Nat /\ s.factor \in Fraction
    BY DEF Inv, Readers
  <2>2. wake[r] = s.cal + ScaleWait(s.ms, s.factor)
    BY DEF Inv, Fine, Steady
  <2>3. ScaleWait(s.ms, s.factor) \in Nat \ {0}
    BY <2>1, ScaleWaitIs
  <2>4. wake[r] > s.cal
    BY <2>1, <2>2, <2>3
  <2>5. testEnv => Is(file, "factor", s.factor)
    BY DEF Inv, Fine, Undisturbed
  <2>6. ASSUME testEnv, NEW now \in Shown(s.cal, file), NEW then \in Shown(wake[r], file)
        PROVE  then - now \in s.ms - factor - 1 .. LargerOf(s.ms, factor) + 1
    <3>1. Valid(file)
      BY DEF Inv, Files
    <3>2. PICK a, f, d : /\ Is(file, "start", a) /\ Is(file, "factor", f) /\ Is(file, "diff", d)
                         /\ now = Simtime(s.cal, a, f, d)
      BY <2>6, <3>1, ShownIs
    <3>3. PICK a2, f2, d2 : /\ Is(file, "start", a2) /\ Is(file, "factor", f2)
                            /\ Is(file, "diff", d2)
                            /\ then = Simtime(wake[r], a2, f2, d2)
      BY <2>6, <3>1, ShownIs
    <3>4. a2 = a /\ f2 = f /\ d2 = d /\ f = s.factor
      BY <2>5, <2>6, <3>2, <3>3, ResultIs DEF Is
    <3>5. a \in Int /\ d \in Int
      BY <3>1, <3>2, ParseIs DEF Names
    <3> QED
      BY <2>1, <2>2, <3>2, <3>3, <3>4, <3>5, WaitAdvances
  <2> QED
    BY <2>4, <2>6
<1> QED
  BY <1>1, Invariance, PTL

\* A reading ends over a file that is gone, over one that is no number, or
\* with the difference.
LEMMA Ending ==
  ASSUME Inv, [Next]_vars, NEW r \in Reader, Ends(r)
  PROVE  /\ Look(r) \/ Read(r)
         /\ \/ /\ reading' = Failed
               /\ \/ there[r] /\ file[Order[next[r]]] = Absent
                  \/ ~ Parse(Order[next[r]], file[Order[next[r]]]).ok
            \/ \E v : /\ next[r] = 3 /\ Is(file, "diff", v)
                      /\ reading' = Result(Simtime(got[r].cal, got[r].val.start,
                                                   got[r].val.factor, v))
<1>1. doing[r] = "reading" /\ doing'[r] = "idle" /\ doing' # doing
  BY DEF Ends
<1>2. PICK q \in Reader : Reads(q)
  <2>1. \/ Tick \/ Travel \/ TravelBack \/ Accelerate \/ Rest \/ HarnessStep
        \/ \E q \in Reader : Reads(q)
        \/ UNCHANGED vars
    BY DEF Next, Reads
  <2>2. ~ (Tick \/ HarnessStep \/ UNCHANGED vars)
    BY <1>1 DEF Tick, HarnessStep, vars, reader
  <2>3. ~ (Travel \/ TravelBack \/ Accelerate \/ Rest)
    BY <1>1 DEF Travel, TravelBack, Accelerate, Rest, Begin, reader
  <2> QED
    BY <2>1, <2>2, <2>3
<1>3. q = r
  BY <1>1, <1>2, Keeps DEF Kept, Same
<1>4. Look(r) \/ Read(r)
  BY <1>1, <1>2, <1>3 DEF Reads, NowMillis, WaitFactor, Wake
<1> DEFINE name == Order[next[r]]
<1>5. /\ \/ /\ ~ there[r] /\ file[name] = Absent /\ Advance(r, Preset(name))
         \/ /\ ~ there[r] /\ file[name] # Absent
            /\ there' = [there EXCEPT ![r] = TRUE]
            /\ UNCHANGED <<doing, next, got, wake, reading, asked, floor, crossed,
                           shown, latest>>
         \/ /\ there[r] /\ file[name] = Absent /\ Finish(r, Failed)
         \/ /\ there[r] /\ file[name] # Absent /\ Parse(name, file[name]).ok
            /\ Advance(r, Parse(name, file[name]).v)
         \/ /\ there[r] /\ file[name] # Absent /\ ~ Parse(name, file[name]).ok
            /\ Finish(r, Failed)
  BY <1>4, LooksOrReads
<1>6. name \in Names /\ Valid(file) /\ Readers
  BY OrderIs DEF Inv, Readers, Files
<1>7. ASSUME NEW v, Is(file, name, v), Advance(r, v)
      PROVE  /\ next[r] = 3 /\ Is(file, "diff", v)
             /\ reading' = Result(Simtime(got[r].cal, got[r].val.start, got[r].val.factor, v))
  <2>1. doing[r] # "scaling"
    BY <1>1
  <2>2. /\ next[r] = 3
        /\ Finish(r, Result(Simtime(got[r].cal, got[r].val.start, got[r].val.factor, v)))
    BY <1>1, <1>6, <1>7, <2>1, Advances
  <2> DEFINE result == Result(Simtime(got[r].cal, got[r].val.start, got[r].val.factor, v))
  <2>3. Finish(r, result)
    BY <2>2
  <2> HIDE DEF result
  <2>4. reading' = result
    BY <2>3 DEF Finish
  <2> QED
    BY <1>7, <2>2, <2>4, OrderIs DEF result
<1>8. CASE file[name] = Absent /\ Advance(r, Preset(name))
  <2>1. Is(file, name, Preset(name))
    BY <1>6, <1>8, ParseIs
  <2> QED
    BY <1>4, <1>7, <1>8, <2>1
<1>9. CASE Parse(name, file[name]).ok /\ Advance(r, Parse(name, file[name]).v)
  <2>1. PICK v : Is(file, name, v)
    BY <1>6, <1>9, ParseIs, ResultIs
  <2>2. Advance(r, v)
    BY <1>9, <2>1, ResultIs DEF Is
  <2> QED
    BY <1>4, <1>7, <2>1, <2>2
<1>10. CASE /\ Finish(r, Failed)
            /\ \/ there[r] /\ file[name] = Absent
               \/ ~ Parse(name, file[name]).ok
  <2>1. reading' = Failed
    BY <1>10 DEF Finish
  <2> QED
    BY <1>4, <1>10, <2>1
<1> HIDE DEF name
<1> QED
  BY <1>1, <1>5, <1>8, <1>9, <1>10

\* now_millis reads three files one by one, yet what it returns is what the
\* clock showed at some moment of the reading, when one shift or one return to
\* the calendar's rate crosses it.  It rests on the order of both: the
\* difference is read last, and the factor goes before the anchor.
THEOREM ReadingsHold == Spec => ReadingsAreSnapshots
<1>1. ASSUME Inv, [Next]_vars, NEW r \in Reader, Ends(r), reading'.ok
      PROVE  \/ reading'.v \in shown[r]
             \/ \E w \in crossed[r] : w[2] = "accelerate"
             \/ \E w1, w2 \in crossed[r] : w1[1] # w2[1]
  <2>1. ~ Failed.ok
    BY ResultIs
  <2>2. PICK v : /\ next[r] = 3 /\ Is(file, "diff", v)
                 /\ reading' = Result(Simtime(got[r].cal, got[r].val.start, got[r].val.factor, v))
    BY <1>1, <2>1, Ending
  <2>3. doing[r] = "reading"
    BY <1>1 DEF Ends
  <2>4. Slow(r) => reading'.v \in shown[r]
    BY <1>1, <2>2, <2>3, Seen, ResultIs
  <2> QED
    BY <2>4 DEF Slow
<1>2. Inv /\ [Next]_vars =>
        [\A r \in Reader :
           Ends(r) /\ reading'.ok =>
             \/ reading'.v \in shown[r]
             \/ \E w \in crossed[r] : w[2] = "accelerate"
             \/ \E w1, w2 \in crossed[r] : w1[1] # w2[1]]_vars
  BY <1>1
<1> QED
  BY <1>2, Invariance, PTL DEF Spec, ReadingsAreSnapshots

\* While the files rest no reading is earlier than one that ended before it
\* began, whoever read.
THEOREM ClockNeverGoesBack == Spec => ClockKeepsRunning
<1>1. ASSUME Inv, [Next]_vars, NEW r \in Reader, Ends(r), reading'.ok, crossed[r] = {},
             NEW v \in floor[r]
      PROVE  v <= reading'.v
  <2>1. ~ Failed.ok
    BY ResultIs
  <2>2. PICK d : /\ next[r] = 3 /\ Is(file, "diff", d)
                 /\ reading' = Result(Simtime(got[r].cal, got[r].val.start, got[r].val.factor, d))
    BY <1>1, <2>1, Ending
  <2>3. doing[r] = "reading"
    BY <1>1 DEF Ends
  <2>4. reading'.v \in Shown(got[r].cal, file)
    BY <1>1, <2>2, <2>3, Seen, ResultIs
  <2>5. PICK c0 \in 0 .. got[r].cal : v \in Shown(c0, file)
    BY <1>1, <2>3 DEF Inv, Fine, Floor, Past
  <2>6. got[r].cal \in Nat /\ Valid(file)
    BY <1>1 DEF Inv, Readers, Files
  <2>7. c0 \in Nat /\ c0 <= got[r].cal
    BY <2>5, <2>6
  <2> DEFINE c == got[r].cal  w == reading'.v
  <2>8. c \in Nat /\ c0 <= c /\ w \in Shown(c, file)
    BY <2>4, <2>6, <2>7
  <2> HIDE DEF c, w
  <2>9. v <= w
    BY <2>5, <2>6, <2>7, <2>8, ShownGrows
  <2> QED
    BY <2>9 DEF w
<1>2. Inv /\ [Next]_vars =>
        [\A r \in Reader :
           Ends(r) /\ reading'.ok /\ crossed[r] = {} =>
             \A v \in floor[r] : v <= reading'.v]_vars
  BY <1>1
<1> QED
  BY <1>2, Invariance, PTL DEF Spec, ClockKeepsRunning

\* A rewrite of a file never makes a reading fail: only a removal does, or a
\* factor that is no number above zero.
THEOREM RewritesDoNotFail == Spec => RewritesNeverFail
<1>1. ASSUME Inv, [Next]_vars, NEW r \in Reader, Ends(r), ~ reading'.ok
      PROVE  \/ file["factor"].kind = "text"
             \/ file["factor"].kind = "number" /\ file["factor"].n.num <= 0
             \/ \E w \in crossed[r] : w[2] \in {"rest", "return"}
  <2> DEFINE name == Order[next[r]]
  <2>1. \/ there[r] /\ file[name] = Absent
        \/ ~ Parse(name, file[name]).ok
    BY <1>1, Ending, ResultIs
  <2>2. name \in Names /\ Valid(file)
    BY <1>1, OrderIs DEF Inv, Readers, Files
  <2>3. CASE there[r] /\ file[name] = Absent
    BY <1>1, <2>3 DEF Inv, Fine, Crossings
  <2> HIDE DEF name
  <2>4. CASE ~ Parse(name, file[name]).ok
    <3>1. ~ \E v : Is(file, name, v)
      BY <2>4, ResultIs DEF Is
    <3> QED
      BY <2>2, <3>1, ParseIs
  <2> QED
    BY <2>1, <2>3, <2>4
<1>2. Inv /\ [Next]_vars =>
        [\A r \in Reader :
           Ends(r) /\ ~ reading'.ok =>
             \/ file["factor"].kind = "text"
             \/ file["factor"].kind = "number" /\ file["factor"].n.num <= 0
             \/ \E w \in crossed[r] : w[2] \in {"rest", "return"}]_vars
  BY <1>1
<1> QED
  BY <1>2, Invariance, PTL DEF Spec, RewritesNeverFail
=============================================================================
