------------------------------- MODULE SimClock -------------------------------
(***************************************************************************)
(* Engine time on a test instance.  Every program computes "now" from the  *)
(* calendar and three state files, which it reads one after the other; the *)
(* test harness rewrites the files with shell redirections, also one after *)
(* the other.  Nothing locks them.                                         *)
(*                                                                         *)
(* Times are counts of milliseconds.  The contents of a file are Absent,   *)
(* Empty (truncated), Text (no number) or a Number; a factor is a fraction *)
(* [num, den].                                                             *)
(***************************************************************************)
EXTENDS Integers, Sequences, SequencesExt

CONSTANTS
  Reader,       \* programs that read the clock: a service, a client
  Shift,        \* values the harness gives SIM_TIME_DIFF
  Rate,         \* contents the harness gives time_factor
  Wait,         \* waits in engine time
  Start,        \* the calendar time at the beginning
  MaxCal,       \* bound of the model: the calendar time at its end
  MaxScripts    \* bound of the model: how often the harness acts

ASSUME BoundsAssumption ==
  /\ {Start, MaxCal, MaxScripts} \subseteq Nat
  /\ Start <= MaxCal
  /\ Wait \subseteq Nat
  /\ Shift \subseteq Int

VARIABLES
  testEnv,   \* TEST_ENV: whether the instance is a test instance
  cal,       \* the calendar time
  file,      \* the contents of each file
  todo,      \* what is left of the harness's present script
  script,    \* how many scripts there were so far
  kind,      \* what the present script is for
  doing,     \* "idle", "reading", "scaling" (reads wait_factor) or "asleep"
  next,      \* per reader: the file it reads next, as an index into Order
  there,     \* per reader: it has seen that this file exists
  got,       \* per reader: what it read so far
  wake,      \* per sleeper: the calendar time at which it wakes
  reading,   \* the last reading of the clock that ended, whose ever
  asked,     \* history: per sleeper, the wait and the time it began
  crossed,   \* history: the scripts that wrote during a reading or a wait
  shown,     \* history: what the clock showed for a reading while it ran
  latest,    \* history: the highest reading since the files last changed
  floor      \* history: per reader, latest when the reading began

reader == <<doing, next, there, got, wake, reading, asked, floor>>
harness == <<file, todo, script, kind>>
vars == <<testEnv, cal, harness, reader, crossed, shown, latest>>

-----------------------------------------------------------------------------
Absent == [kind |-> "absent"]
Empty == [kind |-> "empty"]
Text == [kind |-> "text"]
Number(n) == [kind |-> "number", n |-> n]

\* What the harness writes as a factor is no number, or a fraction.
ASSUME RateAssumption ==
  \A f \in Rate :
    f = Text \/ f \in [kind : {"number"}, n : [num : Int, den : Nat \ {0}]]

One == [num |-> 1, den |-> 1]
Failed == [ok |-> FALSE]
Result(v) == [ok |-> TRUE, v |-> v]

\* A defect to compare with: the factor is read before its anchor.
OrderFactorFirst == <<"factor", "start", "diff">>

\* The files in the order in which now_millis reads them.
Order == <<"start", "factor", "diff">>

\* What a missing or empty file stands for.
Preset(name) == IF name = "factor" THEN One ELSE 0

\* A defect to compare with: a factor may be any number.
ParseAnyFactor(name, contents) ==
  CASE contents.kind = "text" -> Failed
    [] contents.kind \in {"absent", "empty"} -> Result(Preset(name))
    [] OTHER -> Result(contents.n)

\* A defect to compare with: a file without contents is one without a number.
ParseEmptyIsText(name, contents) ==
  CASE contents.kind \in {"text", "empty"} -> Failed
    [] contents.kind = "absent" -> Result(Preset(name))
    [] contents.kind = "number" /\ name = "factor" /\ contents.n.num <= 0 ->
         Failed
    [] OTHER -> Result(contents.n)

\* What a reader makes of the contents it found.
Parse(name, contents) ==
  CASE contents.kind = "text" -> Failed
    [] contents.kind \in {"absent", "empty"} -> Result(Preset(name))
    [] contents.kind = "number" /\ name = "factor" /\ contents.n.num <= 0 ->
         Failed
    [] OTHER -> Result(contents.n)

\* A conversion to an integer drops the fraction, on either side of zero.
Truncated(n, d) == IF n >= 0 THEN n \div d ELSE 0 - ((0 - n) \div d)

Simtime(c, start, factor, diff) ==
  start + Truncated((c - start) * factor.num, factor.den) + diff

\* A defect to compare with: the wait is multiplied by the factor.
ScaleWaitUp(ms, factor) ==
  LET scaled == (ms * factor.num) \div factor.den
  IN  IF scaled < 1 THEN 1 ELSE scaled

\* A wait of engine time in real milliseconds, at least one.
ScaleWait(ms, factor) ==
  LET scaled == (ms * factor.den) \div factor.num
  IN  IF scaled < 1 THEN 1 ELSE scaled

-----------------------------------------------------------------------------
Presets == [start |-> 0, factor |-> One, diff |-> 0]

Init ==
  /\ testEnv \in BOOLEAN
  /\ cal = Start
  /\ file = [name \in {"start", "factor", "diff"} |-> Absent]
  /\ todo = <<>>
  /\ script = 0
  /\ kind = "none"
  /\ doing = [r \in Reader |-> "idle"]
  /\ next = [r \in Reader |-> 1]
  /\ there = [r \in Reader |-> FALSE]
  /\ got = [r \in Reader |-> [cal |-> 0, val |-> Presets]]
  /\ wake = [r \in Reader |-> 0]
  /\ reading = Failed
  /\ asked = [r \in Reader |-> [ms |-> 0, cal |-> 0, factor |-> One]]
  /\ crossed = [r \in Reader |-> {}]
  /\ shown = [r \in Reader |-> {}]
  /\ latest = {}
  /\ floor = [r \in Reader |-> {}]

-----------------------------------------------------------------------------
(* The harness: scripts of single file operations.                         *)

Op(name, contents) == [name |-> name, contents |-> contents]

\* "echo x > file" truncates before it writes.
Redirect(name, contents) == <<Op(name, Empty), Op(name, contents)>>
Now == [kind |-> "now"]      \* the output of "date", run after the truncation

Begin(what, ops) ==
  /\ todo = <<>>
  /\ script < MaxScripts
  /\ script' = script + 1
  /\ kind' = what
  /\ todo' = ops
  /\ UNCHANGED <<testEnv, cal, file, reader, crossed, shown, latest>>

\* Time travel, and back.
Travel == \E d \in Shift : Begin("travel", Redirect("diff", Number(d)))
TravelBack == Begin("return", <<Op("diff", Absent)>>)

\* Another rate, anchored at the present: the anchor first.
Accelerate ==
  \E f \in Rate :
    Begin("accelerate", Redirect("start", Now) \o Redirect("factor", f))

\* The calendar's rate again: the factor is removed first, then the anchor.
Rest == Begin("rest", <<Op("factor", Absent), Op("start", Absent)>>)

\* What the clock shows with the files fs at calendar time c, if anything.
Shown(c, fs) ==
  LET p == [name \in DOMAIN fs |-> Parse(name, fs[name])]
  IN  IF \A name \in DOMAIN fs : p[name].ok
      THEN {Simtime(c, p["start"].v, p["factor"].v, p["diff"].v)}
      ELSE {}

\* One operation of the script; whoever reads or waits may notice.
HarnessStep ==
  /\ todo # <<>>
  /\ LET op == Head(todo)
     IN  file' = [file EXCEPT ![op.name] =
                    IF op.contents = Now THEN Number(cal) ELSE op.contents]
  /\ todo' = Tail(todo)
  /\ LET busy == {r \in Reader : doing[r] # "idle"}
     IN  /\ crossed' = [r \in Reader |->
              IF r \in busy THEN crossed[r] \cup {<<script, kind>>}
              ELSE crossed[r]]
         /\ shown' = [r \in Reader |->
              IF r \in busy THEN shown[r] \cup Shown(got[r].cal, file')
              ELSE shown[r]]
  /\ latest' = {}
  /\ UNCHANGED <<testEnv, cal, script, kind, reader>>

-----------------------------------------------------------------------------
(* The readers.                                                            *)

\* Reader r is through, with this result.
Finish(r, result) ==
  /\ doing' = [doing EXCEPT ![r] = "idle"]
  /\ next' = [next EXCEPT ![r] = 1]
  /\ there' = [there EXCEPT ![r] = FALSE]
  /\ got' = [got EXCEPT ![r] = [cal |-> 0, val |-> Presets]]
  /\ wake' = [wake EXCEPT ![r] = 0]
  /\ reading' = result
  /\ asked' = [asked EXCEPT ![r] = [ms |-> 0, cal |-> 0, factor |-> One]]
  /\ floor' = [floor EXCEPT ![r] = {}]
  /\ crossed' = [crossed EXCEPT ![r] = {}]
  /\ shown' = [shown EXCEPT ![r] = {}]
  /\ latest' = IF /\ doing[r] = "reading"
                  /\ result.ok /\ crossed[r] = {}
                  /\ \A v \in latest : v <= result.v
               THEN {result.v} ELSE latest

\* now_millis reads the calendar first; production reads nothing else.
NowMillis(r) ==
  /\ doing[r] = "idle"
  /\ IF testEnv
     THEN /\ doing' = [doing EXCEPT ![r] = "reading"]
          /\ got' = [got EXCEPT ![r].cal = cal]
          /\ floor' = [floor EXCEPT ![r] = latest]
          /\ shown' = [shown EXCEPT ![r] = Shown(cal, file)]
          /\ reading' = Failed
          /\ UNCHANGED <<next, there, wake, asked, crossed, latest>>
     ELSE Finish(r, Result(cal))
  /\ UNCHANGED <<testEnv, cal, harness>>

\* wait_factor, for a wait of ms.
WaitFactor(r, ms) ==
  /\ doing[r] = "idle"
  /\ IF testEnv
     THEN /\ doing' = [doing EXCEPT ![r] = "scaling"]
          /\ next' = [next EXCEPT ![r] = CHOOSE k \in 1 .. 3 : Order[k] = "factor"]
          /\ UNCHANGED wake
     ELSE /\ doing' = [doing EXCEPT ![r] = "asleep"]
          /\ wake' = [wake EXCEPT ![r] = cal + ScaleWait(ms, One)]
          /\ UNCHANGED next
  /\ asked' = [asked EXCEPT ![r] = [ms |-> ms, cal |-> cal, factor |-> One]]
  /\ UNCHANGED <<testEnv, cal, harness, there, got, reading, floor, crossed,
                 shown, latest>>

\* The value v of the file read last: more files, a sleep, or the result.
Advance(r, v) ==
  LET val == [got[r].val EXCEPT ![Order[next[r]]] = v]
  IN  IF doing[r] = "scaling"
      THEN /\ doing' = [doing EXCEPT ![r] = "asleep"]
           /\ wake' = [wake EXCEPT ![r] = cal + ScaleWait(asked[r].ms, v)]
           /\ asked' = [asked EXCEPT ![r].cal = cal, ![r].factor = v]
           /\ there' = [there EXCEPT ![r] = FALSE]
           /\ UNCHANGED <<next, got, reading, floor, crossed, shown, latest>>
      ELSE IF next[r] < Len(Order)
      THEN /\ next' = [next EXCEPT ![r] = @ + 1]
           /\ there' = [there EXCEPT ![r] = FALSE]
           /\ got' = [got EXCEPT ![r].val = val]
           /\ UNCHANGED <<doing, wake, reading, asked, floor, crossed, shown,
                          latest>>
      ELSE Finish(r, Result(Simtime(got[r].cal, val.start, val.factor,
                                    val.diff)))

\* A file is looked for first ...
Look(r) ==
  /\ doing[r] \in {"reading", "scaling"}
  /\ ~ there[r]
  /\ LET name == Order[next[r]]
     IN  IF file[name] = Absent
         THEN Advance(r, Preset(name))
         ELSE /\ there' = [there EXCEPT ![r] = TRUE]
              /\ UNCHANGED <<doing, next, got, wake, reading, asked, floor,
                             crossed, shown, latest>>
  /\ UNCHANGED <<testEnv, cal, harness>>

\* ... and then read; if it is gone by then, the reading fails.
Read(r) ==
  /\ doing[r] \in {"reading", "scaling"}
  /\ there[r]
  /\ LET name == Order[next[r]]
         v == IF file[name] = Absent THEN Failed ELSE Parse(name, file[name])
     IN  IF v.ok THEN Advance(r, v.v) ELSE Finish(r, Failed)
  /\ UNCHANGED <<testEnv, cal, harness>>

\* The sleep is over.
Wake(r) ==
  /\ doing[r] = "asleep"
  /\ cal >= wake[r]
  /\ Finish(r, reading)
  /\ UNCHANGED <<testEnv, cal, harness>>

Tick ==
  /\ cal < MaxCal
  /\ cal' = cal + 1
  /\ UNCHANGED <<testEnv, harness, reader, crossed, shown, latest>>

Next ==
  \/ Tick
  \/ Travel \/ TravelBack \/ Accelerate \/ Rest \/ HarnessStep
  \/ \E r \in Reader :
       \/ NowMillis(r) \/ Look(r) \/ Read(r) \/ Wake(r)
       \/ \E ms \in Wait : WaitFactor(r, ms)

Spec == Init /\ [][Next]_vars

-----------------------------------------------------------------------------
Contents(values) == {Absent, Empty, Text} \cup {Number(n) : n \in values}

TypeOK ==
  /\ testEnv \in BOOLEAN
  /\ cal \in Nat
  /\ file["start"] \in Contents(Start .. MaxCal)
  /\ file["factor"] \in Rate \cup {Absent, Empty}
  /\ file["diff"] \in Contents(Shift)
  /\ doing \in [Reader -> {"idle", "reading", "scaling", "asleep"}]
  /\ next \in [Reader -> 1 .. 3]
  /\ there \in [Reader -> BOOLEAN]
  /\ wake \in [Reader -> Nat]
  /\ \A r \in Reader : /\ got[r].cal \in Nat
                       /\ got[r].val.factor.num > 0
  /\ reading = Failed \/ reading.v \in Int

\* A reading ends, in this step.
Ends(r) == doing[r] = "reading" /\ doing'[r] = "idle"

\* A reading during which one script wrote is what the clock showed at some
\* moment of it, although the three files were read one by one: for a shift,
\* and for the return to the calendar's rate.  (Not for a change of the rate:
\* see the README.)
ReadingsAreSnapshots ==
  [][\A r \in Reader :
       Ends(r) /\ reading'.ok =>
         \/ reading'.v \in shown[r]
         \/ \E w \in crossed[r] : w[2] = "accelerate"
         \/ \E w1, w2 \in crossed[r] : w1[1] # w2[1]]_vars

\* While the files rest the clock never goes back, for all programs
\* together: a reading that begins after another one ended is not earlier.
\* This is what the age of the service flag and the poll deadline rely on.
ClockKeepsRunning ==
  [][\A r \in Reader :
       Ends(r) /\ reading'.ok /\ crossed[r] = {} =>
         \A v \in floor[r] : v <= reading'.v]_vars

\* A reading fails only over contents that are no valid number, or because a
\* file is removed under it: a rewrite never makes one fail.
RewritesNeverFail ==
  [][\A r \in Reader :
       Ends(r) /\ ~ reading'.ok =>
         \/ file["factor"].kind = "text"
         \/ file["factor"].kind = "number" /\ file["factor"].n.num <= 0
         \/ \E w \in crossed[r] : w[2] \in {"rest", "return"}]_vars

LargerOf(a, b) == IF a > b THEN a ELSE b

\* A wait ends when the engine's clock has advanced by what was asked, give
\* or take what it advances in one real millisecond, and takes a real
\* millisecond at least; while the files rest.
WaitsAreEngineTime ==
  \A r \in Reader :
    doing[r] = "asleep" /\ crossed[r] = {} =>
      LET s == asked[r]
          factor == s.factor.num \div s.factor.den + 1
      IN  /\ wake[r] > s.cal
          /\ testEnv =>
               \A now \in Shown(s.cal, file), then \in Shown(wake[r], file) :
                 then - now \in s.ms - factor - 1 .. LargerOf(s.ms, factor) + 1
===============================================================================
