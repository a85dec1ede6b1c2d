------------------------------ MODULE Singleton ------------------------------
(***************************************************************************)
(* How service processes agree, through the file state/service_flag alone, *)
(* on which of them is the live one.  Cron launches a process every        *)
(* minute; each one either defers to a fresh flag or takes over, and the   *)
(* one that took over keeps refreshing the flag until it leaves or dies.   *)
(*                                                                         *)
(* Time is a count of units since the epoch.  Between two steps of one     *)
(* process at most Lag units pass: Tick waits for the process that is due. *)
(* What a live process does between two flag operations (connections, the  *)
(* engine) is module ServiceLoop.                                          *)
(***************************************************************************)
EXTENDS Integers

CONSTANTS
  Instance,     \* slots for service processes; a slot is reused after an exit
  CronPeriod,   \* time between two launches: one minute
  Update,       \* FLAG_UPDATE_INTERVAL_MS
  Stale,        \* FLAG_STALE_MS
  Lag,          \* the longest time between two steps of one process
  Races,        \* which races between a start and a refresh may happen
  MaxNow        \* bound of the model: the time at which the clock stops

ASSUME TimingAssumption ==
  /\ {CronPeriod, Update, Stale, Lag, MaxNow} \subseteq Nat \ {0}
  /\ CronPeriod > 4 * Lag
  /\ Stale >= Update + 5 * Lag

\* "torn": a start reads the flag between the truncation and the write of a
\* refresh.  "newer": a refresh reads its clock between a start's reading of
\* the clock and that start's reading of the flag.
ASSUME RacesAssumption == Races \subseteq {"torn", "newer"}

VARIABLES
  now,        \* engine time, as time::now_millis would return it
  flagState,  \* the flag file: "absent", "empty" (truncated) or "stamped"
  flagTime,   \* updated_ms of a stamped flag
  pc,         \* where each process is
  clock,      \* the process's last reading of the clock: started_ms, now_ms
  stamped,    \* flag_updated_ms
  lastStep,   \* when the process took its last step
  lastFire,   \* when cron last launched a process
  downSince   \* history: since when no process is live (or the last crash)

vars == <<now, flagState, flagTime, pc, clock, stamped, lastStep, lastFire,
          downSince>>

Phase == {"off",        \* no process in this slot
          "launched",   \* before run_loop reads its clock
          "check",      \* before it reads the flag
          "claim",      \* found no fresh flag; before it opens the file
          "write",      \* the file is truncated, its contents not written
          "loop",       \* live: before the clock reading of an iteration
          "refresh",    \* live: a refresh is due, the file not yet opened
          "rewrite",    \* live: the file is truncated for the refresh
          "body"}       \* live: the rest of the iteration

LivePhase == {"loop", "refresh", "rewrite", "body"}
Live(i) == pc[i] \in LivePhase

Init ==
  /\ now = 0
  /\ flagState = "absent"
  /\ flagTime = 0
  /\ pc = [i \in Instance |-> "off"]
  /\ clock = [i \in Instance |-> 0]
  /\ stamped = [i \in Instance |-> 0]
  /\ lastStep = [i \in Instance |-> 0]
  /\ lastFire = 0
  /\ downSince = 0

-----------------------------------------------------------------------------
\* Process i moves on to phase p.
Goto(i, p) ==
  /\ pc' = [pc EXCEPT ![i] = p]
  /\ lastStep' = [lastStep EXCEPT ![i] = now]

\* Process i is gone, and its memory with it.
End(i) ==
  /\ pc' = [pc EXCEPT ![i] = "off"]
  /\ lastStep' = [lastStep EXCEPT ![i] = 0]
  /\ clock' = [clock EXCEPT ![i] = 0]
  /\ stamped' = [stamped EXCEPT ![i] = 0]

\* Cron launches a process and never waits for it.
Fire(i) ==
  /\ pc[i] = "off"
  /\ now = lastFire + CronPeriod
  /\ lastFire' = now
  /\ Goto(i, "launched")
  /\ UNCHANGED <<now, flagState, flagTime, clock, stamped, downSince>>

\* run_loop's first reading of the clock, started_ms.
ReadClock(i) ==
  /\ pc[i] = "launched"
  /\ clock' = [clock EXCEPT ![i] = now]
  /\ Goto(i, "check")
  /\ UNCHANGED <<now, flagState, flagTime, stamped, lastFire, downSince>>

\* Defects to compare with: a flag not refreshed lately is taken for dead; a
\* flag is taken for live because it exists.
FreshIfJustRefreshed(i) ==
  /\ flagState = "stamped"
  /\ clock[i] - flagTime \in 0 .. Update - 1
FreshIfThere(i) == flagState # "absent"

\* A flag proves that another process is live when its age lies in
\* 0..Stale-1.  An absent or empty file proves nothing, and neither does a
\* stamp later than the reader's own clock reading.
Fresh(i) ==
  /\ flagState = "stamped"
  /\ clock[i] - flagTime \in 0 .. Stale - 1

\* The singleton check.  Unless Races allows it, the read does not fall
\* into another process's truncate-and-write.
ReadFlag(i) ==
  /\ pc[i] = "check"
  /\ "torn" \in Races \/ \A j \in Instance : pc[j] # "rewrite"

\* A defect to compare with: a process that defers removes the flag too.
DeferRemovingFlag(i) ==
  /\ ReadFlag(i)
  /\ Fresh(i)
  /\ flagState' = "absent"
  /\ End(i)
  /\ UNCHANGED <<now, flagTime, lastFire, downSince>>

\* A process that finds a fresh flag exits at once ...
Defer(i) ==
  /\ ReadFlag(i)
  /\ Fresh(i)
  /\ End(i)
  /\ UNCHANGED <<now, flagState, flagTime, lastFire, downSince>>

\* ... any other one goes on to claim the flag.
Claim(i) ==
  /\ ReadFlag(i)
  /\ ~ Fresh(i)
  /\ Goto(i, "claim")
  /\ UNCHANGED <<now, flagState, flagTime, clock, stamped, lastFire,
                 downSince>>

\* fs::write opens the file with O_CREAT and O_TRUNC first ...
Truncate(i) ==
  /\ \/ pc[i] = "claim" /\ Goto(i, "write")
     \/ pc[i] = "refresh" /\ Goto(i, "rewrite")
  /\ flagState' = "empty"
  /\ UNCHANGED <<now, flagTime, clock, stamped, lastFire, downSince>>

\* A defect to compare with: the stamp is backdated, as last_scan_ms is.
StampBackdated(i) ==
  /\ flagState' = "stamped"
  /\ flagTime' = clock[i] - Stale
  /\ stamped' = [stamped EXCEPT ![i] = clock[i] - Stale]

\* ... and writes the contents next: the stamp is the clock reading that
\* led here (started_ms at a start, now_ms at a refresh).
Stamp(i) ==
  /\ flagState' = "stamped"
  /\ flagTime' = clock[i]
  /\ stamped' = [stamped EXCEPT ![i] = clock[i]]

\* The process that found no fresh flag is now the live one.
TakeOver(i) ==
  /\ pc[i] = "write"
  /\ Stamp(i)
  /\ Goto(i, "loop")
  /\ downSince' = now
  /\ UNCHANGED <<now, clock, lastFire>>

Refresh(i) ==
  /\ pc[i] = "rewrite"
  /\ Stamp(i)
  /\ Goto(i, "body")
  /\ UNCHANGED <<now, clock, lastFire, downSince>>

RefreshDue(i) == now - stamped[i] >= Update

\* The top of an iteration: read the clock, refresh the flag when due.
\* (The clamp of a stamp in the future is vacuous here: this clock never
\* goes back.  ServiceLoop has the backward jumps.)
LoopTop(i) ==
  /\ pc[i] = "loop"
  /\ clock' = [clock EXCEPT ![i] = now]
  /\ \/ /\ RefreshDue(i)
        /\ "newer" \in Races \/ \A j \in Instance : pc[j] # "check"
        /\ Goto(i, "refresh")
     \/ /\ ~ RefreshDue(i)
        /\ Goto(i, "body")
  /\ UNCHANGED <<now, flagState, flagTime, stamped, lastFire, downSince>>

\* The iteration ends with a sleep ...
Sleep(i) ==
  /\ pc[i] = "body"
  /\ Goto(i, "loop")
  /\ UNCHANGED <<now, flagState, flagTime, clock, stamped, lastFire,
                 downSince>>

\* ... or with one of the two ways out, both of which remove the flag.
Leave(i) ==
  /\ pc[i] = "body"
  /\ flagState' = "absent"
  /\ End(i)
  /\ UNCHANGED <<now, flagTime, lastFire, downSince>>

\* A process can die anywhere; the flag stays as it is.
Crash(i) ==
  /\ pc[i] # "off"
  /\ End(i)
  /\ downSince' = now
  /\ UNCHANGED <<now, flagState, flagTime, lastFire>>

\* Time passes, unless a process or cron is due.
Tick ==
  /\ now < MaxNow
  /\ \A i \in Instance : pc[i] # "off" => now < lastStep[i] + Lag
  /\ now < lastFire + CronPeriod
  /\ now' = now + 1
  /\ downSince' = IF \E i \in Instance : Live(i) THEN now' ELSE downSince
  /\ UNCHANGED <<flagState, flagTime, pc, clock, stamped, lastStep, lastFire>>

\* The end of the modelled time.
Horizon == now = MaxNow /\ UNCHANGED vars

Step(i) ==
  \/ Fire(i) \/ ReadClock(i) \/ Defer(i) \/ Claim(i) \/ Truncate(i)
  \/ TakeOver(i) \/ LoopTop(i) \/ Refresh(i) \/ Sleep(i) \/ Leave(i) \/ Crash(i)

Next == Tick \/ Horizon \/ \E i \in Instance : Step(i)

Spec == Init /\ [][Next]_vars

-----------------------------------------------------------------------------
TypeOK ==
  /\ now \in Nat
  /\ flagState \in {"absent", "empty", "stamped"}
  /\ flagTime \in Nat
  /\ pc \in [Instance -> Phase]
  /\ clock \in [Instance -> Nat]
  /\ stamped \in [Instance -> Nat]
  /\ lastStep \in [Instance -> Nat]
  /\ lastFire \in Nat
  /\ downSince \in Nat

\* Only one process is ever actually live at a time, whatever cron starts
\* do (run_loop's singleton check and refresh; the administrator's guide
\* promises exactly this).
AtMostOneLive == \A i, j \in Instance : Live(i) /\ Live(j) => i = j

\* While a process is live the flag on disk carries that process's own last
\* stamp, except inside its own rewrite: no start that defers, no process
\* that leaves and no process that dies takes it away or changes it.
FlagIsTheLiveOnes ==
  \A i \in Instance :
    Live(i) /\ pc[i] # "rewrite" => flagState = "stamped"
                                    /\ flagTime = stamped[i]

\* A process that died uncleanly wedges nothing for good: some process is
\* live again within the staleness limit, one cron period and the four steps
\* of a start (counted from the last crash of any process).
OutageBounded == now - downSince <= Stale + CronPeriod + 4 * Lag
=============================================================================
