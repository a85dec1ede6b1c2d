------------------------------ MODULE GateProofs ------------------------------
(***************************************************************************)
(* Proofs about the service flag and about the gate on top of it: about    *)
(* Singleton, for every set of process slots and every choice of the times *)
(* that satisfies TimingAssumption, and about ConnectGate, for any number  *)
(* of processes and requests, any configurations and any answers of the    *)
(* identity endpoint.                                                      *)
(***************************************************************************)
EXTENDS ConnectGate, TLAPS

-----------------------------------------------------------------------------
(* Singleton: the parts of the inductive invariant.                        *)

\* No process is overdue, and neither is cron.
Due ==
  /\ lastFire <= now /\ now <= lastFire + CronPeriod
  /\ \A i \in Instance :
       /\ clock[i] <= now
       /\ pc[i] # "off" => /\ lastStep[i] <= now
                           /\ now <= lastStep[i] + Lag
                           /\ clock[i] <= lastStep[i]

StartPhase == {"launched", "check", "claim", "write"}

\* At most one process is starting, and how far it has come bounds the time
\* since its launch and since its clock reading.
Starting ==
  /\ \A i, j \in Instance : pc[i] \in StartPhase /\ pc[j] \in StartPhase
                              => i = j
  /\ \A i \in Instance :
       /\ pc[i] = "launched" => lastStep[i] = lastFire
       /\ pc[i] = "check" => /\ lastStep[i] <= lastFire + Lag
                             /\ lastStep[i] = clock[i]
                             /\ lastFire <= clock[i]
       /\ pc[i] = "claim" => /\ lastStep[i] <= lastFire + 2 * Lag
                             /\ lastStep[i] <= clock[i] + Lag
       /\ pc[i] = "write" => /\ lastStep[i] <= lastFire + 3 * Lag
                             /\ lastStep[i] <= clock[i] + 2 * Lag

\* How old the stamp of a live process can be, phase by phase.
Age ==
  \A i \in Instance :
    /\ Live(i) => stamped[i] <= clock[i]
    /\ pc[i] = "loop" => /\ clock[i] < stamped[i] + Update
                         /\ lastStep[i] <= clock[i] + 3 * Lag
    /\ pc[i] = "refresh" => /\ clock[i] < stamped[i] + Update + 4 * Lag
                            /\ lastStep[i] = clock[i]
    /\ pc[i] = "rewrite" => lastStep[i] <= clock[i] + Lag
    /\ pc[i] = "body" => /\ clock[i] < stamped[i] + Update
                         /\ lastStep[i] <= clock[i] + 2 * Lag

Owner(i) == pc[i] \in LivePhase \cup {"claim", "write"}

\* At most one process is live or about to be.
Exclusive == \A i, j \in Instance : Owner(i) /\ Owner(j) => i = j

\* A process that is about to read the flag read its clock no earlier than
\* the live process read the clock it stamped, or is about to stamp.
ReaderBehind ==
  \A i, j \in Instance :
    pc[i] = "check" /\ Live(j) =>
      /\ stamped[j] <= clock[i]
      /\ pc[j] \in {"refresh", "rewrite"} => clock[j] <= clock[i]

\* What the length of an outage follows from: a live process keeps downSince
\* at now; every stamp is at most downSince; and once the flag of a dead
\* process is stale for a new launch, that launch is under way.
Outage ==
  /\ flagTime <= downSince /\ downSince <= now
  /\ \A i \in Instance : Live(i) => downSince = now
  /\ downSince + Stale <= lastFire =>
       /\ lastFire < downSince + Stale + CronPeriod
       /\ \E i \in Instance : pc[i] \in StartPhase

-----------------------------------------------------------------------------
\* Every reachable state gives each variable a value of its type.
LEMMA TypeStep == TypeOK /\ [Next]_vars => TypeOK'
<1> SUFFICES ASSUME TypeOK, [Next]_vars PROVE TypeOK'
  OBVIOUS
<1> USE TimingAssumption DEF TypeOK, Phase
<1>1. ASSUME NEW i \in Instance, Step(i) PROVE TypeOK'
  <2>1. CASE Fire(i)
    BY <2>1 DEF Fire, Goto
  <2>2. CASE ReadClock(i)
    BY <2>2 DEF ReadClock, Goto
  <2>3. CASE Defer(i)
    BY <2>3 DEF Defer, ReadFlag, End
  <2>4. CASE Claim(i)
    BY <2>4 DEF Claim, ReadFlag, Goto
  <2>5. CASE Truncate(i)
    BY <2>5 DEF Truncate, Goto
  <2>6. CASE TakeOver(i)
    BY <2>6 DEF TakeOver, Goto, Stamp
  <2>7. CASE LoopTop(i)
    BY <2>7 DEF LoopTop, Goto
  <2>8. CASE Refresh(i)
    BY <2>8 DEF Refresh, Goto, Stamp
  <2>9. CASE Sleep(i)
    BY <2>9 DEF Sleep, Goto
  <2>10. CASE Leave(i)
    BY <2>10 DEF Leave, End
  <2>11. CASE Crash(i)
    BY <2>11 DEF Crash, End
  <2> QED
    BY <1>1, <2>1, <2>2, <2>3, <2>4, <2>5, <2>6, <2>7, <2>8, <2>9, <2>10,
       <2>11 DEF Step
<1>2. CASE Tick
  BY <1>2 DEF Tick
<1>3. CASE Horizon \/ UNCHANGED vars
  BY <1>3 DEF Horizon, vars
<1> QED
  BY <1>1, <1>2, <1>3 DEF Next

THEOREM TypeCorrect == Spec => []TypeOK
<1>1. Init => TypeOK
  BY DEF Init, TypeOK, Phase
<1> QED
  BY <1>1, TypeStep, PTL DEF Spec

\* No step makes a process or cron overdue: Tick waits for both.
LEMMA DueStep ==
  TypeOK /\ Due /\ [Next]_vars => Due'
<1> SUFFICES ASSUME TypeOK, Due, [Next]_vars
             PROVE  Due'
  OBVIOUS
<1> USE TimingAssumption DEF TypeOK, Phase, Due
<1>1. ASSUME NEW i \in Instance, Step(i) PROVE Due'
  <2>1. CASE Fire(i)
    BY <2>1 DEF Fire, Goto
  <2>2. CASE ReadClock(i)
    BY <2>2 DEF ReadClock, Goto
  <2>3. CASE Defer(i)
    BY <2>3 DEF Defer, ReadFlag, End
  <2>4. CASE Claim(i)
    BY <2>4 DEF Claim, ReadFlag, Goto
  <2>5. CASE Truncate(i)
    BY <2>5 DEF Truncate, Goto
  <2>6. CASE TakeOver(i)
    BY <2>6 DEF TakeOver, Goto, Stamp
  <2>7. CASE LoopTop(i)
    BY <2>7 DEF LoopTop, Goto, RefreshDue
  <2>8. CASE Refresh(i)
    BY <2>8 DEF Refresh, Goto, Stamp
  <2>9. CASE Sleep(i)
    BY <2>9 DEF Sleep, Goto
  <2>10. CASE Leave(i)
    BY <2>10 DEF Leave, End
  <2>11. CASE Crash(i)
    BY <2>11 DEF Crash, End
  <2> QED
    BY <1>1, <2>1, <2>2, <2>3, <2>4, <2>5, <2>6, <2>7, <2>8,
       <2>9, <2>10, <2>11 DEF Step
<1>2. CASE Tick
  BY <1>2 DEF Tick
<1>3. CASE Horizon \/ UNCHANGED vars
  BY <1>3 DEF Horizon, vars
<1> QED
  BY <1>1, <1>2, <1>3 DEF Next

\* Starts do not overlap: by the next launch the previous start is over.
LEMMA StartingStep ==
  TypeOK /\ Due /\ Starting /\ [Next]_vars => Starting'
<1> SUFFICES ASSUME TypeOK, Due, Starting, [Next]_vars
             PROVE  Starting'
  OBVIOUS
<1> USE TimingAssumption DEF TypeOK, Phase, Due, StartPhase, Starting
<1>1. ASSUME NEW i \in Instance, Step(i) PROVE Starting'
  <2>1. CASE Fire(i)
    BY <2>1 DEF Fire, Goto
  <2>2. CASE ReadClock(i)
    BY <2>2 DEF ReadClock, Goto
  <2>3. CASE Defer(i)
    BY <2>3 DEF Defer, ReadFlag, End
  <2>4. CASE Claim(i)
    BY <2>4 DEF Claim, ReadFlag, Goto
  <2>5. CASE Truncate(i)
    BY <2>5 DEF Truncate, Goto
  <2>6. CASE TakeOver(i)
    BY <2>6 DEF TakeOver, Goto, Stamp
  <2>7. CASE LoopTop(i)
    BY <2>7 DEF LoopTop, Goto, RefreshDue
  <2>8. CASE Refresh(i)
    BY <2>8 DEF Refresh, Goto, Stamp
  <2>9. CASE Sleep(i)
    BY <2>9 DEF Sleep, Goto
  <2>10. CASE Leave(i)
    BY <2>10 DEF Leave, End
  <2>11. CASE Crash(i)
    BY <2>11 DEF Crash, End
  <2> QED
    BY <1>1, <2>1, <2>2, <2>3, <2>4, <2>5, <2>6, <2>7, <2>8,
       <2>9, <2>10, <2>11 DEF Step
<1>2. CASE Tick
  BY <1>2 DEF Tick
<1>3. CASE Horizon \/ UNCHANGED vars
  BY <1>3 DEF Horizon, vars
<1> QED
  BY <1>1, <1>2, <1>3 DEF Next

\* A live process refreshes its stamp in time.
LEMMA AgeStep ==
  TypeOK /\ Due /\ Starting /\ Age /\ [Next]_vars => Age'
<1> SUFFICES ASSUME TypeOK, Due, Starting, Age, [Next]_vars
             PROVE  Age'
  OBVIOUS
<1> USE TimingAssumption DEF TypeOK, Phase, Due, Starting, Age, Live, LivePhase
<1>1. ASSUME NEW i \in Instance, Step(i) PROVE Age'
  <2>1. CASE Fire(i)
    BY <2>1 DEF Fire, Goto
  <2>2. CASE ReadClock(i)
    BY <2>2 DEF ReadClock, Goto
  <2>3. CASE Defer(i)
    BY <2>3 DEF Defer, ReadFlag, End
  <2>4. CASE Claim(i)
    BY <2>4 DEF Claim, ReadFlag, Goto
  <2>5. CASE Truncate(i)
    BY <2>5 DEF Truncate, Goto
  <2>6. CASE TakeOver(i)
    BY <2>6 DEF TakeOver, Goto, Stamp
  <2>7. CASE LoopTop(i)
    BY <2>7 DEF LoopTop, Goto, RefreshDue
  <2>8. CASE Refresh(i)
    BY <2>8 DEF Refresh, Goto, Stamp
  <2>9. CASE Sleep(i)
    BY <2>9 DEF Sleep, Goto
  <2>10. CASE Leave(i)
    BY <2>10 DEF Leave, End
  <2>11. CASE Crash(i)
    BY <2>11 DEF Crash, End
  <2> QED
    BY <1>1, <2>1, <2>2, <2>3, <2>4, <2>5, <2>6, <2>7, <2>8,
       <2>9, <2>10, <2>11 DEF Step
<1>2. CASE Tick
  BY <1>2 DEF Tick
<1>3. CASE Horizon \/ UNCHANGED vars
  BY <1>3 DEF Horizon, vars
<1> QED
  BY <1>1, <1>2, <1>3 DEF Next

\* An outage ends with the first launch that finds the flag stale.
LEMMA OutageStep ==
  TypeOK /\ Due /\ Starting /\ Age /\ Outage /\ [Next]_vars => Outage'
<1> SUFFICES ASSUME TypeOK, Due, Starting, Age, Outage, [Next]_vars
             PROVE  Outage'
  OBVIOUS
<1> USE TimingAssumption DEF TypeOK, Phase, Due, StartPhase, Starting, Age, Outage,
    Live, LivePhase
<1>1. ASSUME NEW i \in Instance, Step(i) PROVE Outage'
  <2>1. CASE Fire(i)
    BY <2>1 DEF Fire, Goto
  <2>2. CASE ReadClock(i)
    BY <2>2 DEF ReadClock, Goto
  <2>3. CASE Defer(i)
    BY <2>3 DEF Defer, ReadFlag, End, Fresh
  <2>4. CASE Claim(i)
    BY <2>4 DEF Claim, ReadFlag, Goto
  <2>5. CASE Truncate(i)
    BY <2>5 DEF Truncate, Goto
  <2>6. CASE TakeOver(i)
    BY <2>6 DEF TakeOver, Goto, Stamp
  <2>7. CASE LoopTop(i)
    BY <2>7 DEF LoopTop, Goto, RefreshDue
  <2>8. CASE Refresh(i)
    BY <2>8 DEF Refresh, Goto, Stamp
  <2>9. CASE Sleep(i)
    BY <2>9 DEF Sleep, Goto
  <2>10. CASE Leave(i)
    BY <2>10 DEF Leave, End
  <2>11. CASE Crash(i)
    BY <2>11 DEF Crash, End
  <2> QED
    BY <1>1, <2>1, <2>2, <2>3, <2>4, <2>5, <2>6, <2>7, <2>8,
       <2>9, <2>10, <2>11 DEF Step
<1>2. CASE Tick
  BY <1>2 DEF Tick
<1>3. CASE Horizon \/ UNCHANGED vars
  BY <1>3 DEF Horizon, vars
<1> QED
  BY <1>1, <1>2, <1>3 DEF Next

\* The heart of the matter: without races, a process that finds no fresh
\* flag is alone.  A live process would have kept a stamp that is fresh for
\* every start, and a second start cannot be under way.
LEMMA ClaimIsAlone ==
  ASSUME Races = {}, TypeOK, Due, Starting, Age, ReaderBehind,
         FlagIsTheLiveOnes,
         NEW i \in Instance, Claim(i), NEW j \in Instance, j # i
  PROVE  ~ Owner(j)
<1> USE TimingAssumption DEF TypeOK, Phase
<1>1. pc[i] = "check" /\ ~ Fresh(i) /\ pc[j] # "rewrite"
  BY DEF Claim, ReadFlag
<1>2. pc[j] \notin {"claim", "write"}
  BY <1>1 DEF Starting, StartPhase
<1>3. ASSUME Live(j) PROVE FALSE
  <2>1. flagState = "stamped" /\ flagTime = stamped[j]
    BY <1>1, <1>3 DEF FlagIsTheLiveOnes
  <2>2. now < stamped[j] + Update + 5 * Lag
    BY <1>1, <1>3 DEF Due, Age, Live, LivePhase
  <2>3. stamped[j] <= clock[i] /\ clock[i] <= now
    BY <1>1, <1>3 DEF ReaderBehind, Due
  <2>4. clock[i] - flagTime \in 0 .. Stale - 1
    BY <2>1, <2>2, <2>3
  <2> QED
    BY <1>1, <2>1, <2>4 DEF Fresh
<1> QED
  BY <1>2, <1>3 DEF Owner, Live

\* Without races no refresh overtakes a start that is about to read.
LEMMA ReaderBehindStep ==
  Races = {} /\ TypeOK /\ Due /\ Starting /\ Age /\ ReaderBehind /\ [Next]_vars => ReaderBehind'
<1> SUFFICES ASSUME Races = {}, TypeOK, Due, Starting, Age, ReaderBehind, [Next]_vars
             PROVE  ReaderBehind'
  OBVIOUS
<1> USE TimingAssumption DEF TypeOK, Phase, Due, Starting, StartPhase, Age, ReaderBehind,
    Live, LivePhase
<1>1. ASSUME NEW i \in Instance, Step(i) PROVE ReaderBehind'
  <2>1. CASE Fire(i)
    BY <2>1 DEF Fire, Goto
  <2>2. CASE ReadClock(i)
    BY <2>2 DEF ReadClock, Goto
  <2>3. CASE Defer(i)
    BY <2>3 DEF Defer, ReadFlag, End
  <2>4. CASE Claim(i)
    BY <2>4 DEF Claim, ReadFlag, Goto
  <2>5. CASE Truncate(i)
    BY <2>5 DEF Truncate, Goto
  <2>6. CASE TakeOver(i)
    BY <2>6 DEF TakeOver, Goto, Stamp
  <2>7. CASE LoopTop(i)
    BY <2>7 DEF LoopTop, Goto, RefreshDue
  <2>8. CASE Refresh(i)
    BY <2>8 DEF Refresh, Goto, Stamp
  <2>9. CASE Sleep(i)
    BY <2>9 DEF Sleep, Goto
  <2>10. CASE Leave(i)
    BY <2>10 DEF Leave, End
  <2>11. CASE Crash(i)
    BY <2>11 DEF Crash, End
  <2> QED
    BY <1>1, <2>1, <2>2, <2>3, <2>4, <2>5, <2>6, <2>7, <2>8,
       <2>9, <2>10, <2>11 DEF Step
<1>2. CASE Tick
  BY <1>2 DEF Tick
<1>3. CASE Horizon \/ UNCHANGED vars
  BY <1>3 DEF Horizon, vars
<1> QED
  BY <1>1, <1>2, <1>3 DEF Next

\* Only a process that is alone claims the flag.
LEMMA ExclusiveStep ==
  Races = {} /\ TypeOK /\ Due /\ Starting /\ Age /\ Exclusive /\ ReaderBehind /\ FlagIsTheLiveOnes /\ [Next]_vars => Exclusive'
<1> SUFFICES ASSUME Races = {}, TypeOK, Due, Starting, Age, Exclusive, ReaderBehind, FlagIsTheLiveOnes, [Next]_vars
             PROVE  Exclusive'
  OBVIOUS
<1> USE TimingAssumption DEF TypeOK, Phase, Exclusive, Owner, LivePhase
<1>1. ASSUME NEW i \in Instance, Step(i) PROVE Exclusive'
  <2>1. CASE Fire(i)
    BY <2>1 DEF Fire, Goto
  <2>2. CASE ReadClock(i)
    BY <2>2 DEF ReadClock, Goto
  <2>3. CASE Defer(i)
    BY <2>3 DEF Defer, ReadFlag, End
  <2>4. CASE Claim(i)
    BY <2>4, ClaimIsAlone DEF Claim, ReadFlag, Goto
  <2>5. CASE Truncate(i)
    BY <2>5 DEF Truncate, Goto
  <2>6. CASE TakeOver(i)
    BY <2>6 DEF TakeOver, Goto, Stamp
  <2>7. CASE LoopTop(i)
    BY <2>7 DEF LoopTop, Goto, RefreshDue
  <2>8. CASE Refresh(i)
    BY <2>8 DEF Refresh, Goto, Stamp
  <2>9. CASE Sleep(i)
    BY <2>9 DEF Sleep, Goto
  <2>10. CASE Leave(i)
    BY <2>10 DEF Leave, End
  <2>11. CASE Crash(i)
    BY <2>11 DEF Crash, End
  <2> QED
    BY <1>1, <2>1, <2>2, <2>3, <2>4, <2>5, <2>6, <2>7, <2>8,
       <2>9, <2>10, <2>11 DEF Step
<1>2. CASE Tick
  BY <1>2 DEF Tick
<1>3. CASE Horizon \/ UNCHANGED vars
  BY <1>3 DEF Horizon, vars
<1> QED
  BY <1>1, <1>2, <1>3 DEF Next

\* Only the one process that is live or about to be writes the flag.
LEMMA FlagStep ==
  Races = {} /\ TypeOK /\ Age /\ Exclusive /\ FlagIsTheLiveOnes /\ [Next]_vars => FlagIsTheLiveOnes'
<1> SUFFICES ASSUME Races = {}, TypeOK, Age, Exclusive, FlagIsTheLiveOnes, [Next]_vars
             PROVE  FlagIsTheLiveOnes'
  OBVIOUS
<1> USE TimingAssumption DEF TypeOK, Phase, Exclusive, Owner, Live, LivePhase,
    FlagIsTheLiveOnes
<1>1. ASSUME NEW i \in Instance, Step(i) PROVE FlagIsTheLiveOnes'
  <2>1. CASE Fire(i)
    BY <2>1 DEF Fire, Goto
  <2>2. CASE ReadClock(i)
    BY <2>2 DEF ReadClock, Goto
  <2>3. CASE Defer(i)
    BY <2>3 DEF Defer, ReadFlag, End
  <2>4. CASE Claim(i)
    BY <2>4 DEF Claim, ReadFlag, Goto
  <2>5. CASE Truncate(i)
    BY <2>5 DEF Truncate, Goto
  <2>6. CASE TakeOver(i)
    BY <2>6 DEF TakeOver, Goto, Stamp
  <2>7. CASE LoopTop(i)
    BY <2>7 DEF LoopTop, Goto, RefreshDue
  <2>8. CASE Refresh(i)
    BY <2>8 DEF Refresh, Goto, Stamp
  <2>9. CASE Sleep(i)
    BY <2>9 DEF Sleep, Goto
  <2>10. CASE Leave(i)
    BY <2>10 DEF Leave, End
  <2>11. CASE Crash(i)
    BY <2>11 DEF Crash, End
  <2> QED
    BY <1>1, <2>1, <2>2, <2>3, <2>4, <2>5, <2>6, <2>7, <2>8,
       <2>9, <2>10, <2>11 DEF Step
<1>2. CASE Tick
  BY <1>2 DEF Tick
<1>3. CASE Horizon \/ UNCHANGED vars
  BY <1>3 DEF Horizon, vars
<1> QED
  BY <1>1, <1>2, <1>3 DEF Next

-----------------------------------------------------------------------------
\* What holds whatever the races: the timing of starts, refreshes, outages.
TimingInv == TypeOK /\ Due /\ Starting /\ Age /\ Outage

LEMMA TimingInvariant == Spec => []TimingInv
<1>1. Init => TimingInv
  BY TimingAssumption
     DEF Init, TimingInv, TypeOK, Phase, Due, Starting, StartPhase, Age,
         Outage, Live, LivePhase
<1>2. TimingInv /\ [Next]_vars => TimingInv'
  BY TypeStep, DueStep, StartingStep, AgeStep, OutageStep DEF TimingInv
<1> QED
  BY <1>1, <1>2, PTL DEF Spec

\* However starts and refreshes race, a crashed process keeps the service
\* down no longer than the staleness limit, a cron period and one start.
THEOREM OutagesAreBounded == Spec => []OutageBounded
<1>1. TimingInv => OutageBounded
  <2> SUFFICES ASSUME TimingInv PROVE OutageBounded
    OBVIOUS
  <2> USE TimingAssumption DEF TimingInv, TypeOK, Phase, OutageBounded
  <2>1. CASE lastFire < downSince + Stale
    BY <2>1 DEF Due
  <2>2. CASE downSince + Stale <= lastFire
    <3>1. PICK i \in Instance : pc[i] \in StartPhase
      BY <2>2 DEF Outage
    <3>2. now <= lastFire + 4 * Lag
      BY <3>1 DEF Due, Starting, StartPhase
    <3> QED
      BY <2>2, <3>2 DEF Outage
  <2> QED
    BY <2>1, <2>2
<1> QED
  BY <1>1, TimingInvariant, PTL

\* The inductive invariant behind mutual exclusion: the timing, and that the
\* flag speaks for the one process that owns it.
OwnerInv == TimingInv /\ Exclusive /\ ReaderBehind /\ FlagIsTheLiveOnes

LEMMA OwnerInvariant == ASSUME Races = {} PROVE Spec => []OwnerInv
<1>1. Init => OwnerInv
  BY TimingAssumption
     DEF Init, OwnerInv, TimingInv, TypeOK, Phase, Due, Starting, StartPhase,
         Age, Outage, Live, LivePhase, Exclusive, Owner, ReaderBehind,
         FlagIsTheLiveOnes
<1>2. OwnerInv /\ [Next]_vars => OwnerInv'
  BY TypeStep, DueStep, StartingStep, AgeStep, OutageStep, ExclusiveStep,
     ReaderBehindStep, FlagStep DEF OwnerInv, TimingInv
<1> QED
  BY <1>1, <1>2, PTL DEF Spec

\* If no start reads the flag inside a refresh, at most one process is live.
THEOREM MutualExclusion == ASSUME Races = {} PROVE Spec => []AtMostOneLive
<1>1. OwnerInv => AtMostOneLive
  BY DEF OwnerInv, Exclusive, Owner, AtMostOneLive, Live
<1> QED
  BY <1>1, OwnerInvariant, PTL

\* ... and the flag on disk always carries the live process's own stamp.
THEOREM FlagSpeaksForTheLiveOne ==
  ASSUME Races = {} PROVE Spec => []FlagIsTheLiveOnes
<1>1. OwnerInv => FlagIsTheLiveOnes
  BY DEF OwnerInv
<1> QED
  BY <1>1, OwnerInvariant, PTL

-----------------------------------------------------------------------------
(* The gate adds detail to the flag protocol and takes nothing away.       *)

LEMMA GateStep == [GateNext]_gateVars => [Next]_vars
<1> SUFFICES ASSUME GateNext \/ UNCHANGED gateVars PROVE Next \/ UNCHANGED vars
  OBVIOUS
<1>1. ASSUME NEW i \in Instance, Serve(i) PROVE Step(i) \/ UNCHANGED vars
  <2>1. CASE Plain(i)
    BY <2>1 DEF Plain, Step
  <2>2. CASE GateReadClock(i)
    BY <2>2 DEF GateReadClock, Step
  <2>3. CASE GateDefer(i)
    BY <2>3 DEF GateDefer, Step
  <2>4. CASE GateTakeOver(i)
    BY <2>4 DEF GateTakeOver, Step
  <2>5. CASE Purge(i)
    BY <2>5 DEF Purge
  <2>6. CASE GateLoopTop(i)
    BY <2>6 DEF GateLoopTop, Step
  <2>7. CASE GateRefresh(i)
    BY <2>7 DEF GateRefresh, Step
  <2>8. CASE Scan(i)
    BY <2>8 DEF Scan
  <2>9. CASE \E r \in Request : Disconnect(i, r)
    BY <2>9 DEF Disconnect
  <2>10. CASE GateSleep(i)
    BY <2>10 DEF GateSleep, Step
  <2>11. CASE GateLeave(i)
    BY <2>11 DEF GateLeave, Step
  <2>12. CASE GateCrash(i)
    BY <2>12 DEF GateCrash, Step
  <2> QED
    BY <1>1, <2>1, <2>2, <2>3, <2>4, <2>5, <2>6, <2>7, <2>8, <2>9, <2>10,
       <2>11, <2>12 DEF Serve
<1>2. ASSUME NEW r \in Request, Connect(r) PROVE UNCHANGED vars
  BY <1>2 DEF Connect, BeginConnect, CheckFlag, Ask, BeginSave, EndSave, Die,
              Close
<1>3. CASE GateTick \/ GateHorizon
  BY <1>3 DEF GateTick, GateHorizon, Next
<1>4. CASE UNCHANGED gateVars
  BY <1>4 DEF gateVars
<1> QED
  BY <1>1, <1>2, <1>3, <1>4 DEF GateNext, Next

\* The service and its clients keep the flag protocol: what is proved of
\* Singleton holds of them.
THEOREM GateKeepsProtocol == GateSpec => Spec
<1>1. GateInit => Init
  BY DEF GateInit
<1> QED
  BY <1>1, GateStep, PTL DEF GateSpec, Spec

\* One process is live at a time, whatever clients do.
THEOREM GateExclusive ==
  ASSUME Races = {} PROVE GateSpec => []AtMostOneLive
BY GateKeepsProtocol, MutualExclusion, PTL

-----------------------------------------------------------------------------
(* Types.                                                                  *)

\* The configurations a request can work with.
Conf == {c \in Loads : c.ok}

Shape ==
  /\ GateTypeOK
  /\ config \in [Request -> Conf]
  /\ header = [r \in Request |-> header[r]]
  /\ user = [r \in Request |-> user[r]]

\* What every valid configuration has: a limit that is one, or none, and a
\* percentage to refuse at that is not zero.
LEMMA Loaded ==
  ASSUME NEW c \in Conf
  PROVE /\ c.limit \in Nat \cup {NoLimit}
        /\ c.reject \in Nat /\ c.reject > 0
<1>1. CASE c = Default
  BY <1>1 DEF Default
<1>2. CASE c # Default
  <2>1. PICK lines \in ConfigFile : c = FromStr(lines)
    BY <1>2 DEF Conf, Loads
  <2> DEFINE limit1 == Setting(lines, "MEMORY_LIMIT_MB")
             reject1 == Setting(lines, "MEMORY_REJECT_PCT")
  <2>2. /\ limit1.kind = "number" => limit1.n \in Nat
        /\ reject1.kind = "number" => reject1.n \in Nat
    BY GateAssumption
  <2>3. c.ok
    BY DEF Conf
  <2>4. Positive(limit1) /\ Positive(reject1)
    BY <2>1, <2>3 DEF FromStr, Refused
  <2>5. /\ c.limit = IF limit1 = NotSet THEN NoLimit ELSE Bytes(limit1.n)
        /\ c.reject = IF reject1 = NotSet THEN 100 ELSE reject1.n
    BY <2>1, <2>3 DEF FromStr, Refused
  <2>6. ASSUME NEW n \in Nat PROVE Bytes(n) \in Nat
    <3>1. n * Mega \in Nat
      BY WidthAssumption
    <3> QED
      BY <3>1, WidthAssumption DEF Bytes
  <2> HIDE DEF limit1, reject1
  <2> QED
    BY <2>2, <2>4, <2>5, <2>6 DEF Positive
<1> QED
  BY <1>1, <1>2

\* A measurement is a percentage, or what a limit of no bytes makes of it.
LEMMA Percentage ==
  ASSUME NEW m \in Memory, NEW b \in Nat \cup {NoLimit}
  PROVE MemoryPct(m, b) \in Nat \cup {Infinite}
<1>1. CASE b = NoLimit \/ b = 0
  BY <1>1 DEF MemoryPct
<1>2. CASE b # NoLimit /\ b # 0
  <2>1. 100 * m \in Nat /\ b \in Nat \ {0}
    BY <1>2, GateAssumption
  <2>2. (100 * m) \div b \in Nat
    BY <2>1
  <2> QED
    BY <1>2, <2>2 DEF MemoryPct
<1> QED
  BY <1>1, <1>2

\* A request moves on or ends within the types.
LEMMA Moves ==
  ASSUME Shape, NEW r \in Request, NEW where \in Active
  PROVE /\ Move(r, where) =>
             /\ at' \in [Request -> Active \cup {"new", "connected", "refused", "over"}]
             /\ config' \in [Request -> Conf]
             /\ header' = [q \in Request |-> header'[q]]
             /\ user' = [q \in Request |-> user'[q]]
BY DEF Shape, GateTypeOK, Move

LEMMA Finishes ==
  ASSUME Shape, NEW r \in Request, NEW how \in {"connected", "refused", "over"},
         Finish(r, how)
  PROVE /\ at' \in [Request -> Active \cup {"new", "connected", "refused", "over"}]
        /\ config' \in [Request -> Conf]
        /\ header' = [q \in Request |-> header'[q]]
        /\ user' = [q \in Request |-> user'[q]]
<1>1. Default \in Conf
  BY DEF Conf, Loads, Default
<1>2. \A f, v : f = [q \in Request |-> f[q]] =>
        [f EXCEPT ![r] = v] = [q \in Request |-> [f EXCEPT ![r] = v][q]]
  OBVIOUS
<1> QED
  BY <1>1, <1>2 DEF Shape, GateTypeOK, Finish, Active

\* A slot that is free again has the limit and the measurement of none.
LEMMA Forgets ==
  ASSUME Shape, NEW i \in Instance, Forget(i)
  PROVE /\ limit' \in [Instance -> Nat \cup {NoLimit}]
        /\ measured' \in [Instance -> Nat \cup {Infinite}]
        /\ purged' \in [Instance -> BOOLEAN]
        /\ lastScan' \in [Instance -> Int]
BY DEF Shape, GateTypeOK, Forget

LEMMA Measures ==
  ASSUME Shape, NEW i \in Instance, Measure(i)
  PROVE /\ measured' \in [Instance -> Nat \cup {Infinite}]
        /\ flagPct' \in Nat \cup {Infinite}
        /\ flagPct' = measured'[i]
        /\ limit[i] = NoLimit => measured'[i] = 0
        /\ \A j \in Instance : j # i => measured'[j] = measured[j]
<1>1. PICK m \in Memory :
        /\ measured' = [measured EXCEPT ![i] = MemoryPct(m, limit[i])]
        /\ flagPct' = MemoryPct(m, limit[i])
  BY DEF Measure
<1>2. limit[i] \in Nat \cup {NoLimit}
  BY DEF Shape, GateTypeOK
<1>3. MemoryPct(m, limit[i]) \in Nat \cup {Infinite}
  BY <1>2, Percentage
<1>4. limit[i] = NoLimit => MemoryPct(m, limit[i]) = 0
  BY DEF MemoryPct
<1> QED
  BY <1>1, <1>3, <1>4 DEF Shape, GateTypeOK

LEMMA ShapeStep == TypeOK /\ Shape /\ [GateNext]_gateVars => Shape'
<1> SUFFICES ASSUME TypeOK, Shape, GateNext \/ UNCHANGED gateVars PROVE Shape'
  OBVIOUS
<1> DEFINE Places == Active \cup {"new", "connected", "refused", "over"}
<1>1. ASSUME NEW i \in Instance, Serve(i) PROVE Shape'
  <2> USE DEF gate, files, processes, requests
  <2>1. CASE Plain(i) \/ GateLoopTop(i) \/ GateSleep(i)
    BY <2>1 DEF Plain, GateLoopTop, GateSleep, Shape, GateTypeOK
  <2>2. CASE GateReadClock(i)
    <3>1. PICK c \in Conf : limit' = [limit EXCEPT ![i] = c.limit]
      BY <2>2 DEF GateReadClock, Conf
    <3>2. limit' \in [Instance -> Nat \cup {NoLimit}]
      BY <3>1, Loaded DEF Shape, GateTypeOK
    <3> QED
      BY <2>2, <3>2 DEF GateReadClock, Shape, GateTypeOK
  <2>3. CASE GateDefer(i)
    <3>1. Forget(i) /\ UNCHANGED <<files, served, requests, since, clean>>
      BY <2>3 DEF GateDefer
    <3> QED
      BY <3>1, Forgets DEF Shape, GateTypeOK
  <2>4. CASE GateTakeOver(i)
    <3>1. Measure(i)
      BY <2>4 DEF GateTakeOver
    <3>2. clock[i] - ScanInterval \in Int
      BY GateAssumption DEF TypeOK
    <3> QED
      BY <2>4, <3>1, <3>2, Measures DEF GateTakeOver, Shape, GateTypeOK
  <2>5. CASE Purge(i)
    BY <2>5 DEF Purge, Shape, GateTypeOK
  <2>6. CASE GateRefresh(i)
    <3>1. Measure(i)
      BY <2>6 DEF GateRefresh
    <3> QED
      BY <2>6, <3>1, Measures DEF GateRefresh, Shape, GateTypeOK
  <2>7. CASE Scan(i)
    <3>1. clock[i] \in Int
      BY DEF TypeOK
    <3> QED
      BY <2>7, <3>1 DEF Scan, Shape, GateTypeOK
  <2>8. CASE \E r \in Request : Disconnect(i, r)
    BY <2>8 DEF Disconnect, Shape, GateTypeOK
  <2>9. CASE GateLeave(i)
    <3>1. Forget(i)
      BY <2>9 DEF GateLeave
    <3> QED
      BY <2>9, <3>1, Forgets DEF GateLeave, Shape, GateTypeOK
  <2>10. CASE GateCrash(i)
    <3>1. Forget(i)
      BY <2>10 DEF GateCrash
    <3>2. since' \in [Request -> Nat] /\ served' \subseteq Request
      BY <2>10 DEF GateCrash, Shape, GateTypeOK, TypeOK
    <3> QED
      BY <2>10, <3>1, <3>2, Forgets DEF GateCrash, Shape, GateTypeOK
  <2> QED
    BY <1>1, <2>1, <2>2, <2>3, <2>4, <2>5, <2>6, <2>7, <2>8, <2>9, <2>10
       DEF Serve
<1>2. ASSUME NEW r \in Request, Connect(r) PROVE Shape'
  <2> USE DEF files, processes, requests
  <2>1. CASE BeginConnect(r)
    <3>1. PICK c \in Loads, h \in Header :
            \/ /\ c.ok
               /\ at' = [at EXCEPT ![r] = "checking"]
               /\ config' = [config EXCEPT ![r] = c]
               /\ header' = [header EXCEPT ![r] = h]
               /\ UNCHANGED user
            \/ ~ c.ok /\ Finish(r, "over")
      BY <2>1 DEF BeginConnect
    <3>2. CASE ~ c.ok /\ Finish(r, "over")
      BY <2>1, <3>2, Finishes DEF BeginConnect, Shape, GateTypeOK
    <3>3. CASE /\ c.ok
               /\ at' = [at EXCEPT ![r] = "checking"]
               /\ config' = [config EXCEPT ![r] = c]
               /\ header' = [header EXCEPT ![r] = h]
               /\ UNCHANGED user
      <4>1. c \in Conf
        BY <3>3 DEF Conf
      <4> QED
        BY <2>1, <3>3, <4>1 DEF BeginConnect, Shape, GateTypeOK, Active
    <3> QED
      BY <3>1, <3>2, <3>3
  <2>2. CASE CheckFlag(r)
    <3>1. \/ Finish(r, "over") \/ Finish(r, "refused")
          \/ Move(r, "admitted") \/ Move(r, "asking")
      BY <2>2 DEF CheckFlag
    <3> QED
      BY <2>2, <3>1, Finishes, Moves DEF CheckFlag, Shape, GateTypeOK, Active
  <2>3. CASE Ask(r)
    <3>1. \/ Finish(r, "over")
          \/ \E u : /\ at' = [at EXCEPT ![r] = "admitted"]
                    /\ user' = [user EXCEPT ![r] = u]
                    /\ UNCHANGED <<config, header>>
      BY <2>3 DEF Ask
    <3> QED
      BY <2>3, <3>1, Finishes DEF Ask, Shape, GateTypeOK, Active
  <2>4. CASE BeginSave(r)
    BY <2>4, Moves DEF BeginSave, Shape, GateTypeOK, Active
  <2>5. CASE EndSave(r)
    BY <2>5, Finishes DEF EndSave, Shape, GateTypeOK, TypeOK
  <2>6. CASE Die(r)
    BY <2>6, Finishes DEF Die, Shape, GateTypeOK
  <2>7. CASE Close(r)
    BY <2>7 DEF Close, Shape, GateTypeOK
  <2> QED
    BY <1>2, <2>1, <2>2, <2>3, <2>4, <2>5, <2>6, <2>7 DEF Connect
<1>3. CASE GateTick \/ GateHorizon \/ UNCHANGED gateVars
  BY <1>3 DEF GateTick, GateHorizon, gateVars, gate, files, processes,
              requests, Shape, GateTypeOK
<1> QED
  BY <1>1, <1>2, <1>3 DEF GateNext

LEMMA ShapeInvariant == GateSpec => []Shape
<1>1. GateInit => Shape
  BY DEF GateInit, Shape, GateTypeOK, Conf, Loads, Default
<1> QED
  BY <1>1, ShapeStep, GateKeepsProtocol, TypeCorrect, PTL DEF GateSpec

\* Every reachable state gives the variables of the gate values of their
\* types; in particular what a flag carries is a percentage or null.
THEOREM GateTypeCorrect == GateSpec => []GateTypeOK
<1>1. Shape => GateTypeOK
  BY DEF Shape
<1> QED
  BY <1>1, ShapeInvariant, PTL

-----------------------------------------------------------------------------
(* Profiles are earned.                                                    *)

\* How much of what its configuration asks for a request has shown.
Earned ==
  \A r \in Request :
    /\ at[r] \in {"asking", "admitted", "saving"} => CookieThere(r)
    /\ at[r] \in {"admitted", "saving"} /\ config[r].url # NotSet =>
         user[r].by = "endpoint" /\ user[r].id # ""

\* Who has a verified id has one.
LEMMA VerifiedIds ==
  ASSUME NEW a, NEW path, VerifyUser(a, path).verdict = "user"
  PROVE VerifyUser(a, path).id # ""
BY DEF VerifyUser

LEMMA EarnedStep == Shape /\ Earned /\ [GateNext]_gateVars => Earned'
<1> SUFFICES ASSUME Shape, Earned, GateNext \/ UNCHANGED gateVars PROVE Earned'
  OBVIOUS
<1> USE DEF Earned, CookieThere
<1>1. ASSUME NEW i \in Instance, Serve(i) PROVE UNCHANGED requests
  BY <1>1 DEF Serve, Plain, GateReadClock, GateDefer, GateTakeOver, Purge,
              GateLoopTop, GateRefresh, Scan, Disconnect, GateSleep, GateLeave,
              GateCrash, gate
<1>2. ASSUME NEW r \in Request, Connect(r), ~ UNCHANGED requests PROVE Earned'
  <2> USE DEF Shape, GateTypeOK
  <2>1. ASSUME NEW how \in {"connected", "refused", "over"}, Finish(r, how)
        PROVE Earned'
    BY <2>1 DEF Finish
  <2>2. CASE BeginConnect(r)
    <3>1. PICK c \in Loads, h \in Header :
            \/ /\ at' = [at EXCEPT ![r] = "checking"]
               /\ config' = [config EXCEPT ![r] = c]
               /\ header' = [header EXCEPT ![r] = h]
               /\ UNCHANGED user
            \/ Finish(r, "over")
      BY <2>2 DEF BeginConnect
    <3> QED
      BY <2>1, <3>1
  <2>3. CASE CheckFlag(r)
    <3>1. \/ Finish(r, "over") \/ Finish(r, "refused")
          \/ CookieThere(r) /\ config[r].url = NotSet /\ Move(r, "admitted")
          \/ CookieThere(r) /\ Move(r, "asking")
      BY <2>3 DEF CheckFlag
    <3> QED
      BY <2>1, <3>1 DEF Move
  <2>4. CASE Ask(r)
    <3>1. \/ Finish(r, "over")
          \/ \E a \in Answer :
               LET v == VerifyUser(a, config[r].json.word)
               IN  /\ v.verdict = "user"
                   /\ at' = [at EXCEPT ![r] = "admitted"]
                   /\ user' = [user EXCEPT ![r] = Verified(v.id)]
                   /\ UNCHANGED <<config, header>>
      BY <2>4 DEF Ask
    <3>2. CASE Finish(r, "over")
      BY <2>1, <3>2
    <3>3. ASSUME NEW id, id # "",
                 at' = [at EXCEPT ![r] = "admitted"],
                 user' = [user EXCEPT ![r] = Verified(id)],
                 UNCHANGED <<config, header>>
          PROVE Earned'
      BY <2>4, <3>3 DEF Ask, Verified
    <3>4. ASSUME NEW a \in Answer,
                 VerifyUser(a, config[r].json.word).verdict = "user",
                 at' = [at EXCEPT ![r] = "admitted"],
                 user' = [user EXCEPT ![r] =
                            Verified(VerifyUser(a, config[r].json.word).id)],
                 UNCHANGED <<config, header>>
          PROVE Earned'
      <4> HIDE DEF Earned, Shape
      <4>1. VerifyUser(a, config[r].json.word).id # ""
        BY <3>4, VerifiedIds
      <4> QED
        BY <3>3, <3>4, <4>1
    <3> HIDE DEF Earned, Shape
    <3> QED
      BY <3>1, <3>2, <3>4
  <2>5. CASE BeginSave(r)
    BY <2>5 DEF BeginSave, Move
  <2>6. CASE EndSave(r) \/ Die(r)
    BY <2>1, <2>6 DEF EndSave, Die
  <2>7. CASE Close(r)
    BY <1>2, <2>7 DEF Close
  <2> QED
    BY <1>2, <2>2, <2>3, <2>4, <2>5, <2>6, <2>7 DEF Connect
<1>3. CASE UNCHANGED requests
  BY <1>3 DEF requests
<1>4. CASE GateTick \/ GateHorizon \/ UNCHANGED gateVars
  BY <1>3, <1>4 DEF GateTick, GateHorizon, gateVars, gate
<1> QED
  BY <1>1, <1>2, <1>3, <1>4 DEF GateNext

\* No profile appears that was not earned, however the administrator edits
\* the configuration in between and however many processes come and go.
THEOREM ProfilesAreAlwaysEarned == GateSpec => ProfilesAreEarned
<1>1. GateInit => Earned
  BY DEF GateInit, Earned
<1>2. GateSpec => []Earned
  BY <1>1, EarnedStep, ShapeInvariant, PTL DEF GateSpec
<1>3. Shape /\ Earned /\ [GateNext]_gateVars => [EarnedNow]_gateVars
  <2> SUFFICES ASSUME Shape, Earned, GateNext, NEW r \in Request,
                      profile[r] = "none", profile'[r] # "none"
               PROVE /\ CookieThere(r)
                     /\ config[r].url # NotSet => /\ user[r].by = "endpoint"
                                                  /\ user[r].id # ""
    BY DEF EarnedNow, CookieThere
  <2>1. ASSUME NEW i \in Instance, Serve(i) PROVE FALSE
    BY <2>1 DEF Serve, Plain, GateReadClock, GateDefer, GateTakeOver, Purge,
                GateLoopTop, GateRefresh, Scan, Disconnect, GateSleep,
                GateLeave, GateCrash, gate, files, Shape, GateTypeOK
  <2>2. ASSUME NEW q \in Request, Connect(q) PROVE q = r /\ EndSave(r)
    BY <2>2 DEF Connect, BeginConnect, CheckFlag, Ask, BeginSave, EndSave, Die,
                Close, files, Shape, GateTypeOK
  <2>3. ~ GateTick /\ ~ GateHorizon
    BY DEF GateTick, GateHorizon, gate, files
  <2> QED
    BY <2>1, <2>2, <2>3 DEF GateNext, EndSave, Earned
<1> QED
  BY <1>2, <1>3, ShapeInvariant, PTL DEF GateSpec, ProfilesAreEarned

-----------------------------------------------------------------------------
(* Refusals are justified.                                                 *)

\* What the flag says of the service: the live process's own measurement
\* while there is one, nothing once it has left by itself.
Records ==
  /\ \A i \in Instance :
       /\ Live(i) => flagPct = measured[i] /\ ~ clean
       /\ ~ Live(i) => measured[i] = 0
       /\ limit[i] = NoLimit => measured[i] = 0
       /\ pc[i] = "rewrite" => flagState # "stamped"
  /\ clean => flagState # "stamped"

\* Who is live is the only owner of the flag, before the step and after it.
LEMMA RecordsStep ==
  ASSUME OwnerInv, OwnerInv', Shape, Records, [GateNext]_gateVars
  PROVE  Records'
<1>1. /\ pc \in [Instance -> Phase] /\ pc' \in [Instance -> Phase]
      /\ measured \in [Instance -> Nat \cup {Infinite}]
      /\ limit \in [Instance -> Nat \cup {NoLimit}]
      /\ clean \in BOOLEAN
  BY DEF OwnerInv, TimingInv, TypeOK, Shape, GateTypeOK
<1>2. /\ \A i, j \in Instance : Owner(i) /\ Owner(j) => i = j
      /\ \A i, j \in Instance : Owner(i)' /\ Owner(j)' => i = j
  BY DEF OwnerInv, Exclusive
<1> USE DEF Records, Live, LivePhase, Phase, Owner
<1>3. ASSUME NEW i \in Instance, Serve(i) PROVE Records'
  <2> USE DEF gate, files, processes
  <2>1. CASE Plain(i)
    <3>1. UNCHANGED <<flagPct, limit, measured, clean>>
      BY <2>1 DEF Plain
    <3>2. CASE Fire(i)
      BY <1>1, <3>1, <3>2 DEF Fire, Goto
    <3>3. CASE Claim(i)
      BY <1>1, <3>1, <3>3 DEF Claim, ReadFlag, Goto
    <3>4. CASE Truncate(i)
      BY <1>1, <3>1, <3>4 DEF Truncate, Goto
    <3> QED
      BY <2>1, <3>2, <3>3, <3>4 DEF Plain
  <2>2. CASE GateReadClock(i)
    BY <1>1, <2>2 DEF GateReadClock, ReadClock, Goto
  <2>3. CASE GateDefer(i)
    BY <1>1, <2>3 DEF GateDefer, Defer, ReadFlag, End, Forget
  <2>4. CASE GateTakeOver(i)
    <3>1. Measure(i)
      BY <2>4 DEF GateTakeOver
    <3>2. /\ flagPct' = measured'[i]
          /\ limit[i] = NoLimit => measured'[i] = 0
          /\ \A j \in Instance : j # i => measured'[j] = measured[j]
      BY <3>1, Measures
    <3> QED
      BY <1>1, <1>2, <2>4, <3>2 DEF GateTakeOver, TakeOver, Goto
  <2>5. CASE Purge(i) \/ Scan(i) \/ (\E r \in Request : Disconnect(i, r))
    BY <2>5 DEF Purge, Scan, Disconnect, vars
  <2>6. CASE GateLoopTop(i) \/ GateSleep(i)
    BY <1>1, <2>6 DEF GateLoopTop, LoopTop, GateSleep, Sleep, Goto
  <2>7. CASE GateRefresh(i)
    <3>1. Measure(i)
      BY <2>7 DEF GateRefresh
    <3>2. /\ flagPct' = measured'[i]
          /\ limit[i] = NoLimit => measured'[i] = 0
          /\ \A j \in Instance : j # i => measured'[j] = measured[j]
      BY <3>1, Measures
    <3> QED
      BY <1>1, <1>2, <2>7, <3>2 DEF GateRefresh, Refresh, Goto
  <2>8. CASE GateLeave(i)
    BY <1>1, <1>2, <2>8 DEF GateLeave, Leave, End, Forget
  <2>9. CASE GateCrash(i)
    BY <1>1, <2>9 DEF GateCrash, Crash, End, Forget
  <2> QED
    BY <1>3, <2>1, <2>2, <2>3, <2>4, <2>5, <2>6, <2>7, <2>8, <2>9 DEF Serve
<1>4. CASE UNCHANGED <<pc, flagState, flagPct, limit, measured, clean>>
  BY <1>4
<1>5. ASSUME NEW r \in Request, Connect(r) PROVE Records'
  BY <1>4, <1>5 DEF Connect, BeginConnect, CheckFlag, Ask, BeginSave, EndSave,
                    Die, Close, vars, files, processes
<1>6. CASE GateTick \/ GateHorizon \/ UNCHANGED gateVars
  BY <1>4, <1>6 DEF GateTick, Tick, GateHorizon, Horizon, gateVars, vars, gate,
                    files, processes
<1> QED
  BY <1>3, <1>5, <1>6 DEF GateNext

\* How old the stamp of a live process is, whatever it is doing.
LEMMA StampIsRecent ==
  ASSUME OwnerInv, NEW i \in Instance, Live(i), pc[i] # "rewrite"
  PROVE  now - flagTime < Update + 5 * Lag
<1>1. flagTime = stamped[i]
  BY DEF OwnerInv, FlagIsTheLiveOnes
<1>2. /\ {now, clock[i], stamped[i], lastStep[i], Update, Lag} \subseteq Nat
      /\ Lag > 0
  BY TimingAssumption DEF OwnerInv, TimingInv, TypeOK
<1>3. now <= lastStep[i] + Lag
  BY DEF OwnerInv, TimingInv, Due, Live, LivePhase
<1>4. CASE pc[i] = "loop"
  BY <1>1, <1>2, <1>3, <1>4 DEF OwnerInv, TimingInv, Age
<1>5. CASE pc[i] = "refresh"
  BY <1>1, <1>2, <1>3, <1>5 DEF OwnerInv, TimingInv, Age
<1>6. CASE pc[i] = "body"
  BY <1>1, <1>2, <1>3, <1>6 DEF OwnerInv, TimingInv, Age
<1> QED
  BY <1>4, <1>5, <1>6 DEF Live, LivePhase

\* A flag that says "full" is true of a process that is live, or the one
\* that crashed is not yet replaced.
LEMMA FullIsJustified ==
  ASSUME OwnerInv, OutageBounded, Shape, Records, Readable,
         NEW r \in Request, Over(r)
  PROVE  Justified
<1>1. config[r].reject \in Nat /\ config[r].reject > 0
  BY Loaded DEF Shape
<1>2. flagState = "stamped" /\ flagPct \in Nat /\ flagPct # 0
  BY <1>1 DEF Over, Readable, Shape, GateTypeOK
<1>3. ASSUME NEW i \in Instance, Live(i) PROVE Justified
  <2>1. flagPct = measured[i] /\ limit[i] # NoLimit /\ pc[i] # "rewrite"
    BY <1>2, <1>3 DEF Records
  <2> QED
    BY <1>3, <2>1, StampIsRecent DEF Justified
<1>4. CASE NoneLive
  BY <1>2, <1>4 DEF Justified, Records, OutageBounded
<1> QED
  BY <1>3, <1>4 DEF NoneLive

\* Only the check of the flag refuses.
LEMMA RefusalStep ==
  ASSUME OwnerInv, OutageBounded, Shape, Records, [GateNext]_gateVars
  PROVE  [RefusalsNow]_gateVars
<1> SUFFICES ASSUME GateNext, NEW r \in Request,
                    at[r] # "refused", at'[r] = "refused"
             PROVE  Justified
  BY DEF RefusalsNow
<1>1. ASSUME NEW i \in Instance, Serve(i) PROVE FALSE
  BY <1>1 DEF Serve, Plain, GateReadClock, GateDefer, GateTakeOver, Purge,
              GateLoopTop, GateRefresh, Scan, Disconnect, GateSleep, GateLeave,
              GateCrash, gate, requests
<1>2. ASSUME NEW q \in Request, Connect(q) PROVE q = r /\ Readable /\ Over(r)
  <2> USE DEF Shape, GateTypeOK
  <2>1. ASSUME NEW how \in {"connected", "over"}, Finish(q, how) PROVE FALSE
    BY <2>1 DEF Finish
  <2>2. ASSUME NEW where \in Active, Move(q, where) PROVE FALSE
    BY <2>2 DEF Move, Active
  <2>3. CASE BeginConnect(q)
    BY <2>1, <2>3 DEF BeginConnect
  <2>4. CASE CheckFlag(q)
    <3>1. q = r
      BY <2>4 DEF CheckFlag, Finish, Move
    <3> QED
      BY <2>1, <2>2, <2>4, <3>1 DEF CheckFlag, Active
  <2>5. CASE Ask(q)
    BY <2>1, <2>5 DEF Ask
  <2>6. CASE BeginSave(q)
    BY <2>2, <2>6 DEF BeginSave, Active
  <2>7. CASE EndSave(q) \/ Die(q)
    BY <2>1, <2>7 DEF EndSave, Die
  <2>8. CASE Close(q)
    BY <2>8 DEF Close, requests
  <2> QED
    BY <1>2, <2>3, <2>4, <2>5, <2>6, <2>7, <2>8 DEF Connect
<1>3. ~ GateTick /\ ~ GateHorizon
  BY DEF GateTick, GateHorizon, gate, requests
<1> QED
  BY <1>1, <1>2, <1>3, FullIsJustified DEF GateNext

\* connect refuses for memory only on the word of the live process, or of
\* one that crashed and is about to be replaced.
THEOREM RefusalsAreJustified ==
  ASSUME Races = {} PROVE GateSpec => RefusalIsJustified
<1>1. GateInit => Records
  BY DEF GateInit, Init, Records, Live, LivePhase
<1>2. GateSpec => [](OwnerInv /\ OutageBounded)
  BY GateKeepsProtocol, OwnerInvariant, OutagesAreBounded, PTL
<1>3. OwnerInv /\ OwnerInv' /\ Shape /\ Records /\ [GateNext]_gateVars
        => Records'
  BY RecordsStep
<1>4. GateSpec => []Records
  BY <1>1, <1>2, <1>3, ShapeInvariant, PTL DEF GateSpec
<1>5. OwnerInv /\ OutageBounded /\ Shape /\ Records
      /\ [GateNext]_gateVars => [RefusalsNow]_gateVars
  BY RefusalStep
<1> QED
  BY <1>2, <1>4, <1>5, ShapeInvariant, PTL DEF GateSpec, RefusalIsJustified

-----------------------------------------------------------------------------
(* Profiles are taken up soon.                                             *)

\* A profile that waits was saved after the last scan of the live process,
\* and how long it waits at most is known at each clock reading.
Waits ==
  /\ \A r \in Request : profile[r] # "part"
  /\ \A i \in Instance :
       Live(i) =>
         /\ lastScan[i] <= clock[i]
         /\ purged[i] =>
              \A r \in Request \ served :
                profile[r] # "none" =>
                  /\ lastScan[i] <= since[r]
                  /\ pc[i] = "loop" => clock[i] < since[r] + ScanInterval
                  /\ clock[i] < since[r] + ScanInterval + 4 * Lag
  /\ \A i \in Instance : ~ Live(i) => ~ purged[i]

LEMMA WaitsStep ==
  ASSUME OwnerInv, OwnerInv', Shape, Waits, [GateNext]_gateVars
  PROVE  Waits'
<1>1. /\ pc \in [Instance -> Phase] /\ pc' \in [Instance -> Phase]
      /\ clock \in [Instance -> Nat] /\ clock' \in [Instance -> Nat]
      /\ lastStep \in [Instance -> Nat]
      /\ now \in Nat
      /\ lastScan \in [Instance -> Int]
      /\ purged \in [Instance -> BOOLEAN]
      /\ profile \in [Request -> {"none", "part", "whole"}]
      /\ since \in [Request -> Nat]
      /\ served \subseteq Request
      /\ ScanInterval \in Nat \ {0} /\ Lag \in Nat \ {0}
  BY TimingAssumption, GateAssumption
     DEF OwnerInv, TimingInv, TypeOK, Shape, GateTypeOK
<1>2. /\ \A i, j \in Instance : Live(i) /\ Live(j) => i = j
      /\ \A i, j \in Instance : Live(i)' /\ Live(j)' => i = j
  BY DEF OwnerInv, Exclusive, Owner, Live
<1>3. \A i \in Instance : clock[i] <= now
  BY DEF OwnerInv, TimingInv, Due
<1> USE DEF Waits, Live, LivePhase, Phase
<1>4. ASSUME NEW i \in Instance, Serve(i) PROVE Waits'
  <2> USE DEF gate, files, processes
  <2>1. CASE Plain(i)
    <3>1. UNCHANGED <<profile, lastScan, purged, served, since, clock>>
      BY <2>1 DEF Plain, Fire, Claim, Truncate
    <3>2. \/ pc[i] = "off" /\ pc' = [pc EXCEPT ![i] = "launched"]
          \/ pc[i] = "check" /\ pc' = [pc EXCEPT ![i] = "claim"]
          \/ pc[i] = "claim" /\ pc' = [pc EXCEPT ![i] = "write"]
          \/ pc[i] = "refresh" /\ pc' = [pc EXCEPT ![i] = "rewrite"]
      BY <2>1 DEF Plain, Fire, Claim, ReadFlag, Truncate, Goto
    <3> QED
      BY <1>1, <3>1, <3>2
  <2>2. CASE GateReadClock(i)
    BY <1>1, <2>2 DEF GateReadClock, ReadClock, Goto
  <2>3. CASE GateDefer(i)
    BY <1>1, <2>3 DEF GateDefer, Defer, ReadFlag, End, Forget
  <2>4. CASE GateTakeOver(i)
    BY <1>1, <1>2, <2>4 DEF GateTakeOver, TakeOver, Goto
  <2>5. CASE Purge(i)
    BY <1>1, <2>5 DEF Purge, vars
  <2>6. CASE GateLoopTop(i)
    <3>1. /\ UNCHANGED <<profile, lastScan, purged, served, since>>
          /\ clock' = [clock EXCEPT ![i] = now]
          /\ pc[i] = "loop"
          /\ \/ pc' = [pc EXCEPT ![i] = "refresh"]
             \/ pc' = [pc EXCEPT ![i] = "body"]
      BY <2>6 DEF GateLoopTop, LoopTop, Goto
    <3>2. now <= clock[i] + 4 * Lag
      BY <1>1, <3>1 DEF OwnerInv, TimingInv, Due, Age
    <3> QED
      BY <1>1, <1>3, <3>1, <3>2
  <2>7. CASE GateRefresh(i)
    BY <1>1, <2>7 DEF GateRefresh, Refresh, Stamp, Goto
  <2>8. CASE Scan(i)
    BY <1>1, <1>2, <2>8 DEF Scan, vars
  <2>9. CASE \E r \in Request : Disconnect(i, r)
    BY <1>1, <2>9 DEF Disconnect, vars
  <2>10. CASE GateSleep(i)
    BY <1>1, <2>10 DEF GateSleep, Sleep, Goto, ScanDue
  <2>11. CASE GateLeave(i)
    BY <1>1, <1>2, <2>11 DEF GateLeave, Leave, End, Forget
  <2>12. CASE GateCrash(i)
    BY <1>1, <1>2, <2>12 DEF GateCrash, Crash, End, Forget
  <2> QED
    BY <1>4, <2>1, <2>2, <2>3, <2>4, <2>5, <2>6, <2>7, <2>8, <2>9, <2>10,
       <2>11, <2>12 DEF Serve
<1>5. ASSUME NEW r \in Request, Connect(r) PROVE Waits'
  <2>1. UNCHANGED <<pc, clock, lastScan, purged, served>>
    BY <1>5 DEF Connect, BeginConnect, CheckFlag, Ask, BeginSave, EndSave,
                Die, Close, vars, processes
  <2>2. CASE EndSave(r)
    BY <1>1, <1>3, <2>1, <2>2 DEF EndSave
  <2>3. CASE Close(r)
    BY <1>1, <2>1, <2>3 DEF Close
  <2>4. CASE UNCHANGED <<profile, since>>
    BY <2>1, <2>4
  <2> QED
    BY <1>5, <2>2, <2>3, <2>4 DEF Connect, BeginConnect, CheckFlag, Ask,
       BeginSave, Die, files
<1>6. CASE GateTick \/ GateHorizon \/ UNCHANGED gateVars
  BY <1>6 DEF GateTick, Tick, GateHorizon, Horizon, gateVars, vars, gate,
              files, processes
<1> QED
  BY <1>4, <1>5, <1>6 DEF GateNext

\* A profile saved while a process is live is served or gone within a scan
\* interval and one iteration of that process.
THEOREM ProfilesAreSoonTakenUp ==
  ASSUME Races = {} PROVE GateSpec => []ProfilesAreTakenUpSoon
<1>1. GateInit => Waits
  BY DEF GateInit, Init, Waits, Live, LivePhase
<1>2. GateSpec => []OwnerInv
  BY GateKeepsProtocol, OwnerInvariant, PTL
<1>3. OwnerInv /\ OwnerInv' /\ Shape /\ Waits /\ [GateNext]_gateVars => Waits'
  BY WaitsStep
<1>4. GateSpec => []Waits
  BY <1>1, <1>2, <1>3, ShapeInvariant, PTL DEF GateSpec
<1>5. OwnerInv /\ Shape /\ Waits => ProfilesAreTakenUpSoon
  <2> SUFFICES ASSUME OwnerInv, Shape, Waits,
                      NEW i \in Instance, NEW r \in Request \ served,
                      Live(i), purged[i], profile[r] # "none"
               PROVE  now - since[r] < ScanInterval + 7 * Lag
    BY DEF ProfilesAreTakenUpSoon
  <2>1. /\ {now, clock[i], lastStep[i], since[r], ScanInterval} \subseteq Nat
        /\ Lag \in Nat \ {0}
    BY TimingAssumption, GateAssumption
       DEF OwnerInv, TimingInv, TypeOK, Shape, GateTypeOK
  <2>2. now <= lastStep[i] + Lag
    BY DEF OwnerInv, TimingInv, Due, Live, LivePhase
  <2>3. CASE pc[i] = "loop"
    <3>1. lastStep[i] <= clock[i] + 3 * Lag /\ clock[i] < since[r] + ScanInterval
      BY <2>3 DEF OwnerInv, TimingInv, Age, Waits
    <3> QED
      BY <2>1, <2>2, <3>1
  <2>4. CASE pc[i] # "loop"
    <3>1. /\ lastStep[i] <= clock[i] + 2 * Lag
          /\ clock[i] < since[r] + ScanInterval + 4 * Lag
      BY <2>1, <2>4 DEF OwnerInv, TimingInv, Age, Waits, Live, LivePhase
    <3> QED
      BY <2>1, <2>2, <3>1
  <2> QED
    BY <2>3, <2>4
<1> QED
  BY <1>2, <1>4, <1>5, ShapeInvariant, PTL
===============================================================================
