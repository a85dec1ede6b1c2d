----------------------------- MODULE ServiceLoop -----------------------------
(***************************************************************************)
(* run_loop of one live service instance after another, with the client    *)
(* CGI processes that run beside it.  They meet in the state directory     *)
(* (connection profiles) and in one pair of FIFOs per connection.          *)
(*                                                                         *)
(* Every constant and every comparison of run_loop is about a difference   *)
(* of two clock readings, so the model keeps the differences: sinceScan is *)
(* now_ms - last_scan_ms, a timer's rem is expiry_ms - now_ms, and so on.  *)
(* All of them move at the one place where the loop reads the clock.       *)
(*                                                                         *)
(* The iteration is cut into steps wherever a client process can come in   *)
(* between: the scan lists the directory and then loads profile by         *)
(* profile, the FIFOs are drained one by one, the waiting polls answered   *)
(* one by one, in any order (the connections are in a HashMap).            *)
(*                                                                         *)
(* Not here: the flag file (module Singleton), the bytes of a frame, the   *)
(* checks connect makes before it writes a profile, failing file           *)
(* operations.                                                             *)
(***************************************************************************)
EXTENDS Integers, Sequences, FiniteSets, SequencesExt

CONSTANTS
  Conn,          \* connection ids (uuids: none is used twice)
  TimerId,       \* timer ids the engine chooses
  Step,          \* how much engine time an iteration may take
  Jump,          \* how far simulated time may be set back
  ScanInterval,  \* SCAN_INTERVAL_MS
  Inactivity,    \* CLIENT_INACTIVITY_MS
  IdleExit,      \* IDLE_EXIT_MS
  Crashes,       \* whether the service process may die
  PollersDie,    \* whether a poll process may die while it is answered
  Senders,       \* bound: connections whose clients send
  Pollers,       \* bound: connections whose clients poll
  Delay,         \* bound: how far ahead the engine sets a timer
  MaxOutput,     \* bound: items in one engine output
  MaxQueue,      \* bound: messages the engine sends to a connection
  MaxSend,       \* bound: messages a client sends on a connection
  MaxFifo,       \* bound: frames in a FIFO
  MaxJumps       \* bound: backward jumps

ASSUME DurationAssumption ==
  /\ {ScanInterval, Inactivity, IdleExit} \subseteq Nat \ {0}
  /\ Step \subseteq Nat \ {0}
  /\ Jump \subseteq Nat \ {0}
  /\ Delay \subseteq Nat
  /\ {MaxOutput, MaxQueue, MaxSend, MaxFifo, MaxJumps} \subseteq Nat
  /\ {Crashes, PollersDie} \subseteq BOOLEAN
  /\ \E m \in Jump \cup {0} : \A j \in Jump \cup {0} : j <= m

VARIABLES
  \* The file system.
  profiles,       \* connection_<uuid>.json files in the state directory
  fifos,          \* connections whose pair of FIFOs exists
  c2s,            \* frames in each client-to-server FIFO; 0 is a heartbeat
  \* The client processes.
  client,         \* "new", "connected", "closed": what the client did last
  sending,        \* whether a send request is under way
  sent,           \* how many sends were acknowledged
  polling,        \* where a poll request is
  got,            \* the engine's messages the polls returned
  \* The service process.
  pc,             \* "down", or the phase of the iteration
  todo,           \* connections the phase has yet to visit
  onDisk,         \* the listing the scan works from
  conns,          \* the connections map
  outbox,         \* per connection
  silence,        \* now_ms - last_message_ms
  sinceScan,      \* now_ms - last_scan_ms
  sinceStart,     \* now_ms - started_ms
  timers,         \* pending timers: [id, rem]
  pendingCloses,  \* pending_engine_closes
  batch,          \* the four lists of process_messages
  output,         \* what it returned
  \* History.
  told, heard,    \* what the engine has been told (see EngineContract)
  queued,         \* how many messages the engine sent to a connection
  greeted,        \* connections some run has served
  idle,           \* engine time since the client last showed a sign of life
  jumps           \* how often simulated time was set back

files == <<profiles, fifos, c2s>>
clients == <<client, sending, sent, polling, got>>
loop == <<onDisk, conns, outbox, silence, sinceScan, sinceStart, timers,
          pendingCloses, batch, output>>
engine == <<told, heard, queued>>
history == <<engine, greeted, idle, jumps>>
vars == <<files, clients, pc, todo, loop, history>>

EmptyBatch == [new |-> <<>>, closed |-> <<>>, inbound |-> <<>>, fired |-> <<>>]
NoOutput == [messages |-> {}, close |-> {}, cancel |-> {}, add |-> {},
             shutdown |-> FALSE]

Smaller(a, b) == IF a < b THEN a ELSE b
Larger(a, b) == IF a < b THEN b ELSE a

\* Beyond this age a difference is not told apart: the jumps that are left
\* cannot bring it back under IdleExit.
AgeCap == IdleExit + MaxJumps * (CHOOSE m \in Jump \cup {0} :
                                   \A j \in Jump \cup {0} : j <= m)

Init ==
  /\ profiles = {}
  /\ fifos = {}
  /\ c2s = [c \in Conn |-> <<>>]
  /\ client = [c \in Conn |-> "new"]
  /\ sending = [c \in Conn |-> FALSE]
  /\ sent = [c \in Conn |-> 0]
  /\ polling = [c \in Conn |-> "no"]
  /\ got = [c \in Conn |-> <<>>]
  /\ pc = "down"
  /\ todo = {}
  /\ onDisk = {}
  /\ conns = {}
  /\ outbox = [c \in Conn |-> <<>>]
  /\ silence = [c \in Conn |-> 0]
  /\ sinceScan = 0
  /\ sinceStart = 0
  /\ timers = {}
  /\ pendingCloses = <<>>
  /\ batch = EmptyBatch
  /\ output = NoOutput
  /\ told = [c \in Conn |-> "unseen"]
  /\ heard = [c \in Conn |-> 0]
  /\ queued = [c \in Conn |-> 0]
  /\ greeted = {}
  /\ idle = [c \in Conn |-> 0]
  /\ jumps = 0

-----------------------------------------------------------------------------
(* Pipes and profiles.                                                     *)

\* f with the connections in S set back to v.
Reset(f, S, v) == [c \in Conn |-> IF c \in S THEN v ELSE f[c]]

\* The FIFOs of the connections in S are unlinked.  What they held is gone,
\* and a poll blocked in its open of one of them stays blocked: nobody will
\* ever open the other end.
Unlink(S) ==
  /\ c2s' = Reset(c2s, S, <<>>)
  /\ polling' = [c \in Conn |->
                   IF c \in S /\ polling[c] = "waiting" THEN "orphaned"
                   ELSE polling[c]]

\* A defect to compare with: the entry stays in the map.
ForgetKeepingEntry(S) ==
  /\ conns' = conns
  /\ outbox' = Reset(outbox, S, <<>>)
  /\ silence' = Reset(silence, S, 0)
  /\ idle' = Reset(idle, S, 0)

\* The registry forgets the connections in S: they leave the map, and their
\* outboxes with them.
Forget(S) ==
  /\ conns' = conns \ S
  /\ outbox' = Reset(outbox, S, <<>>)
  /\ silence' = Reset(silence, S, 0)
  /\ idle' = Reset(idle, S, 0)

\* A defect to compare with: the profile is left behind.
TeardownOfPipes(S) ==
  /\ fifos' = fifos \ S
  /\ UNCHANGED profiles
  /\ Unlink(S)

\* The service side of a disconnection: pipes and profile.
Teardown(S) ==
  /\ fifos' = fifos \ S
  /\ profiles' = profiles \ S
  /\ Unlink(S)

-----------------------------------------------------------------------------
(* The iteration, phase by phase.                                          *)

\* Reports of connections S closed for a reason, in some order.
Reports(S, why) ==
  LET s == SetToSeq(S)
  IN  [k \in DOMAIN s |-> [conn |-> s[k], reason |-> why]]

\* A defect to compare with: a baseline left in the future stays there.
AgeUnclamped(a, d) == a + d

\* An age at a clock reading d later (earlier when negative) than the last
\* one, with the clamp for a baseline left in the future.
Age(a, d) == Larger(0, a + d)

\* A last scan in the future is taken to be one interval ago.
ScanAge(d) == IF sinceScan + d < 0 THEN ScanInterval ELSE sinceScan + d
ScanDue(d) == ScanAge(d) >= ScanInterval

\* A defect to compare with: the baseline moves in every iteration.
SinceScanAlwaysReset(d) == 0

SinceScanAfter(d) == IF ScanDue(d) THEN 0 ELSE ScanAge(d)

\* The top of the iteration: read the clock, collect the closes deferred
\* from the previous one, and list the profiles when a scan is due.
Top(d) ==
  /\ pc = "top"
  /\ sinceStart' = Smaller(AgeCap, Age(sinceStart, d))
  /\ silence' = [c \in Conn |->
                   IF c \in conns THEN Age(silence[c], d) ELSE 0]
  /\ idle' = [c \in Conn |->
                IF c \in conns THEN Smaller(Inactivity, idle[c] + Larger(0, d))
                ELSE 0]
  /\ timers' = {[t EXCEPT !.rem = @ - d] : t \in timers}
  /\ batch' = [EmptyBatch EXCEPT !.closed =
                 [k \in DOMAIN pendingCloses |->
                    [conn |-> pendingCloses[k], reason |-> "engine_requested"]]]
  /\ pendingCloses' = <<>>
  /\ sinceScan' = SinceScanAfter(d)
  /\ \/ /\ ScanDue(d)
        /\ onDisk' = profiles
        /\ todo' = profiles \ conns
        /\ pc' = "scan"
     \/ /\ ~ ScanDue(d)
        /\ todo' = conns
        /\ pc' = "drain"
        /\ UNCHANGED onDisk
  /\ UNCHANGED <<files, clients, conns, outbox, output, engine, greeted>>

Forward == \E d \in Step : Top(d) /\ UNCHANGED jumps
Backward == \E d \in Jump : /\ jumps < MaxJumps
                            /\ Top(0 - d)
                            /\ jumps' = jumps + 1

\* The scan takes up a profile that is not served yet: fresh FIFOs (stale
\* ones of the same name are removed) and an entry in the map.
Adopt(c) ==
  /\ pc = "scan" /\ c \in todo
  /\ c \in profiles
  /\ Unlink({c})
  /\ fifos' = fifos \cup {c}
  /\ conns' = conns \cup {c}
  /\ greeted' = greeted \cup {c}
  /\ batch' = [batch EXCEPT !.new = Append(@, c)]
  /\ todo' = todo \ {c}
  /\ UNCHANGED <<profiles, client, sending, sent, got, pc, onDisk, outbox,
                 silence, sinceScan, sinceStart, timers, pendingCloses,
                 output, engine, idle, jumps>>

\* The profile was deleted since it was listed: loading it fails.
Skip(c) ==
  /\ pc = "scan" /\ c \in todo
  /\ c \notin profiles
  /\ todo' = todo \ {c}
  /\ UNCHANGED <<files, clients, pc, loop, history>>

\* A vanished profile is a client-side close.
Gone ==
  /\ pc = "scan" /\ todo = {}
  /\ LET gone == conns \ onDisk
     IN  /\ Forget(gone)
         /\ fifos' = fifos \ gone
         /\ Unlink(gone)
         /\ batch' = [batch EXCEPT !.closed =
                        @ \o Reports(gone, "client_disconnected")]
  /\ todo' = conns'
  /\ onDisk' = {}
  /\ pc' = "drain"
  /\ UNCHANGED <<profiles, client, sending, sent, got, sinceScan, sinceStart,
                 timers, pendingCloses, output, engine, greeted, jumps>>

\* A defect to compare with: heartbeats are filtered out before they count.
SignOfLifeInMessages(frames) == \E k \in DOMAIN frames : frames[k] # 0

\* Every frame counts as a sign of life, a heartbeat too.
SignOfLife(frames) == frames # <<>>

\* The frames that are no heartbeats.
Texts(frames) ==
  LET upto[k \in 0 .. Len(frames)] ==
        IF k = 0 THEN <<>>
        ELSE IF frames[k] = 0 THEN upto[k - 1]
        ELSE Append(upto[k - 1], frames[k])
  IN  upto[Len(frames)]

\* The frames of one FIFO reach the batch, but for the heartbeats.
Drain(c) ==
  /\ pc = "drain" /\ c \in todo
  /\ LET messages == Texts(c2s[c])
     IN  batch' = [batch EXCEPT !.inbound =
                     @ \o [k \in DOMAIN messages |->
                             [conn |-> c, n |-> messages[k]]]]
  /\ silence' = IF SignOfLife(c2s[c]) THEN [silence EXCEPT ![c] = 0]
                ELSE silence
  /\ c2s' = [c2s EXCEPT ![c] = <<>>]
  /\ todo' = todo \ {c}
  /\ UNCHANGED <<profiles, fifos, clients, pc, onDisk, conns, outbox,
                 sinceScan, sinceStart, timers, pendingCloses, output,
                 history>>

Silent == {c \in conns : silence[c] >= Inactivity}
Expired == {t \in timers : t.rem <= 0}

\* Then the silent clients are disconnected and the expired timers taken, by
\* expiry (those of one moment in any order).
Sweep ==
  /\ pc = "drain" /\ todo = {}
  /\ Forget(Silent)
  /\ Teardown(Silent)
  /\ timers' = timers \ Expired
  /\ \E order \in SetToSeqs(Expired) :
       /\ \A j, k \in DOMAIN order : j < k => order[j].rem <= order[k].rem
       /\ batch' = [batch EXCEPT
                      !.closed = @ \o Reports(Silent, "server_idle_timeout"),
                      !.fired = order]
  /\ pc' = "engine"
  /\ UNCHANGED <<client, sending, sent, got, todo, onDisk, sinceScan,
                 sinceStart, pendingCloses, output, engine, greeted, jumps>>

\* A defect to compare with: messages alone are no reason for a call.
NewsButMessages ==
  batch.new # <<>> \/ batch.closed # <<>> \/ batch.fired # <<>>

News == batch # EmptyBatch

\* With nothing to report the engine is not called.
Quiet ==
  /\ pc = "engine"
  /\ ~ News
  /\ pc' = "polls"
  /\ todo' = conns
  /\ UNCHANGED <<files, clients, loop, history>>

\* What an engine may answer: messages, closes and cancellations for ids it
\* knows or does not know, timers at any distance, a shutdown.
Outputs ==
  {o \in [messages : SUBSET {c \in Conn : queued[c] < MaxQueue},
          close : SUBSET Conn,
          cancel : SUBSET TimerId,
          add : SUBSET ([id : TimerId, rem : Delay] \ timers),
          shutdown : BOOLEAN] :
     /\ IsFiniteSet(o.add)
     /\ Cardinality(o.messages) + Cardinality(o.close) + Cardinality(o.cancel)
          + Cardinality(o.add) + (IF o.shutdown THEN 1 ELSE 0) <= MaxOutput}

\* A defect to compare with: a new message replaces the ones that wait.
OutboxesReplaced(o) ==
  [c \in Conn |-> IF c \in o.messages \cap conns
                    THEN <<queued[c] + 1>> ELSE outbox[c]]

\* The messages of o join the outboxes before any connection is closed.
Outboxes(o) ==
  [c \in Conn |-> IF c \in o.messages \cap conns
                    THEN Append(outbox[c], queued[c] + 1) ELSE outbox[c]]

\* A defect to compare with: a timer set together with a cancellation of its
\* id is cancelled too.
TimersAddedFirst(o) == {t \in timers \cup o.add : t.id \notin o.cancel}

\* Cancellations apply before the new timers are added.
Timers(o) == {t \in timers : t.id \notin o.cancel} \cup o.add

ToldAfter ==
  [c \in Conn |->
     CASE c \in {r.conn : r \in ToSet(batch.closed)} -> "closed"
       [] c \in ToSet(batch.new) -> "open"
       [] OTHER -> told[c]]

\* A defect to compare with: the engine is not told of its own closes.
NothingDeferred(closing) == <<>>

\* The closes that the next batch will report.
Deferred(closing) == SetToSeq(closing)

\* One call of process_messages, and its output carried out: messages,
\* closes (torn down at once, reported with the next batch), timers.
Call(o) ==
  /\ pc = "engine"
  /\ News
  /\ output' = o
  /\ LET closing == o.close \cap conns
     IN  /\ conns' = conns \ closing
         /\ outbox' = Reset(Outboxes(o), closing, <<>>)
         /\ silence' = Reset(silence, closing, 0)
         /\ idle' = Reset(idle, closing, 0)
         /\ Teardown(closing)
         /\ pendingCloses' = Deferred(closing)
  /\ timers' = Timers(o)
  /\ queued' = [c \in Conn |-> IF c \in o.messages \cap conns
                                 THEN queued[c] + 1 ELSE queued[c]]
  /\ told' = ToldAfter
  /\ heard' = [c \in Conn |->
                 heard[c] + Cardinality({k \in DOMAIN batch.inbound :
                                           batch.inbound[k].conn = c})]
  /\ pc' = "polls"
  /\ todo' = conns'
  /\ UNCHANGED <<client, sending, sent, got, onDisk, sinceScan, sinceStart,
                 batch, greeted, jumps>>

Engine == \E o \in Outputs : Call(o)

\* A reader is on the FIFO.
PollerIsThere(c) == polling[c] = "waiting"

\* A defect to compare with: a poll without content is let wait.
AnsweredIfContent(c) == IF outbox[c] = <<>> THEN "waiting" ELSE "no"

\* Where the answer leaves the poll.
Answered(c) == IF outbox[c] = <<>> THEN "empty" ELSE "no"

\* A poll is answered with the whole outbox, which is taken before the
\* write; an answer, content or not, is a sign of life.
ServePoll(c) ==
  /\ pc = "polls" /\ c \in todo
  /\ PollerIsThere(c)
  /\ \/ /\ got' = [got EXCEPT ![c] = @ \o outbox[c]]
        /\ polling' = [polling EXCEPT ![c] = Answered(c)]
     \/ /\ PollersDie
        /\ polling' = [polling EXCEPT ![c] = "no"]
        /\ UNCHANGED got
  /\ outbox' = [outbox EXCEPT ![c] = <<>>]
  /\ silence' = [silence EXCEPT ![c] = 0]
  /\ idle' = [idle EXCEPT ![c] = 0]
  /\ todo' = todo \ {c}
  /\ UNCHANGED <<files, client, sending, sent, pc, onDisk, conns, sinceScan,
                 sinceStart, timers, pendingCloses, batch, output, engine,
                 greeted, jumps>>

\* No reader on the FIFO: nothing to answer.
PassBy(c) ==
  /\ pc = "polls" /\ c \in todo
  /\ ~ PollerIsThere(c)
  /\ todo' = todo \ {c}
  /\ UNCHANGED <<files, clients, pc, loop, history>>

\* The process is gone, and with it everything it held in memory; the new
\* engine of the next run has been told nothing.
Stop ==
  /\ pc' = "down"
  /\ todo' = {}
  /\ onDisk' = {}
  /\ Forget(conns)
  /\ sinceScan' = 0
  /\ sinceStart' = 0
  /\ timers' = {}
  /\ pendingCloses' = <<>>
  /\ batch' = EmptyBatch
  /\ output' = NoOutput
  /\ told' = [c \in Conn |-> "unseen"]
  /\ heard' = [c \in Conn |-> 0]
  /\ UNCHANGED <<client, sending, sent, got, queued, greeted, jumps>>

\* The ways out: the engine ordered it ...
Shutdown ==
  /\ pc = "polls" /\ todo = {}
  /\ output.shutdown
  /\ Teardown(conns)
  /\ Stop

\* A defect to compare with: only a run that never had a connection leaves.
IdleIfNeverUsed == conns = {} /\ sinceStart >= IdleExit /\ greeted = {}

IdleDue == conns = {} /\ sinceStart >= IdleExit

\* ... or there are no connections and the first minute is over.
IdleLeave ==
  /\ pc = "polls" /\ todo = {}
  /\ ~ output.shutdown
  /\ IdleDue
  /\ Stop
  /\ UNCHANGED <<files, polling>>

Sleep ==
  /\ pc = "polls" /\ todo = {}
  /\ ~ output.shutdown
  /\ ~ IdleDue
  /\ pc' = "top"
  /\ batch' = EmptyBatch
  /\ output' = NoOutput
  /\ UNCHANGED <<files, clients, todo, onDisk, conns, outbox, silence,
                 sinceScan, sinceStart, timers, pendingCloses, history>>

\* A crash leaves profiles and FIFOs behind; what the FIFOs held is lost
\* when their last end is closed.
Crash ==
  /\ Crashes
  /\ pc # "down"
  /\ Stop
  /\ c2s' = [c \in Conn |-> <<>>]
  /\ UNCHANGED <<profiles, fifos, polling>>

\* A new run takes over: it purges every profile it finds, and its first
\* iteration will scan (last_scan_ms is backdated).
Start ==
  /\ pc = "down"
  /\ profiles' = {}
  /\ sinceScan' = ScanInterval
  /\ pc' = "top"
  /\ UNCHANGED <<fifos, c2s, clients, todo, onDisk, conns, outbox, silence,
                 sinceStart, timers, pendingCloses, batch, output, engine,
                 greeted, idle, jumps>>

-----------------------------------------------------------------------------
(* The client CGI program: each request is a process of its own.           *)

\* The FIFO has a reader: the service holds its end open as long as the
\* connection is in its map.
Served(c) == c \in fifos /\ c \in conns

Connect(c) ==
  /\ client[c] = "new"
  /\ client' = [client EXCEPT ![c] = "connected"]
  /\ profiles' = profiles \cup {c}
  /\ UNCHANGED <<fifos, c2s, sending, sent, polling, got, pc, todo, loop,
                 history>>

\* A send has found the profile and read the pipe's name in it ...
SendStart(c) ==
  /\ ~ sending[c]
  /\ c \in Senders
  /\ c \in profiles
  /\ sent[c] < MaxSend
  /\ sending' = [sending EXCEPT ![c] = TRUE]
  /\ UNCHANGED <<files, client, sent, polling, got, pc, todo, loop, history>>

\* ... writes its frame once the FIFO has a reader ...
SendWrite(c) ==
  /\ sending[c]
  /\ Served(c)
  /\ Len(c2s[c]) < MaxFifo
  /\ sending' = [sending EXCEPT ![c] = FALSE]
  /\ sent' = [sent EXCEPT ![c] = @ + 1]
  /\ c2s' = [c2s EXCEPT ![c] = Append(@, sent[c] + 1)]
  /\ idle' = [idle EXCEPT ![c] = 0]
  /\ UNCHANGED <<profiles, fifos, client, polling, got, pc, todo, loop,
                 engine, greeted, jumps>>

\* ... or runs into its deadline.
SendFail(c) ==
  /\ sending[c]
  /\ ~ Served(c)
  /\ sending' = [sending EXCEPT ![c] = FALSE]
  /\ UNCHANGED <<files, client, sent, polling, got, pc, todo, loop, history>>

SetPolling(c, p) ==
  /\ polling' = [polling EXCEPT ![c] = p]
  /\ UNCHANGED <<client, sending, sent, got, pc, todo, loop>>

\* A poll has found the profile.
PollStart(c) ==
  /\ polling[c] = "no"
  /\ c \in profiles \cap Pollers
  /\ SetPolling(c, "seeking")
  /\ UNCHANGED <<files, history>>

\* The FIFO exists, and the poll blocks in its open.
PollOpen(c) ==
  /\ polling[c] = "seeking"
  /\ c \in fifos
  /\ SetPolling(c, "waiting")
  /\ UNCHANGED <<files, history>>

\* No FIFO before the deadline.
PollFail(c) ==
  /\ polling[c] = "seeking"
  /\ c \notin fifos
  /\ SetPolling(c, "no")
  /\ UNCHANGED <<files, history>>

\* An empty answer: ask again ...
PollAgain(c) ==
  /\ polling[c] = "empty"
  /\ SetPolling(c, "seeking")
  /\ UNCHANGED <<files, history>>

\* ... unless the wait is over, which ends with a heartbeat, if the FIFO
\* still has a reader.
PollEnd(c) ==
  /\ polling[c] = "empty"
  /\ SetPolling(c, "no")
  /\ \/ /\ Served(c)
        /\ Len(c2s[c]) < MaxFifo
        /\ c2s' = [c2s EXCEPT ![c] = Append(@, 0)]
        /\ idle' = [idle EXCEPT ![c] = 0]
     \/ /\ ~ Served(c)
        /\ UNCHANGED <<c2s, idle>>
  /\ UNCHANGED <<profiles, fifos, engine, greeted, jumps>>

Close(c) ==
  /\ c \in profiles
  /\ profiles' = profiles \ {c}
  /\ client' = [client EXCEPT ![c] = "closed"]
  /\ UNCHANGED <<fifos, c2s, sending, sent, polling, got, pc, todo, loop,
                 history>>

-----------------------------------------------------------------------------
Iterate ==
  \/ Forward \/ Backward
  \/ Gone \/ Sweep \/ Quiet \/ Engine \/ Shutdown \/ IdleLeave \/ Sleep
  \/ \E c \in Conn : Adopt(c) \/ Skip(c) \/ Drain(c) \/ ServePoll(c)
                       \/ PassBy(c)

Request(c) ==
  \/ Connect(c) \/ Close(c)
  \/ SendStart(c) \/ SendWrite(c) \/ SendFail(c)
  \/ PollStart(c) \/ PollOpen(c) \/ PollFail(c) \/ PollAgain(c) \/ PollEnd(c)

Next == Iterate \/ Crash \/ Start \/ \E c \in Conn : Request(c)

Spec == Init /\ [][Next]_vars

\* The loop keeps running: nothing in it waits for a client.
FairSpec == Spec /\ WF_vars(Iterate)

-----------------------------------------------------------------------------
Batches ==
  [new : Seq(Conn),
   closed : Seq([conn : Conn,
                 reason : {"client_disconnected", "server_idle_timeout",
                           "engine_requested"}]),
   inbound : Seq([conn : Conn, n : 1 .. MaxSend]),
   fired : Seq([id : TimerId, rem : Int])]

TypeOK ==
  /\ profiles \subseteq Conn /\ fifos \subseteq Conn
  /\ c2s \in [Conn -> Seq(0 .. MaxSend)]
  /\ client \in [Conn -> {"new", "connected", "closed"}]
  /\ sending \in [Conn -> BOOLEAN]
  /\ sent \in [Conn -> 0 .. MaxSend]
  /\ polling \in [Conn -> {"no", "seeking", "waiting", "empty", "orphaned"}]
  /\ got \in [Conn -> Seq(1 .. MaxQueue)]
  /\ pc \in {"down", "top", "scan", "drain", "engine", "polls"}
  /\ todo \subseteq Conn /\ onDisk \subseteq Conn /\ conns \subseteq Conn
  /\ outbox \in [Conn -> Seq(1 .. MaxQueue)]
  /\ silence \in [Conn -> Nat]
  /\ sinceScan \in Nat
  /\ sinceStart \in 0 .. AgeCap
  /\ timers \subseteq [id : TimerId, rem : Int]
  /\ pendingCloses \in Seq(Conn)
  /\ batch \in Batches
  /\ output \in [messages : SUBSET Conn, close : SUBSET Conn,
                 cancel : SUBSET TimerId,
                 add : SUBSET [id : TimerId, rem : Delay], shutdown : BOOLEAN]
  /\ told \in [Conn -> {"unseen", "open", "closed"}]
  /\ heard \in [Conn -> 0 .. MaxSend]
  /\ queued \in [Conn -> 0 .. MaxQueue]
  /\ greeted \subseteq Conn
  /\ idle \in [Conn -> 0 .. Inactivity]
  /\ jumps \in 0 .. MaxJumps

\* The loop keeps the engine's contract.  The engine sees a batch only while
\* it is called; an expired timer counts as armed until it is handed over,
\* and a close the engine ordered as owed until it is reported.
EngineRequested ==
  {r.conn : r \in {s \in ToSet(batch.closed) : s.reason = "engine_requested"}}

Contract == INSTANCE EngineContract WITH
  batch <- IF pc = "polls" THEN batch ELSE EmptyBatch,
  armed <- IF pc = "engine" THEN timers \cup ToSet(batch.fired) ELSE timers,
  owed <- ToSet(pendingCloses) \cup
            (IF pc \in {"scan", "drain", "engine"} THEN EngineRequested
             ELSE {}),
  Elapsed <- {0} \cup Step \cup {0 - d : d \in Jump}

\* run_loop, whatever the clients do and whenever it dies, shows the engine
\* exactly the events its contract promises (EngineContract).
KeepsContract == Contract!Spec

\* While a connection lives, what its polls returned and what its outbox
\* holds are together everything the engine sent to it, in order and once
\* (the engine step and try_serve_poll share the outbox).  This supposes
\* that no poll process dies while it is answered.
OutboundExact ==
  \A c \in conns : got[c] \o outbox[c] = [k \in 1 .. queued[c] |-> k]

\* Only a client that gave no sign of life for the whole inactivity period
\* is disconnected for it: no send, heartbeat or answered poll was missed,
\* whichever came last and however the clock jumped.  (A frame that arrives
\* between the draining and the sweep of one iteration is still missed.)
CutOnlyTheSilent ==
  [][\A c \in Conn :
       [conn |-> c, reason |-> "server_idle_timeout"]
           \in ToSet(batch'.closed) \ ToSet(batch.closed)
         => idle[c] >= Inactivity \/ c2s[c] # <<>>]_vars

\* A connection whose end the engine was told of has left nothing in the
\* file system that a later scan could take for a new connection.
ClosedLeavesNothing ==
  \A c \in Conn : told[c] = "closed" => c \notin profiles \cup fifos \cup conns

\* A message that was accepted into a served FIFO reaches the engine, unless
\* the connection ends first.
MessagesReachTheEngine ==
  \A c \in Conn : \A n \in 1 .. MaxSend :
    sent[c] = n /\ c \in conns ~> heard[c] >= n \/ c \notin conns

\* While the service runs, every profile is found by a scan and announced to
\* the engine, unless it is deleted first.
ProfilesAreGreeted ==
  \A c \in Conn :
    c \in profiles /\ pc # "down"
      ~> told[c] # "unseen" \/ c \notin profiles \/ pc = "down"

\* A poll that waits on a served connection is answered, with or without
\* content.
PollsAreAnswered ==
  \A c \in Conn :
    polling[c] = "waiting" /\ c \in conns
      ~> polling[c] # "waiting" \/ c \notin conns

\* The end of a connection, whoever brought it about, is reported to the
\* engine, unless the run ends first.
ClosesAreReported ==
  \A c \in Conn :
    told[c] = "open" /\ (c \notin profiles \/ c \notin conns)
      ~> told[c] # "open"

\* A service without connections does not linger.
NoneLinger == conns = {} /\ profiles = {} ~> profiles # {} \/ pc = "down"

-----------------------------------------------------------------------------
(* What comments of the code say, and the code does not do.                *)

\* lib.rs on close_connections: messages queued for a connection in the same
\* batch are still delivered with the close - if a poll is waiting for them.
CloseDeliversItsBatch ==
  [][\A c \in conns :
       pc = "engine" /\ polling[c] = "waiting"
         /\ c \in output'.messages \cap output'.close
         => queued'[c] \in ToSet(got'[c])]_vars

\* runtime.rs: every closed connection is reported to the engine's next call.
\* A run that leaves because it has no connections has made every report.
IdleLeavesNothingUnreported ==
  [][pc # "down" /\ pc' = "down" /\ ~ output.shutdown
       => pendingCloses = <<>>]_vars

\* pipes.rs: clients block with deadlines.  A poll blocked in the open of a
\* FIFO that has been unlinked has none.
PollsHaveDeadlines == \A c \in Conn : polling[c] # "orphaned"
=============================================================================
