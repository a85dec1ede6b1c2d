# Verification of stadhouder

stadhouder is a library for small stateful web services on hosts that only
offer cron and CGI. An application's service process is started by cron every
minute; the process that is *live* holds the application's state (the
*engine*) and serves clients through files and named pipes, while each HTTP
request is a short-lived CGI process. There are no locks: processes coordinate
through a flag file, profile files and FIFOs, and every promise the library
makes rests on the order of file operations and on timing. That is what this
project models.

Paths below are relative to `src/`; `runtime.rs`, `lib.rs` are in
`rust/backend/service/src/`, `client.rs` in `rust/backend/api/src/bin/`,
`pipes.rs`, `state.rs`, `time.rs`, `config.rs` in `rust/backend/common/src/`.

## Inventory

| Component | State | Operations | Correct when |
|---|---|---|---|
| singleton check (`runtime.rs:146-205`, `state.rs:51-102`) | `state/service_flag` (stamp, memory percentage); per process `started_ms`, `flag_updated_ms` | read and judge the flag, claim it, refresh it every 20 s, remove it on the way out, die | one process is live at a time; a dead one blocks nobody for long |
| main loop (`runtime.rs:134-455`) | connection map with outboxes and last signs of life, timers, deferred closes, last scan | per iteration: read the clock, scan profiles, drain FIFOs, cut silent clients, expire timers, call the engine and carry out its output, answer polls, leave or sleep | the engine sees each connection and timer as promised; clients that keep talking are kept |
| engine contract (`lib.rs`) | the engine's own | `init`, `process_messages`, `shutdown` | see `EngineContract` |
| client CGI (`client.rs`) | none; one process per request | status, connect, send, poll, close | a request ends; what was acknowledged happens |
| pipes (`pipes.rs`) | a pair of FIFOs per connection, the server's partial-frame buffer | create, remove, drain, serve a poll, send, receive | frames arrive whole and in order; waits end |
| state files (`state.rs`) | flag, profiles, `last_run`, simulated-time files | whole-file reads and writes, profile save by rename | a reader never sees half a file |
| time (`time.rs`) | none (reads the simulated-time files) | current engine time, scaled waits | intervals survive jumps |
| configuration (`config.rs`) | `cfg/stadhouder.conf`, edited at any time | load and check it: once per service run, once per request | nothing invalid gets through |
| cookie, identity, request, handler | none | decide one connect, wrap one answer | only who is entitled connects; a failure shows in the answer |
| cron, cron-sim (`tools/cron-sim`) | none | launch a process every minute | |
| development HTTP server (`tools/cgi-fileserver`) | none; one task per request | find the script, run it, feed it the body, parse its output | nothing waits for good; body and answer arrive whole |
| test-app, layout, scripts | test engine; path names; build and test aids | `system-test.sh` rewrites the files of simulated time | |

The parts meet only in the file system and in the clock. The live process is
single-threaded; everything else is concurrent with it: other service
processes that cron starts (which read the flag, and claim it), and any number
of CGI processes. The hard behaviours are therefore (1) two processes around
one flag file, with stalls and crashes; (2) client requests that fall between
two phases of an iteration; (3) the end of a connection, which the client, the
inactivity timer and the engine can each bring about, possibly at once; (4) the
end of a run with work left over, and the start of the next one; (5) blocking
FIFO operations; (6) clock readings that go stale or back, and ones put
together from files that change meanwhile; (7) a connect whose checks are over
long before its profile is there; (8) three pipes between an HTTP server and a
CGI child, each of which can fill up. `PROJECT.json` lists
them one by one under `hazards`.

## Modules

- `Singleton` - the flag protocol, any number of processes (slots are reused).
- `MCSingleton` - its TLC instance.
- `Config`, `Identity` - pure: what the program makes of a configuration file,
  of a Cookie header and of the identity endpoint's answer.
- `ConnectGate` - composes `Singleton` with the memory measurements, the purge
  and the scans of the service and with connect requests. `MCConnectGate` - its
  TLC instance. `GateProofs` - the theorems of both.
- `SimClock` - simulated time: its three files, who reads and who rewrites
  them. `MCSimClock` - its TLC instance. `ClockProofs` - its theorems.
- `CgiServer` - one request to the development HTTP server and its CGI child.
  `MCCgiServer` - its TLC instance. `CgiProofs` - its theorems.
- `EngineContract` - abstract: what the engine is promised.
- `ServiceLoop` - detailed: runs of the service one after another, and the
  client processes; shown to implement `EngineContract`.
- `MCServiceLoop` - its TLC instance. `LoopProofs` - its theorems, the
  refinement among them.
- `Frames` - the framing of texts as bytes, pure. `FrameProofs` - its theorems.
- `Fifo` - what the kernel does with a write to a FIFO.
- `InboundPipe` - a connection's client-to-server FIFO byte by byte, any number
  of senders. `MCInboundPipe` - its TLC instance. `InboundProofs` - its
  theorems.
- `OutboundPipe` - a connection's server-to-client FIFO byte by byte, any number
  of polls. `MCOutboundPipe` - its TLC instance. `OutboundProofs` - its
  theorems.
- `ListFacts` - lemmas about numbers, sets and sequences that several of the
  proofs rest on.

`ServiceLoop` uses the pipes at the granularity of whole frames and whole
polls; `InboundPipe` and `OutboundPipe` say when that is justified (no send dies
in the middle of a frame or overlaps another one; no poll is answered twice) and
what happens when it is not.

Each module keeps, next to an operator, defective variants of it ("a defect to
compare with"). They are used nowhere; putting one in the place of the operator
must make TLC refute the property that is about it. `PROJECT.json` pairs them
under `mutants`.

### Singleton

A process walks through `pc`: `launched` (before `started_ms` is read), `check`
(before the flag is read), `claim`, `write` (the file truncated by `fs::write`
but not yet written), then live: `loop`, `refresh`, `rewrite`, `body`. `clock`
is its last reading of the clock, `stamped` is `flag_updated_ms`. `Fresh` is
the test of `runtime.rs:150-152`, including that a flag newer than the reader's
clock reading is *not* fresh, and that an empty file is no flag. `Leave` stands
for both ways out (their conditions are in `ServiceLoop`), `Crash` can strike
anywhere and leaves the flag, torn or not.

Time is absolute. Between two steps of one process at most `Lag` units pass
(`Tick` waits), and cron fires exactly every `CronPeriod`. `Lag` stands for
everything that can hold up a process: scheduling, a slow engine call, a
blocking write into a FIFO. `TimingAssumption` says what the real numbers
satisfy as long as no step takes longer than 15 s: a start is over before the
next one (`CronPeriod > 4 Lag`), and a flag refreshed every `Update` stays
fresh (`Stale >= Update + 5 Lag`). With `CronPeriod` 60 s, `Update` 20 s and
`Stale` 120 s this leaves room for `Lag` just under 15 s. (The clamp of
`flag_updated_ms` against a clock that went back is vacuous here.)

`Races` says which interference between a start and a refresh may happen.
Without any, mutual exclusion holds and is proved. With `torn` (a read inside a
truncate-and-write) or `newer` (a refresh between a start's clock reading and
its reading of the flag) it fails, and nothing in the code excludes either; the
first is a run of its own.

### ConnectGate, Config and Identity

The processes and the flag are `Singleton`'s: `ConnectGate` extends it, and each
of its service steps is a step of `Singleton` with more detail (`GateTakeOver`
is `TakeOver` with a measurement in the flag) or leaves its variables alone
(`Purge`, `Scan`, `Disconnect`). `limit`, `measured` and `lastScan` are the
process's `memory_limit_bytes`, `current_memory_pct` and `last_scan_ms`. What
becomes of a connection once it is served is `ServiceLoop`'s matter: here one
scan takes up all profiles, and `Disconnect` ends any of them.

A request (`at`) is `new`, `checking` (before the flag is read), `asking`
(the identity endpoint), `admitted`, `saving` (the temporary file is written,
the rename not done), and then `connected`, `refused` (for want of memory) or
`over`; it can `Die` anywhere. The configuration is loaded at the start of a
service run and of a request, and each load may see another file (`Loads`).
`FromStr` is the whole of `Config::from_str`: the last line with a key counts,
blank is unset except for `TEST_ENV`, the numbers are positive, and the product
of the limit wraps (`Bytes`, with `Mega` and `Modulus` scaled down). A limit
that wraps to no bytes makes the percentage infinite; the flag then carries
`null`, which `read_service_flag` cannot parse (`Readable`): a start ends with
an error (`GateCrash`), a connect too. A request that loads a configuration
works with it to the end, whatever happens to the file.

`since`, `clean` and `downSince` are history variables: since when a profile
waits, whether the last live process removed its flag, since when none is live.

### SimClock

`now_millis` is `NowMillis` (the calendar) and, per file, `Look` (`exists`) and
`Read` (`read_to_string` and the parsing); `wait_factor` reads one file only,
and the sleep scaled by it ends with `Wake`. `Order` is the order in which the
arguments of `simtime` are evaluated. The harness runs the commands of
`system-test.sh:130-158` one file operation at a time: a redirection truncates
before it writes (`Redirect`), `date` runs after the truncation (`Now`).
A file's contents are absent, empty, no number, or a number; a factor is a
fraction, and the cut of a float to an integer is a division that drops the
remainder on either side of zero (floats are exact in this model).

`crossed` (the scripts that wrote during a reading) and `shown` (what the clock
showed meanwhile) are history variables, and `latest` is the highest reading
since the files last changed. The assumptions are that the calendar starts
within its bounds and that the rates are fractions, or numbers the reader
refuses.

### CgiServer

`CgiHandler` finds the script and starts it; `Write` is the task that feeds it
the body, `Collect` is `wait_with_output`, `Respond` the parser. The child is
any program: a `plan` of reads and writes, among them the client program, whose
output is `JsonHandler`'s. Pipes hold `Capacity`; all three can be full at
once. `Disconnect` drops the handler when the client hangs up: the child and
the writer task live on, the child's outputs have no reader any more. A child
may end at any time (`ChildExits`). The constants say what paths are made of
and what lines scripts write (`PathAssumption`, `LineAssumption`,
`PlanAssumption`), so that the theorems are about any of them. `Written` is what
a script has written after so many operations, and `HeadLength` where its header
ends: at the first empty line but for one in front of all others, which the
parser skips.

### ServiceLoop

All durations in `run_loop` are compared with differences of clock readings, so
the model keeps the differences: `sinceScan`, `sinceStart`, `silence[c]`, a
timer's `rem`. They change only in `Top`, where the loop reads the clock, by a
step forward (`Step`) or, for simulated time, backward (`Jump`) with the clamps
of `runtime.rs:186-199`. Time thus needs no bound, and the runs with fairness
have finitely many states.

One iteration is `Top`, then `Adopt`/`Skip` per listed profile and `Gone`,
`Drain` per connection, `Sweep` (inactivity and timers), `Call` or `Quiet`,
`ServePoll`/`PassBy` per connection, and `Shutdown`, `IdleLeave` or `Sleep`.
Client steps come in between anywhere. The scan works from its listing
(`onDisk`), as the code does. The engine is any engine: `Call` chooses an
output among all that `MaxOutput` admits, including closes and cancellations of
things that do not exist. The message ids make loss, duplication and reordering
visible; heartbeats are the frame 0, and `Texts` leaves them out. Lists whose
order the code leaves to a hash map (expired timers, closed connections) are in
any order.

A connection's profile (`profiles`), FIFOs (`fifos`), map entry (`conns`) and
what the engine was told (`told`) are four different things, and most of what
can go wrong is that they disagree. A poll is `seeking` (waiting for the FIFO
to exist), `waiting` (blocked in its open), `empty` (answered with nothing, and
about to ask again or to send the heartbeat) or `orphaned`: blocked in the open
of a FIFO that has been unlinked.

`KeepsContract` is the refinement: the contract's `batch` is the loop's batch
from the call until the iteration's end, `armed` is `timers` plus the expired
ones not yet handed over, `owed` is `pendingCloses` plus the engine's closes in
the batch under construction. `told` and `heard` are history variables.

Abstracted: `memory_pct` and user ids (see `ConnectGate`) and payloads;
profile contents; the order of a HashMap's elements (some order). Left out:
failing file operations and frames that are not JSON. The purge at a start is one
step. Everything on Unix; the Windows pipes are not modelled.

### The pipes

`Frames` has both readers of `pipes.rs` (`extract_frames`, `read_frame`) share
their view of a buffer's front: `HasHeader`, `Whole`, `Body`, `Behind`, and
`Bad` for the two errors (length over the limit, not UTF-8). Lengths are four
bytes as in the code; UTF-8 is cut down to characters of one and two bytes, and
a length of 2^25 and more counts as 2^25, both of which leave every decision of
the code as it is for the texts of the instances. `Extract` is the whole of
`extract_frames`: the frames and what is left, a bad front included.

`Fifo` states what the models suppose of the kernel (pipe(7), fifo(7)): a write
of up to `PIPE_BUF` bytes goes in at once and waits for room, a longer one goes
in pieces of any size; a FIFO that nobody has open loses its bytes; an open for
reading returns when there is a writer, one for writing without blocking fails
when there is no reader; a read that finds no byte and no writer is the end of
the file, a write that finds no reader is `EPIPE`.

`InboundPipe`: `client_send` is `SendOpen` (and the check of the length),
`SendHeader` and `SendText`, the two `write_all` of `write_frame`; `SendDie`
ends it anywhere. `Drain` is one `drain_frames`. The history variable `torn`
says that a frame was cut short or met another one's.

`OutboundPipe`: `ServeOpen` (the open and `provide`), `ServeHeader`,
`ServeText`, `ServeClose` and `ServeBroken` (`EPIPE`) are `try_serve_poll`; the
engine adds to the outbox (`Queue`) only between two of them, because the
service has one thread. `client_receive` is `PollOpen`, `PollRead`, `PollEof`
and `PollLeave`; a poll that is `answered` or `failed` still has the FIFO open
until `PollLeave`. `PollDie` ends it anywhere. The history variable `causes`
collects the reasons for which a message may be lost.

## Runs

| Run | Instance | Shows |
|---|---|---|
| `gate` | 2 slots, `Lag` 1, `CronPeriod` 5, `Update` 2, `Stale` 7 (both inequalities tight), time to 24; 1 request, 3 configuration files | `AtMostOneLive`, `FlagIsTheLiveOnes`, `OutageBounded` of the flag; `RefusalIsJustified`, `ProfilesAreTakenUpSoon`, `ProfilesAreEarned` of connect |
| `singleton_torn` | the race `torn` allowed, time to 20 | `AtMostOneLive` fails (finding) |
| `loop` | 1 connection, 1 timer id with two expiries, a backward jump | `KeepsContract`, `OutboundExact`, `ClosedLeavesNothing`, `CutOnlyTheSilent` |
| `loop_live` | 2 connections, one sends and polls and so keeps the run alive, poll processes may die, no crashes, fairness | `KeepsContract` across connections; five leads-to properties |
| `loop_close`, `loop_report`, `loop_poll` | 1 connection | what three comments promise and the code does not do (findings) |
| `inbound` | 4 senders: a text at the limit, one that is a single two-byte character, one over the limit, one of a byte | `InboundExact`, `BadFrontSilences` |
| `outbound` | 2 polls at a time, 3 messages | `OutboundExact`, `AnswersInOrder` |
| `outbound_twice` | the same | `OnePollOneFrame` fails (finding) |
| `simclock` | 2 programs, calendar 10 to 12, two scripts out of a travel, a return, an acceleration to 5/2, one to an invalid factor, a rest; production as well | `ReadingsAreSnapshots`, `ClockKeepsRunning`, `RewritesNeverFail`, `WaitsAreEngineTime` |
| `cgi` | bodies of 0 and 3 units, pipes of 2, the client program and eight scripts, two trees, two paths | `EverythingEnds`, `BodiesArriveWhole`, `AnswersAreExact`, `FailuresShowInTheBody`, `ResolutionIsFaithful` |

Bounds. Time 24 allows four launches and a full outage (at most 16) after the
first of them; two slots suffice because at most one process starts while one
is live (a third would stay unused without races: with it and the time to 40,
`Singleton` alone has exactly as many states up to symmetry). What the theorems
say needs no bound. One request meets every order of its steps and those of the
processes; a second would share nothing with it but the scan. Of the three
files one sets everything, with a limit that depends on which of two lines
counts, one has a limit that wraps to 0 bytes, one must not load; the endpoint
gives an id, an empty one, a number, another object, or no answer. Two scripts are
what a reading of three files can be torn by, and the fraction 5/2 at calendar
times 10 to 12 has readings with and without a remainder. Three units of body
fill a pipe of two, and so does each script on the output it is about.

In the loop runs the
intervals keep their order (scan < idle exit < inactivity) at a few iterations
each, so that every phase is reached with and without a scan and each timer
runs out both before and after the others. One message in and two out per
connection are enough for loss, duplication and reordering between FIFO, outbox
and batch; one timer id with two expiries has duplicate ids, cancellation and
replacement; an output of two items has every pair whose order matters (message
and close, cancel and set). Connections are never reused, so a run has finitely
many, but service runs and crashes are unbounded.

The pipes are scaled down: frames of at most 5 bytes, `PipeBuf` 4 (the length
is always written at once, as it is in reality, and longer texts in pieces),
FIFOs of 9 and of 5 bytes, so that one frame fills the first and a frame with
its header does not fit the second. Three messages make an answer of one fit,
one of two exactly reach the limit, and one of three exceed it.

Deadlock is checked in all of them but one: none of these systems may get
stuck. (A FIFO that is full stays so only until the next `Drain`, or until a
poll reads or leaves.) `simclock` ends where its calendar does: a sleeper that
would wake later stays asleep.

Fairness. `FairSpec` is weak fairness of the service's iteration alone: the
process is single-threaded and its phases do not block, so as long as it lives
it goes on. (One exception: an answer that is larger than the room in the FIFO
is held up by a poll that neither reads nor dies; the liveness properties
suppose that there is none.) Clients get no fairness, and neither do crashes or starts; the
liveness properties say what happens *unless the run ends*.

`CgiServer` has weak fairness of the handler, of the writer task (the runtime
schedules both, and neither blocks a thread) and of the child's operations: a
script goes on as long as a pipe does not stop it, and ends when it is through
or writes to nobody (`ChildEnds`). A script that hangs by itself is excluded;
the server has no time limit for it.

## Findings

1. `singleton_torn` - a start that reads the flag while it is being rewritten
   in place takes over beside the live process.
2. `loop_close` - messages of an output that also closes the connection are
   discarded, even with a poll waiting; `lib.rs` says they are delivered.
3. `loop_report` - if the engine closes the last connection after the first 56
   seconds, the run leaves in that same iteration and never reports the close.
4. `loop_poll` - a poll blocked in the open of a removed FIFO has no deadline.
5. `outbound_twice` - a poll that has its answer and has not closed the FIFO yet
   is answered again, and the second frame is lost with all its messages.

Also noticed, without a run: a start that read its clock just before a refresh
takes over, too, because a flag from the reader's future counts as stale
(`Races = {"newer"}` in `SingletonTorn.cfg` shows it); a poll that opens the
FIFO between the service's last write and its close fails with the end of the
file (drop `causes = {}` from `OnePollOneFrame`); `pipes.rs:13-15` says the server types never
block, but `try_serve_poll` writes blocking, and stays in `ServeText` as long
as a poll does not read; frames that are complete in front of a bad one are lost
when one draining finds both; the repository README has the scan "at least once
a second" where `SCAN_INTERVAL_MS` is four seconds; `state.rs:62-64` has connect
refuse at 100.0 where `client.rs:113` uses `memory_reject_pct`.

Of connect and the flag: the purge at a start takes every profile, also those
written while no service ran, where `runtime.rs:164-165` speaks of a previous
run's; their clients hold a connection id whose next request fails.
`config.rs:40-42` says that without a limit connect never refuses for memory,
but `client.rs:112-116` asks the flag first, which a process with a limit may
have left. A connect that reads the flag inside its rewrite sees an empty file
and gets in although the service is full. A limit of a multiple of 2^44 MB
wraps to 0 bytes (a debug build panics instead): the flag then holds `null`,
and every start and every connect fails until the file is removed or its writer
leaves. `OutageBounded` does not show that, because it counts from the last end
of any process, and each of those starts ends with an error. The temporary
files of requests that died in a save stay for good.

Of simulated time: a change of the factor is two files, and a reading that
falls between them (the old anchor with the new factor) shows a time that never
was; with an anchor of 0 it is the calendar times the factor
(`ReadingsAreSnapshots` excepts it, and fails without the exception). A file
that is removed between `exists` and the reading makes the reading fail, which
ends a service (`RewritesNeverFail` excepts the removals).

Of the development server: `main.rs:250-251` promises a 500 for malformed
output, "never patched up", but a status that is no number or no status code
counts as 200, a block of no headers is accepted, and a header name HTTP does
not have panics the handler, so that there is no answer at all. A script with
LF line ends whose body has an empty line in CRLF has its headers end there
(`AnswersAreExact` is about scripts that end all lines alike). An empty line in
front of the header is skipped if another one follows somewhere: what a script
meant as the beginning of its body is then read as its header (the proof of
`AnswersAreExact` found it, and one of the scripts of `cgi` does it).

## Proofs

Every invariant and every action property of the passing runs is also a
theorem, about every value of the constants that satisfies the modules'
assumptions (`TimingAssumption`, `RacesAssumption`, `GateAssumption`, `WidthAssumption`,
`DurationAssumption`, `FifoAssumption`, `MaxFrameAssumption`, `TextAssumption`,
`QueueAssumption`, `BoundsAssumption`, `RateAssumption`, `CapacityAssumption`,
`PathAssumption`, `LineAssumption`, `PlanAssumption`); TLC evaluates these on
the instances. Hypotheses of single theorems are named below. The bounds that
keep TLC's state spaces finite (`MaxNow`, `MaxSend`, `MaxCal`) are constants
too: the theorems hold for each value of them.

### The flag protocol: GateProofs

Of `Singleton`, for every set of slots and all times that satisfy
`TimingAssumption`:

- `TypeCorrect`: `TypeOK`.
- `OutagesAreBounded`: `OutageBounded`, whatever the races. The argument:
  starts do not overlap (`Starting`, from `Due`: nobody is overdue), every
  stamp is at most `downSince`, and the first launch at or after
  `downSince + Stale` finds nothing fresh and cannot be refused (`Outage`).
- `MutualExclusion`: `AtMostOneLive`, if `Races = {}`. The inductive invariant
  adds `Age` (how old the live process's stamp can be in each phase),
  `ReaderBehind` (a process about to read the flag read its clock after the one
  the flag will carry), `FlagIsTheLiveOnes` and `Exclusive` (one process owns
  the flag, counting those that claim it). None is inductive alone:
  `Exclusive` is preserved by `Claim` because a live process's stamp would have
  been fresh (`ClaimIsAlone`), which needs the age, the reader's clock and the
  flag's contents; and the flag's contents stay because only one process owns
  it.
- `FlagSpeaksForTheLiveOne`: `FlagIsTheLiveOnes`, if `Races = {}`.

Of `ConnectGate`, for any number of processes and requests,
any configuration files whose numbers are natural, any headers and answers:

- `GateKeepsProtocol`: `GateSpec => Spec`. Each step of the gate is one of
  `Singleton` or leaves its variables alone (`GateStep`), so the theorems above
  hold of the composition.
- `GateTypeCorrect`: `GateTypeOK`, together with the types of what a request
  knows (`Shape`); `Loaded` says what every valid configuration has.
- `ProfilesAreAlwaysEarned`: `ProfilesAreEarned`. The invariant `Earned` says
  what a request has shown at each point of its way, and rests on `VerifiedIds`.
- `RefusalsAreJustified`: `RefusalIsJustified`, if `Races = {}`. `Records` ties
  the flag to the live process's measurement and to `clean`; it is preserved
  because only one process owns the flag, before a step and after it. A full
  flag is then true of the live process, whose stamp is recent
  (`StampIsRecent`), or nobody is live, and `OutagesAreBounded` says for how
  long.
- `ProfilesAreSoonTakenUp`: `ProfilesAreTakenUpSoon`, if `Races = {}`. `Waits`
  bounds how long a profile has waited at each clock reading: it was saved after
  the last scan, and an iteration that does not scan ends before the next one is
  due.

### The framing: FrameProofs, ListFacts

For every `MaxFrame` up to 2^24 and for texts of any length:

- `FrameIsFound`: a frame at the front of a buffer is found whole, with its text
  and with what follows untouched.
- `PieceIsAwaited`: a proper prefix of a frame is neither taken nor refused.
- `ExtractMore`: the frames of `b \o c` are those of `b`, and then those of what
  `b` leaves with `c` behind it, for any bytes. So it does not matter where the
  drains cut the stream.

The first two rest on the arithmetic of the four length bytes (`FourBytes`,
`HeaderTellsLength`) and on where the bytes of a concatenation are
(`FrameBytes`, `FrameLayout`). `ExtractMore` is an induction on the length of
the buffer. The library states induction about an operator, with which the
installed provers cannot instantiate it, so `ListFacts` proves it again about a
set (`SetInduction`, `StrongInduction`; `Least` and `Largest` follow), and that
functions which build up from 0 exist (`Recursion`). With them `StagedExists`
and `StagedUnique` show that `Extract` is what its recursive definition says,
and `ExtractUnfolds` is the equation that the induction uses.

### The main loop: LoopProofs

For any connections and timers, any durations, any jumps of the clock and any
bounds:

- `TypeCorrect`: `TypeOK`. That no message has a number beyond those that were
  sent needs the whole inductive invariant.
- `EndsLeaveNothing`: `ClosedLeavesNothing`.
- `PollsReturnEverything`: `OutboundExact`, if no poll process dies
  (`~ PollersDie`); with one that does, an answer can be lost.
- `CutsAreDeserved`: `CutOnlyTheSilent`.
- `Refinement`: `KeepsContract`, the loop implements `EngineContract`.

The inductive invariant `Inv` has these parts:

| Part | Says |
|---|---|
| `TypeOK`, `Finite`, `SendsAreBounded` | types; the sets that the loop lists are finite |
| `Idle`, `Down`, `Phases`, `Fresh`, `Empty` | what is still, or already, empty in which phase; what is left to do in it; who was never connected has nothing |
| `EndedLeaveNothing` | who has ended (`Ended`) has no profile, FIFO or entry in the map: an end waits in `pendingCloses`, then in the batch, before the engine is told, so `ClosedLeavesNothing` alone is not inductive |
| `Told` | a batch reports each connection's beginning and end at most once, of connections that can have one |
| `Numbered`, `InTransit` | what of a connection the engine has heard, what the batch has, what the FIFO holds and what is being sent are consecutive numbers |
| `Armed` | a timer is armed, fired or neither |
| `Quiets` | a silence the loop measures is not longer than the client's own, unless a frame waits in the FIFO or the client has been silent for the whole period |

The refinement shows for each step which one of the contract it is: one the
engine does not see (`NotSeen`), the passing of engine time (`EngineTimePasses`),
the end of a run (`RunEnds`), or the call of the engine (`EngineCalled`). The
contract has no phases, so the mapping shows it the batch only when it is complete
(`Shown`), counts a fired timer as armed until the call (`Pending`), and has a
deferred close as owed until it is reported (`Owing`). `EngineCalled` is where
`Told`, `InTransit`, `Armed` and the phases come together.

### The pipes: InboundProofs, OutboundProofs

For any processes, frame limit, `PIPE_BUF` and capacity:

- `InboundProofs`: `TypeCorrect`; `DeliversExactly` (`InboundExact`), from
  `Delivery`: a frame that is being written is there in part, and what its writer
  has left completes it. A write of one piece is then `ExtractMore`;
  `BadFrontIsForGood` (`BadFrontSilences`), which needs no more than the types.
- `OutboundProofs`, for up to nine messages, as an answer writes each as one
  digit (`QueueAssumption` says so): `TypeCorrect`, from `Base`, with `Known` (the
  bytes under way are of messages sent) and `Polls` (what each poll holds);
  `AnswersComeInOrder` (`AnswersInOrder`), from `InLine`: the messages answered are
  below those that a poll has read, these below those in the FIFO, these below
  those unserved and these below the outbox. It speaks of digits among the bytes
  and not of frames, so it holds of the torn rest of one as well, unless two polls
  met; `DeliversExactly` (`OutboundExact`), from `Exact`: as long as nothing of
  `causes` has happened either nothing is under way (`Quiet`) or one poll's frame
  is (`Carrying`), in part read, in part in the FIFO, in part unserved.

### The clock: ClockProofs

For any readers, rates, shifts, waits and calendars:

- `TypeCorrect`: `TypeOK`.
- `WaitsScale`: `WaitsAreEngineTime`. `WaitAdvances` is the arithmetic, with both
  truncations.
- `ReadingsHold`: `ReadingsAreSnapshots`. Each reader keeps `Fine`: what it has
  read is what the files held (`Steady`), or what crossed it says how they differ
  (`Crossings`, `Undisturbed`), and if the files rest from now on its result will
  be one that the clock has shown since it began (`Snapshot`). This rests on the
  order of things: the difference is read last, and a return to the calendar's
  rate removes the factor before the anchor.
- `ClockNeverGoesBack`: `ClockKeepsRunning`, for any factor. No reading that
  ended is above what the clock showed by then (`Past`, `Floor`), and a clock
  whose files rest grows (`SimtimeGrows`, truncation across zero included).
- `RewritesDoNotFail`: `RewritesNeverFail`.

### The development server: CgiProofs

For any paths, trees, sizes of bodies, scripts and capacities. The invariant is
`Base` (types, and what is over in which phase), `Fed` (what is left to write,
in the pipe and read makes up the body, and a closed input is a finished one
while the child runs), `Told` (what was read of the child's output and what is
in the pipe are what its script has written so far), `Answered` and `Resolved`.

- `TypeCorrect`: `TypeOK`. The status comes from a fold over the header block,
  whose value is always one that HTTP has (`StatusIs`).
- `BodyIsWhole`: `BodiesArriveWhole`.
- `ScriptIsFound`: `ResolutionIsFaithful`. The search goes over prefixes of the
  path from the longest (`PrefixIs`, `FoundIs`).
- `AnswerIsExact`: `AnswersAreExact`. `HeaderEnds` shows that the parser and the
  reference find the same end of a header if all lines end alike.
- `FailureShows`: `FailuresShowInTheBody`, from what the client program writes
  (`ClientWrites`, an induction on the length of the body).

### Only model-checked

- Liveness: `EverythingEnds`, and `MessagesReachTheEngine`, `ProfilesAreGreeted`,
  `PollsAreAnswered`, `ClosesAreReported`, `NoneLinger` of `loop_live`. The prover
  has no rule for fairness here.
- The violations, which are counterexamples.

## Not modelled

- The Windows pipes (`pipes.rs:179-468`): the same two types on another kernel's
  rules; the hosts this is for run Unix.
- `layout.rs`, `same_host_url`, `header_to_env_name` and the environment of a CGI
  child: path and string building, whose result is one value here.
- `heartbeat.rs` beyond its frame being a kind of its own; `status`, which reads.
- The static files and the logging of the development server (libraries).
- `test-app`: one engine; `ServiceLoop`'s does whatever the contract admits. The
  rest of `system-test.sh`, `start-site.sh`, building and packaging.
- Failing file operations in the main loop: a FIFO that cannot be made (the
  profile is then skipped at each scan, and `ProfilesAreTakenUpSoon` supposes
  that it is not), a profile that cannot be deleted.

## Plan

Done: the flag protocol, the main loop with its clients, the engine contract
and the refinement, the pipes, configuration and connect, simulated time and the
development server, all safety properties of them with their proofs. Next, in
this order:

1. That `ServiceLoop` may take frames as whole: its FIFOs related to those of
   `InboundPipe` and `OutboundPipe`, as a refinement of a queue of messages.
2. A composition of `Singleton` and `ServiceLoop`: what a second live process
   does to the first one's connections (purge, FIFOs, flag).
3. Failing file operations in `ServiceLoop` (a profile that cannot be deleted,
   a FIFO that cannot be made).
