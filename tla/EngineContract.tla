--------------------------- MODULE EngineContract ---------------------------
(***************************************************************************)
(* What the service library promises the application's engine, the         *)
(* contract of trait StadhouderStateEngine and the types around it.  The   *)
(* engine sees batches of events and answers each with an output; how the  *)
(* library comes by the events is none of its business.                    *)
(*                                                                         *)
(*   - every connection is announced once, then closed at most once, with  *)
(*     a reason; only between the two do its messages arrive, in the order *)
(*     of sending, without gaps or repetitions;                            *)
(*   - a close the engine ordered is reported in the very next batch, as   *)
(*     its own doing, and nothing arrives from that connection meanwhile;  *)
(*   - every timer that is due fires in the next batch, in order of        *)
(*     expiry, once, and never early; a cancelled timer never fires, but a *)
(*     timer set in the same output as the cancellation stands.            *)
(***************************************************************************)
EXTENDS Integers, Sequences, SequencesExt

CONSTANTS
  Conn,      \* connection ids
  Elapsed    \* amounts of engine time that may pass in one step

VARIABLES
  batch,     \* the batch being processed, EmptyBatch between two calls
  output,    \* the engine's answer to it
  told,      \* what the engine has been told about each connection
  heard,     \* how many messages of each connection it has received
  armed,     \* timers set, neither fired nor cancelled: [id, rem]
  owed       \* closes the engine ordered and has not had reported

vars == <<batch, output, told, heard, armed, owed>>

EmptyBatch == [new |-> <<>>, closed |-> <<>>, inbound |-> <<>>, fired |-> <<>>]
NoOutput == [messages |-> {}, close |-> {}, cancel |-> {}, add |-> {},
             shutdown |-> FALSE]

Init ==
  /\ batch = EmptyBatch
  /\ output = NoOutput
  /\ told = [c \in Conn |-> "unseen"]
  /\ heard = [c \in Conn |-> 0]
  /\ armed = {}
  /\ owed = {}

Due == {t \in armed : t.rem <= 0}
ClosedConns(b) == {b.closed[k].conn : k \in DOMAIN b.closed}

\* Where in b the messages of c are.
From(b, c) == {k \in DOMAIN b.inbound : b.inbound[k].conn = c}

Connections(b) ==
  /\ IsInjective(b.new)
  /\ \A c \in ToSet(b.new) : told[c] = "unseen"
  /\ \A j, k \in DOMAIN b.closed :
       b.closed[j].conn = b.closed[k].conn => j = k
  /\ \A c \in ClosedConns(b) : told[c] = "open"
  /\ owed = {r.conn : r \in {s \in ToSet(b.closed) :
                               s.reason = "engine_requested"}}

Messages(b) ==
  \A c \in Conn : \A k \in From(b, c) :
    /\ b.inbound[k].n = heard[c] + Cardinality({j \in From(b, c) : j <= k})
    /\ told[c] = "open" \/ c \in ToSet(b.new)
    /\ c \notin ClosedConns(b)

Timers(b) ==
  /\ IsInjective(b.fired)
  /\ ToSet(b.fired) = Due
  /\ \A j, k \in DOMAIN b.fired :
       j < k => b.fired[j].rem <= b.fired[k].rem

\* One call of process_messages: a batch that keeps the promises, and what
\* the engine's answer obliges the library to.
Call ==
  /\ batch = EmptyBatch
  /\ batch' # EmptyBatch
  /\ Connections(batch') /\ Messages(batch') /\ Timers(batch')
  /\ told' = [c \in Conn |->
                CASE c \in ClosedConns(batch') -> "closed"
                  [] c \in ToSet(batch'.new)   -> "open"
                  [] OTHER                     -> told[c]]
  /\ heard' = [c \in Conn |-> heard[c] + Cardinality(From(batch', c))]
  /\ owed' = {c \in output'.close : told'[c] = "open"}
  /\ armed' = {t \in armed \ Due : t.id \notin output'.cancel}
                \cup output'.add

\* Between calls, time passes.
Elapse(d) ==
  /\ batch' = EmptyBatch
  /\ output' = NoOutput
  /\ armed' = {[t EXCEPT !.rem = @ - d] : t \in armed}
  /\ UNCHANGED <<told, heard, owed>>

\* A run ends, by any of the ways out or a crash; the next one has a new
\* engine that has been told nothing.
End ==
  /\ batch' = EmptyBatch
  /\ output' = NoOutput
  /\ told' = [c \in Conn |-> "unseen"]
  /\ heard' = [c \in Conn |-> 0]
  /\ armed' = {}
  /\ owed' = {}

Next == Call \/ End \/ \E d \in Elapsed : Elapse(d)

Spec == Init /\ [][Next]_vars
=============================================================================
