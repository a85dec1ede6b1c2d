---------------------------- MODULE OutboundPipe ----------------------------
(***************************************************************************)
(* The server-to-client FIFO of one connection, byte by byte, on Unix.     *)
(*                                                                         *)
(* A poll is a process that blocks in its open until the service opens the *)
(* FIFO for writing, and then reads one frame.  The service, once per      *)
(* iteration, opens the FIFO if it has a reader, takes the outbox, writes  *)
(* it as one frame in two writes, and closes.  A FIFO that nobody has open *)
(* any more loses what it held.                                            *)
(***************************************************************************)
EXTENDS Frames, Fifo, FiniteSets

CONSTANTS
  Poll,      \* poll processes that may be there at a time
  MaxQueue   \* bound: messages the engine sends to the connection

ASSUME QueueAssumption == MaxQueue \in 0 .. 9

VARIABLES
  outbox,    \* messages waiting
  serve,     \* where try_serve_poll is
  unserved,  \* what it has left to write
  s2c,       \* bytes in the FIFO
  poll,      \* where a poll process is
  has,       \* what it has read
  \* History.
  queued,    \* messages the engine has sent
  answers,   \* messages the polls returned
  causes     \* why a message may be lost on its way to the client

vars == <<outbox, serve, unserved, s2c, poll, has, queued, answers, causes>>

Init ==
  /\ outbox = <<>>
  /\ serve = "no"
  /\ unserved = <<>>
  /\ s2c = <<>>
  /\ poll = [p \in Poll |-> "no"]
  /\ has = [p \in Poll |-> <<>>]
  /\ queued = 0
  /\ answers = <<>>
  /\ causes = {}

-----------------------------------------------------------------------------
\* The engine sends one more message.
Queue ==
  /\ serve = "no"
  /\ queued < MaxQueue
  /\ queued' = queued + 1
  /\ outbox' = Append(outbox, queued + 1)
  /\ UNCHANGED <<serve, unserved, s2c, poll, has, answers, causes>>

\* The JSON array of the messages s, a digit each.
Array(s) == <<91>> \o [k \in 1 .. 2 * Len(s) - 1 |->
                         IF k % 2 = 0 THEN 44 ELSE 48 + s[(k + 1) \div 2]]
                   \o <<93>>
IsArray(b) == /\ b # <<>>
              /\ b[1] = 91 /\ b[Len(b)] = 93
              /\ \A k \in 2 .. Len(b) - 1 :
                   IF k % 2 = 0 THEN b[k] \in 48 .. 57 ELSE b[k] = 44
Messages(b) == [k \in 1 .. (Len(b) - 1) \div 2 |-> b[2 * k] - 48]

Blocked == {p \in Poll : poll[p] = "blocked"}

\* Polls that have the FIFO open: blocked in the open, reading, or done with
\* reading and not closed yet.
Attached == {p \in Poll : poll[p] # "no"}

\* A defect to compare with: the outbox is taken whether or not anybody is
\* there to read it.
AnyPoller == TRUE

PollerIsThere == Attached # {}

\* A defect to compare with: the outbox is copied into the answer.
LeftCopied == outbox

\* What the answer leaves in the outbox.
Left == <<>>

\* The non-blocking open finds a reader: the outbox is taken, and the polls
\* blocked in their open go on.  A text over the limit is not written.
ServeOpen ==
  /\ serve = "no"
  /\ PollerIsThere
  /\ outbox' = Left
  /\ LET text == Array(outbox)
     IN  IF TooLong(Len(text))
           THEN /\ serve' = "close"
                /\ unserved' = <<>>
                /\ causes' = causes \cup {"too long"}
           ELSE /\ serve' = "header"
                /\ unserved' = text
                /\ causes' = causes \cup
                               (IF Attached # {} /\ Blocked = {}
                                  THEN {"nobody blocked"} ELSE {})
  /\ poll' = [p \in Poll |-> IF p \in Blocked THEN "reading" ELSE poll[p]]
  /\ UNCHANGED <<s2c, has, queued, answers>>

\* The readers have gone: EPIPE, and nobody minds.
ServeBroken ==
  /\ serve \in {"header", "text"}
  /\ Attached = {}
  /\ serve' = "close"
  /\ unserved' = <<>>
  /\ UNCHANGED <<outbox, s2c, poll, has, queued, answers, causes>>

ServeHeader ==
  /\ serve = "header"
  /\ Attached # {}
  /\ 4 \in Pieces(Header(Len(unserved)), s2c)
  /\ s2c' = s2c \o Header(Len(unserved))
  /\ serve' = "text"
  /\ UNCHANGED <<outbox, unserved, poll, has, queued, answers, causes>>

ServeText ==
  /\ serve = "text"
  /\ Attached # {}
  /\ \E n \in Pieces(unserved, s2c) :
       /\ s2c' = s2c \o Take(unserved, n)
       /\ unserved' = Drop(unserved, n)
       /\ serve' = IF n = Len(unserved) THEN "close" ELSE "text"
  /\ UNCHANGED <<outbox, poll, has, queued, answers, causes>>

ServeClose ==
  /\ serve = "close"
  /\ serve' = "no"
  /\ s2c' = IF Attached = {} THEN <<>> ELSE s2c
  /\ UNCHANGED <<outbox, unserved, poll, has, queued, answers, causes>>

\* A poll opens the FIFO: at once if the service has it open, too.
PollOpen(p) ==
  /\ poll[p] = "no"
  /\ poll' = [poll EXCEPT ![p] = IF serve = "no" THEN "blocked" ELSE "reading"]
  /\ causes' = causes \cup (IF Attached # {} THEN {"two polls"} ELSE {})
  /\ UNCHANGED <<outbox, serve, unserved, s2c, has, queued, answers>>

\* How many bytes read_frame asks for when it has b.
Wanted(b) == IF HasHeader(b) THEN 4 + LengthIn(b) - Len(b) ELSE 4 - Len(b)

\* A defect to compare with: read_frame believes every length.
PollAfterUnlimited(b) ==
  IF HasHeader(b) /\ Len(b) >= 4 + LengthIn(b) THEN "answered" ELSE "reading"

\* Where the bytes b leave a poll.
PollAfter(b) == IF Bad(b) THEN "failed"
                ELSE IF Whole(b) THEN "answered" ELSE "reading"

\* A read: what there is, up to what is wanted.
PollRead(p) ==
  /\ poll[p] = "reading"
  /\ s2c # <<>>
  /\ LET n == IF Wanted(has[p]) <= Len(s2c) THEN Wanted(has[p]) ELSE Len(s2c)
         b == has[p] \o Take(s2c, n)
     IN  /\ has' = [has EXCEPT ![p] = b]
         /\ s2c' = Drop(s2c, n)
         /\ poll' = [poll EXCEPT ![p] = PollAfter(b)]
         /\ answers' = IF PollAfter(b) = "answered" /\ IsArray(Body(b))
                         THEN answers \o Messages(Body(b)) ELSE answers
  /\ UNCHANGED <<outbox, serve, unserved, queued, causes>>

\* The end of the file before the end of the frame.
PollEof(p) ==
  /\ poll[p] = "reading"
  /\ s2c = <<>>
  /\ serve = "no"
  /\ poll' = [poll EXCEPT ![p] = "failed"]
  /\ UNCHANGED <<outbox, serve, unserved, s2c, has, queued, answers, causes>>

\* The process p lets go of the FIFO.
Leave(p) ==
  /\ poll' = [poll EXCEPT ![p] = "no"]
  /\ has' = [has EXCEPT ![p] = <<>>]
  /\ s2c' = IF Attached = {p} /\ serve = "no" THEN <<>> ELSE s2c
  /\ UNCHANGED <<outbox, serve, unserved, queued, answers>>

\* It has its answer, or an error ...
PollLeave(p) ==
  /\ poll[p] \in {"answered", "failed"}
  /\ Leave(p)
  /\ UNCHANGED causes

\* ... or the web server kills it.
PollDie(p) ==
  /\ poll[p] \in {"blocked", "reading"}
  /\ Leave(p)
  /\ causes' = causes \cup (IF poll[p] = "reading" THEN {"death"} ELSE {})

-----------------------------------------------------------------------------
Next ==
  \/ Queue
  \/ ServeOpen \/ ServeBroken \/ ServeHeader \/ ServeText \/ ServeClose
  \/ \E p \in Poll :
       PollOpen(p) \/ PollRead(p) \/ PollEof(p) \/ PollLeave(p) \/ PollDie(p)

Spec == Init /\ [][Next]_vars

-----------------------------------------------------------------------------
TypeOK ==
  /\ outbox \in Seq(1 .. MaxQueue)
  /\ serve \in {"no", "header", "text", "close"}
  /\ unserved \in Seq(Byte)
  /\ s2c \in Seq(Byte) /\ Len(s2c) <= Capacity
  /\ poll \in [Poll -> {"no", "blocked", "reading", "answered", "failed"}]
  /\ has \in [Poll -> Seq(Byte)]
  /\ \A p \in Poll : Len(has[p]) <= 4 + MaxFrame
  /\ queued \in 0 .. MaxQueue
  /\ answers \in Seq(1 .. MaxQueue)
  /\ causes \subseteq {"too long", "nobody blocked", "two polls", "death"}

\* The bytes of the frame p is about to read.
Coming(p) ==
  has[p] \o s2c \o (IF serve = "header" THEN Frame(unserved) ELSE unserved)

InFlight ==
  IF \E p \in Poll : poll[p] = "reading" /\ Coming(p) # <<>>
    THEN Messages(Body(Coming(CHOOSE p \in Poll : poll[p] = "reading")))
    ELSE <<>>

\* No message to the client is lost, repeated or put out of order, unless a
\* poll process dies at it, two polls meet, an answer is over the limit, or
\* the service answers a poll that has had its answer.
OutboundExact ==
  causes = {} => answers \o InFlight \o outbox = [k \in 1 .. queued |-> k]

\* What comes through, comes in order and once, also when polls die and the
\* service answers one twice - if only there is one poll at a time.
AnswersInOrder ==
  "two polls" \notin causes =>
    \A j, k \in DOMAIN answers : j < k => answers[j] < answers[k]

-----------------------------------------------------------------------------
(* What comments of the code say, and the code does not do.                *)

\* pipes.rs: one poll is one episode, in which the service writes one frame,
\* and a write-open succeeds only while a blocked poll is attached.  Nobody
\* dying and no two polls meeting, each poll gets one frame.
OnePollOneFrame ==
  causes \subseteq {"nobody blocked"} =>
    causes = {} /\ \A p \in Poll : poll[p] # "failed"
=============================================================================
