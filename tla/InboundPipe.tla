----------------------------- MODULE InboundPipe -----------------------------
(***************************************************************************)
(* The client-to-server FIFO of one connection, byte by byte, on Unix.     *)
(*                                                                         *)
(* Every send, and the heartbeat of a poll, is a process that writes one   *)
(* frame in two writes, the length and the text.  The service holds the    *)
(* read end open and drains the FIFO once per iteration.                   *)
(***************************************************************************)
EXTENDS Frames, Fifo, FiniteSets, SequencesExt

CONSTANTS
  Request,   \* send processes
  Text       \* what each of them sends

ASSUME TextAssumption ==
  /\ Text \in [Request -> Seq(Byte)]
  /\ \A r \in Request : Text[r] # <<>> /\ IsText(Text[r])

VARIABLES
  send,      \* where a send process is
  unsent,    \* what it has left to write
  c2s,       \* bytes in the FIFO
  buffer,    \* InboundServerPipe.buffer
  received,  \* frames handed to the loop
  \* History.
  sent,      \* frames written to the end, in that order
  torn       \* a frame was cut short or met another one's

vars == <<send, unsent, c2s, buffer, received, sent, torn>>

Init ==
  /\ send = [r \in Request |-> "new"]
  /\ unsent = [r \in Request |-> <<>>]
  /\ c2s = <<>>
  /\ buffer = <<>>
  /\ received = <<>>
  /\ sent = <<>>
  /\ torn = FALSE

-----------------------------------------------------------------------------
\* A defect to compare with: the writer knows no limit.
RefusesNothing(text) == FALSE

Refuses(text) == TooLong(Len(text))

\* The FIFO is open (the service is its reader) and the text is measured.
SendOpen(r) ==
  /\ send[r] = "new"
  /\ send' = [send EXCEPT ![r] = IF Refuses(Text[r]) THEN "refused" ELSE "header"]
  /\ UNCHANGED <<unsent, c2s, buffer, received, sent, torn>>

\* Requests in the middle of their frame.
Writing == {r \in Request : send[r] = "text"}

\* The first write: the length.
SendHeader(r) ==
  /\ send[r] = "header"
  /\ 4 \in Pieces(Header(Len(Text[r])), c2s)
  /\ c2s' = c2s \o Header(Len(Text[r]))
  /\ send' = [send EXCEPT ![r] = "text"]
  /\ unsent' = [unsent EXCEPT ![r] = Text[r]]
  /\ torn' = (torn \/ Writing # {})
  /\ UNCHANGED <<buffer, received, sent>>

\* The second write, in pieces if need be.
SendText(r) ==
  /\ send[r] = "text"
  /\ \E n \in Pieces(unsent[r], c2s) :
       /\ c2s' = c2s \o Take(unsent[r], n)
       /\ unsent' = [unsent EXCEPT ![r] = Drop(@, n)]
       /\ IF n = Len(unsent[r])
            THEN /\ send' = [send EXCEPT ![r] = "done"]
                 /\ sent' = Append(sent, Text[r])
            ELSE UNCHANGED <<send, sent>>
  /\ UNCHANGED <<buffer, received, torn>>

\* The web server kills the process, or it crashes.
SendDie(r) ==
  /\ send[r] \in {"header", "text"}
  /\ send' = [send EXCEPT ![r] = "dead"]
  /\ unsent' = [unsent EXCEPT ![r] = <<>>]
  /\ torn' = (torn \/ send[r] = "text")
  /\ UNCHANGED <<c2s, buffer, received, sent>>

\* A defect to compare with: a front that is bad for the second time is
\* thrown away with all behind it.
KeptOnce(b) == IF Bad(b) /\ Bad(buffer) THEN <<>> ELSE b

\* What stays in the buffer: a bad front too, for good.
Kept(b) == b

\* One drain_frames: everything there is goes to the buffer, and the frames
\* at its front to the loop - unless a bad one follows them: the error takes
\* their place, and they are gone.
Drain ==
  /\ LET x == Extract(buffer \o c2s)
     IN  /\ buffer' = Kept(x.rest)
         /\ received' = IF Bad(x.rest) THEN received ELSE received \o x.frames
  /\ c2s' = <<>>
  /\ UNCHANGED <<send, unsent, sent, torn>>

-----------------------------------------------------------------------------
Next ==
  \/ Drain
  \/ \E r \in Request :
       SendOpen(r) \/ SendHeader(r) \/ SendText(r) \/ SendDie(r)

Spec == Init /\ [][Next]_vars

-----------------------------------------------------------------------------
TypeOK ==
  /\ send \in [Request -> {"new", "header", "text", "done", "refused", "dead"}]
  /\ unsent \in [Request -> Seq(Byte)]
  /\ c2s \in Seq(Byte) /\ Len(c2s) <= Capacity
  /\ buffer \in Seq(Byte)
  /\ Len(buffer) < 4 + MaxFrame \/ Bad(buffer)
  /\ received \in Seq(Seq(Byte))
  /\ sent \in Seq(Seq(Byte))
  /\ torn \in BOOLEAN

\* As long as no send dies in the middle of its frame and no two overlap,
\* the frames handed over and those on their way are the sent ones, whole,
\* in order and once, whatever pieces they were written and drained in, and
\* the reader finds nothing bad in what the writers let through.
InboundExact ==
  ~ torn =>
    LET x == Extract(buffer \o c2s)
    IN  /\ received \o x.frames = sent
        /\ ~ Bad(x.rest)

\* A bad front is for good.  Where frames begin is not known any more, so
\* nothing behind it, which may be the middle of some text, is ever taken for
\* a message (the connection lasts until the silence is noticed).
BadFrontSilences ==
  [][Bad(buffer) => Bad(buffer') /\ received' = received]_vars

=============================================================================
