---------------------------- MODULE InboundProofs ----------------------------
(***************************************************************************)
(* Proofs about InboundPipe, for all send processes and texts, every frame *)
(* limit, every PIPE_BUF and every capacity of the FIFO.                   *)
(***************************************************************************)
EXTENDS InboundPipe, FrameProofs

\* What the writers wrote and the reader has not taken.
Stream == buffer \o c2s
\* Of the frames nothing is missing and nothing comes twice; only the frame
\* being written is there in part, and what its writer has left completes it.
Delivery ==
  /\ received \o Extract(Stream).frames = sent
  /\ Writing = {} => Extract(Stream).rest = <<>>
  /\ \A r \in Writing :
       /\ Writing = {r}
       /\ unsent[r] # <<>>
       /\ Extract(Stream).rest \o unsent[r] = Frame(Text[r])

\* A text is written only if it is within the limit.
Measured ==
  \A r \in Request :
    send[r] \in {"header", "text", "done"} => Len(Text[r]) <= MaxFrame

\* The inductive invariant.  (InboundExact alone says nothing of a frame that
\* is under way.)
Inv == TypeOK /\ Measured /\ (~ torn => Delivery)

\* The part of a frame that is there is not bad.
LEMMA DeliveryIsExact ==
  ASSUME TypeOK, Measured, Delivery
  PROVE  /\ received \o Extract(Stream).frames = sent
         /\ ~ Bad(Extract(Stream).rest)
<1> DEFINE x == Extract(Stream)
<1>1. Stream \in Seq(Byte) /\ x \in Found
  <2>1. Stream \in Seq(Byte)
    BY MoreBytes DEF TypeOK, Stream
  <2> QED
    BY <2>1, ExtractType
<1>2. CASE Writing = {}
  BY <1>2, EmptyBytes DEF Delivery
<1>3. CASE Writing # {}
  <2>1. PICK r \in Request : r \in Writing
    BY <1>3 DEF Writing
  <2>2. /\ unsent[r] # <<>> /\ x.rest \o unsent[r] = Frame(Text[r])
        /\ unsent[r] \in Seq(Byte)
    BY <2>1 DEF Delivery, TypeOK
  <2>3. Text[r] \in Seq(Byte) /\ Len(Text[r]) <= MaxFrame
    BY <2>1, TextAssumption DEF Measured, Writing
  <2>4. x.rest \in Seq(Byte)
    BY <1>1 DEF Found
  <2> HIDE DEF x
  <2>5. ~ Bad(x.rest)
    BY <2>2, <2>3, <2>4, PieceKept
  <2> QED
    BY <2>5 DEF Delivery, x
<1> QED
  BY <1>2, <1>3 DEF Delivery

-----------------------------------------------------------------------------

\* The invariant holds at first, and survives:
LEMMA InvInit ==
  ASSUME Init
  PROVE  Inv
<1>1. /\ Len(<<>>) = 0 /\ <<>> \in Seq(Byte) /\ <<>> \in Seq(Seq(Byte))
      /\ Capacity \in Nat /\ MaxFrame \in Nat
  BY FifoAssumption, MaxFrameAssumption
<1>2. TypeOK
  <2>1. send \in [Request -> {"new", "header", "text", "done", "refused", "dead"}]
    BY DEF Init
  <2>2. unsent \in [Request -> Seq(Byte)]
    BY <1>1 DEF Init
  <2>3. c2s = <<>> /\ buffer = <<>> /\ received = <<>> /\ sent = <<>> /\ torn = FALSE
    BY DEF Init
  <2>4. Len(c2s) <= Capacity /\ Len(buffer) < 4 + MaxFrame
    BY <1>1, <2>3
  <2> QED
    BY <1>1, <2>1, <2>2, <2>3, <2>4 DEF TypeOK
<1>3. Measured /\ Writing = {}
  BY DEF Init, Measured, Writing
<1>4. <<>> \o <<>> = <<>>
  OBVIOUS
<1>5. Delivery
  BY <1>3, <1>4, EmptyBytes DEF Init, Delivery, Stream, Nothing
<1> QED
  BY <1>2, <1>3, <1>5 DEF Inv

\* the opening of the FIFO and the measuring of the text;
LEMMA InvOpen ==
  ASSUME Inv, NEW r \in Request, SendOpen(r)
  PROVE  Inv'
<1>1. TypeOK'
  BY DEF Inv, TypeOK, SendOpen
<1>2. Text[r] \in Seq(Byte) /\ Len(Text[r]) \in Nat /\ MaxFrame \in Nat
  BY TextAssumption, MaxFrameAssumption
<1>3. Measured'
  BY <1>2 DEF Inv, TypeOK, Measured, SendOpen, Refuses, TooLong
<1>4. Writing' = Writing
  BY DEF Inv, TypeOK, SendOpen, Writing
<1>5. (~ torn => Delivery)'
  BY <1>4 DEF Inv, SendOpen, Delivery, Stream
<1> QED
  BY <1>1, <1>3, <1>5 DEF Inv

\* the first write, after which a frame has begun;
LEMMA InvHeader ==
  ASSUME Inv, NEW r \in Request, SendHeader(r)
  PROVE  Inv'
<1> DEFINE h == Header(Len(Text[r]))  x == Extract(Stream)
<1>1. TypeOK /\ Measured /\ send[r] = "header" /\ (~ torn => Delivery)
  BY DEF Inv, SendHeader
<1>2. /\ Text[r] \in Seq(Byte) /\ Len(Text[r]) <= MaxFrame
      /\ Text[r] # <<>> /\ Len(Text[r]) \in 0 .. MaxFrame
  BY <1>1, TextAssumption, MaxFrameAssumption DEF Measured
<1>3. h \in Seq(Byte) /\ Len(h) = 4 /\ h \o Text[r] = Frame(Text[r])
  BY <1>2, HeaderIsFourBytes DEF Frame
<1> HIDE DEF h
<1>4. c2s \in Seq(Byte) /\ buffer \in Seq(Byte) /\ Capacity \in Nat /\ Len(c2s) \in Nat
  BY <1>1, FifoAssumption DEF TypeOK
<1>5. 4 <= Capacity - Len(c2s)
  BY <1>3, <1>4 DEF SendHeader, Pieces, h
<1>6. c2s' = c2s \o h /\ c2s' \in Seq(Byte) /\ Len(c2s') <= Capacity
  <2>1. c2s' = c2s \o h
    BY DEF SendHeader, h
  <2>2. c2s \o h \in Seq(Byte) /\ Len(c2s \o h) = Len(c2s) + Len(h)
    BY <1>3, <1>4, MoreBytes
  <2> QED
    BY <1>3, <1>4, <1>5, <2>1, <2>2
<1>7. TypeOK'
  BY <1>1, <1>2, <1>6 DEF TypeOK, SendHeader
<1>8. Measured'
  BY <1>1, <1>2 DEF Measured, SendHeader, TypeOK
<1>9. ASSUME ~ torn'
      PROVE  Delivery'
  <2>1. ~ torn /\ Writing = {} /\ Delivery
    BY <1>1, <1>9 DEF SendHeader
  <2>2. Writing' = {r} /\ unsent'[r] = Text[r]
    BY <1>1, <2>1 DEF SendHeader, Writing, TypeOK
  <2>3. Stream' = Stream \o h /\ Stream \in Seq(Byte)
    <3> DEFINE B == Byte
    <3>1. buffer \in Seq(B) /\ c2s \in Seq(B) /\ h \in Seq(B)
      BY <1>3, <1>4
    <3> HIDE DEF B
    <3>2. (buffer \o c2s) \o h = buffer \o (c2s \o h)
      BY <3>1, ConcatAssociative
    <3>3. buffer' = buffer
      BY DEF SendHeader
    <3>4. buffer \o c2s \in Seq(Byte)
      BY <1>4, MoreBytes
    <3> QED
      BY <1>6, <3>2, <3>3, <3>4 DEF Stream
  <2>4. x.rest = <<>> /\ received \o x.frames = sent /\ x \in Found
    BY <2>1, <2>3, ExtractType DEF Delivery
  <2>5. Extract(Stream') = Then(x, Extract(h))
    <3>1. <<>> \o h = h
      BY <1>3
    <3> QED
      BY <1>3, <2>3, <2>4, <3>1, ExtractMore
  <2>6. Extract(h) = Nothing(h)
    BY <1>2, <1>3, PieceKept
  <2>7. Extract(Stream').frames = x.frames /\ Extract(Stream').rest = h
    <3> DEFINE S == Seq(Byte)
    <3>1. x.frames \in Seq(S)
      BY <2>4 DEF Found
    <3> HIDE DEF S, x
    <3>2. x.frames \o <<>> = x.frames
      BY <3>1, ConcatEmptySeq
    <3> QED
      BY <2>5, <2>6, <3>2 DEF Then, Nothing
  <2>8. received' = received /\ sent' = sent
    BY DEF SendHeader
  <2> QED
    BY <1>2, <1>3, <2>2, <2>4, <2>7, <2>8 DEF Delivery
<1> QED
  BY <1>7, <1>8, <1>9 DEF Inv

\* the second one, piece by piece: the last piece completes the frame;
LEMMA InvText ==
  ASSUME Inv, NEW r \in Request, SendText(r)
  PROVE  Inv'
<1> DEFINE u == unsent[r]  x == Extract(Stream)
<1>1. TypeOK /\ Measured /\ send[r] = "text" /\ (~ torn => Delivery)
  BY DEF Inv, SendText
<1>2. Text[r] \in Seq(Byte) /\ Len(Text[r]) <= MaxFrame /\ IsText(Text[r])
  BY <1>1, TextAssumption DEF Measured
<1>3. PICK n \in Pieces(u, c2s) :
        /\ c2s' = c2s \o Take(u, n)
        /\ unsent' = [unsent EXCEPT ![r] = Drop(@, n)]
        /\ IF n = Len(u)
             THEN send' = [send EXCEPT ![r] = "done"] /\ sent' = Append(sent, Text[r])
             ELSE UNCHANGED <<send, sent>>
  BY DEF SendText
<1>4. u \in Seq(Byte) /\ c2s \in Seq(Byte) /\ buffer \in Seq(Byte)
      /\ Len(c2s) \in Nat /\ Capacity \in Nat /\ Len(u) \in Nat /\ Len(c2s) <= Capacity
  BY <1>1, FifoAssumption DEF TypeOK
<1>5. n \in 0 .. Len(u) /\ n <= Capacity - Len(c2s)
  BY <1>4 DEF Pieces
<1> DEFINE t == Take(u, n)  v == Drop(u, n)
<1>6. /\ t \in Seq(Byte) /\ Len(t) = n /\ v \in Seq(Byte)
      /\ Len(v) = Len(u) - n /\ t \o v = u
  BY <1>4, <1>5, TakeDrop
<1> HIDE DEF t, v
<1>7. c2s' = c2s \o t /\ c2s' \in Seq(Byte) /\ Len(c2s') <= Capacity
  <2>1. c2s' = c2s \o t
    BY <1>3 DEF t
  <2>2. c2s \o t \in Seq(Byte) /\ Len(c2s \o t) = Len(c2s) + Len(t)
    BY <1>4, <1>6, MoreBytes
  <2> QED
    BY <1>4, <1>5, <1>6, <2>1, <2>2
<1>8. unsent' = [unsent EXCEPT ![r] = v]
  BY <1>3 DEF v
<1>9. UNCHANGED <<buffer, received, torn>>
  BY DEF SendText
<1>10. TypeOK'
  <2>1. send' \in [Request -> {"new", "header", "text", "done", "refused", "dead"}]
    BY <1>1, <1>3 DEF TypeOK
  <2>2. sent' \in Seq(Seq(Byte))
    <3> DEFINE S == Seq(Byte)
    <3>1. sent \in Seq(S) /\ Text[r] \in S
      BY <1>1, <1>2 DEF TypeOK
    <3> HIDE DEF S
    <3>2. Append(sent, Text[r]) \in Seq(S)
      BY <3>1
    <3> QED
      BY <1>3, <3>1, <3>2 DEF S
  <2>3. unsent' \in [Request -> Seq(Byte)]
    BY <1>1, <1>6, <1>8 DEF TypeOK
  <2> QED
    BY <1>1, <1>7, <1>9, <2>1, <2>2, <2>3 DEF TypeOK
<1>11. Measured'
  BY <1>1, <1>2, <1>3 DEF Measured, TypeOK
<1>12. ASSUME ~ torn'
       PROVE  Delivery'
  <2>1. ~ torn /\ Delivery /\ r \in Writing
    BY <1>1, <1>9, <1>12 DEF Writing
  <2>2. /\ Writing = {r} /\ u # <<>> /\ x.rest \o u = Frame(Text[r])
        /\ received \o x.frames = sent
    BY <2>1 DEF Delivery
  <2>3. Stream' = Stream \o t /\ Stream \in Seq(Byte)
    <3> DEFINE B == Byte
    <3>1. buffer \in Seq(B) /\ c2s \in Seq(B) /\ t \in Seq(B)
      BY <1>6, <1>4
    <3> HIDE DEF B
    <3>2. (buffer \o c2s) \o t = buffer \o (c2s \o t)
      BY <3>1, ConcatAssociative
    <3>4. buffer \o c2s \in Seq(Byte)
      BY <1>4, MoreBytes
    <3> QED
      BY <1>7, <1>9, <3>2, <3>4 DEF Stream
  <2>4. x \in Found
    BY <2>3, ExtractType
  <2>5. Extract(Stream') = Then(x, Extract(x.rest \o t))
    BY <1>6, <2>3, ExtractMore
  <2> DEFINE S == Seq(Byte)
  <2>6. x.frames \in Seq(S) /\ x.rest \in S
    BY <2>4 DEF Found
  <2> HIDE DEF x, u
  <2>7. x.rest \o t \in Seq(Byte) /\ (x.rest \o t) \o v = Frame(Text[r])
    <3>1. x.rest \o t \in Seq(Byte)
      BY <1>6, <2>6, MoreBytes
    <3> DEFINE B == Byte  a == x.rest
    <3>2. a \in Seq(B) /\ t \in Seq(B) /\ v \in Seq(B)
      BY <1>6, <2>6
    <3> HIDE DEF B, a
    <3>3. (a \o t) \o v = a \o (t \o v)
      BY <3>2, ConcatAssociative
    <3> QED
      BY <1>6, <2>2, <3>1, <3>3 DEF a
  <2>8. CASE n = Len(u)
    <3>1. v = <<>>
      BY <1>4, <1>6, <2>8
    <3>2. x.rest \o t = Frame(Text[r])
      BY <2>7, <3>1
    <3>3. Extract(x.rest \o t) = [frames |-> <<Text[r]>>, rest |-> <<>>]
      BY <1>2, <3>2, FrameExtracted
    <3>4. /\ Extract(Stream').rest = <<>>
          /\ Extract(Stream').frames = x.frames \o <<Text[r]>>
      BY <2>5, <3>3 DEF Then
    <3>5. Writing' = {}
      BY <1>1, <1>3, <2>2, <2>8 DEF Writing, TypeOK, u
    <3>6. received \in Seq(S) /\ Text[r] \in S /\ sent' = Append(sent, Text[r])
      BY <1>1, <1>2, <1>3, <2>8 DEF TypeOK, u
    <3> HIDE DEF S
    <3>7. <<Text[r]>> \in Seq(S)
      BY <3>6
    <3>8. received \o (x.frames \o <<Text[r]>>) = (received \o x.frames) \o <<Text[r]>>
      <4> DEFINE f == x.frames  l == <<Text[r]>>
      <4>1. received \in Seq(S) /\ f \in Seq(S) /\ l \in Seq(S)
        BY <2>6, <3>6, <3>7
      <4> HIDE DEF f, l
      <4>2. received \o (f \o l) = (received \o f) \o l
        BY <4>1, ConcatAssociative
      <4> QED
        BY <4>2 DEF f, l
    <3>9. sent \in Seq(S)
      BY <1>1 DEF TypeOK, S
    <3>10. Append(sent, Text[r]) = sent \o <<Text[r]>>
      BY <3>6, <3>9, AppendIsConcat
    <3> QED
      BY <1>9, <2>2, <3>4, <3>5, <3>6, <3>8, <3>10 DEF Delivery
  <2>9. CASE n # Len(u)
    <3>1. v # <<>>
      BY <1>4, <1>5, <1>6, <2>9
    <3>2. Extract(x.rest \o t) = Nothing(x.rest \o t)
      BY <1>2, <1>6, <2>7, <3>1, PieceKept
    <3>3. x.frames \o <<>> = x.frames
      <4> HIDE DEF S
      <4> QED
        BY <2>6, ConcatEmptySeq
    <3>4. Extract(Stream').rest = x.rest \o t /\ Extract(Stream').frames = x.frames
      BY <2>5, <3>2, <3>3 DEF Then, Nothing
    <3>5. send' = send /\ sent' = sent
      BY <1>3, <2>9 DEF u
    <3>6. Writing' = {r} /\ unsent'[r] = v
      BY <1>1, <1>8, <2>2, <3>5 DEF Writing, TypeOK
    <3> QED
      BY <1>9, <2>2, <2>7, <3>1, <3>4, <3>5, <3>6 DEF Delivery
  <2> QED
    BY <2>8, <2>9
<1> QED
  BY <1>10, <1>11, <1>12 DEF Inv

\* the death of a writer, who tears its frame if it has begun it;
LEMMA InvDie ==
  ASSUME Inv, NEW r \in Request, SendDie(r)
  PROVE  Inv'
<1>1. TypeOK'
  BY EmptyBytes DEF Inv, TypeOK, SendDie
<1>2. Measured'
  BY DEF Inv, TypeOK, Measured, SendDie
<1>3. ASSUME ~ torn'
      PROVE  Delivery'
  <2>1. ~ torn /\ send[r] = "header" /\ Delivery
    BY <1>3 DEF Inv, SendDie
  <2>2. Writing' = Writing /\ \A w \in Writing : unsent'[w] = unsent[w]
    BY <2>1 DEF Writing, SendDie, Inv, TypeOK
  <2> QED
    BY <2>1, <2>2 DEF Delivery, SendDie, Stream
<1> QED
  BY <1>1, <1>2, <1>3 DEF Inv

\* what a drain leaves in the buffer,
LEMMA Drained ==
  ASSUME TypeOK, Drain
  PROVE  /\ Stream \in Seq(Byte) /\ Extract(Stream) \in Found
         /\ buffer' = Extract(Stream).rest /\ Stream' = buffer'
         /\ Extract(Stream') = Nothing(buffer')
         /\ Len(buffer') < 4 + MaxFrame \/ Bad(buffer')
<1> DEFINE x == Extract(Stream)  b == x.rest
<1>1. Stream \in Seq(Byte)
  BY MoreBytes DEF TypeOK, Stream
<1>2. x \in Found /\ b \in Seq(Byte) /\ ~ Takes(b)
  BY <1>1, ExtractType, RestStops DEF Found
<1>3. buffer' = b /\ c2s' = <<>>
  BY DEF Drain, Kept, Stream
<1> HIDE DEF x, b
<1>4. Stream' = b
  BY <1>2, <1>3 DEF Stream
<1>5. Extract(b) = Nothing(b)
  BY <1>2, ExtractUnfolds
<1>6. ASSUME ~ Bad(b)
      PROVE  Len(b) < 4 + MaxFrame
  <2>1. ~ Whole(b)
    BY <1>2, <1>6 DEF Takes
  <2>2. Len(b) \in Nat /\ MaxFrame \in Nat
    BY <1>2, MaxFrameAssumption
  <2>3. CASE ~ HasHeader(b)
    BY <2>2, <2>3 DEF HasHeader
  <2>4. CASE HasHeader(b)
    <3>1. ~ TooLong(LengthIn(b)) /\ LengthIn(b) \in Nat
      BY <1>2, <1>6, <2>4, LengthIsNat DEF Bad
    <3>2. ~ (Len(b) >= 4 + LengthIn(b))
      BY <2>1, <2>4, <3>1 DEF Whole
    <3> QED
      BY <2>2, <3>1, <3>2 DEF TooLong
  <2> QED
    BY <2>3, <2>4
<1> QED
  BY <1>1, <1>2, <1>3, <1>4, <1>5, <1>6 DEF x, b

\* the drain: what it takes is what was sent;
LEMMA InvDrain ==
  ASSUME Inv, Drain
  PROVE  Inv'
<1> DEFINE x == Extract(Stream)  S == Seq(Byte)
<1>1. TypeOK /\ Measured /\ (~ torn => Delivery)
  BY DEF Inv
<1>2. /\ x \in Found /\ buffer' = x.rest /\ Stream' = x.rest
      /\ Extract(Stream') = Nothing(x.rest)
      /\ Len(buffer') < 4 + MaxFrame \/ Bad(buffer')
  BY <1>1, Drained
<1>3. UNCHANGED <<send, unsent, sent, torn>> /\ c2s' = <<>>
      /\ received' = IF Bad(x.rest) THEN received ELSE received \o x.frames
  BY DEF Drain, Stream
<1>4. x.frames \in Seq(S) /\ x.rest \in S /\ received \in Seq(S)
  BY <1>1, <1>2 DEF Found, TypeOK
<1>5. TypeOK'
  <2>1. received' \in Seq(S)
    <3> HIDE DEF S, x
    <3>1. received \o x.frames \in Seq(S)
      BY <1>4, ConcatProperties
    <3> QED
      BY <1>3, <1>4, <3>1
  <2>2. Len(<<>>) <= Capacity /\ <<>> \in Seq(Byte)
    BY FifoAssumption
  <2> HIDE DEF x
  <2> QED
    BY <1>1, <1>2, <1>3, <1>4, <2>1, <2>2 DEF TypeOK
<1>6. Measured' /\ Writing' = Writing
  BY <1>1, <1>3 DEF Measured, Writing
<1>7. ASSUME ~ torn'
      PROVE  Delivery'
  <2>1. Delivery
    BY <1>1, <1>3, <1>7
  <2>2. received \o x.frames = sent /\ ~ Bad(x.rest)
    BY <1>1, <2>1, DeliveryIsExact
  <2>3. received' \o <<>> = sent'
    <3> HIDE DEF S, x
    <3>1. received \o x.frames \in Seq(S)
      BY <1>4, ConcatProperties
    <3>2. (received \o x.frames) \o <<>> = received \o x.frames
      BY <3>1, ConcatEmptySeq
    <3> QED
      BY <1>3, <2>2, <3>2
  <2>4. Extract(Stream').frames = <<>> /\ Extract(Stream').rest = x.rest
    BY <1>2 DEF Nothing
  <2> QED
    BY <1>3, <1>6, <2>1, <2>3, <2>4 DEF Delivery
<1> QED
  BY <1>5, <1>6, <1>7 DEF Inv

\* every step.
LEMMA InvNext ==
  ASSUME Inv, [Next]_vars
  PROVE  Inv'
<1>1. CASE Next
  BY <1>1, InvOpen, InvHeader, InvText, InvDie, InvDrain DEF Next
<1>2. CASE UNCHANGED vars
  BY <1>2 DEF vars, Inv, TypeOK, Measured, Delivery, Writing, Stream
<1> QED
  BY <1>1, <1>2

-----------------------------------------------------------------------------

\* The inductive invariant is one, for every set of send processes and texts,
\* every limit of a frame and every capacity of the FIFO (send.rs and
\* InboundServerPipe::drain_frames).
THEOREM Invariance == Spec => []Inv
BY InvInit, InvNext, PTL DEF Spec

\* Every variable stays within its type; the FIFO holds no more than it can,
\* and the buffer less than one frame of the limit, but for a bad front (drain_frames).
THEOREM TypeCorrect == Spec => []TypeOK
<1>1. Inv => TypeOK
  BY DEF Inv
<1> QED
  BY <1>1, Invariance, PTL

\* As long as no writer dies in the middle of its frame and no two overlap, the
\* messages arrive whole, in order and once, and nothing is found bad (the send
\* processes and drain_frames).
THEOREM DeliversExactly == Spec => []InboundExact
<1>1. Inv => InboundExact
  BY DeliveryIsExact DEF Inv, InboundExact, Stream
<1> QED
  BY <1>1, Invariance, PTL

\* What BadFrontSilences says of a step.
Silenced == Bad(buffer) => Bad(buffer') /\ received' = received

\* A drain cannot repair a bad front; nobody else touches the buffer.
LEMMA SilencedNext ==
  ASSUME TypeOK, [Next]_vars
  PROVE  Silenced
<1>1. CASE Drain
  <2> SUFFICES ASSUME Bad(buffer)
               PROVE  Bad(buffer') /\ received' = received
    BY DEF Silenced
  <2>1. Bad(Stream)
    BY FrontStays DEF TypeOK, Stream
  <2>2. Stream \in Seq(Byte)
    BY <1>1, Drained
  <2>3. Extract(Stream) = Nothing(Stream)
    BY <2>1, <2>2, ExtractUnfolds DEF Takes
  <2>4. Extract(Stream).rest = Stream
    BY <2>3 DEF Nothing
  <2> QED
    BY <1>1, <2>1, <2>4 DEF Drain, Kept, Stream
<1>2. CASE UNCHANGED <<buffer, received>>
  BY <1>2 DEF Silenced
<1>3. Drain \/ UNCHANGED <<buffer, received>>
  BY DEF Next, vars, SendOpen, SendHeader, SendText, SendDie
<1> QED
  BY <1>1, <1>2, <1>3

\* After a bad front nothing is taken for a message any more (drain_frames
\* returns the error, and the bytes stay).
THEOREM BadFrontIsForGood == Spec => BadFrontSilences
<1>1. TypeOK /\ [Next]_vars => [Silenced]_vars
  BY SilencedNext
<1> QED
  BY <1>1, TypeCorrect, PTL DEF Spec, BadFrontSilences, Silenced
==============================================================================
