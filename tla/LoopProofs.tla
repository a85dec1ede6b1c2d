----------------------------- MODULE LoopProofs -----------------------------
(***************************************************************************)
(* Proofs about ServiceLoop, for every set of connections and timers, all  *)
(* durations and all bounds that satisfy DurationAssumption: its type      *)
(* invariant, its safety properties, and that it implements EngineContract.*)
(***************************************************************************)
EXTENDS ServiceLoop, ListFacts

-----------------------------------------------------------------------------
(* What Texts computes: the frames of a FIFO without the heartbeats.       *)

\* Numbers of messages; in a FIFO, 0 stands for a heartbeat.
Message == 1 .. MaxSend
Frame == 0 .. MaxSend

\* upto, as the definition of Texts builds it.
Upto(g, s) ==
  /\ g \in [0 .. Len(s) -> Seq(Message)]
  /\ g[0] = <<>>
  /\ \A k \in 1 .. Len(s) :
       g[k] = IF s[k] = 0 THEN g[k - 1] ELSE Append(g[k - 1], s[k])

\* What Texts builds up, frame by frame, is determined by the frames.
LEMMA UptoUnique ==
  ASSUME NEW s, Len(s) \in Nat, NEW f, NEW g,
         DOMAIN f = 0 .. Len(s), f[0] = <<>>,
         \A k \in 1 .. Len(s) :
            f[k] = IF s[k] = 0 THEN f[k - 1] ELSE Append(f[k - 1], s[k]),
         Upto(g, s)
  PROVE  \A k \in 0 .. Len(s) : f[k] = g[k]
<1> DEFINE T == {k \in Nat : k <= Len(s) => f[k] = g[k]}
<1>1. 0 \in T
  BY DEF Upto
<1>2. ASSUME NEW k \in Nat, k \in T
      PROVE  k + 1 \in T
  <2> SUFFICES ASSUME k + 1 <= Len(s)
               PROVE  f[k + 1] = g[k + 1]
    OBVIOUS
  <2>1. f[k] = g[k] /\ k + 1 \in 1 .. Len(s) /\ (k + 1) - 1 = k
    BY <1>2
  <2> QED
    BY <2>1 DEF Upto
<1> HIDE DEF T
<1>3. \A k \in Nat : k \in T
  BY Zenon, <1>1, <1>2, SetInduction
<1> QED
  BY <1>3 DEF T

\* ... and there is such a build-up for every FIFO.
LEMMA UptoExists ==
  ASSUME NEW s \in Seq(Frame), MaxSend \in Nat
  PROVE  \E g : Upto(g, s)
<1> DEFINE n == Len(s)
           S == Seq(Message)
           none == <<>>
           F == [k \in 1 .. n |-> [t \in S |->
                   IF s[k] = 0 THEN t ELSE Append(t, s[k])]]
<1>1. ASSUME NEW k \in 1 .. n, NEW t \in S
      PROVE  (IF s[k] = 0 THEN t ELSE Append(t, s[k])) \in S
  <2>1. s[k] # 0 => s[k] \in Message
    BY DEF Frame, Message
  <2> QED
    BY <2>1
<1>2. none \in S /\ n \in Nat
  OBVIOUS
<1>3. F \in [1 .. n -> [S -> S]]
  BY Zenon, <1>1
<1>4. \A k \in 1 .. n, t \in S :
        F[k][t] = IF s[k] = 0 THEN t ELSE Append(t, s[k])
  OBVIOUS
<1> HIDE DEF F, n, S, none
<1>5. PICK g \in [0 .. n -> S] :
        g[0] = none /\ \A k \in 1 .. n : g[k] = F[k][g[k - 1]]
  BY <1>2, <1>3, Recursion
<1>6. ASSUME NEW k \in 1 .. n
      PROVE  g[k] = IF s[k] = 0 THEN g[k - 1] ELSE Append(g[k - 1], s[k])
  <2>1. g[k - 1] \in S
    BY <1>2
  <2> QED
    BY <1>4, <1>5, <2>1
<1> QED
  BY Zenon, <1>5, <1>6 DEF Upto, n, S, none

\* Texts is the last stage of the build-up.
LEMMA TextsAre ==
  ASSUME NEW s \in Seq(Frame), MaxSend \in Nat, NEW g, Upto(g, s)
  PROVE  Texts(s) = g[Len(s)]
<1> DEFINE n == Len(s)
           Next1(x, k) == IF k = 0 THEN <<>>
                         ELSE IF s[k] = 0 THEN x[k - 1] ELSE Append(x[k - 1], s[k])
           Body(x) == [k \in 0 .. n |-> Next1(x, k)]
           f == CHOOSE x : x = Body(x)
<1>1. n \in Nat
  OBVIOUS
<1> HIDE DEF f
<1>2. g = Body(g)
  <2>1. DOMAIN g = 0 .. n
    BY DEF Upto
  <2>2. ASSUME NEW k \in 0 .. n
        PROVE  g[k] = Next1(g, k)
    <3>1. CASE k = 0
      BY <3>1 DEF Upto
    <3>2. CASE k # 0
      <4>1. k \in 1 .. n
        BY <1>1, <3>2
      <4> QED
        BY <3>2, <4>1 DEF Upto
    <3> QED
      BY <3>1, <3>2
  <2>3. g = [k \in 0 .. n |-> g[k]]
    BY <2>1 DEF Upto
  <2> HIDE DEF Next1
  <2> QED
    BY Zenon, <2>2, <2>3
<1>3. f = Body(f)
  BY Zenon, <1>2 DEF f
<1>4. Texts(s) = f[n]
  BY Zenon DEF Texts, f
<1>5. /\ DOMAIN f = 0 .. n /\ f[0] = <<>>
      /\ \A k \in 1 .. n :
            f[k] = IF s[k] = 0 THEN f[k - 1] ELSE Append(f[k - 1], s[k])
  <2>1. DOMAIN f = 0 .. n /\ \A k \in 0 .. n : f[k] = Next1(f, k)
    <3> HIDE DEF Next1
    <3> QED
      BY Zenon, <1>3
  <2>2. 0 \in 0 .. n /\ f[0] = Next1(f, 0)
    BY <1>1, <2>1
  <2>3. ASSUME NEW k \in 1 .. n
        PROVE  f[k] = IF s[k] = 0 THEN f[k - 1] ELSE Append(f[k - 1], s[k])
    <3>1. k \in 0 .. n /\ k # 0
      BY <1>1
    <3>2. f[k] = Next1(f, k)
      BY Zenon, <2>1, <3>1
    <3> QED
      BY Zenon, <3>1, <3>2
  <2> QED
    BY Zenon, <2>1, <2>2, <2>3
<1>6. \A k \in 0 .. n : f[k] = g[k]
  BY <1>1, <1>5, UptoUnique
<1> QED
  BY <1>1, <1>4, <1>6

\* The frames a drain passes on are messages: no heartbeat among them.
LEMMA TextsType ==
  ASSUME NEW s \in Seq(Frame), MaxSend \in Nat
  PROVE  Texts(s) \in Seq(Message)
<1>1. PICK g : Upto(g, s)
  BY Zenon, UptoExists
<1>2. Texts(s) = g[Len(s)]
  BY Zenon, <1>1, TextsAre
<1> QED
  BY <1>1, <1>2 DEF Upto

\* An empty FIFO holds no message.
LEMMA TextsOfNone ==
  ASSUME MaxSend \in Nat
  PROVE  Texts(<<>>) = <<>>
<1>1. <<>> \in Seq(Frame) /\ Len(<<>>) = 0
  OBVIOUS
<1>2. PICK g : Upto(g, <<>>)
  BY Zenon, <1>1, UptoExists
<1>3. Texts(<<>>) = g[Len(<<>>)]
  BY Zenon, <1>1, <1>2, TextsAre
<1> QED
  BY <1>1, <1>2, <1>3 DEF Upto

\* A frame written behind the others is the last message, or a heartbeat that
\* is none.  (SendWrite and PollEnd append, Drain reads.)
LEMMA TextsOfOneMore ==
  ASSUME NEW s \in Seq(Frame), NEW m \in Frame, MaxSend \in Nat
  PROVE  Texts(Append(s, m)) = IF m = 0 THEN Texts(s) ELSE Append(Texts(s), m)
<1> DEFINE t == Append(s, m)
           n == Len(s)
<1>1. /\ t \in Seq(Frame) /\ Len(t) = n + 1 /\ n \in Nat
      /\ t[n + 1] = m /\ \A k \in 1 .. n : t[k] = s[k]
  OBVIOUS
<1> HIDE DEF t
<1>2. PICK g : Upto(g, s)
  BY Zenon, UptoExists
<1>3. PICK h : Upto(h, t)
  BY Zenon, <1>1, UptoExists
<1>4. Texts(s) = g[n] /\ Texts(t) = h[n + 1]
  BY Zenon, <1>1, <1>2, <1>3, TextsAre
<1> DEFINE f == [k \in 0 .. n |-> h[k]]
<1>5. /\ DOMAIN f = 0 .. n /\ f[0] = <<>>
      /\ \A k \in 1 .. n :
           f[k] = IF s[k] = 0 THEN f[k - 1] ELSE Append(f[k - 1], s[k])
  <2>1. \A k \in 1 .. n : h[k] = IF s[k] = 0 THEN h[k - 1] ELSE Append(h[k - 1], s[k])
    BY <1>1, <1>3 DEF Upto
  <2> QED
    BY <1>1, <1>3, <2>1 DEF Upto
<1>6. f[n] = h[n]
  BY <1>1
<1> HIDE DEF f
<1>7. \A k \in 0 .. n : f[k] = g[k]
  BY <1>1, <1>2, <1>5, UptoUnique
<1>8. h[n] = g[n]
  BY <1>1, <1>6, <1>7
<1>9. h[n + 1] = IF m = 0 THEN h[n] ELSE Append(h[n], m)
  BY <1>1, <1>3 DEF Upto
<1> QED
  BY <1>4, <1>8, <1>9 DEF t

-----------------------------------------------------------------------------
(* Types.                                                                  *)

\* Every set the loop lists in some order is finite: it grows by one element,
\* or by the finitely many of one engine output, at a time.
Finite ==
  /\ IsFiniteSet(timers)
  /\ IsFiniteSet(greeted)
  /\ conns \subseteq greeted

\* A send under way still has a number to take.
SendsAreBounded == \A c \in Conn : sending[c] => sent[c] < MaxSend

\* What the durations and bounds are, taken from their assumption.
LEMMA Numbers ==
  /\ ScanInterval \in Nat /\ Inactivity \in Nat /\ IdleExit \in Nat
  /\ 0 < ScanInterval /\ 0 < Inactivity /\ 0 < IdleExit
  /\ MaxOutput \in Nat /\ MaxQueue \in Nat /\ MaxSend \in Nat
  /\ MaxFifo \in Nat /\ MaxJumps \in Nat
  /\ Step \subseteq Nat /\ Jump \subseteq Nat /\ Delay \subseteq Nat
  /\ \A d \in Step \cup Jump : d > 0
BY DurationAssumption

\* The largest jump exists, so the age beyond which none is told apart does.
LEMMA CapIsNat == AgeCap \in Nat
<1> DEFINE m == CHOOSE m \in Jump \cup {0} : \A j \in Jump \cup {0} : j <= m
<1>1. m \in Jump \cup {0}
  BY DurationAssumption
<1> HIDE DEF m
<1>2. m \in Nat
  BY <1>1, Numbers
<1>3. MaxJumps * m \in Nat
  BY <1>2, Numbers
<1> QED
  BY <1>3, Numbers DEF AgeCap, m

\* Types and finiteness hold at first.
LEMMA TypeInit == Init => TypeOK /\ Finite
<1> SUFFICES ASSUME Init PROVE TypeOK /\ Finite
  OBVIOUS
<1>1. Finite
  BY FS_EmptySet DEF Init, Finite
<1>2. batch \in Batches
  BY DEF Init, Batches, EmptyBatch
<1>3. output \in [messages : SUBSET Conn, close : SUBSET Conn,
                 cancel : SUBSET TimerId,
                 add : SUBSET [id : TimerId, rem : Delay], shutdown : BOOLEAN]
  BY DEF Init, NoOutput
<1> QED
  BY <1>1, <1>2, <1>3, Numbers, CapIsNat DEF Init, TypeOK

\* ... and a step of a client program keeps them.
LEMMA TypeRequest ==
  ASSUME TypeOK, Finite, SendsAreBounded, NEW c \in Conn, Request(c)
  PROVE  TypeOK' /\ Finite'
<1> USE DEF TypeOK, Finite, files, clients, loop, engine, history
<1>1. CASE Connect(c)
  BY <1>1 DEF Connect
<1>2. CASE Close(c)
  BY <1>2 DEF Close
<1>3. CASE SendStart(c)
  BY <1>3 DEF SendStart
<1>4. CASE SendWrite(c)
  <2>1. sent[c] + 1 \in 0 .. MaxSend
    BY <1>4, Numbers DEF SendWrite, SendsAreBounded
  <2>2. c2s' \in [Conn -> Seq(0 .. MaxSend)] /\ sent' \in [Conn -> 0 .. MaxSend]
    BY <1>4, <2>1 DEF SendWrite
  <2>3. idle' \in [Conn -> 0 .. Inactivity]
    BY <1>4, Numbers DEF SendWrite
  <2> QED
    BY <1>4, <2>2, <2>3 DEF SendWrite
<1>5. CASE SendFail(c)
  BY <1>5 DEF SendFail
<1>6. CASE PollStart(c)
  BY <1>6 DEF PollStart, SetPolling
<1>7. CASE PollOpen(c)
  BY <1>7 DEF PollOpen, SetPolling
<1>8. CASE PollFail(c)
  BY <1>8 DEF PollFail, SetPolling
<1>9. CASE PollAgain(c)
  BY <1>9 DEF PollAgain, SetPolling
<1>10. CASE PollEnd(c)
  <2>1. c2s \in [Conn -> Seq(0 .. MaxSend)] /\ idle \in [Conn -> 0 .. Inactivity]
    OBVIOUS
  <2>2. 0 \in 0 .. MaxSend /\ 0 \in 0 .. Inactivity
    BY Numbers
  <2>3. \/ c2s' = c2s /\ idle' = idle
        \/ c2s' = [c2s EXCEPT ![c] = Append(@, 0)] /\ idle' = [idle EXCEPT ![c] = 0]
    BY <1>10 DEF PollEnd
  <2> HIDE DEF TypeOK, Finite
  <2>4. Append(c2s[c], 0) \in Seq(0 .. MaxSend)
    BY <2>1, <2>2, AppendProperties
  <2>5. c2s' \in [Conn -> Seq(0 .. MaxSend)] /\ idle' \in [Conn -> 0 .. Inactivity]
    BY <2>1, <2>2, <2>3, <2>4
  <2> USE DEF TypeOK, Finite
  <2> QED
    BY <1>10, <2>5 DEF PollEnd, SetPolling
<1> QED
  BY <1>1, <1>2, <1>3, <1>4, <1>5, <1>6, <1>7, <1>8, <1>9, <1>10 DEF Request

\* Types of what an unlinking leaves (CommunicationPipe::remove).
LEMMA UnlinkType ==
  ASSUME TypeOK, NEW S, Unlink(S)
  PROVE  /\ c2s' \in [Conn -> Seq(0 .. MaxSend)]
         /\ polling' \in [Conn -> {"no", "seeking", "waiting", "empty", "orphaned"}]
<1>1. /\ c2s \in [Conn -> Seq(0 .. MaxSend)]
      /\ polling \in [Conn -> {"no", "seeking", "waiting", "empty", "orphaned"}]
  BY DEF TypeOK
<1>2. <<>> \in Seq(0 .. MaxSend)
  OBVIOUS
<1> QED
  BY <1>1, <1>2 DEF Unlink, Reset

\* Types of what the registry keeps when it forgets connections.
LEMMA ForgetType ==
  ASSUME TypeOK, Finite, NEW S, Forget(S)
  PROVE  /\ conns' \subseteq conns /\ conns' \subseteq Conn
         /\ outbox' \in [Conn -> Seq(1 .. MaxQueue)]
         /\ silence' \in [Conn -> Nat]
         /\ idle' \in [Conn -> 0 .. Inactivity]
<1>1. /\ conns \subseteq Conn
      /\ outbox \in [Conn -> Seq(1 .. MaxQueue)]
      /\ silence \in [Conn -> Nat]
      /\ idle \in [Conn -> 0 .. Inactivity]
  BY DEF TypeOK
<1>2. <<>> \in Seq(1 .. MaxQueue) /\ 0 \in 0 .. Inactivity
  BY Numbers
<1> QED
  BY <1>1, <1>2 DEF Forget, Reset

\* Each connection of a set is reported once, for the one reason.
LEMMA ReportsType ==
  ASSUME NEW S, IsFiniteSet(S), S \subseteq Conn,
         NEW why \in {"client_disconnected", "server_idle_timeout",
                      "engine_requested"}
  PROVE  /\ Reports(S, why) \in Seq([conn : Conn,
                                     reason : {"client_disconnected", "server_idle_timeout",
                                                "engine_requested"}])
         /\ Len(Reports(S, why)) = Len(SetToSeq(S))
         /\ \A k \in 1 .. Len(SetToSeq(S)) :
              Reports(S, why)[k] = [conn |-> SetToSeq(S)[k], reason |-> why]
         /\ {r.conn : r \in ToSet(Reports(S, why))} = S
         /\ \A r \in ToSet(Reports(S, why)) : r.reason = why
         /\ \A j, k \in DOMAIN Reports(S, why) :
              Reports(S, why)[j].conn = Reports(S, why)[k].conn => j = k
<1> DEFINE s == SetToSeq(S)
<1>1. s \in Seq(S) /\ Len(s) \in Nat /\ IsInjective(s) /\ ToSet(s) = S
  BY Listed
<1>2. Reports(S, why) = [k \in DOMAIN s |-> [conn |-> s[k], reason |-> why]]
  BY DEF Reports
<1> HIDE DEF s
<1> DEFINE q == Reports(S, why)
<1>3. DOMAIN s = 1 .. Len(s) /\ \A k \in 1 .. Len(s) : s[k] \in S
  BY <1>1
<1>4. /\ DOMAIN q = 1 .. Len(s)
      /\ \A k \in 1 .. Len(s) : q[k] = [conn |-> s[k], reason |-> why]
  BY <1>2, <1>3
<1>5. q \in Seq([conn : Conn, reason : {"client_disconnected", "server_idle_timeout",
                                                "engine_requested"}])
      /\ Len(q) = Len(s)
  BY <1>1, <1>2, <1>3
<1> HIDE DEF q
<1>6. \A j, k \in DOMAIN q : q[j].conn = q[k].conn => j = k
  BY <1>1, <1>3, <1>4 DEF IsInjective
<1>7. {r.conn : r \in ToSet(q)} = S /\ \A r \in ToSet(q) : r.reason = why
  BY <1>1, <1>3, <1>4 DEF ToSet
<1> QED
  BY <1>4, <1>5, <1>6, <1>7 DEF q, s

\* The items of the four lists of a batch.
ClosedReport == [conn : Conn, reason : {"client_disconnected", "server_idle_timeout",
                                        "engine_requested"}]
Item == [conn : Conn, n : 1 .. MaxSend]
Timer == [id : TimerId, rem : Int]

\* A batch, list by list.
LEMMA BatchSets ==
   Batches = [new : Seq(Conn), closed : Seq(ClosedReport), inbound : Seq(Item), fired : Seq(Timer)]
BY DEF Batches, ClosedReport, Item, Timer

\* A batch in which one list is replaced is a batch.
LEMMA BatchWith ==
  ASSUME NEW b \in Batches
  PROVE  /\ b.new \in Seq(Conn) /\ b.closed \in Seq(ClosedReport)
         /\ b.inbound \in Seq(Item) /\ b.fired \in Seq(Timer)
         /\ \A w \in Seq(Conn) : [b EXCEPT !.new = w] \in Batches
         /\ \A x \in Seq(ClosedReport) : [b EXCEPT !.closed = x] \in Batches
         /\ \A y \in Seq(Item) : [b EXCEPT !.inbound = y] \in Batches
         /\ \A z \in Seq(ClosedReport), f \in Seq(Timer) :
              [b EXCEPT !.closed = z, !.fired = f] \in Batches
<1> DEFINE A == Seq(Conn)  B == Seq(ClosedReport)  C == Seq(Item)  D == Seq(Timer)
<1>1. Batches = [new : A, closed : B, inbound : C, fired : D]
  BY BatchSets
<1> HIDE DEF A, B, C, D
<1>2. /\ b.new \in A /\ b.closed \in B
      /\ b.inbound \in C /\ b.fired \in D
         /\ \A w \in A : [b EXCEPT !.new = w] \in Batches
         /\ \A x \in B : [b EXCEPT !.closed = x] \in Batches
         /\ \A y \in C : [b EXCEPT !.inbound = y] \in Batches
         /\ \A z \in B, f \in D :
              [b EXCEPT !.closed = z, !.fired = f] \in Batches
  BY <1>1
<1> QED
  BY Zenon, <1>2 DEF A, B, C, D

\* An empty batch is a batch.
LEMMA EmptyIsBatch == EmptyBatch \in Batches
BY DEF EmptyBatch, Batches

\* Types: the top of the iteration.
LEMMA TypeTop ==
  ASSUME TypeOK, Finite, NEW d \in Int, Top(d), jumps' \in 0 .. MaxJumps
  PROVE  TypeOK' /\ Finite'
<1>1. sinceStart' \in 0 .. AgeCap
  BY CapIsNat DEF Top, TypeOK, Smaller, Larger, Age
<1>2. sinceScan' \in Nat
  BY Numbers DEF Top, TypeOK, SinceScanAfter, ScanDue, ScanAge
<1>3. silence' \in [Conn -> Nat]
  <2>1. silence \in [Conn -> Nat]
    BY DEF TypeOK
  <2> QED
    BY <2>1 DEF Top, Larger, Age
<1>4. idle' \in [Conn -> 0 .. Inactivity]
  <2>1. idle \in [Conn -> 0 .. Inactivity]
    BY DEF TypeOK
  <2> QED
    BY <2>1, Numbers DEF Top, Larger, Smaller
<1>5. timers' \subseteq [id : TimerId, rem : Int] /\ IsFiniteSet(timers')
  <2> DEFINE f == [t \in timers |-> [t EXCEPT !.rem = @ - d]]
  <2>1. timers \subseteq [id : TimerId, rem : Int] /\ IsFiniteSet(timers)
    BY DEF TypeOK, Finite
  <2>2. timers' = {[t EXCEPT !.rem = @ - d] : t \in timers}
    BY DEF Top
  <2>3. f \in Surjection(timers, timers')
    BY <2>2 DEF Surjection
  <2>4. IsFiniteSet(timers')
    BY Zenon, <2>1, <2>3, FS_Surjection
  <2> QED
    BY <2>1, <2>2, <2>4
<1>6. batch' \in Batches
  <2>1. pendingCloses \in Seq(Conn)
    BY DEF TypeOK
  <2> DEFINE s == [k \in DOMAIN pendingCloses |->
                   [conn |-> pendingCloses[k], reason |-> "engine_requested"]]
             n == Len(pendingCloses)
  <2>2. /\ n \in Nat /\ DOMAIN pendingCloses = 1 .. n
        /\ \A k \in 1 .. n : pendingCloses[k] \in Conn
    BY <2>1
  <2>3. DOMAIN s = 1 .. n /\ \A k \in 1 .. n : s[k] \in ClosedReport
    BY <2>2 DEF ClosedReport
  <2>4. s = [k \in 1 .. n |-> s[k]]
    BY <2>2
  <2>5. batch' = [EmptyBatch EXCEPT !.closed = s]
    BY DEF Top
  <2> HIDE DEF s
  <2>6. s \in Seq(ClosedReport)
    BY Zenon, <2>2, <2>3, <2>4, ListOf
  <2> QED
    BY Zenon, <2>5, <2>6, EmptyIsBatch, BatchWith
<1>7. pc' \in {"scan", "drain"} /\ todo' \subseteq Conn /\ onDisk' \subseteq Conn
      /\ pendingCloses' = <<>>
  BY DEF Top, TypeOK
<1>8. UNCHANGED <<profiles, fifos, c2s, client, sending, sent, polling, got, conns,
                  outbox, output, told, heard, queued, greeted>>
  BY DEF Top, files, clients, engine
<1>9. pendingCloses' \in Seq(Conn)
  BY <1>7
<1> QED
  BY <1>1, <1>2, <1>3, <1>4, <1>5, <1>6, <1>7, <1>8, <1>9 DEF TypeOK, Finite

\* Types: a profile is taken up.
LEMMA TypeAdopt ==
  ASSUME TypeOK, Finite, NEW c \in Conn, Adopt(c)
  PROVE  TypeOK' /\ Finite'
<1>1. batch' \in Batches
  <2>1. batch \in Batches
    BY DEF TypeOK
  <2>2. batch' = [batch EXCEPT !.new = Append(batch.new, c)]
    BY DEF Adopt
  <2>3. batch.new \in Seq(Conn)
    BY <2>1, BatchWith
  <2>4. Append(batch.new, c) \in Seq(Conn)
    BY <2>3
  <2> QED
    BY Zenon, <2>1, <2>2, <2>4, BatchWith
<1>2. /\ c2s' \in [Conn -> Seq(0 .. MaxSend)]
      /\ polling' \in [Conn -> {"no", "seeking", "waiting", "empty", "orphaned"}]
  BY UnlinkType DEF Adopt
<1>3. IsFiniteSet(greeted')
  BY FS_AddElement DEF Adopt, Finite
<1> QED
  BY <1>1, <1>2, <1>3 DEF Adopt, TypeOK, Finite, engine

\* Types: the vanished profiles.
LEMMA TypeGone ==
  ASSUME TypeOK, Finite, Gone
  PROVE  TypeOK' /\ Finite'
<1> DEFINE gone == conns \ onDisk
<1>1. IsFiniteSet(gone) /\ gone \subseteq Conn
  BY FS_Subset DEF Finite, TypeOK
<1>2. Reports(gone, "client_disconnected") \in Seq(ClosedReport)
  BY <1>1, ReportsType DEF ClosedReport
<1>3. batch' \in Batches
  <2>1. batch \in Batches
    BY DEF TypeOK
  <2>2. batch.closed \in Seq(ClosedReport)
    BY <2>1, BatchWith
  <2>3. batch' = [batch EXCEPT !.closed = @ \o Reports(gone, "client_disconnected")]
    BY DEF Gone
  <2>4. batch.closed \o Reports(gone, "client_disconnected") \in Seq(ClosedReport)
    BY <1>2, <2>2, ConcatProperties
  <2> QED
    BY Zenon, <2>1, <2>3, <2>4, BatchWith
<1>4. /\ c2s' \in [Conn -> Seq(0 .. MaxSend)]
      /\ polling' \in [Conn -> {"no", "seeking", "waiting", "empty", "orphaned"}]
  BY UnlinkType DEF Gone
<1>5. /\ conns' \subseteq conns /\ conns' \subseteq Conn
      /\ outbox' \in [Conn -> Seq(1 .. MaxQueue)]
      /\ silence' \in [Conn -> Nat]
      /\ idle' \in [Conn -> 0 .. Inactivity]
  BY ForgetType DEF Gone
<1>6. /\ UNCHANGED <<profiles, client, sending, sent, got, sinceScan, sinceStart,
                     timers, pendingCloses, output, told, heard, queued, greeted, jumps>>
      /\ fifos' \subseteq fifos /\ todo' = conns' /\ onDisk' = {} /\ pc' = "drain"
  BY DEF Gone, engine
<1> QED
  BY <1>3, <1>4, <1>5, <1>6 DEF TypeOK, Finite

\* Types: one FIFO drained.
LEMMA TypeDrain ==
  ASSUME TypeOK, Finite, NEW c \in Conn, Drain(c)
  PROVE  TypeOK' /\ Finite'
<1> DEFINE m == Texts(c2s[c])
           new == [k \in DOMAIN m |-> [conn |-> c, n |-> m[k]]]
<1>1. m \in Seq(1 .. MaxSend)
  <2>1. c2s[c] \in Seq(Frame)
    BY DEF TypeOK, Frame
  <2> QED
    BY <2>1, TextsType, Numbers DEF Message
<1>2. batch' \in Batches
  <2>1. batch \in Batches
    BY DEF TypeOK
  <2>2. batch' = [batch EXCEPT !.inbound = @ \o new]
    BY DEF Drain
  <2> HIDE DEF m, new
  <2>3. /\ Len(m) \in Nat /\ DOMAIN m = 1 .. Len(m)
        /\ \A k \in 1 .. Len(m) : m[k] \in 1 .. MaxSend
    BY <1>1, LenProperties, ElementOfSeq
  <2>4. /\ DOMAIN new = 1 .. Len(m) /\ new = [k \in 1 .. Len(m) |-> new[k]]
        /\ \A k \in 1 .. Len(m) : new[k] \in Item
    BY <2>3 DEF Item, new
  <2> HIDE DEF new
  <2>5. new \in Seq(Item)
    BY Zenon, <2>3, <2>4, ListOf
  <2>6. batch.inbound \in Seq(Item)
    BY <2>1, BatchWith
  <2>7. batch.inbound \o new \in Seq(Item)
    BY <2>5, <2>6, ConcatProperties
  <2> QED
    BY Zenon, <2>1, <2>2, <2>7, BatchWith
<1>3. c2s' \in [Conn -> Seq(0 .. MaxSend)] /\ silence' \in [Conn -> Nat]
  BY DEF Drain, TypeOK
<1>4. /\ UNCHANGED <<profiles, fifos, client, sending, sent, polling, got, pc, onDisk, conns, outbox,
                 sinceScan, sinceStart, timers, pendingCloses, output,
                 told, heard, queued, greeted, idle, jumps>>
      /\ todo' \subseteq todo
  BY DEF Drain, clients, history, engine
<1> QED
  BY <1>2, <1>3, <1>4 DEF TypeOK, Finite

\* Types: silent clients and expired timers.
LEMMA TypeSweep ==
  ASSUME TypeOK, Finite, Sweep
  PROVE  TypeOK' /\ Finite'
<1>1. IsFiniteSet(Silent) /\ Silent \subseteq Conn /\ IsFiniteSet(Expired)
  BY FS_Subset DEF Finite, TypeOK, Silent, Expired
<1>2. Reports(Silent, "server_idle_timeout") \in Seq(ClosedReport)
  BY <1>1, ReportsType DEF ClosedReport
<1>3. batch' \in Batches
  <2>1. batch \in Batches
    BY DEF TypeOK
  <2>2. batch.closed \in Seq(ClosedReport)
    BY <2>1, BatchWith
  <2>3. PICK order \in SetToSeqs(Expired) :
          batch' = [batch EXCEPT
                      !.closed = @ \o Reports(Silent, "server_idle_timeout"),
                      !.fired = order]
    BY DEF Sweep
  <2>4. batch.closed \o Reports(Silent, "server_idle_timeout") \in Seq(ClosedReport)
    BY <1>2, <2>2, ConcatProperties
  <2>5. order \in Seq(Expired) /\ Expired \subseteq Timer
    BY <1>1, Ordered DEF TypeOK, Timer, Expired
  <2>6. order \in Seq(Timer)
    BY <2>5
  <2> QED
    BY Zenon, <2>1, <2>3, <2>4, <2>6, BatchWith
<1>4. /\ c2s' \in [Conn -> Seq(0 .. MaxSend)]
      /\ polling' \in [Conn -> {"no", "seeking", "waiting", "empty", "orphaned"}]
      /\ fifos' \subseteq fifos /\ profiles' \subseteq profiles
  BY UnlinkType DEF Sweep, Teardown
<1>5. /\ conns' \subseteq conns /\ conns' \subseteq Conn
      /\ outbox' \in [Conn -> Seq(1 .. MaxQueue)]
      /\ silence' \in [Conn -> Nat]
      /\ idle' \in [Conn -> 0 .. Inactivity]
  BY ForgetType DEF Sweep
<1>6. /\ UNCHANGED <<client, sending, sent, got, todo, onDisk, sinceScan, sinceStart,
                     pendingCloses, output, told, heard, queued, greeted, jumps>>
      /\ pc' = "engine" /\ timers' \subseteq timers
  BY DEF Sweep, engine
<1>7. IsFiniteSet(timers')
  BY <1>6, FS_Subset DEF Finite
<1> QED
  BY <1>3, <1>4, <1>5, <1>6, <1>7 DEF TypeOK, Finite

\* The messages of one engine output are numbered on from those before.
LEMMA OutboxesType ==
  ASSUME TypeOK, NEW o \in Outputs
  PROVE  /\ Outboxes(o) \in [Conn -> Seq(1 .. MaxQueue)]
         /\ [c \in Conn |-> IF c \in o.messages \cap conns
                              THEN queued[c] + 1 ELSE queued[c]] \in [Conn -> 0 .. MaxQueue]
<1>1. queued \in [Conn -> 0 .. MaxQueue] /\ outbox \in [Conn -> Seq(1 .. MaxQueue)]
  BY DEF TypeOK
<1>2. \A c \in Conn : c \in o.messages => queued[c] < MaxQueue
  BY DEF Outputs
<1>3. ASSUME NEW c \in Conn, c \in o.messages
      PROVE  queued[c] + 1 \in 1 .. MaxQueue
  BY <1>1, <1>2, <1>3, Numbers
<1>4. ASSUME NEW c \in Conn, c \in o.messages
      PROVE  Append(outbox[c], queued[c] + 1) \in Seq(1 .. MaxQueue)
  BY <1>1, <1>3, <1>4, AppendProperties
<1>5. ASSUME NEW c \in Conn
      PROVE  (IF c \in o.messages \cap conns THEN queued[c] + 1 ELSE queued[c]) \in 0 .. MaxQueue
  BY <1>1, <1>3, Numbers
<1>6. ASSUME NEW c \in Conn
      PROVE  (IF c \in o.messages \cap conns THEN Append(outbox[c], queued[c] + 1)
              ELSE outbox[c]) \in Seq(1 .. MaxQueue)
  BY <1>1, <1>4
<1> QED
  BY Zenon, <1>5, <1>6 DEF Outboxes

\* An engine output and the parts of it that are used.
LEMMA OutputsType ==
  ASSUME NEW o \in Outputs
  PROVE  /\ o \in [messages : SUBSET Conn, close : SUBSET Conn,
                   cancel : SUBSET TimerId,
                   add : SUBSET [id : TimerId, rem : Delay], shutdown : BOOLEAN]
         /\ o.messages \subseteq Conn /\ o.close \subseteq Conn
         /\ o.add \subseteq Timer /\ IsFiniteSet(o.add)
         /\ \A t \in o.add : t.rem \in Delay /\ t.rem \in Int
<1>1. /\ o \in [messages : SUBSET Conn, close : SUBSET Conn,
                   cancel : SUBSET TimerId,
                   add : SUBSET [id : TimerId, rem : Delay], shutdown : BOOLEAN]
      /\ IsFiniteSet(o.add)
  BY DEF Outputs
<1>2. o.messages \subseteq Conn /\ o.close \subseteq Conn
      /\ o.add \subseteq [id : TimerId, rem : Delay]
  BY <1>1
<1>3. Delay \subseteq Int
  BY Numbers
<1>4. \A t \in o.add : t \in [id : TimerId, rem : Delay] /\ t.rem \in Delay
  BY <1>2
<1>5. [id : TimerId, rem : Delay] \subseteq Timer
  BY <1>3 DEF Timer
<1> QED
  BY <1>1, <1>2, <1>3, <1>4, <1>5

\* Types: the engine is called.  (That heard stays within bounds needs more
\* than types: see InvCall.)
LEMMA TypeCall ==
  ASSUME TypeOK, Finite, NEW o \in Outputs, Call(o),
         heard' \in [Conn -> 0 .. MaxSend]
  PROVE  TypeOK' /\ Finite'
<1> DEFINE closing == o.close \cap conns
<1>1. IsFiniteSet(closing) /\ closing \subseteq Conn
  BY FS_Subset DEF Finite, TypeOK
<1>2. pendingCloses' \in Seq(Conn)
  <2>1. pendingCloses' = SetToSeq(closing)
    BY DEF Call, Deferred
  <2>2. SetToSeq(closing) \in Seq(closing)
    BY <1>1, Listed
  <2> QED
    BY <1>1, <2>1, <2>2
<1>3. /\ c2s' \in [Conn -> Seq(0 .. MaxSend)]
      /\ polling' \in [Conn -> {"no", "seeking", "waiting", "empty", "orphaned"}]
      /\ fifos' \subseteq fifos /\ profiles' \subseteq profiles
  BY UnlinkType DEF Call, Teardown
<1>4. /\ outbox' \in [Conn -> Seq(1 .. MaxQueue)]
      /\ queued' \in [Conn -> 0 .. MaxQueue]
  <2>1. <<>> \in Seq(1 .. MaxQueue)
    OBVIOUS
  <2>2. outbox' = Reset(Outboxes(o), closing, <<>>)
    BY DEF Call
  <2>3. queued' \in [Conn -> 0 .. MaxQueue]
    BY OutboxesType DEF Call
  <2> QED
    BY <2>1, <2>2, <2>3, OutboxesType DEF Reset
<1>5. silence' \in [Conn -> Nat] /\ idle' \in [Conn -> 0 .. Inactivity]
  <2>1. silence \in [Conn -> Nat] /\ idle \in [Conn -> 0 .. Inactivity]
    BY DEF TypeOK
  <2>2. 0 \in 0 .. Inactivity
    BY Numbers
  <2> QED
    BY <2>1, <2>2 DEF Call, Reset
<1>6. timers' \subseteq [id : TimerId, rem : Int] /\ IsFiniteSet(timers')
  <2>1. timers' = {t \in timers : t.id \notin o.cancel} \cup o.add
    BY DEF Call, Timers
  <2>2. IsFiniteSet({t \in timers : t.id \notin o.cancel})
    BY FS_Subset DEF Finite
  <2>3. timers \subseteq Timer
    BY DEF TypeOK, Timer
  <2> QED
    BY <2>1, <2>2, <2>3, FS_Union, OutputsType DEF Timer
<1>7. told' \in [Conn -> {"unseen", "open", "closed"}]
  BY DEF Call, ToldAfter, TypeOK
<1>8. /\ UNCHANGED <<client, sending, sent, got, onDisk, sinceScan, sinceStart,
                     batch, greeted, jumps>>
      /\ output' = o /\ pc' = "polls" /\ conns' \subseteq conns /\ todo' = conns'
  BY DEF Call
<1>9. /\ output' \in [messages : SUBSET Conn, close : SUBSET Conn,
                   cancel : SUBSET TimerId,
                   add : SUBSET [id : TimerId, rem : Delay], shutdown : BOOLEAN]
  BY <1>8, OutputsType
<1> QED
  BY <1>2, <1>3, <1>4, <1>5, <1>6, <1>7, <1>8, <1>9 DEF TypeOK, Finite

\* Types: a poll is answered.
LEMMA TypeServe ==
  ASSUME TypeOK, Finite, NEW c \in Conn, ServePoll(c)
  PROVE  TypeOK' /\ Finite'
<1>1. got' \in [Conn -> Seq(1 .. MaxQueue)]
  <2>1. got \in [Conn -> Seq(1 .. MaxQueue)] /\ outbox \in [Conn -> Seq(1 .. MaxQueue)]
    BY DEF TypeOK
  <2>2. got[c] \o outbox[c] \in Seq(1 .. MaxQueue)
    BY <2>1, ConcatProperties
  <2> QED
    BY <2>1, <2>2 DEF ServePoll
<1>2. polling' \in [Conn -> {"no", "seeking", "waiting", "empty", "orphaned"}]
  BY DEF ServePoll, TypeOK, Answered
<1>3. outbox' \in [Conn -> Seq(1 .. MaxQueue)] /\ silence' \in [Conn -> Nat]
  <2>1. outbox \in [Conn -> Seq(1 .. MaxQueue)] /\ silence \in [Conn -> Nat]
        /\ <<>> \in Seq(1 .. MaxQueue)
    BY DEF TypeOK
  <2> QED
    BY <2>1 DEF ServePoll
<1>4. idle' \in [Conn -> 0 .. Inactivity]
  <2>1. idle \in [Conn -> 0 .. Inactivity] /\ 0 \in 0 .. Inactivity
    BY Numbers DEF TypeOK
  <2> QED
    BY <2>1 DEF ServePoll
<1>5. /\ UNCHANGED <<profiles, fifos, c2s, client, sending, sent, pc, onDisk, conns, sinceScan,
                     sinceStart, timers, pendingCloses, batch, output, told, heard, queued,
                     greeted, jumps>>
      /\ todo' \subseteq todo
  BY DEF ServePoll, files, engine
<1> QED
  BY <1>1, <1>2, <1>3, <1>4, <1>5 DEF TypeOK, Finite

\* No output is an output.
LEMMA NothingOut ==
  NoOutput \in [messages : SUBSET Conn, close : SUBSET Conn,
                cancel : SUBSET TimerId,
                add : SUBSET [id : TimerId, rem : Delay], shutdown : BOOLEAN]
BY DEF NoOutput

\* Types: the ways out and the crash.
LEMMA TypeStop ==
  ASSUME TypeOK, Finite, Shutdown \/ IdleLeave \/ Crash
  PROVE  TypeOK' /\ Finite'
<1>1. Stop
  BY DEF Shutdown, IdleLeave, Crash
<1>2. /\ c2s' \in [Conn -> Seq(0 .. MaxSend)]
      /\ polling' \in [Conn -> {"no", "seeking", "waiting", "empty", "orphaned"}]
      /\ profiles' \subseteq profiles /\ fifos' \subseteq fifos
  <2>1. CASE Shutdown
    BY <2>1, UnlinkType DEF Shutdown, Teardown
  <2>2. CASE IdleLeave
    BY <2>2 DEF IdleLeave, TypeOK, files
  <2>3. CASE Crash
    <3>1. <<>> \in Seq(0 .. MaxSend)
      OBVIOUS
    <3> QED
      BY <2>3, <3>1 DEF Crash, TypeOK
  <2> QED
    BY <2>1, <2>2, <2>3
<1>3. /\ conns' \subseteq conns /\ conns' \subseteq Conn
      /\ outbox' \in [Conn -> Seq(1 .. MaxQueue)]
      /\ silence' \in [Conn -> Nat]
      /\ idle' \in [Conn -> 0 .. Inactivity]
  BY <1>1, ForgetType DEF Stop
<1>4. /\ timers' = {} /\ pendingCloses' = <<>> /\ batch' = EmptyBatch /\ output' = NoOutput
      /\ pc' = "down" /\ todo' = {} /\ onDisk' = {} /\ sinceScan' = 0 /\ sinceStart' = 0
      /\ told' = [c \in Conn |-> "unseen"] /\ heard' = [c \in Conn |-> 0]
      /\ UNCHANGED <<client, sending, sent, got, queued, greeted, jumps>>
  BY <1>1 DEF Stop
<1>5. IsFiniteSet(timers') /\ timers' \subseteq [id : TimerId, rem : Int]
  BY <1>4, FS_EmptySet
<1>6. pendingCloses' \in Seq(Conn) /\ sinceScan' \in Nat /\ sinceStart' \in 0 .. AgeCap
      /\ heard' \in [Conn -> 0 .. MaxSend] /\ told' \in [Conn -> {"unseen", "open", "closed"}]
  BY <1>4, CapIsNat, Numbers
<1> QED
  BY <1>2, <1>3, <1>4, <1>5, <1>6, EmptyIsBatch, NothingOut DEF TypeOK, Finite

\* Types: the steps that change little.
LEMMA TypeOthers ==
  ASSUME TypeOK, Finite
  PROVE  /\ Quiet => TypeOK' /\ Finite'
         /\ Sleep => TypeOK' /\ Finite'
         /\ Start => TypeOK' /\ Finite'
         /\ \A c \in Conn : Skip(c) \/ PassBy(c) => TypeOK' /\ Finite'
<1> USE DEF TypeOK, Finite, files, clients, loop, engine, history
<1>1. ASSUME Quiet PROVE TypeOK' /\ Finite'
  BY <1>1 DEF Quiet
<1>2. ASSUME Sleep PROVE TypeOK' /\ Finite'
  BY <1>2, EmptyIsBatch, NothingOut DEF Sleep
<1>3. ASSUME Start PROVE TypeOK' /\ Finite'
  BY <1>3, Numbers DEF Start
<1>4. ASSUME NEW c \in Conn, Skip(c) PROVE TypeOK' /\ Finite'
  BY <1>4 DEF Skip
<1>5. ASSUME NEW c \in Conn, PassBy(c) PROVE TypeOK' /\ Finite'
  BY <1>5 DEF PassBy
<1> QED
  BY <1>1, <1>2, <1>3, <1>4, <1>5

-----------------------------------------------------------------------------
(* The inductive invariant, in parts.                                      *)

\* The batch is being collected, or waits for the engine.
Collecting == pc \in {"scan", "drain", "engine"}

\* The connections a list of reports is about ...
ConnsIn(reports) == {reports[k].conn : k \in DOMAIN reports}

\* ... each in one report.
OnceEach(reports) ==
  \A j, k \in DOMAIN reports : reports[j].conn = reports[k].conn => j = k

\* Where in a list of messages those of c are ...
Of(items, c) == {k \in DOMAIN items : items[k].conn = c}

\* ... up to place k ...
Before(items, c, k) == {j \in Of(items, c) : j <= k}

\* ... and how many of them the engine is yet to hear.
Taken(c) == IF pc = "polls" THEN 0 ELSE Cardinality(Of(batch.inbound, c))

\* Between two iterations there is neither a batch nor an output.
Idle == pc \in {"down", "top"} => batch = EmptyBatch /\ output = NoOutput

\* No process, no memory.
Down ==
  pc = "down" => /\ conns = {} /\ timers = {} /\ pendingCloses = <<>>
                 /\ todo = {}
                 /\ \A c \in Conn : told[c] = "unseen"

\* What each phase may rely on.  The scan: every connection still to visit is
\* listed and not served, and a served connection whose profile exists is in
\* the listing, so that Gone does not take it for closed.  The scan and the
\* drain: nothing has fired yet, and who just connected is not silent.
Phases ==
  /\ Collecting => output = NoOutput /\ pendingCloses = <<>>
  /\ pc = "scan" => /\ todo \subseteq onDisk /\ todo \cap conns = {}
                    /\ conns \cap profiles \subseteq onDisk
                    /\ ToSet(batch.new) \subseteq onDisk
                    /\ batch.inbound = <<>>
  /\ pc = "drain" => todo \subseteq conns
  /\ pc \in {"scan", "drain"} => /\ batch.fired = <<>>
                                 /\ \A c \in ToSet(batch.new) : silence[c] = 0

\* What has not been served is new to everybody.  While the service runs, a
\* profile of a connection that was served belongs to one that still is: the
\* ids are not used twice and the start purges the others.
Fresh ==
  /\ conns \subseteq fifos
  /\ \A c \in greeted \cup profiles : client[c] # "new"
  /\ \A c \in Conn \ greeted : /\ told[c] = "unseen" /\ sent[c] = 0
                               /\ queued[c] = 0 /\ got[c] = <<>>
  /\ pc # "down" => profiles \cap greeted \subseteq conns

\* A connection that is not served has no frames, no outbox and no age.
Empty ==
  \A c \in Conn \ conns :
    c2s[c] = <<>> /\ outbox[c] = <<>> /\ silence[c] = 0 /\ idle[c] = 0

\* The connections whose end is known or about to be told, from the moment
\* of the decision on; not only from the moment the engine was told.
Ended ==
  {c \in Conn : told[c] = "closed"} \cup ToSet(pendingCloses)
    \cup (IF Collecting THEN ConnsIn(batch.closed) ELSE {})

\* Of these nothing is left.  (ClosedLeavesNothing alone is not inductive: a
\* close waits in pendingCloses or in the batch before it is told.)
EndedLeaveNothing == Ended \cap (profiles \cup fifos \cup conns) = {}

\* What the engine knows, compared with the map: a connection is open for the
\* engine just when it is served, but for the news it is yet to hear.
Told ==
  /\ pc \in {"top", "polls"} =>
       \A c \in Conn : told[c] = "open" <=> c \in conns \cup ToSet(pendingCloses)
  /\ Collecting =>
       /\ \A c \in Conn : told[c] = "open"
                            <=> c \in (conns \ ToSet(batch.new))
                                        \cup ConnsIn(batch.closed)
       /\ ToSet(batch.new) \subseteq conns
       /\ \A c \in ToSet(batch.new) : told[c] = "unseen"
       /\ IsInjective(batch.new)
       /\ OnceEach(batch.closed)
  /\ IsInjective(pendingCloses)
  /\ \A c \in Conn : told[c] = "unseen" => heard[c] = 0

\* A message in the batch is the one after those of its connection that came
\* before it; all of them come from one drain of one FIFO.
Numbered ==
  Collecting => \A k \in DOMAIN batch.inbound :
    LET c == batch.inbound[k].conn
    IN  /\ c \in conns
        /\ pc = "drain" => c \notin todo /\ silence[c] = 0
        /\ batch.inbound[k].n = heard[c] + Cardinality(Before(batch.inbound, c, k))

\* The numbers after h, up to n.
Between(h, n) == [k \in 1 .. n - h |-> h + k]

\* No message of a served connection is anywhere but with the engine, in the
\* batch or in its FIFO, and they are in the order of sending.
InTransit ==
  \A c \in conns :
    /\ heard[c] + Taken(c) <= sent[c]
    /\ Texts(c2s[c]) = Between(heard[c] + Taken(c), sent[c])

\* When the engine is called, the timers that expired are the ones that fire.
Armed ==
  pc = "engine" =>
    /\ \A t \in timers : t.rem > 0
    /\ \A t \in ToSet(batch.fired) : t.rem <= 0
    /\ IsInjective(batch.fired)
    /\ \A j, k \in DOMAIN batch.fired :
         j < k => batch.fired[j].rem <= batch.fired[k].rem

\* A connection that looks silent for longer than it has been has a frame
\* waiting: silence starts over with a drained frame, idle with a written one.
Quiets ==
  \A c \in conns : c2s[c] # <<>> \/ silence[c] <= idle[c] \/ idle[c] = Inactivity

\* The inductive invariant.
Inv ==
  /\ TypeOK /\ Finite /\ SendsAreBounded
  /\ Idle /\ Down /\ Phases /\ Fresh /\ Empty /\ EndedLeaveNothing
  /\ Told /\ Numbered /\ InTransit /\ Armed /\ Quiets

-----------------------------------------------------------------------------
(* Lists of reports and of messages.                                       *)

\* The reports of closes the engine itself ordered.
EngineOnes(reports) ==
  {reports[k].conn : k \in {j \in DOMAIN reports : reports[j].reason = "engine_requested"}}

\* About empty lists.
LEMMA Nothing ==
  /\ ToSet(<<>>) = {} /\ ConnsIn(<<>>) = {} /\ EngineOnes(<<>>) = {} /\ OnceEach(<<>>)
  /\ IsInjective(<<>>) /\ DOMAIN <<>> = {}
  /\ EmptyBatch.new = <<>> /\ EmptyBatch.closed = <<>>
  /\ EmptyBatch.inbound = <<>> /\ EmptyBatch.fired = <<>>
<1>1. DOMAIN <<>> = {}
  OBVIOUS
<1> QED
  BY <1>1 DEF ToSet, ConnsIn, EngineOnes, OnceEach, IsInjective, EmptyBatch

\* Reports added behind others: their connections join, and only they.
LEMMA MoreReports ==
  ASSUME NEW q \in Seq(ClosedReport), NEW S, S \subseteq Conn, IsFiniteSet(S),
         NEW why \in {"client_disconnected", "server_idle_timeout",
                      "engine_requested"}
  PROVE  LET r == q \o Reports(S, why)
         IN  /\ ConnsIn(r) = ConnsIn(q) \cup S
             /\ OnceEach(q) /\ ConnsIn(q) \cap S = {} => OnceEach(r)
             /\ why # "engine_requested" => EngineOnes(r) = EngineOnes(q)
             /\ \A x \in ToSet(r) \ ToSet(q) : x.conn \in S /\ x.reason = why
<1> DEFINE a == Reports(S, why)  r == q \o a  n == Len(q)  m == Len(a)
<1>1. /\ a \in Seq(ClosedReport)
      /\ {x.conn : x \in ToSet(a)} = S
      /\ \A x \in ToSet(a) : x.reason = why
      /\ \A j, k \in DOMAIN a : a[j].conn = a[k].conn => j = k
  BY ReportsType DEF ClosedReport
<1> HIDE DEF a
<1>2. /\ n \in Nat /\ m \in Nat /\ DOMAIN q = 1 .. n /\ DOMAIN a = 1 .. m
      /\ DOMAIN r = 1 .. n + m
      /\ \A k \in 1 .. n : r[k] = q[k]
      /\ \A k \in 1 .. m : r[n + k] = a[k]
  BY <1>1
<1> HIDE DEF r, n, m
<1>3. /\ \A k \in 1 .. n + m : k \in 1 .. n \/ (k - n \in 1 .. m /\ k = n + (k - n))
      /\ \A k \in 1 .. n : k \in 1 .. n + m
      /\ \A k \in 1 .. m : n + k \in 1 .. n + m
  BY <1>2
<1>4. \A k \in 1 .. m : a[k].conn \in S /\ a[k].reason = why
  BY <1>1, <1>2 DEF ToSet
<1>5. \A c \in S : \E k \in 1 .. m : a[k].conn = c
  BY <1>1, <1>2 DEF ToSet
<1>6. \A k \in 1 .. n + m : \/ k \in 1 .. n /\ r[k] = q[k]
                            \/ k - n \in 1 .. m /\ r[k] = a[k - n]
  BY <1>2, <1>3
<1>7. ConnsIn(r) = ConnsIn(q) \cup S
  <2>1. ConnsIn(r) \subseteq ConnsIn(q) \cup S
    BY <1>2, <1>4, <1>6 DEF ConnsIn
  <2>2. ConnsIn(q) \subseteq ConnsIn(r)
    BY <1>2, <1>3 DEF ConnsIn
  <2>3. S \subseteq ConnsIn(r)
    BY <1>2, <1>3, <1>5 DEF ConnsIn
  <2> QED
    BY <2>1, <2>2, <2>3
<1>8. ASSUME OnceEach(q), ConnsIn(q) \cap S = {}
      PROVE  OnceEach(r)
  <2> SUFFICES ASSUME NEW j \in 1 .. n + m, NEW k \in 1 .. n + m, r[j].conn = r[k].conn
               PROVE  j = k
    BY <1>2 DEF OnceEach
  <2>1. CASE j \in 1 .. n /\ k \in 1 .. n
    BY <1>2, <1>8, <2>1 DEF OnceEach
  <2>2. CASE j \in 1 .. n /\ k \notin 1 .. n
    <3>1. r[j].conn \in ConnsIn(q)
      BY <1>2, <2>2 DEF ConnsIn
    <3>2. r[k].conn \in S
      BY <1>4, <1>6, <2>2
    <3> QED
      BY <1>8, <3>1, <3>2
  <2>3. CASE j \notin 1 .. n /\ k \in 1 .. n
    <3>1. r[k].conn \in ConnsIn(q)
      BY <1>2, <2>3 DEF ConnsIn
    <3>2. r[j].conn \in S
      BY <1>4, <1>6, <2>3
    <3> QED
      BY <1>8, <3>1, <3>2
  <2>4. CASE j \notin 1 .. n /\ k \notin 1 .. n
    <3>1. j - n \in DOMAIN a /\ k - n \in DOMAIN a /\ a[j - n].conn = a[k - n].conn
      BY <1>2, <1>6, <2>4
    <3>2. j - n = k - n
      BY <1>1, <3>1
    <3> QED
      BY <1>2, <3>2
  <2> QED
    BY <2>1, <2>2, <2>3, <2>4
<1>9. ASSUME why # "engine_requested"
      PROVE  EngineOnes(r) = EngineOnes(q)
  <2>1. \A k \in 1 .. n + m : r[k].reason = "engine_requested" => k \in 1 .. n /\ r[k] = q[k]
    BY <1>4, <1>6, <1>9
  <2> QED
    BY <1>2, <1>3, <2>1 DEF EngineOnes
<1>10. \A x \in ToSet(r) \ ToSet(q) : x.conn \in S /\ x.reason = why
  BY <1>2, <1>4, <1>6 DEF ToSet
<1> QED
  BY <1>7, <1>8, <1>9, <1>10 DEF r, a

\* The closes the engine ordered, as they are reported.
LEMMA DeferredReports ==
  ASSUME NEW s \in Seq(Conn)
  PROVE  LET r == [k \in DOMAIN s |-> [conn |-> s[k], reason |-> "engine_requested"]]
         IN  /\ ConnsIn(r) = ToSet(s) /\ EngineOnes(r) = ToSet(s)
             /\ IsInjective(s) => OnceEach(r)
<1> DEFINE n == Len(s)
           r == [k \in DOMAIN s |-> [conn |-> s[k], reason |-> "engine_requested"]]
<1>1. DOMAIN s = 1 .. n /\ DOMAIN r = 1 .. n
      /\ \A k \in 1 .. n : r[k].conn = s[k] /\ r[k].reason = "engine_requested"
  OBVIOUS
<1> HIDE DEF r
<1> QED
  BY <1>1 DEF ConnsIn, EngineOnes, OnceEach, IsInjective, ToSet, r

-----------------------------------------------------------------------------
(* The invariant at first and in the steps of the clients.                 *)

\* Everything a batch, a phase or the engine's knowledge is about.
Untouched == UNCHANGED <<fifos, pc, todo, onDisk, conns, silence, timers, pendingCloses,
                         batch, output, told, heard, queued, greeted, outbox>>

\* Whoever is served, or has ended, was greeted.
LEMMA HereIsGreeted ==
  ASSUME Inv
  PROVE  /\ conns \subseteq greeted /\ Ended \subseteq greeted
         /\ ConnsIn(batch.closed) \subseteq Conn
<1>1. conns \subseteq greeted
  BY DEF Inv, Finite
<1>2. \A c \in Conn : told[c] # "unseen" => c \in greeted
  BY DEF Inv, Fresh
<1>3. batch.closed \in Seq(ClosedReport) /\ pendingCloses \in Seq(Conn)
  BY BatchWith DEF Inv, TypeOK
<1>4. ConnsIn(batch.closed) \subseteq Conn
  <2>1. \A k \in DOMAIN batch.closed : batch.closed[k] \in ClosedReport
    BY <1>3
  <2> QED
    BY <2>1 DEF ConnsIn, ClosedReport
<1>5. ToSet(pendingCloses) \subseteq Conn
  BY <1>3 DEF ToSet
<1>6. Collecting => ConnsIn(batch.closed) \subseteq greeted
  BY <1>1, <1>2, <1>4 DEF Inv, Told
<1>8. ToSet(pendingCloses) \subseteq greeted
  <2>1. CASE pc \in {"top", "polls"}
    BY <1>2, <1>5, <2>1 DEF Inv, Told
  <2>2. CASE pc = "down" \/ Collecting
    BY <2>2, Nothing DEF Inv, Down, Phases
  <2> QED
    BY <2>1, <2>2 DEF Inv, TypeOK, Collecting
<1> QED
  BY <1>1, <1>2, <1>4, <1>6, <1>8 DEF Ended

\* How many messages of a connection a batch holds is a number.
LEMMA TakenType ==
  ASSUME TypeOK, NEW c
  PROVE  Taken(c) \in Nat /\ Cardinality(Of(batch.inbound, c)) \in Nat /\ IsFiniteSet(Of(batch.inbound, c))
<1>1. batch.inbound \in Seq(Item)
  BY BatchWith DEF TypeOK
<1>2. /\ IsFiniteSet(1 .. Len(batch.inbound))
      /\ DOMAIN batch.inbound = 1 .. Len(batch.inbound)
  BY <1>1, FS_Interval
<1>3. IsFiniteSet(Of(batch.inbound, c))
  BY <1>2, FS_Subset DEF Of
<1> QED
  BY <1>3, FS_CardinalityType DEF Taken

\* Sending one more message, and having none in transit.
LEMMA Counting ==
  ASSUME NEW h \in Nat, NEW n \in Nat, h <= n
  PROVE  /\ Append(Between(h, n), n + 1) = Between(h, n + 1)
         /\ Between(n, n) = <<>>
         /\ Between(h, n) \in Seq(Nat) /\ Len(Between(h, n)) = n - h
         /\ \A k \in 1 .. n - h : Between(h, n)[k] = h + k
<1> DEFINE s == [k \in 1 .. n - h |-> h + k]
           t == [k \in 1 .. n + 1 - h |-> h + k]
           m == n - h
<1>1. m \in Nat /\ n + 1 - h = m + 1 /\ n - h = m
  OBVIOUS
<1>2. s \in Seq(Nat) /\ Len(s) = m /\ t \in Seq(Nat) /\ Len(t) = m + 1
  BY <1>1
<1>3. /\ \A k \in 1 .. m : s[k] = h + k
      /\ \A k \in 1 .. m + 1 : t[k] = h + k
  BY <1>1
<1> DEFINE a == Append(s, n + 1)
<1> HIDE DEF s, t, m
<1>4. /\ a \in Seq(Nat) /\ Len(a) = m + 1
      /\ (\A k \in 1 .. m : a[k] = s[k]) /\ a[m + 1] = n + 1
  BY <1>1, <1>2
<1>5. n + 1 = h + (m + 1)
  BY <1>1
<1> HIDE DEF a
<1>6. \A k \in 1 .. m + 1 : a[k] = t[k]
  BY <1>1, <1>3, <1>4, <1>5
<1>7. a = t
  BY <1>2, <1>4, <1>6, SeqEqual
<1>8. [k \in 1 .. n - n |-> n + k] = <<>>
  OBVIOUS
<1> QED
  BY <1>1, <1>2, <1>3, <1>7, <1>8 DEF a, s, t, m, Between

\* The invariant holds at first.
LEMMA InvInit == Init => Inv
<1> SUFFICES ASSUME Init PROVE Inv
  OBVIOUS
<1>1. TypeOK /\ Finite
  BY TypeInit
<1>2. /\ SendsAreBounded /\ Idle /\ Down /\ Phases /\ Empty /\ Numbered /\ Armed
      /\ Fresh
  BY DEF Init, SendsAreBounded, Idle, Down, Phases, Empty, Numbered, Armed, Fresh, Collecting
<1>3. EndedLeaveNothing /\ Told
  BY Nothing DEF Init, EndedLeaveNothing, Ended, Told, Collecting
<1>4. InTransit /\ Quiets
  BY DEF Init, InTransit, Quiets
<1> QED
  BY <1>1, <1>2, <1>3, <1>4 DEF Inv

\* What the clients do touches nothing of the loop's.
LEMMA InvUntouched ==
  ASSUME Inv, Untouched
  PROVE  Idle' /\ Down' /\ Told' /\ Numbered' /\ Armed'
<1> USE DEF Untouched
<1>1. Idle' /\ Down' /\ Armed'
  BY DEF Inv, Idle, Down, Armed
<1>2. Told'
  BY DEF Inv, Told, Collecting, ConnsIn, OnceEach
<1>3. Numbered'
  BY DEF Inv, Numbered, Collecting, Of, Before
<1> QED
  BY <1>1, <1>2, <1>3

\* The invariant survives: a step of a client program.
LEMMA InvRequest ==
  ASSUME Inv, NEW c \in Conn, Request(c)
  PROVE  Inv'
<1>1. TypeOK' /\ Finite'
  BY TypeRequest DEF Inv
<1>2. Untouched
  BY DEF Request, Connect, Close, SendStart, SendWrite, SendFail, PollStart, PollOpen,
         PollFail, PollAgain, PollEnd, SetPolling, Untouched, files, clients, loop, engine,
         history
<1>3. Idle' /\ Down' /\ Told' /\ Numbered' /\ Armed'
  BY <1>2, InvUntouched
<1>4. CASE Connect(c)
  <2>1. /\ profiles' = profiles \cup {c} /\ client[c] = "new"
        /\ client' = [client EXCEPT ![c] = "connected"]
        /\ UNCHANGED <<c2s, sending, sent, got, idle>>
    BY <1>4 DEF Connect, history
  <2>2. c \notin greeted /\ c \notin conns /\ c \notin Ended
    BY <2>1, HereIsGreeted DEF Inv, Fresh
  <2>3. Phases'
    BY <1>2, <2>1, <2>2 DEF Inv, Phases, Untouched, Collecting
  <2>4. Fresh'
    BY <1>2, <2>1, <2>2 DEF Inv, Fresh, Untouched, TypeOK
  <2>5. EndedLeaveNothing'
    BY <1>2, <2>1, <2>2 DEF Inv, EndedLeaveNothing, Ended, Untouched, Collecting, ConnsIn
  <2>6. Empty' /\ Quiets' /\ SendsAreBounded'
    BY <1>2, <2>1 DEF Inv, Empty, Quiets, Untouched, SendsAreBounded
  <2>7. InTransit'
    BY <1>2, <2>1 DEF Inv, InTransit, Taken, Of, Untouched
  <2> QED
    BY <1>1, <1>3, <2>3, <2>4, <2>5, <2>6, <2>7 DEF Inv
<1>5. CASE Close(c)
  <2>1. /\ profiles' = profiles \ {c}
        /\ client' = [client EXCEPT ![c] = "closed"]
        /\ UNCHANGED <<c2s, sending, sent, got, idle>>
    BY <1>5 DEF Close, history
  <2>3. Phases'
    BY <1>2, <2>1 DEF Inv, Phases, Untouched, Collecting
  <2>4. Fresh'
    BY <1>2, <2>1 DEF Inv, Fresh, Untouched, TypeOK
  <2>5. EndedLeaveNothing'
    BY <1>2, <2>1 DEF Inv, EndedLeaveNothing, Ended, Untouched, Collecting, ConnsIn
  <2>6. Empty' /\ Quiets' /\ SendsAreBounded'
    BY <1>2, <2>1 DEF Inv, Empty, Quiets, Untouched, SendsAreBounded
  <2>7. InTransit'
    BY <1>2, <2>1 DEF Inv, InTransit, Taken, Of, Untouched
  <2> QED
    BY <1>1, <1>3, <2>3, <2>4, <2>5, <2>6, <2>7 DEF Inv
<1>6. CASE \/ SendStart(c) \/ SendFail(c) \/ PollStart(c) \/ PollOpen(c) \/ PollFail(c)
           \/ PollAgain(c)
  <2>1. UNCHANGED <<profiles, client, c2s, sent, got, idle>>
    BY <1>6 DEF SendStart, SendFail, PollStart, PollOpen, PollFail, PollAgain, SetPolling,
                files, history
  <2>2. SendsAreBounded'
    BY <1>6 DEF Inv, SendsAreBounded, SendStart, SendFail, PollStart, PollOpen, PollFail,
                PollAgain, SetPolling, TypeOK
  <2>3. Phases'
    BY <1>2, <2>1 DEF Inv, Phases, Untouched, Collecting
  <2>4. Fresh'
    BY <1>2, <2>1 DEF Inv, Fresh, Untouched
  <2>5. EndedLeaveNothing'
    BY <1>2, <2>1 DEF Inv, EndedLeaveNothing, Ended, Untouched, Collecting, ConnsIn
  <2>6. Empty' /\ Quiets'
    BY <1>2, <2>1 DEF Inv, Empty, Quiets, Untouched
  <2>7. InTransit'
    BY <1>2, <2>1 DEF Inv, InTransit, Taken, Of, Untouched
  <2> QED
    BY <1>1, <1>3, <2>2, <2>3, <2>4, <2>5, <2>6, <2>7 DEF Inv
<1>7. CASE SendWrite(c)
  <2>1. /\ UNCHANGED <<profiles, client, got>>
        /\ sending' = [sending EXCEPT ![c] = FALSE]
        /\ sent' = [sent EXCEPT ![c] = @ + 1]
        /\ c2s' = [c2s EXCEPT ![c] = Append(@, sent[c] + 1)]
        /\ idle' = [idle EXCEPT ![c] = 0]
        /\ c \in conns /\ sending[c]
    BY <1>7 DEF SendWrite, Served
  <2>2. sending \in [Conn -> BOOLEAN] /\ sent \in [Conn -> 0 .. MaxSend]
        /\ c2s \in [Conn -> Seq(Frame)] /\ idle \in [Conn -> 0 .. Inactivity]
        /\ heard \in [Conn -> 0 .. MaxSend]
    BY DEF Inv, TypeOK, Frame
  <2>3. SendsAreBounded'
    BY <2>1, <2>2 DEF Inv, SendsAreBounded
  <2>4. Phases'
    BY <1>2, <2>1 DEF Inv, Phases, Untouched, Collecting
  <2>5. Fresh'
    BY <1>2, <2>1, <2>2, HereIsGreeted DEF Inv, Fresh, Untouched
  <2>6. EndedLeaveNothing'
    BY <1>2, <2>1 DEF Inv, EndedLeaveNothing, Ended, Untouched, Collecting, ConnsIn
  <2>7. Empty'
    BY <1>2, <2>1, <2>2 DEF Inv, Empty, Untouched
  <2>8. c2s'[c] # <<>>
    <3>1. c2s[c] \in Seq(Frame) /\ sent[c] + 1 \in Frame
      BY <2>1, <2>2, Numbers DEF Inv, SendsAreBounded, Frame
    <3>2. Append(c2s[c], sent[c] + 1) # <<>>
      BY <3>1, AppendProperties
    <3> QED
      BY <2>1, <2>2, <3>2
  <2>9. Quiets'
    BY <1>2, <2>1, <2>2, <2>8 DEF Inv, Quiets, Untouched
  <2>10. InTransit'
    <3>1. SUFFICES ASSUME NEW e \in conns
          PROVE  /\ heard[e] + Taken(e) <= sent'[e]
                 /\ Texts(c2s'[e]) = Between(heard[e] + Taken(e), sent'[e])
      BY <1>2 DEF InTransit, Untouched, Taken, Of
    <3>2. /\ heard[e] + Taken(e) <= sent[e]
          /\ Texts(c2s[e]) = Between(heard[e] + Taken(e), sent[e])
      BY DEF Inv, InTransit
    <3>3. CASE e # c
      BY <2>1, <2>2, <3>2, <3>3
    <3>4. CASE e = c
      <4>1. sent[c] + 1 \in 1 .. MaxSend /\ sent[c] \in Nat /\ heard[c] \in Nat
        BY <2>1, <2>2, Numbers DEF Inv, SendsAreBounded
      <4>2. Texts(c2s'[c]) = Append(Texts(c2s[c]), sent[c] + 1)
        BY <2>1, <2>2, <4>1, TextsOfOneMore, Numbers DEF Frame
      <4>3. sent'[c] = sent[c] + 1
        BY <2>1, <2>2
      <4>4. Taken(c) \in Nat
        BY TakenType DEF Inv
      <4> DEFINE h == heard[c] + Taken(c)
      <4>5. h \in Nat /\ h <= sent[c]
        BY <3>2, <3>4, <4>1, <4>4
      <4> HIDE DEF h
      <4>6. Append(Between(h, sent[c]), sent[c] + 1) = Between(h, sent[c] + 1)
        BY <4>1, <4>5, Counting
      <4>7. Texts(c2s[c]) = Between(h, sent[c])
        BY <3>2, <3>4 DEF h
      <4>8. Texts(c2s'[c]) = Between(h, sent'[c])
        BY Zenon, <4>2, <4>3, <4>6, <4>7
      <4>9. h <= sent'[c]
        BY <4>1, <4>3, <4>5
      <4> QED
        BY <3>4, <4>8, <4>9 DEF h
    <3> QED
      BY <3>3, <3>4
  <2> QED
    BY <1>1, <1>3, <2>3, <2>4, <2>5, <2>6, <2>7, <2>9, <2>10 DEF Inv
<1>8. CASE PollEnd(c)
  <2>1. /\ UNCHANGED <<profiles, client, got, sending, sent>>
        /\ \/ UNCHANGED <<c2s, idle>>
           \/ /\ c \in conns
              /\ c2s' = [c2s EXCEPT ![c] = Append(@, 0)]
              /\ idle' = [idle EXCEPT ![c] = 0]
    BY <1>8 DEF PollEnd, Served, SetPolling
  <2>2. c2s \in [Conn -> Seq(Frame)] /\ idle \in [Conn -> 0 .. Inactivity]
    BY DEF Inv, TypeOK, Frame
  <2>3. SendsAreBounded'
    BY <2>1 DEF Inv, SendsAreBounded
  <2>4. Phases'
    BY <1>2, <2>1 DEF Inv, Phases, Untouched, Collecting
  <2>5. Fresh'
    BY <1>2, <2>1 DEF Inv, Fresh, Untouched
  <2>6. EndedLeaveNothing'
    BY <1>2, <2>1 DEF Inv, EndedLeaveNothing, Ended, Untouched, Collecting, ConnsIn
  <2>7. Empty'
    BY <1>2, <2>1, <2>2 DEF Inv, Empty, Untouched
  <2>8. c2s' = c2s \/ c2s'[c] # <<>>
    <3>1. c2s[c] \in Seq(Frame) /\ 0 \in Frame
      BY <2>2, Numbers DEF Frame
    <3>2. Append(c2s[c], 0) # <<>>
      BY <3>1, AppendProperties
    <3> QED
      BY <2>1, <2>2, <3>2
  <2>9. Quiets'
    <3> SUFFICES ASSUME NEW e \in conns
                 PROVE  c2s'[e] # <<>> \/ silence[e] <= idle'[e] \/ idle'[e] = Inactivity
      BY <1>2 DEF Quiets, Untouched
    <3>1. c2s[e] # <<>> \/ silence[e] <= idle[e] \/ idle[e] = Inactivity
      BY DEF Inv, Quiets
    <3>2. e \in Conn
      BY DEF Inv, TypeOK
    <3>3. CASE UNCHANGED <<c2s, idle>>
      BY <3>1, <3>3
    <3>4. CASE c2s' # c2s /\ e = c
      BY <2>8, <3>4
    <3>5. CASE c2s' # c2s /\ e # c
      <4>1. c2s' = [c2s EXCEPT ![c] = Append(@, 0)] /\ idle' = [idle EXCEPT ![c] = 0]
        BY <2>1, <3>5
      <4>2. c2s'[e] = c2s[e] /\ idle'[e] = idle[e]
        BY <2>2, <3>2, <3>5, <4>1
      <4> QED
        BY <3>1, <4>2
    <3>6. c2s' = c2s => idle' = idle
      <4>1. Append(c2s[c], 0) # c2s[c]
        BY <2>2, Numbers DEF Frame
      <4> QED
        BY <2>1, <2>2, <4>1
    <3> QED
      BY <3>3, <3>4, <3>5, <3>6
  <2>10. \A e \in Conn : Texts(c2s'[e]) = Texts(c2s[e])
    <3>1. Texts(Append(c2s[c], 0)) = Texts(c2s[c])
      BY <2>2, TextsOfOneMore, Numbers DEF Frame
    <3> QED
      BY <2>1, <2>2, <3>1
  <2>11. InTransit'
    <3>1. \A e : Taken(e)' = Taken(e)
      BY <1>2 DEF Taken, Of, Untouched
    <3>2. conns' = conns /\ heard' = heard /\ sent' = sent /\ conns \subseteq Conn
      BY <1>2, <2>1 DEF Untouched, Inv, TypeOK
    <3> QED
      BY <2>10, <3>1, <3>2 DEF Inv, InTransit
  <2> QED
    BY <1>1, <1>3, <2>3, <2>4, <2>5, <2>6, <2>7, <2>9, <2>11 DEF Inv
<1> QED
  BY <1>4, <1>5, <1>6, <1>7, <1>8 DEF Request

-----------------------------------------------------------------------------
(* The invariant in the steps of the loop, phase by phase.                 *)

\* Without messages in the batch, none is taken.
LEMMA NoneTaken ==
  ASSUME NEW c
  PROVE  /\ batch.inbound = <<>> => Of(batch.inbound, c) = {} /\ Taken(c) = 0
         /\ batch'.inbound = <<>> => Of(batch'.inbound, c) = {} /\ Taken(c)' = 0
BY Nothing, FS_EmptySet DEF Of, Taken

\* The invariant survives: the top of the iteration.  The closes that waited
\* are in the batch now.
LEMMA InvTop ==
  ASSUME Inv, NEW d \in Int, Top(d), jumps' \in 0 .. MaxJumps
  PROVE  Inv'
<1> DEFINE reports == [k \in DOMAIN pendingCloses |->
                         [conn |-> pendingCloses[k], reason |-> "engine_requested"]]
<1>1. TypeOK' /\ Finite'
  BY TypeTop DEF Inv
<1>2. /\ UNCHANGED <<profiles, fifos, c2s, client, sending, sent, got, conns, outbox, output,
                     told, heard, queued, greeted>>
      /\ pendingCloses' = <<>>
      /\ batch' = [EmptyBatch EXCEPT !.closed = reports]
      /\ \/ pc' = "scan" /\ onDisk' = profiles /\ todo' = profiles \ conns
         \/ pc' = "drain" /\ todo' = conns
  BY DEF Top, files, clients, engine
<1>3. pc = "top" /\ output = NoOutput /\ batch = EmptyBatch
  BY DEF Top, Inv, Idle
<1>4. /\ batch'.new = <<>> /\ batch'.inbound = <<>> /\ batch'.fired = <<>>
      /\ batch'.closed = reports
  BY <1>2 DEF EmptyBatch
<1>5. pendingCloses \in Seq(Conn) /\ IsInjective(pendingCloses)
  BY DEF Inv, TypeOK, Told
<1> HIDE DEF reports
<1>6. ConnsIn(reports) = ToSet(pendingCloses) /\ OnceEach(reports)
  BY <1>5, DeferredReports DEF reports
<1>7. SendsAreBounded' /\ Idle' /\ Down' /\ Armed'
  BY <1>2, <1>3 DEF Inv, SendsAreBounded, Idle, Down, Armed
<1>8. Phases'
  BY <1>2, <1>3, <1>4, Nothing DEF Phases, Collecting
<1>9. Fresh' /\ EndedLeaveNothing'
  <2>1. Fresh'
    BY <1>2, <1>3 DEF Inv, Fresh
  <2>2. Ended' = Ended
    BY <1>2, <1>3, <1>4, <1>6, Nothing DEF Ended, Collecting
  <2> QED
    BY <1>2, <2>1, <2>2 DEF Inv, EndedLeaveNothing
<1>10. Told'
  <2>1. \A c \in Conn : told[c] = "open" <=> c \in conns \cup ToSet(pendingCloses)
    BY <1>3 DEF Inv, Told
  <2>2. \A c \in Conn : told[c] = "unseen" => heard[c] = 0
    BY DEF Inv, Told
  <2> QED
    BY <1>2, <1>4, <1>6, <2>1, <2>2, Nothing DEF Told, Collecting
<1>11. Numbered'
  BY <1>4, Nothing DEF Numbered
<1>12. InTransit'
  <2>1. \A c : Taken(c) = 0 /\ Taken(c)' = 0
    BY <1>3, <1>4, NoneTaken, Nothing
  <2> QED
    BY <1>2, <2>1 DEF Inv, InTransit
<1>13. Empty'
  BY <1>2 DEF Inv, Empty, Top
<1>14. Quiets'
  <2> SUFFICES ASSUME NEW c \in conns
               PROVE  c2s[c] # <<>> \/ silence'[c] <= idle'[c] \/ idle'[c] = Inactivity
    BY <1>2 DEF Quiets
  <2>1. c2s[c] # <<>> \/ silence[c] <= idle[c] \/ idle[c] = Inactivity
    BY DEF Inv, Quiets
  <2>2. silence[c] \in Nat /\ idle[c] \in 0 .. Inactivity /\ c \in Conn
    BY DEF Inv, TypeOK
  <2>3. /\ silence'[c] = Age(silence[c], d)
        /\ idle'[c] = Smaller(Inactivity, idle[c] + Larger(0, d))
    BY <2>2 DEF Top
  <2>4. silence[c] <= idle[c] => silence'[c] <= idle'[c] \/ idle'[c] = Inactivity
    BY <2>2, <2>3, Numbers DEF Age, Smaller, Larger
  <2>5. idle[c] = Inactivity => idle'[c] = Inactivity
    BY <2>2, <2>3, Numbers DEF Smaller, Larger
  <2> QED
    BY <2>1, <2>4, <2>5
<1> QED
  BY <1>1, <1>7, <1>8, <1>9, <1>10, <1>11, <1>12, <1>13, <1>14 DEF Inv

\* The invariant survives: a profile is taken up.  Its connection was never
\* served, so it has nothing in transit and the engine has not heard of it.
LEMMA InvAdopt ==
  ASSUME Inv, NEW c \in Conn, Adopt(c)
  PROVE  Inv'
<1>1. TypeOK' /\ Finite'
  BY TypeAdopt DEF Inv
<1>2. /\ pc = "scan" /\ c \in todo /\ c \in profiles
      /\ fifos' = fifos \cup {c} /\ conns' = conns \cup {c} /\ greeted' = greeted \cup {c}
      /\ batch' = [batch EXCEPT !.new = Append(@, c)]
      /\ todo' = todo \ {c}
      /\ c2s' = Reset(c2s, {c}, <<>>)
      /\ UNCHANGED <<profiles, client, sending, sent, got, pc, onDisk, outbox, silence, timers,
                     pendingCloses, output, told, heard, queued, idle>>
  BY DEF Adopt, Unlink, engine
<1>3. batch \in Batches /\ batch.new \in Seq(Conn)
  BY BatchWith DEF Inv, TypeOK
<1>4. /\ batch'.new = Append(batch.new, c) /\ batch'.closed = batch.closed
      /\ batch'.inbound = batch.inbound /\ batch'.fired = batch.fired
  BY <1>2, <1>3 DEF Batches
<1>5. c \notin conns /\ c \notin greeted /\ c \notin Ended /\ c \in onDisk
  BY <1>2, HereIsGreeted DEF Inv, Phases, Fresh
<1>6. /\ told[c] = "unseen" /\ sent[c] = 0 /\ queued[c] = 0 /\ got[c] = <<>> /\ heard[c] = 0
      /\ silence[c] = 0
  BY <1>5 DEF Inv, Fresh, Told, Empty
<1>7. ToSet(batch.new) \subseteq conns
  BY <1>2 DEF Inv, Told, Collecting
<1>8. /\ ToSet(batch'.new) = ToSet(batch.new) \cup {c}
      /\ IsInjective(batch.new) => IsInjective(batch'.new)
  BY <1>3, <1>4, <1>5, <1>7, OneMore
<1>9. SendsAreBounded' /\ Idle' /\ Down' /\ Armed'
  BY <1>2 DEF Inv, SendsAreBounded, Idle, Down, Armed
<1>10. Phases'
  BY <1>2, <1>4, <1>5, <1>6, <1>8 DEF Inv, Phases, Collecting
<1>11. Fresh'
  BY <1>2, <1>5 DEF Inv, Fresh
<1>12. EndedLeaveNothing'
  <2>1. Ended' = Ended
    BY <1>2, <1>4 DEF Ended, Collecting
  <2> QED
    BY <1>2, <1>5, <2>1 DEF Inv, EndedLeaveNothing
<1>13. Told'
  <2>1. ConnsIn(batch'.closed) = ConnsIn(batch.closed) /\ OnceEach(batch'.closed)
    BY <1>2, <1>4 DEF Inv, Told, Collecting
  <2>2. c \notin ConnsIn(batch.closed)
    BY <1>2, <1>5 DEF Ended, Collecting
  <2> QED
    BY <1>2, <1>5, <1>6, <1>7, <1>8, <2>1, <2>2 DEF Inv, Told, Collecting
<1>14. batch.inbound = <<>>
  BY <1>2 DEF Inv, Phases
<1>15. Numbered'
  BY <1>4, <1>14, Nothing DEF Numbered
<1>16. c2s'[c] = <<>> /\ \A e \in Conn \ {c} : c2s'[e] = c2s[e]
  BY <1>2 DEF Reset
<1>17. InTransit'
  <2>1. \A e : Taken(e) = 0 /\ Taken(e)' = 0
    BY <1>4, <1>14, NoneTaken
  <2>2. Between(0, 0) = <<>>
    BY Counting
  <2>3. heard[c] + 0 <= sent[c] /\ Texts(c2s'[c]) = Between(heard[c] + 0, sent[c])
    BY <1>6, <1>16, <2>2, TextsOfNone, Numbers
  <2>4. ASSUME NEW e \in conns
        PROVE  heard[e] + 0 <= sent[e] /\ Texts(c2s'[e]) = Between(heard[e] + 0, sent[e])
    <3>1. e \in Conn \ {c}
      BY <1>5 DEF Inv, TypeOK
    <3> QED
      BY <1>16, <2>1, <3>1 DEF Inv, InTransit
  <2>5. \A e \in conns' : /\ heard[e] + 0 <= sent[e]
                           /\ Texts(c2s'[e]) = Between(heard[e] + 0, sent[e])
    BY <1>2, <1>6, <2>3, <2>4
  <2> QED
    BY <1>2, <2>1, <2>5 DEF InTransit
<1>18. Empty'
  BY <1>2, <1>16 DEF Inv, Empty
<1>19. Quiets'
  <2>1. idle[c] = 0 /\ conns \subseteq Conn
    BY <1>5 DEF Inv, Empty, TypeOK
  <2>2. silence[c] <= idle[c]
    BY <1>6, <2>1
  <2>3. ASSUME NEW e \in conns
        PROVE  c2s'[e] # <<>> \/ silence[e] <= idle[e] \/ idle[e] = Inactivity
    BY <1>5, <1>16, <2>1, <2>3 DEF Inv, Quiets
  <2> QED
    BY <1>2, <2>2, <2>3 DEF Quiets
<1> QED
  BY <1>1, <1>9, <1>10, <1>11, <1>12, <1>13, <1>15, <1>17, <1>18, <1>19 DEF Inv

\* The invariant survives: the vanished profiles.
LEMMA InvGone ==
  ASSUME Inv, Gone
  PROVE  Inv'
<1> DEFINE gone == conns \ onDisk
<1>1. TypeOK' /\ Finite'
  BY TypeGone DEF Inv
<1>2. /\ pc = "scan" /\ todo = {} /\ pc' = "drain"
      /\ conns' = conns \ gone /\ fifos' = fifos \ gone /\ todo' = conns'
      /\ c2s' = Reset(c2s, gone, <<>>) /\ outbox' = Reset(outbox, gone, <<>>)
      /\ silence' = Reset(silence, gone, 0) /\ idle' = Reset(idle, gone, 0)
      /\ batch' = [batch EXCEPT !.closed = @ \o Reports(gone, "client_disconnected")]
      /\ UNCHANGED <<profiles, client, sending, sent, got, timers,
                     pendingCloses, output, told, heard, queued, greeted>>
  BY DEF Gone, Forget, Unlink, engine
<1>3. batch \in Batches /\ batch.closed \in Seq(ClosedReport)
  BY BatchWith DEF Inv, TypeOK
<1>4. /\ batch'.closed = batch.closed \o Reports(gone, "client_disconnected")
      /\ batch'.new = batch.new
      /\ batch'.inbound = batch.inbound /\ batch'.fired = batch.fired
  BY <1>2, <1>3 DEF Batches
<1>5. gone \subseteq Conn /\ IsFiniteSet(gone)
  BY FS_Subset DEF Inv, Finite, TypeOK
<1>6. ConnsIn(batch.closed) \cap gone = {}
  BY <1>2 DEF Inv, EndedLeaveNothing, Ended, Collecting
<1>7. ConnsIn(batch'.closed) = ConnsIn(batch.closed) \cup gone /\ OnceEach(batch'.closed)
  <2>1. OnceEach(batch.closed)
    BY <1>2 DEF Inv, Told, Collecting
  <2> QED
    BY <1>3, <1>4, <1>5, <1>6, <2>1, MoreReports
<1>8. gone \cap profiles = {} /\ gone \cap ToSet(batch.new) = {}
  BY <1>2 DEF Inv, Phases
<1>9. /\ \A c \in gone : c2s'[c] = <<>> /\ outbox'[c] = <<>> /\ silence'[c] = 0 /\ idle'[c] = 0
      /\ \A c \in Conn \ gone : /\ c2s'[c] = c2s[c] /\ outbox'[c] = outbox[c]
                                /\ silence'[c] = silence[c] /\ idle'[c] = idle[c]
  BY <1>2, <1>5 DEF Reset
<1>10. conns \subseteq Conn /\ ToSet(batch.new) \subseteq conns
  BY <1>2 DEF Inv, TypeOK, Told, Collecting
<1> HIDE DEF gone
<1>11. SendsAreBounded' /\ Idle' /\ Down' /\ Armed'
  BY <1>2 DEF Inv, SendsAreBounded, Idle, Down, Armed
<1>12. Phases'
  BY <1>2, <1>4, <1>8, <1>9, <1>10 DEF Inv, Phases, Collecting
<1>13. Fresh'
  BY <1>2, <1>8 DEF Inv, Fresh
<1>14. EndedLeaveNothing'
  <2>1. Ended' = Ended \cup gone
    BY <1>2, <1>7 DEF Ended, Collecting
  <2> QED
    BY <1>2, <1>8, <2>1 DEF Inv, EndedLeaveNothing
<1>15. Told'
  <2>1. gone \subseteq conns
    BY DEF gone
  <2> QED
    BY <1>2, <1>4, <1>7, <1>8, <2>1 DEF Inv, Told, Collecting
<1>16. batch.inbound = <<>>
  BY <1>2 DEF Inv, Phases
<1>17. Numbered'
  BY <1>4, <1>16, Nothing DEF Numbered
<1>18. InTransit'
  <2>1. \A c : Taken(c) = 0 /\ Taken(c)' = 0
    BY <1>4, <1>16, NoneTaken
  <2> QED
    BY <1>2, <1>9, <1>10, <2>1 DEF Inv, InTransit
<1>19. Empty'
  BY <1>2, <1>9 DEF Inv, Empty
<1>20. Quiets'
  BY <1>2, <1>9, <1>10 DEF Inv, Quiets
<1> QED
  BY <1>1, <1>11, <1>12, <1>13, <1>14, <1>15, <1>17, <1>18, <1>19, <1>20 DEF Inv

\* All items are from c ...
AllOf(items, c) == \A k \in 1 .. Len(items) : items[k].conn = c

\* ... and none is.
NoneOf(items, c) == \A k \in 1 .. Len(items) : items[k].conn # c

\* r is q followed by the messages a of a connection that had none in q.
Followed(r, q, a, c) ==
  /\ DOMAIN r = 1 .. Len(q) + Len(a)
  /\ \A k \in 1 .. Len(q) : r[k] = q[k]
  /\ \A k \in 1 .. Len(a) : r[Len(q) + k] = a[k]
  /\ Cardinality(Of(r, c)) = Len(a)
  /\ \A k \in 1 .. Len(a) : Cardinality(Before(r, c, Len(q) + k)) = k
  /\ \A e : e # c => Of(r, e) = Of(q, e)

\* A drained FIFO goes behind what the batch holds.
LEMMA MoreItems ==
  ASSUME NEW q \in Seq(Item), NEW a \in Seq(Item), NEW c, AllOf(a, c), NoneOf(q, c)
  PROVE  Followed(q \o a, q, a, c)
<1> DEFINE r == q \o a
<1> USE DEF AllOf, NoneOf
<1> DEFINE n == Len(q)  m == Len(a)
<1>1. /\ n \in Nat /\ m \in Nat /\ DOMAIN q = 1 .. n
      /\ DOMAIN r = 1 .. n + m
      /\ \A k \in 1 .. n : r[k] = q[k]
      /\ \A k \in 1 .. m : r[n + k] = a[k]
  OBVIOUS
<1> HIDE DEF n, m, r
<1>2. \A k \in 1 .. n + m : \/ k \in 1 .. n /\ r[k] = q[k] /\ r[k].conn # c
                            \/ k - n \in 1 .. m /\ r[k] = a[k - n] /\ r[k].conn = c
  <2> SUFFICES ASSUME NEW k \in 1 .. n + m, k \notin 1 .. n
               PROVE  k - n \in 1 .. m /\ r[k] = a[k - n] /\ r[k].conn = c
    BY <1>1 DEF n
  <2>1. k - n \in 1 .. m /\ k = n + (k - n)
    BY <1>1
  <2>2. r[k] = a[k - n]
    BY <1>1, <2>1
  <2> QED
    BY <2>1, <2>2 DEF m
<1>3. Of(r, c) = n + 1 .. n + m
  <2>1. \A k \in Of(r, c) : k \in n + 1 .. n + m
    BY <1>1, <1>2 DEF Of
  <2>2. \A k \in n + 1 .. n + m : k \in 1 .. n + m /\ k \notin 1 .. n
    BY <1>1
  <2>3. \A k \in n + 1 .. n + m : k \in Of(r, c)
    BY <1>1, <1>2, <2>2 DEF Of
  <2> QED
    BY <2>1, <2>3
<1>4. \A k \in 0 .. m : Cardinality(n + 1 .. n + k) = k
  <2> SUFFICES ASSUME NEW k \in 0 .. m
               PROVE  Cardinality(n + 1 .. n + k) = k
    OBVIOUS
  <2>1. n + 1 \in Int /\ n + k \in Int /\ k \in Nat
    BY <1>1
  <2>2. Cardinality(n + 1 .. n + k) = IF n + 1 > n + k THEN 0 ELSE (n + k) - (n + 1) + 1
    BY <2>1, FS_Interval
  <2> QED
    BY <1>1, <2>1, <2>2
<1>5. \A k \in 1 .. m : Before(r, c, n + k) = n + 1 .. n + k
  BY <1>1, <1>3 DEF Before
<1>6. ASSUME NEW e, e # c
      PROVE  Of(r, e) = Of(q, e)
  BY <1>1, <1>2, <1>6 DEF Of
<1>7. Cardinality(Of(r, c)) = m /\ \A k \in 1 .. m : Cardinality(Before(r, c, n + k)) = k
  <2>1. m \in 0 .. m /\ \A k \in 1 .. m : k \in 0 .. m
    BY <1>1
  <2> QED
    BY <1>3, <1>4, <1>5, <2>1
<1> QED
  BY Zenon, <1>1, <1>3, <1>6, <1>7 DEF n, m, r, Followed

\* The invariant survives: a FIFO is drained.  What was in it is what is in
\* the batch of it, and nothing remains.
LEMMA InvDrain ==
  ASSUME Inv, NEW c \in Conn, Drain(c)
  PROVE  Inv'
<1> DEFINE m == Texts(c2s[c])
           new == [k \in DOMAIN m |-> [conn |-> c, n |-> m[k]]]
           n == sent[c] - heard[c]
           len == Len(batch.inbound)
<1>1. TypeOK' /\ Finite'
  BY TypeDrain DEF Inv
<1>2. /\ pc = "drain" /\ c \in todo
      /\ batch' = [batch EXCEPT !.inbound = @ \o new]
      /\ silence' = IF SignOfLife(c2s[c]) THEN [silence EXCEPT ![c] = 0] ELSE silence
      /\ c2s' = [c2s EXCEPT ![c] = <<>>]
      /\ todo' = todo \ {c}
      /\ UNCHANGED <<profiles, fifos, client, sending, sent, got, pc, onDisk, conns, outbox,
                     timers, pendingCloses, output, told, heard, queued, greeted, idle>>
  BY DEF Drain, clients, history, engine
<1>3. batch \in Batches /\ batch.inbound \in Seq(Item)
  BY BatchWith DEF Inv, TypeOK
<1>4. /\ batch'.inbound = batch.inbound \o new
      /\ batch'.new = batch.new /\ batch'.closed = batch.closed /\ batch'.fired = batch.fired
  BY <1>2, <1>3 DEF Batches
<1>5. c \in conns /\ conns \subseteq Conn
  BY <1>2 DEF Inv, Phases, TypeOK
<1>6. /\ heard \in [Conn -> Nat] /\ sent \in [Conn -> Nat] /\ c2s \in [Conn -> Seq(Frame)]
      /\ silence \in [Conn -> Nat]
  BY Numbers DEF Inv, TypeOK, Frame
<1>7. \A k \in 1 .. len : batch.inbound[k].conn # c
  BY <1>2, <1>3 DEF Inv, Numbered, Collecting
<1>8. Of(batch.inbound, c) = {} /\ Taken(c) = 0
  <2>1. Of(batch.inbound, c) = {}
    BY <1>3, <1>7 DEF Of
  <2> QED
    BY <2>1, FS_EmptySet DEF Taken
<1>9. n \in Nat /\ m = Between(heard[c], sent[c])
  <2>1. heard[c] + 0 <= sent[c] /\ m = Between(heard[c] + 0, sent[c])
    BY <1>5, <1>8 DEF Inv, InTransit
  <2>2. heard[c] \in Nat /\ sent[c] \in Nat
    BY <1>5, <1>6
  <2>3. heard[c] + 0 = heard[c]
    BY <2>2
  <2> QED
    BY <2>1, <2>2, <2>3
<1>10. Len(m) = n /\ DOMAIN m = 1 .. n /\ \A k \in 1 .. n : m[k] = heard[c] + k
  <2>1. heard[c] \in Nat /\ sent[c] \in Nat /\ heard[c] <= sent[c]
    BY <1>5, <1>6, <1>9
  <2> QED
    BY <1>9, <2>1, Counting DEF Between
<1>11. \A k \in 1 .. n : m[k] \in 1 .. MaxSend
  <2>1. c2s[c] \in Seq(Frame)
    BY <1>6
  <2>2. m \in Seq(Message)
    BY <2>1, TextsType, Numbers
  <2> HIDE DEF m, n
  <2> QED
    BY <1>10, <2>2, ElementOfSeq DEF Message
<1> HIDE DEF m, n
<1>12. /\ DOMAIN new = 1 .. n
       /\ \A k \in 1 .. n : new[k] = [conn |-> c, n |-> heard[c] + k] /\ new[k] \in Item
  BY <1>10, <1>11 DEF Item
<1>13. new \in Seq(Item) /\ Len(new) = n
  <2>1. new = [k \in 1 .. n |-> new[k]]
    BY <1>10
  <2> HIDE DEF new
  <2> QED
    BY Zenon, <1>9, <1>12, <2>1, ListOf
<1> HIDE DEF new
<1>14. /\ DOMAIN batch'.inbound = 1 .. len + n /\ DOMAIN batch.inbound = 1 .. len /\ len \in Nat
       /\ \A k \in 1 .. len : batch'.inbound[k] = batch.inbound[k]
       /\ \A k \in 1 .. n : batch'.inbound[len + k] = new[k]
       /\ Cardinality(Of(batch'.inbound, c)) = n
       /\ \A k \in 1 .. n : Cardinality(Before(batch'.inbound, c, len + k)) = k
       /\ \A e : e # c => Of(batch'.inbound, e) = Of(batch.inbound, e)
  <2>1. /\ \A k \in 1 .. Len(new) : new[k].conn = c
        /\ \A k \in 1 .. Len(batch.inbound) : batch.inbound[k].conn # c
    BY <1>7, <1>12, <1>13
  <2>3. DOMAIN batch.inbound = 1 .. len /\ len \in Nat
    BY <1>3
  <2> QED
    <3> DEFINE q == batch.inbound  r == batch'.inbound
    <3>1. /\ q \in Seq(Item) /\ new \in Seq(Item) /\ AllOf(new, c) /\ NoneOf(q, c)
      BY <1>3, <1>13, <2>1 DEF AllOf, NoneOf
    <3>2. r = q \o new
      BY <1>4
    <3> HIDE DEF q, r
    <3>3. Followed(r, q, new, c)
      BY <3>1, <3>2, MoreItems
    <3> QED
      BY <1>13, <2>3, <3>3 DEF q, r, Followed
<1>15. SendsAreBounded' /\ Idle' /\ Down' /\ Armed'
  BY <1>2 DEF Inv, SendsAreBounded, Idle, Down, Armed
<1>16. \A e \in Conn : silence[e] = 0 => silence'[e] = 0
  BY <1>2, <1>6
<1>17. silence'[c] = 0 \/ c2s[c] = <<>>
  BY <1>2, <1>6 DEF SignOfLife
<1>18. Phases'
  <2>1. ToSet(batch.new) \subseteq Conn
    BY <1>2, <1>5 DEF Inv, Told, Collecting
  <2> QED
    BY <1>2, <1>4, <1>16, <2>1 DEF Inv, Phases, Collecting
<1>19. Fresh'
  BY <1>2 DEF Inv, Fresh
<1>20. EndedLeaveNothing'
  BY <1>2, <1>4 DEF Inv, EndedLeaveNothing, Ended, Collecting
<1>21. Told'
  BY <1>2, <1>4 DEF Inv, Told, Collecting
<1>22. Empty'
  BY <1>2, <1>5 DEF Inv, Empty
<1>23. Quiets'
  <2> SUFFICES ASSUME NEW e \in conns
               PROVE  c2s'[e] # <<>> \/ silence'[e] <= idle[e] \/ idle[e] = Inactivity
    BY <1>2 DEF Quiets
  <2>1. c2s[e] # <<>> \/ silence[e] <= idle[e] \/ idle[e] = Inactivity
    BY DEF Inv, Quiets
  <2>2. e \in Conn /\ idle[e] \in Nat
    BY <1>5, Numbers DEF Inv, TypeOK
  <2>3. CASE e # c
    BY <1>2, <1>6, <2>1, <2>2, <2>3
  <2>4. CASE e = c /\ silence'[c] = 0
    BY <2>2, <2>4
  <2>5. CASE e = c /\ c2s[c] = <<>> /\ silence'[c] # 0
    BY <1>2, <2>1, <2>5 DEF SignOfLife
  <2> QED
    BY <1>17, <2>3, <2>4, <2>5
<1>24. Numbered'
  <2> SUFFICES ASSUME NEW k \in DOMAIN batch'.inbound
               PROVE  LET e == batch'.inbound[k].conn
                      IN  /\ e \in conns
                          /\ e \notin todo' /\ silence'[e] = 0
                          /\ batch'.inbound[k].n = heard[e] + Cardinality(Before(batch'.inbound, e, k))
    BY <1>2 DEF Numbered, Collecting
  <2>1. CASE k \in 1 .. len
    <3> DEFINE e == batch.inbound[k].conn
    <3>1. /\ e \in conns /\ e \notin todo /\ silence[e] = 0
          /\ batch.inbound[k].n = heard[e] + Cardinality(Before(batch.inbound, e, k))
      BY <1>2, <1>14, <2>1 DEF Inv, Numbered, Collecting
    <3>2. batch'.inbound[k] = batch.inbound[k]
      BY <1>14, <2>1
    <3>3. e # c
      BY <1>7, <2>1
    <3>4. Before(batch'.inbound, e, k) = Before(batch.inbound, e, k)
      BY <1>14, <3>3 DEF Before
    <3>5. silence'[e] = 0 /\ e \notin todo'
      BY <1>2, <1>5, <1>16, <3>1
    <3> HIDE DEF e
    <3> QED
      BY <3>1, <3>2, <3>4, <3>5 DEF e
  <2>2. CASE k \notin 1 .. len
    <3>1. k - len \in 1 .. n /\ k = len + (k - len)
      <4>1. n \in Nat /\ len \in Nat /\ k \in 1 .. len + n
        BY <1>9, <1>14
      <4> HIDE DEF len
      <4> QED
        BY <2>2, <4>1
    <3>2. batch'.inbound[k] = [conn |-> c, n |-> heard[c] + (k - len)]
      BY <1>12, <1>14, <3>1
    <3>3. Cardinality(Before(batch'.inbound, c, k)) = k - len
      BY <1>14, <3>1
    <3>4. silence'[c] = 0
      <4>1. c2s[c] # <<>>
        <5>1. Texts(c2s[c]) # <<>>
          BY <1>10, <3>1 DEF m
        <5> QED
          BY <5>1, TextsOfNone, Numbers
      <4> QED
        BY <1>17, <4>1
    <3> QED
      BY <1>2, <1>5, <3>2, <3>3, <3>4
  <2> QED
    BY <2>1, <2>2
<1>25. InTransit'
  <2> SUFFICES ASSUME NEW e \in conns
               PROVE  /\ heard[e] + Taken(e)' <= sent[e]
                      /\ Texts(c2s'[e]) = Between(heard[e] + Taken(e)', sent[e])
    BY <1>2 DEF InTransit
  <2>1. CASE e # c
    <3>1. Taken(e)' = Taken(e) /\ c2s'[e] = c2s[e]
      BY <1>2, <1>5, <1>6, <1>14, <2>1 DEF Taken
    <3> QED
      BY <3>1 DEF Inv, InTransit
  <2>2. CASE e = c
    <3>1. Taken(c)' = n
      BY <1>2, <1>14 DEF Taken
    <3>2. heard[c] \in Nat /\ sent[c] \in Nat /\ heard[c] + n = sent[c]
      BY <1>5, <1>6 DEF n
    <3>3. Texts(c2s'[c]) = <<>>
      BY <1>2, <1>6, TextsOfNone, Numbers
    <3>4. Between(sent[c], sent[c]) = <<>>
      BY <3>2, Counting
    <3> QED
      BY <2>2, <3>1, <3>2, <3>3, <3>4
  <2> QED
    BY <2>1, <2>2
<1> QED
  BY <1>1, <1>15, <1>18, <1>19, <1>20, <1>21, <1>22, <1>23, <1>24, <1>25 DEF Inv

\* The invariant survives: silent clients and expired timers.
LEMMA InvSweep ==
  ASSUME Inv, Sweep
  PROVE  Inv'
<1> DEFINE S == Silent
<1>1. TypeOK' /\ Finite'
  BY TypeSweep DEF Inv
<1>2. /\ pc = "drain" /\ todo = {} /\ pc' = "engine" /\ todo' = {}
      /\ conns' = conns \ S /\ fifos' = fifos \ S /\ profiles' = profiles \ S
      /\ c2s' = Reset(c2s, S, <<>>) /\ outbox' = Reset(outbox, S, <<>>)
      /\ silence' = Reset(silence, S, 0) /\ idle' = Reset(idle, S, 0)
      /\ timers' = timers \ Expired
      /\ UNCHANGED <<client, sending, sent, got, pendingCloses, output, told, heard, queued,
                     greeted>>
  BY DEF Sweep, Forget, Teardown, Unlink, engine
<1>3. PICK order \in SetToSeqs(Expired) :
        /\ \A j, k \in DOMAIN order : j < k => order[j].rem <= order[k].rem
        /\ batch' = [batch EXCEPT !.closed = @ \o Reports(S, "server_idle_timeout"),
                                  !.fired = order]
  BY DEF Sweep
<1>4. batch \in Batches /\ batch.closed \in Seq(ClosedReport)
  BY BatchWith DEF Inv, TypeOK
<1>5. /\ batch'.closed = batch.closed \o Reports(S, "server_idle_timeout")
      /\ batch'.new = batch.new
      /\ batch'.inbound = batch.inbound /\ batch'.fired = order
  BY <1>3, <1>4 DEF Batches
<1>6. S \subseteq conns /\ conns \subseteq Conn /\ \A c \in S : silence[c] >= Inactivity
  BY DEF Silent, Inv, TypeOK
<1>7. IsFiniteSet(S) /\ S \subseteq Conn
  BY <1>6, FS_Subset DEF Inv, Finite
<1> HIDE DEF S
<1>8. ConnsIn(batch.closed) \cap S = {}
  BY <1>2, <1>6 DEF Inv, EndedLeaveNothing, Ended, Collecting
<1>9. ConnsIn(batch'.closed) = ConnsIn(batch.closed) \cup S /\ OnceEach(batch'.closed)
  <2>1. OnceEach(batch.closed)
    BY <1>2 DEF Inv, Told, Collecting
  <2> QED
    BY <1>4, <1>5, <1>7, <1>8, <2>1, MoreReports
<1>10. S \cap ToSet(batch.new) = {}
  <2>1. \A c \in ToSet(batch.new) : silence[c] = 0
    BY <1>2 DEF Inv, Phases
  <2> QED
    BY <1>6, <2>1, Numbers
<1>11. /\ \A c \in S : c2s'[c] = <<>> /\ outbox'[c] = <<>> /\ silence'[c] = 0 /\ idle'[c] = 0
       /\ \A c \in Conn \ S : /\ c2s'[c] = c2s[c] /\ outbox'[c] = outbox[c]
                              /\ silence'[c] = silence[c] /\ idle'[c] = idle[c]
  BY <1>2, <1>7 DEF Reset
<1>12. SendsAreBounded' /\ Idle' /\ Down'
  BY <1>2 DEF Inv, SendsAreBounded, Idle, Down
<1>13. Phases'
  BY <1>2 DEF Inv, Phases, Collecting
<1>14. Fresh'
  BY <1>2 DEF Inv, Fresh
<1>15. EndedLeaveNothing'
  <2>1. Ended' = Ended \cup S
    BY <1>2, <1>9 DEF Ended, Collecting
  <2> QED
    BY <1>2, <2>1 DEF Inv, EndedLeaveNothing
<1>16. Told'
  BY <1>2, <1>5, <1>6, <1>9, <1>10 DEF Inv, Told, Collecting
<1>17. Numbered'
  <2> SUFFICES ASSUME NEW k \in DOMAIN batch.inbound
               PROVE  LET c == batch.inbound[k].conn
                      IN  /\ c \in conns'
                          /\ batch.inbound[k].n
                               = heard[c] + Cardinality(Before(batch.inbound, c, k))
    BY <1>2, <1>5 DEF Numbered
  <2> DEFINE c == batch.inbound[k].conn
  <2>1. /\ c \in conns /\ silence[c] = 0
        /\ batch.inbound[k].n = heard[c] + Cardinality(Before(batch.inbound, c, k))
    BY <1>2 DEF Inv, Numbered, Collecting
  <2> HIDE DEF c
  <2>2. c \notin S
    BY <1>6, <2>1, Numbers
  <2> QED
    BY <1>2, <2>1, <2>2 DEF c
<1>18. InTransit'
  <2>1. \A c : Taken(c)' = Taken(c)
    BY <1>2, <1>5 DEF Taken
  <2> QED
    BY <1>2, <1>6, <1>11, <2>1 DEF Inv, InTransit
<1>19. Armed'
  <2>1. IsFiniteSet(Expired) /\ timers \subseteq Timer
    BY FS_Subset DEF Inv, Finite, Expired, TypeOK, Timer
  <2>2. ToSet(order) = Expired /\ IsInjective(order)
    BY <2>1, Ordered
  <2>3. \A t \in timers' : t.rem > 0
    BY <1>2, <2>1 DEF Expired, Timer
  <2>4. \A t \in Expired : t.rem <= 0
    BY DEF Expired
  <2> QED
    BY <1>3, <1>5, <2>2, <2>3, <2>4 DEF Armed
<1>20. Empty'
  BY <1>2, <1>11 DEF Inv, Empty
<1>21. Quiets'
  BY <1>2, <1>6, <1>11 DEF Inv, Quiets
<1> QED
  BY <1>1, <1>12, <1>13, <1>14, <1>15, <1>16, <1>17, <1>18, <1>19, <1>20, <1>21 DEF Inv

\* When the engine is called, it is told of the batch.
LEMMA ToldNow ==
  ASSUME Inv, pc = "engine"
  PROVE  /\ {r.conn : r \in ToSet(batch.closed)} = ConnsIn(batch.closed)
         /\ \A c \in Conn : ToldAfter[c] = "open" <=> c \in conns
         /\ \A c \in Conn : ToldAfter[c] = "closed"
                              <=> told[c] = "closed" \/ c \in ConnsIn(batch.closed)
         /\ \A c \in Conn : ToldAfter[c] = "unseen" => told[c] = "unseen" /\ c \notin conns
<1>1. {r.conn : r \in ToSet(batch.closed)} = ConnsIn(batch.closed)
  BY DEF ToSet, ConnsIn
<1>2. ConnsIn(batch.closed) \cap conns = {}
  BY DEF Inv, EndedLeaveNothing, Ended, Collecting
<1>3. /\ \A c \in Conn : told[c] = "open" <=> c \in (conns \ ToSet(batch.new))
                                                 \cup ConnsIn(batch.closed)
      /\ ToSet(batch.new) \subseteq conns
      /\ \A c \in ToSet(batch.new) : told[c] = "unseen"
  BY DEF Inv, Told, Collecting
<1>4. told \in [Conn -> {"unseen", "open", "closed"}]
  BY DEF Inv, TypeOK
<1> QED
  BY <1>1, <1>2, <1>3, <1>4 DEF ToldAfter

\* The invariant survives: the engine is called.  What the batch held becomes
\* what it was told and has heard.
LEMMA InvCall ==
  ASSUME Inv, NEW o \in Outputs, Call(o)
  PROVE  Inv'
<1> DEFINE closing == o.close \cap conns
<1>1. /\ pc = "engine" /\ pc' = "polls" /\ output' = o
      /\ conns' = conns \ closing /\ fifos' = fifos \ closing /\ profiles' = profiles \ closing
      /\ c2s' = Reset(c2s, closing, <<>>) /\ outbox' = Reset(Outboxes(o), closing, <<>>)
      /\ silence' = Reset(silence, closing, 0) /\ idle' = Reset(idle, closing, 0)
      /\ pendingCloses' = SetToSeq(closing)
      /\ told' = ToldAfter
      /\ queued' = [c \in Conn |-> IF c \in o.messages \cap conns
                                     THEN queued[c] + 1 ELSE queued[c]]
      /\ todo' = conns'
      /\ UNCHANGED <<client, sending, sent, got, batch, greeted>>
  BY DEF Call, Teardown, Unlink, Deferred
<1>2. heard' = [c \in Conn |-> heard[c] + Cardinality(Of(batch.inbound, c))]
  BY DEF Call, Of
<1>3. conns \subseteq Conn /\ closing \subseteq conns /\ conns \subseteq greeted
  BY DEF Inv, TypeOK, Finite
<1>4. \A c \in Conn \ conns : Of(batch.inbound, c) = {}
  BY <1>1 DEF Inv, Numbered, Collecting, Of
<1>5. \A c \in Conn : heard'[c] = heard[c] + Taken(c) /\ heard[c] \in 0 .. MaxSend
                        /\ sent[c] \in 0 .. MaxSend
  BY <1>1, <1>2 DEF Taken, Inv, TypeOK
<1>6. \A c \in Conn \ conns : heard'[c] = heard[c]
  BY <1>2, <1>4, <1>5, FS_EmptySet
<1>7. heard' \in [Conn -> 0 .. MaxSend]
  <2>1. ASSUME NEW c \in Conn
        PROVE  heard'[c] \in 0 .. MaxSend
    <3>1. c \in conns => heard[c] + Taken(c) <= sent[c]
      BY DEF Inv, InTransit
    <3>2. Taken(c) \in Nat
      BY TakenType DEF Inv
    <3> QED
      BY <1>5, <1>6, <3>1, <3>2, Numbers
  <2> QED
    BY <1>2, <2>1
<1>8. TypeOK' /\ Finite'
  BY <1>7, TypeCall DEF Inv
<1>9. IsFiniteSet(closing)
  BY <1>3, FS_Subset DEF Inv, Finite
<1> HIDE DEF closing
<1>10. ToSet(pendingCloses') = closing /\ IsInjective(pendingCloses')
  BY <1>1, <1>9, Listed
<1>11. /\ \A c \in closing : c2s'[c] = <<>> /\ outbox'[c] = <<>> /\ silence'[c] = 0
                             /\ idle'[c] = 0
       /\ \A c \in Conn \ closing : /\ c2s'[c] = c2s[c] /\ outbox'[c] = Outboxes(o)[c]
                                    /\ silence'[c] = silence[c] /\ idle'[c] = idle[c]
  BY <1>1, <1>3 DEF Reset
<1>12. SendsAreBounded' /\ Idle' /\ Down' /\ Phases' /\ Numbered' /\ Armed'
  BY <1>1 DEF Inv, SendsAreBounded, Idle, Down, Phases, Numbered, Armed, Collecting
<1>13. Fresh'
  <2>1. \A c \in Conn \ greeted : told[c] = "unseen" /\ sent[c] = 0 /\ queued[c] = 0
                                    /\ got[c] = <<>>
    BY DEF Inv, Fresh
  <2>2. \A c \in Conn \ greeted : c \notin conns /\ c \notin ConnsIn(batch.closed)
    BY <1>1, <1>3, <2>1 DEF Inv, Told, Collecting
  <2>3. \A c \in Conn \ greeted : told'[c] = "unseen"
    <3>1. told' \in [Conn -> {"unseen", "open", "closed"}]
      BY <1>8 DEF TypeOK
    <3> QED
      BY <1>1, <2>1, <2>2, <3>1, ToldNow
  <2>4. \A c \in Conn \ greeted : queued'[c] = 0
    BY <1>1, <2>1, <2>2
  <2>5. conns' \subseteq fifos' /\ (\A c \in greeted' \cup profiles' : client'[c] # "new")
        /\ profiles' \cap greeted' \subseteq conns'
    BY <1>1 DEF Inv, Fresh
  <2> QED
    BY <1>1, <2>1, <2>3, <2>4, <2>5 DEF Fresh
<1>14. EndedLeaveNothing'
  <2>1. ConnsIn(batch.closed) \subseteq Conn
    BY HereIsGreeted
  <2>2. Ended' \subseteq Ended \cup closing
    BY <1>1, <1>10, ToldNow DEF Ended, Collecting
  <2> QED
    BY <1>1, <2>2 DEF Inv, EndedLeaveNothing
<1>15. Told'
  <2>1. \A c \in Conn : told'[c] = "open" <=> c \in conns' \cup ToSet(pendingCloses')
    BY <1>1, <1>3, <1>10, ToldNow
  <2>2. ASSUME NEW c \in Conn, told'[c] = "unseen"
        PROVE  heard'[c] = 0
    <3>1. told[c] = "unseen" /\ c \notin conns
      BY <1>1, <2>2, ToldNow
    <3> QED
      BY <1>6, <3>1 DEF Inv, Told
  <2> QED
    BY <1>1, <1>10, <2>1, <2>2 DEF Told, Collecting
<1>16. InTransit'
  <2> SUFFICES ASSUME NEW c \in conns'
               PROVE  /\ heard'[c] + Taken(c)' <= sent'[c]
                      /\ Texts(c2s'[c]) = Between(heard'[c] + Taken(c)', sent'[c])
    BY DEF InTransit
  <2>1. c \in conns /\ c \in Conn \ closing
    BY <1>1, <1>3
  <2>2. Taken(c)' = 0
    BY <1>1 DEF Taken
  <2>3. heard'[c] + 0 = heard[c] + Taken(c) /\ sent'[c] = sent[c] /\ c2s'[c] = c2s[c]
    BY <1>1, <1>5, <1>7, <1>11, <2>1
  <2>4. /\ heard[c] + Taken(c) <= sent[c]
        /\ Texts(c2s[c]) = Between(heard[c] + Taken(c), sent[c])
    BY <2>1 DEF Inv, InTransit
  <2> QED
    BY <2>2, <2>3, <2>4
<1>17. Empty'
  <2>1. \A c \in Conn \ conns : outbox[c] = <<>> /\ Outboxes(o)[c] = outbox[c]
    BY DEF Inv, Empty, Outboxes
  <2> QED
    BY <1>1, <1>11, <2>1 DEF Inv, Empty
<1>18. Quiets'
  BY <1>1, <1>3, <1>11 DEF Inv, Quiets
<1> QED
  BY <1>8, <1>12, <1>13, <1>14, <1>15, <1>16, <1>17, <1>18 DEF Inv

\* The invariant survives: a poll is answered.
LEMMA InvServe ==
  ASSUME Inv, NEW c \in Conn, ServePoll(c)
  PROVE  Inv'
<1>1. TypeOK' /\ Finite'
  BY TypeServe DEF Inv
<1>2. /\ pc = "polls" /\ c \in todo /\ todo' = todo \ {c}
      /\ outbox' = [outbox EXCEPT ![c] = <<>>]
      /\ silence' = [silence EXCEPT ![c] = 0]
      /\ idle' = [idle EXCEPT ![c] = 0]
      /\ got' = got \/ got' = [got EXCEPT ![c] = @ \o outbox[c]]
      /\ UNCHANGED <<profiles, fifos, c2s, client, sending, sent, pc, conns, timers,
                     pendingCloses, batch, output, told, heard, queued, greeted>>
  BY DEF ServePoll, files, engine
<1>3. outbox \in [Conn -> Seq(1 .. MaxQueue)] /\ silence \in [Conn -> Nat]
      /\ idle \in [Conn -> 0 .. Inactivity] /\ got \in [Conn -> Seq(1 .. MaxQueue)]
  BY DEF Inv, TypeOK
<1>4. SendsAreBounded' /\ Idle' /\ Down' /\ Phases' /\ Numbered' /\ Armed'
  BY <1>2 DEF Inv, SendsAreBounded, Idle, Down, Phases, Numbered, Armed, Collecting
<1>5. EndedLeaveNothing' /\ Told'
  BY <1>2 DEF Inv, EndedLeaveNothing, Ended, Told, Collecting
<1>6. InTransit'
  BY <1>2 DEF Inv, InTransit, Taken
<1>7. Empty'
  BY <1>2, <1>3 DEF Inv, Empty
<1>8. Quiets'
  <2>1. conns \subseteq Conn
    BY DEF Inv, TypeOK
  <2> QED
    BY <1>2, <1>3, <2>1 DEF Inv, Quiets
<1>9. Fresh'
  <2>1. c \notin greeted => got[c] = <<>> /\ outbox[c] = <<>>
    BY HereIsGreeted DEF Inv, Fresh, Empty
  <2>2. \A e \in Conn : got[e] = <<>> => got'[e] = <<>> \/ e = c
    BY <1>2, <1>3
  <2>3. c \notin greeted => got'[c] = <<>>
    <3>1. <<>> \o <<>> = <<>>
      OBVIOUS
    <3> QED
      BY <1>2, <1>3, <2>1, <3>1
  <2> QED
    BY <1>2, <2>2, <2>3 DEF Inv, Fresh
<1> QED
  BY <1>1, <1>4, <1>5, <1>6, <1>7, <1>8, <1>9 DEF Inv

\* The invariant survives: there is nothing to call the engine for.
LEMMA InvQuiet ==
  ASSUME Inv, Quiet
  PROVE  Inv'
<1>1. TypeOK' /\ Finite'
  BY TypeOthers DEF Inv
<1>2. /\ pc = "engine" /\ pc' = "polls" /\ todo' = conns /\ batch = EmptyBatch
      /\ UNCHANGED <<profiles, fifos, c2s, client, sending, sent, got, conns, outbox, silence,
                     timers, pendingCloses, batch, output, told, heard, queued, greeted, idle>>
  BY DEF Quiet, News, files, clients, loop, history, engine
<1>3. /\ SendsAreBounded' /\ Idle' /\ Down' /\ Phases' /\ Numbered'
      /\ Armed' /\ Empty' /\ Quiets'
      /\ Fresh'
  BY <1>2 DEF Inv, SendsAreBounded, Idle, Down, Phases, Numbered, Armed, Empty, Quiets, Fresh,
              Collecting
<1>4. EndedLeaveNothing'
  BY <1>2 DEF Inv, EndedLeaveNothing, Ended, Collecting
<1>5. Told'
  <2>1. batch.new = <<>> /\ batch.closed = <<>> /\ pendingCloses = <<>>
    BY <1>2, Nothing DEF Inv, Phases, Collecting
  <2> QED
    BY <1>2, <2>1, Nothing DEF Inv, Told, Collecting
<1>6. InTransit'
  <2>1. \A c : Taken(c) = 0 /\ Taken(c)' = 0
    BY <1>2, NoneTaken, Nothing
  <2> QED
    BY <1>2, <2>1 DEF Inv, InTransit
<1> QED
  BY <1>1, <1>3, <1>4, <1>5, <1>6 DEF Inv

\* The invariant survives: the iteration is over.
LEMMA InvSleep ==
  ASSUME Inv, Sleep
  PROVE  Inv'
<1>1. TypeOK' /\ Finite'
  BY TypeOthers DEF Inv
<1>2. /\ pc = "polls" /\ pc' = "top" /\ todo' = {} /\ batch' = EmptyBatch /\ output' = NoOutput
      /\ UNCHANGED <<profiles, fifos, c2s, client, sending, sent, got, conns, outbox, silence,
                     timers, pendingCloses, told, heard, queued, greeted, idle>>
  BY DEF Sleep, files, clients, history, engine
<1>3. /\ SendsAreBounded' /\ Idle' /\ Down' /\ Phases' /\ Numbered'
      /\ Armed' /\ Empty' /\ Quiets'
      /\ Fresh'
  BY <1>2 DEF Inv, SendsAreBounded, Idle, Down, Phases, Numbered, Armed, Empty, Quiets, Fresh,
              Collecting
<1>4. EndedLeaveNothing' /\ Told'
  BY <1>2 DEF Inv, EndedLeaveNothing, Ended, Told, Collecting
<1>5. InTransit'
  <2>1. \A c : Taken(c) = 0 /\ Taken(c)' = 0
    BY <1>2, NoneTaken, Nothing DEF Taken
  <2> QED
    BY <1>2, <2>1 DEF Inv, InTransit
<1> QED
  BY <1>1, <1>3, <1>4, <1>5 DEF Inv

\* The invariant survives: a connection of which there is nothing to do.
LEMMA InvPass ==
  ASSUME Inv, NEW c \in Conn, Skip(c) \/ PassBy(c)
  PROVE  Inv'
<1>1. TypeOK' /\ Finite'
  BY TypeOthers DEF Inv
<1>2. /\ todo' = todo \ {c} /\ pc \in {"scan", "polls"}
      /\ UNCHANGED <<profiles, fifos, c2s, client, sending, sent, got, pc, onDisk, conns, outbox,
                     silence, timers, pendingCloses, batch, output, told, heard, queued, greeted,
                     idle>>
  BY DEF Skip, PassBy, files, clients, loop, history, engine
<1>3. /\ SendsAreBounded' /\ Idle' /\ Down' /\ Phases' /\ Numbered'
      /\ Armed' /\ Empty' /\ Quiets'
      /\ Fresh'
  BY <1>2 DEF Inv, SendsAreBounded, Idle, Down, Phases, Numbered, Armed, Empty, Quiets, Fresh,
              Collecting
<1>4. EndedLeaveNothing' /\ Told' /\ InTransit'
  BY <1>2 DEF Inv, EndedLeaveNothing, Ended, Told, InTransit, Taken, Collecting
<1> QED
  BY <1>1, <1>3, <1>4 DEF Inv

\* The invariant survives: a new run takes over.
LEMMA InvStart ==
  ASSUME Inv, Start
  PROVE  Inv'
<1>1. TypeOK' /\ Finite'
  BY TypeOthers DEF Inv
<1>2. /\ pc = "down" /\ pc' = "top" /\ profiles' = {}
      /\ UNCHANGED <<fifos, c2s, client, sending, sent, got, todo, onDisk, conns, outbox, silence,
                     timers, pendingCloses, batch, output, told, heard, queued, greeted, idle>>
  BY DEF Start, clients, engine
<1>3. /\ SendsAreBounded' /\ Idle' /\ Down' /\ Phases' /\ Numbered'
      /\ Armed' /\ Empty' /\ Quiets'
      /\ Fresh'
  BY <1>2 DEF Inv, SendsAreBounded, Idle, Down, Phases, Numbered, Armed, Empty, Quiets, Fresh,
              Collecting
<1>4. EndedLeaveNothing'
  BY <1>2 DEF Inv, EndedLeaveNothing, Ended, Collecting
<1>5. Told'
  BY <1>2, Nothing DEF Inv, Down, Told, Collecting
<1>6. InTransit'
  BY <1>2 DEF Inv, InTransit, Taken
<1> QED
  BY <1>1, <1>3, <1>4, <1>5, <1>6 DEF Inv

\* The invariant survives: the ways out and the crash.
LEMMA InvStop ==
  ASSUME Inv, Shutdown \/ IdleLeave \/ Crash
  PROVE  Inv'
<1>1. TypeOK' /\ Finite'
  BY TypeStop DEF Inv
<1>2. /\ pc # "down" /\ pc' = "down" /\ todo' = {} /\ conns' = {} /\ timers' = {}
      /\ pendingCloses' = <<>> /\ batch' = EmptyBatch /\ output' = NoOutput
      /\ told' = [c \in Conn |-> "unseen"] /\ heard' = [c \in Conn |-> 0]
      /\ outbox' = Reset(outbox, conns, <<>>) /\ silence' = Reset(silence, conns, 0)
      /\ idle' = Reset(idle, conns, 0)
      /\ UNCHANGED <<client, sending, sent, got, queued, greeted>>
  BY DEF Shutdown, IdleLeave, Crash, Stop, Forget
<1>3. /\ profiles' \subseteq profiles
      /\ \A c \in Conn \ conns : c2s[c] = <<>>
      /\ \A c \in Conn : c2s'[c] = <<>>
  <2>1. \A c \in Conn \ conns : c2s[c] = <<>>
    BY DEF Inv, Empty
  <2>2. CASE Shutdown
    BY <2>1, <2>2 DEF Shutdown, Teardown, Unlink, Reset
  <2>3. CASE IdleLeave
    BY <2>1, <2>3 DEF IdleLeave, IdleDue, files
  <2>4. CASE Crash
    BY <2>1, <2>4 DEF Crash
  <2> QED
    BY <2>2, <2>3, <2>4
<1>4. SendsAreBounded' /\ Idle' /\ Down' /\ Phases' /\ Numbered' /\ Armed' /\ Quiets'
      /\ InTransit'
  BY <1>2 DEF Inv, SendsAreBounded, Idle, Down, Phases, Numbered, Armed, Quiets, InTransit,
              Collecting
<1>5. Fresh'
  BY <1>2, <1>3 DEF Inv, Fresh
<1>6. Empty'
  BY <1>2, <1>3 DEF Inv, Empty, Reset
<1>7. EndedLeaveNothing' /\ Told'
  BY <1>2, Nothing DEF EndedLeaveNothing, Ended, Told, Collecting
<1> QED
  BY <1>1, <1>4, <1>5, <1>6, <1>7 DEF Inv

\* An iteration begins with a clock reading, later or earlier than the last.
LEMMA EitherWay ==
  ASSUME TypeOK, Forward \/ Backward
  PROVE  \E d \in Int : /\ Top(d) /\ jumps' \in 0 .. MaxJumps
                        /\ d \in Step \/ 0 - d \in Jump
<1>1. jumps \in 0 .. MaxJumps
  BY DEF TypeOK
<1>2. CASE Forward
  <2>1. PICK d \in Step : Top(d) /\ jumps' = jumps
    BY <1>2 DEF Forward
  <2>2. d \in Int
    BY <2>1, Numbers
  <2> QED
    BY <1>1, <2>1, <2>2
<1>3. CASE Backward
  <2>1. PICK d \in Jump : jumps < MaxJumps /\ Top(0 - d) /\ jumps' = jumps + 1
    BY <1>3 DEF Backward
  <2>2. d \in Nat /\ 0 - d \in Int /\ 0 - (0 - d) = d
    BY <2>1, Numbers
  <2>3. jumps' \in 0 .. MaxJumps
    BY <1>1, <2>1, Numbers
  <2> QED
    BY <2>1, <2>2, <2>3
<1> QED
  BY <1>2, <1>3

\* The invariant survives every step.
LEMMA InvNext == Inv /\ [Next]_vars => Inv'
<1> SUFFICES ASSUME Inv, [Next]_vars PROVE Inv'
  OBVIOUS
<1>1. CASE Forward \/ Backward
  <2>1. PICK d \in Int : Top(d) /\ jumps' \in 0 .. MaxJumps
    BY <1>1, EitherWay DEF Inv
  <2> QED
    BY <2>1, InvTop
<1>2. CASE Engine
  BY <1>2, InvCall DEF Engine
<1>3. CASE Gone \/ Sweep \/ Quiet \/ Sleep \/ Start
  BY <1>3, InvGone, InvSweep, InvQuiet, InvSleep, InvStart
<1>4. CASE Shutdown \/ IdleLeave \/ Crash
  BY <1>4, InvStop
<1>5. ASSUME NEW c \in Conn, Adopt(c) \/ Skip(c) \/ Drain(c) \/ ServePoll(c) \/ PassBy(c)
      PROVE  Inv'
  BY <1>5, InvAdopt, InvPass, InvDrain, InvServe
<1>6. ASSUME NEW c \in Conn, Request(c)
      PROVE  Inv'
  BY <1>6, InvRequest
<1>7. CASE UNCHANGED vars
  <2> USE <1>7 DEF vars, files, clients, loop, history, engine
  <2>1. TypeOK' /\ Finite' /\ SendsAreBounded' /\ Idle' /\ Down' /\ Phases' /\ Fresh'
    BY DEF Inv, TypeOK, Finite, SendsAreBounded, Idle, Down, Phases, Fresh, Collecting
  <2>2. /\ Empty' /\ EndedLeaveNothing' /\ Told' /\ Numbered' /\ InTransit'
        /\ Armed' /\ Quiets'
    BY DEF Inv, Empty, EndedLeaveNothing, Ended, Told, Numbered, InTransit, Taken, Armed, Quiets,
           Collecting
  <2> QED
    BY <2>1, <2>2 DEF Inv
<1> QED
  BY <1>1, <1>2, <1>3, <1>4, <1>5, <1>6, <1>7 DEF Next, Iterate

-----------------------------------------------------------------------------
(* The theorems that follow from the invariant.                            *)

\* The inductive invariant is one: whatever the clients do, however the clock
\* jumps and whenever the service dies (run_loop and the client CGI program).
THEOREM Invariance == Spec => []Inv
<1>1. Init => Inv
  BY InvInit
<1>2. Inv /\ [Next]_vars => Inv'
  BY InvNext
<1> QED
  BY <1>1, <1>2, PTL DEF Spec

\* run_loop keeps every variable within its type; no message gets a number
\* that was not sent, which is why this needs the invariant.
THEOREM TypeCorrect == Spec => []TypeOK
<1>1. Inv => TypeOK
  BY DEF Inv
<1> QED
  BY <1>1, Invariance, PTL

\* A connection the engine was told the end of has left nothing in the file
\* system or in the map (disconnect, close_connections, the scan).
THEOREM EndsLeaveNothing == Spec => []ClosedLeavesNothing
<1>1. Inv => ClosedLeavesNothing
  BY DEF Inv, EndedLeaveNothing, Ended, ClosedLeavesNothing
<1> QED
  BY <1>1, Invariance, PTL

\* The first n numbers.
FirstOf(n) == [k \in 1 .. n |-> k]

\* One message more in an outbox.
LEMMA OneMoreOf ==
  ASSUME NEW g \in Seq(Nat), NEW b \in Seq(Nat), NEW n \in Nat,
         g \o b = FirstOf(n)
  PROVE  g \o Append(b, n + 1) = FirstOf(n + 1)
<1>1. g \o Append(b, n + 1) = Append(g \o b, n + 1)
  BY AppendAfter
<1>2. Append(FirstOf(n), n + 1) = FirstOf(n + 1)
  BY DEF FirstOf
<1> QED
  BY <1>1, <1>2

\* What the polls returned and the outboxes hold stays complete in every
\* step, unless a poll process dies.
LEMMA OutboundNext ==
  ASSUME Inv, Inv', OutboundExact, [Next]_vars, ~ PollersDie
  PROVE  OutboundExact'
<1> USE DEF OutboundExact
<1>1. ASSUME conns' \subseteq conns, UNCHANGED <<got, queued>>,
             \A c \in conns' : outbox'[c] = outbox[c]
      PROVE  OutboundExact'
  BY <1>1
<1>2. /\ got \in [Conn -> Seq(1 .. MaxQueue)] /\ outbox \in [Conn -> Seq(1 .. MaxQueue)]
      /\ queued \in [Conn -> 0 .. MaxQueue] /\ conns \subseteq Conn
  BY DEF Inv, TypeOK
<1>3. ASSUME NEW S, Forget(S), UNCHANGED <<got, queued>>
      PROVE  OutboundExact'
  <2>1. conns' \subseteq conns /\ \A c \in conns' : outbox'[c] = outbox[c]
    BY <1>2, <1>3 DEF Forget, Reset
  <2> QED
    BY <1>1, <1>3, <2>1
<1>4. CASE Forward \/ Backward
  <2>1. PICK d \in Int : Top(d)
    BY <1>4, EitherWay DEF Inv
  <2> QED
    BY <1>1, <2>1 DEF Top, clients, engine
<1>5. ASSUME NEW o \in Outputs, Call(o)
      PROVE  OutboundExact'
  <2> DEFINE closing == o.close \cap conns
  <2>1. /\ conns' = conns \ closing /\ outbox' = Reset(Outboxes(o), closing, <<>>)
        /\ queued' = [c \in Conn |-> IF c \in o.messages \cap conns
                                       THEN queued[c] + 1 ELSE queued[c]]
        /\ got' = got
    BY <1>5 DEF Call
  <2> SUFFICES ASSUME NEW c \in conns'
               PROVE  got'[c] \o outbox'[c] = [k \in 1 .. queued'[c] |-> k]
    OBVIOUS
  <2>2. c \in conns /\ c \in Conn /\ c \notin closing
    BY <1>2, <2>1
  <2>3. outbox'[c] = IF c \in o.messages THEN Append(outbox[c], queued[c] + 1) ELSE outbox[c]
    BY <2>1, <2>2 DEF Reset, Outboxes
  <2>4. queued'[c] = IF c \in o.messages THEN queued[c] + 1 ELSE queued[c]
    BY <2>1, <2>2
  <2>5. got[c] \o outbox[c] = [k \in 1 .. queued[c] |-> k]
    BY <2>2
  <2>6. CASE c \notin o.messages
    BY <2>1, <2>3, <2>4, <2>5, <2>6
  <2>7. CASE c \in o.messages
    <3> DEFINE g == got[c]  b == outbox[c]  n == queued[c]
    <3>1. g \in Seq(Nat) /\ b \in Seq(Nat) /\ n \in Nat
      BY <1>2, <2>2, Numbers
    <3>2. g \o b = FirstOf(n)
      BY <2>5 DEF FirstOf
    <3> HIDE DEF g, b, n
    <3>3. g \o Append(b, n + 1) = FirstOf(n + 1)
      BY <3>1, <3>2, OneMoreOf
    <3> QED
      BY <2>1, <2>3, <2>4, <2>7, <3>3 DEF g, b, n, FirstOf
  <2> QED
    BY <2>6, <2>7
<1>6. CASE Gone
  BY <1>3, <1>6 DEF Gone, engine
<1>7. CASE Sweep
  BY <1>3, <1>7 DEF Sweep, engine
<1>8. CASE Shutdown \/ IdleLeave \/ Crash
  BY <1>3, <1>8 DEF Shutdown, IdleLeave, Crash, Stop
<1>9. CASE Quiet \/ Sleep \/ Start
  BY <1>9 DEF Quiet, Sleep, Start, clients, loop, history, engine
<1>10. ASSUME NEW c \in Conn, Adopt(c)
       PROVE  OutboundExact'
  <2>1. conns' = conns \cup {c} /\ UNCHANGED <<got, queued, outbox>>
    BY <1>10 DEF Adopt, engine
  <2>2. c \notin conns /\ c \notin greeted
    BY <1>10, HereIsGreeted DEF Adopt, Inv, Phases, Fresh
  <2>3. got[c] = <<>> /\ outbox[c] = <<>> /\ queued[c] = 0
    BY <2>2 DEF Inv, Fresh, Empty
  <2>4. got[c] \o outbox[c] = [k \in 1 .. queued[c] |-> k]
    BY <2>3
  <2> QED
    BY <2>1, <2>4
<1>11. ASSUME NEW c \in Conn, ServePoll(c)
       PROVE  OutboundExact'
  <2>1. got' = [got EXCEPT ![c] = @ \o outbox[c]] /\ outbox' = [outbox EXCEPT ![c] = <<>>]
        /\ UNCHANGED <<conns, queued>>
    BY <1>11 DEF ServePoll, engine
  <2>2. got[c] \o outbox[c] \in Seq(1 .. MaxQueue)
    BY <1>2, ConcatProperties
  <2>3. got'[c] \o outbox'[c] = got[c] \o outbox[c]
    BY <1>2, <2>1, <2>2
  <2>4. \A e \in Conn \ {c} : got'[e] = got[e] /\ outbox'[e] = outbox[e]
    BY <1>2, <2>1
  <2>5. ASSUME NEW e \in conns
        PROVE  got'[e] \o outbox'[e] = [k \in 1 .. queued[e] |-> k]
    <3>1. CASE e = c
      BY <2>3, <3>1
    <3>2. CASE e # c
      BY <1>2, <2>4, <3>2
    <3> QED
      BY <3>1, <3>2
  <2> QED
    BY <2>1, <2>5
<1>12. ASSUME NEW c \in Conn, Skip(c) \/ Drain(c) \/ PassBy(c)
       PROVE  OutboundExact'
  BY <1>12 DEF Skip, Drain, PassBy, clients, loop, history, engine
<1>13. ASSUME NEW c \in Conn, Request(c)
       PROVE  OutboundExact'
  BY <1>13 DEF Request, Connect, Close, SendStart, SendWrite, SendFail, PollStart, PollOpen,
         PollFail, PollAgain, PollEnd, SetPolling, loop, engine, history
<1>14. CASE UNCHANGED vars
  BY <1>14 DEF vars, clients, loop, history, engine
<1> QED
  BY <1>4, <1>5, <1>6, <1>7, <1>8, <1>9, <1>10, <1>11, <1>12, <1>13, <1>14
     DEF Next, Iterate, Engine

\* If no poll process dies while it is answered, what the polls of a living
\* connection returned and what its outbox holds are together everything the
\* engine sent to it, in order and once (the engine step and try_serve_poll).
THEOREM PollsReturnEverything ==
  ASSUME ~ PollersDie
  PROVE  Spec => []OutboundExact
<1>1. Init => OutboundExact
  BY DEF Init, OutboundExact
<1>2. Inv /\ Inv' /\ OutboundExact /\ [Next]_vars => OutboundExact'
  BY OutboundNext
<1> QED
  BY <1>1, <1>2, Invariance, PTL DEF Spec

\* What CutOnlyTheSilent says of a step.
Cut == \A c \in Conn :
       [conn |-> c, reason |-> "server_idle_timeout"]
           \in ToSet(batch'.closed) \ ToSet(batch.closed)
         => idle[c] >= Inactivity \/ c2s[c] # <<>>

\* A step cuts only the silent.  Gone and the engine report other reasons.
LEMMA CutNext ==
  ASSUME Inv, Next
  PROVE  Cut
<1> USE DEF Cut
<1>1. ASSUME batch'.closed = batch.closed \/ batch'.closed = <<>>
      PROVE  Cut
  BY <1>1, Nothing
<1>2. batch \in Batches /\ batch.closed \in Seq(ClosedReport)
  BY BatchWith DEF Inv, TypeOK
<1>3. CASE Forward \/ Backward
  <2>1. PICK d \in Int : Top(d)
    BY <1>3, EitherWay DEF Inv
  <2>2. batch'.closed = [k \in DOMAIN pendingCloses |->
                           [conn |-> pendingCloses[k], reason |-> "engine_requested"]]
    BY <2>1 DEF Top, EmptyBatch
  <2>3. \A r \in ToSet(batch'.closed) : r.reason = "engine_requested"
    BY <2>2 DEF ToSet
  <2> QED
    BY <2>3
<1>4. CASE Gone
  <2> DEFINE gone == conns \ onDisk
  <2>1. batch'.closed = batch.closed \o Reports(gone, "client_disconnected")
    BY <1>2, <1>4 DEF Gone, Batches
  <2>2. gone \subseteq Conn /\ IsFiniteSet(gone)
    BY FS_Subset DEF Inv, Finite, TypeOK
  <2>3. \A x \in ToSet(batch'.closed) \ ToSet(batch.closed) : x.reason = "client_disconnected"
    BY <1>2, <2>1, <2>2, MoreReports
  <2> QED
    BY <2>3
<1>5. CASE Sweep
  <2>1. batch'.closed = batch.closed \o Reports(Silent, "server_idle_timeout")
    BY <1>2, <1>5 DEF Sweep, Batches
  <2>2. /\ Silent \subseteq conns /\ conns \subseteq Conn
        /\ \A c \in Silent : silence[c] >= Inactivity
    BY DEF Silent, Inv, TypeOK
  <2>3. IsFiniteSet(Silent) /\ Silent \subseteq Conn
    BY <2>2, FS_Subset DEF Inv, Finite
  <2>4. \A x \in ToSet(batch'.closed) \ ToSet(batch.closed) : x.conn \in Silent
    BY <1>2, <2>1, <2>3, MoreReports
  <2>5. ASSUME NEW c \in Silent
        PROVE  idle[c] >= Inactivity \/ c2s[c] # <<>>
    <3>1. c2s[c] # <<>> \/ silence[c] <= idle[c] \/ idle[c] = Inactivity
      BY <2>2 DEF Inv, Quiets
    <3>2. silence[c] \in Nat /\ idle[c] \in 0 .. Inactivity /\ silence[c] >= Inactivity
      BY <2>2 DEF Inv, TypeOK
    <3> QED
      BY <3>1, <3>2, Numbers
  <2> QED
    BY <2>4, <2>5
<1>6. ASSUME NEW o \in Outputs, Call(o)
      PROVE  Cut
  BY <1>1, <1>6 DEF Call
<1>7. CASE Shutdown \/ IdleLeave \/ Crash \/ Sleep
  BY <1>1, <1>7, Nothing DEF Shutdown, IdleLeave, Crash, Stop, Sleep
<1>8. CASE Quiet \/ Start
  BY <1>1, <1>8 DEF Quiet, Start, loop
<1>9. ASSUME NEW c \in Conn, Adopt(c) \/ Skip(c) \/ Drain(c) \/ ServePoll(c) \/ PassBy(c)
      PROVE  Cut
  <2>1. batch'.closed = batch.closed
    BY <1>2, <1>9 DEF Adopt, Skip, Drain, ServePoll, PassBy, loop, Batches
  <2> QED
    BY <1>1, <2>1
<1>10. ASSUME NEW c \in Conn, Request(c)
       PROVE  Cut
  <2>1. batch' = batch
    BY <1>10 DEF Request, Connect, Close, SendStart, SendWrite, SendFail, PollStart, PollOpen,
           PollFail, PollAgain, PollEnd, SetPolling, loop
  <2> QED
    BY <1>1, <2>1
<1> QED
  BY <1>3, <1>4, <1>5, <1>6, <1>7, <1>8, <1>9, <1>10 DEF Next, Iterate, Engine

\* Only a client that gave no sign of life for the inactivity period is
\* disconnected for it, unless a frame of it is still in the FIFO (the
\* inactivity check of run_loop).
THEOREM CutsAreDeserved == Spec => CutOnlyTheSilent
<1>1. Inv /\ [Next]_vars => [Cut]_vars
  BY CutNext
<1>2. Spec => [][Cut]_vars
  BY <1>1, Invariance, PTL DEF Spec
<1> QED
  BY <1>2 DEF CutOnlyTheSilent, Cut

-----------------------------------------------------------------------------
(* The loop implements the contract.                                       *)

\* What the variables of the contract stand for: the batch the engine is
\* shown ...
Shown == IF pc = "polls" THEN batch ELSE EmptyBatch

\* ... the timers that are armed, those handed over included until then ...
Pending == IF pc = "engine" THEN timers \cup ToSet(batch.fired) ELSE timers

\* ... the closes it ordered and has not had reported ...
Owing == ToSet(pendingCloses) \cup (IF pc \in {"scan", "drain", "engine"} THEN EngineRequested ELSE {})

\* ... and the time that may pass.
Amounts == {0} \cup Step \cup {0 - d : d \in Jump}

\* Timers T, d later.
Later(T, d) == {[t EXCEPT !.rem = @ - d] : t \in T}

\* The closes in a batch that are owed.
LEMMA Owings == EngineRequested = EngineOnes(batch.closed)
  BY DEF EngineRequested, EngineOnes, ToSet

\* The contract and the loop mean the same by nothing.
LEMMA SameEmpty == Contract!EmptyBatch = EmptyBatch /\ Contract!NoOutput = NoOutput
  BY DEF EmptyBatch, NoOutput, Contract!EmptyBatch, Contract!NoOutput

\* The loop begins as the contract does.
LEMMA ContractInit == Init => Contract!Init
<1> SUFFICES ASSUME Init PROVE Contract!Init
  OBVIOUS
<1> QED
  BY Nothing, SameEmpty DEF Init, Contract!Init

\* Steps the contract does not see,
LEMMA ContractStutters ==
  ASSUME UNCHANGED <<Shown, output, told, heard, Pending, Owing>>
  PROVE  UNCHANGED Contract!vars
  BY DEF Contract!vars, Shown, Pending, Owing

\* steps in which time passes,
LEMMA ContractElapses ==
  ASSUME NEW d \in Amounts, Shown' = EmptyBatch, output' = NoOutput,
         Pending' = Later(Pending, d), UNCHANGED <<told, heard, Owing>>
  PROVE  \E e \in Amounts : Contract!Elapse(e)
<1>1. Contract!Elapse(d)
  BY SameEmpty DEF Contract!Elapse, Shown, Pending, Owing, Later
<1> QED
  BY <1>1

\* and steps that end the run.
LEMMA ContractEnds ==
  ASSUME Shown' = EmptyBatch, output' = NoOutput, Pending' = {}, Owing' = {},
         told' = [c \in Conn |-> "unseen"], heard' = [c \in Conn |-> 0]
  PROVE  Contract!End
  BY SameEmpty DEF Contract!End, Shown, Pending, Owing

\* Any of the contract's actions is a step of it.
LEMMA ContractNext ==
  ASSUME Contract!Call \/ Contract!End \/ \E d \in Amounts : Contract!Elapse(d)
  PROVE  Contract!Next
  BY DEF Contract!Next, Amounts

\* The contract and the loop mean the same by the library's operators.
LEMMA SameOperators ==
  /\ \A S : Contract!Cardinality(S) = Cardinality(S)
  /\ \A s : Contract!ToSet(s) = ToSet(s)
  /\ \A f : Contract!IsInjective(f) = IsInjective(f)
<1>1. \A S : Contract!Cardinality(S) = Cardinality(S)
  BY DEF Contract!Cardinality, Cardinality
<1>2. \A s : Contract!ToSet(s) = ToSet(s)
  BY DEF Contract!ToSet, ToSet
<1>3. \A f : Contract!IsInjective(f) = IsInjective(f)
  BY DEF Contract!IsInjective, IsInjective
<1> QED
  BY <1>1, <1>2, <1>3

\* The timers the contract holds to be due.
DueOnes == {t \in Pending : t.rem <= 0}

\* A batch that keeps the promises, in the terms of the loop.
LEMMA ContractCalls ==
  ASSUME NEW b, b = Shown', Shown = EmptyBatch, b # EmptyBatch,
         IsInjective(b.new), \A c \in ToSet(b.new) : told[c] = "unseen",
         OnceEach(b.closed), \A c \in ConnsIn(b.closed) : told[c] = "open",
         Owing = EngineOnes(b.closed),
         \A c \in Conn : \A k \in Of(b.inbound, c) :
           /\ b.inbound[k].n = heard[c] + Cardinality(Before(b.inbound, c, k))
           /\ told[c] = "open" \/ c \in ToSet(b.new)
           /\ c \notin ConnsIn(b.closed),
         IsInjective(b.fired), ToSet(b.fired) = DueOnes,
         \A j, k \in DOMAIN b.fired : j < k => b.fired[j].rem <= b.fired[k].rem,
         told' = [c \in Conn |-> CASE c \in ConnsIn(b.closed) -> "closed"
                                   [] c \in ToSet(b.new) -> "open"
                                   [] OTHER -> told[c]],
         heard' = [c \in Conn |-> heard[c] + Cardinality(Of(b.inbound, c))],
         Owing' = {c \in output'.close : told'[c] = "open"},
         Pending' = {t \in Pending \ DueOnes : t.id \notin output'.cancel} \cup output'.add
  PROVE  Contract!Call
<1> USE SameOperators
<1>1. /\ Contract!ClosedConns(b) = ConnsIn(b.closed)
      /\ \A c : Contract!From(b, c) = Of(b.inbound, c)
      /\ \A c, k : {j \in Contract!From(b, c) : j <= k} = Before(b.inbound, c, k)
      /\ Contract!Due = DueOnes
  BY DEF Contract!ClosedConns, Contract!From, Contract!Due, ConnsIn, Of, Before, DueOnes, Pending
<1>2. Contract!Connections(b)
  <2>1. Owing = {r.conn : r \in {s \in ToSet(b.closed) : s.reason = "engine_requested"}}
    BY DEF EngineOnes, ToSet
  <2> QED
    BY <1>1, <2>1 DEF Contract!Connections, OnceEach, Owing
<1>3. Contract!Messages(b)
  <2> SUFFICES ASSUME NEW c \in Conn, NEW k \in Of(b.inbound, c)
               PROVE  /\ b.inbound[k].n
                           = heard[c] + Contract!Cardinality({j \in Contract!From(b, c) : j <= k})
                      /\ told[c] = "open" \/ c \in ToSet(b.new)
                      /\ c \notin ConnsIn(b.closed)
    BY <1>1 DEF Contract!Messages
  <2>1. {j \in Contract!From(b, c) : j <= k} = Before(b.inbound, c, k)
    BY <1>1
  <2>2. Contract!Cardinality(Before(b.inbound, c, k)) = Cardinality(Before(b.inbound, c, k))
    OBVIOUS
  <2> QED
    BY <2>1, <2>2
<1>4. Contract!Timers(b)
  BY <1>1 DEF Contract!Timers
<1> QED
  BY <1>1, <1>2, <1>3, <1>4, SameEmpty DEF Contract!Call, Shown, Pending, Owing

\* Everything the contract sees.
Seen == <<Shown, output, told, heard, Pending, Owing>>

\* What happens between two calls, but for the time that passes, is not seen
\* by the engine: clients come and go, profiles and FIFOs are read, timers
\* are taken from the list and put into the batch.
LEMMA NotSeen ==
  ASSUME Inv, [Next]_vars,
         ~ Forward, ~ Backward, ~ Engine, ~ Sleep, ~ Shutdown, ~ IdleLeave, ~ Crash
  PROVE  UNCHANGED Seen
<1> USE DEF Seen
<1>1. ASSUME UNCHANGED <<pc, output, told, heard, timers, pendingCloses, batch>>
      PROVE  UNCHANGED Seen
  BY <1>1 DEF Shown, Pending, Owing, EngineRequested
<1>2. ASSUME pc \in {"scan", "drain"}, pc' \in {"scan", "drain"},
             UNCHANGED <<output, told, heard, timers, pendingCloses>>,
             EngineOnes(batch'.closed) = EngineOnes(batch.closed)
      PROVE  UNCHANGED Seen
  <2>1. EngineRequested' = EngineRequested
    BY <1>2, Owings DEF EngineRequested, EngineOnes, ToSet
  <2> QED
    BY <1>2, <2>1 DEF Shown, Pending, Owing
<1>3. batch \in Batches /\ batch.closed \in Seq(ClosedReport)
  BY BatchWith DEF Inv, TypeOK
<1>4. ASSUME NEW c \in Conn, Adopt(c)
      PROVE  UNCHANGED Seen
  <2>1. /\ pc = "scan" /\ pc' = "scan" /\ batch'.closed = batch.closed
        /\ UNCHANGED <<output, told, heard, timers, pendingCloses>>
    BY <1>3, <1>4 DEF Adopt, engine, Batches
  <2> QED
    BY <1>2, <2>1
<1>5. ASSUME NEW c \in Conn, Drain(c)
      PROVE  UNCHANGED Seen
  <2>1. /\ pc = "drain" /\ pc' = "drain" /\ batch'.closed = batch.closed
        /\ UNCHANGED <<output, told, heard, timers, pendingCloses>>
    BY <1>3, <1>5 DEF Drain, history, engine, Batches
  <2> QED
    BY <1>2, <2>1
<1>6. CASE Gone
  <2> DEFINE gone == conns \ onDisk
  <2>1. /\ pc = "scan" /\ pc' = "drain"
        /\ batch'.closed = batch.closed \o Reports(gone, "client_disconnected")
        /\ UNCHANGED <<output, told, heard, timers, pendingCloses>>
    BY <1>3, <1>6 DEF Gone, engine, Batches
  <2>2. gone \subseteq Conn /\ IsFiniteSet(gone)
    BY FS_Subset DEF Inv, Finite, TypeOK
  <2>3. EngineOnes(batch'.closed) = EngineOnes(batch.closed)
    BY <1>3, <2>1, <2>2, MoreReports
  <2> QED
    BY <1>2, <2>1, <2>3
<1>7. CASE Sweep
  <2>1. /\ pc = "drain" /\ pc' = "engine" /\ timers' = timers \ Expired
        /\ UNCHANGED <<output, told, heard, pendingCloses>>
    BY <1>7 DEF Sweep, engine
  <2>2. PICK order \in SetToSeqs(Expired) :
          batch' = [batch EXCEPT !.closed = @ \o Reports(Silent, "server_idle_timeout"),
                                 !.fired = order]
    BY <1>7 DEF Sweep
  <2>3. /\ batch'.closed = batch.closed \o Reports(Silent, "server_idle_timeout")
        /\ batch'.fired = order
    BY <1>3, <2>2 DEF Batches
  <2>4. Silent \subseteq Conn /\ IsFiniteSet(Silent)
    BY FS_Subset DEF Silent, Inv, Finite, TypeOK
  <2>5. EngineOnes(batch'.closed) = EngineOnes(batch.closed)
    BY <1>3, <2>3, <2>4, MoreReports
  <2>6. EngineRequested' = EngineRequested
    BY <2>5 DEF EngineRequested, EngineOnes, ToSet
  <2>7. IsFiniteSet(Expired) /\ Expired \subseteq timers /\ timers \subseteq Timer
    BY FS_Subset DEF Inv, Finite, Expired, TypeOK, Timer
  <2>8. ToSet(order) = Expired
    BY <2>7, Ordered
  <2>9. timers' \cup ToSet(batch'.fired) = timers
    BY <2>1, <2>3, <2>7, <2>8
  <2> QED
    BY <2>1, <2>6, <2>9 DEF Shown, Pending, Owing
<1>8. CASE Quiet
  <2>1. /\ pc = "engine" /\ pc' = "polls" /\ batch = EmptyBatch
        /\ UNCHANGED <<output, told, heard, timers, pendingCloses, batch>>
    BY <1>8 DEF Quiet, News, loop, history, engine
  <2>2. EngineRequested = {} /\ ToSet(batch.fired) = {}
    BY <2>1, Nothing, Owings
  <2> QED
    BY <2>1, <2>2 DEF Shown, Pending, Owing
<1>9. CASE Start
  <2>1. /\ pc = "down" /\ pc' = "top"
        /\ UNCHANGED <<output, told, heard, timers, pendingCloses>>
    BY <1>9 DEF Start, engine
  <2> QED
    BY <2>1 DEF Shown, Pending, Owing
<1>10. ASSUME NEW c \in Conn, Skip(c) \/ ServePoll(c) \/ PassBy(c)
       PROVE  UNCHANGED Seen
  BY <1>1, <1>10 DEF Skip, ServePoll, PassBy, loop, history, engine
<1>11. ASSUME NEW c \in Conn, Request(c)
       PROVE  UNCHANGED Seen
  BY <1>1, <1>11 DEF Request, Connect, Close, SendStart, SendWrite, SendFail, PollStart, PollOpen,
         PollFail, PollAgain, PollEnd, SetPolling, loop, history, engine
<1>12. CASE UNCHANGED vars
  BY <1>1, <1>12 DEF vars, loop, history, engine
<1> QED
  BY <1>4, <1>5, <1>6, <1>7, <1>8, <1>9, <1>10, <1>11, <1>12 DEF Next, Iterate

\* The reading of the clock and the sleep: time passes, and what was deferred
\* remains owed.
LEMMA EngineTimePasses ==
  ASSUME Inv, Forward \/ Backward \/ Sleep
  PROVE  \E e \in Amounts : Contract!Elapse(e)
<1>1. CASE Forward \/ Backward
  <2>1. PICK d \in Int : Top(d) /\ (d \in Step \/ 0 - d \in Jump)
    BY <1>1, EitherWay DEF Inv
  <2>2. d \in Amounts
    <3>1. 0 - (0 - d) = d
      BY <2>1
    <3> QED
      BY <2>1, <3>1 DEF Amounts
  <2>3. /\ pc = "top" /\ pc' \in {"scan", "drain"}
        /\ timers' = Later(timers, d) /\ pendingCloses' = <<>>
        /\ batch'.closed = [k \in DOMAIN pendingCloses |->
                              [conn |-> pendingCloses[k], reason |-> "engine_requested"]]
        /\ UNCHANGED <<output, told, heard>>
    BY <2>1 DEF Top, Later, EmptyBatch, engine
  <2>4. output = NoOutput /\ pendingCloses \in Seq(Conn)
    BY <2>3 DEF Inv, Idle, TypeOK
  <2>5. Shown' = EmptyBatch /\ Pending' = Later(Pending, d)
    BY <2>3 DEF Shown, Pending
  <2>6. Owing' = Owing
    <3>1. EngineRequested' = EngineOnes(batch'.closed)
      BY DEF EngineRequested, EngineOnes, ToSet
    <3>2. EngineOnes(batch'.closed) = ToSet(pendingCloses)
      BY <2>3, <2>4, DeferredReports
    <3>3. ToSet(pendingCloses') = {}
      BY <2>3, Nothing
    <3> QED
      BY <2>3, <3>1, <3>2, <3>3 DEF Owing
  <2> QED
    BY <2>2, <2>3, <2>4, <2>5, <2>6, ContractElapses
<1>2. CASE Sleep
  <2>1. /\ pc = "polls" /\ pc' = "top" /\ batch' = EmptyBatch /\ output' = NoOutput
        /\ UNCHANGED <<told, heard, timers, pendingCloses>>
    BY <1>2 DEF Sleep, history, engine
  <2>2. Shown' = EmptyBatch /\ Owing' = Owing /\ Pending = timers /\ Pending' = timers
    BY <2>1 DEF Shown, Owing, Pending
  <2>3. timers \subseteq Timer
    BY DEF Inv, TypeOK, Timer
  <2>4. \A t \in Timer : [t EXCEPT !.rem = @ - 0] = t
    BY DEF Timer
  <2>5. Later(timers, 0) = timers
    BY <2>3, <2>4 DEF Later
  <2>6. 0 \in Amounts
    BY DEF Amounts
  <2> QED
    BY <2>1, <2>2, <2>5, <2>6, ContractElapses
<1> QED
  BY <1>1, <1>2

\* The ways out and the crash end the run.
LEMMA RunEnds ==
  ASSUME Inv, Shutdown \/ IdleLeave \/ Crash
  PROVE  Contract!End
<1>1. /\ pc' = "down" /\ timers' = {} /\ pendingCloses' = <<>>
      /\ output' = NoOutput /\ told' = [c \in Conn |-> "unseen"] /\ heard' = [c \in Conn |-> 0]
  BY DEF Shutdown, IdleLeave, Crash, Stop
<1>2. Shown' = EmptyBatch /\ Pending' = {} /\ Owing' = {}
  BY <1>1, Nothing DEF Shown, Pending, Owing
<1> QED
  BY <1>1, <1>2, ContractEnds

\* A call of process_messages keeps every promise: this is where the parts of
\* the invariant come together.
LEMMA EngineCalled ==
  ASSUME Inv, NEW o \in Outputs, Call(o)
  PROVE  Contract!Call
<1> DEFINE closing == o.close \cap conns
<1>1. /\ pc = "engine" /\ pc' = "polls" /\ output' = o /\ batch # EmptyBatch
      /\ pendingCloses' = SetToSeq(closing) /\ timers' = Timers(o)
      /\ told' = ToldAfter /\ batch' = batch
      /\ heard' = [c \in Conn |-> heard[c] + Cardinality(Of(batch.inbound, c))]
  BY DEF Call, Teardown, Unlink, Deferred, News, Of
<1>2. conns \subseteq Conn /\ IsFiniteSet(closing)
  BY FS_Subset DEF Inv, TypeOK, Finite
<1>3. ToSet(pendingCloses') = closing
  BY <1>1, <1>2, Listed
<1>4. Shown = EmptyBatch /\ Shown' = batch
  BY <1>1 DEF Shown
<1>5. /\ IsInjective(batch.new) /\ OnceEach(batch.closed)
      /\ \A c \in ToSet(batch.new) : told[c] = "unseen"
      /\ \A c \in Conn : told[c] = "open" <=> c \in (conns \ ToSet(batch.new))
                                                    \cup ConnsIn(batch.closed)
  BY <1>1 DEF Inv, Told, Collecting
<1>6. ConnsIn(batch.closed) \subseteq Conn /\ ConnsIn(batch.closed) \cap conns = {}
  BY <1>1, HereIsGreeted DEF Inv, EndedLeaveNothing, Ended, Collecting
<1>7. Owing = EngineOnes(batch.closed)
  <2>1. pendingCloses = <<>>
    BY <1>1 DEF Inv, Phases, Collecting
  <2> QED
    BY <1>1, <2>1, Owings, Nothing DEF Owing
<1>8. ASSUME NEW c \in Conn, NEW k \in Of(batch.inbound, c)
      PROVE  /\ batch.inbound[k].n = heard[c] + Cardinality(Before(batch.inbound, c, k))
             /\ told[c] = "open" \/ c \in ToSet(batch.new)
             /\ c \notin ConnsIn(batch.closed)
  <2>1. /\ c \in conns
        /\ batch.inbound[k].n = heard[c] + Cardinality(Before(batch.inbound, c, k))
    BY <1>1 DEF Inv, Numbered, Collecting, Of
  <2> QED
    BY <1>5, <1>6, <2>1
<1>9. /\ IsInjective(batch.fired)
      /\ \A j, k \in DOMAIN batch.fired : j < k => batch.fired[j].rem <= batch.fired[k].rem
      /\ \A t \in timers : t.rem > 0
      /\ \A t \in ToSet(batch.fired) : t.rem <= 0
  BY <1>1 DEF Inv, Armed
<1>10. /\ \A t \in timers : t.rem \in Int
       /\ Pending = timers \cup ToSet(batch.fired)
  BY <1>1 DEF Inv, TypeOK, Pending
<1>11. ToSet(batch.fired) = DueOnes /\ Pending \ DueOnes = timers
  <2>1. \A t \in timers : ~ (t.rem <= 0)
    BY <1>9, <1>10
  <2> QED
    BY <1>9, <1>10, <2>1 DEF DueOnes
<1>12. Pending' = {t \in Pending \ DueOnes : t.id \notin output'.cancel} \cup output'.add
  BY <1>1, <1>11 DEF Pending, Timers
<1>13. told' = [c \in Conn |-> CASE c \in ConnsIn(batch.closed) -> "closed"
                                  [] c \in ToSet(batch.new) -> "open"
                                  [] OTHER -> told[c]]
  BY <1>1, ToldNow DEF ToldAfter
<1>14. Owing' = {c \in output'.close : told'[c] = "open"}
  <2>1. o.close \subseteq Conn
    BY DEF Outputs
  <2>2. \A c \in Conn : told'[c] = "open" <=> c \in conns
    BY <1>1, ToldNow
  <2>3. Owing' = closing
    BY <1>1, <1>3 DEF Owing
  <2> QED
    BY <1>1, <2>1, <2>2, <2>3
<1> HIDE DEF closing
<1> QED
  BY <1>1, <1>4, <1>5, <1>6, <1>7, <1>8, <1>9, <1>11, <1>12, <1>13, <1>14, ContractCalls

\* Every step of the loop is one of the contract, or is not seen.
LEMMA StepOfContract ==
  ASSUME Inv, [Next]_vars
  PROVE  [Contract!Next]_(Contract!vars)
<1>1. CASE Forward \/ Backward \/ Sleep
  BY <1>1, EngineTimePasses, ContractNext
<1>2. CASE Shutdown \/ IdleLeave \/ Crash
  BY <1>2, RunEnds, ContractNext
<1>3. CASE Engine
  BY <1>3, EngineCalled, ContractNext DEF Engine
<1>4. CASE ~ (Forward \/ Backward \/ Sleep \/ Shutdown \/ IdleLeave \/ Crash \/ Engine)
  BY <1>4, NotSeen, ContractStutters DEF Seen
<1> QED
  BY <1>1, <1>2, <1>3, <1>4

\* run_loop, whatever the clients do and whenever it dies, shows the engine
\* exactly the events that EngineContract promises it.
THEOREM Refinement == Spec => KeepsContract
<1>1. Init => Contract!Init
  BY ContractInit
<1>2. Inv /\ [Next]_vars => [Contract!Next]_(Contract!vars)
  BY StepOfContract
<1> QED
  BY <1>1, <1>2, Invariance, PTL DEF Spec, KeepsContract, Contract!Spec
=============================================================================
