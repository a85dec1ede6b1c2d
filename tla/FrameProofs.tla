----------------------------- MODULE FrameProofs -----------------------------
(* What framing guarantees for texts of every length, and for every way in *)
(* which a FIFO cuts the bytes into pieces.                                *)
EXTENDS Frames, Fifo, ListFacts

\* The four bytes of a length up to the limit, put together again, give the
\* length, and the most significant one is at most 1.
LEMMA FourBytes ==
  ASSUME NEW n \in 0 .. MaxFrame
  PROVE  /\ n % 256 \in 0 .. 255 /\ (n \div 256) % 256 \in 0 .. 255
         /\ (n \div 65536) % 256 \in 0 .. 255 /\ n \div (256 * 65536) \in 0 .. 1
         /\ n = (n % 256) + 256 * ((n \div 256) % 256)
                  + 65536 * ((n \div 65536) % 256) + 256 * 65536 * (n \div (256 * 65536))
<1>1. n \in Nat /\ n <= 256 * 65536
  BY Z3, MaxFrameAssumption
<1>2. /\ n % 256 \in 0 .. 255 /\ (n \div 256) % 256 \in 0 .. 255
      /\ (n \div 65536) % 256 \in 0 .. 255
  BY Z3, <1>1
<1>3. n \div (256 * 65536) \in 0 .. 1
  BY Z3, <1>1
<1>4. n = (n % 256) + 256 * (n \div 256)
  BY Z3, <1>1
<1>5. n \div 256 = ((n \div 256) % 256) + 256 * (n \div 65536)
  BY Z3, <1>1
<1>6. n \div 65536 = ((n \div 65536) % 256) + 256 * (n \div (256 * 65536))
  BY Z3, <1>1
<1> QED
  BY Z3, <1>1, <1>2, <1>3, <1>4, <1>5, <1>6

\* The reader finds the length that the writer wrote (write_frame's
\* to_le_bytes, read_frame's and extract_frames's from_le_bytes), whatever
\* else the first four bytes are followed by.
LEMMA HeaderTellsLength ==
  ASSUME NEW n \in 0 .. MaxFrame, NEW b \in Seq(Byte), Len(b) >= 4,
         \A k \in 1 .. 4 : b[k] = Header(n)[k]
  PROVE  LengthIn(b) = n
<1>1. b[1] = n % 256 /\ b[2] = (n \div 256) % 256 /\ b[3] = (n \div 65536) % 256
      /\ b[4] = n \div (256 * 65536)
  BY Z3 DEF Header
<1>2. n = b[1] + 256 * b[2] + 65536 * b[3] + 256 * 65536 * b[4] /\ b[4] <= 2
  <2>1. /\ n \div (256 * 65536) \in 0 .. 1
        /\ n = (n % 256) + 256 * ((n \div 256) % 256)
                 + 65536 * ((n \div 65536) % 256) + 256 * 65536 * (n \div (256 * 65536))
    BY Z3, FourBytes
  <2> QED
    BY Z3, <1>1, <2>1
<1> QED
  BY Z3, <1>2 DEF LengthIn

\* What write_frame puts before a text is four bytes.
LEMMA HeaderIsFourBytes ==
  ASSUME NEW n \in 0 .. MaxFrame
  PROVE  Header(n) \in Seq(Byte) /\ Len(Header(n)) = 4
BY Z3, FourBytes DEF Header, Byte

\* A frame is the header and then the text.
LEMMA FrameBytes ==
  ASSUME NEW text \in Seq(Byte), Len(text) <= MaxFrame
  PROVE  /\ Frame(text) \in Seq(Byte) /\ Len(Frame(text)) = 4 + Len(text)
         /\ \A k \in 1 .. 4 : Frame(text)[k] = Header(Len(text))[k]
         /\ \A k \in 1 .. Len(text) : Frame(text)[4 + k] = text[k]
<1> DEFINE h == Header(Len(text))
<1>1. Len(text) \in 0 .. MaxFrame
  BY Z3, LenProperties, MaxFrameAssumption
<1>2. h \in Seq(Byte) /\ Len(h) = 4
  BY Zenon, <1>1, HeaderIsFourBytes
<1>3. Frame(text) = h \o text
  BY Zenon DEF Frame
<1> HIDE DEF h
<1>4. /\ h \o text \in Seq(Byte) /\ Len(h \o text) = Len(h) + Len(text)
      /\ \A k \in 1 .. Len(h) + Len(text) :
           (h \o text)[k] = IF k <= Len(h) THEN h[k] ELSE text[k - Len(h)]
  BY Zenon, <1>2, ConcatProperties
<1>5. /\ \A k \in 1 .. 4 : Frame(text)[k] = h[k]
      /\ \A k \in 1 .. Len(text) : Frame(text)[4 + k] = text[k]
  BY Z3, <1>1, <1>2, <1>3, <1>4
<1>6. Frame(text) \in Seq(Byte) /\ Len(Frame(text)) = 4 + Len(text)
  BY Z3, <1>2, <1>3, <1>4
<1> QED
  BY Zenon, <1>5, <1>6 DEF h

\* Where these bytes are with others behind them.
LEMMA FrameLayout ==
  ASSUME NEW text \in Seq(Byte), Len(text) <= MaxFrame, NEW b \in Seq(Byte)
  PROVE  /\ Frame(text) \o b \in Seq(Byte)
         /\ Len(Frame(text) \o b) = 4 + Len(text) + Len(b)
         /\ \A k \in 1 .. 4 : (Frame(text) \o b)[k] = Header(Len(text))[k]
         /\ \A k \in 1 .. Len(text) : (Frame(text) \o b)[4 + k] = text[k]
         /\ \A k \in 1 .. Len(b) : (Frame(text) \o b)[4 + Len(text) + k] = b[k]
<1> DEFINE f == Frame(text)
<1>1. /\ f \in Seq(Byte) /\ Len(f) = 4 + Len(text)
      /\ \A k \in 1 .. 4 : f[k] = Header(Len(text))[k]
      /\ \A k \in 1 .. Len(text) : f[4 + k] = text[k]
  BY Zenon, FrameBytes
<1> HIDE DEF f
<1>2. Len(b) \in Nat /\ Len(text) \in Nat
  BY Zenon, LenProperties
<1>3. /\ f \o b \in Seq(Byte) /\ Len(f \o b) = Len(f) + Len(b)
      /\ \A k \in 1 .. Len(f) + Len(b) :
           (f \o b)[k] = IF k <= Len(f) THEN f[k] ELSE b[k - Len(f)]
  <2>1. f \in Seq(Byte) /\ b \in Seq(Byte)
    BY Zenon, <1>1
  <2> QED
    BY Zenon, <2>1, ConcatProperties
<1>4. /\ \A k \in 1 .. 4 : (f \o b)[k] = f[k]
      /\ \A k \in 1 .. Len(text) : (f \o b)[4 + k] = f[4 + k]
      /\ \A k \in 1 .. Len(b) : (f \o b)[4 + Len(text) + k] = b[k]
  BY Z3, <1>1, <1>2, <1>3
<1> QED
  BY Zenon, <1>1, <1>3, <1>4 DEF f

\* A frame at the front of a buffer is found whole, its text is the one that
\* was written, and what follows stays as it was: however much of it has
\* come, and whatever it is.
THEOREM FrameIsFound ==
  ASSUME NEW text \in Seq(Byte), Len(text) <= MaxFrame, NEW b \in Seq(Byte)
  PROVE  /\ Whole(Frame(text) \o b)
         /\ Body(Frame(text) \o b) = text
         /\ Behind(Frame(text) \o b) = b
<1> DEFINE x == Frame(text) \o b
<1>1. Len(text) \in 0 .. MaxFrame /\ Len(b) \in Nat
  BY Z3, LenProperties, MaxFrameAssumption
<1>2. /\ x \in Seq(Byte) /\ Len(x) = 4 + Len(text) + Len(b)
      /\ \A k \in 1 .. 4 : x[k] = Header(Len(text))[k]
      /\ \A k \in 1 .. Len(text) : x[4 + k] = text[k]
      /\ \A k \in 1 .. Len(b) : x[4 + Len(text) + k] = b[k]
  BY Zenon, FrameLayout
<1> HIDE DEF x
<1>3. LengthIn(x) = Len(text)
  <2>1. Len(x) >= 4
    BY Z3, <1>1, <1>2
  <2> QED
    BY Zenon, <1>1, <1>2, <2>1, HeaderTellsLength
<1>4. Whole(x)
  BY Z3, <1>1, <1>2, <1>3, MaxFrameAssumption DEF Whole, HasHeader, TooLong
<1>5. Body(x) = text
  <2>1. Body(x) = SubSeq(x, 5, 4 + Len(text))
    BY Zenon, <1>3 DEF Body
  <2> QED
    BY Z3, <1>1, <1>2, <2>1
<1>6. Behind(x) = b
  <2> DEFINE m == 5 + Len(text)
             s == SubSeq(x, m, Len(x))
  <2>1. Behind(x) = s
    BY Zenon, <1>3 DEF Behind
  <2>2. m \in Int /\ Len(x) \in Int /\ \A k \in m .. Len(x) : x[k] \in Byte
    BY Z3, <1>1, <1>2
  <2>3. /\ s \in Seq(Byte)
        /\ Len(s) = IF m <= Len(x) THEN Len(x) - m + 1 ELSE 0
        /\ \A k \in 1 .. Len(x) - m + 1 : s[k] = x[m + k - 1]
    <3> HIDE DEF m, x
    <3> QED
      BY <2>2, SubSeqProperties
  <2>4. Len(s) = Len(b)
    <3> HIDE DEF s
    <3> QED
      BY Z3, <1>1, <1>2, <2>3
  <2>5. ASSUME NEW k \in 1 .. Len(b)
        PROVE  s[k] = b[k]
    <3> HIDE DEF s
    <3>1. k \in 1 .. Len(x) - m + 1 /\ m + k - 1 = 4 + Len(text) + k
      BY Z3, <1>1, <1>2
    <3>2. s[k] = x[m + k - 1]
      BY Zenon, <2>3, <3>1
    <3> QED
      BY Zenon, <1>2, <3>1, <3>2
  <2> HIDE DEF s
  <2> QED
    BY Zenon, <2>1, <2>3, <2>4, <2>5, SeqEqual
<1> QED
  BY Zenon, <1>4, <1>5, <1>6 DEF x

\* A frame that has not come to its end is neither taken nor refused, so the
\* pieces in which a FIFO delivers it make no difference.
THEOREM PieceIsAwaited ==
  ASSUME NEW text \in Seq(Byte), Len(text) <= MaxFrame,
         NEW piece \in Seq(Byte), Len(piece) < Len(Frame(text)),
         \A k \in 1 .. Len(piece) : piece[k] = Frame(text)[k]
  PROVE  ~ Whole(piece) /\ ~ Bad(piece)
<1>1. Len(text) \in 0 .. MaxFrame /\ Len(piece) \in Nat
  BY Z3, LenProperties, MaxFrameAssumption
<1>2. Len(Frame(text)) = 4 + Len(text)
  BY Zenon, FrameBytes
<1>3. CASE ~ HasHeader(piece)
  BY Zenon, <1>3 DEF Whole, Bad
<1>4. CASE HasHeader(piece)
  <2>1. Len(piece) >= 4
    BY Zenon, <1>4 DEF HasHeader
  <2>2. \A k \in 1 .. 4 : piece[k] = Header(Len(text))[k]
    <3>1. \A k \in 1 .. 4 : Frame(text)[k] = Header(Len(text))[k]
      BY Zenon, FrameBytes
    <3> QED
      BY Z3, <1>1, <2>1, <3>1
  <2>3. LengthIn(piece) = Len(text)
    BY Zenon, <1>1, <2>1, <2>2, HeaderTellsLength
  <2>4. ~ TooLong(LengthIn(piece))
    BY Z3, <1>1, <2>3, MaxFrameAssumption DEF TooLong
  <2>5. ~ Whole(piece)
    BY Z3, <1>1, <1>2, <2>3 DEF Whole
  <2> QED
    BY Zenon, <2>4, <2>5 DEF Bad
<1> QED
  BY Zenon, <1>3, <1>4

-----------------------------------------------------------------------------
(* What extract_frames finds.                                             *)

\* There is a good frame in front.
Takes(b) == Whole(b) /\ ~ Bad(b)
\* The bytes of b from place k on.
Suffix(b, k) == SubSeq(b, k, Len(b))
\* What Extract returns ...
Found == [frames : Seq(Seq(Byte)), rest : Seq(Byte)]
\* ... when it takes the frame in front of b and then finds more ...
Before(b, more) == [frames |-> <<Body(b)>> \o more.frames, rest |-> more.rest]
\* ... and when there is none.
Nothing(b) == [frames |-> <<>>, rest |-> b]

\* Byte by byte.
LEMMA SuffixIs ==
  ASSUME NEW b \in Seq(Byte), NEW k \in 1 .. Len(b) + 1
  PROVE  /\ Suffix(b, k) \in Seq(Byte) /\ Len(Suffix(b, k)) = Len(b) - k + 1
         /\ \A j \in 1 .. Len(b) - k + 1 : Suffix(b, k)[j] = b[k - 1 + j]
<1> DEFINE s == Suffix(b, k)  n == Len(b)
<1>1. n \in Nat /\ k \in Int /\ \A j \in k .. n : b[j] \in Byte
  OBVIOUS
<1>2. /\ s \in Seq(Byte)
      /\ Len(s) = IF k <= n THEN n - k + 1 ELSE 0
      /\ \A i \in 1 .. n - k + 1 : s[i] = b[k + i - 1]
  BY <1>1, SubSeqProperties DEF Suffix
<1> HIDE DEF s
<1>3. Len(s) = n - k + 1
  BY <1>1, <1>2
<1>4. \A j \in 1 .. n - k + 1 : k + j - 1 = k - 1 + j
  BY <1>1
<1> QED
  BY <1>2, <1>3, <1>4 DEF s

\* All of them,
LEMMA WholeSuffix ==
  ASSUME NEW b \in Seq(Byte)
  PROVE  Suffix(b, 1) = b
<1> DEFINE s == Suffix(b, 1)
<1>1. Len(b) \in Nat /\ 1 \in 1 .. Len(b) + 1
  OBVIOUS
<1>2. /\ s \in Seq(Byte) /\ Len(s) = Len(b) - 1 + 1
      /\ \A j \in 1 .. Len(b) - 1 + 1 : s[j] = b[1 - 1 + j]
  BY <1>1, SuffixIs
<1> HIDE DEF s
<1>3. Len(s) = Len(b) /\ \A j \in 1 .. Len(s) : s[j] = b[j]
  BY <1>1, <1>2
<1>4. s = b
  BY <1>2, <1>3, SeqEqual
<1> QED
  BY <1>4 DEF s

\* and those of a suffix.
LEMMA SuffixOfSuffix ==
  ASSUME NEW b \in Seq(Byte), NEW m \in 1 .. Len(b) + 1, NEW k \in 1 .. Len(b) - m + 2
  PROVE  Suffix(Suffix(b, m), k) = Suffix(b, m - 1 + k)
<1> DEFINE s == Suffix(b, m)  t == Suffix(s, k)  u == Suffix(b, m - 1 + k)  n == Len(b)
<1>1. n \in Nat /\ m \in Nat /\ k \in Nat /\ m - 1 + k \in 1 .. n + 1
  OBVIOUS
<1>2. /\ s \in Seq(Byte) /\ Len(s) = n - m + 1
      /\ \A j \in 1 .. n - m + 1 : s[j] = b[m - 1 + j]
  BY SuffixIs
<1>3. u \in Seq(Byte) /\ Len(u) = n - (m - 1 + k) + 1
      /\ \A j \in 1 .. n - (m - 1 + k) + 1 : u[j] = b[(m - 1 + k) - 1 + j]
  BY <1>1, SuffixIs
<1> HIDE DEF s
<1>4. k \in 1 .. Len(s) + 1
  BY <1>1, <1>2
<1>5. t \in Seq(Byte) /\ Len(t) = Len(s) - k + 1
      /\ \A j \in 1 .. Len(s) - k + 1 : t[j] = s[k - 1 + j]
  BY <1>2, <1>4, SuffixIs
<1> HIDE DEF t, u
<1>6. Len(t) = Len(u) /\ Len(t) = n - m - k + 2
  BY <1>1, <1>2, <1>3, <1>5
<1>7. ASSUME NEW j \in 1 .. Len(t)
      PROVE  t[j] = u[j]
  <2>1. t[j] = s[k - 1 + j] /\ k - 1 + j \in 1 .. n - m + 1
    BY <1>1, <1>2, <1>5, <1>6
  <2>2. s[k - 1 + j] = b[m - 1 + (k - 1 + j)]
    BY <1>2, <2>1
  <2>3. u[j] = b[(m - 1 + k) - 1 + j]
    BY <1>1, <1>3, <1>6
  <2>4. m - 1 + (k - 1 + j) = (m - 1 + k) - 1 + j
    BY <1>1
  <2> QED
    BY <2>1, <2>2, <2>3, <2>4
<1>8. t = u
  BY <1>3, <1>5, <1>6, <1>7, SeqEqual
<1> QED
  BY <1>8 DEF s, t, u

\* The length that four bytes give is a number, whatever they are.
LEMMA LengthIsNat ==
  ASSUME NEW b \in Seq(Byte), HasHeader(b)
  PROVE  LengthIn(b) \in Nat
<1> DEFINE x == b[1]  y == b[2]  z == b[3]  w == b[4]
<1>1. Len(b) >= 4 /\ Len(b) \in Nat /\ \A k \in 1 .. Len(b) : b[k] \in Nat
  <2>1. Len(b) >= 4
    BY DEF HasHeader
  <2>2. Byte \subseteq Nat
    BY DEF Byte
  <2>3. Len(b) \in Nat /\ \A k \in 1 .. Len(b) : b[k] \in Byte
    OBVIOUS
  <2> QED
    BY Zenon, <2>1, <2>2, <2>3
<1>2. x \in Nat /\ y \in Nat /\ z \in Nat /\ w \in Nat
  BY <1>1
<1>3. LengthIn(b) = x + 256 * y + 65536 * z + 256 * 65536 * (IF w <= 2 THEN w ELSE 2)
  BY DEF LengthIn
<1> HIDE DEF x, y, z, w
<1> QED
  BY <1>2, <1>3

\* Where the text of a frame in front and the bytes behind it lie.
LEMMA BodyAndBehind ==
  ASSUME NEW b \in Seq(Byte), Whole(b)
  PROVE  /\ LengthIn(b) \in Nat /\ LengthIn(b) <= MaxFrame /\ 4 + LengthIn(b) <= Len(b)
         /\ Body(b) \in Seq(Byte) /\ Len(Body(b)) = LengthIn(b)
         /\ \A j \in 1 .. LengthIn(b) : Body(b)[j] = b[4 + j]
         /\ Behind(b) = Suffix(b, 5 + LengthIn(b)) /\ 5 + LengthIn(b) \in 1 .. Len(b) + 1
<1> DEFINE l == LengthIn(b)  n == Len(b)  d == Body(b)
<1>1. l \in Nat /\ n \in Nat /\ 4 + l <= n /\ ~ (l > MaxFrame) /\ MaxFrame \in Nat
  BY LengthIsNat, MaxFrameAssumption DEF Whole, TooLong
<1>2. Behind(b) = Suffix(b, 5 + l)
  BY DEF Behind, Suffix
<1>3. d = SubSeq(b, 5, 4 + l)
  BY DEF Body
<1> HIDE DEF l, d
<1>4. 5 \in Int /\ 4 + l \in Int /\ \A j \in 5 .. 4 + l : b[j] \in Byte
  BY <1>1
<1>5. /\ d \in Seq(Byte)
      /\ Len(d) = IF 5 <= 4 + l THEN (4 + l) - 5 + 1 ELSE 0
      /\ \A i \in 1 .. (4 + l) - 5 + 1 : d[i] = b[5 + i - 1]
  BY <1>3, <1>4, SubSeqProperties
<1>6. Len(d) = l /\ \A j \in 1 .. l : d[j] = b[4 + j]
  <2>1. (4 + l) - 5 + 1 = l /\ \A j \in 1 .. l : 5 + j - 1 = 4 + j
    BY <1>1
  <2> QED
    BY <1>1, <1>5, <2>1
<1>7. l <= MaxFrame /\ 5 + l \in 1 .. n + 1
  BY <1>1
<1> QED
  BY <1>1, <1>2, <1>5, <1>6, <1>7 DEF l, d

\* One stage of what Extract builds up from the end of the buffer.
Stage(g, buffer, k) ==
  LET b == SubSeq(buffer, k, Len(buffer))
  IN  IF Whole(b) /\ ~ Bad(b)
        THEN LET more == g[k + 4 + LengthIn(b)]
             IN  [more EXCEPT !.frames = <<Body(b)>> \o @]
        ELSE [frames |-> <<>>, rest |-> b]

\* The whole of it.
Staged(g, buffer) ==
  /\ g \in [1 .. Len(buffer) + 1 -> Found]
  /\ \A k \in 1 .. Len(buffer) + 1 : g[k] = Stage(g, buffer, k)

\* A stage looks only at later ones, and returns what Extract may return.
LEMMA StageIs ==
  ASSUME NEW buffer \in Seq(Byte), NEW k \in 1 .. Len(buffer) + 1, NEW g
  PROVE  LET b == Suffix(buffer, k)
             next == k + 4 + LengthIn(b)
         IN  /\ ~ Takes(b) => Stage(g, buffer, k) = Nothing(b) /\ Nothing(b) \in Found
             /\ Takes(b) => next \in k + 1 .. Len(buffer) + 1
             /\ Takes(b) /\ g[next] \in Found =>
                  Stage(g, buffer, k) = Before(b, g[next]) /\ Before(b, g[next]) \in Found
<1> DEFINE b == Suffix(buffer, k)  n == Len(buffer)
           next == k + 4 + LengthIn(b)
<1>1. b \in Seq(Byte) /\ Len(b) = n - k + 1 /\ n \in Nat /\ k \in Nat
  <2>1. n \in Nat /\ k \in Nat
    OBVIOUS
  <2>2. b \in Seq(Byte) /\ Len(b) = n - k + 1
    BY Zenon, SuffixIs
  <2> QED
    BY <2>1, <2>2
<1>2. b = SubSeq(buffer, k, Len(buffer))
  BY DEF Suffix
<1> HIDE DEF b
<1>3. ASSUME ~ Takes(b)
      PROVE  Stage(g, buffer, k) = Nothing(b) /\ Nothing(b) \in Found
  <2>1. Stage(g, buffer, k) = Nothing(b)
    BY <1>2, <1>3 DEF Stage, Takes, Nothing
  <2>2. Nothing(b) \in Found
    BY <1>1 DEF Nothing, Found
  <2> QED
    BY <2>1, <2>2
<1>4. ASSUME Takes(b)
      PROVE  next \in k + 1 .. n + 1
  <2>1. LengthIn(b) \in Nat /\ 4 + LengthIn(b) <= Len(b)
    BY <1>1, <1>4, BodyAndBehind DEF Takes
  <2> QED
    BY <1>1, <2>1
<1>5. ASSUME Takes(b), g[next] \in Found
      PROVE  Stage(g, buffer, k) = Before(b, g[next]) /\ Before(b, g[next]) \in Found
  <2>1. Stage(g, buffer, k) = [g[next] EXCEPT !.frames = <<Body(b)>> \o @]
    BY <1>2, <1>5 DEF Stage, Takes
  <2>2. [g[next] EXCEPT !.frames = <<Body(b)>> \o @] = Before(b, g[next])
    <3> DEFINE S == Seq(Byte)
               r == g[next]
               v == <<Body(b)>> \o r.frames
    <3>1. r \in [frames : Seq(S), rest : S]
      BY <1>5 DEF Found
    <3> HIDE DEF S, r, v
    <3>2. [r EXCEPT !.frames = v] = [frames |-> v, rest |-> r.rest]
      BY <3>1
    <3> QED
      BY <3>2 DEF r, v, Before
  <2>3. Body(b) \in Seq(Byte)
    BY <1>1, <1>5, BodyAndBehind DEF Takes
  <2>4. Before(b, g[next]) \in Found
    <3> DEFINE S == Seq(Byte)
    <3>1. <<Body(b)>> \in Seq(S) /\ g[next].frames \in Seq(S) /\ g[next].rest \in S
      BY <1>5, <2>3 DEF Found
    <3> HIDE DEF S
    <3>2. <<Body(b)>> \o g[next].frames \in Seq(S)
      BY <3>1, ConcatProperties
    <3> QED
      BY <3>1, <3>2 DEF Before, Found, S
  <2> QED
    BY <2>1, <2>2, <2>4
<1> QED
  BY <1>3, <1>4, <1>5 DEF b

\* There is such a build-up for every buffer ...
LEMMA StagedExists ==
  ASSUME NEW buffer \in Seq(Byte)
  PROVE  \E g : Staged(g, buffer)
<1> DEFINE n == Len(buffer)
           Does(g, m) == /\ g \in [n + 1 - m .. n + 1 -> Found]
                         /\ \A k \in n + 1 - m .. n + 1 : g[k] = Stage(g, buffer, k)
           T == {m \in Nat : m <= n => \E g : Does(g, m)}
<1>1. n \in Nat
  OBVIOUS
<1>2. ASSUME NEW g, NEW h, NEW k \in 1 .. n + 1,
             \A j \in k + 1 .. n + 1 : g[j] = h[j] /\ g[j] \in Found
      PROVE  Stage(h, buffer, k) = Stage(g, buffer, k) /\ Stage(g, buffer, k) \in Found
  <2> DEFINE b == Suffix(buffer, k)
             next == k + 4 + LengthIn(b)
  <2>1. CASE ~ Takes(b)
    BY <2>1, StageIs
  <2>2. CASE Takes(b)
    <3>1. next \in k + 1 .. n + 1
      BY <2>2, StageIs
    <3>2. g[next] = h[next] /\ g[next] \in Found
      BY <1>2, <3>1
    <3>3. /\ Stage(g, buffer, k) = Before(b, g[next]) /\ Before(b, g[next]) \in Found
          /\ Stage(h, buffer, k) = Before(b, h[next])
      BY <2>2, <3>2, StageIs
    <3> QED
      BY <3>2, <3>3
  <2> QED
    BY <2>1, <2>2
<1>3. 0 \in T
  <2> DEFINE h == [k \in n + 1 .. n + 1 |-> <<>>]
             x == Stage(h, buffer, n + 1)
             g == [k \in n + 1 .. n + 1 |-> x]
  <2>1. \A j \in (n + 1) + 1 .. n + 1 : h[j] = g[j] /\ h[j] \in Found
    BY <1>1
  <2>2. n + 1 \in 1 .. n + 1
    BY <1>1
  <2> HIDE DEF h, g
  <2>3. x \in Found /\ Stage(g, buffer, n + 1) = x
    BY <1>2, <2>1, <2>2
  <2> HIDE DEF x
  <2>4. n + 1 - 0 = n + 1 /\ \A k \in n + 1 .. n + 1 : k = n + 1
    BY <1>1
  <2>5. g \in [n + 1 .. n + 1 -> Found] /\ g[n + 1] = x
    BY <1>1, <2>3 DEF g
  <2>6. Does(g, 0)
    BY <2>3, <2>4, <2>5
  <2> QED
    BY <2>6
<1>4. ASSUME NEW m \in Nat, m \in T
      PROVE  m + 1 \in T
  <2> SUFFICES ASSUME m + 1 <= n
               PROVE  \E g : Does(g, m + 1)
    OBVIOUS
  <2>1. PICK f : Does(f, m)
    BY <1>1, <1>4
  <2> DEFINE i == n - m
             x == Stage(f, buffer, i)
             g == [k \in i .. n + 1 |-> IF k = i THEN x ELSE f[k]]
  <2>2. i \in 1 .. n /\ i + 1 = n + 1 - m /\ i = n + 1 - (m + 1)
    BY <1>1
  <2> HIDE DEF i
  <2>3. \A j \in i + 1 .. n + 1 : f[j] \in Found /\ f[j] = Stage(f, buffer, j)
    BY <2>1, <2>2
  <2>4. x \in Found
    BY <1>1, <1>2, <2>2, <2>3
  <2> HIDE DEF x
  <2>5. g \in [i .. n + 1 -> Found] /\ g[i] = x /\ \A j \in i + 1 .. n + 1 : g[j] = f[j]
    BY <1>1, <2>2, <2>3, <2>4
  <2> HIDE DEF g
  <2>6. ASSUME NEW k \in i .. n + 1
        PROVE  g[k] = Stage(g, buffer, k)
    <3>1. k \in 1 .. n + 1 /\ \A j \in k + 1 .. n + 1 : j \in i + 1 .. n + 1
      BY <1>1, <2>2
    <3>2. \A j \in k + 1 .. n + 1 : f[j] = g[j] /\ f[j] \in Found
      BY <2>3, <2>5, <3>1
    <3>3. Stage(g, buffer, k) = Stage(f, buffer, k)
      BY <1>2, <3>1, <3>2
    <3>4. CASE k = i
      BY <2>5, <3>3, <3>4 DEF x
    <3>5. CASE k # i
      <4>1. k \in i + 1 .. n + 1
        BY <1>1, <2>2, <3>5
      <4> QED
        BY <2>3, <2>5, <3>3, <4>1
    <3> QED
      BY <3>4, <3>5
  <2>7. Does(g, m + 1)
    BY <2>2, <2>5, <2>6
  <2> QED
    BY <2>7
<1> HIDE DEF T
<1>5. \A m \in Nat : m \in T
  BY Zenon, <1>3, <1>4, SetInduction
<1>6. PICK g : Does(g, n)
  BY <1>1, <1>5 DEF T
<1>7. n + 1 - n = 1
  BY <1>1
<1> QED
  BY <1>6, <1>7 DEF Staged

\* ... and one only, ...
LEMMA StagedUnique ==
  ASSUME NEW buffer \in Seq(Byte), NEW g, Staged(g, buffer), NEW f,
         \A k \in 1 .. Len(buffer) + 1 : f[k] = Stage(f, buffer, k)
  PROVE  \A k \in 1 .. Len(buffer) + 1 : f[k] = g[k]
<1> DEFINE n == Len(buffer)
           T == {m \in Nat : m <= n => f[n + 1 - m] = g[n + 1 - m]}
<1>1. n \in Nat /\ \A k \in 1 .. n + 1 : g[k] \in Found /\ g[k] = Stage(g, buffer, k)
  BY DEF Staged
<1>2. ASSUME NEW m \in Nat, \A j \in 0 .. m - 1 : j \in T
      PROVE  m \in T
  <2> SUFFICES ASSUME m <= n
               PROVE  f[n + 1 - m] = g[n + 1 - m]
    OBVIOUS
  <2> DEFINE k == n + 1 - m
             b == Suffix(buffer, k)
             next == k + 4 + LengthIn(b)
  <2>1. k \in 1 .. n + 1
    BY <1>1
  <2>2. \A i \in k + 1 .. n + 1 : f[i] = g[i]
    <3> SUFFICES ASSUME NEW i \in k + 1 .. n + 1
                 PROVE  f[i] = g[i]
      OBVIOUS
    <3>1. n + 1 - i \in 0 .. m - 1 /\ n + 1 - (n + 1 - i) = i /\ n + 1 - i <= n
      BY <1>1
    <3> QED
      BY <1>2, <3>1
  <2> HIDE DEF k
  <2>3. Stage(f, buffer, k) = Stage(g, buffer, k)
    <3>1. CASE ~ Takes(b)
      BY <2>1, <3>1, StageIs
    <3>2. CASE Takes(b)
      <4>1. next \in k + 1 .. n + 1
        BY <2>1, <3>2, StageIs
      <4>2. next \in 1 .. n + 1
        BY <1>1, <2>1, <4>1
      <4>3. g[next] = f[next] /\ g[next] \in Found
        BY <1>1, <2>2, <4>1, <4>2
      <4> HIDE DEF next
      <4>4. /\ Stage(g, buffer, k) = Before(b, g[next])
            /\ Stage(f, buffer, k) = Before(b, f[next])
        BY <2>1, <3>2, <4>3, StageIs DEF next
      <4> QED
        BY <4>3, <4>4
    <3> QED
      BY <3>1, <3>2
  <2>4. f[k] = g[k]
    BY <1>1, <2>1, <2>3
  <2> QED
    BY <2>4 DEF k
<1> HIDE DEF T
<1>3. \A m \in Nat : m \in T
  BY <1>2, StrongInduction
<1>4. ASSUME NEW k \in 1 .. n + 1
      PROVE  f[k] = g[k]
  <2>1. n + 1 - k \in Nat /\ n + 1 - k <= n /\ n + 1 - (n + 1 - k) = k
    BY <1>1
  <2> QED
    BY <1>3, <2>1 DEF T
<1> QED
  BY <1>4

\* ... whose first stage is Extract.
LEMMA ExtractIs ==
  ASSUME NEW buffer \in Seq(Byte), NEW g, Staged(g, buffer)
  PROVE  Extract(buffer) = g[1]
<1> DEFINE D == 1 .. Len(buffer) + 1
           Body1(x) == [k \in D |-> Stage(x, buffer, k)]
           f == CHOOSE x : x = Body1(x)
<1>1. Len(buffer) \in Nat /\ 1 \in D
  OBVIOUS
<1>2. Extract(buffer) = f[1]
  BY Zenon DEF Extract, Stage, f, D
<1> HIDE DEF f
<1>3. g = Body1(g)
  <2>1. g \in [D -> Found] /\ \A k \in D : g[k] = Stage(g, buffer, k)
    BY DEF Staged
  <2>2. g = [k \in D |-> g[k]]
    BY <2>1
  <2> HIDE DEF D
  <2> QED
    BY Zenon, <2>1, <2>2
<1>4. f = Body1(f)
  BY Zenon, <1>3 DEF f
<1>5. \A k \in D : f[k] = Stage(f, buffer, k)
  <2> HIDE DEF D
  <2> QED
    BY Zenon, <1>4
<1>6. f[1] = g[1]
  BY <1>1, <1>5, StagedUnique
<1> QED
  BY <1>2, <1>6

\* Extract returns frames and a rest.
LEMMA ExtractType ==
  ASSUME NEW b \in Seq(Byte)
  PROVE  Extract(b) \in Found
<1>1. PICK g : Staged(g, b)
  BY StagedExists
<1>2. Extract(b) = g[1] /\ 1 \in 1 .. Len(b) + 1
  BY <1>1, ExtractIs
<1> QED
  BY <1>1, <1>2 DEF Staged

\* extract_frames takes the frame in front and goes on with the bytes behind
\* it, until there is no good frame in front.
LEMMA ExtractUnfolds ==
  ASSUME NEW b \in Seq(Byte)
  PROVE  /\ Takes(b) => Behind(b) \in Seq(Byte) /\ Len(Behind(b)) < Len(b)
                        /\ Extract(b) = Before(b, Extract(Behind(b)))
         /\ ~ Takes(b) => Extract(b) = Nothing(b)
<1>1. PICK g : Staged(g, b)
  BY StagedExists
<1> DEFINE n == Len(b)
<1>2. n \in Nat /\ 1 \in 1 .. n + 1 /\ Suffix(b, 1) = b
  BY WholeSuffix
<1>3. Extract(b) = g[1] /\ g[1] = Stage(g, b, 1)
  BY <1>1, <1>2, ExtractIs DEF Staged
<1>4. CASE ~ Takes(b)
  <2>1. Stage(g, b, 1) = Nothing(b)
    BY <1>2, <1>4, StageIs
  <2> QED
    BY <1>3, <1>4, <2>1
<1>5. CASE Takes(b)
  <2> DEFINE m == 5 + LengthIn(b)
             c == Behind(b)
             h == [k \in 1 .. Len(c) + 1 |-> g[m - 1 + k]]
  <2>1. LengthIn(b) \in Nat /\ c = Suffix(b, m) /\ m \in 1 .. n + 1
    BY <1>5, BodyAndBehind DEF Takes
  <2>2. c \in Seq(Byte) /\ Len(c) = n - m + 1
    BY <2>1, SuffixIs
  <2>3. m \in Nat /\ m >= 5 /\ 1 + 4 + LengthIn(b) = m
    BY <2>1
  <2> HIDE DEF m, c
  <2>4. Len(c) \in Nat /\ Len(c) < n /\ 1 \in 1 .. Len(c) + 1
    BY <1>2, <2>1, <2>2, <2>3
  <2>5. \A k \in 1 .. Len(c) + 1 :
          m - 1 + k \in 1 .. n + 1 /\ h[k] = g[m - 1 + k] /\ h[k] \in Found
    <3>1. \A k \in 1 .. Len(c) + 1 : m - 1 + k \in 1 .. n + 1
      BY <1>2, <2>1, <2>2, <2>3, <2>4
    <3> QED
      BY <1>1, <3>1 DEF Staged
  <2> HIDE DEF h
  <2>6. ASSUME NEW k \in 1 .. Len(c) + 1
        PROVE  h[k] = Stage(h, c, k)
    <3> DEFINE s == Suffix(c, k)  i == m - 1 + k
    <3>1. k \in 1 .. n - m + 2 /\ i \in 1 .. n + 1 /\ i \in Nat /\ k \in Nat
      BY <1>2, <2>1, <2>2, <2>3, <2>5
    <3>2. s = Suffix(b, i)
      BY <2>1, <3>1, SuffixOfSuffix
    <3>3. h[k] = Stage(g, b, i)
      BY <1>1, <2>5, <3>1 DEF Staged
    <3>4. CASE ~ Takes(s)
      <4>1. Stage(g, b, i) = Nothing(s)
        BY <3>1, <3>2, <3>4, StageIs
      <4>2. Stage(h, c, k) = Nothing(s)
        BY <2>2, <3>4, StageIs
      <4> QED
        BY <3>3, <4>1, <4>2
    <3>5. CASE Takes(s)
      <4> DEFINE j == k + 4 + LengthIn(s)  p == i + 4 + LengthIn(s)
      <4>1. j \in k + 1 .. Len(c) + 1
        BY <2>2, <3>5, StageIs
      <4>0. LengthIn(s) \in Nat
        <5>1. s \in Seq(Byte)
          BY <2>2, SuffixIs
        <5> QED
          BY <3>5, <5>1, BodyAndBehind DEF Takes
      <4>2. j \in 1 .. Len(c) + 1 /\ p = m - 1 + j
        BY <2>3, <2>4, <3>1, <4>0, <4>1
      <4>3. h[j] = g[p] /\ h[j] \in Found
        BY <2>5, <4>2
      <4> HIDE DEF j, p
      <4>4. Stage(h, c, k) = Before(s, h[j])
        BY <2>2, <3>5, <4>3, StageIs DEF j
      <4>5. Stage(g, b, i) = Before(s, g[p])
        <5> HIDE DEF i, s
        <5>1. g[p] \in Found
          BY <4>3
        <5> QED
          BY <3>1, <3>2, <3>5, <5>1, StageIs DEF p
      <4> QED
        BY <3>3, <4>3, <4>4, <4>5
    <3> QED
      BY <3>4, <3>5
  <2>7. Staged(h, c)
    <3>1. h \in [1 .. Len(c) + 1 -> Found]
      BY <2>5 DEF h
    <3> QED
      BY <2>6, <3>1 DEF Staged
  <2>8. Extract(c) = h[1] /\ h[1] = g[m]
    <3>1. m - 1 + 1 = m
      BY <2>3
    <3> QED
      BY <2>2, <2>4, <2>5, <2>7, <3>1, ExtractIs
  <2>9. Stage(g, b, 1) = Before(b, g[m])
    <3>1. g[m] \in Found
      BY <1>1, <2>1 DEF Staged
    <3> QED
      BY <1>2, <1>5, <2>3, <3>1, StageIs
  <2> QED
    BY <1>3, <1>5, <2>2, <2>4, <2>8, <2>9 DEF c
<1> QED
  BY <1>4, <1>5

-----------------------------------------------------------------------------
(* More bytes arrive.                                                     *)

\* Bytes behind others.
LEMMA MoreBytes ==
  ASSUME NEW b \in Seq(Byte), NEW c \in Seq(Byte)
  PROVE  /\ b \o c \in Seq(Byte) /\ Len(b \o c) = Len(b) + Len(c)
         /\ \A k \in 1 .. Len(b) : (b \o c)[k] = b[k]
         /\ \A k \in 1 .. Len(c) : (b \o c)[Len(b) + k] = c[k]
<1> DEFINE x == b \o c  n == Len(b)  m == Len(c)
<1>1. n \in Nat /\ m \in Nat
  OBVIOUS
<1>2. /\ x \in Seq(Byte) /\ Len(x) = n + m
      /\ \A i \in 1 .. n + m : x[i] = IF i <= n THEN b[i] ELSE c[i - n]
  BY Zenon, ConcatProperties
<1> HIDE DEF x, n, m
<1>3. \A k \in 1 .. n : x[k] = b[k]
  BY <1>1, <1>2
<1>4. \A k \in 1 .. m : x[n + k] = c[k]
  BY <1>1, <1>2
<1> QED
  BY <1>2, <1>3, <1>4 DEF x, n, m

\* Whatever comes behind, a frame in front stays the frame in front, and a bad
\* front stays bad.
LEMMA FrontStays ==
  ASSUME NEW b \in Seq(Byte), NEW c \in Seq(Byte)
  PROVE  /\ HasHeader(b) => HasHeader(b \o c) /\ LengthIn(b \o c) = LengthIn(b)
         /\ Whole(b) => /\ Whole(b \o c) /\ Body(b \o c) = Body(b)
                        /\ Behind(b \o c) = Behind(b) \o c
         /\ Bad(b) => Bad(b \o c)
         /\ Takes(b) => Takes(b \o c)
<1> DEFINE x == b \o c  n == Len(b)  m == Len(c)
<1>1. n \in Nat /\ m \in Nat /\ x \in Seq(Byte) /\ Len(x) = n + m
      /\ (\A k \in 1 .. n : x[k] = b[k]) /\ (\A k \in 1 .. m : x[n + k] = c[k])
  BY MoreBytes
<1> HIDE DEF x
<1>2. ASSUME HasHeader(b)
      PROVE  HasHeader(x) /\ LengthIn(x) = LengthIn(b)
  <2>1. n >= 4
    BY <1>2 DEF HasHeader
  <2>2. x[1] = b[1] /\ x[2] = b[2] /\ x[3] = b[3] /\ x[4] = b[4]
    BY <1>1, <2>1
  <2> QED
    BY <1>1, <2>1, <2>2 DEF HasHeader, LengthIn
<1>3. ASSUME Whole(b)
      PROVE  Whole(x) /\ Body(x) = Body(b) /\ Behind(x) = Behind(b) \o c
  <2> DEFINE l == LengthIn(b)
  <2>1. HasHeader(b) /\ ~ TooLong(l)
    BY <1>3 DEF Whole
  <2>2. l \in Nat /\ 4 + l <= n /\ LengthIn(x) = l /\ HasHeader(x)
    BY <1>2, <1>3, <2>1, BodyAndBehind
  <2>3. Whole(x)
    BY <1>1, <2>1, <2>2 DEF Whole
  <2>4. /\ Body(b) \in Seq(Byte) /\ Len(Body(b)) = l /\ \A j \in 1 .. l : Body(b)[j] = b[4 + j]
        /\ Behind(b) = Suffix(b, 5 + l) /\ 5 + l \in 1 .. n + 1
    BY <1>3, BodyAndBehind
  <2>5. /\ Body(x) \in Seq(Byte) /\ Len(Body(x)) = l /\ \A j \in 1 .. l : Body(x)[j] = x[4 + j]
        /\ Behind(x) = Suffix(x, 5 + l) /\ 5 + l \in 1 .. Len(x) + 1
    BY <1>1, <2>2, <2>3, BodyAndBehind
  <2> HIDE DEF l
  <2>6. Body(x) = Body(b)
    <3>1. \A j \in 1 .. l : 4 + j \in 1 .. n
      BY <1>1, <2>2
    <3>2. \A j \in 1 .. l : Body(x)[j] = Body(b)[j]
      BY Zenon, <1>1, <2>4, <2>5, <3>1
    <3> QED
      BY <2>4, <2>5, <3>2, SeqEqual
  <2>7. Behind(x) = Behind(b) \o c
    <3> DEFINE i == 5 + l
    <3>0. /\ i \in 1 .. n + 1 /\ i \in 1 .. Len(x) + 1
          /\ Behind(b) = Suffix(b, i) /\ Behind(x) = Suffix(x, i)
          /\ i = 5 + l
      BY <2>4, <2>5
    <3> HIDE DEF i
    <3> DEFINE s == Suffix(b, i)  t == Suffix(x, i)  u == s \o c
    <3>1. s \in Seq(Byte) /\ Len(s) = n - i + 1
          /\ \A j \in 1 .. n - i + 1 : s[j] = b[i - 1 + j]
      BY <3>0, SuffixIs
    <3>2. t \in Seq(Byte) /\ Len(t) = Len(x) - i + 1
          /\ \A j \in 1 .. Len(x) - i + 1 : t[j] = x[i - 1 + j]
      BY <1>1, <3>0, SuffixIs
    <3> HIDE DEF s, t
    <3>3. /\ u \in Seq(Byte) /\ Len(u) = Len(s) + m
          /\ \A k \in 1 .. Len(s) : u[k] = s[k]
          /\ \A k \in 1 .. m : u[Len(s) + k] = c[k]
      BY <3>1, MoreBytes
    <3> HIDE DEF u
    <3>4. Len(t) = Len(u) /\ Len(s) \in Nat
      BY <1>1, <2>2, <3>0, <3>1, <3>2, <3>3
    <3>5. ASSUME NEW j \in 1 .. Len(t)
          PROVE  t[j] = u[j]
      <4>1. t[j] = x[i - 1 + j]
        BY <3>2
      <4>2. CASE j <= Len(s)
        <5>1. j \in 1 .. Len(s) /\ j \in 1 .. n - i + 1 /\ i - 1 + j \in 1 .. n
          BY <1>1, <2>2, <3>0, <3>1, <3>4, <4>2
        <5> QED
          BY <1>1, <3>1, <3>3, <4>1, <5>1
      <4>3. CASE j > Len(s)
        <5> DEFINE k == j - Len(s)
        <5>1. k \in 1 .. m /\ j = Len(s) + k /\ i - 1 + j = n + k
          BY <1>1, <2>2, <3>0, <3>1, <3>3, <3>4, <4>3
        <5> HIDE DEF k
        <5>2. u[j] = c[k] /\ x[n + k] = c[k]
          BY <1>1, <3>3, <5>1
        <5> QED
          BY <4>1, <5>1, <5>2
      <4> QED
        BY <3>4, <4>2, <4>3
    <3>6. t = u
      BY <3>2, <3>3, <3>4, <3>5, SeqEqual
    <3> QED
      BY <3>0, <3>6 DEF s, t, u
  <2> QED
    BY <2>3, <2>6, <2>7
<1>4. Bad(b) => Bad(x)
  BY <1>2, <1>3 DEF Bad
<1>5. Takes(b) => Takes(x)
  <2> SUFFICES ASSUME Takes(b)
               PROVE  ~ Bad(x)
    BY <1>3 DEF Takes
  <2>1. Whole(b) /\ ~ TooLong(LengthIn(b)) /\ HasHeader(b) /\ IsText(Body(b))
    BY DEF Takes, Bad, Whole
  <2> QED
    BY <1>2, <1>3, <2>1 DEF Bad
<1> QED
  BY <1>2, <1>3, <1>4, <1>5 DEF x

\* What Extract leaves begins with no good frame.
LEMMA RestStops ==
  ASSUME NEW b \in Seq(Byte)
  PROVE  ~ Takes(Extract(b).rest)
<1> DEFINE Stops(d) == ~ Takes(Extract(d).rest)
           T == {n \in Nat : \A d \in Seq(Byte) : Len(d) = n => Stops(d)}
<1>1. ASSUME NEW n \in Nat, \A m \in 0 .. n - 1 : m \in T
      PROVE  n \in T
  <2> SUFFICES ASSUME NEW d \in Seq(Byte), Len(d) = n
               PROVE  Stops(d)
    OBVIOUS
  <2>1. CASE Takes(d)
    <3> DEFINE e == Behind(d)
    <3>1. e \in Seq(Byte) /\ Len(e) < Len(d) /\ Extract(d) = Before(d, Extract(e))
      BY <2>1, ExtractUnfolds
    <3> HIDE DEF e
    <3>2. Len(e) \in 0 .. n - 1
      BY <3>1
    <3>3. Stops(e)
      BY <1>1, <3>1, <3>2
    <3>4. Extract(d).rest = Extract(e).rest
      BY <3>1 DEF Before
    <3> QED
      BY <3>3, <3>4
  <2>2. CASE ~ Takes(d)
    <3>1. Extract(d).rest = d
      BY <2>2, ExtractUnfolds DEF Nothing
    <3> QED
      BY <2>2, <3>1
  <2> QED
    BY <2>1, <2>2
<1> HIDE DEF T
<1>2. \A n \in Nat : n \in T
  BY <1>1, StrongInduction
<1>3. Len(b) \in Nat
  OBVIOUS
<1> QED
  BY <1>2, <1>3 DEF T

\* What is found in two goes.
Then(a, z) == [frames |-> a.frames \o z.frames, rest |-> z.rest]

\* Frames are found the same whether the bytes come at once or cut into pieces
\* anywhere: extract_frames may run on what has come, and again on what it left
\* and what came behind it (drain_frames in every iteration).
THEOREM ExtractMore ==
  ASSUME NEW b \in Seq(Byte), NEW c \in Seq(Byte)
  PROVE  Extract(b \o c) = Then(Extract(b), Extract(Extract(b).rest \o c))
<1> DEFINE Splits(d) == Extract(d \o c) = Then(Extract(d), Extract(Extract(d).rest \o c))
           T == {n \in Nat : \A d \in Seq(Byte) : Len(d) = n => Splits(d)}
<1>1. ASSUME NEW n \in Nat, \A m \in 0 .. n - 1 : m \in T
      PROVE  n \in T
  <2> SUFFICES ASSUME NEW d \in Seq(Byte), Len(d) = n
               PROVE  Splits(d)
    OBVIOUS
  <2>0. d \o c \in Seq(Byte)
    BY MoreBytes
  <2>1. CASE Takes(d)
    <3> DEFINE e == Behind(d)
               x == Extract(e)
               z == Extract(x.rest \o c)
    <3>1. e \in Seq(Byte) /\ Len(e) < Len(d) /\ Extract(d) = Before(d, x)
      BY <2>1, ExtractUnfolds
    <3>2. Takes(d \o c) /\ Body(d \o c) = Body(d) /\ Behind(d \o c) = e \o c
      BY <2>1, FrontStays DEF Takes
    <3>3. Extract(d \o c) = Before(d \o c, Extract(e \o c))
      BY <2>0, <3>2, ExtractUnfolds
    <3>8. Body(d) \in Seq(Byte)
      BY <2>1, BodyAndBehind DEF Takes
    <3> HIDE DEF e
    <3>4. Len(e) \in 0 .. n - 1
      BY <3>1
    <3>5. Extract(e \o c) = Then(x, z)
      BY <1>1, <3>1, <3>4
    <3>6. Extract(d).rest = x.rest
      BY <3>1 DEF Before
    <3>7. x \in Found /\ z \in Found
      <4>1. x \in Found
        BY <3>1, ExtractType
      <4>2. x.rest \o c \in Seq(Byte)
        BY <4>1, MoreBytes DEF Found
      <4> QED
        BY <4>1, <4>2, ExtractType
    <3> HIDE DEF x, z
    <3> DEFINE S == Seq(Byte)
               f == x.frames  g == z.frames  a == <<Body(d)>>
    <3>9. f \in Seq(S) /\ g \in Seq(S) /\ a \in Seq(S)
      BY <3>7, <3>8 DEF Found
    <3>10. Extract(d \o c) = [frames |-> a \o (f \o g), rest |-> z.rest]
      BY <3>2, <3>3, <3>5 DEF Before, Then
    <3>11. Then(Extract(d), z) = [frames |-> (a \o f) \o g, rest |-> z.rest]
      BY <3>1 DEF Before, Then
    <3> HIDE DEF f, g, a, S
    <3>12. (a \o f) \o g = a \o (f \o g)
      BY <3>9, ConcatAssociative
    <3> QED
      BY <3>6, <3>10, <3>11, <3>12 DEF z
  <2>2. CASE ~ Takes(d)
    <3>1. Extract(d) = Nothing(d)
      BY <2>2, ExtractUnfolds
    <3> DEFINE z == Extract(d \o c)  S == Seq(Byte)
    <3>2. z \in Found
      BY <2>0, ExtractType
    <3>3. z = [frames |-> z.frames, rest |-> z.rest] /\ z.frames \in Seq(S)
      BY <3>2 DEF Found
    <3> HIDE DEF z, S
    <3>4. <<>> \o z.frames = z.frames
      BY <3>3, ConcatEmptySeq
    <3>5. Extract(d).rest \o c = d \o c
      BY <3>1 DEF Nothing
    <3>6. Then(Nothing(d), z) = [frames |-> <<>> \o z.frames, rest |-> z.rest]
      BY DEF Then, Nothing
    <3> QED
      BY <3>1, <3>3, <3>4, <3>5, <3>6 DEF z
  <2> QED
    BY <2>1, <2>2
<1> HIDE DEF T
<1>2. \A n \in Nat : n \in T
  BY <1>1, StrongInduction
<1>3. Len(b) \in Nat
  OBVIOUS
<1> QED
  BY <1>2, <1>3 DEF T

-----------------------------------------------------------------------------
(* One frame, written in pieces.                                          *)

\* No bytes, no frame.
LEMMA EmptyBytes ==
  /\ <<>> \in Seq(Byte) /\ ~ Whole(<<>>) /\ ~ Bad(<<>>) /\ Extract(<<>>) = Nothing(<<>>)
<1>1. <<>> \in Seq(Byte) /\ Len(<<>>) = 0
  OBVIOUS
<1>2. ~ HasHeader(<<>>)
  BY <1>1 DEF HasHeader
<1>3. ~ Whole(<<>>) /\ ~ Bad(<<>>)
  BY <1>2 DEF Whole, Bad
<1>4. Extract(<<>>) = Nothing(<<>>)
  BY <1>1, <1>3, ExtractUnfolds DEF Takes
<1> QED
  BY <1>1, <1>3, <1>4

\* A frame alone is taken, and nothing is left.
LEMMA FrameExtracted ==
  ASSUME NEW text \in Seq(Byte), Len(text) <= MaxFrame, IsText(text)
  PROVE  Extract(Frame(text)) = [frames |-> <<text>>, rest |-> <<>>]
<1> DEFINE b == Frame(text)  none == <<>>  S == Seq(Byte)
<1>1. b \in S /\ none \in S
  BY FrameBytes
<1>2. b \o none = b
  BY <1>1, ConcatEmptySeq
<1>3. Whole(b \o none) /\ Body(b \o none) = text /\ Behind(b \o none) = none
  BY <1>1, FrameIsFound
<1> HIDE DEF b
<1>4. Takes(b)
  BY <1>2, <1>3 DEF Takes, Bad, Whole
<1>5. Extract(b) = Before(b, Extract(none))
  BY <1>1, <1>2, <1>3, <1>4, ExtractUnfolds
<1>6. <<text>> \o <<>> = <<text>>
  OBVIOUS
<1> QED
  BY <1>2, <1>3, <1>5, <1>6, EmptyBytes DEF Before, Nothing, b

\* The beginning of a frame stays in the buffer, and there is room for it.
LEMMA PieceKept ==
  ASSUME NEW text \in Seq(Byte), Len(text) <= MaxFrame,
         NEW a \in Seq(Byte), NEW c \in Seq(Byte), c # <<>>, a \o c = Frame(text)
  PROVE  Extract(a) = Nothing(a) /\ ~ Whole(a) /\ ~ Bad(a) /\ Len(a) < 4 + MaxFrame
<1>1. /\ Len(a \o c) = Len(a) + Len(c) /\ \A k \in 1 .. Len(a) : (a \o c)[k] = a[k]
      /\ Len(Frame(text)) = 4 + Len(text)
  BY MoreBytes, FrameBytes
<1>2. Len(c) \in Nat /\ Len(c) # 0 /\ Len(a) \in Nat /\ Len(text) \in Nat
  OBVIOUS
<1>3. Len(a) < Len(Frame(text)) /\ \A k \in 1 .. Len(a) : a[k] = Frame(text)[k]
  BY <1>1, <1>2
<1>4. ~ Whole(a) /\ ~ Bad(a)
  BY <1>3, PieceIsAwaited
<1>5. Extract(a) = Nothing(a)
  BY <1>4, ExtractUnfolds DEF Takes
<1>6. Len(a) < 4 + MaxFrame
  BY <1>1, <1>2, MaxFrameAssumption
<1> QED
  BY <1>4, <1>5, <1>6

\* A piece and what remains are together what there was.
LEMMA TakeDrop ==
  ASSUME NEW b \in Seq(Byte), NEW n \in 0 .. Len(b)
  PROVE  /\ Take(b, n) \in Seq(Byte) /\ Len(Take(b, n)) = n
         /\ Drop(b, n) \in Seq(Byte) /\ Len(Drop(b, n)) = Len(b) - n
         /\ Take(b, n) \o Drop(b, n) = b
<1> DEFINE m == Len(b)
<1>1. m \in Nat /\ n \in Nat /\ n <= m /\ \A k \in 1 .. m : b[k] \in Byte
  OBVIOUS
<1>2. Drop(b, n) = Suffix(b, n + 1) /\ n + 1 \in 1 .. m + 1
  BY <1>1 DEF Drop, Suffix
<1> DEFINE s == Take(b, n)  t == Drop(b, n)  u == s \o t
<1>3. /\ t \in Seq(Byte) /\ Len(t) = m - (n + 1) + 1
      /\ \A j \in 1 .. m - (n + 1) + 1 : t[j] = b[n + 1 - 1 + j]
  <2> DEFINE i == n + 1
  <2>1. i \in 1 .. Len(b) + 1
    BY <1>2
  <2> HIDE DEF i
  <2>2. Suffix(b, i) \in Seq(Byte) /\ Len(Suffix(b, i)) = Len(b) - i + 1
        /\ \A j \in 1 .. Len(b) - i + 1 : Suffix(b, i)[j] = b[i - 1 + j]
    BY <2>1, SuffixIs
  <2> QED
    BY <1>2, <2>2 DEF i
<1>4. s \in Seq(Byte) /\ Len(s) = n /\ \A j \in 1 .. n : s[j] = b[j]
  <2>1. 1 \in Int /\ n \in Int /\ \A j \in 1 .. n : b[j] \in Byte
    BY <1>1
  <2> DEFINE w == SubSeq(b, 1, n)
  <2>2. w \in Seq(Byte) /\ Len(w) = (IF 1 <= n THEN n - 1 + 1 ELSE 0)
        /\ \A j \in 1 .. n - 1 + 1 : w[j] = b[1 + j - 1]
    BY <2>1, SubSeqProperties
  <2> HIDE DEF w
  <2>3. Len(w) = n /\ \A j \in 1 .. n : w[j] = b[j]
    BY <1>1, <2>2
  <2> QED
    BY <2>2, <2>3 DEF w, Take
<1> HIDE DEF s, t
<1>5. /\ u \in Seq(Byte) /\ Len(u) = Len(s) + Len(t)
      /\ \A k \in 1 .. Len(s) : u[k] = s[k]
      /\ \A k \in 1 .. Len(t) : u[Len(s) + k] = t[k]
  BY <1>3, <1>4, MoreBytes
<1> HIDE DEF u
<1>6. Len(t) = m - n /\ Len(u) = m
  BY <1>1, <1>3, <1>4, <1>5
<1>7. ASSUME NEW k \in 1 .. m
      PROVE  u[k] = b[k]
  <2>1. CASE k <= n
    BY <1>1, <1>4, <1>5, <2>1
  <2>2. CASE k > n
    <3> DEFINE j == k - n
    <3>1. /\ j \in 1 .. m - n /\ k = n + j /\ n + 1 - 1 + j = n + j
          /\ m - (n + 1) + 1 = m - n
      BY <1>1, <2>2
    <3> HIDE DEF j
    <3>2. u[n + j] = t[j] /\ t[j] = b[n + j]
      BY <1>3, <1>4, <1>5, <1>6, <3>1
    <3> QED
      BY <3>1, <3>2
  <2> QED
    BY <1>1, <2>1, <2>2
<1>8. u = b
  BY <1>5, <1>6, <1>7, SeqEqual
<1> QED
  BY <1>3, <1>4, <1>6, <1>8 DEF s, t, u
=============================================================================
