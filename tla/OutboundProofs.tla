---------------------------- MODULE OutboundProofs ---------------------------
(***************************************************************************)
(* Proofs about OutboundPipe, for all poll processes, every frame limit,   *)
(* every PIPE_BUF and every capacity of the FIFO, and up to the nine       *)
(* messages that the model writes as digits.                               *)
(***************************************************************************)
EXTENDS OutboundPipe, FrameProofs

-----------------------------------------------------------------------------
(* The array of an answer, in bytes.                                       *)

\* The messages, and how long their array is.
Msg == 1 .. 9
Size(n) == IF n = 0 THEN 2 ELSE 2 * n + 1

\* The bytes of an array: brackets, digits and commas.
LEMMA ArrayBytes ==
  ASSUME NEW s \in Seq(Msg)
  PROVE  LET a == Array(s)
         IN  /\ a \in Seq(Byte) /\ Len(a) = Size(Len(s))
             /\ a[1] = 91 /\ a[Len(a)] = 93
             /\ \A k \in 2 .. Len(a) - 1 :
                  a[k] = IF k % 2 = 1 THEN 44 ELSE 48 + s[k \div 2]
             /\ \A k \in 2 .. Len(a) - 1 : k % 2 # 1 => k \div 2 \in 1 .. Len(s)
<1> DEFINE n == Len(s)
           m == [k \in 1 .. 2 * n - 1 |-> IF k % 2 = 0 THEN 44 ELSE 48 + s[(k + 1) \div 2]]
           l == IF n = 0 THEN 0 ELSE 2 * n - 1
           f == <<91>> \o m
           a == f \o <<93>>
<1>1. n \in Nat /\ l \in Nat /\ 1 .. 2 * n - 1 = 1 .. l /\ \A k \in 1 .. n : s[k] \in Msg
  OBVIOUS
<1>2. a = Array(s)
  BY DEF Array
<1>3. \A k \in 1 .. l : m[k] = IF k % 2 = 0 THEN 44 ELSE 48 + s[(k + 1) \div 2]
  BY <1>1
<1>4. \A k \in 1 .. l : k % 2 # 0 => (k + 1) \div 2 \in 1 .. n
  BY <1>1
<1>5. \A k \in 1 .. l : m[k] \in Byte
  <2> SUFFICES ASSUME NEW k \in 1 .. l
               PROVE  m[k] \in Byte
    OBVIOUS
  <2>1. m[k] = IF k % 2 = 0 THEN 44 ELSE 48 + s[(k + 1) \div 2]
    BY <1>3
  <2> HIDE DEF m
  <2>2. CASE k % 2 = 0
    BY <2>1, <2>2 DEF Byte
  <2>3. CASE k % 2 # 0
    <3>1. s[(k + 1) \div 2] \in 1 .. 9
      BY <1>1, <1>4, <2>3 DEF Msg
    <3>2. m[k] = 48 + s[(k + 1) \div 2]
      BY <2>1, <2>3
    <3> DEFINE v == s[(k + 1) \div 2]
    <3>3. v \in 1 .. 9 /\ m[k] = 48 + v
      BY <3>1, <3>2
    <3> HIDE DEF v
    <3>4. 48 + v \in Byte
      BY <3>3 DEF Byte
    <3> QED
      BY <3>3, <3>4
  <2> QED
    BY <2>2, <2>3
<1>6. m \in Seq(Byte) /\ Len(m) = l
  <2>1. DOMAIN m = 1 .. l /\ m = [k \in 1 .. l |-> m[k]]
    BY <1>1
  <2> HIDE DEF m, l
  <2> QED
    BY <1>1, <1>5, <2>1, ListOf
<1>7. <<91>> \in Seq(Byte) /\ Len(<<91>>) = 1 /\ <<93>> \in Seq(Byte) /\ Len(<<93>>) = 1
      /\ <<91>>[1] = 91 /\ <<93>>[1] = 93
  BY DEF Byte
<1> DEFINE x == <<91>>  y == <<93>>
<1> HIDE DEF m
<1>8. /\ x \o m \in Seq(Byte) /\ Len(x \o m) = Len(x) + Len(m)
      /\ \A k \in 1 .. Len(x) : (x \o m)[k] = x[k]
      /\ \A k \in 1 .. Len(m) : (x \o m)[Len(x) + k] = m[k]
  BY <1>6, <1>7, MoreBytes
<1>9. f \in Seq(Byte) /\ Len(f) = 1 + l /\ f[1] = 91 /\ \A k \in 1 .. l : f[1 + k] = m[k]
  BY <1>6, <1>7, <1>8
<1> HIDE DEF f
<1>10. /\ f \o y \in Seq(Byte) /\ Len(f \o y) = Len(f) + Len(y)
       /\ \A k \in 1 .. Len(f) : (f \o y)[k] = f[k]
       /\ \A k \in 1 .. Len(y) : (f \o y)[Len(f) + k] = y[k]
  <2>1. f \in Seq(Byte) /\ y \in Seq(Byte)
    BY <1>7, <1>9
  <2> HIDE DEF y
  <2> QED
    BY <2>1, MoreBytes
<1>11. /\ a \in Seq(Byte) /\ Len(a) = l + 2 /\ a[1] = 91 /\ a[l + 2] = 93
       /\ \A k \in 1 .. 1 + l : a[k] = f[k]
  <2>1. a = f \o y
    OBVIOUS
  <2> HIDE DEF a
  <2>2. Len(f) = 1 + l /\ Len(y) = 1 /\ y[1] = 93
    BY <1>7, <1>9
  <2>3. Len(a) = l + 2 /\ a \in Seq(Byte) /\ \A k \in 1 .. 1 + l : a[k] = f[k]
    BY <1>1, <1>10, <2>1, <2>2
  <2>4. a[1 + l + 1] = 93
    BY <1>10, <2>1, <2>2
  <2>5. 1 + l + 1 = l + 2 /\ 1 \in 1 .. 1 + l
    BY <1>1
  <2> QED
    BY <1>9, <2>3, <2>4, <2>5
<1> HIDE DEF a
<1>12. l + 2 = Size(n)
  BY <1>1 DEF Size
<1>13. ASSUME NEW k \in 2 .. Len(a) - 1
       PROVE  /\ a[k] = IF k % 2 = 1 THEN 44 ELSE 48 + s[k \div 2]
              /\ k % 2 # 1 => k \div 2 \in 1 .. n
  <2> DEFINE i == k - 1
  <2>1. i \in 1 .. l /\ k = 1 + i /\ k \in 1 .. 1 + l /\ k \in Nat
    BY <1>1, <1>11
  <2>2. a[k] = m[i]
    BY <1>9, <1>11, <2>1
  <2>3. m[i] = IF i % 2 = 0 THEN 44 ELSE 48 + s[(i + 1) \div 2]
    BY <1>3, <2>1 DEF m
  <2>4. i + 1 = k /\ (i % 2 = 0 <=> k % 2 = 1)
    BY <2>1
  <2>5. k % 2 # 1 => k \div 2 \in 1 .. n
    BY <1>4, <2>1, <2>4
  <2> QED
    BY <2>2, <2>3, <2>4, <2>5
<1> QED
  <2>1. \A k \in 2 .. Len(a) - 1 :
          /\ a[k] = IF k % 2 = 1 THEN 44 ELSE 48 + s[k \div 2]
          /\ k % 2 # 1 => k \div 2 \in 1 .. n
    BY <1>13
  <2>2. a \in Seq(Byte) /\ Len(a) = Size(n) /\ a[1] = 91 /\ a[Len(a)] = 93
    BY <1>11, <1>12
  <2> QED
    BY Zenon, <1>2, <2>1, <2>2

\* It is UTF-8, and an array.
LEMMA ArrayIsText ==
  ASSUME NEW s \in Seq(Msg)
  PROVE  IsText(Array(s)) /\ IsArray(Array(s)) /\ Array(s) # <<>>
<1> DEFINE a == Array(s)  n == Len(s)
<1>1. /\ a \in Seq(Byte) /\ Len(a) = Size(n)
      /\ a[1] = 91 /\ a[Len(a)] = 93
      /\ \A k \in 2 .. Len(a) - 1 :
           a[k] = IF k % 2 = 1 THEN 44 ELSE 48 + s[k \div 2]
      /\ \A k \in 2 .. Len(a) - 1 : k % 2 # 1 => k \div 2 \in 1 .. n
  BY ArrayBytes
<1> HIDE DEF a
<1>2. n \in Nat /\ (\A k \in 1 .. n : s[k] \in 1 .. 9) /\ Len(a) \in Nat /\ Len(a) >= 2
  BY <1>1 DEF Msg, Size
<1>3. ASSUME NEW k \in 2 .. Len(a) - 1
      PROVE  \/ k % 2 = 1 /\ a[k] = 44
             \/ k % 2 = 0 /\ a[k] \in 49 .. 57
  <2>1. CASE k % 2 = 1
    BY <1>1, <2>1
  <2>2. CASE k % 2 # 1
    <3>1. k % 2 = 0
      BY <2>2
    <3>2. a[k] = 48 + s[k \div 2] /\ s[k \div 2] \in 1 .. 9
      BY <1>1, <1>2, <2>2
    <3> DEFINE v == s[k \div 2]
    <3> HIDE DEF v
    <3>3. v \in 1 .. 9 /\ a[k] = 48 + v
      BY <3>2 DEF v
    <3>4. a[k] \in 49 .. 57
      BY <3>3
    <3> QED
      BY <3>1, <3>4
  <2> QED
    BY <2>1, <2>2
<1>4. \A k \in DOMAIN a : a[k] < 128
  <2> SUFFICES ASSUME NEW k \in 1 .. Len(a)
               PROVE  a[k] < 128
    BY <1>1
  <2>1. k = 1 \/ k = Len(a) \/ k \in 2 .. Len(a) - 1
    BY <1>2
  <2>2. ASSUME k \in 2 .. Len(a) - 1
        PROVE  a[k] < 128
    <3>1. a[k] = 44 \/ a[k] \in 49 .. 57
      BY <1>3, <2>2
    <3> QED
      BY <3>1
  <2> QED
    BY <1>1, <2>1, <2>2
<1>5. IsText(a)
  BY <1>4 DEF IsText
<1>6. a # <<>>
  BY <1>2
<1>7. IsArray(a)
  <2>1. \A k \in 2 .. Len(a) - 1 : IF k % 2 = 0 THEN a[k] \in 48 .. 57 ELSE a[k] = 44
    BY <1>3
  <2> QED
    BY <1>1, <1>6, <2>1 DEF IsArray
<1> QED
  BY <1>5, <1>6, <1>7 DEF a

\* The client finds in the array what the service put into it.
LEMMA ArrayTellsMessages ==
  ASSUME NEW s \in Seq(Msg)
  PROVE  Messages(Array(s)) = s
<1> DEFINE a == Array(s)  n == Len(s)  h == (Len(a) - 1) \div 2
           m == [k \in 1 .. h |-> a[2 * k] - 48]
<1>1. /\ Len(a) = Size(n)
      /\ \A k \in 2 .. Len(a) - 1 :
           a[k] = IF k % 2 = 1 THEN 44 ELSE 48 + s[k \div 2]
  BY ArrayBytes
<1>2. m = Messages(a)
  BY DEF Messages
<1> HIDE DEF a
<1>3. n \in Nat /\ (\A k \in 1 .. n : s[k] \in 1 .. 9)
  BY DEF Msg
<1>4. h = n
  <2>1. CASE n = 0
    <3>1. Len(a) - 1 = 1
      BY <1>1, <2>1 DEF Size
    <3>2. 1 \div 2 = 0
      OBVIOUS
    <3> QED
      BY <2>1, <3>1, <3>2
  <2>2. CASE n # 0
    <3>1. Len(a) - 1 = 2 * n
      BY <1>1, <1>3, <2>2 DEF Size
    <3>2. (2 * n) \div 2 = n
      BY <1>3
    <3> QED
      BY <3>1, <3>2
  <2> QED
    BY <2>1, <2>2
<1> HIDE DEF h
<1>5. ASSUME NEW k \in 1 .. n
      PROVE  a[2 * k] - 48 = s[k]
  <2> DEFINE i == 2 * k
  <2>1. i \in 2 .. Len(a) - 1 /\ i % 2 # 1 /\ i \div 2 = k
    BY <1>1, <1>3 DEF Size
  <2> HIDE DEF i
  <2>2. a[i] = 48 + s[k] /\ s[k] \in 1 .. 9
    BY <1>1, <1>3, <2>1
  <2>3. a[i] - 48 = s[k]
    BY <2>2
  <2> QED
    BY <2>3 DEF i
<1>6. m = [k \in 1 .. n |-> s[k]]
  BY <1>4, <1>5
<1>7. s = [k \in 1 .. n |-> s[k]]
  OBVIOUS
<1> QED
  BY <1>2, <1>6, <1>7 DEF a

-----------------------------------------------------------------------------
(* What bytes tell of messages, wherever they are cut.                     *)

\* What the bytes b tell: the numbers of their digits, ...
Digits == 48 .. 57
Told(b) == {b[k] - 48 : k \in {j \in DOMAIN b : b[j] \in Digits}}
\* ... each later digit the larger one.
Rising(b) ==
  \A j, k \in DOMAIN b : j < k /\ b[j] \in Digits /\ b[k] \in Digits => b[j] < b[k]
\* Lists of messages, in the same way.
Increasing(s) == \A j, k \in DOMAIN s : j < k => s[j] < s[k]
\* Every number of S is smaller than every number of T.
Below(S, T) == \A a \in S, b \in T : a < b

\* Digits are in the order of the numbers they stand for.
LEMMA DigitOrder ==
  ASSUME NEW u \in Digits, NEW v \in Digits
  PROVE  u - 48 < v - 48 <=> u < v
BY DEF Digits

\* What two runs of bytes, one behind the other, tell.
LEMMA ToldOfBoth ==
  ASSUME NEW a \in Seq(Byte), NEW b \in Seq(Byte)
  PROVE  /\ Told(a \o b) = Told(a) \cup Told(b)
         /\ Rising(a \o b) <=> Rising(a) /\ Rising(b) /\ Below(Told(a), Told(b))
<1> DEFINE x == a \o b  n == Len(a)  m == Len(b)
<1>1. /\ n \in Nat /\ m \in Nat /\ x \in Seq(Byte) /\ Len(x) = n + m
      /\ (\A k \in 1 .. n : x[k] = a[k]) /\ (\A k \in 1 .. m : x[n + k] = b[k])
  BY MoreBytes
<1>2. DOMAIN a = 1 .. n /\ DOMAIN b = 1 .. m /\ DOMAIN x = 1 .. n + m
  BY <1>1
<1>3. /\ \A k \in 1 .. n + m : k \in 1 .. n \/ \E j \in 1 .. m : k = n + j
      /\ \A k \in 1 .. n : k \in 1 .. n + m
      /\ \A k \in 1 .. m : n + k \in 1 .. n + m
  <2>1. \A k \in 1 .. n + m : k \in 1 .. n \/ (k - n \in 1 .. m /\ k = n + (k - n))
    BY <1>1
  <2>2. \A k \in 1 .. n + m : k \in 1 .. n \/ \E j \in 1 .. m : k = n + j
    BY <2>1
  <2>3. (\A k \in 1 .. n : k \in 1 .. n + m) /\ (\A k \in 1 .. m : n + k \in 1 .. n + m)
    BY <1>1
  <2> QED
    BY <2>2, <2>3
<1> HIDE DEF x, n, m
<1>4. Told(x) = Told(a) \cup Told(b)
  <2>1. ASSUME NEW v \in Told(x)
        PROVE  v \in Told(a) \cup Told(b)
    <3>1. PICK k \in 1 .. n + m : x[k] \in Digits /\ v = x[k] - 48
      BY <1>2 DEF Told
    <3>2. CASE k \in 1 .. n
      BY <1>1, <1>2, <3>1, <3>2 DEF Told
    <3>3. CASE k \notin 1 .. n
      <4>1. PICK j \in 1 .. m : k = n + j
        BY <1>3, <3>3
      <4> QED
        BY <1>1, <1>2, <3>1, <4>1 DEF Told
    <3> QED
      BY <3>2, <3>3
  <2>2. ASSUME NEW v \in Told(a)
        PROVE  v \in Told(x)
    <3>1. PICK k \in 1 .. n : a[k] \in Digits /\ v = a[k] - 48
      BY <1>2 DEF Told
    <3>2. k \in DOMAIN x /\ x[k] = a[k]
      BY <1>1, <1>2, <1>3
    <3> QED
      BY <3>1, <3>2 DEF Told
  <2>3. ASSUME NEW v \in Told(b)
        PROVE  v \in Told(x)
    <3>1. PICK k \in 1 .. m : b[k] \in Digits /\ v = b[k] - 48
      BY <1>2 DEF Told
    <3>2. n + k \in DOMAIN x /\ x[n + k] = b[k]
      BY <1>1, <1>2, <1>3
    <3> QED
      BY <3>1, <3>2 DEF Told
  <2> QED
    BY <2>1, <2>2, <2>3
<1>5. ASSUME Rising(x)
      PROVE  Rising(a) /\ Rising(b) /\ Below(Told(a), Told(b))
  <2>1. Rising(a)
    <3> SUFFICES ASSUME NEW j \in 1 .. n, NEW k \in 1 .. n, j < k, a[j] \in Digits,
                        a[k] \in Digits
                 PROVE  a[j] < a[k]
      BY <1>2 DEF Rising
    <3>1. j \in DOMAIN x /\ k \in DOMAIN x /\ x[j] = a[j] /\ x[k] = a[k]
      BY <1>1, <1>2, <1>3
    <3> QED
      BY <1>5, <3>1 DEF Rising
  <2>2. Rising(b)
    <3> SUFFICES ASSUME NEW j \in 1 .. m, NEW k \in 1 .. m, j < k, b[j] \in Digits,
                        b[k] \in Digits
                 PROVE  b[j] < b[k]
      BY <1>2 DEF Rising
    <3>1. /\ n + j \in DOMAIN x /\ n + k \in DOMAIN x /\ x[n + j] = b[j]
          /\ x[n + k] = b[k] /\ n + j < n + k
      BY <1>1, <1>2, <1>3
    <3> QED
      BY <1>5, <3>1 DEF Rising
  <2>3. Below(Told(a), Told(b))
    <3> SUFFICES ASSUME NEW v \in Told(a), NEW w \in Told(b)
                 PROVE  v < w
      BY DEF Below
    <3>1. PICK j \in 1 .. n : a[j] \in Digits /\ v = a[j] - 48
      BY <1>2 DEF Told
    <3>2. PICK k \in 1 .. m : b[k] \in Digits /\ w = b[k] - 48
      BY <1>2 DEF Told
    <3>3. /\ j \in DOMAIN x /\ n + k \in DOMAIN x /\ x[j] = a[j]
          /\ x[n + k] = b[k] /\ j < n + k
      BY <1>1, <1>2, <1>3
    <3>4. a[j] < b[k]
      BY <1>5, <3>1, <3>2, <3>3 DEF Rising
    <3> QED
      BY <3>1, <3>2, <3>4, DigitOrder
  <2> QED
    BY <2>1, <2>2, <2>3
<1>6. ASSUME Rising(a), Rising(b), Below(Told(a), Told(b))
      PROVE  Rising(x)
  <2> SUFFICES ASSUME NEW j \in 1 .. n + m, NEW k \in 1 .. n + m, j < k,
                      x[j] \in Digits, x[k] \in Digits
               PROVE  x[j] < x[k]
    BY <1>2 DEF Rising
  <2>1. CASE j \in 1 .. n /\ k \in 1 .. n
    BY <1>1, <1>2, <1>6, <2>1 DEF Rising
  <2>2. CASE k \notin 1 .. n
    <3>1. PICK i \in 1 .. m : k = n + i
      BY <1>3, <2>2
    <3>2. x[k] = b[i]
      BY <1>1, <3>1
    <3>3. CASE j \in 1 .. n
      <4>1. x[j] = a[j]
        BY <1>1, <3>3
      <4>2. a[j] - 48 \in Told(a) /\ b[i] - 48 \in Told(b)
        BY <1>2, <3>2, <3>3, <4>1 DEF Told
      <4>3. a[j] - 48 < b[i] - 48
        BY <1>6, <4>2 DEF Below
      <4> QED
        BY <3>2, <4>1, <4>3, DigitOrder
    <3>4. CASE j \notin 1 .. n
      <4>1. PICK h \in 1 .. m : j = n + h
        BY <1>3, <3>4
      <4>2. x[j] = b[h] /\ h < i
        BY <1>1, <3>1, <4>1
      <4> QED
        BY <1>2, <1>6, <3>2, <4>2 DEF Rising
    <3> QED
      BY <3>3, <3>4
  <2>3. k \in 1 .. n => j \in 1 .. n
    BY <1>1
  <2> QED
    BY <2>1, <2>2, <2>3
<1> QED
  BY <1>4, <1>5, <1>6 DEF x

\* No bytes tell nothing.
LEMMA NothingTold ==
  Told(<<>>) = {} /\ Rising(<<>>)
BY DEF Told, Rising

\* The header of an answer holds no byte that is a digit.
LEMMA HeaderTellsNothing ==
  ASSUME NEW n \in 0 .. MaxFrame, n <= 19
  PROVE  Told(Header(n)) = {} /\ Rising(Header(n))
<1> DEFINE h == Header(n)
<1>1. n \in 0 .. 19
  BY MaxFrameAssumption
<1>2. /\ n % 256 = n /\ (n \div 256) % 256 = 0 /\ (n \div 65536) % 256 = 0
      /\ n \div (256 * 65536) = 0
  BY Z3, <1>1
<1>3. h = <<n, 0, 0, 0>>
  BY <1>2 DEF Header
<1>4. \A k \in DOMAIN h : h[k] \notin Digits
  BY <1>1, <1>3 DEF Digits
<1> HIDE DEF h
<1> QED
  BY <1>4 DEF Told, Rising, h

\* An array tells its messages, in their order.
LEMMA ArrayTold ==
  ASSUME NEW s \in Seq(Msg)
  PROVE  /\ Told(Array(s)) = ToSet(s)
         /\ Increasing(s) => Rising(Array(s))
<1> DEFINE a == Array(s)  n == Len(s)
<1>1. /\ a \in Seq(Byte) /\ Len(a) = Size(n)
      /\ a[1] = 91 /\ a[Len(a)] = 93
      /\ \A k \in 2 .. Len(a) - 1 :
           a[k] = IF k % 2 = 1 THEN 44 ELSE 48 + s[k \div 2]
      /\ \A k \in 2 .. Len(a) - 1 : k % 2 # 1 => k \div 2 \in 1 .. n
  BY ArrayBytes
<1> HIDE DEF a
<1>2. /\ n \in Nat /\ (\A k \in 1 .. n : s[k] \in 1 .. 9)
      /\ Len(a) \in Nat /\ Len(a) >= 2
      /\ DOMAIN a = 1 .. Len(a) /\ DOMAIN s = 1 .. n
  <2>1. n \in Nat /\ (\A k \in 1 .. n : s[k] \in 1 .. 9) /\ DOMAIN s = 1 .. n
    BY DEF Msg
  <2>2. DOMAIN a = 1 .. Len(a) /\ Len(a) \in Nat
    BY <1>1
  <2>3. Len(a) >= 2
    BY <1>1, <2>1 DEF Size
  <2> QED
    BY <2>1, <2>2, <2>3
<1>3. ASSUME NEW k \in DOMAIN a, a[k] \in Digits
      PROVE  k \div 2 \in 1 .. n /\ a[k] = 48 + s[k \div 2] /\ k % 2 = 0
  <2>1. k \in 2 .. Len(a) - 1
    BY <1>1, <1>2, <1>3 DEF Digits
  <2>2. k % 2 # 1
    BY <1>1, <1>3, <2>1 DEF Digits
  <2>3. k % 2 = 0
    BY <1>2, <2>1, <2>2
  <2> QED
    BY <1>1, <2>1, <2>2, <2>3
<1>4. ASSUME NEW v \in Told(a)
      PROVE  v \in ToSet(s)
  <2>1. PICK k \in DOMAIN a : a[k] \in Digits /\ v = a[k] - 48
    BY DEF Told
  <2> DEFINE i == k \div 2
  <2>2. i \in 1 .. n /\ a[k] = 48 + s[i]
    BY <1>3, <2>1
  <2> HIDE DEF i
  <2>3. s[i] \in 1 .. 9
    BY <1>2, <2>2
  <2>4. v = s[i]
    BY <2>1, <2>2, <2>3
  <2> QED
    BY <1>2, <2>2, <2>4 DEF ToSet
<1>5. ASSUME NEW v \in ToSet(s)
      PROVE  v \in Told(a)
  <2>1. PICK i \in 1 .. n : v = s[i]
    BY <1>2 DEF ToSet
  <2> DEFINE k == 2 * i
  <2>2. k \in 2 .. Len(a) - 1 /\ k % 2 # 1 /\ k \div 2 = i
    BY <1>1, <1>2 DEF Size
  <2> HIDE DEF k
  <2>3. a[k] = 48 + v /\ v \in 1 .. 9
    BY <1>1, <1>2, <2>1, <2>2
  <2>4. k \in DOMAIN a /\ a[k] \in Digits /\ v = a[k] - 48
    BY <1>2, <2>2, <2>3 DEF Digits
  <2> QED
    BY <2>4 DEF Told
<1>6. ASSUME Increasing(s)
      PROVE  Rising(a)
  <2> SUFFICES ASSUME NEW j \in DOMAIN a, NEW k \in DOMAIN a, j < k,
                      a[j] \in Digits, a[k] \in Digits
               PROVE  a[j] < a[k]
    BY DEF Rising
  <2> DEFINE g == j \div 2  i == k \div 2
  <2>1. /\ g \in 1 .. n /\ a[j] = 48 + s[g] /\ j % 2 = 0
        /\ i \in 1 .. n /\ a[k] = 48 + s[i] /\ k % 2 = 0
    BY <1>3
  <2>2. g < i
    BY <1>2, <2>1
  <2> HIDE DEF g, i
  <2>3. s[g] < s[i]
    BY <1>2, <1>6, <2>1, <2>2 DEF Increasing
  <2>4. s[g] \in 1 .. 9 /\ s[i] \in 1 .. 9
    BY <1>2, <2>1
  <2> QED
    BY <2>1, <2>3, <2>4
<1> QED
  BY <1>4, <1>5, <1>6 DEF a

\* A body that is an array tells of its messages, whatever bytes it is made of.
LEMMA MessagesTold ==
  ASSUME NEW b \in Seq(Byte), IsArray(b)
  PROVE  /\ Messages(b) \in Seq(Nat)
         /\ ToSet(Messages(b)) \subseteq Told(b)
         /\ Rising(b) => Increasing(Messages(b))
<1> DEFINE n == (Len(b) - 1) \div 2  m == Messages(b)
<1>1. /\ Len(b) \in Nat /\ Len(b) # 0 /\ DOMAIN b = 1 .. Len(b)
      /\ \A k \in 1 .. Len(b) : b[k] \in 0 .. 255
  <2>1. b # <<>>
    BY DEF IsArray
  <2>2. /\ Len(b) \in Nat /\ DOMAIN b = 1 .. Len(b)
        /\ \A k \in 1 .. Len(b) : b[k] \in 0 .. 255
    <3>1. Len(b) \in Nat /\ DOMAIN b = 1 .. Len(b)
      OBVIOUS
    <3>2. \A k \in 1 .. Len(b) : b[k] \in Byte
      OBVIOUS
    <3> QED
      BY <3>1, <3>2 DEF Byte
  <2>3. Len(b) # 0
    BY <2>1
  <2> QED
    BY <2>2, <2>3
<1>2. n \in Nat
  BY <1>1
<1>3. ASSUME NEW k \in 1 .. n
      PROVE  2 * k \in 2 .. Len(b) - 1 /\ (2 * k) % 2 = 0
  <2>1. CASE 2 * k <= Len(b) - 1
    BY <1>2, <1>1, <2>1
  <2>2. CASE 2 * k > Len(b) - 1
    BY <1>1, <1>2, <2>2
  <2> QED
    BY <1>1, <1>2, <2>1, <2>2
<1>4. \A k \in 1 .. n : b[2 * k] \in Digits /\ 2 * k \in DOMAIN b
  <2> SUFFICES ASSUME NEW k \in 1 .. n
               PROVE  b[2 * k] \in Digits /\ 2 * k \in DOMAIN b
    OBVIOUS
  <2> DEFINE i == 2 * k
  <2>1. i \in 2 .. Len(b) - 1 /\ i % 2 = 0
    BY <1>3
  <2> HIDE DEF i
  <2>2. b[i] \in Digits /\ i \in DOMAIN b
    BY <1>1, <2>1 DEF IsArray, Digits
  <2> QED
    BY <2>2 DEF i
<1>5. m = [k \in 1 .. n |-> b[2 * k] - 48]
  BY DEF Messages
<1> HIDE DEF n, m
<1>6. DOMAIN m = 1 .. n /\ \A k \in 1 .. n : m[k] = b[2 * k] - 48 /\ m[k] \in Nat
  BY <1>4, <1>5 DEF Digits
<1>7. m \in Seq(Nat) /\ Len(m) = n
  <2>1. m = [k \in 1 .. n |-> m[k]]
    BY <1>5, <1>6
  <2> QED
    BY <1>2, <1>6, <2>1, ListOf
<1>8. ToSet(m) \subseteq Told(b)
  <2> SUFFICES ASSUME NEW k \in 1 .. n
               PROVE  m[k] \in Told(b)
    BY <1>6 DEF ToSet
  <2>1. m[k] = b[2 * k] - 48 /\ b[2 * k] \in Digits /\ 2 * k \in DOMAIN b
    BY <1>4, <1>6
  <2> QED
    BY <2>1 DEF Told
<1>9. ASSUME Rising(b)
      PROVE  Increasing(m)
  <2> SUFFICES ASSUME NEW j \in 1 .. n, NEW k \in 1 .. n, j < k
               PROVE  m[j] < m[k]
    BY <1>6 DEF Increasing
  <2> DEFINE g == 2 * j  i == 2 * k
  <2>1. g < i
    OBVIOUS
  <2>2. m[j] = b[g] - 48 /\ b[g] \in Digits /\ g \in DOMAIN b
    BY <1>4, <1>6
  <2>3. m[k] = b[i] - 48 /\ b[i] \in Digits /\ i \in DOMAIN b
    BY <1>4, <1>6
  <2> HIDE DEF g, i
  <2>4. b[g] < b[i]
    BY <1>9, <2>1, <2>2, <2>3 DEF Rising
  <2> QED
    BY <2>2, <2>3, <2>4, DigitOrder
<1> QED
  BY <1>7, <1>8, <1>9 DEF m

\* Two increasing lists, the one below the other.
LEMMA BothIncreasing ==
  ASSUME NEW s \in Seq(Nat), NEW t \in Seq(Nat)
  PROVE  /\ ToSet(s \o t) = ToSet(s) \cup ToSet(t)
         /\ Increasing(s) /\ Increasing(t) /\ Below(ToSet(s), ToSet(t))
              => Increasing(s \o t)
<1> DEFINE x == s \o t  n == Len(s)  m == Len(t)  N == Nat
<1>1. s \in Seq(N) /\ t \in Seq(N)
  OBVIOUS
<1>2. n \in Nat /\ m \in Nat
  OBVIOUS
<1> HIDE DEF N
<1>3. /\ x \in Seq(N) /\ Len(x) = n + m
      /\ \A k \in 1 .. n + m : x[k] = IF k <= n THEN s[k] ELSE t[k - n]
  BY <1>1, ConcatProperties
<1> HIDE DEF x
<1>4. DOMAIN s = 1 .. n /\ DOMAIN t = 1 .. m /\ DOMAIN x = 1 .. n + m
  BY <1>1, <1>3
<1> HIDE DEF n, m
<1>5. \A k \in 1 .. n : k \in 1 .. n + m /\ x[k] = s[k]
  BY <1>2, <1>3
<1>6. \A k \in 1 .. m : n + k \in 1 .. n + m /\ x[n + k] = t[k]
  BY <1>2, <1>3
<1>7. \A k \in 1 .. n + m : k \in 1 .. n \/ \E j \in 1 .. m : k = n + j
  <2>1. \A k \in 1 .. n + m : k \in 1 .. n \/ (k - n \in 1 .. m /\ k = n + (k - n))
    BY <1>2
  <2> QED
    BY <2>1
<1>8. ToSet(x) = ToSet(s) \cup ToSet(t)
  <2>1. ToSet(x) \subseteq ToSet(s) \cup ToSet(t)
    BY <1>4, <1>5, <1>6, <1>7 DEF ToSet
  <2>2. ToSet(s) \subseteq ToSet(x)
    BY <1>4, <1>5 DEF ToSet
  <2>3. ToSet(t) \subseteq ToSet(x)
    BY <1>4, <1>6 DEF ToSet
  <2> QED
    BY <2>1, <2>2, <2>3
<1>9. ASSUME Increasing(s), Increasing(t), Below(ToSet(s), ToSet(t))
      PROVE  Increasing(x)
  <2> SUFFICES ASSUME NEW j \in 1 .. n + m, NEW k \in 1 .. n + m, j < k
               PROVE  x[j] < x[k]
    BY <1>4 DEF Increasing
  <2>1. CASE j \in 1 .. n /\ k \in 1 .. n
    BY <1>4, <1>5, <1>9, <2>1 DEF Increasing
  <2>2. CASE k \notin 1 .. n
    <3>1. PICK i \in 1 .. m : k = n + i
      BY <1>7, <2>2
    <3>2. x[k] = t[i]
      BY <1>6, <3>1
    <3>3. CASE j \in 1 .. n
      BY <1>4, <1>5, <1>9, <3>2, <3>3 DEF Below, ToSet
    <3>4. CASE j \notin 1 .. n
      <4>1. PICK h \in 1 .. m : j = n + h
        BY <1>7, <3>4
      <4>2. x[j] = t[h] /\ h < i
        BY <1>2, <1>6, <3>1, <4>1
      <4> QED
        BY <1>4, <1>9, <3>2, <4>2 DEF Increasing
    <3> QED
      BY <3>3, <3>4
  <2>3. k \in 1 .. n => j \in 1 .. n
    BY <1>2
  <2> QED
    BY <2>1, <2>2, <2>3
<1> QED
  BY <1>8, <1>9 DEF x

-----------------------------------------------------------------------------
(* Types, and what is known of the state whatever happens.                 *)

\* Wherever bytes or messages are, they tell of messages the engine sent.
Known ==
  /\ Len(outbox) <= queued /\ ToSet(outbox) \subseteq 1 .. queued
  /\ ToSet(answers) \subseteq 1 .. queued
  /\ Told(unserved) \subseteq 1 .. queued
  /\ Told(s2c) \subseteq 1 .. queued
  /\ \A p \in Poll : Told(has[p]) \subseteq 1 .. queued
  /\ serve = "header" => Len(unserved) <= MaxFrame /\ Len(unserved) <= 19

\* What may be said of a poll, and when there is only one.
Polls ==
  /\ \A p \in Poll : poll[p] = "reading" => ~ Whole(has[p]) /\ ~ Bad(has[p])
  /\ \A p \in Poll : poll[p] \in {"no", "blocked"} => has[p] = <<>>
  /\ Blocked # {} => serve = "no"
  /\ "two polls" \notin causes => \A p, q \in Attached : p = q

\* The part of the invariant that holds whatever happens.
Base == TypeOK /\ Known /\ Polls

\* The ranges of the state, for arithmetic.
LEMMA Sizes ==
  ASSUME Base
  PROVE  /\ outbox \in Seq(1 .. MaxQueue) /\ Len(outbox) \in Nat
         /\ Len(outbox) <= queued
         /\ queued \in Nat /\ queued <= MaxQueue /\ MaxQueue \in Nat /\ MaxQueue <= 9
         /\ ToSet(outbox) \subseteq 1 .. queued
         /\ unserved \in Seq(Byte) /\ Len(unserved) \in Nat
         /\ s2c \in Seq(Byte) /\ Len(s2c) \in Nat /\ Len(s2c) <= Capacity
         /\ Capacity \in Nat /\ MaxFrame \in Nat
<1>1. outbox \in Seq(1 .. MaxQueue) /\ unserved \in Seq(Byte) /\ s2c \in Seq(Byte)
      /\ Len(s2c) <= Capacity /\ queued \in 0 .. MaxQueue
  BY DEF Base, TypeOK
<1>2. Len(outbox) <= queued /\ ToSet(outbox) \subseteq 1 .. queued
  BY DEF Base, Known
<1>3. Len(outbox) \in Nat /\ Len(unserved) \in Nat /\ Len(s2c) \in Nat
  BY <1>1
<1>4. MaxQueue \in Nat /\ MaxQueue <= 9 /\ Capacity \in Nat /\ MaxFrame \in Nat
  BY QueueAssumption, FifoAssumption, MaxFrameAssumption
<1>5. queued \in Nat /\ queued <= MaxQueue
  BY <1>1, <1>4
<1> QED
  BY <1>1, <1>2, <1>3, <1>4, <1>5

\* A list is one over every set that holds its elements.
LEMMA OthersElements ==
  ASSUME NEW S, NEW s \in Seq(S), NEW T, ToSet(s) \subseteq T
  PROVE  s \in Seq(T)
<1>1. s = [k \in 1 .. Len(s) |-> s[k]] /\ Len(s) \in Nat /\ DOMAIN s = 1 .. Len(s)
  OBVIOUS
<1>2. \A k \in 1 .. Len(s) : s[k] \in T
  BY <1>1 DEF ToSet
<1> QED
  BY <1>1, <1>2, ListOf

\* Answers and outbox as lists of numbers.
LEMMA AnswersKnown ==
  ASSUME Base
  PROVE  answers \in Seq(Nat) /\ outbox \in Seq(Nat)
<1>1. answers \in Seq(1 .. MaxQueue) /\ outbox \in Seq(1 .. MaxQueue)
  BY DEF Base, TypeOK
<1>2. 1 .. MaxQueue \subseteq Nat
  OBVIOUS
<1> DEFINE S == 1 .. MaxQueue
<1> HIDE DEF S
<1>3. answers \in Seq(S) /\ outbox \in Seq(S) /\ S \subseteq Nat
  BY <1>1, <1>2 DEF S
<1> QED
  BY <1>3, SeqMonotonic

\* What a frame tells, its body tells.
LEMMA BodyTold ==
  ASSUME NEW b \in Seq(Byte), Whole(b)
  PROVE  /\ Told(Body(b)) \subseteq Told(b)
         /\ Rising(b) => Rising(Body(b))
<1> DEFINE l == LengthIn(b)  d == Body(b)
<1>1. /\ l \in Nat /\ 4 + l <= Len(b) /\ Len(b) \in Nat /\ d \in Seq(Byte) /\ Len(d) = l
      /\ \A j \in 1 .. l : d[j] = b[4 + j]
  BY BodyAndBehind
<1> HIDE DEF l, d
<1>2. DOMAIN d = 1 .. l /\ DOMAIN b = 1 .. Len(b)
  BY <1>1
<1>3. \A j \in 1 .. l : 4 + j \in 1 .. Len(b)
  BY <1>1
<1>4. Told(d) \subseteq Told(b)
  BY <1>1, <1>2, <1>3 DEF Told
<1>5. ASSUME Rising(b)
      PROVE  Rising(d)
  <2> SUFFICES ASSUME NEW j \in 1 .. l, NEW k \in 1 .. l, j < k, d[j] \in Digits,
                      d[k] \in Digits
               PROVE  d[j] < d[k]
    BY <1>2 DEF Rising
  <2>1. 4 + j \in DOMAIN b /\ 4 + k \in DOMAIN b /\ 4 + j < 4 + k
    BY <1>1, <1>2, <1>3
  <2>2. d[j] = b[4 + j] /\ d[k] = b[4 + k]
    BY <1>1
  <2> QED
    BY <1>5, <2>1, <2>2 DEF Rising
<1> QED
  BY <1>4, <1>5 DEF d

\* A poll that reads on asks for at least one byte, and for none beyond the
\* largest frame.  (read_frame)
LEMMA WantedIs ==
  ASSUME NEW b \in Seq(Byte), ~ Whole(b), ~ Bad(b)
  PROVE  Wanted(b) \in Nat /\ Wanted(b) # 0 /\ Len(b) + Wanted(b) <= 4 + MaxFrame
<1> DEFINE n == Len(b)
<1>1. n \in Nat /\ MaxFrame \in Nat
  BY MaxFrameAssumption
<1>2. CASE HasHeader(b)
  <2>1. ~ TooLong(LengthIn(b)) /\ LengthIn(b) \in Nat
    BY <1>2, LengthIsNat DEF Bad
  <2>2. ~ (n >= 4 + LengthIn(b))
    BY <1>2, <2>1 DEF Whole
  <2>3. Wanted(b) = 4 + LengthIn(b) - n
    BY <1>2 DEF Wanted
  <2> QED
    BY <1>1, <2>1, <2>2, <2>3 DEF TooLong
<1>3. CASE ~ HasHeader(b)
  <2>1. ~ (n >= 4) /\ Wanted(b) = 4 - n
    BY <1>3 DEF HasHeader, Wanted
  <2> HIDE DEF n
  <2>2. 4 - n \in Nat /\ 4 - n # 0 /\ n + (4 - n) <= 4 + MaxFrame
    BY <1>1, <2>1
  <2> QED
    BY <2>1, <2>2 DEF n
<1> QED
  BY <1>2, <1>3

\* How many bytes a read takes.
Taken(p) == IF Wanted(has[p]) <= Len(s2c) THEN Wanted(has[p]) ELSE Len(s2c)
Holds(p) == has[p] \o Take(s2c, Taken(p))
Remain(p) == Drop(s2c, Taken(p))

\* A read moves at least one byte from the FIFO to the poll.
LEMMA ReadTakes ==
  ASSUME Base, NEW p \in Poll, poll[p] = "reading", s2c # <<>>
  PROVE  /\ Taken(p) \in 1 .. Len(s2c)
         /\ Take(s2c, Taken(p)) \in Seq(Byte) /\ Len(Take(s2c, Taken(p))) = Taken(p)
         /\ Remain(p) \in Seq(Byte) /\ Len(Remain(p)) = Len(s2c) - Taken(p)
         /\ s2c = Take(s2c, Taken(p)) \o Remain(p)
         /\ Holds(p) \in Seq(Byte) /\ Len(Holds(p)) <= 4 + MaxFrame
<1> DEFINE n == Taken(p)  h == has[p]  t == Take(s2c, n)
<1>1. /\ h \in Seq(Byte) /\ ~ Whole(h) /\ ~ Bad(h) /\ s2c \in Seq(Byte)
      /\ Len(s2c) \in Nat /\ Len(h) \in Nat /\ Len(s2c) # 0
  <2>1. h \in Seq(Byte) /\ ~ Whole(h) /\ ~ Bad(h) /\ s2c \in Seq(Byte)
    BY DEF Base, TypeOK, Polls
  <2>2. Len(s2c) \in Nat /\ Len(h) \in Nat
    BY <2>1
  <2>3. Len(s2c) # 0
    BY <2>1
  <2> QED
    BY <2>1, <2>2, <2>3
<1>2. /\ Wanted(h) \in Nat /\ Wanted(h) # 0
      /\ Len(h) + Wanted(h) <= 4 + MaxFrame /\ MaxFrame \in Nat
  BY <1>1, WantedIs, MaxFrameAssumption
<1>3. n \in 1 .. Len(s2c) /\ n <= Wanted(h)
  BY <1>1, <1>2 DEF Taken
<1> HIDE DEF n, h
<1>4. /\ t \in Seq(Byte) /\ Len(t) = n
      /\ Drop(s2c, n) \in Seq(Byte) /\ Len(Drop(s2c, n)) = Len(s2c) - n
      /\ t \o Drop(s2c, n) = s2c
  <2>1. n \in 0 .. Len(s2c)
    BY <1>3
  <2> QED
    BY <1>1, <2>1, TakeDrop
<1>5. h \o t \in Seq(Byte) /\ Len(h \o t) = Len(h) + Len(t)
  <2> HIDE DEF t
  <2> QED
    BY <1>1, <1>4, MoreBytes
<1>6. Len(h \o t) <= 4 + MaxFrame
  BY <1>1, <1>2, <1>3, <1>4, <1>5
<1> QED
  BY <1>3, <1>4, <1>5, <1>6 DEF n, h, Holds, Remain

\* PollRead, in these words.
LEMMA ReadIs ==
  ASSUME NEW p \in Poll, PollRead(p)
  PROVE  /\ poll[p] = "reading" /\ s2c # <<>>
         /\ has' = [has EXCEPT ![p] = Holds(p)] /\ s2c' = Remain(p)
         /\ poll' = [poll EXCEPT ![p] = PollAfter(Holds(p))]
         /\ answers' = IF PollAfter(Holds(p)) = "answered" /\ IsArray(Body(Holds(p)))
                         THEN answers \o Messages(Body(Holds(p))) ELSE answers
         /\ UNCHANGED <<outbox, serve, unserved, queued, causes>>
BY Zenon DEF PollRead, Taken, Holds, Remain

\* What a poll adds to the answers.
LEMMA AnswerTold ==
  ASSUME NEW b \in Seq(Byte), PollAfter(b) = "answered", IsArray(Body(b))
  PROVE  /\ Messages(Body(b)) \in Seq(Nat)
         /\ ToSet(Messages(Body(b))) \subseteq Told(b)
         /\ Rising(b) => Increasing(Messages(Body(b)))
<1>1. Whole(b)
  BY DEF PollAfter
<1>2. Body(b) \in Seq(Byte)
  BY <1>1, BodyAndBehind
<1> QED
  BY <1>1, <1>2, BodyTold, MessagesTold

\* Base holds at first ...
LEMMA BaseInit ==
  ASSUME Init
  PROVE  Base
<1>1. /\ <<>> \in Seq(1 .. MaxQueue) /\ <<>> \in Seq(Byte) /\ Len(<<>>) = 0
      /\ Capacity \in Nat /\ MaxFrame \in Nat /\ MaxQueue \in Nat /\ 0 \in 0 .. MaxQueue
  BY FifoAssumption, MaxFrameAssumption, QueueAssumption
<1>2. \A p \in Poll : poll[p] = "no" /\ has[p] = <<>>
  BY DEF Init
<1>3. TypeOK
  <2>1. /\ has \in [Poll -> Seq(Byte)]
        /\ poll \in [Poll -> {"no", "blocked", "reading", "answered", "failed"}]
    BY <1>1 DEF Init
  <2>2. \A p \in Poll : Len(has[p]) <= 4 + MaxFrame
    BY <1>1, <1>2
  <2>3. /\ outbox = <<>> /\ serve = "no" /\ unserved = <<>> /\ s2c = <<>>
        /\ queued = 0 /\ answers = <<>> /\ causes = {}
    BY DEF Init
  <2>4. Len(s2c) <= Capacity
    BY <1>1, <2>3
  <2> QED
    BY <1>1, <2>1, <2>2, <2>3, <2>4 DEF TypeOK
<1>4. Known
  <2>1. ToSet(<<>>) = {}
    BY DEF ToSet
  <2> QED
    BY <1>1, <1>2, <2>1, NothingTold DEF Init, Known
<1>5. Polls
  BY <1>2 DEF Init, Polls, Blocked, Attached
<1> QED
  BY <1>3, <1>4, <1>5 DEF Base

\* ... and every step keeps it: the engine sends,
LEMMA BaseQueue ==
  ASSUME Base, Queue
  PROVE  Base'
<1>1. /\ UNCHANGED <<serve, unserved, s2c, poll, has, answers, causes>>
      /\ queued' = queued + 1 /\ outbox' = Append(outbox, queued + 1)
      /\ queued \in Nat /\ queued + 1 \in 1 .. MaxQueue /\ MaxQueue \in Nat
      /\ serve = "no"
  <2>1. /\ UNCHANGED <<serve, unserved, s2c, poll, has, answers, causes>>
        /\ queued' = queued + 1 /\ outbox' = Append(outbox, queued + 1)
        /\ queued < MaxQueue /\ serve = "no"
    BY DEF Queue
  <2>2. queued \in Nat /\ MaxQueue \in Nat
    BY Sizes
  <2>3. queued + 1 \in 1 .. MaxQueue
    BY <2>1, <2>2
  <2> QED
    BY <2>1, <2>2, <2>3
<1>2. outbox \in Seq(1 .. MaxQueue) /\ Len(outbox) \in Nat /\ Len(outbox) <= queued
 /\ ToSet(outbox) \subseteq 1 .. queued
  BY Sizes
<1>3. outbox' \in Seq(1 .. MaxQueue) /\ Len(outbox') = Len(outbox) + 1
  BY <1>1, <1>2
<1>4. ToSet(outbox') = ToSet(outbox) \cup {queued + 1}
  <2> DEFINE S == 1 .. MaxQueue
  <2>1. outbox \in Seq(S) /\ queued + 1 \in S
    BY <1>1, <1>2
  <2> HIDE DEF S
  <2> QED
    BY <1>1, <2>1, OneMore
<1>5. /\ 1 .. queued \subseteq 1 .. queued' /\ queued' \in 0 .. MaxQueue
      /\ queued + 1 \in 1 .. queued'
  BY <1>1
<1>6. TypeOK'
  BY <1>1, <1>3, <1>5 DEF Base, TypeOK
<1>7. Known'
  <2>1. Len(outbox') <= queued'
    BY <1>1, <1>2, <1>3
  <2>2. ToSet(outbox') \subseteq 1 .. queued'
    BY <1>2, <1>4, <1>5
  <2> QED
    BY <1>1, <1>5, <2>1, <2>2 DEF Base, Known
<1>8. Polls'
  BY <1>1 DEF Base, Polls, Blocked, Attached
<1> QED
  BY <1>6, <1>7, <1>8 DEF Base

\* The outbox and its array.
LEMMA OutboxArray ==
  ASSUME Base
  PROVE  /\ outbox \in Seq(Msg)
         /\ Array(outbox) \in Seq(Byte) /\ Len(Array(outbox)) <= 19
         /\ Told(Array(outbox)) = ToSet(outbox)
<1>1. /\ outbox \in Seq(1 .. MaxQueue) /\ Len(outbox) <= queued /\ Len(outbox) \in Nat
      /\ queued \in Nat /\ queued <= 9 /\ ToSet(outbox) \subseteq 1 .. queued
  <2>1. queued <= 9
    <3>1. queued \in Nat /\ queued <= MaxQueue /\ MaxQueue \in Nat /\ MaxQueue <= 9
      BY Sizes
    <3> QED
      BY <3>1
  <2> QED
    BY <2>1, Sizes
<1>2. Len(outbox) \in 0 .. 9 /\ ToSet(outbox) \subseteq Msg
  <2>1. Len(outbox) \in 0 .. 9
    <3> DEFINE n == Len(outbox)
    <3>1. n \in Nat /\ n <= queued /\ queued \in Nat /\ queued <= 9
      BY <1>1
    <3> HIDE DEF n
    <3>2. n \in 0 .. 9
      BY <3>1
    <3> QED
      BY <3>2 DEF n
  <2>2. 1 .. queued \subseteq 1 .. 9
    BY <1>1
  <2> QED
    BY <1>1, <2>1, <2>2 DEF Msg
<1>3. outbox \in Seq(Msg)
  BY <1>1, <1>2, OthersElements
<1>4. Array(outbox) \in Seq(Byte) /\ Len(Array(outbox)) = Size(Len(outbox))
  BY <1>3, ArrayBytes
<1>5. Size(Len(outbox)) <= 19
  <2> DEFINE n == Len(outbox)
  <2>1. n \in 0 .. 9
    BY <1>2
  <2> HIDE DEF n
  <2>2. Size(n) <= 19
    BY <2>1 DEF Size
  <2> QED
    BY <2>2 DEF n
<1> QED
  BY <1>3, <1>4, <1>5, ArrayTold

\* the service opens the FIFO,
LEMMA BaseOpen ==
  ASSUME Base, ServeOpen
  PROVE  Base'
<1>1. /\ outbox' = <<>> /\ serve = "no"
      /\ UNCHANGED <<s2c, has, queued, answers>>
      /\ poll' = [p \in Poll |-> IF p \in Blocked THEN "reading" ELSE poll[p]]
      /\ \/ serve' = "close" /\ unserved' = <<>> /\ causes' = causes \cup {"too long"}
         \/ /\ serve' = "header" /\ unserved' = Array(outbox)
            /\ ~ TooLong(Len(Array(outbox)))
            /\ causes' \in {causes, causes \cup {"nobody blocked"}}
  <2>1. \/ serve' = "close" /\ unserved' = <<>> /\ causes' = causes \cup {"too long"}
        \/ /\ serve' = "header" /\ unserved' = Array(outbox)
           /\ ~ TooLong(Len(Array(outbox)))
           /\ causes' = causes \cup (IF Attached # {} /\ Blocked = {} THEN {"nobody blocked"} ELSE {})
    BY Zenon DEF ServeOpen
  <2> QED
    BY <2>1 DEF ServeOpen, Left
<1>2. TypeOK /\ Known /\ Polls
  BY DEF Base
<1>3. unserved' \in Seq(Byte) /\ Told(unserved') \subseteq 1 .. queued
      /\ (serve' = "header" => Len(unserved') <= MaxFrame /\ Len(unserved') <= 19)
  <2>1. Len(Array(outbox)) \in Nat /\ MaxFrame \in Nat
    BY OutboxArray, MaxFrameAssumption
  <2>2. ~ TooLong(Len(Array(outbox))) => Len(Array(outbox)) <= MaxFrame
    BY <2>1 DEF TooLong
  <2> DEFINE a == Array(outbox)
  <2>3. a \in Seq(Byte) /\ Len(a) <= 19 /\ Told(a) \subseteq 1 .. queued
    BY OutboxArray, Sizes
  <2> HIDE DEF a
  <2>4. CASE serve' = "close" /\ unserved' = <<>>
    BY <2>4, EmptyBytes, NothingTold
  <2>5. CASE serve' = "header" /\ unserved' = a /\ ~ TooLong(Len(a))
    BY <2>2, <2>3, <2>5 DEF a
  <2> QED
    BY <1>1, <2>4, <2>5 DEF a
<1>4. \A p \in Poll : /\ poll[p] = "blocked" => poll'[p] = "reading"
                      /\ poll[p] # "blocked" => poll'[p] = poll[p]
  BY <1>1 DEF Blocked
<1>5. poll' \in [Poll -> {"no", "blocked", "reading", "answered", "failed"}]
  BY <1>1, <1>2 DEF TypeOK
<1>6. TypeOK'
  <2>1. outbox' \in Seq(1 .. MaxQueue)
    <3>1. <<>> \in Seq(1 .. MaxQueue)
      OBVIOUS
    <3> QED
      BY <1>1, <3>1
  <2>2. causes' \subseteq {"too long", "nobody blocked", "two polls", "death"}
    BY <1>1, <1>2 DEF TypeOK
  <2>3. serve' \in {"no", "header", "text", "close"}
    BY <1>1
  <2> QED
    BY <1>1, <1>2, <1>3, <1>5, <2>1, <2>2, <2>3 DEF TypeOK
<1>7. Known'
  <2>1. ToSet(<<>>) = {}
    BY DEF ToSet
  <2>2. Len(outbox') <= queued
    <3>1. Len(<<>>) = 0 /\ queued \in Nat
      BY Sizes
    <3>2. Len(outbox') = 0
      BY Zenon, <1>1, <3>1
    <3>3. 0 <= queued
      BY <3>1
    <3> QED
      BY Zenon, <3>2, <3>3
  <2>3. ToSet(outbox') \subseteq 1 .. queued
    BY <1>1, <2>1
  <2> QED
    BY <1>1, <1>2, <1>3, <2>2, <2>3 DEF Known
<1>8. Polls'
  <2>1. \A p \in Poll : poll'[p] = "reading" => ~ Whole(has[p]) /\ ~ Bad(has[p])
    BY <1>2, <1>4, EmptyBytes DEF Polls
  <2>2. \A p \in Poll : poll'[p] \in {"no", "blocked"} => has[p] = <<>>
    BY <1>2, <1>4 DEF Polls
  <2>3. Blocked' = {}
    BY <1>4 DEF Blocked
  <2>4. Attached' = Attached
    BY <1>4 DEF Attached
  <2>5. "two polls" \notin causes' => "two polls" \notin causes
    BY <1>1
  <2> QED
    BY <1>1, <1>2, <2>1, <2>2, <2>3, <2>4, <2>5 DEF Polls
<1> QED
  BY <1>6, <1>7, <1>8 DEF Base

\* finds no reader,
LEMMA BaseBroken ==
  ASSUME Base, ServeBroken
  PROVE  Base'
<1>1. /\ UNCHANGED <<outbox, s2c, poll, has, queued, answers, causes>>
      /\ serve' = "close" /\ unserved' = <<>> /\ Blocked = {}
  BY DEF ServeBroken, Attached, Blocked
<1>2. TypeOK' /\ Known'
  BY <1>1, EmptyBytes, NothingTold DEF Base, TypeOK, Known
<1>3. Polls'
  BY <1>1 DEF Base, Polls, Attached, Blocked
<1> QED
  BY <1>2, <1>3 DEF Base

\* The service puts bytes into the FIFO.
LEMMA Fits ==
  ASSUME Base, NEW b \in Seq(Byte), Len(b) <= Capacity - Len(s2c)
  PROVE  s2c \o b \in Seq(Byte) /\ Len(s2c \o b) <= Capacity
<1>1. s2c \in Seq(Byte) /\ Len(s2c) \in Nat /\ Len(b) \in Nat /\ Capacity \in Nat
  <2>1. Len(b) \in Nat
    OBVIOUS
  <2> QED
    BY <2>1, Sizes
<1>2. s2c \o b \in Seq(Byte) /\ Len(s2c \o b) = Len(s2c) + Len(b)
  BY <1>1, MoreBytes
<1> QED
  BY <1>1, <1>2

\* What a header in the FIFO changes.
LEMMA HeaderWritten ==
  ASSUME Base, ServeHeader
  PROVE  LET h == Header(Len(unserved))
         IN  /\ h \in Seq(Byte) /\ Told(h) = {} /\ Rising(h)
             /\ s2c' = s2c \o h /\ s2c' \in Seq(Byte) /\ Len(s2c') <= Capacity
             /\ serve = "header" /\ serve' = "text" /\ Attached # {}
             /\ UNCHANGED <<outbox, unserved, poll, has, queued, answers, causes>>
<1> DEFINE h == Header(Len(unserved))
<1>1. /\ serve = "header" /\ serve' = "text" /\ s2c' = s2c \o h /\ Attached # {}
      /\ UNCHANGED <<outbox, unserved, poll, has, queued, answers, causes>>
      /\ 4 \in Pieces(h, s2c)
  BY DEF ServeHeader
<1>2. Len(unserved) \in 0 .. MaxFrame /\ Len(unserved) <= 19
  <2>1. /\ Len(unserved) \in Nat /\ Len(unserved) <= MaxFrame
        /\ Len(unserved) <= 19 /\ MaxFrame \in Nat
    BY <1>1, Sizes DEF Base, Known
  <2> QED
    BY <2>1
<1>3. h \in Seq(Byte) /\ Len(h) = 4 /\ Told(h) = {} /\ Rising(h)
  BY <1>2, HeaderIsFourBytes, HeaderTellsNothing
<1> HIDE DEF h
<1>4. 4 <= Capacity - Len(s2c)
  BY <1>1, <1>3 DEF Pieces
<1>5. s2c \o h \in Seq(Byte) /\ Len(s2c \o h) <= Capacity
  BY <1>3, <1>4, Fits
<1> QED
  BY <1>1, <1>3, <1>5 DEF h

\* Base: the header is written,
LEMMA BaseHeader ==
  ASSUME Base, ServeHeader
  PROVE  Base'
<1> DEFINE h == Header(Len(unserved))
<1>1. /\ h \in Seq(Byte) /\ Told(h) = {}
      /\ s2c' = s2c \o h /\ s2c' \in Seq(Byte) /\ Len(s2c') <= Capacity
      /\ serve = "header" /\ serve' = "text"
      /\ UNCHANGED <<outbox, unserved, poll, has, queued, answers, causes>>
  BY HeaderWritten
<1> HIDE DEF h
<1>2. Told(s2c') = Told(s2c)
  <2>1. s2c \in Seq(Byte)
    BY Sizes
  <2>2. Told(s2c \o h) = Told(s2c) \cup Told(h)
    BY <1>1, <2>1, ToldOfBoth
  <2> QED
    BY <1>1, <2>2
<1>3. TypeOK' /\ Known'
  BY <1>1, <1>2 DEF Base, TypeOK, Known
<1>4. Polls'
  BY <1>1 DEF Base, Polls, Attached, Blocked
<1> QED
  BY <1>3, <1>4 DEF Base

\* What a piece of the text in the FIFO changes.
LEMMA TextWritten ==
  ASSUME Base, ServeText
  PROVE  \E t, v \in Seq(Byte) :
           /\ unserved = t \o v /\ s2c' = s2c \o t /\ unserved' = v
           /\ s2c' \in Seq(Byte) /\ Len(s2c') <= Capacity
           /\ serve = "text" /\ serve' = (IF v = <<>> THEN "close" ELSE "text") /\ Attached # {}
           /\ UNCHANGED <<outbox, poll, has, queued, answers, causes>>
<1> DEFINE u == unserved
<1>1. PICK n \in Pieces(u, s2c) :
        /\ s2c' = s2c \o Take(u, n) /\ unserved' = Drop(u, n)
        /\ serve' = IF n = Len(u) THEN "close" ELSE "text"
  BY DEF ServeText
<1>2. /\ serve = "text" /\ Attached # {}
      /\ UNCHANGED <<outbox, poll, has, queued, answers, causes>>
  BY DEF ServeText
<1>3. u \in Seq(Byte) /\ Len(u) \in Nat
  BY Sizes
<1>4. n \in 0 .. Len(u) /\ n <= Capacity - Len(s2c)
  BY <1>3 DEF Pieces
<1> DEFINE t == Take(u, n)  v == Drop(u, n)
<1>5. /\ t \in Seq(Byte) /\ Len(t) = n /\ v \in Seq(Byte)
      /\ Len(v) = Len(u) - n /\ t \o v = u
  BY <1>3, <1>4, TakeDrop
<1>6. s2c' = s2c \o t /\ unserved' = v
  BY <1>1
<1> HIDE DEF t, v
<1>7. s2c \o t \in Seq(Byte) /\ Len(s2c \o t) <= Capacity
  BY <1>4, <1>5, Fits
<1>8. n = Len(u) <=> v = <<>>
  BY <1>3, <1>4, <1>5
<1> QED
  BY <1>1, <1>2, <1>5, <1>6, <1>7, <1>8

\* Base: a piece of the text is written,
LEMMA BaseText ==
  ASSUME Base, ServeText
  PROVE  Base'
<1>1. PICK t, v \in Seq(Byte) :
        /\ unserved = t \o v /\ s2c' = s2c \o t /\ unserved' = v
        /\ s2c' \in Seq(Byte) /\ Len(s2c') <= Capacity
        /\ serve = "text" /\ serve' = (IF v = <<>> THEN "close" ELSE "text") /\ Attached # {}
        /\ UNCHANGED <<outbox, poll, has, queued, answers, causes>>
  BY TextWritten
<1>2. Told(unserved) = Told(t) \cup Told(v) /\ Told(s2c') = Told(s2c) \cup Told(t)
  BY <1>1, ToldOfBoth DEF Base, TypeOK
<1>3. TypeOK' /\ Known'
  BY <1>1, <1>2 DEF Base, TypeOK, Known
<1>4. Polls'
  BY <1>1 DEF Base, Polls, Attached, Blocked
<1> QED
  BY <1>3, <1>4 DEF Base

\* the FIFO is closed,
LEMMA BaseClose ==
  ASSUME Base, ServeClose
  PROVE  Base'
<1>1. /\ UNCHANGED <<outbox, unserved, poll, has, queued, answers, causes>>
      /\ serve' = "no" /\ s2c' \in {s2c, <<>>}
  BY DEF ServeClose
<1>2. Len(<<>>) <= Capacity
  BY FifoAssumption
<1>3. TypeOK' /\ Known'
  BY <1>1, <1>2, EmptyBytes, NothingTold DEF Base, TypeOK, Known
<1>4. Polls'
  BY <1>1 DEF Base, Polls, Attached, Blocked
<1> QED
  BY <1>3, <1>4 DEF Base

\* a poll comes,
LEMMA BasePollOpen ==
  ASSUME Base, NEW p \in Poll, PollOpen(p)
  PROVE  Base'
<1>1. /\ UNCHANGED <<outbox, serve, unserved, s2c, has, queued, answers>>
      /\ poll[p] = "no" /\ poll' = [poll EXCEPT ![p] = IF serve = "no" THEN "blocked" ELSE "reading"]
      /\ causes' = causes \cup (IF Attached # {} THEN {"two polls"} ELSE {})
  BY DEF PollOpen
<1>2. TypeOK /\ Known /\ Polls
  BY DEF Base
<1>3. TypeOK' /\ Known'
  BY <1>1, <1>2 DEF TypeOK, Known
<1>4. /\ poll'[p] \in {"blocked", "reading"} /\ (poll'[p] = "blocked" => serve = "no")
      /\ \A q \in Poll \ {p} : poll'[q] = poll[q]
      /\ has[p] = <<>>
  BY <1>1, <1>2 DEF TypeOK, Polls
<1>5. Polls'
  <2>1. \A q \in Poll : poll'[q] = "reading" => ~ Whole(has[q]) /\ ~ Bad(has[q])
    BY <1>2, <1>4, EmptyBytes DEF Polls
  <2>2. \A q \in Poll : poll'[q] \in {"no", "blocked"} => has[q] = <<>>
    BY <1>2, <1>4 DEF Polls
  <2>3. Blocked' # {} => serve = "no"
    BY <1>2, <1>4 DEF Polls, Blocked
  <2>4. "two polls" \notin causes' => \A q, r \in Attached' : q = r
    <3> SUFFICES ASSUME "two polls" \notin causes'
                 PROVE  \A q, r \in Attached' : q = r
      OBVIOUS
    <3>1. Attached = {}
      BY <1>1
    <3>2. Attached' \subseteq {p}
      BY <1>4, <3>1 DEF Attached
    <3> QED
      BY <3>2
  <2> QED
    BY <1>1, <2>1, <2>2, <2>3, <2>4 DEF Polls
<1> QED
  BY <1>3, <1>5 DEF Base

\* reads,
LEMMA BasePollRead ==
  ASSUME Base, NEW p \in Poll, PollRead(p)
  PROVE  Base'
<1> DEFINE b == Holds(p)  t == Take(s2c, Taken(p))  v == Remain(p)
<1>1. /\ poll[p] = "reading" /\ s2c # <<>>
      /\ has' = [has EXCEPT ![p] = b] /\ s2c' = v
      /\ poll' = [poll EXCEPT ![p] = PollAfter(b)]
      /\ answers' = IF PollAfter(b) = "answered" /\ IsArray(Body(b))
                      THEN answers \o Messages(Body(b)) ELSE answers
      /\ UNCHANGED <<outbox, serve, unserved, queued, causes>>
  BY ReadIs
<1>2. TypeOK /\ Known /\ Polls
  BY DEF Base
<1>3. /\ Taken(p) \in 1 .. Len(s2c) /\ t \in Seq(Byte) /\ v \in Seq(Byte)
      /\ Len(v) = Len(s2c) - Taken(p) /\ s2c = t \o v
      /\ b \in Seq(Byte) /\ Len(b) <= 4 + MaxFrame
  BY <1>1, ReadTakes
<1>4. b = has[p] \o t /\ has[p] \in Seq(Byte)
  BY <1>2 DEF Holds, TypeOK
<1> HIDE DEF b, t, v
<1>5. Told(s2c) = Told(t) \cup Told(v) /\ Told(b) = Told(has[p]) \cup Told(t)
  BY <1>3, <1>4, ToldOfBoth
<1>6. /\ Told(v) \subseteq 1 .. queued /\ Told(b) \subseteq 1 .. queued
      /\ queued \in 0 .. MaxQueue
      /\ 1 .. queued \subseteq 1 .. MaxQueue
  <2>1. queued \in 0 .. MaxQueue /\ MaxQueue \in Nat
    BY Sizes
  <2>2. 1 .. queued \subseteq 1 .. MaxQueue
    BY <2>1
  <2> QED
    BY <1>2, <1>5, <2>1, <2>2 DEF Known
<1>7. answers' \in Seq(1 .. MaxQueue) /\ ToSet(answers') \subseteq 1 .. queued
  <2>1. CASE PollAfter(b) = "answered" /\ IsArray(Body(b))
    <3> DEFINE m == Messages(Body(b))  S == 1 .. MaxQueue
    <3>1. m \in Seq(Nat) /\ ToSet(m) \subseteq Told(b)
      BY <1>3, <2>1, AnswerTold
    <3>2. ToSet(m) \subseteq S
      BY <1>6, <3>1
    <3> HIDE DEF m, S
    <3>3. m \in Seq(S)
      BY <3>1, <3>2, OthersElements
    <3>4. answers \in Seq(S)
      BY <1>2 DEF TypeOK, S
    <3>5. answers \o m \in Seq(S)
      BY <3>3, <3>4, ConcatProperties
    <3>6. answers \in Seq(Nat)
      BY AnswersKnown
    <3>7. ToSet(answers \o m) = ToSet(answers) \cup ToSet(m)
      BY <3>1, <3>6, BothIncreasing
    <3>8. ToSet(answers \o m) \subseteq 1 .. queued
      BY <1>2, <1>6, <3>1, <3>7 DEF Known
    <3> QED
      BY <1>1, <2>1, <3>5, <3>8 DEF m, S
  <2>2. CASE ~ (PollAfter(b) = "answered" /\ IsArray(Body(b)))
    BY <1>1, <1>2, <2>2 DEF TypeOK, Known
  <2> QED
    BY <2>1, <2>2
<1>8. Len(v) <= Capacity
  <2>1. Len(s2c) <= Capacity /\ Len(s2c) \in Nat /\ Capacity \in Nat
    BY Sizes
  <2> QED
    BY <1>3, <2>1
<1>9. PollAfter(b) \in {"failed", "answered", "reading"}
      /\ (PollAfter(b) = "reading" => ~ Whole(b) /\ ~ Bad(b))
  BY DEF PollAfter
<1>10. /\ has'[p] = b /\ poll'[p] = PollAfter(b)
       /\ \A q \in Poll \ {p} : has'[q] = has[q] /\ poll'[q] = poll[q]
  BY <1>1, <1>2 DEF TypeOK
<1>11. TypeOK'
  <2>1. has' \in [Poll -> Seq(Byte)]
    BY <1>1, <1>2, <1>3 DEF TypeOK
  <2>2. poll' \in [Poll -> {"no", "blocked", "reading", "answered", "failed"}]
    BY <1>1, <1>2, <1>9 DEF TypeOK
  <2>3. \A q \in Poll : Len(has'[q]) <= 4 + MaxFrame
    BY <1>2, <1>3, <1>10 DEF TypeOK
  <2> QED
    BY <1>1, <1>2, <1>3, <1>7, <1>8, <2>1, <2>2, <2>3 DEF TypeOK
<1>12. Known'
  <2>1. \A q \in Poll : Told(has'[q]) \subseteq 1 .. queued
    BY <1>2, <1>6, <1>10 DEF Known
  <2> QED
    BY <1>1, <1>2, <1>6, <1>7, <2>1 DEF Known
<1>13. Polls'
  <2>1. \A q \in Poll : poll'[q] = "reading" => ~ Whole(has'[q]) /\ ~ Bad(has'[q])
    BY <1>2, <1>9, <1>10 DEF Polls
  <2>2. \A q \in Poll : poll'[q] \in {"no", "blocked"} => has'[q] = <<>>
    BY <1>2, <1>9, <1>10 DEF Polls
  <2>3. Blocked' \subseteq Blocked
    BY <1>9, <1>10 DEF Blocked
  <2>4. Attached' = Attached
    BY <1>1, <1>9, <1>10 DEF Attached
  <2> QED
    BY <1>1, <1>2, <2>1, <2>2, <2>3, <2>4 DEF Polls
<1> QED
  BY <1>11, <1>12, <1>13 DEF Base

\* meets the end of the file,
LEMMA BasePollEof ==
  ASSUME Base, NEW p \in Poll, PollEof(p)
  PROVE  Base'
<1>1. /\ UNCHANGED <<outbox, serve, unserved, s2c, has, queued, answers, causes>>
      /\ poll[p] = "reading" /\ poll' = [poll EXCEPT ![p] = "failed"]
  BY DEF PollEof
<1>2. TypeOK' /\ Known'
  BY <1>1 DEF Base, TypeOK, Known
<1>3. poll'[p] = "failed" /\ \A q \in Poll \ {p} : poll'[q] = poll[q]
  BY <1>1 DEF Base, TypeOK
<1>4. Blocked' = Blocked /\ Attached' = Attached
  BY <1>1, <1>3 DEF Blocked, Attached
<1>5. Polls'
  BY <1>1, <1>3, <1>4 DEF Base, Polls
<1> QED
  BY <1>2, <1>5 DEF Base

\* or leaves.
LEMMA BaseLeave ==
  ASSUME Base, NEW p \in Poll, Leave(p), causes \subseteq causes',
         causes' \subseteq causes \cup {"death"}
  PROVE  Base'
<1>1. /\ UNCHANGED <<outbox, serve, unserved, queued, answers>>
      /\ poll' = [poll EXCEPT ![p] = "no"] /\ has' = [has EXCEPT ![p] = <<>>]
      /\ s2c' \in {s2c, <<>>}
  BY DEF Leave
<1>2. TypeOK /\ Known /\ Polls
  BY DEF Base
<1>3. /\ poll'[p] = "no" /\ has'[p] = <<>>
      /\ \A q \in Poll \ {p} : poll'[q] = poll[q] /\ has'[q] = has[q]
  BY <1>1, <1>2 DEF TypeOK
<1>4. TypeOK'
  <2>1. has' \in [Poll -> Seq(Byte)] /\ s2c' \in Seq(Byte)
    BY <1>1, <1>2, EmptyBytes DEF TypeOK
  <2>2. Len(<<>>) = 0 /\ Capacity \in Nat /\ MaxFrame \in Nat
    BY FifoAssumption, MaxFrameAssumption
  <2>3. Len(s2c') <= Capacity
    BY <1>1, <2>2, Sizes
  <2>4. \A q \in Poll : Len(has'[q]) <= 4 + MaxFrame
    <3>1. Len(has'[p]) = 0
      BY <1>3, <2>2
    <3>2. 0 <= 4 + MaxFrame
      BY <2>2
    <3> QED
      BY <1>2, <1>3, <3>1, <3>2 DEF TypeOK
  <2>5. causes' \subseteq {"too long", "nobody blocked", "two polls", "death"}
    BY <1>2 DEF TypeOK
  <2>6. poll' \in [Poll -> {"no", "blocked", "reading", "answered", "failed"}]
    BY <1>1, <1>2 DEF TypeOK
  <2> QED
    BY <1>1, <1>2, <2>1, <2>3, <2>4, <2>5, <2>6 DEF TypeOK
<1>5. Known'
  <2>1. \A q \in Poll : Told(has'[q]) \subseteq 1 .. queued
    BY <1>2, <1>3, NothingTold DEF Known
  <2> QED
    BY <1>1, <1>2, <2>1, NothingTold DEF Known
<1>6. Polls'
  <2>1. \A q \in Poll : poll'[q] = "reading" => ~ Whole(has'[q]) /\ ~ Bad(has'[q])
    BY <1>2, <1>3 DEF Polls
  <2>2. \A q \in Poll : poll'[q] \in {"no", "blocked"} => has'[q] = <<>>
    BY <1>2, <1>3 DEF Polls
  <2>3. Blocked' \subseteq Blocked /\ Attached' \subseteq Attached
    BY <1>3 DEF Blocked, Attached
  <2> QED
    BY <1>1, <1>2, <2>1, <2>2, <2>3 DEF Polls
<1> QED
  BY <1>4, <1>5, <1>6 DEF Base

\* The two ways to leave.
LEMMA LeaveCauses ==
  ASSUME NEW p \in Poll, PollLeave(p) \/ PollDie(p)
  PROVE  Leave(p) /\ causes \subseteq causes' /\ causes' \subseteq causes \cup {"death"}
BY DEF PollLeave, PollDie

\* Every step keeps Base.
LEMMA BaseNext ==
  ASSUME Base, [Next]_vars
  PROVE  Base'
<1>1. CASE Next
  BY <1>1, BaseQueue, BaseOpen, BaseBroken, BaseHeader, BaseText, BaseClose,
     BasePollOpen,
     BasePollRead, BasePollEof, LeaveCauses, BaseLeave DEF Next
<1>2. CASE UNCHANGED vars
  BY <1>2 DEF vars, Base, TypeOK, Known, Polls, Blocked, Attached
<1> QED
  BY <1>1, <1>2

-----------------------------------------------------------------------------
(* Messages stay in line.                                                  *)

\* Wherever messages are on their way, they stand in the order of sending:
\* first the answers, then what a poll has read, then the FIFO, then what the
\* service has yet to write, then the outbox.  Nothing is said of frames: the
\* bytes may be cut anywhere, and a frame may lose its end to a dying poll.
InLine ==
  /\ Increasing(answers) /\ Increasing(outbox) /\ Rising(s2c) /\ Rising(unserved)
  /\ Below(ToSet(answers), Told(s2c)) /\ Below(ToSet(answers), Told(unserved))
  /\ Below(ToSet(answers), ToSet(outbox))
  /\ Below(Told(s2c), Told(unserved)) /\ Below(Told(s2c), ToSet(outbox))
  /\ Below(Told(unserved), ToSet(outbox))
  /\ \A p \in Poll : poll[p] = "reading" =>
       /\ Rising(has[p])
       /\ Below(ToSet(answers), Told(has[p])) /\ Below(Told(has[p]), Told(s2c))
       /\ Below(Told(has[p]), Told(unserved)) /\ Below(Told(has[p]), ToSet(outbox))

\* With two polls reading the same FIFO, neither has the earlier bytes.
InOrder == "two polls" \notin causes => InLine

\* Of unions,
LEMMA BelowParts ==
  ASSUME NEW S, NEW T, NEW U
  PROVE  /\ Below(S \cup T, U) <=> Below(S, U) /\ Below(T, U)
         /\ Below(U, S \cup T) <=> Below(U, S) /\ Below(U, T)
         /\ Below({}, U) /\ Below(U, {})
BY DEF Below

\* of subsets,
LEMMA BelowFewer ==
  ASSUME NEW S, NEW T, NEW U, Below(S, T), U \subseteq S
  PROVE  Below(U, T)
BY DEF Below

\* and of the next number.
LEMMA BelowNext ==
  ASSUME NEW n \in Nat, NEW S, S \subseteq 1 .. n
  PROVE  Below(S, {n + 1})
<1>1. \A a \in 1 .. n : a < n + 1
  OBVIOUS
<1> QED
  BY <1>1 DEF Below

\* The line holds at first ...
LEMMA LineInit ==
  ASSUME Init
  PROVE  InLine
<1>1. ToSet(<<>>) = {} /\ Increasing(<<>>)
  BY DEF ToSet, Increasing
<1>2. \A p \in Poll : poll[p] # "reading"
  BY DEF Init
<1>3. answers = <<>> /\ outbox = <<>> /\ s2c = <<>> /\ unserved = <<>>
  BY DEF Init
<1>4. Below({}, {})
  BY DEF Below
<1> QED
  BY <1>1, <1>2, <1>3, <1>4, NothingTold DEF InLine

\* ... and every step keeps it: a message joins at the end,
LEMMA LineQueue ==
  ASSUME Base, InLine, Queue
  PROVE  InLine'
<1> DEFINE v == queued + 1
<1>1. /\ UNCHANGED <<serve, unserved, s2c, poll, has, answers, causes>>
      /\ outbox' = Append(outbox, v) /\ queued \in Nat
  BY Sizes DEF Queue
<1>2. outbox \in Seq(Nat) /\ v \in Nat /\ <<v>> \in Seq(Nat)
  BY <1>1, AnswersKnown
<1>3. ToSet(<<v>>) = {v} /\ Increasing(<<v>>)
  BY DEF ToSet, Increasing
<1>4. outbox' = outbox \o <<v>>
  <2> DEFINE N == Nat
  <2>1. outbox \in Seq(N) /\ v \in N
    BY <1>2
  <2> HIDE DEF N, v
  <2>2. Append(outbox, v) = outbox \o <<v>>
    BY <2>1, AppendIsConcat
  <2> QED
    BY <1>1, <2>2
<1> DEFINE w == <<v>>
<1> HIDE DEF w
<1>5. ToSet(outbox') = ToSet(outbox) \cup {v}
      /\ (Increasing(outbox) /\ Below(ToSet(outbox), {v}) => Increasing(outbox'))
  <2>1. w \in Seq(Nat) /\ ToSet(w) = {v} /\ Increasing(w) /\ outbox' = outbox \o w
    BY <1>2, <1>3, <1>4 DEF w
  <2> HIDE DEF v
  <2>2. /\ ToSet(outbox \o w) = ToSet(outbox) \cup ToSet(w)
        /\ Increasing(outbox) /\ Increasing(w) /\ Below(ToSet(outbox), ToSet(w))
             => Increasing(outbox \o w)
    BY <1>2, <2>1, BothIncreasing
  <2> QED
    BY <2>1, <2>2
<1>6. /\ Below(ToSet(outbox), {v}) /\ Below(ToSet(answers), {v})
      /\ Below(Told(s2c), {v}) /\ Below(Told(unserved), {v})
      /\ \A p \in Poll : Below(Told(has[p]), {v})
  <2>1. /\ ToSet(outbox) \subseteq 1 .. queued /\ ToSet(answers) \subseteq 1 .. queued
        /\ Told(s2c) \subseteq 1 .. queued /\ Told(unserved) \subseteq 1 .. queued
        /\ \A p \in Poll : Told(has[p]) \subseteq 1 .. queued
    BY DEF Base, Known
  <2> QED
    BY <1>1, <2>1, BelowNext
<1> HIDE DEF v
<1> QED
  BY <1>1, <1>5, <1>6, BelowParts DEF InLine

\* the outbox becomes bytes to write,
LEMMA LineOpen ==
  ASSUME Base, InLine, ServeOpen
  PROVE  InLine'
<1>1. /\ outbox' = <<>> /\ UNCHANGED <<s2c, has, queued, answers>>
      /\ poll' = [p \in Poll |-> IF p \in Blocked THEN "reading" ELSE poll[p]]
      /\ unserved' \in {<<>>, Array(outbox)}
  <2>1. unserved' = <<>> \/ unserved' = Array(outbox)
    BY Zenon DEF ServeOpen
  <2> QED
    BY <2>1 DEF ServeOpen, Left
<1>2. ToSet(<<>>) = {} /\ Increasing(<<>>)
  BY DEF ToSet, Increasing
<1>3. Rising(unserved') /\ Told(unserved') \subseteq ToSet(outbox)
  <2>1. outbox \in Seq(Msg)
    BY OutboxArray
  <2>2. Told(Array(outbox)) = ToSet(outbox) /\ Rising(Array(outbox))
    BY <2>1, ArrayTold DEF InLine
  <2> QED
    BY <1>1, <2>2, NothingTold
<1>4. \A p \in Poll : poll'[p] = "reading" => poll[p] = "reading" \/ has[p] = <<>>
  BY <1>1 DEF Base, Polls, Blocked
<1>5. /\ Below(ToSet(answers), Told(unserved')) /\ Below(Told(s2c), Told(unserved'))
      /\ \A p \in Poll : poll[p] = "reading" => Below(Told(has[p]), Told(unserved'))
  BY <1>3 DEF InLine, Below
<1>6. \A p \in Poll : poll'[p] = "reading" =>
        /\ Rising(has[p])
        /\ Below(ToSet(answers), Told(has[p])) /\ Below(Told(has[p]), Told(s2c))
        /\ Below(Told(has[p]), Told(unserved'))
  <2> SUFFICES ASSUME NEW p \in Poll, poll'[p] = "reading"
               PROVE  /\ Rising(has[p])
                      /\ Below(ToSet(answers), Told(has[p]))
                      /\ Below(Told(has[p]), Told(s2c))
                      /\ Below(Told(has[p]), Told(unserved'))
    OBVIOUS
  <2>1. CASE poll[p] = "reading"
    BY <1>5, <2>1 DEF InLine
  <2>2. CASE has[p] = <<>>
    BY <2>2, NothingTold, BelowParts
  <2> QED
    BY <1>4, <2>1, <2>2
<1> QED
  BY <1>1, <1>2, <1>3, <1>5, <1>6, BelowParts DEF InLine

\* these are given up,
LEMMA LineBroken ==
  ASSUME Base, InLine, ServeBroken
  PROVE  InLine'
<1>1. UNCHANGED <<outbox, s2c, poll, has, queued, answers, causes>> /\ unserved' = <<>>
  BY DEF ServeBroken
<1> QED
  BY <1>1, NothingTold, BelowParts DEF InLine

\* a header goes into the FIFO,
LEMMA LineHeader ==
  ASSUME Base, InLine, ServeHeader
  PROVE  InLine'
<1> DEFINE h == Header(Len(unserved))
<1>1. /\ h \in Seq(Byte) /\ Told(h) = {} /\ Rising(h) /\ s2c' = s2c \o h
      /\ UNCHANGED <<outbox, unserved, poll, has, queued, answers, causes>>
  BY HeaderWritten
<1> HIDE DEF h
<1>2. s2c \in Seq(Byte)
  BY Sizes
<1>3. Told(s2c \o h) = Told(s2c) \cup Told(h)
      /\ (Rising(s2c \o h) <=> Rising(s2c) /\ Rising(h) /\ Below(Told(s2c), Told(h)))
  BY <1>1, <1>2, ToldOfBoth
<1>4. Told(s2c') = Told(s2c) /\ (Rising(s2c) => Rising(s2c'))
  BY <1>1, <1>3, BelowParts
<1> QED
  BY <1>1, <1>4 DEF InLine

\* a piece of the text does,
LEMMA LineText ==
  ASSUME Base, InLine, ServeText
  PROVE  InLine'
<1>1. PICK t, v \in Seq(Byte) :
        /\ unserved = t \o v /\ s2c' = s2c \o t /\ unserved' = v
        /\ UNCHANGED <<outbox, poll, has, queued, answers, causes>>
  BY TextWritten
<1>2. s2c \in Seq(Byte)
  BY Sizes
<1>3. Told(s2c') = Told(s2c) \cup Told(t)
      /\ (Rising(s2c') <=> Rising(s2c) /\ Rising(t) /\ Below(Told(s2c), Told(t)))
  BY <1>1, <1>2, ToldOfBoth
<1>4. Told(unserved) = Told(t) \cup Told(v)
      /\ (Rising(unserved) <=> Rising(t) /\ Rising(v) /\ Below(Told(t), Told(v)))
  BY <1>1, ToldOfBoth
<1> DEFINE A == ToSet(answers)  S == Told(s2c)  T == Told(t)  V == Told(v)  O == ToSet(outbox)
<1>5. /\ Below(A, S) /\ Below(A, Told(unserved)) /\ Below(A, O)
      /\ Below(S, Told(unserved)) /\ Below(S, O) /\ Below(Told(unserved), O)
      /\ Increasing(answers) /\ Increasing(outbox) /\ Rising(s2c) /\ Rising(unserved)
  BY DEF InLine
<1>6. /\ Below(A, S \cup T) /\ Below(A, V) /\ Below(A, O)
      /\ Below(S \cup T, V) /\ Below(S \cup T, O) /\ Below(V, O)
      /\ Rising(t) /\ Rising(v) /\ Below(S, T)
  <2> HIDE DEF A, S, T, V, O
  <2>1. Told(unserved) = T \cup V /\ Rising(t) /\ Rising(v) /\ Below(T, V)
    BY <1>4, <1>5 DEF T, V
  <2>2. /\ Below(A, T) /\ Below(A, V) /\ Below(S, T) /\ Below(S, V)
        /\ Below(T, O) /\ Below(V, O)
    BY <1>5, <2>1, BelowParts
  <2> QED
    BY <1>5, <2>1, <2>2, BelowParts
<1>7. ASSUME NEW p \in Poll, poll[p] = "reading"
      PROVE  /\ Rising(has[p])
             /\ Below(A, Told(has[p])) /\ Below(Told(has[p]), S \cup T)
             /\ Below(Told(has[p]), V) /\ Below(Told(has[p]), O)
  <2> HIDE DEF A, S, T, V, O
  <2>1. /\ Rising(has[p])
        /\ Below(A, Told(has[p])) /\ Below(Told(has[p]), S)
        /\ Below(Told(has[p]), Told(unserved)) /\ Below(Told(has[p]), O)
    BY <1>7 DEF InLine, A, S, O
  <2>2. Below(Told(has[p]), T \cup V)
    BY <1>4, <2>1 DEF T, V
  <2>3. Below(Told(has[p]), T) /\ Below(Told(has[p]), V)
    BY <2>2, BelowParts
  <2>4. Below(Told(has[p]), S \cup T)
    BY <2>1, <2>3, BelowParts
  <2> QED
    BY <2>1, <2>3, <2>4
<1>8. /\ Told(s2c') = S \cup T /\ Told(unserved') = V /\ ToSet(answers') = A
      /\ ToSet(outbox') = O
      /\ Rising(s2c') /\ Rising(unserved') /\ UNCHANGED <<poll, has, answers, outbox>>
  <2>1. UNCHANGED <<poll, has, answers, outbox>> /\ unserved' = v
    BY <1>1
  <2>2. ToSet(answers') = A /\ ToSet(outbox') = O
    BY <2>1
  <2> QED
    BY <2>1, <2>2, <1>3, <1>5, <1>6
<1> HIDE DEF A, S, T, V, O
<1> QED
  BY <1>5, <1>6, <1>7, <1>8 DEF InLine

\* the FIFO loses its bytes or keeps them,
LEMMA LineClose ==
  ASSUME Base, InLine, ServeClose
  PROVE  InLine'
<1>1. /\ UNCHANGED <<outbox, unserved, poll, has, queued, answers, causes>>
      /\ s2c' \in {s2c, <<>>}
  BY DEF ServeClose
<1> QED
  BY <1>1, NothingTold, BelowParts DEF InLine

\* a poll comes with nothing read,
LEMMA LinePollOpen ==
  ASSUME Base, InLine, NEW p \in Poll, PollOpen(p)
  PROVE  InLine'
<1>1. /\ UNCHANGED <<outbox, serve, unserved, s2c, has, queued, answers>>
      /\ poll[p] = "no" /\ has[p] = <<>>
      /\ \A q \in Poll \ {p} : poll'[q] = poll[q]
  BY DEF PollOpen, Base, Polls, TypeOK
<1>2. \A q \in Poll : poll'[q] = "reading" => poll[q] = "reading" \/ has[q] = <<>>
  BY <1>1
<1>3. \A q \in Poll : poll'[q] = "reading" =>
        /\ Rising(has[q])
        /\ Below(ToSet(answers), Told(has[q])) /\ Below(Told(has[q]), Told(s2c))
        /\ Below(Told(has[q]), Told(unserved)) /\ Below(Told(has[q]), ToSet(outbox))
  BY <1>2, NothingTold, BelowParts DEF InLine
<1> QED
  BY <1>1, <1>3 DEF InLine

\* the front of the FIFO moves on to the one poll, and from there, when the
\* frame is whole, to the answers,
LEMMA LinePollRead ==
  ASSUME Base, InLine, NEW p \in Poll, PollRead(p), "two polls" \notin causes
  PROVE  InLine'
<1> DEFINE b == Holds(p)  t == Take(s2c, Taken(p))  v == Remain(p)
<1>1. /\ poll[p] = "reading" /\ s2c # <<>>
      /\ has' = [has EXCEPT ![p] = b] /\ s2c' = v
      /\ poll' = [poll EXCEPT ![p] = PollAfter(b)]
      /\ answers' = IF PollAfter(b) = "answered" /\ IsArray(Body(b))
                      THEN answers \o Messages(Body(b)) ELSE answers
      /\ UNCHANGED <<outbox, serve, unserved, queued, causes>>
  BY ReadIs
<1>2. t \in Seq(Byte) /\ v \in Seq(Byte) /\ s2c = t \o v /\ b \in Seq(Byte)
  BY <1>1, ReadTakes
<1>3. b = has[p] \o t /\ has[p] \in Seq(Byte)
  BY DEF Holds, Base, TypeOK
<1>4. has'[p] = b /\ poll'[p] = PollAfter(b) /\ \A q \in Poll \ {p} : poll'[q] # "reading"
  <2>1. \A q \in Poll \ {p} : poll[q] = "no"
    BY <1>1 DEF Base, Polls, Attached
  <2> QED
    BY <1>1, <2>1 DEF Base, TypeOK
<1> HIDE DEF b, t, v
<1>5. /\ Told(s2c) = Told(t) \cup Told(v)
      /\ Rising(s2c) <=> Rising(t) /\ Rising(v) /\ Below(Told(t), Told(v))
      /\ Told(b) = Told(has[p]) \cup Told(t)
      /\ Rising(b) <=> Rising(has[p]) /\ Rising(t) /\ Below(Told(has[p]), Told(t))
  BY <1>2, <1>3, ToldOfBoth
<1> DEFINE A == ToSet(answers)  H == Told(has[p])  T == Told(t)  V == Told(v)
           U == Told(unserved)  O == ToSet(outbox)
<1>6. /\ Rising(has[p]) /\ Below(A, H) /\ Below(H, Told(s2c)) /\ Below(H, U)
      /\ Below(H, O)
      /\ Rising(s2c) /\ Below(A, Told(s2c)) /\ Below(Told(s2c), U)
      /\ Below(Told(s2c), O)
      /\ Rising(unserved) /\ Increasing(answers) /\ Increasing(outbox)
      /\ Below(A, U) /\ Below(A, O) /\ Below(U, O)
  BY <1>1 DEF InLine
<1> HIDE DEF A, H, T, V, U, O
<1>7. /\ Rising(b) /\ Rising(v)
      /\ Below(A, Told(b)) /\ Below(Told(b), V) /\ Below(Told(b), U)
      /\ Below(Told(b), O)
      /\ Below(A, V) /\ Below(V, U) /\ Below(V, O)
  <2>1. /\ Told(s2c) = T \cup V /\ Told(b) = H \cup T
        /\ Rising(t) /\ Rising(v) /\ Below(T, V)
        /\ Rising(b) <=> Rising(has[p]) /\ Rising(t) /\ Below(H, T)
    BY <1>5, <1>6 DEF H, T, V
  <2>2. /\ Below(H, T \cup V) /\ Below(A, T \cup V) /\ Below(T \cup V, U)
        /\ Below(T \cup V, O)
    BY <1>6, <2>1
  <2>3. Below(H, T) /\ Below(H, V) /\ Below(A, T) /\ Below(A, V)
    BY <2>2, BelowParts
  <2>4. Below(T, U) /\ Below(V, U) /\ Below(T, O) /\ Below(V, O)
    BY <2>2, BelowParts
  <2>5. /\ Below(A, H \cup T) /\ Below(H \cup T, V) /\ Below(H \cup T, U)
        /\ Below(H \cup T, O)
    BY <1>6, <2>1, <2>3, <2>4, BelowParts
  <2>6. Rising(b) /\ Rising(v)
    BY <1>6, <2>1, <2>3
  <2> QED
    BY <2>1, <2>3, <2>4, <2>5, <2>6
<1>8. /\ Told(s2c') = V /\ Told(unserved') = U /\ ToSet(outbox') = O
      /\ s2c' = v /\ unserved' = unserved /\ outbox' = outbox
  BY <1>1 DEF v, V, U, O
<1>9. CASE PollAfter(b) = "answered" /\ IsArray(Body(b))
  <2> DEFINE m == Messages(Body(b))  M == ToSet(m)
  <2>1. m \in Seq(Nat) /\ M \subseteq Told(b) /\ Increasing(m)
    BY <1>2, <1>7, <1>9, AnswerTold
  <2>2. answers \in Seq(Nat) /\ answers' = answers \o m
    BY <1>1, <1>9, AnswersKnown
  <2> HIDE DEF m
  <2>3. Below(A, M) /\ Below(M, V) /\ Below(M, U) /\ Below(M, O)
    BY <1>7, <2>1 DEF Below
  <2>4. ToSet(answers') = A \cup M /\ Increasing(answers')
    <3>1. Below(ToSet(answers), ToSet(m))
      BY <2>3 DEF A
    <3> QED
      BY <1>6, <2>1, <2>2, <3>1, BothIncreasing DEF A
  <2> HIDE DEF M
  <2>5. Below(A \cup M, V) /\ Below(A \cup M, U) /\ Below(A \cup M, O)
    BY <1>6, <1>7, <2>3, BelowParts
  <2>6. \A q \in Poll : poll'[q] # "reading"
    BY <1>4, <1>9
  <2> QED
    BY <1>6, <1>7, <1>8, <2>4, <2>5, <2>6 DEF InLine
<1>10. CASE ~ (PollAfter(b) = "answered" /\ IsArray(Body(b)))
  <2>1. answers' = answers /\ ToSet(answers') = A
    BY <1>1, <1>10 DEF A
  <2>2. \A q \in Poll : poll'[q] = "reading" => has'[q] = b
    BY <1>4
  <2> QED
    BY <1>6, <1>7, <1>8, <2>1, <2>2 DEF InLine
<1> QED
  BY <1>9, <1>10

\* a poll gives up or leaves, with what it has read.
LEMMA LineLeave ==
  ASSUME Base, InLine, NEW p \in Poll, PollEof(p) \/ Leave(p)
  PROVE  InLine'
<1>1. /\ UNCHANGED <<outbox, unserved, answers>> /\ s2c' \in {s2c, <<>>}
      /\ poll'[p] # "reading"
      /\ \A q \in Poll \ {p} : poll'[q] = poll[q] /\ has'[q] = has[q]
  <2>1. poll \in [Poll -> {"no", "blocked", "reading", "answered", "failed"}]
        /\ has \in [Poll -> Seq(Byte)]
    BY DEF Base, TypeOK
  <2> QED
    BY <2>1 DEF PollEof, Leave
<1> QED
  BY <1>1, NothingTold, BelowParts DEF InLine

\* Every step keeps the line.
LEMMA LineNext ==
  ASSUME Base, InOrder, [Next]_vars
  PROVE  InOrder'
<1> SUFFICES ASSUME "two polls" \notin causes'
             PROVE  InLine'
  BY DEF InOrder
<1>1. "two polls" \notin causes
  BY DEF Next, vars, Queue, ServeOpen, ServeBroken, ServeHeader, ServeText,
     ServeClose, PollOpen,
     PollRead, PollEof, PollLeave, PollDie
<1>2. InLine
  BY <1>1 DEF InOrder
<1>3. CASE Next
  BY <1>1, <1>2, <1>3, LineQueue, LineOpen, LineBroken, LineHeader, LineText, LineClose,
     LinePollOpen, LinePollRead, LineLeave, LeaveCauses DEF Next
<1>4. CASE UNCHANGED vars
  BY <1>2, <1>4 DEF vars, InLine
<1> QED
  BY <1>3, <1>4

-----------------------------------------------------------------------------
(* Nothing is lost unless there is a cause.                                *)

\* The answers, m and the outbox are the messages sent.
Lines(m) == answers \o m \o outbox = [k \in 1 .. queued |-> k]

\* Nothing is under way.
Quiet ==
  /\ serve \in {"no", "close"} /\ unserved = <<>> /\ s2c = <<>>
  /\ \A p \in Poll : poll[p] = "reading" => has[p] = <<>>
  /\ Lines(<<>>)

\* The messages m are under way to p: what p has, what the FIFO holds and what
\* the service has left make up the frame.
Carrying(p, m) ==
  /\ poll[p] = "reading"
  /\ Len(Array(m)) <= MaxFrame
  /\ IF serve = "header" THEN has[p] = <<>> /\ s2c = <<>> /\ unserved = Array(m)
                         ELSE has[p] \o s2c \o unserved = Frame(Array(m))
  /\ serve = "text" => unserved # <<>>
  /\ serve \in {"no", "close"} => unserved = <<>>
  /\ Lines(m)

\* Unless something goes wrong, it is one or the other.
Exact == causes = {} => Quiet \/ \E p \in Poll, m \in Seq(Msg) : Carrying(p, m)

\* The frame of an array is what a poll waits for, and gives the messages back.
LEMMA ArrayAnswers ==
  ASSUME NEW m \in Seq(Msg), Len(Array(m)) <= MaxFrame
  PROVE  LET b == Frame(Array(m))
         IN  /\ b \in Seq(Byte) /\ b # <<>> /\ Whole(b) /\ ~ Bad(b)
             /\ PollAfter(b) = "answered" /\ IsArray(Body(b)) /\ Messages(Body(b)) = m
<1> DEFINE text == Array(m)  b == Frame(text)  none == <<>>
<1>1. text \in Seq(Byte) /\ IsText(text) /\ IsArray(text) /\ Messages(text) = m
  BY ArrayBytes, ArrayIsText, ArrayTellsMessages
<1> HIDE DEF text
<1>2. b \in Seq(Byte) /\ none \in Seq(Byte) /\ Len(text) <= MaxFrame
  BY <1>1, FrameBytes DEF text
<1>3. b \o none = b
  <2> DEFINE S == Byte
  <2>1. b \in Seq(S)
    BY <1>2
  <2> HIDE DEF S, b
  <2> QED
    BY <2>1, ConcatEmptySeq
<1>4. Whole(b \o none) /\ Body(b \o none) = text
  BY <1>1, <1>2, FrameIsFound
<1> HIDE DEF b
<1>5. Whole(b) /\ Body(b) = text
  BY <1>3, <1>4
<1>6. ~ Bad(b)
  BY <1>1, <1>5 DEF Bad, Whole
<1>7. PollAfter(b) = "answered"
  BY <1>5, <1>6 DEF PollAfter
<1>8. b # <<>>
  BY <1>5, EmptyBytes
<1> QED
  BY <1>1, <1>2, <1>5, <1>6, <1>7, <1>8 DEF b, text

\* Who is being answered is the only poll.
LEMMA Alone ==
  ASSUME Base, causes = {}, NEW p \in Poll, NEW m, Carrying(p, m), NEW q \in Poll,
         poll[q] # "no"
  PROVE  q = p
BY DEF Base, Polls, Carrying, Attached

\* Nothing is under way at first.
LEMMA ExactInit ==
  ASSUME Init
  PROVE  Exact
<1>1. /\ serve = "no" /\ unserved = <<>> /\ s2c = <<>> /\ answers = <<>>
      /\ outbox = <<>>
      /\ queued = 0 /\ \A p \in Poll : has[p] = <<>>
  BY DEF Init
<1>2. <<>> \o <<>> \o <<>> = [k \in 1 .. 0 |-> k]
  OBVIOUS
<1> QED
  BY <1>1, <1>2 DEF Exact, Quiet, Lines

\* The engine sends: the outbox grows, what is under way stays.
LEMMA ExactQueue ==
  ASSUME Base, Queue, Exact, causes' = {}
  PROVE  Exact'
<1>1. /\ UNCHANGED <<serve, unserved, s2c, poll, has, answers, causes>> /\ serve = "no"
      /\ outbox' = Append(outbox, queued + 1) /\ queued' = queued + 1 /\ queued \in Nat
  BY Sizes DEF Queue
<1>2. ASSUME NEW m \in Seq(Nat), Lines(m)
      PROVE  Lines(m)'
  <2> DEFINE S == Nat  g == answers \o m  e == [k \in 1 .. queued |-> k]  n == queued + 1
  <2>1. answers \in Seq(S) /\ m \in Seq(S) /\ outbox \in Seq(S) /\ n \in S
    BY <1>1, <1>2, AnswersKnown
  <2>2. Append(e, n) = [k \in 1 .. n |-> k]
    <3>1. e \in Seq(S) /\ Len(e) = queued
      BY <1>1
    <3> DEFINE x == Append(e, n)
    <3>2. x \in Seq(S) /\ Len(x) = n /\ x[n] = n /\ \A k \in 1 .. queued : x[k] = k
      BY <1>1, <3>1
    <3> HIDE DEF x
    <3>3. x = [k \in 1 .. n |-> x[k]] /\ \A k \in 1 .. n : x[k] = k
      <4>1. \A k \in 1 .. n : k = n \/ k \in 1 .. queued
        BY <1>1
      <4> QED
        BY <3>2, <4>1
    <3> QED
      BY <3>3 DEF x
  <2>3. g \o outbox = e
    BY <1>2 DEF Lines
  <2> HIDE DEF S, n, e
  <2>4. g \in Seq(S)
    BY <2>1, ConcatProperties
  <2> HIDE DEF g
  <2>5. g \o Append(outbox, n) = Append(g \o outbox, n)
    BY <2>1, <2>4, AppendAfter
  <2> QED
    BY <1>1, <2>2, <2>3, <2>5 DEF Lines, n, g
<1>3. causes = {}
  BY <1>1
<1>4. CASE Quiet
  <2>1. <<>> \in Seq(Nat) /\ Lines(<<>>)
    BY <1>4 DEF Quiet
  <2>2. Lines(<<>>)'
    BY <1>2, <2>1
  <2> QED
    BY <1>1, <1>4, <2>2 DEF Exact, Quiet
<1>5. CASE \E p \in Poll, m \in Seq(Msg) : Carrying(p, m)
  <2>1. PICK p \in Poll, m \in Seq(Msg) : Carrying(p, m)
    BY <1>5
  <2>2. m \in Seq(Nat)
    <3> DEFINE S == Msg
    <3>1. m \in Seq(S) /\ S \subseteq Nat
      BY DEF Msg
    <3> HIDE DEF S
    <3> QED
      BY <3>1, SeqMonotonic
  <2>3. Lines(m)'
    BY <1>2, <2>1, <2>2 DEF Carrying
  <2>4. Carrying(p, m)'
    BY <1>1, <2>1, <2>3 DEF Carrying
  <2> QED
    BY <2>4 DEF Exact
<1> QED
  BY <1>3, <1>4, <1>5 DEF Exact

\* The service takes the outbox for the poll that waits.
LEMMA ExactOpen ==
  ASSUME Base, ServeOpen, Exact, causes' = {}
  PROVE  Exact'
<1>1. /\ causes = {} /\ Blocked # {} /\ serve = "no"
      /\ serve' = "header" /\ unserved' = Array(outbox) /\ ~ TooLong(Len(Array(outbox)))
      /\ outbox' = <<>> /\ UNCHANGED <<s2c, has, queued, answers>>
      /\ poll' = [p \in Poll |-> IF p \in Blocked THEN "reading" ELSE poll[p]]
  <2>1. \/ causes' = causes \cup {"too long"}
        \/ /\ serve' = "header" /\ unserved' = Array(outbox)
           /\ ~ TooLong(Len(Array(outbox)))
           /\ causes' = causes \cup (IF Attached # {} /\ Blocked = {} THEN {"nobody blocked"} ELSE {})
    BY Zenon DEF ServeOpen
  <2>2. /\ Attached # {} /\ outbox' = <<>> /\ serve = "no"
        /\ UNCHANGED <<s2c, has, queued, answers>>
        /\ poll' = [p \in Poll |-> IF p \in Blocked THEN "reading" ELSE poll[p]]
    BY DEF ServeOpen, Left, PollerIsThere
  <2> QED
    BY <2>1, <2>2
<1>2. PICK q \in Poll : poll[q] = "blocked"
  BY <1>1 DEF Blocked
<1>3. Quiet
  <2>1. ASSUME NEW p \in Poll, NEW m, Carrying(p, m)
        PROVE  FALSE
    <3>1. q = p
      BY <1>1, <1>2, <2>1, Alone
    <3> QED
      BY <1>2, <2>1, <3>1 DEF Carrying
  <2> QED
    BY <1>1, <2>1 DEF Exact
<1>4. has[q] = <<>> /\ poll'[q] = "reading"
  BY <1>1, <1>2 DEF Base, Polls, Blocked
<1>5. outbox \in Seq(Msg) /\ Len(Array(outbox)) <= MaxFrame
  <2>1. outbox \in Seq(Msg) /\ Len(Array(outbox)) \in Nat /\ MaxFrame \in Nat
    BY OutboxArray, MaxFrameAssumption
  <2> QED
    BY <1>1, <2>1 DEF TooLong
<1>6. answers \o outbox \o <<>> = answers \o <<>> \o outbox
  <2> DEFINE S == Nat
  <2>1. answers \in Seq(S) /\ outbox \in Seq(S)
    BY AnswersKnown
  <2> HIDE DEF S
  <2>2. answers \o outbox \in Seq(S)
    BY <2>1, ConcatProperties
  <2>3. (answers \o outbox) \o <<>> = answers \o outbox
    BY <2>2, ConcatEmptySeq
  <2>4. answers \o <<>> = answers
    BY <2>1, ConcatEmptySeq
  <2> QED
    BY <2>3, <2>4
<1>7. PICK m \in Seq(Msg) : m = outbox
  BY <1>5
<1>8. Lines(m)'
  BY <1>1, <1>3, <1>6, <1>7 DEF Lines, Quiet
<1>9. Carrying(q, m)'
  BY <1>1, <1>3, <1>4, <1>5, <1>7, <1>8 DEF Carrying, Quiet
<1> QED
  BY <1>9 DEF Exact

\* No reader is missed.
LEMMA ExactBroken ==
  ASSUME Base, ServeBroken, Exact, causes' = {}
  PROVE  Exact'
<1>1. causes = {} /\ serve \in {"header", "text"} /\ Attached = {}
  BY DEF ServeBroken
<1>2. ~ Quiet /\ \A p \in Poll, m \in Seq(Msg) : ~ Carrying(p, m)
  BY <1>1 DEF Quiet, Carrying, Attached
<1> QED
  BY <1>1, <1>2 DEF Exact

\* The header goes into the FIFO,
LEMMA ExactHeader ==
  ASSUME Base, ServeHeader, Exact, causes' = {}
  PROVE  Exact'
<1> DEFINE h == Header(Len(unserved))
<1>1. /\ h \in Seq(Byte) /\ s2c' = s2c \o h /\ serve = "header" /\ serve' = "text"
      /\ UNCHANGED <<outbox, unserved, poll, has, queued, answers, causes>>
  BY HeaderWritten
<1>2. PICK p \in Poll, m \in Seq(Msg) : Carrying(p, m)
  BY <1>1 DEF Exact, Quiet
<1>3. has[p] = <<>> /\ s2c = <<>> /\ unserved = Array(m)
  BY <1>1, <1>2 DEF Carrying
<1>4. unserved # <<>>
  BY <1>3, ArrayIsText
<1>5. has[p] \o s2c' \o unserved = Frame(Array(m))
  <2> HIDE DEF h
  <2>1. <<>> \o h = h
    BY <1>1
  <2>2. <<>> \o (<<>> \o h) = h
    BY <2>1
  <2> QED
    BY <1>1, <1>3, <2>2 DEF Frame, h
<1>6. Carrying(p, m)'
  BY <1>1, <1>2, <1>4, <1>5 DEF Carrying, Lines
<1> QED
  BY <1>6 DEF Exact

\* then the text, piece by piece,
LEMMA ExactText ==
  ASSUME Base, ServeText, Exact, causes' = {}
  PROVE  Exact'
<1>1. PICK t, v \in Seq(Byte) :
        /\ unserved = t \o v /\ s2c' = s2c \o t /\ unserved' = v
        /\ serve = "text" /\ serve' = (IF v = <<>> THEN "close" ELSE "text")
        /\ UNCHANGED <<outbox, poll, has, queued, answers, causes>>
  BY TextWritten
<1>2. PICK p \in Poll, m \in Seq(Msg) : Carrying(p, m)
  BY <1>1 DEF Exact, Quiet
<1>3. has[p] \o s2c \o unserved = Frame(Array(m))
  BY <1>1, <1>2 DEF Carrying
<1>4. has[p] \o s2c' \o unserved' = Frame(Array(m))
  <2> DEFINE S == Byte  g == has[p]
  <2>1. g \in Seq(S) /\ s2c \in Seq(S) /\ t \in Seq(S) /\ v \in Seq(S)
    BY Sizes DEF Base, TypeOK
  <2> HIDE DEF S, g
  <2>2. (g \o s2c) \o t = g \o (s2c \o t)
    BY <2>1, ConcatAssociative
  <2>3. g \o s2c \in Seq(S)
    BY <2>1, ConcatProperties
  <2>4. ((g \o s2c) \o t) \o v = (g \o s2c) \o (t \o v)
    BY <2>1, <2>3, ConcatAssociative
  <2> QED
    BY <1>1, <1>3, <2>2, <2>4 DEF g
<1>5. Carrying(p, m)'
  BY <1>1, <1>2, <1>4 DEF Carrying, Lines
<1> QED
  BY <1>5 DEF Exact

\* then the service closes, and the poll that reads keeps the bytes there.
LEMMA ExactClose ==
  ASSUME Base, ServeClose, Exact, causes' = {}
  PROVE  Exact'
<1>1. /\ UNCHANGED <<outbox, unserved, poll, has, queued, answers, causes>>
      /\ serve = "close" /\ serve' = "no" /\ s2c' = IF Attached = {} THEN <<>> ELSE s2c
  BY DEF ServeClose
<1>2. CASE Quiet
  BY <1>1, <1>2 DEF Exact, Quiet, Lines
<1>3. CASE \E p \in Poll, m \in Seq(Msg) : Carrying(p, m)
  <2>1. PICK p \in Poll, m \in Seq(Msg) : Carrying(p, m)
    BY <1>3
  <2>2. s2c' = s2c
    BY <1>1, <2>1 DEF Carrying, Attached
  <2>3. Carrying(p, m)'
    BY <1>1, <2>1, <2>2 DEF Carrying, Lines
  <2> QED
    BY <2>3 DEF Exact
<1> QED
  BY <1>1, <1>2, <1>3 DEF Exact

\* A poll comes only when no other is there: nothing is under way.
LEMMA ExactPollOpen ==
  ASSUME Base, NEW q \in Poll, PollOpen(q), Exact, causes' = {}
  PROVE  Exact'
<1>1. /\ UNCHANGED <<outbox, serve, unserved, s2c, has, queued, answers>>
      /\ causes = {} /\ Attached = {} /\ poll[q] = "no"
      /\ \A p \in Poll \ {q} : poll'[p] = poll[p]
  BY DEF PollOpen, Base, TypeOK
<1>2. \A p \in Poll, m \in Seq(Msg) : ~ Carrying(p, m)
  BY <1>1 DEF Carrying, Attached
<1>3. Quiet
  BY <1>1, <1>2 DEF Exact
<1>4. has[q] = <<>>
  BY <1>1 DEF Base, Polls
<1>5. Quiet'
  BY <1>1, <1>3, <1>4 DEF Quiet, Lines
<1> QED
  BY <1>5 DEF Exact

\* A poll reads: a piece, or the rest.
LEMMA ExactPollRead ==
  ASSUME Base, NEW q \in Poll, PollRead(q), Exact, causes' = {}
  PROVE  Exact'
<1> DEFINE b == Holds(q)  t == Take(s2c, Taken(q))  v == Remain(q)
<1>1. /\ poll[q] = "reading" /\ s2c # <<>>
      /\ has' = [has EXCEPT ![q] = b] /\ s2c' = v
      /\ poll' = [poll EXCEPT ![q] = PollAfter(b)]
      /\ answers' = IF PollAfter(b) = "answered" /\ IsArray(Body(b))
                      THEN answers \o Messages(Body(b)) ELSE answers
      /\ UNCHANGED <<outbox, serve, unserved, queued, causes>>
  BY ReadIs
<1>2. t \in Seq(Byte) /\ v \in Seq(Byte) /\ s2c = t \o v /\ b \in Seq(Byte)
  BY <1>1, ReadTakes
<1>3. b = has[q] \o t /\ has[q] \in Seq(Byte) /\ unserved \in Seq(Byte)
  BY DEF Holds, Base, TypeOK
<1>4. has'[q] = b /\ poll'[q] = PollAfter(b) /\ \A p \in Poll \ {q} : poll'[p] = poll[p]
  BY <1>1 DEF Base, TypeOK
<1> HIDE DEF b, t, v
<1>5. PICK p \in Poll, m \in Seq(Msg) : Carrying(p, m)
  BY <1>1 DEF Exact, Quiet
<1>6. p = q /\ \A r \in Poll \ {q} : poll[r] = "no"
  BY <1>1, <1>5, Alone
<1>7. /\ serve # "header" /\ has[q] \o s2c \o unserved = Frame(Array(m))
      /\ Len(Array(m)) <= MaxFrame
      /\ Lines(m)
  BY <1>1, <1>5, <1>6 DEF Carrying
<1>8. b \o (v \o unserved) = Frame(Array(m)) /\ b \o v \o unserved = Frame(Array(m))
      /\ v \o unserved \in Seq(Byte)
  <2> DEFINE S == Byte  h == has[q]  u == unserved
  <2>1. h \in Seq(S) /\ t \in Seq(S) /\ v \in Seq(S) /\ u \in Seq(S) /\ b \in Seq(S)
    BY <1>2, <1>3
  <2>2. h \o (t \o v) \o u = Frame(Array(m)) /\ b = h \o t
    BY <1>2, <1>3, <1>7
  <2> HIDE DEF S, h, u
  <2>3. (h \o t) \o v = h \o (t \o v)
    <3>1. h \in Seq(S) /\ t \in Seq(S) /\ v \in Seq(S)
      BY <2>1
    <3> QED
      BY <3>1, ConcatAssociative
  <2>4. (b \o v) \o u = b \o (v \o u)
    <3>1. b \in Seq(S) /\ v \in Seq(S) /\ u \in Seq(S)
      BY <2>1
    <3> QED
      BY <3>1, ConcatAssociative
  <2>5. v \o u \in Seq(S)
    BY <2>1, ConcatProperties
  <2> QED
    BY <2>2, <2>3, <2>4, <2>5 DEF S, u
<1>9. CASE v \o unserved = <<>>
  <2> DEFINE u == unserved  S == Byte
  <2>1. v = <<>> /\ u = <<>>
    <3>1. v \in Seq(S) /\ u \in Seq(S) /\ v \o u = <<>>
      BY <1>2, <1>3, <1>9
    <3> HIDE DEF S, u
    <3> QED
      BY <3>1, ConcatEqualIffEmpty
  <2>2. b = Frame(Array(m))
    <3>1. b \in Seq(S) /\ b \o <<>> = Frame(Array(m))
      BY <1>2, <1>8, <1>9
    <3> HIDE DEF S
    <3> QED
      BY <3>1, ConcatEmptySeq
  <2>3. PollAfter(b) = "answered" /\ IsArray(Body(b)) /\ Messages(Body(b)) = m
    BY <1>7, <2>2, ArrayAnswers
  <2>4. serve \in {"no", "close"}
    BY <1>5, <1>7, <2>1 DEF Carrying, Base, TypeOK
  <2>5. answers' = answers \o m
    BY <1>1, <2>3
  <2>6. Lines(<<>>)'
    <3> DEFINE N == Nat  M == Msg
    <3>1. answers \in Seq(N) /\ m \in Seq(M) /\ M \subseteq N
      BY AnswersKnown DEF Msg
    <3> HIDE DEF N, M
    <3>2. m \in Seq(N)
      BY <3>1, SeqMonotonic
    <3>3. (answers \o m) \in Seq(N)
      BY <3>1, <3>2, ConcatProperties
    <3>4. (answers \o m) \o <<>> = answers \o m
      BY <3>3, ConcatEmptySeq
    <3> QED
      BY <1>1, <1>7, <2>5, <3>4 DEF Lines
  <2>7. \A r \in Poll : poll'[r] # "reading"
    BY <1>4, <1>6, <2>3
  <2>8. Quiet'
    BY <1>1, <2>1, <2>4, <2>6, <2>7 DEF Quiet
  <2> QED
    BY <2>8 DEF Exact
<1>10. CASE v \o unserved # <<>>
  <2>1. ~ Whole(b) /\ ~ Bad(b)
    <3> DEFINE a == Array(m)  c == v \o unserved
    <3>1. a \in Seq(Byte) /\ Len(a) <= MaxFrame
      BY <1>7, ArrayBytes
    <3>2. c \in Seq(Byte) /\ c # <<>> /\ b \o c = Frame(a)
      BY <1>8, <1>10
    <3> HIDE DEF a, c
    <3> QED
      BY <1>2, <3>1, <3>2, PieceKept
  <2>2. PollAfter(b) = "reading"
    BY <2>1 DEF PollAfter
  <2>3. Carrying(q, m)'
    BY <1>1, <1>4, <1>5, <1>6, <1>7, <1>8, <2>2 DEF Carrying, Lines
  <2> QED
    BY <2>3 DEF Exact
<1> QED
  BY <1>9, <1>10

\* The poll being answered does not meet the end of the file: it would have
\* the whole frame by then.
LEMMA ExactPollEof ==
  ASSUME Base, NEW q \in Poll, PollEof(q), Exact, causes' = {}
  PROVE  Exact'
<1>1. /\ UNCHANGED <<outbox, serve, unserved, s2c, has, queued, answers, causes>>
      /\ poll[q] = "reading" /\ s2c = <<>> /\ serve = "no"
      /\ \A p \in Poll : poll'[p] = "reading" => poll[p] = "reading"
  BY DEF PollEof, Base, TypeOK
<1>2. ASSUME NEW p \in Poll, NEW m \in Seq(Msg), Carrying(p, m)
      PROVE  FALSE
  <2>1. p = q
    BY <1>1, <1>2, Alone
  <2>2. has[q] \o <<>> \o <<>> = Frame(Array(m)) /\ Len(Array(m)) <= MaxFrame
    BY <1>1, <1>2, <2>1 DEF Carrying
  <2>3. has[q] = Frame(Array(m))
    <3> DEFINE S == Byte  h == has[q]
    <3>1. h \in Seq(S) /\ h \o <<>> \o <<>> = Frame(Array(m))
      BY <2>2 DEF Base, TypeOK
    <3> HIDE DEF S, h
    <3>2. h \o <<>> = h
      BY <3>1, ConcatEmptySeq
    <3> QED
      BY <3>1, <3>2 DEF h
  <2>4. Whole(has[q])
    BY <2>2, <2>3, ArrayAnswers
  <2> QED
    BY <1>1, <2>4 DEF Base, Polls
<1>3. Quiet
  BY <1>1, <1>2 DEF Exact
<1>4. Quiet'
  BY <1>1, <1>3 DEF Quiet, Lines
<1> QED
  BY <1>4 DEF Exact

\* It does not leave before, either.
LEMMA ExactLeave ==
  ASSUME Base, NEW q \in Poll, PollLeave(q) \/ PollDie(q), Exact, causes' = {}
  PROVE  Exact'
<1>1. /\ UNCHANGED <<outbox, serve, unserved, queued, answers>>
      /\ causes = {} /\ poll[q] \in {"answered", "failed", "blocked"}
      /\ s2c' \in {s2c, <<>>} /\ poll'[q] = "no"
      /\ \A p \in Poll \ {q} : poll'[p] = poll[p] /\ has'[p] = has[p]
  BY DEF PollLeave, PollDie, Leave, Base, TypeOK
<1>2. ASSUME NEW p \in Poll, NEW m \in Seq(Msg), Carrying(p, m)
      PROVE  FALSE
  <2>1. p = q
    BY <1>1, <1>2, Alone
  <2> QED
    BY <1>1, <1>2, <2>1 DEF Carrying
<1>3. Quiet
  BY <1>1, <1>2 DEF Exact
<1>4. Quiet'
  BY <1>1, <1>3 DEF Quiet, Lines
<1> QED
  BY <1>4 DEF Exact

\* Every step keeps Exact.
LEMMA ExactNext ==
  ASSUME Base, Exact, [Next]_vars
  PROVE  Exact'
<1> SUFFICES ASSUME causes' = {}
             PROVE  Exact'
  BY DEF Exact
<1>1. CASE Next
  BY <1>1, ExactQueue, ExactOpen, ExactBroken, ExactHeader, ExactText, ExactClose,
     ExactPollOpen,
     ExactPollRead, ExactPollEof, ExactLeave DEF Next
<1>2. CASE UNCHANGED vars
  BY <1>2 DEF vars, Exact, Quiet, Carrying, Lines
<1> QED
  BY <1>1, <1>2

\* The inductive invariant.
Inv == Base /\ InOrder /\ Exact

\* It holds at first ...
LEMMA InvInit == Init => Inv
<1> SUFFICES ASSUME Init PROVE Inv
  OBVIOUS
<1>1. Base /\ InLine /\ Exact
  BY BaseInit, LineInit, ExactInit
<1> QED
  BY <1>1 DEF Inv, InOrder

\* ... and every step keeps it.
LEMMA InvNext == Inv /\ [Next]_vars => Inv'
<1> SUFFICES ASSUME Inv, [Next]_vars PROVE Inv'
  OBVIOUS
<1>1. Base /\ InOrder /\ Exact
  BY DEF Inv
<1>2. Base' /\ InOrder' /\ Exact'
  BY <1>1, BaseNext, LineNext, ExactNext
<1> QED
  BY <1>2 DEF Inv

\* The inductive invariant holds throughout.
THEOREM Invariance == Spec => []Inv
BY InvInit, InvNext, PTL DEF Spec

\* The types hold throughout: no FIFO holds more than its capacity, no poll
\* more than the largest frame, and no answer tells of what was not sent.
THEOREM TypeCorrect == Spec => []TypeOK
<1>1. Inv => TypeOK
  BY DEF Inv, Base
<1> QED
  BY <1>1, Invariance, PTL

\* In line, the answers are in order.
LEMMA OrderOfAnswers == Inv => AnswersInOrder
BY DEF Inv, InOrder, InLine, Increasing, AnswersInOrder

\* What try_serve_poll writes and run_poll reads comes in the order of sending
\* and once, whoever dies and however the bytes are cut, if only there is one
\* poll at a time.
THEOREM AnswersComeInOrder == Spec => []AnswersInOrder
BY OrderOfAnswers, Invariance, PTL

\* What InFlight finds is what is under way.
LEMMA InFlightIs ==
  ASSUME Base, causes = {}, NEW p \in Poll, NEW m \in Seq(Msg), Carrying(p, m)
  PROVE  InFlight = m
<1> DEFINE q == CHOOSE r \in Poll : poll[r] = "reading"
<1>1. poll[p] = "reading"
  BY DEF Carrying
<1>2. q \in Poll /\ poll[q] = "reading"
  BY <1>1
<1> HIDE DEF q
<1>3. q = p
  BY <1>2, Alone
<1>4. Coming(p) = Frame(Array(m)) /\ Len(Array(m)) <= MaxFrame
  <2>1. CASE serve = "header"
    <3> DEFINE f == Frame(Array(m))
    <3>1. Coming(p) = <<>> \o <<>> \o f
      BY <2>1 DEF Carrying, Coming
    <3>2. f \in Seq(Byte)
      BY ArrayAnswers DEF Carrying
    <3> HIDE DEF f
    <3>3. <<>> \o <<>> \o f = f
      BY <3>2
    <3> QED
      BY <3>1, <3>3 DEF Carrying, f
  <2>2. CASE serve # "header"
    BY <2>2 DEF Carrying, Coming
  <2> QED
    BY <2>1, <2>2
<1>5. Coming(p) # <<>> /\ Messages(Body(Coming(p))) = m
  BY <1>4, ArrayAnswers
<1>6. InFlight = Messages(Body(Coming(q)))
  BY <1>1, <1>5 DEF InFlight, q
<1> QED
  BY <1>3, <1>5, <1>6

\* With the invariant, no message is lost.
LEMMA ExactnessOfAnswers == Inv => OutboundExact
<1> SUFFICES ASSUME Inv, causes = {}
             PROVE  answers \o InFlight \o outbox = [k \in 1 .. queued |-> k]
  BY DEF OutboundExact
<1>1. Base /\ Exact
  BY DEF Inv
<1>2. CASE Quiet
  <2>1. \A p \in Poll : poll[p] = "reading" => Coming(p) = <<>>
    <3>1. <<>> \o <<>> \o <<>> = <<>>
      OBVIOUS
    <3> QED
      BY <1>2, <3>1 DEF Quiet, Coming
  <2>2. InFlight = <<>>
    BY <2>1 DEF InFlight
  <2> QED
    BY <1>2, <2>2 DEF Quiet, Lines
<1>3. CASE \E p \in Poll, m \in Seq(Msg) : Carrying(p, m)
  BY <1>1, <1>3, InFlightIs DEF Carrying, Lines
<1> QED
  BY <1>1, <1>2, <1>3 DEF Exact

\* Between the engine and the client no message is lost, repeated or put out
\* of order, unless one of the causes occurs.
THEOREM DeliversExactly == Spec => []OutboundExact
BY ExactnessOfAnswers, Invariance, PTL
=============================================================================
