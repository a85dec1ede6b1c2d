------------------------------ MODULE CgiProofs ------------------------------
(***************************************************************************)
(* Proofs about CgiServer, for all paths, trees, sizes of bodies, scripts  *)
(* and capacities of the pipes.                                            *)
(***************************************************************************)
EXTENDS CgiServer, ListFacts

-----------------------------------------------------------------------------
(* The status of a header block.                                           *)

\* The last number that status headers among s have: it decides.
Numbered(head, s) == {k \in s : head[k].text = "status" /\ head[k].code # Junk}
LastOf(head, s) ==
  LET code == head[Max(Numbered(head, s))].code
  IN  IF Numbered(head, s) = {} \/ code \notin 100 .. 999 THEN 200 ELSE code

\* Status makes it from what was before it and the last line.
LEMMA LastGoesOn ==
  ASSUME NEW n \in Nat, NEW head, NEW s \in SUBSET (1 .. n), s # {}
  PROVE  LastOf(head, s) = Status(LastOf(head, s \ {Max(s)}), head[Max(s)])
<1> DEFINE m == Max(s)  D == Numbered(head, s)  E == Numbered(head, s \ {m})
<1>1. m \in s /\ \A j \in s : j <= m
  BY Largest
<1> HIDE DEF m
<1>2. CASE m \in D
  <2>1. D \in SUBSET (1 .. n) /\ D # {}
    BY <1>2 DEF Numbered
  <2>2. Max(D) \in D /\ \A j \in D : j <= Max(D)
    BY <2>1, Largest
  <2>3. Max(D) = m
    <3>1. Max(D) \in s /\ Max(D) <= m /\ m <= Max(D)
      BY <1>1, <1>2, <2>2 DEF Numbered
    <3>3. \A x \in s : x \in Int
      OBVIOUS
    <3>2. Max(D) \in Int /\ m \in Int
      BY <1>1, <3>1, <3>3
    <3> HIDE DEF D
    <3> QED
      BY <3>1, <3>2
  <2>4. head[m].text = "status" /\ head[m].code # Junk
    BY <1>2 DEF Numbered
  <2>5. \A x : Status(x, head[m]) =
                 IF head[m].code \in 100 .. 999 THEN head[m].code ELSE 200
    BY <2>4 DEF Status
  <2>6. LastOf(head, s) = IF head[m].code \notin 100 .. 999 THEN 200 ELSE head[m].code
    BY <2>1, <2>3 DEF LastOf
  <2> QED
    BY <2>5, <2>6 DEF m
<1>3. CASE m \notin D
  <2>1. D = E
    BY <1>1, <1>3 DEF Numbered
  <2>2. LastOf(head, s) = LastOf(head, s \ {m})
    BY <2>1 DEF LastOf
  <2>3. head[m].text # "status" \/ head[m].code = Junk
    BY <1>1, <1>3 DEF Numbered
  <2>4. ASSUME NEW x
        PROVE  Status(x, head[m]) = x
    <3>1. CASE head[m].text # "status"
      BY <3>1 DEF Status
    <3>2. CASE head[m].text = "status" /\ head[m].code = Junk
      BY <3>2 DEF Status, Junk
    <3> QED
      BY <2>3, <3>1, <3>2
  <2> QED
    BY <2>2, <2>4 DEF m
<1> QED
  BY <1>2, <1>3

\* What the fold over a header block yields: 200, or the code of one of its
\* status lines, and one that HTTP has.  (The fold goes from set to set, so the
\* proof does.)
LEMMA StatusIs ==
  ASSUME NEW n \in Nat, NEW head, DOMAIN head = 1 .. n
  PROVE  LET v == FoldLeft(Status, 200, head)
         IN  v = 200 \/ \E k \in 1 .. n : /\ head[k].text = "status" /\ v = head[k].code
                                          /\ v \in 100 .. 999
<1> DEFINE S == SUBSET (1 .. n)
           Folds(f) == f = [s \in S |-> IF s = {} THEN 200
                                        ELSE LET x == Max(s)
                                             IN  Status(f[s \ {x}], head[x])]
           iter == CHOOSE f : Folds(f)
           v == FoldLeft(Status, 200, head)
<1>1. v = iter[1 .. n]
  BY Zenon DEF FoldLeft, MapThenFoldSet
<1> DEFINE g == [s \in S |-> LastOf(head, s)]
<1>2. Folds(g)
  <2>1. ASSUME NEW s \in S
        PROVE  g[s] = IF s = {} THEN 200
                      ELSE LET x == Max(s) IN Status(g[s \ {x}], head[x])
    <3>1. CASE s = {}
      <4>1. Numbered(head, s) = {}
        BY <3>1 DEF Numbered
      <4> QED
        BY <3>1, <4>1 DEF LastOf
    <3>2. CASE s # {}
      <4>1. s \ {Max(s)} \in S
        OBVIOUS
      <4>2. g[s] = LastOf(head, s) /\ g[s \ {Max(s)}] = LastOf(head, s \ {Max(s)})
        BY <4>1
      <4> HIDE DEF g
      <4> QED
        BY <3>2, <4>2, LastGoesOn
    <3> QED
      BY <3>1, <3>2
  <2>2. g = [s \in S |-> g[s]]
    OBVIOUS
  <2> HIDE DEF g, S
  <2> QED
    BY Zenon, <2>1, <2>2
<1> HIDE DEF g
<1>3. Folds(iter)
  BY Zenon, <1>2
<1> HIDE DEF iter, v
<1> DEFINE Good(x, k) == x = 200 \/ \E j \in 1 .. k : /\ head[j].text = "status"
                                                      /\ x = head[j].code
                                                      /\ x \in 100 .. 999
           T == {k \in Nat : k <= n => Good(iter[1 .. k], k)}
<1>4. 0 \in T
  <2>1. 1 .. 0 = {} /\ {} \in S
    OBVIOUS
  <2>2. iter[{}] = 200
    BY <1>3, <2>1
  <2> QED
    BY <2>1, <2>2
<1>5. ASSUME NEW k \in Nat, k \in T
      PROVE  k + 1 \in T
  <2> SUFFICES ASSUME k + 1 <= n
               PROVE  Good(iter[1 .. k + 1], k + 1)
    OBVIOUS
  <2> DEFINE s == 1 .. k + 1  x == iter[1 .. k]
  <2>1. s \in S /\ s # {} /\ k + 1 \in s
    <3>1. k + 1 \in s
      OBVIOUS
    <3>2. \A j \in s : j \in 1 .. n
      OBVIOUS
    <3> QED
      BY <3>1, <3>2
  <2>2. Max(s) = k + 1
    <3>1. Max(s) \in s /\ \A j \in s : j <= Max(s)
      BY <2>1, Largest
    <3> QED
      BY <2>1, <3>1
  <2>3. s \ {k + 1} = 1 .. k
    OBVIOUS
  <2>4. iter[s] = Status(x, head[k + 1])
    <3> HIDE DEF S, s
    <3> QED
      BY <1>3, <2>1, <2>2, <2>3
  <2>5. Good(x, k)
    BY <1>5
  <2>6. Good(x, k + 1)
    BY <2>5
  <2> DEFINE l == head[k + 1]
  <2>7. \/ Status(x, l) \in {x, 200}
        \/ /\ l.text = "status" /\ Status(x, l) = l.code
           /\ l.code \in 100 .. 999
    <3> HIDE DEF x, l
    <3>1. CASE l.text # "status"
      BY <3>1 DEF Status
    <3>2. CASE l.text = "status" /\ l.code = Junk
      BY <3>2 DEF Status
    <3>3. CASE l.text = "status" /\ l.code # Junk
      BY <3>3 DEF Status
    <3> QED
      BY <3>1, <3>2, <3>3
  <2>8. k + 1 \in 1 .. k + 1
    OBVIOUS
  <2> DEFINE y == Status(x, l)
  <2>9. Good(y, k + 1)
    <3> HIDE DEF x, y
    <3>1. CASE y = x
      BY <2>6, <3>1
    <3>2. CASE y = 200
      BY <3>2
    <3>3. CASE l.text = "status" /\ y = l.code /\ l.code \in 100 .. 999
      BY <2>8, <3>3
    <3> QED
      BY <2>7, <3>1, <3>2, <3>3 DEF y
  <2>10. iter[1 .. k + 1] = y
    BY <2>4
  <2> HIDE DEF y, Good
  <2> QED
    BY <2>9, <2>10
<1> HIDE DEF T
<1>6. \A k \in Nat : k \in T
  BY Zenon, <1>4, <1>5, SetInduction
<1>7. n \in T
  BY <1>6
<1>8. Good(iter[1 .. n], n)
  BY <1>7 DEF T
<1>9. v = 200 \/ \E k \in 1 .. n : /\ head[k].text = "status" /\ v = head[k].code
                                     /\ v \in 100 .. 999
  BY <1>1, <1>8
<1> QED
  BY Zenon, <1>9 DEF v

-----------------------------------------------------------------------------
(* What a script writes, and the answer made of it.                        *)

\* What scripts do that write lines of X.
Operations(X) == {In, Err} \cup {Out(l) : l \in X}

\* Only "out" writes.
LEMMA OperationIs ==
  ASSUME NEW X, NEW op \in Operations(X)
  PROVE  /\ op.do = "out" => op.line \in X /\ op # In /\ op # Err
         /\ op.do # "out" => op = In \/ op = Err
         /\ op # In /\ op # Err => op.do = "out"
<1>1. In.do = "in" /\ Err.do = "err"
  BY DEF In, Err
<1>2. CASE op = In \/ op = Err
  BY <1>1, <1>2
<1>3. ASSUME NEW l \in X, op = Out(l)
      PROVE  op.do = "out" /\ op.line \in X /\ op # In /\ op # Err
  BY <1>1, <1>3 DEF Out
<1> QED
  BY <1>2, <1>3 DEF Operations

\* What has been written, operation by operation.
LEMMA WrittenIs ==
  ASSUME NEW X, NEW p \in Seq(Operations(X))
  PROVE  /\ Written(p, 0) = <<>>
         /\ \A k \in 1 .. Len(p) :
              Written(p, k) = IF p[k].do = "out"
                              THEN Append(Written(p, k - 1), p[k].line)
                              ELSE Written(p, k - 1)
         /\ \A k \in 0 .. Len(p) : Written(p, k) \in Seq(X)
<1> DEFINE n == Len(p)  S == Seq(X)
           More(k, s) == IF p[k].do = "out" THEN Append(s, p[k].line) ELSE s
           Lists(f) == f = [k \in 0 .. n |-> IF k = 0 THEN <<>>
                                             ELSE IF p[k].do = "out"
                                             THEN Append(f[k - 1], p[k].line)
                                             ELSE f[k - 1]]
           lines == CHOOSE f : Lists(f)
           F == [k \in 1 .. n |-> [s \in S |-> More(k, s)]]
<1>1. \A k : Written(p, k) = lines[k]
  BY Zenon DEF Written
<1>2. n \in Nat /\ \A k \in 1 .. n : p[k] \in Operations(X)
  OBVIOUS
<1> HIDE DEF n
<1>3. ASSUME NEW k \in 1 .. n, NEW s \in S
      PROVE  More(k, s) \in S
  <2>1. CASE p[k].do = "out"
    <3> DEFINE x == p[k].line
    <3>1. x \in X
      BY <1>2, <2>1, OperationIs
    <3> HIDE DEF x
    <3>2. Append(s, x) \in S
      BY <3>1
    <3> QED
      BY <2>1, <3>2 DEF x
  <2> QED
    BY <2>1
<1>4. <<>> \in S
  OBVIOUS
<1> HIDE DEF S, More
<1>5. F \in [1 .. n -> [S -> S]]
  BY <1>3
<1>6. PICK f \in [0 .. n -> S] : f[0] = <<>> /\ \A k \in 1 .. n : f[k] = F[k][f[k - 1]]
  <2> DEFINE e == <<>>
  <2>1. e \in S /\ n \in Nat
    BY <1>2, <1>4
  <2> HIDE DEF F, e
  <2>2. \E f \in [0 .. n -> S] : f[0] = e /\ \A k \in 1 .. n : f[k] = F[k][f[k - 1]]
    BY <1>5, <2>1, Recursion
  <2> QED
    BY <2>2 DEF e
<1>7. \A k \in 1 .. n : k \in 0 .. n /\ k - 1 \in 0 .. n /\ k # 0
  BY <1>2
<1>8. \A k \in 1 .. n : f[k] = More(k, f[k - 1])
  BY <1>6, <1>7
<1>9. Lists(f)
  <2>1. \A k \in 0 .. n : k = 0 \/ k \in 1 .. n
    BY <1>2
  <2>2. \A k \in 0 .. n : f[k] = IF k = 0 THEN <<>>
                                 ELSE IF p[k].do = "out"
                                 THEN Append(f[k - 1], p[k].line)
                                 ELSE f[k - 1]
    BY <1>6, <1>8, <2>1 DEF More
  <2>3. f = [k \in 0 .. n |-> f[k]]
    BY <1>6
  <2> QED
    BY Zenon, <2>2, <2>3
<1>10. Lists(lines)
  BY Zenon, <1>9
<1> HIDE DEF lines
<1>11. 0 \in 0 .. n
  BY <1>2
<1>12. lines[0] = <<>>
  BY <1>10, <1>11
<1>13. \A k \in 1 .. n : lines[k] = More(k, lines[k - 1])
  BY <1>7, <1>10 DEF More
<1> DEFINE T == {k \in Nat : k <= n => lines[k] \in S}
<1>14. 0 \in T
  BY <1>4, <1>12
<1>15. ASSUME NEW k \in Nat, k \in T
       PROVE  k + 1 \in T
  <2> SUFFICES ASSUME k + 1 <= n
               PROVE  lines[k + 1] \in S
    OBVIOUS
  <2>1. k + 1 \in 1 .. n /\ (k + 1) - 1 = k /\ lines[k] \in S
    BY <1>2, <1>15
  <2>2. lines[k + 1] = More(k + 1, lines[k])
    BY <1>13, <2>1
  <2> QED
    BY <1>3, <2>1, <2>2
<1> HIDE DEF T
<1>16. \A k \in Nat : k \in T
  BY Zenon, <1>14, <1>15, SetInduction
<1>17. ASSUME NEW k \in 0 .. n
       PROVE  lines[k] \in S
  <2>1. k \in Nat /\ k <= n
    BY <1>2
  <2> QED
    BY <1>16, <2>1 DEF T
<1>18. /\ Written(p, 0) = <<>>
       /\ \A k \in 1 .. n : Written(p, k) = More(k, Written(p, k - 1))
       /\ \A k \in 0 .. n : Written(p, k) \in S
  BY <1>1, <1>12, <1>13, <1>17
<1> QED
  BY <1>18 DEF More, S, n

\* What is behind a header of k lines and its empty line, and whether it has a
\* line of a kind.
Rest(raw, k) == SubSeq(raw, k + 2, Len(raw))
Has(raw, k, text) == \E j \in 1 .. k : raw[j].text = text

\* Output with a header of k lines makes the answer a.
Makes(raw, k, a) ==
  /\ k \in 0 .. Len(raw)
  /\ k = 0 \/ Has(raw, k, "text") => a = Malformed
  /\ k # 0 /\ ~ Has(raw, k, "text") /\ Has(raw, k, "misnamed") => a = None
  /\ k # 0 /\ ~ Has(raw, k, "text") /\ ~ Has(raw, k, "misnamed") =>
       \E v : /\ a = [status |-> v, body |-> Rest(raw, k)]
              /\ v = 200 \/ \E j \in 1 .. k : /\ raw[j].text = "status"
                                              /\ v = raw[j].code
                                              /\ v \in 100 .. 999

\* The answer is a 500 without a header or with a line in it that is none, a
\* panic of the handler, or the rest of the output.  (build_response_from_cgi_output)
LEMMA BuildIs ==
  ASSUME NEW X, NEW raw \in Seq(X)
  PROVE  Makes(raw, HeaderLength(raw), Build(raw))
<1> DEFINE k == HeaderLength(raw)  a == Build(raw)  n == Len(raw)
           at == IF Ends(raw, "crlf") # {} THEN Ends(raw, "crlf") ELSE Ends(raw, "lf")
<1>1. n \in Nat
  OBVIOUS
<1>2. at \in SUBSET (1 .. n)
  <2>1. \A eol : Ends(raw, eol) \in SUBSET (1 .. n)
    <3> HIDE DEF n
    <3>1. 1 .. n - 1 \in SUBSET (1 .. n)
      BY <1>1
    <3> USE DEF n
    <3> QED
      BY <3>1 DEF Ends
  <2> QED
    BY <2>1
<1>3. k = IF at = {} THEN 0 ELSE CHOOSE j \in at : \A i \in at : j <= i
  BY Zenon DEF HeaderLength
<1> HIDE DEF at, n
<1>4. k \in 0 .. n
  <2>1. CASE at = {}
    BY <1>1, <1>3, <2>1
  <2>2. CASE at # {}
    <3>1. \E j \in at : \A i \in at : j <= i
      <4>1. at \in SUBSET Nat
        BY <1>1, <1>2
      <4> QED
        BY <2>2, <4>1, Least
    <3>2. k \in at
      BY Zenon, <1>3, <2>2, <3>1
    <3>3. \A j \in 1 .. n : j \in 0 .. n
      BY <1>1
    <3> QED
      BY <1>2, <3>2, <3>3
  <2> QED
    BY <2>1, <2>2
<1> DEFINE head == SubSeq(raw, 1, k)
<1> HIDE DEF k
<1>5. DOMAIN head = 1 .. k /\ \A j \in 1 .. k : head[j] = raw[j]
  BY <1>1, <1>4 DEF n
<1>6. k \in Nat
  BY <1>1, <1>4
<1> DEFINE v == FoldLeft(Status, 200, head)
           T == Has(raw, k, "text")  M == Has(raw, k, "misnamed")
<1>7. /\ Has(raw, k, "text") <=> \E j \in 1 .. k : head[j].text = "text"
      /\ Has(raw, k, "misnamed") <=> \E j \in 1 .. k : head[j].text = "misnamed"
  BY <1>5 DEF Has
<1>8. a = CASE k = 0 \/ (\E j \in 1 .. k : head[j].text = "text") -> Malformed
            [] k # 0 /\ ~ (\E j \in 1 .. k : head[j].text = "text")
                 /\ (\E j \in 1 .. k : head[j].text = "misnamed") -> None
            [] OTHER -> [status |-> v, body |-> Rest(raw, k)]
  BY Zenon DEF Build, Rest, k, n
<1>9. v = 200 \/ \E j \in 1 .. k : /\ head[j].text = "status" /\ v = head[j].code
                                   /\ v \in 100 .. 999
  <2> HIDE DEF head
  <2> QED
    BY <1>5, <1>6, StatusIs
<1> HIDE DEF head, v, a
<1>10. /\ k = 0 \/ T => a = Malformed
       /\ k # 0 /\ ~ T /\ M => a = None
       /\ k # 0 /\ ~ T /\ ~ M => a = [status |-> v, body |-> Rest(raw, k)]
  <2> HIDE DEF T, M
  <2>1. a = CASE k = 0 \/ T -> Malformed
              [] k # 0 /\ ~ T /\ M -> None
              [] OTHER -> [status |-> v, body |-> Rest(raw, k)]
    BY Zenon, <1>7, <1>8 DEF T, M
  <2>2. CASE k = 0 \/ T
    BY <2>1, <2>2
  <2>3. CASE k # 0 /\ ~ T /\ M
    BY <2>1, <2>3
  <2>4. CASE k # 0 /\ ~ T /\ ~ M
    BY <2>1, <2>4
  <2> QED
    BY <2>2, <2>3, <2>4
<1>11. v = 200 \/ \E j \in 1 .. k : /\ raw[j].text = "status" /\ v = raw[j].code
                                    /\ v \in 100 .. 999
  BY <1>5, <1>9
<1> QED
  BY <1>4, <1>10, <1>11 DEF Makes, k, a, n

\* What children write.
Writable == Line \cup {StatusLine(200, "lf"), Header("lf"), BlankLine("lf")}
                 \cup {Envelope(ok) : ok \in BOOLEAN}
Scripts == Seq(Operations(Writable))

\* The four lines of json_handler.
LEMMA HandlerWrites ==
  ASSUME NEW o
  PROVE  /\ JsonHandler(o) \in Seq(Writable) /\ Len(JsonHandler(o)) = 4
         /\ JsonHandler(o)[1] = StatusLine(200, "lf")
         /\ JsonHandler(o)[2] = Header("lf")
         /\ JsonHandler(o)[3] = BlankLine("lf")
         /\ JsonHandler(o)[4] = Envelope(o = "ok")
<1> DEFINE a == StatusLine(200, "lf")  b == Header("lf")  c == BlankLine("lf")
           d == Envelope(o = "ok")
<1>1. (o = "ok") \in BOOLEAN
  OBVIOUS
<1>2. a \in Writable /\ b \in Writable /\ c \in Writable /\ d \in Writable
  BY <1>1 DEF Writable
<1>3. JsonHandler(o) = <<a, b, c, d>>
  BY DEF JsonHandler
<1> HIDE DEF a, b, c, d
<1>4. <<a, b, c, d>> \in Seq(Writable)
  BY <1>2
<1> QED
  BY <1>3, <1>4 DEF a, b, c, d

\* The client program reads the body, then writes them.
LEMMA ClientIs ==
  ASSUME NEW n \in Nat, NEW o
  PROVE  /\ Client(n, o) \in Scripts /\ Len(Client(n, o)) = n + 4
         /\ \A k \in 1 .. n : Client(n, o)[k] = In
         /\ \A k \in 1 .. 4 : Client(n, o)[n + k] = Out(JsonHandler(o)[k])
<1> DEFINE l == JsonHandler(o)  a == [k \in 1 .. n |-> In]
           b == [k \in 1 .. Len(l) |-> Out(l[k])]  O == Operations(Writable)
<1>1. l \in Seq(Writable) /\ Len(l) = 4
  BY HandlerWrites
<1>2. Client(n, o) = a \o b
  <2>1. Client(n, o) = ReadThenWrite(n, l)
    BY DEF Client
  <2> HIDE DEF l
  <2> QED
    BY <2>1 DEF ReadThenWrite
<1> HIDE DEF l
<1>3. \A k \in 1 .. 4 : Out(l[k]) \in O
  <2> DEFINE X == Writable
  <2>1. l \in Seq(X) /\ Len(l) = 4
    BY <1>1
  <2> HIDE DEF X
  <2>2. \A k \in 1 .. 4 : l[k] \in X
    BY <2>1
  <2> QED
    BY <2>2 DEF Operations, X
<1>4. In \in O
  BY DEF Operations
<1> HIDE DEF O
<1>5. a \in Seq(O) /\ Len(a) = n /\ \A k \in 1 .. n : a[k] = In
  BY <1>4
<1>6. b \in Seq(O) /\ Len(b) = 4 /\ \A k \in 1 .. 4 : b[k] = Out(l[k])
  BY <1>1, <1>3
<1> HIDE DEF a, b
<1> DEFINE c == a \o b
<1>7. c \in Seq(O) /\ Len(c) = n + 4
      /\ \A k \in 1 .. n + 4 : c[k] = IF k <= n THEN a[k] ELSE b[k - n]
  <2>1. a \in Seq(O) /\ b \in Seq(O) /\ Len(a) = n /\ Len(b) = 4
    BY <1>5, <1>6
  <2>2. /\ c \in Seq(O) /\ Len(c) = Len(a) + Len(b)
        /\ \A k \in 1 .. Len(a) + Len(b) :
             c[k] = IF k <= Len(a) THEN a[k] ELSE b[k - Len(a)]
    BY Zenon, <2>1, ConcatProperties
  <2> QED
    BY <2>1, <2>2
<1> HIDE DEF c
<1>8. \A k \in 1 .. n : c[k] = a[k]
  BY <1>7
<1>9. \A k \in 1 .. 4 : c[n + k] = b[k]
  <2>1. ASSUME NEW k \in 1 .. 4
        PROVE  n + k \in 1 .. n + 4 /\ ~ (n + k <= n) /\ (n + k) - n = k
    OBVIOUS
  <2> QED
    BY <1>7, <2>1
<1> QED
  BY <1>2, <1>5, <1>6, <1>7, <1>8, <1>9 DEF O, l, c, Scripts

-----------------------------------------------------------------------------
(* The inductive invariant.                                                *)

\* The types.
Base ==
  /\ TypeOK
  /\ script \in Scripts /\ plan \in Scripts
  /\ output \in Seq(Writable) /\ stdout \in Seq(Writable)

\* What is left to write, what is in the pipe and what the child has read are
\* the body.  The writer that ends while the child runs leaves nothing: the part
\* that makes BodiesArriveWhole inductive.
Fed ==
  /\ handler = "new" => child = "none"
  /\ handler = "running" => child # "none"
  /\ child = "none" => /\ writer = "none" /\ left = 0 /\ stdin = 0 /\ took = 0
                       /\ script = <<>> /\ plan = <<>> /\ output = <<>> /\ stdout = <<>>
  /\ child # "none" => writer # "none" /\ left + stdin + took = size
  /\ writer = "ended" /\ child = "running" => left = 0
  /\ ~ early

\* How many operations the child has done.
Ran == Len(script) - Len(plan)

\* What is collected and what is in the pipe is what they write, in order.
Told ==
  /\ Ran \in Nat
  /\ plan = SubSeq(script, Ran + 1, Len(script))
  /\ output \o stdout = Written(script, Ran)

\* An answer is one of the server's own, or made of all of that.
Answered ==
  handler = "answered" =>
    \/ answer \in {NoScript, NotRun, NotWaitedFor}
    \/ child = "exited" /\ stdout = <<>> /\ answer = Build(output)

\* The path and the tree are those of the start.
Resolved == handler # "new" => found = ResolveCgiScript(path)

\* The inductive invariant.
Inv == Base /\ Fed /\ Told /\ Answered /\ Resolved

\* The counts are numbers.
LEMMA SizeIs ==
  ASSUME TypeOK
  PROVE  size \in Nat /\ left \in Nat /\ took \in Nat /\ stdin \in Nat /\ stderr \in Nat
         /\ Capacity \in Nat
BY CapacityAssumption DEF TypeOK

\* What the path names depends on the request only.
LEMMA Resolves ==
  ASSUME UNCHANGED <<tree, path>>
  PROVE  ResolveCgiScript(path)' = ResolveCgiScript(path)
<1>1. tree' = tree /\ path' = path
  OBVIOUS
<1>2. Splits(path)' = Splits(path)
  BY <1>1 DEF Splits
<1>3. \A x : FileOf(x)' = FileOf(x)
  BY <1>1 DEF FileOf
<1>4. NotFound' = NotFound
  BY DEF NotFound
<1> QED
  BY <1>1, <1>2, <1>3, <1>4 DEF ResolveCgiScript

\* The statuses of the server's own answers.
LEMMA StatusOfNone ==
  /\ None.status = 0 /\ NoScript.status = 404 /\ NotRun.status = 500
  /\ NotWaitedFor.status = 500 /\ Malformed.status = 500
BY DEF None, NoScript, NotRun, NotWaitedFor, Malformed, Says

\* The invariant holds at first ...
LEMMA Initially == Init => Inv
<1> SUFFICES ASSUME Init PROVE Inv
  OBVIOUS
<1> DEFINE O == Operations(Writable)
<1>1. size \in Nat /\ Capacity \in Nat
  BY CapacityAssumption DEF Init
<1>2. TypeOK
  <2>1. Len(<<>>) <= Capacity /\ 0 \in 0 .. Capacity /\ 0 \in 0 .. size
    BY <1>1
  <2>2. answer.status = 0
    BY StatusOfNone DEF Init
  <2>3. tree \in Tree /\ path \in Path /\ size \in Size
    BY DEF Init
  <2>4. /\ handler = "new" /\ child = "none" /\ writer = "none" /\ left = 0 /\ took = 0
        /\ stdin = 0 /\ stderr = 0 /\ early = FALSE /\ stdout = <<>>
    BY DEF Init
  <2> QED
    BY <2>1, <2>2, <2>3, <2>4 DEF TypeOK
<1>3. <<>> \in Seq(O) /\ <<>> \in Seq(Writable)
  OBVIOUS
<1>4. Base
  BY <1>2, <1>3 DEF Init, Base, Scripts
<1>5. Fed
  BY DEF Init, Fed
<1>6. Told
  <2>1. script = <<>> /\ plan = <<>> /\ output = <<>> /\ stdout = <<>>
    BY DEF Init
  <2>2. Ran = 0
    BY <2>1 DEF Ran
  <2>3. Written(script, 0) = <<>>
    BY <1>3, <2>1, WrittenIs
  <2> QED
    BY <2>1, <2>2, <2>3 DEF Told
<1> QED
  BY <1>4, <1>5, <1>6 DEF Init, Inv, Answered, Resolved

\* ... and every step keeps it.
LEMMA Onward ==
  ASSUME Inv, [Next]_vars
  PROVE  Inv'
<1> USE DEF Inv, request, pipes
<1>1. size \in Nat /\ left \in Nat /\ took \in Nat /\ stdin \in Nat /\ stderr \in Nat
      /\ Capacity \in Nat
  BY SizeIs DEF Base
<1>2. TypeOK
  BY DEF Base
<1>3. CASE CgiHandler
  <2>1. /\ handler = "new" /\ found' = ResolveCgiScript(path)
        /\ UNCHANGED <<request, pipes, output, took, early>>
    BY <1>3 DEF CgiHandler
  <2>2. child = "none" /\ writer = "none" /\ left = 0 /\ stdin = 0 /\ took = 0
        /\ script = <<>> /\ plan = <<>> /\ output = <<>> /\ stdout = <<>>
    BY <2>1 DEF Fed
  <2>3. Resolved'
    BY <2>1, Resolves DEF Resolved
  <2>4. CASE /\ answer' \in {NoScript, NotRun} /\ handler' = "answered"
             /\ UNCHANGED <<plan, script, child, writer, left>>
    <3>1. Base'
      BY <1>1, <1>2, <2>1, <2>4, StatusOfNone DEF Base, TypeOK
    <3>2. Fed'
      BY <2>1, <2>2, <2>4 DEF Fed
    <3>3. Told'
      BY <2>1, <2>4 DEF Told, Ran
    <3>4. Answered'
      BY <2>4 DEF Answered
    <3> QED
      BY <2>3, <3>1, <3>2, <3>3, <3>4
  <2>5. CASE /\ \E p \in Plan \cup {Client(size, o) : o \in Outcome} :
                  plan' = p /\ script' = p
             /\ child' = "running" /\ writer' = "writing" /\ left' = size
             /\ handler' = "running" /\ answer' = answer
    <3>1. PICK p \in Plan \cup {Client(size, o) : o \in Outcome} :
                 plan' = p /\ script' = p
      BY <2>5
    <3>2. p \in Scripts
      <4>1. Plan \subseteq Scripts
        <5>1. \A X, Y : X \subseteq Y => Seq(X) \subseteq Seq(Y)
          OBVIOUS
        <5>2. {In, Err} \cup {Out(l) : l \in Line} \subseteq Operations(Writable)
          BY DEF Operations, Writable
        <5> QED
          BY <5>1, <5>2, PlanAssumption DEF Scripts
      <4>2. \A o : Client(size, o) \in Scripts
        BY <1>1, ClientIs
      <4> QED
        BY <4>1, <4>2
    <3>3. Base'
      <4>1. left' \in 0 .. size'
        BY <1>1, <2>1, <2>5
      <4> QED
        BY <1>2, <2>1, <2>5, <3>1, <3>2, <4>1 DEF Base, TypeOK
    <3>4. Fed'
      BY <1>1, <2>1, <2>2, <2>5 DEF Fed
    <3>5. Told'
      <4> DEFINE O == Operations(Writable)
      <4>1. p \in Seq(O)
        BY <3>2 DEF Scripts
      <4>2. Written(p, 0) = <<>>
        BY <4>1, WrittenIs
      <4>3. Len(p) - Len(p) = 0 /\ SubSeq(p, 1, Len(p)) = p
        <5> HIDE DEF O
        <5> QED
          BY <4>1
      <4>4. Ran' = 0
        BY <3>1, <4>3 DEF Ran
      <4>5. output' = <<>> /\ stdout' = <<>> /\ script' = p /\ plan' = p
        BY <2>1, <2>2, <3>1
      <4> QED
        BY <4>2, <4>3, <4>4, <4>5 DEF Told
    <3>6. Answered'
      BY <2>5 DEF Answered
    <3> QED
      BY <2>3, <3>3, <3>4, <3>5, <3>6
  <2> QED
    BY Zenon, <1>3, <2>4, <2>5 DEF CgiHandler, Answer
<1>4. CASE Write
  <2>1. UNCHANGED <<request, handler, found, plan, child, stdout, stderr, output,
                 answer, script, took, early>> /\ writer = "writing"
    BY <1>4 DEF Write
  <2>2. Told' /\ Answered' /\ Resolved'
    BY <2>1, Resolves DEF Told, Ran, Answered, Resolved
  <2>3. CASE child = "running" /\ left > 0 /\ stdin < Capacity /\ stdin' = stdin + 1
             /\ left' = left - 1 /\ writer' = writer
    <3>1. left' \in 0 .. size /\ stdin' \in 0 .. Capacity
      BY <1>1, <1>2, <2>3 DEF TypeOK
    <3>2. Base'
      BY <1>2, <2>1, <2>3, <3>1 DEF Base, TypeOK
    <3>3. left' + stdin' + took = left + stdin + took
      BY <1>1, <2>3
    <3>4. Fed'
      BY <2>1, <2>3, <3>3 DEF Fed
    <3> QED
      BY <2>2, <3>2, <3>4
  <2>4. CASE /\ left = 0 \/ child = "exited"
             /\ writer' = "ended" /\ stdin' = stdin /\ left' = left
    <3>1. Base'
      BY <1>2, <2>1, <2>4 DEF Base, TypeOK
    <3>2. Fed'
      BY <2>1, <2>4 DEF Fed
    <3> QED
      BY <2>2, <3>1, <3>2
  <2> QED
    BY Zenon, <1>4, <2>3, <2>4 DEF Write
<1>5. CASE Collect
  <2>1. /\ UNCHANGED <<request, handler, found, plan, child, writer, left, stdin,
                       answer, script, took, early>>
        /\ handler = "running"
    BY <1>5 DEF Collect
  <2>2. Answered' /\ Resolved'
    BY <2>1, Resolves DEF Answered, Resolved
  <2>3. child # "none"
    BY <2>1 DEF Fed
  <2>4. Fed'
    BY <2>1, <2>3 DEF Fed
  <2>5. CASE /\ stdout # <<>> /\ output' = Append(output, Head(stdout))
             /\ stdout' = Tail(stdout) /\ stderr' = stderr
    <3> DEFINE S == Seq(Writable)  o == output  s == stdout
    <3>1. o \in S /\ s \in S
      BY DEF Base
    <3>2. Head(s) \in Writable /\ Tail(s) \in S /\ Append(o, Head(s)) \in S
          /\ Len(Tail(s)) = Len(s) - 1 /\ Len(s) \in Nat
      BY <2>5, <3>1
    <3>3. Append(o, Head(s)) \o Tail(s) = o \o s
      BY <2>5, <3>1
    <3>4. Len(stdout') <= Capacity
      BY <1>1, <1>2, <2>5, <3>2 DEF TypeOK
    <3>5. Base'
      BY <1>2, <2>1, <2>5, <3>2, <3>4 DEF Base, TypeOK
    <3>6. Told'
      BY <2>1, <2>5, <3>3 DEF Told, Ran
    <3> QED
      BY <2>2, <2>4, <3>5, <3>6
  <2>6. CASE stderr > 0 /\ stderr' = stderr - 1 /\ UNCHANGED <<stdout, output>>
    <3>1. stderr' \in 0 .. Capacity
      BY <1>1, <1>2, <2>6 DEF TypeOK
    <3>2. Base'
      BY <1>2, <2>1, <2>6, <3>1 DEF Base, TypeOK
    <3>3. Told'
      BY <2>1, <2>6 DEF Told, Ran
    <3> QED
      BY <2>2, <2>4, <3>2, <3>3
  <2> QED
    BY Zenon, <1>5, <2>5, <2>6 DEF Collect
<1>6. CASE Respond
  <2>1. /\ handler = "running" /\ child = "exited" /\ stdout = <<>> /\ writer = "ended"
        /\ handler' = "answered" /\ answer' = Build(output)
        /\ UNCHANGED <<request, found, plan, child, writer, left, pipes, output, script,
                       took, early>>
    BY <1>6 DEF Respond, Collected, Answer
  <2>2. Build(output).status \in {0} \cup 100 .. 999
    <3> DEFINE X == Writable
    <3>1. output \in Seq(X)
      BY DEF Base
    <3> DEFINE k == HeaderLength(output)  a == Build(output)
    <3>2. Makes(output, k, a)
      <4> HIDE DEF X
      <4> QED
        BY <3>1, BuildIs
    <3> HIDE DEF a, k
    <3>3. \/ a = Malformed \/ a = None
          \/ \E v : /\ a = [status |-> v, body |-> Rest(output, k)]
                    /\ v = 200 \/ v \in 100 .. 999
      BY <3>2 DEF Makes
    <3> QED
      BY <3>3, StatusOfNone DEF a
  <2>3. Base'
    BY <1>2, <2>1, <2>2 DEF Base, TypeOK
  <2>4. Fed' /\ Told' /\ Answered'
    BY <2>1 DEF Fed, Told, Ran, Answered
  <2>5. Resolved'
    BY <2>1, Resolves DEF Resolved
  <2> QED
    BY <2>3, <2>4, <2>5
<1>7. CASE WaitFails
  <2>1. /\ handler = "running" /\ handler' = "answered" /\ answer' = NotWaitedFor
        /\ UNCHANGED <<request, found, plan, child, writer, left, pipes, output, script,
                       took, early>>
    BY <1>7 DEF WaitFails, Answer
  <2>2. Base'
    BY <1>2, <2>1, StatusOfNone DEF Base, TypeOK
  <2>3. Fed' /\ Told' /\ Answered'
    BY <2>1 DEF Fed, Told, Ran, Answered
  <2>4. Resolved'
    BY <2>1, Resolves DEF Resolved
  <2> QED
    BY <2>2, <2>3, <2>4
<1>8. CASE Disconnect
  <2>1. /\ handler = "running" /\ handler' = "dropped"
        /\ UNCHANGED <<request, found, plan, child, writer, left, pipes, output, answer,
                       script, took, early>>
    BY <1>8 DEF Disconnect
  <2>2. Base'
    BY <1>2, <2>1 DEF Base, TypeOK
  <2>3. Fed' /\ Told' /\ Answered'
    BY <2>1 DEF Fed, Told, Ran, Answered
  <2>4. Resolved'
    BY <2>1, Resolves DEF Resolved
  <2> QED
    BY <2>2, <2>3, <2>4
<1>9. ASSUME plan # <<>>, child = "running", plan' = Tail(plan), script' = script,
             \/ plan[1] = In /\ UNCHANGED <<stdout, output>>
             \/ plan[1] = Err /\ UNCHANGED <<stdout, output>>
             \/ /\ plan[1].do = "out" /\ output' = output
                /\ stdout' = Append(stdout, plan[1].line)
      PROVE  plan' \in Scripts /\ stdout' \in Seq(Writable) /\ Told'
  <2> DEFINE O == Operations(Writable)  n == Len(script)  m == Ran
  <2>1. /\ script \in Seq(O) /\ plan \in Seq(O) /\ output \in Seq(Writable)
        /\ stdout \in Seq(Writable)
    BY DEF Base, Scripts
  <2>2. /\ m \in Nat /\ n \in Nat /\ plan = SubSeq(script, m + 1, n)
        /\ Len(plan) = n - m
        /\ output \o stdout = Written(script, m)
    BY <2>1 DEF Told, Ran
  <2>3. plan[1] \in O
    BY <1>9, <2>1
  <2>4. /\ \A k \in 1 .. n : Written(script, k) =
             IF script[k].do = "out" THEN Append(Written(script, k - 1), script[k].line)
             ELSE Written(script, k - 1)
    BY <2>1, WrittenIs
  <2>5. In.do # "out" /\ Err.do # "out"
    BY DEF In, Err
  <2>6. plan[1].do = "out" => plan[1].line \in Writable
    BY <2>3, OperationIs
  <2> HIDE DEF O, n, m
  <2>7. Len(plan) > 0 /\ Tail(plan) \in Seq(O) /\ Len(Tail(plan)) = Len(plan) - 1
    BY <1>9, <2>1
  <2>8. m + 1 \in 1 .. n
    BY <2>2, <2>7
  <2>9. plan[1] = script[m + 1] /\ Tail(plan) = SubSeq(script, m + 2, n)
    BY <2>1, <2>2, <2>8
  <2>10. Ran' = m + 1
    <3>1. Ran' = n - Len(Tail(plan))
      BY <1>9 DEF Ran, n
    <3> QED
      BY <2>2, <2>7, <3>1
  <2>11. /\ stdout' \in Seq(Writable)
         /\ output' \o stdout' = Written(script, m + 1)
    <3> DEFINE W == Written(script, m)
    <3>1. Written(script, m + 1) =
            IF plan[1].do = "out" THEN Append(W, plan[1].line) ELSE W
      <4>1. (m + 1) - 1 = m
        BY <2>2
      <4> QED
        BY <2>4, <2>8, <2>9, <4>1
    <3>2. CASE plan[1].do # "out" /\ UNCHANGED <<stdout, output>>
      BY <2>1, <2>2, <3>1, <3>2
    <3>3. CASE /\ plan[1].do = "out" /\ output' = output
               /\ stdout' = Append(stdout, plan[1].line)
      <4> DEFINE x == plan[1].line  S == Seq(Writable)
      <4>1. x \in Writable
        BY <2>6, <3>3
      <4> HIDE DEF x
      <4>2. output \o Append(stdout, x) = Append(output \o stdout, x)
        BY <2>1, <4>1, AppendAfter
      <4>3. Append(stdout, x) \in Seq(Writable)
        BY <2>1, <4>1
      <4> QED
        BY <2>2, <3>1, <3>3, <4>2, <4>3 DEF x
    <3> QED
      BY <1>9, <2>5, <3>2, <3>3
  <2>12. Told'
    <3>1. Ran' \in Nat /\ Ran' + 1 = m + 2
      BY <2>2, <2>10
    <3> QED
      BY <1>9, <2>9, <2>10, <2>11, <3>1 DEF Told, n
  <2> QED
    BY <1>9, <2>7, <2>11, <2>12 DEF Scripts, O
<1>10. CASE ChildReads
  <2>1. /\ child = "running" /\ plan # <<>> /\ Head(plan) = In /\ plan' = Tail(plan)
        /\ UNCHANGED <<request, handler, found, child, writer, left, stdout, stderr,
                 output, answer, script>>
    BY <1>10 DEF ChildReads
  <2>2. plan[1] = In
    BY <2>1 DEF Base, Scripts
  <2>3. plan' \in Scripts /\ stdout' \in Seq(Writable) /\ Told'
    BY <1>9, <2>1, <2>2
  <2>4. Answered' /\ Resolved'
    BY <2>1, Resolves DEF Answered, Resolved
  <2>5. left + stdin + took = size
    BY <2>1 DEF Fed
  <2>6. CASE stdin > 0 /\ stdin' = stdin - 1 /\ took' = took + 1 /\ early' = early
    <3>1. /\ stdin' \in 0 .. Capacity /\ took' \in 0 .. size
          /\ left + stdin' + took' = size
      BY <1>1, <1>2, <2>5, <2>6 DEF TypeOK
    <3>2. Base'
      BY <1>2, <2>1, <2>3, <2>6, <3>1 DEF Base, TypeOK
    <3>3. Fed'
      BY <2>1, <2>6, <3>1 DEF Fed
    <3> QED
      BY <2>3, <2>4, <3>2, <3>3
  <2>7. CASE stdin = 0 /\ writer = "ended" /\ early' = (early \/ took < size)
             /\ UNCHANGED <<stdin, took>>
    <3>1. left = 0
      BY <2>1, <2>7 DEF Fed
    <3>2. ~ (took < size)
      BY <1>1, <2>5, <2>7, <3>1
    <3>3. early' = FALSE
      BY <2>7, <3>2 DEF Fed
    <3>4. Base'
      BY <1>2, <2>1, <2>3, <2>7, <3>3 DEF Base, TypeOK
    <3>5. Fed'
      BY <2>1, <2>7, <3>3 DEF Fed
    <3> QED
      BY <2>3, <2>4, <3>4, <3>5
  <2> QED
    BY Zenon, <1>10, <2>6, <2>7 DEF ChildReads
<1>11. CASE ChildWrites
  <2>1. /\ child = "running" /\ plan # <<>> /\ Head(plan) # In /\ plan' = Tail(plan)
        /\ handler = "running"
        /\ UNCHANGED <<request, handler, found, child, writer, left, stdin,
                 output, answer, script, took, early>>
    BY <1>11 DEF ChildWrites
  <2>2. Head(plan) = plan[1] /\ plan[1] \in Operations(Writable)
    BY <2>1 DEF Base, Scripts
  <2>3. Answered' /\ Resolved'
    BY <2>1, Resolves DEF Answered, Resolved
  <2>4. Fed'
    BY <2>1 DEF Fed
  <2>5. CASE /\ Head(plan) = Err /\ stderr < Capacity
             /\ stderr' = stderr + 1 /\ stdout' = stdout
    <3>1. stderr' \in 0 .. Capacity
      BY <1>1, <2>5
    <3>2. plan' \in Scripts /\ Told'
      BY <1>9, <2>1, <2>2, <2>5
    <3>3. Base'
      BY <1>2, <2>1, <2>5, <3>1, <3>2 DEF Base, TypeOK
    <3> QED
      BY <2>3, <2>4, <3>2, <3>3
  <2>6. CASE /\ Head(plan) # Err /\ Len(stdout) < Capacity /\ stderr' = stderr
             /\ stdout' = Append(stdout, Head(plan).line)
    <3>1. plan[1].do = "out"
      BY <2>1, <2>2, <2>6, OperationIs
    <3>2. plan' \in Scripts /\ stdout' \in Seq(Writable) /\ Told'
      BY <1>9, <2>1, <2>2, <2>6, <3>1
    <3>3. Len(stdout') <= Capacity
      <4> DEFINE x == plan[1].line  s == stdout
      <4>1. s \in Seq(Writable)
        BY DEF Base
      <4> HIDE DEF x, s
      <4>2. Len(Append(s, x)) = Len(s) + 1 /\ Len(s) \in Nat
        BY <4>1
      <4>3. stdout' = Append(s, x) /\ Len(s) < Capacity
        BY <2>2, <2>6 DEF x, s
      <4> QED
        BY <1>1, <4>2, <4>3
    <3>4. Base'
      BY <1>2, <2>1, <2>6, <3>2, <3>3 DEF Base, TypeOK
    <3> QED
      BY <2>3, <2>4, <3>2, <3>4
  <2> QED
    BY Zenon, <1>11, <2>5, <2>6 DEF ChildWrites
<1>12. CASE ChildExits
  <2>1. /\ child = "running" /\ child' = "exited"
        /\ UNCHANGED <<request, handler, found, plan, writer, left, pipes, output,
                       answer, script, took, early>>
    BY <1>12 DEF ChildExits
  <2>2. Base'
    BY <1>2, <2>1 DEF Base, TypeOK
  <2>3. Fed' /\ Told' /\ Answered'
    BY <2>1 DEF Fed, Told, Ran, Answered
  <2>4. Resolved'
    BY <2>1, Resolves DEF Resolved
  <2> QED
    BY <2>2, <2>3, <2>4
<1>13. CASE UNCHANGED vars
  <2>1. UNCHANGED <<tree, path>>
    BY <1>13 DEF vars
  <2>2. Base'
    BY <1>2, <1>13 DEF vars, Base, TypeOK
  <2>4. Fed' /\ Told' /\ Answered'
    BY <1>13 DEF vars, Fed, Told, Ran, Answered
  <2>3. Resolved'
    BY <1>13, <2>1, Resolves DEF vars, Resolved
  <2> QED
    BY <2>2, <2>3, <2>4
<1>14. Done => UNCHANGED vars
  BY DEF Done
<1> QED
  BY <1>3, <1>4, <1>5, <1>6, <1>7, <1>8, <1>10, <1>11, <1>12, <1>13, <1>14 DEF Next

-----------------------------------------------------------------------------
(* Finding the script.                                                     *)

\* A prefix, as resolve_cgi_script splits.
LEMMA PrefixIs ==
  ASSUME NEW S, NEW p \in Seq(S), NEW q \in Seq(S), q # <<>>
  PROVE  IsPrefix(q, p) <=> Len(q) \in 1 .. Len(p) /\ q = SubSeq(p, 1, Len(q))
<1>1. Len(q) \in Nat /\ Len(q) # 0 /\ Len(p) \in Nat
  OBVIOUS
<1>2. SubSeq(q, 1, Len(q)) = q
  OBVIOUS
<1> QED
  BY <1>1, <1>2 DEF IsPrefix

\* Of the files with a name there is one whose extension is tried first.
LEMMA FileIs ==
  ASSUME NEW name, TypeOK, \E f \in tree : f.name = name
  PROVE  FileOf(name) \in tree /\ FileOf(name).name = name
<1> DEFINE rank(f) == CHOOSE e \in 1 .. Len(Extensions) : Extensions[e] = f.ext
           files == {f \in tree : f.name = name}
           R == {rank(f) : f \in files}
<1>1. ASSUME NEW f \in files
      PROVE  rank(f) \in Nat
  <2>1. f.ext \in ToSet(Extensions)
    BY PathAssumption DEF TypeOK
  <2>2. \E e \in 1 .. Len(Extensions) : Extensions[e] = f.ext
    <3>1. DOMAIN Extensions = 1 .. Len(Extensions)
      BY DEF Extensions
    <3> QED
      BY <2>1, <3>1 DEF ToSet
  <2>3. rank(f) \in 1 .. Len(Extensions)
    BY Zenon, <2>2
  <2>4. 1 .. Len(Extensions) \subseteq Nat
    BY DEF Extensions
  <2> QED
    BY Zenon, <2>3, <2>4
<1>2. files # {}
  OBVIOUS
<1> HIDE DEF files, rank
<1>3. R \in SUBSET Nat /\ R # {}
  BY <1>1, <1>2
<1>4. PICK e \in R : \A d \in R : e <= d
  <2> HIDE DEF R
  <2> QED
    BY <1>3, Least
<1>5. \E f \in files : \A g \in files : rank(f) <= rank(g)
  BY <1>4
<1>6. FileOf(name) = CHOOSE f \in files : \A g \in files : rank(f) <= rank(g)
  BY Zenon DEF FileOf, files, rank
<1>7. FileOf(name) \in files
  <2> DEFINE Best(f) == \A g \in files : rank(f) <= rank(g)
  <2>1. \E f \in files : Best(f)
    BY Zenon, <1>5
  <2>2. FileOf(name) = CHOOSE f \in files : Best(f)
    BY Zenon, <1>6
  <2> HIDE DEF Best
  <2> QED
    BY Zenon, <2>1, <2>2
<1> QED
  BY <1>7 DEF files

\* So what is found is named by the longest prefix.
LEMMA FoundIs ==
  ASSUME TypeOK, Resolved
  PROVE  ResolutionIsFaithful
<1> SUFFICES ASSUME handler # "new"
             PROVE  IF found = NotFound THEN \A f \in tree : ~ IsPrefix(f.name, path)
                    ELSE /\ found.name \o found.info = path
                         /\ found.file \in tree /\ found.file.name = found.name
                         /\ \A f \in tree : IsPrefix(f.name, path) =>
                              Len(f.name) <= Len(found.name)
  BY DEF ResolutionIsFaithful
<1>1. found = ResolveCgiScript(path)
  BY DEF Resolved
<1> DEFINE S == Splits(path)  n == Len(path)
<1>2. path \in Seq(Segment) /\ n \in Nat
  BY PathAssumption DEF TypeOK
<1>3. ASSUME NEW f \in tree
      PROVE  IsPrefix(f.name, path) <=>
               Len(f.name) \in S /\ f.name = SubSeq(path, 1, Len(f.name))
  <2>1. f.name \in Seq(Segment) /\ f.name # <<>>
    BY PathAssumption DEF TypeOK
  <2> DEFINE q == f.name
  <2> HIDE DEF q
  <2>2. IsPrefix(q, path) <=> Len(q) \in 1 .. n /\ q = SubSeq(path, 1, Len(q))
    BY <1>2, <2>1, PrefixIs DEF q
  <2>3. Len(q) \in S <=>
          Len(q) \in 1 .. n /\ \E g \in tree : g.name = SubSeq(path, 1, Len(q))
    BY DEF Splits
  <2> QED
    BY <2>2, <2>3 DEF q
<1>4. S \in SUBSET (1 .. n) /\ \A k \in S : \E f \in tree : f.name = SubSeq(path, 1, k)
  BY DEF Splits
<1>5. CASE S = {}
  <2>1. found = NotFound
    BY <1>1, <1>5 DEF ResolveCgiScript
  <2> QED
    BY <1>3, <1>5, <2>1
<1>6. CASE S # {}
  <2> DEFINE k == CHOOSE k \in S : \A j \in S : j <= k
  <2>1. found = [file |-> FileOf(SubSeq(path, 1, k)), name |-> SubSeq(path, 1, k),
                 info |-> SubSeq(path, k + 1, Len(path))]
    BY Zenon, <1>1, <1>6 DEF ResolveCgiScript
  <2>2. k \in S /\ \A j \in S : j <= k
    <3>1. \E x \in S : \A j \in S : j <= x
      <4> HIDE DEF S
      <4> QED
        BY <1>2, <1>4, <1>6, Largest
    <3> QED
      BY Zenon, <3>1
  <2> HIDE DEF k, S
  <2> DEFINE a == SubSeq(path, 1, k)  b == SubSeq(path, k + 1, n)
  <2>3. k \in 1 .. n
    BY <1>4, <2>2
  <2>4. Len(a) = k /\ a \o b = path /\ a # <<>>
    <3>1. a \in Seq(Segment) /\ Len(a) = k
      BY <1>2, <2>3
    <3>2. a \o b = path
      BY <1>2, <2>3
    <3> QED
      BY <2>3, <3>1, <3>2
  <2>5. FileOf(a) \in tree /\ FileOf(a).name = a
    BY <1>4, <2>2, FileIs
  <2> HIDE DEF a, b
  <2>6. found.name = a /\ found.info = b /\ found.file = FileOf(a)
    BY <2>1 DEF a, b, n
  <2>7. found # NotFound
    BY <2>4, <2>6 DEF NotFound
  <2>8. \A f \in tree : IsPrefix(f.name, path) => Len(f.name) <= Len(found.name)
    BY <1>3, <2>2, <2>4, <2>6
  <2> QED
    BY <2>4, <2>5, <2>6, <2>7, <2>8
<1> QED
  BY <1>5, <1>6

-----------------------------------------------------------------------------
(* The answer.                                                             *)

\* Of numbers and their predecessors.
LEMMA LeastBefore ==
  ASSUME NEW B \in SUBSET Nat, NEW E, E = {k - 1 : k \in B},
         NEW e \in E, \A j \in E : e <= j,
         NEW b \in B, \A j \in B : b <= j
  PROVE  e = b - 1
<1>1. b - 1 \in E
  OBVIOUS
<1>2. PICK k \in B : e = k - 1
  OBVIOUS
<1>3. e <= b - 1 /\ b <= k /\ b \in Nat /\ k \in Nat
  BY <1>1
<1> QED
  BY <1>2, <1>3

\* In output that ends all lines alike the header ends at the first empty line
\* but for one in front of all others.
LEMMA HeaderEnds ==
  ASSUME NEW raw \in Seq(Writable), NEW eol \in {"lf", "crlf"},
         \A k \in 1 .. Len(raw) : raw[k].eol = eol
  PROVE  LET blank == {k \in 2 .. Len(raw) : raw[k].text = "blank"}
         IN  HeaderLength(raw) =
               IF blank = {} THEN 0
               ELSE (CHOOSE k \in blank : \A j \in blank : k <= j) - 1
<1> DEFINE n == Len(raw)
           blank == {k \in 2 .. n : raw[k].text = "blank"}
           before == {k - 1 : k \in blank}
<1>1. n \in Nat
  OBVIOUS
<1> HIDE DEF n
<1>2. Ends(raw, eol) = before
  <2>1. ASSUME NEW k \in Ends(raw, eol)
        PROVE  k \in before
    <3>1. k \in 1 .. n - 1 /\ raw[k + 1].text = "blank"
      BY DEF Ends, n
    <3>2. k + 1 \in 2 .. n /\ (k + 1) - 1 = k
      BY <1>1, <3>1
    <3> QED
      BY <3>1, <3>2
  <2>2. ASSUME NEW k \in blank
        PROVE  k - 1 \in Ends(raw, eol)
    <3>1. /\ k - 1 \in 1 .. n - 1 /\ k - 1 \in 1 .. n /\ k \in 1 .. n
          /\ (k - 1) + 1 = k /\ raw[k].text = "blank"
      BY <1>1
    <3>2. raw[k].eol = eol /\ raw[k - 1].eol = eol
      BY <3>1 DEF n
    <3> QED
      BY <3>1, <3>2 DEF Ends, n
  <2> QED
    BY <2>1, <2>2
<1>3. ASSUME NEW other, other # eol
      PROVE  Ends(raw, other) = {}
  <2> SUFFICES ASSUME NEW k \in Ends(raw, other) PROVE FALSE
    OBVIOUS
  <2>1. k \in 1 .. n - 1 /\ raw[k + 1].eol = other
    BY DEF Ends, n
  <2>2. k + 1 \in 1 .. n
    BY <1>1, <2>1
  <2> QED
    BY <1>3, <2>1, <2>2 DEF n
<1> DEFINE at == IF Ends(raw, "crlf") # {} THEN Ends(raw, "crlf") ELSE Ends(raw, "lf")
<1>4. at = before
  <2>1. CASE eol = "crlf"
    <3>1. "lf" # eol
      BY <2>1
    <3>2. Ends(raw, "lf") = {} /\ Ends(raw, "crlf") = before
      BY <1>2, <1>3, <2>1, <3>1
    <3> HIDE DEF before
    <3> QED
      BY <3>2
  <2>2. CASE eol = "lf"
    <3>1. "crlf" # eol
      BY <2>2
    <3>2. Ends(raw, "crlf") = {} /\ Ends(raw, "lf") = before
      BY <1>2, <1>3, <2>2, <3>1
    <3> HIDE DEF before
    <3> QED
      BY <3>2
  <2> QED
    BY <2>1, <2>2
<1>5. HeaderLength(raw) = IF at = {} THEN 0 ELSE CHOOSE k \in at : \A j \in at : k <= j
  BY Zenon DEF HeaderLength
<1>6. /\ blank \in SUBSET (Nat \ {0, 1})
      /\ before = {} <=> blank = {}
  <2>1. \A k \in 2 .. n : k \in Nat \ {0, 1}
    BY <1>1
  <2> QED
    BY <2>1
<1> HIDE DEF at, blank
<1>7. HeaderLength(raw) = IF blank = {} THEN 0
                          ELSE (CHOOSE k \in blank : \A j \in blank : k <= j) - 1
  <2>1. CASE blank = {}
    BY <1>4, <1>5, <1>6, <2>1
  <2>2. CASE blank # {}
    <3> DEFINE e == CHOOSE k \in at : \A j \in at : k <= j
               b == CHOOSE k \in blank : \A j \in blank : k <= j
    <3>1. e = b - 1
      <4>1. at = {k - 1 : k \in blank} /\ at # {}
        BY <1>4, <1>6, <2>2
      <4> HIDE DEF before
      <4>2. blank \in SUBSET Nat /\ at \in SUBSET Nat
        <5>1. \A k \in blank : k \in Nat /\ k - 1 \in Nat
          BY <1>6
        <5> QED
          BY <4>1, <5>1
      <4>3. e \in at /\ \A j \in at : e <= j
        <5>1. \E k \in at : \A j \in at : k <= j
          BY <4>1, <4>2, Least
        <5> QED
          BY Zenon, <5>1
      <4>4. b \in blank /\ \A j \in blank : b <= j
        <5>1. \E k \in blank : \A j \in blank : k <= j
          BY <2>2, <4>2, Least
        <5> QED
          BY Zenon, <5>1
      <4> HIDE DEF e, b
      <4> QED
        BY <4>1, <4>2, <4>3, <4>4, LeastBefore
    <3>2. at # {}
      BY <1>4, <1>6, <2>2
    <3>3. HeaderLength(raw) = e
      BY Zenon, <1>5, <3>2
    <3> HIDE DEF e, b
    <3>4. HeaderLength(raw) = b - 1
      BY <3>1, <3>3
    <3> QED
      BY Zenon, <2>2, <3>4 DEF b
  <2> QED
    BY <2>1, <2>2
<1> QED
  BY Zenon, <1>7 DEF blank, n

\* All lines end in one of two ways.
LEMMA EveryLineEnds ==
  \A l \in Writable : l.eol \in {"lf", "crlf"}
BY LineAssumption DEF Writable, StatusLine, Header, BlankLine, Envelope

\* The answer to a script that came to its end is made of all that it writes.
LEMMA AfterTheEnd ==
  ASSUME Base, Told, Answered, RanThrough
  PROVE  Lines \in Seq(Writable) /\ answer = Build(Lines)
<1>1. answer = Build(output) /\ stdout = <<>> /\ plan = <<>>
  BY DEF Answered, RanThrough
<1> DEFINE O == Operations(Writable)
<1>2. script \in Seq(O) /\ output \in Seq(Writable)
  BY DEF Base, Scripts
<1> HIDE DEF O
<1>3. Ran = Len(script)
  BY <1>1, <1>2 DEF Ran
<1>4. output \o <<>> = output
  BY <1>2
<1>5. Lines = output
  BY <1>1, <1>3, <1>4 DEF Lines, Told
<1> QED
  BY <1>1, <1>2, <1>5

\* So it is exact ...
LEMMA AnswerIs ==
  ASSUME Base, Told, Answered
  PROVE  AnswersAreExact
<1> DEFINE L == Lines  h == HeadLength
           head == {L[k] : k \in 1 .. h}
           codes == {l.code : l \in {l \in head : l.text = "status"}}
           Exactly(a) == IF head = {} \/ \E l \in head : l.text = "text"
                         THEN a = Malformed
                         ELSE \/ /\ a.body = SubSeq(L, h + 2, Len(L))
                                 /\ a.status \in (codes \cap 100 .. 999) \cup {200}
                              \/ a = None /\ \E l \in head : l.text = "misnamed"
<1> SUFFICES ASSUME RanThrough, OneEol
             PROVE  Exactly(answer)
  BY Zenon DEF AnswersAreExact
<1>1. L \in Seq(Writable) /\ answer = Build(L)
  BY AfterTheEnd
<1>2. PICK eol \in {"lf", "crlf"} : \A k \in 1 .. Len(L) : L[k].eol = eol
  <2>1. \A k \in 1 .. Len(L) : L[k].eol \in {"lf", "crlf"}
    <3>1. \A k \in 1 .. Len(L) : L[k] \in Writable
      <4> HIDE DEF L
      <4> QED
        BY <1>1
    <3> QED
      BY <3>1, EveryLineEnds
  <2>2. \A j, k \in 1 .. Len(L) : L[j].eol = L[k].eol
    BY Zenon DEF OneEol
  <2> HIDE DEF L
  <2>3. CASE 1 .. Len(L) = {}
    BY <2>3
  <2>4. ASSUME NEW j \in 1 .. Len(L)
        PROVE  \E eol \in {"lf", "crlf"} : \A k \in 1 .. Len(L) : L[k].eol = eol
    BY <2>1, <2>2
  <2> QED
    BY <2>3, <2>4
<1>3. h = HeaderLength(L)
  <2> DEFINE blank == {k \in 2 .. Len(L) : L[k].text = "blank"}
             x == IF blank = {} THEN 0
                  ELSE (CHOOSE k \in blank : \A j \in blank : k <= j) - 1
  <2>1. h = x
    BY Zenon DEF HeadLength
  <2> HIDE DEF L, h
  <2>2. HeaderLength(L) = x
    BY <1>1, <1>2, HeaderEnds
  <2> QED
    BY Zenon, <2>1, <2>2
<1> HIDE DEF L, h
<1> DEFINE a == Build(L)
<1>4. Makes(L, h, a)
  <2> DEFINE W == Writable
  <2>1. L \in Seq(W)
    BY <1>1
  <2> HIDE DEF W
  <2> QED
    BY <1>3, <2>1, BuildIs
<1>5. h \in Nat
  BY <1>1, <1>4 DEF Makes
<1>6. head = {} <=> h = 0
  <2>1. CASE h = 0
    <3>1. 1 .. 0 = {}
      OBVIOUS
    <3> QED
      BY <2>1, <3>1
  <2>2. CASE h # 0
    <3>1. 1 \in 1 .. h
      BY <1>5, <2>2
    <3> QED
      BY <2>2, <3>1
  <2> QED
    BY <2>1, <2>2
<1>7. \A t : Has(L, h, t) <=> \E l \in head : l.text = t
  BY DEF Has
<1> HIDE DEF a
<1>8. Exactly(a)
  <2>1. CASE head = {} \/ \E l \in head : l.text = "text"
    BY <1>4, <1>6, <1>7, <2>1 DEF Makes
  <2>2. CASE ~ (head = {} \/ \E l \in head : l.text = "text")
    <3>1. h # 0 /\ ~ Has(L, h, "text")
      BY <1>6, <1>7, <2>2
    <3>2. CASE Has(L, h, "misnamed")
      BY <1>4, <1>7, <2>2, <3>1, <3>2 DEF Makes
    <3>3. CASE ~ Has(L, h, "misnamed")
      <4>1. PICK v : /\ a = [status |-> v, body |-> Rest(L, h)]
                     /\ v = 200 \/ \E j \in 1 .. h : /\ L[j].text = "status"
                                                     /\ v = L[j].code
                                                     /\ v \in 100 .. 999
        BY <1>4, <3>1, <3>3 DEF Makes
      <4>2. a.body = SubSeq(L, h + 2, Len(L)) /\ a.status = v
        BY <4>1 DEF Rest
      <4>3. v \in (codes \cap 100 .. 999) \cup {200}
        BY <4>1
      <4> QED
        BY <2>2, <4>2, <4>3
    <3> QED
      BY <3>2, <3>3
  <2> QED
    BY <2>1, <2>2
<1>9. answer = a
  BY <1>1 DEF a
<1> QED
  BY <1>8, <1>9

\* The client writes what json_handler answers ...
LEMMA ClientWrites ==
  ASSUME NEW n \in Nat, NEW o
  PROVE  Written(Client(n, o), Len(Client(n, o))) = JsonHandler(o)
<1> DEFINE c == Client(n, o)  l == JsonHandler(o)  O == Operations(Writable)
<1>1. /\ c \in Seq(O) /\ Len(c) = n + 4
      /\ \A k \in 1 .. n : c[k] = In
      /\ \A k \in 1 .. 4 : c[n + k] = Out(l[k])
  BY ClientIs DEF Scripts
<1>2. l = <<l[1], l[2], l[3], l[4]>>
  BY DEF JsonHandler
<1> HIDE DEF c, l
<1>3. /\ Written(c, 0) = <<>>
      /\ \A k \in 1 .. n + 4 :
           Written(c, k) = IF c[k].do = "out" THEN Append(Written(c, k - 1), c[k].line)
                           ELSE Written(c, k - 1)
  BY <1>1, WrittenIs
<1> HIDE DEF O
<1>4. In.do # "out" /\ \A x : Out(x).do = "out" /\ Out(x).line = x
  BY DEF In, Out
<1> DEFINE T == {k \in Nat : k <= n => Written(c, k) = <<>>}
<1>5. \A k \in Nat : k \in T
  <2>1. 0 \in T
    BY <1>3
  <2>2. ASSUME NEW k \in Nat, k \in T
        PROVE  k + 1 \in T
    <3> SUFFICES ASSUME k + 1 <= n PROVE Written(c, k + 1) = <<>>
      OBVIOUS
    <3>1. k + 1 \in 1 .. n /\ k + 1 \in 1 .. n + 4 /\ (k + 1) - 1 = k
      OBVIOUS
    <3>2. Written(c, k) = <<>>
      BY <2>2, <3>1
    <3>3. c[k + 1].do # "out"
      BY <1>1, <1>4, <3>1
    <3> QED
      BY <1>3, <3>1, <3>2, <3>3
  <2> HIDE DEF T
  <2> QED
    BY Zenon, <2>1, <2>2, SetInduction
<1>6. Written(c, n) = <<>>
  BY <1>5
<1>7. ASSUME NEW k \in 1 .. 4
      PROVE  Written(c, n + k) = Append(Written(c, n + k - 1), l[k])
  <2>1. n + k \in 1 .. n + 4
    OBVIOUS
  <2>2. c[n + k] = Out(l[k])
    BY <1>1
  <2>3. c[n + k].do = "out" /\ c[n + k].line = l[k]
    BY <2>2 DEF Out
  <2> DEFINE m == n + k
  <2>4. m \in 1 .. n + 4
    BY <2>1
  <2> HIDE DEF m
  <2>5. Written(c, m) = IF c[m].do = "out" THEN Append(Written(c, m - 1), c[m].line)
                        ELSE Written(c, m - 1)
    BY <1>3, <2>4
  <2>6. c[m].do = "out" /\ c[m].line = l[k]
    BY <2>3 DEF m
  <2>7. Written(c, m) = Append(Written(c, m - 1), l[k])
    BY <2>5, <2>6
  <2> QED
    BY <2>7 DEF m
<1>8. n + 1 - 1 = n /\ n + 2 - 1 = n + 1 /\ n + 3 - 1 = n + 2 /\ n + 4 - 1 = n + 3
  OBVIOUS
<1>9. /\ Written(c, n + 1) = Append(Written(c, n), l[1])
      /\ Written(c, n + 2) = Append(Written(c, n + 1), l[2])
      /\ Written(c, n + 3) = Append(Written(c, n + 2), l[3])
      /\ Written(c, n + 4) = Append(Written(c, n + 3), l[4])
  <2>1. 1 \in 1 .. 4 /\ 2 \in 1 .. 4 /\ 3 \in 1 .. 4 /\ 4 \in 1 .. 4
    OBVIOUS
  <2> QED
    BY Zenon, <1>7, <1>8, <2>1
<1>10. l \in Seq(Writable) /\ Len(l) = 4
  BY HandlerWrites DEF l
<1>12. Written(c, n + 4) = <<l[1], l[2], l[3], l[4]>>
  <2> DEFINE X == Writable  w == l[1]  x == l[2]  y == l[3]  z == l[4]
             s == Written(c, n + 1)  t == Written(c, n + 2)  u == Written(c, n + 3)
             v == Written(c, n + 4)
  <2>1. w \in X /\ x \in X /\ y \in X /\ z \in X
    <3>1. l \in Seq(X) /\ Len(l) = 4
      BY <1>10
    <3> HIDE DEF X, s, t, u, v
    <3>2. \A k \in 1 .. 4 : l[k] \in X
      BY <3>1
    <3>3. 1 \in 1 .. 4 /\ 2 \in 1 .. 4 /\ 3 \in 1 .. 4 /\ 4 \in 1 .. 4
      OBVIOUS
    <3> QED
      BY Zenon, <3>2, <3>3
  <2>2. s = Append(<<>>, w) /\ t = Append(s, x) /\ u = Append(t, y) /\ v = Append(u, z)
    BY <1>6, <1>9
  <2> HIDE DEF X, w, x, y, z, s, t, u, v
  <2>3. s \in Seq(X) /\ Len(s) = 1 /\ s[1] = w
    BY <2>1, <2>2
  <2>4. t \in Seq(X) /\ Len(t) = 2 /\ t[1] = w /\ t[2] = x
    BY <2>1, <2>2, <2>3
  <2>5. u \in Seq(X) /\ Len(u) = 3 /\ u[1] = w /\ u[2] = x /\ u[3] = y
    BY <2>1, <2>2, <2>4
  <2>6. v \in Seq(X) /\ Len(v) = 4 /\ v[1] = w /\ v[2] = x /\ v[3] = y /\ v[4] = z
    BY <2>1, <2>2, <2>5
  <2>7. v = <<w, x, y, z>>
    BY <2>6
  <2> QED
    BY <2>7 DEF w, x, y, z, v
<1> QED
  BY <1>1, <1>2, <1>12 DEF c, l

\* ... and the answer says so.
LEMMA AnswerOfClient ==
  ASSUME Base, Told, Answered
  PROVE  FailuresShowInTheBody
<1> SUFFICES ASSUME NEW o \in Outcome, RanThrough, script = Client(size, o)
             PROVE  answer = [status |-> 200, body |-> <<Envelope(o = "ok")>>]
  BY DEF FailuresShowInTheBody
<1> DEFINE l == JsonHandler(o)
<1>1. answer = Build(l)
  <2>1. size \in Nat
    BY SizeIs DEF Base
  <2>2. Lines = l
    BY <2>1, ClientWrites DEF Lines
  <2> QED
    BY <2>2, AfterTheEnd
<1>2. /\ l \in Seq(Writable) /\ Len(l) = 4
      /\ l[1] = StatusLine(200, "lf") /\ l[2] = Header("lf")
      /\ l[3] = BlankLine("lf") /\ l[4] = Envelope(o = "ok")
  BY HandlerWrites
<1>3. /\ l[1].text = "status" /\ l[1].code = 200 /\ l[1].eol = "lf"
      /\ l[2].text = "header" /\ l[2].eol = "lf"
      /\ l[3].text = "blank" /\ l[3].eol = "lf"
      /\ l[4].text = "text" /\ l[4].eol = "lf"
  BY <1>2 DEF StatusLine, Header, BlankLine, Envelope
<1> HIDE DEF l
<1>4. HeaderLength(l) = 2
  <2> DEFINE blank == {k \in 2 .. Len(l) : l[k].text = "blank"}
  <2>1. blank = {3}
    BY <1>2, <1>3
  <2>2. \A k \in 1 .. Len(l) : l[k].eol = "lf"
    BY <1>2, <1>3
  <2>3. HeaderLength(l) = IF blank = {} THEN 0
                          ELSE (CHOOSE k \in blank : \A j \in blank : k <= j) - 1
    BY <1>2, <2>2, HeaderEnds
  <2> HIDE DEF blank
  <2>4. (CHOOSE k \in blank : \A j \in blank : k <= j) = 3
    BY <2>1
  <2> QED
    BY <2>1, <2>3, <2>4
<1>5. ~ Has(l, 2, "text") /\ ~ Has(l, 2, "misnamed")
  BY <1>3 DEF Has
<1>6. PICK v : /\ Build(l) = [status |-> v, body |-> Rest(l, 2)]
               /\ v = 200 \/ \E j \in 1 .. 2 : /\ l[j].text = "status" /\ v = l[j].code
                                               /\ v \in 100 .. 999
  <2> DEFINE W == Writable
  <2>1. l \in Seq(W)
    BY <1>2
  <2> HIDE DEF W
  <2> QED
    <3>1. Makes(l, HeaderLength(l), Build(l))
      BY <2>1, BuildIs
    <3>2. Makes(l, 2, Build(l))
      BY <1>4, <3>1
    <3> QED
      BY <1>5, <3>2 DEF Makes
<1>7. v = 200
  BY <1>3, <1>6
<1>8. Rest(l, 2) = <<l[4]>>
  <2> DEFINE x == l[4]  r == SubSeq(l, 4, 4)
  <2>1. r \in Seq(Writable) /\ Len(r) = 1 /\ r[1] = x
    <3> DEFINE X == Writable
    <3>1. l \in Seq(X) /\ 4 \in 1 .. Len(l)
      BY <1>2
    <3> HIDE DEF X
    <3>2. r \in Seq(X) /\ Len(r) = 1 /\ r[1] = l[4]
      BY <3>1
    <3> QED
      BY <3>2 DEF X
  <2>2. r = <<x>>
    <3> HIDE DEF r, x
    <3> QED
      BY <2>1
  <2> QED
    BY <1>2, <2>2 DEF Rest
<1> QED
  BY <1>1, <1>2, <1>6, <1>7, <1>8

-----------------------------------------------------------------------------
(* What follows.                                                           *)

\* The inductive invariant holds throughout.
THEOREM Invariance == Spec => []Inv
<1>1. Init => Inv
  BY Initially
<1>2. Inv /\ [Next]_vars => Inv'
  BY Onward
<1> QED
  BY <1>1, <1>2, PTL DEF Spec

\* The types hold throughout, whatever the paths, trees, bodies and scripts.
THEOREM TypeCorrect == Spec => []TypeOK
<1>1. Inv => TypeOK
  BY DEF Inv, Base
<1> QED
  BY <1>1, Invariance, PTL

\* No child sees the end of its input before the whole body: not if the client
\* hangs up either, since the writer task outlives the handler.
THEOREM BodyIsWhole == Spec => []BodiesArriveWhole
<1>1. Inv => BodiesArriveWhole
  BY DEF Inv, Fed, BodiesArriveWhole
<1> QED
  BY <1>1, Invariance, PTL

\* handle_cgi_request runs the file that the longest part of the path names,
\* and SCRIPT_NAME and PATH_INFO together are the path.
THEOREM ScriptIsFound == Spec => []ResolutionIsFaithful
<1>1. Inv => ResolutionIsFaithful
  BY FoundIs DEF Inv, Base
<1> QED
  BY <1>1, Invariance, PTL

\* The answer to a script that came to its end has all of its output behind the
\* header, and a status the script declared; or it is a 500, if a line of the
\* header is none.
THEOREM AnswerIsExact == Spec => []AnswersAreExact
<1>1. Inv => AnswersAreExact
  BY AnswerIs DEF Inv
<1> QED
  BY <1>1, Invariance, PTL

\* Whatever becomes of a request in the client program, the answer to it is a
\* 200 whose body says so.
THEOREM FailureShows == Spec => []FailuresShowInTheBody
<1>1. Inv => FailuresShowInTheBody
  BY AnswerOfClient DEF Inv
<1> QED
  BY <1>1, Invariance, PTL
=============================================================================
