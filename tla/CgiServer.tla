------------------------------ MODULE CgiServer ------------------------------
(***************************************************************************)
(* One request to the development HTTP server: it finds the program that   *)
(* the path names, runs it as a CGI child, feeds it the body, collects     *)
(* what it writes and makes that the answer.  The body is a count of       *)
(* units; the pipes to and from the child are bounded.                     *)
(*                                                                         *)
(* The child's output is a sequence of lines [text, eol]: a "header", a    *)
(* "status" header (with its code), one with a name HTTP does not have     *)
(* ("misnamed"), a "blank" line, or "text", which has no colon.  "eol" is  *)
(* "lf" or "crlf".                                                         *)
(***************************************************************************)
EXTENDS Integers, Sequences, FiniteSets, SequencesExt

CONSTANTS
  Segment,     \* parts of paths
  Path,        \* paths requests name: sequences of segments
  Tree,        \* what cgi-bin may hold: a set of sets of [name, ext]
  Size,        \* sizes of bodies
  Line,        \* lines scripts write
  Plan,        \* what scripts do: sequences of operations (see below)
  Capacity     \* how much a pipe holds

ASSUME CapacityAssumption == Capacity \in Nat \ {0} /\ Size \subseteq Nat

VARIABLES
  tree,        \* the files under cgi-bin
  path, size,  \* the request
  handler,     \* "new", "running", "answered", or "dropped" with the client
  found,       \* what resolve_cgi_script returned
  plan,        \* what the child has yet to do
  child,       \* "none", "running", "exited"
  writer,      \* the task that feeds the body: "none", "writing", "ended"
  left,        \* how much of the body it has yet to write
  stdin,       \* how much is in the child's standard input
  stdout,      \* lines in the child's standard output
  stderr,      \* how much is in its standard error
  output,      \* the lines the handler has collected
  answer,      \* the answer, once there is one
  script,      \* history: the plan the child was started with
  took,        \* history: how much of the body the child has read
  early        \* history: the child saw its input end before the body did

request == <<tree, path, size>>
pipes == <<stdin, stdout, stderr>>
vars == <<request, handler, found, plan, child, writer, left, pipes, output,
          answer, script, took, early>>

-----------------------------------------------------------------------------
(* Finding the script.                                                     *)

Extensions == <<"", ".exe", ".cmd", ".bat", ".com">>

\* Every file has a name.  (One whose extension is none of these is never
\* looked for: it is left out of the trees.)
ASSUME PathAssumption ==
  /\ Path \subseteq Seq(Segment)
  /\ \A files \in Tree : \A f \in files :
       f.name \in Seq(Segment) \ {<<>>} /\ f.ext \in ToSet(Extensions)

NotFound == [file |-> FALSE, name |-> <<>>, info |-> <<>>]

\* The lengths of the prefixes of p that name a file with some extension.
\* (A name that leads out of cgi-bin names no file of the tree.)
Splits(p) ==
  {k \in 1 .. Len(p) : \E f \in tree : f.name = SubSeq(p, 1, k)}

\* Of the files with one name the one whose extension is tried first.
FileOf(name) ==
  LET rank(f) == CHOOSE e \in 1 .. Len(Extensions) : Extensions[e] = f.ext
      files == {f \in tree : f.name = name}
  IN  CHOOSE f \in files : \A g \in files : rank(f) <= rank(g)

\* A defect to compare with: the shortest prefix that names a file is taken.
ResolveShortest(p) ==
  IF Splits(p) = {} THEN NotFound
  ELSE LET k == CHOOSE k \in Splits(p) : \A j \in Splits(p) : k <= j
       IN  [file |-> FileOf(SubSeq(p, 1, k)), name |-> SubSeq(p, 1, k),
            info |-> SubSeq(p, k + 1, Len(p))]

\* The longest prefix of the path that names a file; the rest is PATH_INFO.
ResolveCgiScript(p) ==
  IF Splits(p) = {} THEN NotFound
  ELSE LET k == CHOOSE k \in Splits(p) : \A j \in Splits(p) : j <= k
       IN  [file |-> FileOf(SubSeq(p, 1, k)), name |-> SubSeq(p, 1, k),
            info |-> SubSeq(p, k + 1, Len(p))]

-----------------------------------------------------------------------------
(* The answer made of a child's output.                                    *)

Says(status, what) == [status |-> status, body |-> <<[error |-> what]>>]
NoScript == Says(404, "no matching CGI script")
NotRun == Says(500, "failed to run CGI script")
NotWaitedFor == Says(500, "CGI script execution failed")
Malformed == Says(500, "malformed CGI output")
None == Says(0, "none")  \* also after a panic of the handler

\* The header block ends at the first empty line after a CRLF that ends in
\* one itself, wherever it is; without any, at the first that ends in LF.
Ends(raw, eol) ==
  {k \in 1 .. Len(raw) - 1 :
     /\ raw[k + 1].text = "blank" /\ raw[k + 1].eol = eol
     /\ eol = "crlf" => raw[k].eol = "crlf"}

HeaderLength(raw) ==
  LET at == IF Ends(raw, "crlf") # {} THEN Ends(raw, "crlf")
            ELSE Ends(raw, "lf")
  IN  IF at = {} THEN 0 ELSE CHOOSE k \in at : \A j \in at : k <= j

\* A defect to compare with: any number is a status.
StatusUnchecked(sofar, line) == IF line.text = "status" THEN line.code ELSE sofar

\* A number that is no status code counts as 200 ("Junk" here is no number
\* and changes nothing).
Junk == 0 - 1
Status(sofar, line) ==
  CASE line.text # "status" -> sofar
    [] line.text = "status" /\ line.code = Junk -> sofar
    [] line.text = "status" /\ line.code \in 100 .. 999 -> line.code
    [] OTHER -> 200

\* A defect to compare with: lines that are no headers are skipped.
BuildLenient(raw) ==
  LET k == HeaderLength(raw)
      head == SubSeq(raw, 1, k)
  IN  IF k = 0 THEN Malformed
      ELSE [status |-> FoldLeft(Status, 200, head),
            body |-> SubSeq(raw, k + 2, Len(raw))]

Build(raw) ==
  LET k == HeaderLength(raw)
      head == SubSeq(raw, 1, k)
      Has(text) == \E j \in 1 .. k : head[j].text = text
  IN  CASE k = 0 \/ Has("text") -> Malformed
        [] k # 0 /\ ~ Has("text") /\ Has("misnamed") -> None
        [] OTHER -> [status |-> FoldLeft(Status, 200, head),
                     body |-> SubSeq(raw, k + 2, Len(raw))]

-----------------------------------------------------------------------------
(* What a child does: "in" reads a unit of the body, "err" writes one to   *)
(* standard error, "out" writes a line to standard output.                 *)

In == [do |-> "in"]
Err == [do |-> "err"]
Out(line) == [do |-> "out", line |-> line]

ASSUME LineAssumption == \A l \in Line : l.eol \in {"lf", "crlf"}
ASSUME PlanAssumption == Plan \subseteq Seq({In, Err} \cup {Out(l) : l \in Line})

Header(eol) == [text |-> "header", eol |-> eol]
StatusLine(code, eol) == [text |-> "status", eol |-> eol, code |-> code]
BlankLine(eol) == [text |-> "blank", eol |-> eol]

Envelope(ok) == [text |-> "text", eol |-> "lf", ok |-> ok]

\* A defect to compare with: a panic is not caught.
JsonHandlerUnguarded(outcome) ==
  IF outcome = "panic" THEN <<>>
  ELSE <<StatusLine(200, "lf"), Header("lf"), BlankLine("lf"),
         Envelope(outcome = "ok")>>

\* json_handler: whatever the outcome ("ok", "error" or "panic"), a 200 whose
\* body says how it went.
JsonHandler(outcome) ==
  <<StatusLine(200, "lf"), Header("lf"), BlankLine("lf"),
    Envelope(outcome = "ok")>>

\* A program that reads a body of n units before it writes these lines.
ReadThenWrite(n, lines) ==
  [k \in 1 .. n |-> In] \o [k \in 1 .. Len(lines) |-> Out(lines[k])]

\* The client program.
Client(n, outcome) == ReadThenWrite(n, JsonHandler(outcome))

Outcome == {"ok", "error", "panic"}

-----------------------------------------------------------------------------
Init ==
  /\ tree \in Tree
  /\ path \in Path
  /\ size \in Size
  /\ handler = "new"
  /\ found = NotFound
  /\ plan = <<>>
  /\ child = "none"
  /\ writer = "none"
  /\ left = 0
  /\ stdin = 0
  /\ stdout = <<>>
  /\ stderr = 0
  /\ output = <<>>
  /\ answer = None
  /\ script = <<>>
  /\ took = 0
  /\ early = FALSE

\* The handler is through; what it held of the child's pipes is closed.
Answer(a) ==
  /\ handler' = "answered"
  /\ answer' = a

\* The handler finds the script and starts it, and a task of its own that
\* feeds it the body.
CgiHandler ==
  /\ handler = "new"
  /\ found' = ResolveCgiScript(path)
  /\ \/ /\ found' = NotFound
        /\ Answer(NoScript)
        /\ UNCHANGED <<plan, script, child, writer, left>>
     \/ /\ found' # NotFound         \* it cannot be executed
        /\ Answer(NotRun)
        /\ UNCHANGED <<plan, script, child, writer, left>>
     \/ /\ found' # NotFound
        /\ \E p \in Plan \cup {Client(size, o) : o \in Outcome} :
             plan' = p /\ script' = p
        /\ child' = "running"
        /\ writer' = "writing"
        /\ left' = size
        /\ handler' = "running"
        /\ UNCHANGED answer
  /\ UNCHANGED <<request, pipes, output, took, early>>

\* The writer task: the next unit, unless the pipe is full; the end of the
\* body closes the pipe, and so does a child that is gone.
Write ==
  /\ writer = "writing"
  /\ \/ /\ child = "running" /\ left > 0 /\ stdin < Capacity
        /\ stdin' = stdin + 1
        /\ left' = left - 1
        /\ UNCHANGED writer
     \/ /\ left = 0 \/ child = "exited"
        /\ writer' = "ended"
        /\ UNCHANGED <<stdin, left>>
  /\ UNCHANGED <<request, handler, found, plan, child, stdout, stderr, output,
                 answer, script, took, early>>

\* A defect to compare with: the output is collected once the body is written.
CollectAfterWrite ==
  /\ handler = "running"
  /\ writer = "ended"
  /\ \/ /\ stdout # <<>>
        /\ output' = Append(output, Head(stdout))
        /\ stdout' = Tail(stdout)
        /\ UNCHANGED stderr
     \/ /\ stderr > 0
        /\ stderr' = stderr - 1
        /\ UNCHANGED <<stdout, output>>
  /\ UNCHANGED <<request, handler, found, plan, child, writer, left, stdin,
                 answer, script, took, early>>

\* wait_with_output collects both outputs while the child runs, ...
Collect ==
  /\ handler = "running"
  /\ \/ /\ stdout # <<>>
        /\ output' = Append(output, Head(stdout))
        /\ stdout' = Tail(stdout)
        /\ UNCHANGED stderr
     \/ /\ stderr > 0
        /\ stderr' = stderr - 1
        /\ UNCHANGED <<stdout, output>>
  /\ UNCHANGED <<request, handler, found, plan, child, writer, left, stdin,
                 answer, script, took, early>>

\* A defect to compare with: what the child wrote last is not waited for.
CollectedAtExit == child = "exited"

\* ... until the child is gone and nothing is left in the pipes.
Collected == child = "exited" /\ stdout = <<>> /\ stderr = 0

\* The answer is made when the writer has ended, too.
Respond ==
  /\ handler = "running"
  /\ Collected
  /\ writer = "ended"
  /\ Answer(Build(output))
  /\ UNCHANGED <<request, found, plan, child, writer, left, pipes, output,
                 script, took, early>>

\* Waiting for the child fails; nobody waits for the writer then.
WaitFails ==
  /\ handler = "running"
  /\ Answer(NotWaitedFor)
  /\ UNCHANGED <<request, found, plan, child, writer, left, pipes, output,
                 script, took, early>>

\* A defect to compare with: the writer goes with the handler.
DisconnectDropsWriter ==
  /\ handler = "running"
  /\ handler' = "dropped"
  /\ writer' = "ended"
  /\ UNCHANGED <<request, found, plan, child, left, pipes, output, answer,
                 script, took, early>>

\* The client hangs up: the handler is dropped where it waits.  The child
\* and the writer task go on.
Disconnect ==
  /\ handler = "running"
  /\ handler' = "dropped"
  /\ UNCHANGED <<request, found, plan, child, writer, left, pipes, output,
                 answer, script, took, early>>

\* The child's next operation, if it is not blocked.
ChildReads ==
  /\ child = "running" /\ plan # <<>> /\ Head(plan) = In
  /\ \/ /\ stdin > 0
        /\ stdin' = stdin - 1
        /\ took' = took + 1
        /\ UNCHANGED early
     \/ /\ stdin = 0 /\ writer = "ended"
        /\ early' = (early \/ took < size)
        /\ UNCHANGED <<stdin, took>>
  /\ plan' = Tail(plan)
  /\ UNCHANGED <<request, handler, found, child, writer, left, stdout, stderr,
                 output, answer, script>>

ChildWrites ==
  /\ child = "running" /\ plan # <<>> /\ Head(plan) # In
  /\ handler = "running"
  /\ IF Head(plan) = Err
     THEN /\ stderr < Capacity
          /\ stderr' = stderr + 1
          /\ UNCHANGED stdout
     ELSE /\ Len(stdout) < Capacity
          /\ stdout' = Append(stdout, Head(plan).line)
          /\ UNCHANGED stderr
  /\ plan' = Tail(plan)
  /\ UNCHANGED <<request, handler, found, child, writer, left, stdin, output,
                 answer, script, took, early>>

\* The child ends with its plan, when nobody reads what it writes, or
\* because it is killed or fails.
ChildExits ==
  /\ child = "running"
  /\ child' = "exited"
  /\ UNCHANGED <<request, handler, found, plan, writer, left, pipes, output,
                 answer, script, took, early>>

\* The end of the request and of all it started.
Done ==
  /\ handler \in {"answered", "dropped"}
  /\ child # "running" /\ writer # "writing"
  /\ UNCHANGED vars

Next ==
  \/ CgiHandler \/ Write \/ Collect \/ Respond \/ WaitFails \/ Disconnect
  \/ ChildReads \/ ChildWrites \/ ChildExits \/ Done

\* A child that is blocked for good need not end by itself.
ChildEnds == ChildExits /\ (plan = <<>> \/ (handler # "running" /\ Head(plan) # In))

Fairness ==
  /\ WF_vars(CgiHandler) /\ WF_vars(Write) /\ WF_vars(Collect)
  /\ WF_vars(Respond)
  /\ WF_vars(ChildReads) /\ WF_vars(ChildWrites) /\ WF_vars(ChildEnds)

Spec == Init /\ [][Next]_vars /\ Fairness

-----------------------------------------------------------------------------
TypeOK ==
  /\ tree \in Tree /\ path \in Path /\ size \in Size
  /\ handler \in {"new", "running", "answered", "dropped"}
  /\ child \in {"none", "running", "exited"}
  /\ writer \in {"none", "writing", "ended"}
  /\ left \in 0 .. size /\ took \in 0 .. size
  /\ stdin \in 0 .. Capacity /\ stderr \in 0 .. Capacity
  /\ Len(stdout) <= Capacity
  /\ answer.status \in {0} \cup 100 .. 999
  /\ early \in BOOLEAN

\* The request and all it started come to an end: no body and no output, on
\* either pipe, is so large that child and server wait for each other.
EverythingEnds ==
  <>(handler \in {"answered", "dropped"} /\ child # "running"
     /\ writer # "writing")

\* A child never takes a part of the body for the whole: it sees the end of
\* its input after the last unit only, whether the client still waits or not.
BodiesArriveWhole == ~ early

\* The lines that the first n operations of p write.
Written(p, n) ==
  LET lines[k \in 0 .. Len(p)] ==
        IF k = 0 THEN <<>>
        ELSE IF p[k].do = "out" THEN Append(lines[k - 1], p[k].line)
        ELSE lines[k - 1]
  IN  lines[n]

\* The lines a script writes, and how many come before its first empty one;
\* an empty line in front of all others is skipped.
Lines == Written(script, Len(script))
HeadLength ==
  LET blank == {k \in 2 .. Len(Lines) : Lines[k].text = "blank"}
  IN  IF blank = {} THEN 0 ELSE (CHOOSE k \in blank : \A j \in blank : k <= j) - 1
OneEol == \A j, k \in 1 .. Len(Lines) : Lines[j].eol = Lines[k].eol

\* The script came to its end, and the server's own part did not fail.
RanThrough ==
  /\ handler = "answered" /\ answer \notin {NoScript, NotRun, NotWaitedFor}
  /\ plan = <<>>

\* The answer to a script that came to its end is the script's own: all of
\* what it wrote after the first empty line, under a status it declared; or
\* a 500, if a line before that is no header ("answered with a 500, never
\* patched up").  For scripts that end all lines alike.
AnswersAreExact ==
  RanThrough /\ OneEol =>
    LET head == {Lines[k] : k \in 1 .. HeadLength}
        codes == {l.code : l \in {l \in head : l.text = "status"}}
    IN  IF head = {} \/ \E l \in head : l.text = "text"
        THEN answer = Malformed
        ELSE \/ /\ answer.body = SubSeq(Lines, HeadLength + 2, Len(Lines))
                /\ answer.status \in (codes \cap 100 .. 999) \cup {200}
             \/ answer = None /\ \E l \in head : l.text = "misnamed"

\* A failure of the client program shows in the answer's body and never as an
\* opaque 500: the answer is a 200 that says how it went.
FailuresShowInTheBody ==
  \A o \in Outcome :
    RanThrough /\ script = Client(size, o) =>
      answer = [status |-> 200, body |-> <<Envelope(o = "ok")>>]

\* The script that runs is named by the longest possible part of the path,
\* and SCRIPT_NAME and PATH_INFO together are the path.
ResolutionIsFaithful ==
  handler # "new" =>
    IF found = NotFound THEN \A f \in tree : ~ IsPrefix(f.name, path)
    ELSE /\ found.name \o found.info = path
         /\ found.file \in tree /\ found.file.name = found.name
         /\ \A f \in tree : IsPrefix(f.name, path) =>
              Len(f.name) <= Len(found.name)
===============================================================================
