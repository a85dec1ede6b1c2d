---------------------------- MODULE MCConnectGate ----------------------------
(* ConnectGate for TLC: two process slots, one request, and configurations *)
(* that differ in what connect looks at.                                   *)
EXTENDS ConnectGate, TLC

Symmetry == Permutations(Instance)

Line(k, v) == [key |-> k, value |-> v]

\* A limit of one "megabyte" under a value that no longer counts; one that
\* wraps to nothing; every check of a request at once; a percentage that is
\* no limit, which no configuration may have.
Files ==
  {<<Line("MEMORY_LIMIT_MB", Number(3)), Line("MEMORY_LIMIT_MB", Number(1)),
     Line("COOKIE_NAME", Word("sid")), Line("USER_ID_URL", Word("/whoami")),
     Line("USER_ID_JSON", Word(<<"data", "id">>)),
     Line("MEMORY_REJECT_PCT", Blank)>>,
   <<Line("MEMORY_LIMIT_MB", Number(4))>>,
   <<Line("MEMORY_REJECT_PCT", Number(0))>>}

Object(k, v) == [tag |-> "object", fields |-> [x \in {k} |-> v]]
String(s) == [tag |-> "string", s |-> s]

Answers ==
  {NoAnswer, Object("error", String("no session")),
   Object("data", Object("id", String(""))),
   Object("data", Object("id", [tag |-> "number"])),
   Object("data", Object("id", String("alice")))}
==============================================================================
