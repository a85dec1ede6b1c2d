-------------------------------- MODULE Config --------------------------------
(***************************************************************************)
(* stadhouder.conf, as Config::load understands it.  A file is a sequence  *)
(* of lines [key, value]; a comment and a line without "=" are lines whose *)
(* key is none of the program's.  A value is a record: Blank, a Word or a  *)
(* Number.  What is not set is NotSet, and a limit that is not set NoLimit.*)
(***************************************************************************)
EXTENDS Integers, Sequences

CONSTANTS
  Mega,         \* 1024 * 1024, scaled down
  Modulus       \* 2^64, scaled down: how many values a u64 has

ASSUME WidthAssumption == {Mega, Modulus} \subseteq Nat \ {0}

Blank == [kind |-> "blank"]
Word(w) == [kind |-> "word", word |-> w]
Number(n) == [kind |-> "number", n |-> n]

NotSet == [kind |-> "not set"]
NoLimit == 0 - 1
Refused == [ok |-> FALSE]

\* A missing file is a valid configuration.
Default == [ok |-> TRUE, testEnv |-> FALSE, cookie |-> NotSet,
            url |-> NotSet, json |-> NotSet, limit |-> NoLimit,
            reject |-> 100]

\* parse_kv: of the lines with one key the last one counts.
Value(lines, key) ==
  LET at == {k \in DOMAIN lines : lines[k].key = key}
  IN  IF at = {} THEN NotSet
      ELSE lines[CHOOSE k \in at : \A j \in at : j <= k].value

\* All keys but TEST_ENV take a blank value for none.
Setting(lines, key) ==
  IF Value(lines, key) = Blank THEN NotSet ELSE Value(lines, key)

\* MEMORY_LIMIT_MB in bytes.  The product of a release build wraps.
Bytes(mb) == (mb * Mega) % Modulus

Boolean(v) == v \in {NotSet, Word("true"), Word("false")}

Positive(v) == v = NotSet \/ (v.kind = "number" /\ v.n > 0)

FromStr(lines) ==
  LET limit == Setting(lines, "MEMORY_LIMIT_MB")
      reject == Setting(lines, "MEMORY_REJECT_PCT")
  IN  IF /\ Boolean(Value(lines, "TEST_ENV"))
         /\ Positive(limit)
         /\ Positive(reject)
      THEN [ok |-> TRUE,
            testEnv |-> Value(lines, "TEST_ENV") = Word("true"),
            cookie |-> Setting(lines, "COOKIE_NAME"),
            url |-> Setting(lines, "USER_ID_URL"),
            json |-> Setting(lines, "USER_ID_JSON"),
            limit |-> IF limit = NotSet THEN NoLimit ELSE Bytes(limit.n),
            reject |-> IF reject = NotSet THEN 100 ELSE reject.n]
      ELSE Refused
===============================================================================
