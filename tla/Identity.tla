------------------------------- MODULE Identity -------------------------------
(***************************************************************************)
(* Who calls: what connect finds out from the request's cookies and from   *)
(* the identity endpoint.  A Cookie header is the set of the names in its  *)
(* "name=value" pieces ({} also stands for no header).  An answer of the   *)
(* endpoint is a JSON value with a tag: "object" (with fields), "string",  *)
(* "null", another one ("number"), or NoAnswer: a failed request, or a     *)
(* body that is not JSON.                                                  *)
(***************************************************************************)
EXTENDS Sequences, SequencesExt

NoAnswer == [tag |-> "none"]
Missing == [tag |-> "missing"]

\* has_cookie: the name must be there, the value is never looked at.
HasCookie(header, name) == name \in header

\* resolve_path: the segments of the path are looked up one in another.
ResolvePath(json, path) ==
  FoldLeft(LAMBDA v, segment :
             IF v.tag = "object" /\ segment \in DOMAIN v.fields
             THEN v.fields[segment] ELSE Missing,
           json, path)

\* The value at the path, if the endpoint answered with JSON at all.
Field(answer, path) ==
  IF answer = NoAnswer THEN NoAnswer ELSE ResolvePath(answer, path)

\* verify_user: an id, nobody (missing, null or empty), or an error.
VerifyUser(answer, path) ==
  LET v == Field(answer, path)
      nobody == v.tag \in {"missing", "null"} \/ (v.tag = "string" /\ v.s = "")
  IN  IF nobody THEN [verdict |-> "nobody"]
      ELSE IF v.tag = "string" THEN [verdict |-> "user", id |-> v.s]
      ELSE [verdict |-> "error"]
===============================================================================
