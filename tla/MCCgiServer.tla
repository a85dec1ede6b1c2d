------------------------------ MODULE MCCgiServer ------------------------------
(* CgiServer for TLC: scripts that fill every pipe in every order, and      *)
(* outputs in and out of form.                                              *)
EXTENDS CgiServer

File(name, ext) == [name |-> name, ext |-> ext]

Trees ==
  {{File(<<"sub">>, ".exe"), File(<<"sub", "client">>, ""),
    File(<<"sub", "client">>, ".cmd")},
   {File(<<"sub">>, "")}}

Paths == {<<"sub", "client", "extra">>, <<"other">>}

Segments == {"sub", "client", "extra", "other"}

T(eol) == [text |-> "text", eol |-> eol]
Misnamed == [text |-> "misnamed", eol |-> "lf"]

AllLines ==
  UNION {{Header(eol), BlankLine(eol), T(eol)} : eol \in {"lf", "crlf"}}
    \cup {StatusLine(code, eol) : code \in {404, 99, Junk}, eol \in {"lf", "crlf"}}
    \cup {Misnamed}

\* Standard error first, more than the pipe holds; output before the body is
\* read; a body that is never read; a library's line ahead of the headers; no
\* end of the headers; CRLF throughout, and in an LF script's body; statuses
\* that are none; a header name HTTP does not have; an empty line first.
Plans ==
  {<<Err, Err, Err, Out(Header("lf")), Out(BlankLine("lf")), Out(T("lf")),
     In, In, In, In>>,
   ReadThenWrite(4, <<T("lf"), Header("lf"), BlankLine("lf"), T("lf")>>),
   ReadThenWrite(0, <<Header("lf"), Header("lf"), T("lf")>>),
   ReadThenWrite(1, <<StatusLine(404, "crlf"), Header("crlf"),
                      BlankLine("crlf"), T("crlf"), BlankLine("crlf"),
                      T("crlf")>>),
   ReadThenWrite(0, <<Header("lf"), BlankLine("lf"), T("crlf"),
                      BlankLine("crlf")>>),
   ReadThenWrite(0, <<StatusLine(99, "lf"), StatusLine(Junk, "lf"),
                      BlankLine("lf"), BlankLine("lf")>>),
   ReadThenWrite(0, <<Misnamed, BlankLine("lf")>>),
   ReadThenWrite(0, <<BlankLine("lf"), StatusLine(404, "lf"), BlankLine("lf"),
                      T("lf")>>)}
===============================================================================
