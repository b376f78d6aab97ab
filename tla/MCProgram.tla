----------------------------- MODULE MCProgram -----------------------------
(* Responses for Download: a chunked one whose body contains a line end, a *)
(* plain one whose body does, an empty one, and two redirections.          *)
EXTENDS Program

T(kind, v) == <<[k |-> kind, v |-> v, body |-> FALSE]>>
B(kind, v) == <<[k |-> kind, v |-> v, body |-> TRUE]>>
NL == T("cr", 0) \o T("lf", 0)

CHUNKED == 1
PLAIN == 2
MOVED == 4

MCSite == <<
  T("other", 0) \o NL \o NL \o T("size", 3) \o NL
    \o B("data", 1) \o B("cr", 2) \o B("lf", 3) \o NL
    \o T("size", 1) \o NL \o B("data", 4) \o NL \o T("size", 0) \o NL \o NL,
  T("other", 0) \o NL \o T("length", 4) \o NL \o NL
    \o B("cr", 1) \o B("lf", 2) \o B("data", 3) \o B("data", 4),
  T("length", 0) \o NL \o NL,
  T("other", 0) \o NL \o T("location", CHUNKED) \o NL \o NL \o B("data", 9),
  T("location", PLAIN) \o NL \o T("location", MOVED) \o NL \o NL >>
=============================================================================
