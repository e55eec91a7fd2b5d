-------------------------- MODULE MCServerSettings --------------------------
(* Bounds for TLC: an environment the form holds, one with blanks, with a   *)
(* key twice and with a line that is no variable; from a program, one with  *)
(* a value of several lines and a "=" in a key.                             *)
EXTENDS ServerSettings

CONSTANTS v1, v2

Line(v, w) == [variable |-> v, written |-> w]
MCTypedEnvironments ==
  {{Line(v1, "plain")}, {Line(v1, "blanks")},
   {Line(v1, "repeated"), Line(v2, "plain")}, {Line(v1, "plain"), Line(v2, "bare")}}
MCApiEnvironments == {{Line(v1, "lines"), Line(v2, "equals")}}
=============================================================================
