---- MODULE MCHttpRequest ----
(* HttpRequest for TLC: three attempts in a window of four units, a back-off *)
(* of 1, 2, 4, Retry-After inside and far outside the window.                *)
EXTENDS HttpRequest

MCBackoff == [a \in 1..3 |-> 2 ^ (a - 1)]
MCRetryAfter == {0, 9}
====
