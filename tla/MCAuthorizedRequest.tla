---- MODULE MCAuthorizedRequest ----
(* AuthorizedRequest for TLC: a back-off of 1, 2, 4, Retry-After inside and   *)
(* far outside the retry window, tokens that expire in it and that outlive it.*)
EXTENDS AuthorizedRequest

MCBackoff == [a \in 1..3 |-> 2 ^ (a - 1)]
MCRetryAfter == {0, 9}
====
