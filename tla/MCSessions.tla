----------------------------- MODULE MCSessions -----------------------------
(* Two requests at a time on one account; the requests are alike.          *)
EXTENDS Sessions, TLC

CONSTANTS q1, q2, laptop

Alike == Permutations(Requests)
=============================================================================
