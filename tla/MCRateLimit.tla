---------------------------- MODULE MCRateLimit ----------------------------
(* Two requests at a time from two addresses; the requests are alike, and  *)
(* so are the addresses.                                                   *)
EXTENDS RateLimit, TLC

CONSTANTS here, there, c1, c2

Alike == Permutations(Callers) \cup Permutations(Addresses)
=============================================================================
