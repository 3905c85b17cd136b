------------------------------- MODULE Merge -------------------------------
(***************************************************************************)
(* The conflict rule of remotier-sync-proto/src/merge.rs, as devices apply *)
(* it, beside the WHERE clause both record stores evaluate in SQL.         *)
(*                                                                         *)
(* A clock is a record with an updated_at (epoch milliseconds, an integer) *)
(* and a device_id.  Device ids are strings compared byte by byte, which   *)
(* is a total order: an integer rank stands for each of them.              *)
(***************************************************************************)
EXTENDS Integers

CONSTANT MaxClockSkew      \* MAX_CLOCK_SKEW_MS: a day, in the model's ticks

ASSUME MaxClockSkewAssumption == MaxClockSkew \in Nat

Clocks == [updated_at : Int, device_id : Int]

\* Broken: the tie on device ids is settled before the clocks are compared.
BrokenResolve(local, remote) ==
    IF remote.device_id > local.device_id THEN "TakeRemote" ELSE "KeepLocal"

\* Broken: what the server sends always replaces the copy.
BrokenKeep(local, remote) == "TakeRemote"

\* What a device decides when a pulled envelope meets its own copy.
Resolve(local, remote) ==
    CASE remote.updated_at > local.updated_at -> "TakeRemote"
      [] remote.updated_at < local.updated_at -> "KeepLocal"
      [] OTHER -> IF remote.device_id > local.device_id
                  THEN "TakeRemote" ELSE "KeepLocal"

\* The WHERE of the stores' upsert: does `excluded` replace `stored`?
Wins(excluded, stored) ==
    \/ excluded.updated_at > stored.updated_at
    \/ /\ excluded.updated_at = stored.updated_at
       /\ excluded.device_id > stored.device_id

\* The server refuses a clock more than the skew ahead of its own.
ClockIsPlausible(updated_at, now) == updated_at <= now + MaxClockSkew

-----------------------------------------------------------------------------

SameClock(a, b) == a.updated_at = b.updated_at /\ a.device_id = b.device_id

\* `a` is `b` or a later write of the same record.
Covers(a, b) == Wins(a, b) \/ SameClock(a, b)
=============================================================================
