------------------------------- MODULE LwwLog -------------------------------
(***************************************************************************)
(* What the Store trait promises of put_envelope: one atomic step per      *)
(* call.  The call takes the next number of the one sequence of the        *)
(* instance and writes its row at the end of the log when it is newer than *)
(* the stored one; otherwise the number is burnt.  A reader never sees a   *)
(* number before every smaller one is settled.                             *)
(***************************************************************************)
EXTENDS RecordTable, Naturals

CONSTANT Envelopes           \* the envelopes clients may push

VARIABLES rows, next

Init == rows = EmptyTable /\ next = 0

Put(account, env) ==
    /\ next' = next + 1
    /\ rows' = Upsert(rows, KeyOf(account, env), env, next + 1)

Next == \E account \in Accounts, env \in Envelopes : Put(account, env)

Spec == Init /\ [][Next]_<<rows, next>>
=============================================================================
