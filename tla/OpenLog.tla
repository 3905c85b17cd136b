------------------------------- MODULE OpenLog -------------------------------
(***************************************************************************)
(* What put_envelope promises where nothing but the row locks orders it:   *)
(* numbers are taken in order, each is settled at most once, atomically    *)
(* and whenever it may be, in favour of the newer of the envelope and its  *)
(* row.  LwwLog is the special case in which a number is settled as it is  *)
(* taken: here a reader may be past a number that is still open.           *)
(***************************************************************************)
EXTENDS RecordTable, Naturals

CONSTANT Envelopes           \* the envelopes clients may push

VARIABLES rows, last,        \* the records table; the number taken last
          open               \* the numbers that are neither written nor burnt

vars == <<rows, last, open>>

Init == rows = EmptyTable /\ last = 0 /\ open = {}

Take ==
    /\ last' = last + 1
    /\ open' = open \cup {last + 1}
    /\ UNCHANGED rows

Settle(n, account, env) ==
    /\ rows' = Upsert(rows, KeyOf(account, env), env, n)
    /\ open' = open \ {n}
    /\ UNCHANGED last

Burn(n) ==
    /\ open' = open \ {n}
    /\ UNCHANGED <<rows, last>>

Next == \/ Take
        \/ \E n \in open :
              Burn(n) \/ \E account \in Accounts, env \in Envelopes : Settle(n, account, env)

Spec == Init /\ [][Next]_vars
=============================================================================
