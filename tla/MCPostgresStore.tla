-------------------------- MODULE MCPostgresStore --------------------------
(* Two connections push two devices' writes of one account's records while *)
(* a third device of the account pulls a row at a time.                    *)
EXTENDS PostgresStore

CONSTANTS r1, r2

MCDevices == {1, 2}

Write(i, t, d) == [id |-> i, group_id |-> None, key_ref |-> None,
                   updated_at |-> t, device_id |-> d, large |-> FALSE]

\* Two writes of r1 tie on the clock, a third is later; r2 has one write.
MCEnvelopes == {Write(r1, 1, 1), Write(r1, 1, 2), Write(r1, 2, 1), Write(r2, 1, 2)}
=============================================================================
