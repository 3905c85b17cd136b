----------------------------- MODULE PullReader -----------------------------
(***************************************************************************)
(* One device that pulls over and over from a record store.  `rows` is the *)
(* committed table: each pull is one SELECT, so it reads one snapshot.     *)
(***************************************************************************)
EXTENDS RecordTable

CONSTANT Reader              \* the account of the pulling device

ASSUME ReaderAssumption == Reader \in Accounts

VARIABLES rows,              \* the committed records table
          cursor,            \* PullResponse.cursor, kept by the device
          seen               \* per key, the last row the device was sent

readerVars == <<cursor, seen>>

ReaderInit == cursor = 0 /\ seen = EmptyTable

Pull ==
    LET page == PullPage(rows, Reader, {}, cursor)
    IN  /\ cursor' = page.cursor
        /\ seen' = [k \in Keys |-> IF k \in page.keys THEN rows[k] ELSE seen[k]]
        /\ UNCHANGED rows

-----------------------------------------------------------------------------
(***************************************************************************)
(* Once the cursor has passed a row, the device has it: a pull "walks      *)
(* forward and never repeats" (tests/store.rs), so a row that shows up     *)
(* behind the cursor is never delivered.                                   *)
(***************************************************************************)
NothingSkipped ==
    \A k \in Visible(rows, Reader, {}, 0) :
        rows[k].seq <= cursor => seen[k] = rows[k]

(***************************************************************************)
(* "True when the server had more than one page.  The client pulls again   *)
(* immediately" (api.rs, PullResponse.more): `more` is true exactly when a *)
(* row is left past the answered cursor, and a page that is not empty      *)
(* moves the cursor, so that pulling until it is false ends and sees all.  *)
(***************************************************************************)
PullsMakeProgress ==
    LET page == PullPage(rows, Reader, {}, cursor)
    IN  /\ page.keys = {} <=> Visible(rows, Reader, {}, cursor) = {}
        /\ page.keys # {} => page.cursor > cursor
        /\ page.more <=> Visible(rows, Reader, {}, page.cursor) # {}
=============================================================================
