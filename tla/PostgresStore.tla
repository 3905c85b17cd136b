--------------------------- MODULE PostgresStore ---------------------------
(***************************************************************************)
(* put_envelope of server/src/store/postgres.rs: one autocommitted INSERT  *)
(* ... ON CONFLICT.  Within the statement PostgreSQL takes nextval, which  *)
(* locks nothing and is never rolled back; then locks the row (or waits    *)
(* for the statement that holds it) and evaluates the WHERE on the latest  *)
(* committed version; then commits, and only then do readers see the row.  *)
(***************************************************************************)
EXTENDS PullReader

CONSTANTS Workers,           \* connections of the pool with a put in progress
          Envelopes,         \* the envelopes clients may push
          MaxSeq             \* bound: numbers the sequence may hand out

ASSUME PostgresStoreAssumption ==
    Envelopes \subseteq Envelope /\ None \notin Workers /\ MaxSeq \in Nat

VARIABLES last,              \* numbers record_seq has handed out
          call,              \* per worker: where its statement is
          answered           \* puts whose statement returned: <<key, envelope>>

vars == <<rows, cursor, seen, last, call, answered>>

Idle == [at |-> "idle"]

Calls == {Idle}
    \cup [at : {"numbered"}, account : Accounts, env : Envelopes, seq : Nat]
    \cup [at : {"locked"}, account : Accounts, env : Envelopes, seq : Nat, takes : BOOLEAN]

Key(w) == KeyOf(call[w].account, call[w].env)

Init ==
    /\ ReaderInit
    /\ rows = EmptyTable
    /\ last = 0
    /\ call = [w \in Workers |-> Idle]
    /\ answered = {}

\* VALUES (..., nextval('record_seq'), ...).
NextVal(w, account, env) ==
    /\ call[w] = Idle
    /\ last < MaxSeq
    /\ last' = last + 1
    /\ call' = [call EXCEPT ![w] = [at |-> "numbered", account |-> account,
                                    env |-> env, seq |-> last + 1]]
    /\ UNCHANGED <<rows, cursor, seen, answered>>

Locked(key) == \E v \in Workers : call[v].at = "locked" /\ Key(v) = key

\* Broken: the clocks are compared without waiting for the row's lock.
BrokenLockRow(w) ==
    /\ call[w].at = "numbered"
    /\ call' = [call EXCEPT ![w] =
                   [at |-> "locked", account |-> @.account, env |-> @.env,
                    seq |-> @.seq, takes |-> Takes(rows, Key(w), @.env)]]
    /\ UNCHANGED <<rows, cursor, seen, last, answered>>

\* ON CONFLICT: the row is locked, inserted or not, until the commit.
LockRow(w) ==
    /\ call[w].at = "numbered" /\ ~Locked(Key(w))
    /\ call' = [call EXCEPT ![w] =
                   [at |-> "locked", account |-> @.account, env |-> @.env,
                    seq |-> @.seq, takes |-> Takes(rows, Key(w), @.env)]]
    /\ UNCHANGED <<rows, cursor, seen, last, answered>>

Commit(w) ==
    /\ call[w].at = "locked"
    /\ rows' = IF call[w].takes
               THEN [rows EXCEPT ![Key(w)] = AsRow(call[w].env, call[w].seq)]
               ELSE rows
    /\ answered' = answered \cup {<<Key(w), call[w].env>>}
    /\ call' = [call EXCEPT ![w] = Idle]
    /\ UNCHANGED <<cursor, seen, last>>

\* The connection, the handler or the server dies: no row, a number burnt.
Abort(w) ==
    /\ call[w] # Idle
    /\ call' = [call EXCEPT ![w] = Idle]
    /\ UNCHANGED <<rows, cursor, seen, last, answered>>

ReaderPull == Pull /\ UNCHANGED <<last, call, answered>>

Put(w) == \/ \E a \in Accounts, env \in Envelopes : NextVal(w, a, env)
          \/ LockRow(w)
          \/ Commit(w)
          \/ Abort(w)

Next == (\E w \in Workers : Put(w)) \/ ReaderPull

Spec == Init /\ [][Next]_vars

-----------------------------------------------------------------------------

\* Statements in progress hold numbers of their own that no row has yet.
Numbered == {w \in Workers : call[w] # Idle}

Log == INSTANCE OpenLog WITH rows <- rows, last <- last,
                             open <- {call[w].seq : w \in Numbered}

(***************************************************************************)
(* put_envelope compares clocks and writes its row as if in one step, for  *)
(* a number it took earlier, although the numbers, row locks and commits   *)
(* of other statements come between (store/mod.rs: "the last-write-wins    *)
(* comparison happens here, under whatever locking the backend gives us"). *)
(***************************************************************************)
ImplementsOpenLog == Log!Spec

\* The committed table and the statements in progress have their shapes.
TypeOK ==
    /\ rows \in [Keys -> Row \cup {None}] /\ last \in Nat
    /\ cursor \in Nat /\ seen \in [Keys -> Row \cup {None}]
    /\ call \in [Workers -> Calls]
    /\ answered \subseteq Keys \X Envelopes

(***************************************************************************)
(* "Two devices pushing at once cannot interleave into a lost update"      *)
(* (store/mod.rs), although nothing but the row's own lock orders them.    *)
(***************************************************************************)
NoLostUpdate == \A p \in answered : Stored(rows, p[1], p[2])

(***************************************************************************)
(* The cursor "has to order records across owners" (schema_sqlite.sql,     *)
(* which this schema mirrors): no two rows share a number, so a page that  *)
(* ends between two rows never hides one behind the other.                 *)
(***************************************************************************)
SeqsAreUnique ==
    \A j, k \in Keys : rows[j] # None /\ rows[k] # None /\ rows[j].seq = rows[k].seq
                          => j = k

NumbersAreOwn ==
    /\ \A w \in Numbered : call[w].seq \in 1..last
    /\ \A v, w \in Numbered : call[v].seq = call[w].seq => v = w
    /\ \A k \in Keys : rows[k] # None =>
          /\ rows[k].seq \in 1..last
          /\ \A w \in Numbered : call[w].seq # rows[k].seq

\* One statement at a time holds a row, and what it found there still holds.
RowLocksHold ==
    /\ \A v, w \in Workers :
          (call[v].at = "locked" /\ call[w].at = "locked" /\ Key(v) = Key(w)) => v = w
    /\ \A w \in Workers : call[w].at = "locked" =>
          call[w].takes = Takes(rows, Key(w), call[w].env)

\* The inductive invariant.
IInv == /\ TypeOK /\ NumbersAreOwn /\ RowLocksHold /\ SeqsAreUnique
        /\ cursor <= last

(***************************************************************************)
(* A committed row is only ever replaced by a strictly newer write: a row  *)
(* lock granted late re-evaluates the clocks (the WHERE of the upsert).    *)
(***************************************************************************)
RowsOnlyGetNewer ==
    [][\A k \in Keys : rows[k] # None /\ rows'[k] # rows[k] =>
          rows'[k] # None /\ Wins(rows'[k], rows[k])]_vars
=============================================================================
