---------------------------- MODULE SqliteStore ----------------------------
(***************************************************************************)
(* put_envelope of server/src/store/sqlite.rs, statement by statement: a   *)
(* deferred transaction whose first statement, the UPDATE of the sequence, *)
(* takes SQLite's one write lock; the upsert; the commit.  Readers run     *)
(* beside it on the last committed snapshot (WAL).  The process may die,   *)
(* a statement may fail (a busy database, a full disk) and a handler may   *)
(* be dropped at any await: the transaction then rolls back.               *)
(***************************************************************************)
EXTENDS PullReader

CONSTANTS Workers,           \* connections of the pool with a put in progress
          Envelopes,         \* the envelopes clients may push
          MaxSeq             \* bound: numbers the sequence may hand out

ASSUME SqliteStoreAssumption ==
    Envelopes \subseteq Envelope /\ None \notin Workers /\ MaxSeq \in Nat

VARIABLES next,              \* sequence.next, committed
          writer,            \* who holds the write lock, or None
          draft,             \* the writer's uncommitted [rows, next]
          call,              \* per worker: where its put_envelope is
          answered           \* puts whose commit returned: <<key, envelope>>

vars == <<rows, cursor, seen, next, writer, draft, call, answered>>

Idle == [at |-> "idle"]

Calls == {Idle} \cup [at : {"begun", "numbered", "written"},
                      account : Accounts, env : Envelopes]

Key(w) == KeyOf(call[w].account, call[w].env)

Committed == [rows |-> rows, next |-> next]

Init ==
    /\ ReaderInit
    /\ rows = EmptyTable /\ next = 0
    /\ writer = None /\ draft = Committed
    /\ call = [w \in Workers |-> Idle]
    /\ answered = {}

\* pool.begin(): BEGIN is deferred, it locks nothing.
Begin(w, account, env) ==
    /\ call[w] = Idle
    /\ call' = [call EXCEPT ![w] =
                   [at |-> "begun", account |-> account, env |-> env]]
    /\ UNCHANGED <<rows, cursor, seen, next, writer, draft, answered>>

\* Broken: the sequence is read before the transaction has the write lock.
BrokenBumpSequence(w) ==
    /\ call[w].at = "begun"
    /\ next < MaxSeq
    /\ writer' = w
    /\ draft' = [rows |-> rows, next |-> next + 1]
    /\ call' = [call EXCEPT ![w].at = "numbered"]
    /\ UNCHANGED <<rows, cursor, seen, next, answered>>

\* UPDATE sequence SET next = next + 1 RETURNING next, once the lock is free.
BumpSequence(w) ==
    /\ call[w].at = "begun" /\ writer = None
    /\ next < MaxSeq
    /\ writer' = w
    /\ draft' = [rows |-> rows, next |-> next + 1]
    /\ call' = [call EXCEPT ![w].at = "numbered"]
    /\ UNCHANGED <<rows, cursor, seen, next, answered>>

UpsertRecord(w) ==
    /\ call[w].at = "numbered"
    /\ draft' = [draft EXCEPT
                    !.rows = Upsert(@, Key(w), call[w].env, draft.next)]
    /\ call' = [call EXCEPT ![w].at = "written"]
    /\ UNCHANGED <<rows, cursor, seen, next, writer, answered>>

Commit(w) ==
    /\ call[w].at = "written"
    /\ rows' = draft.rows /\ next' = draft.next
    /\ writer' = None
    /\ answered' = answered \cup {<<Key(w), call[w].env>>}
    /\ call' = [call EXCEPT ![w] = Idle]
    /\ UNCHANGED <<cursor, seen, draft>>

\* A `?` returns early, or the request's future is dropped: ROLLBACK.
RollBack(w) ==
    /\ call[w] # Idle
    /\ IF writer = w THEN writer' = None /\ draft' = Committed
                     ELSE UNCHANGED <<writer, draft>>
    /\ call' = [call EXCEPT ![w] = Idle]
    /\ UNCHANGED <<rows, cursor, seen, next, answered>>

\* The process dies and restarts on the committed database.
Restart ==
    /\ writer' = None /\ draft' = Committed
    /\ call' = [w \in Workers |-> Idle]
    /\ UNCHANGED <<rows, cursor, seen, next, answered>>

ReaderPull == Pull /\ UNCHANGED <<next, writer, draft, call, answered>>

Put(w) == \/ \E a \in Accounts, env \in Envelopes : Begin(w, a, env)
          \/ BumpSequence(w)
          \/ UpsertRecord(w)
          \/ Commit(w)
          \/ RollBack(w)

Next == (\E w \in Workers : Put(w)) \/ Restart \/ ReaderPull

Spec == Init /\ [][Next]_vars

-----------------------------------------------------------------------------

\* Every put is one step of the abstract log, or none at all.
Log == INSTANCE LwwLog WITH rows <- rows, next <- next

(***************************************************************************)
(* The transaction of put_envelope behaves as one atomic step: "gives it   *)
(* the next sequence number" and compares clocks "under the same lock as   *)
(* the write" (sqlite.rs), whatever interleaves, fails or restarts.        *)
(***************************************************************************)
ImplementsLog == Log!Spec

\* The committed and the uncommitted state have the shapes their SQL allows.
TypeOK ==
    /\ rows \in [Keys -> Row \cup {None}] /\ next \in Nat
    /\ cursor \in Nat /\ seen \in [Keys -> Row \cup {None}]
    /\ writer \in Workers \cup {None}
    /\ draft \in [rows : [Keys -> Row \cup {None}], next : Nat]
    /\ call \in [Workers -> Calls]
    /\ answered \subseteq Keys \X Envelopes

(***************************************************************************)
(* "Two devices pushing at once cannot interleave into a lost update"      *)
(* (store/mod.rs): a put that returned is in its row, or a later one is.   *)
(***************************************************************************)
NoLostUpdate == \A p \in answered : Stored(rows, p[1], p[2])

(***************************************************************************)
(* The inductive invariant: the write lock and the calls agree, and the    *)
(* writer's draft is the committed state plus what its call has done.      *)
(***************************************************************************)
WriterAgrees ==
    \A w \in Workers : call[w].at \in {"numbered", "written"} <=> writer = w

DraftIsOneStepAhead ==
    \A w \in Workers : writer = w =>
        /\ draft.next = next + 1
        /\ draft.rows = IF call[w].at = "numbered" THEN rows
                        ELSE Upsert(rows, Key(w), call[w].env, next + 1)

SeqsBelowNext == \A k \in Keys : rows[k] # None => rows[k].seq \in 1..next

IInv == /\ TypeOK /\ WriterAgrees /\ DraftIsOneStepAhead /\ SeqsBelowNext
        /\ cursor <= next
=============================================================================
