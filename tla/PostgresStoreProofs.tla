------------------------ MODULE PostgresStoreProofs ------------------------
(***************************************************************************)
(* The statement of put_envelope is one step of OpenLog for the number it  *)
(* took, and no put is lost, for every number of connections, accounts and *)
(* records.  What PostgreSQL does not promise, that a reader is never past *)
(* an open number, is refuted by a run.                                    *)
(***************************************************************************)
EXTENDS PostgresStore, RecordTableProofs

USE PostgresStoreAssumption, ReaderAssumption

LEMMA TypedTable == IInv => Table(rows, last)
BY DEF IInv, TypeOK, NumbersAreOwn, Table

LEMMA IdleIsCall == Idle \in Calls /\ Idle.at = "idle"
BY DEF Idle, Calls

\* What a statement in progress carries.
LEMMA CallIsTyped ==
    ASSUME TypeOK, NEW w \in Workers, call[w] # Idle
    PROVE  /\ call[w].at \in {"numbered", "locked"}
           /\ call[w].account \in Accounts
           /\ call[w].env \in Envelopes /\ call[w].env \in Envelope
           /\ call[w].seq \in Nat
           /\ Key(w) \in Keys
<1>1. call[w] \in [at : {"numbered"}, account : Accounts, env : Envelopes, seq : Nat]
           \cup [at : {"locked"}, account : Accounts, env : Envelopes, seq : Nat,
                 takes : BOOLEAN]
  BY DEF TypeOK, Calls
<1> QED BY <1>1, KeyOfIsKey DEF Key

-----------------------------------------------------------------------------

LEMMA InitIInv == Init => IInv
<1> SUFFICES ASSUME Init PROVE IInv
  OBVIOUS
<1>1. EmptyTable \in [Keys -> Row \cup {None}] /\ \A k \in Keys : EmptyTable[k] = None
  BY DEF EmptyTable
<1>2. TypeOK
  BY <1>1, IdleIsCall DEF Init, ReaderInit, TypeOK
<1>3. Numbered = {} /\ \A w \in Workers : call[w].at = "idle"
  BY IdleIsCall DEF Init, Numbered
<1>4. NumbersAreOwn /\ RowLocksHold /\ SeqsAreUnique
  BY <1>1, <1>3 DEF Init, NumbersAreOwn, RowLocksHold, SeqsAreUnique
<1> QED BY <1>2, <1>4 DEF IInv, Init, ReaderInit

LEMMA NextValStep ==
    ASSUME IInv, NEW w \in Workers, NEW a \in Accounts, NEW env \in Envelopes,
           NextVal(w, a, env)
    PROVE  IInv'
<1> DEFINE new == [at |-> "numbered", account |-> a, env |-> env, seq |-> last + 1]
<1>1. /\ call[w] = Idle /\ last' = last + 1 /\ TypeOK
      /\ call' = [call EXCEPT ![w] = new]
      /\ UNCHANGED <<rows, cursor, seen, answered>>
  BY DEF IInv, NextVal
<1>2. new \in Calls /\ new # Idle /\ new.at # "locked" /\ new.seq = last + 1
  BY <1>1, IdleIsCall DEF Calls, TypeOK
<1> HIDE DEF new
<1>3. call'[w] = new /\ \A v \in Workers \ {w} : call'[v] = call[v]
  BY <1>1 DEF TypeOK
<1>4. TypeOK'
  BY <1>1, <1>2 DEF TypeOK
<1>5. Numbered' = Numbered \cup {w} /\ w \notin Numbered
  BY <1>1, <1>2, <1>3 DEF Numbered
<1>6. \A v \in Numbered : call'[v] = call[v] /\ call[v].seq \in 1..last /\ v # w
  BY <1>3, <1>5 DEF IInv, NumbersAreOwn, Numbered
<1>7. NumbersAreOwn'
  <2>1. \A v \in Numbered' : call'[v].seq \in 1..last'
    BY <1>1, <1>2, <1>3, <1>5, <1>6 DEF TypeOK
  <2>2. \A v, u \in Numbered' : call'[v].seq = call'[u].seq => v = u
    BY <1>1, <1>2, <1>3, <1>5, <1>6 DEF IInv, NumbersAreOwn, TypeOK
  <2>3. \A k \in Keys : rows'[k] # None =>
           /\ rows'[k].seq \in 1..last'
           /\ \A v \in Numbered' : call'[v].seq # rows'[k].seq
    BY <1>1, <1>2, <1>3, <1>5, <1>6 DEF IInv, NumbersAreOwn, TypeOK
  <2> QED BY <2>1, <2>2, <2>3 DEF NumbersAreOwn
<1>8. RowLocksHold'
  <2>1. \A v \in Workers : call'[v].at = "locked" => v # w /\ call'[v] = call[v]
    BY <1>2, <1>3
  <2> QED BY <1>1, <2>1 DEF IInv, RowLocksHold, Key
<1>9. SeqsAreUnique' /\ (cursor <= last)'
  BY <1>1 DEF IInv, SeqsAreUnique, TypeOK
<1> QED BY <1>4, <1>7, <1>8, <1>9 DEF IInv

LEMMA LockRowStep ==
    ASSUME IInv, NEW w \in Workers, LockRow(w)
    PROVE  IInv'
<1> DEFINE new == [at |-> "locked", account |-> call[w].account, env |-> call[w].env,
                   seq |-> call[w].seq, takes |-> Takes(rows, Key(w), call[w].env)]
<1>1. /\ call[w].at = "numbered" /\ ~Locked(Key(w)) /\ TypeOK
      /\ call' = [call EXCEPT ![w] = new]
      /\ UNCHANGED <<rows, cursor, seen, last, answered>>
  BY DEF IInv, LockRow
<1>2. call[w] # Idle
  BY <1>1, IdleIsCall
<1>3. /\ new \in Calls /\ new # Idle /\ new.at = "locked" /\ new.seq = call[w].seq
      /\ new.account = call[w].account /\ new.env = call[w].env
      /\ new.takes = Takes(rows, Key(w), call[w].env)
  <2>1. Takes(rows, Key(w), call[w].env) \in BOOLEAN
    BY DEF Takes, Wins
  <2> QED BY <1>1, <1>2, <2>1, CallIsTyped, IdleIsCall DEF Calls
<1> HIDE DEF new
<1>4. call'[w] = new /\ \A v \in Workers \ {w} : call'[v] = call[v]
  BY <1>1 DEF TypeOK
<1>5. \A v \in Workers : Key(v)' = Key(v)
  BY <1>3, <1>4 DEF Key
<1>6. TypeOK'
  BY <1>1, <1>3 DEF TypeOK
<1>7. Numbered' = Numbered /\ \A v \in Numbered : call'[v].seq = call[v].seq
  BY <1>2, <1>3, <1>4 DEF Numbered
<1>8. NumbersAreOwn'
  BY <1>1, <1>7 DEF IInv, NumbersAreOwn
<1>9. RowLocksHold'
  <2>1. ASSUME NEW v \in Workers, NEW u \in Workers, call'[v].at = "locked",
               call'[u].at = "locked", Key(v) = Key(u)
        PROVE  v = u
    <3>1. v # w /\ u # w => v = u
      BY <1>4, <2>1 DEF IInv, RowLocksHold
    <3>2. v = w /\ u # w => FALSE
      BY <1>1, <1>4, <2>1 DEF Locked
    <3>3. v # w /\ u = w => FALSE
      BY <1>1, <1>4, <2>1 DEF Locked
    <3> QED BY <3>1, <3>2, <3>3
  <2>2. ASSUME NEW v \in Workers, call'[v].at = "locked"
        PROVE  call'[v].takes = Takes(rows, Key(v), call'[v].env)
    BY <1>3, <1>4, <2>2 DEF IInv, RowLocksHold
  <2> QED BY <1>1, <1>5, <2>1, <2>2 DEF RowLocksHold
<1>10. SeqsAreUnique' /\ (cursor <= last)'
  BY <1>1 DEF IInv, SeqsAreUnique
<1> QED BY <1>6, <1>8, <1>9, <1>10 DEF IInv

\* A statement that ends frees its number and its row's lock.
LEMMA EndedIsIdle ==
    ASSUME IInv, NEW w \in Workers, call[w] # Idle, call' = [call EXCEPT ![w] = Idle]
    PROVE  /\ call' \in [Workers -> Calls] /\ call'[w] = Idle
           /\ \A v \in Workers \ {w} : call'[v] = call[v] /\ Key(v)' = Key(v)
           /\ Numbered' = Numbered \ {w} /\ w \in Numbered
           /\ \A v \in Workers : call'[v].at = "locked" =>
                 v # w /\ call[v].at = "locked" /\ call'[v] = call[v]
<1>1. call' \in [Workers -> Calls] /\ call'[w] = Idle
      /\ \A v \in Workers \ {w} : call'[v] = call[v]
  BY IdleIsCall DEF IInv, TypeOK
<1> QED BY <1>1, IdleIsCall DEF Numbered, Key

LEMMA AbortStep ==
    ASSUME IInv, NEW w \in Workers, Abort(w)
    PROVE  IInv'
<1>1. /\ call[w] # Idle /\ call' = [call EXCEPT ![w] = Idle]
      /\ UNCHANGED <<rows, cursor, seen, last, answered>>
  BY DEF Abort
<1>2. TypeOK'
  BY <1>1, EndedIsIdle DEF IInv, TypeOK
<1>3. NumbersAreOwn'
  <2>1. Numbered' \subseteq Numbered /\ \A v \in Numbered' : call'[v] = call[v]
    BY <1>1, EndedIsIdle DEF Numbered
  <2> QED BY <1>1, <2>1 DEF IInv, NumbersAreOwn
<1>4. RowLocksHold'
  <2>1. \A v \in Workers : call'[v].at = "locked" =>
           /\ call[v].at = "locked" /\ call'[v] = call[v] /\ Key(v)' = Key(v)
    BY <1>1, EndedIsIdle
  <2> QED BY <1>1, <2>1 DEF IInv, RowLocksHold
<1>5. SeqsAreUnique' /\ (cursor <= last)'
  BY <1>1 DEF IInv, SeqsAreUnique
<1> QED BY <1>2, <1>3, <1>4, <1>5 DEF IInv

\* The table after a commit is that of one upsert.
LEMMA CommitPuts ==
    ASSUME IInv, NEW w \in Workers, Commit(w)
    PROVE  /\ rows' = Upsert(rows, Key(w), call[w].env, call[w].seq)
           /\ call[w] # Idle /\ call[w].seq \in 1..last
           /\ Key(w) \in Keys /\ call[w].env \in Envelope
           /\ call[w].account \in Accounts /\ call[w].env \in Envelopes
           /\ answered' = answered \cup {<<Key(w), call[w].env>>}
           /\ call' = [call EXCEPT ![w] = Idle]
           /\ UNCHANGED <<cursor, seen, last>>
<1>1. call[w].at = "locked" /\ call[w] # Idle
  BY IdleIsCall DEF Commit
<1>2. call[w].takes = Takes(rows, Key(w), call[w].env)
  BY <1>1 DEF IInv, RowLocksHold
<1>3. call[w].seq \in 1..last
  BY <1>1 DEF IInv, NumbersAreOwn, Numbered
<1> QED BY <1>1, <1>2, <1>3, CallIsTyped DEF IInv, Commit, Upsert

LEMMA CommitStep ==
    ASSUME IInv, NEW w \in Workers, Commit(w)
    PROVE  IInv'
<1> DEFINE new == AsRow(call[w].env, call[w].seq)
<1>1. /\ rows' = Upsert(rows, Key(w), call[w].env, call[w].seq)
      /\ call[w] # Idle /\ call[w].seq \in 1..last /\ Key(w) \in Keys
      /\ call[w].env \in Envelopes
      /\ answered' = answered \cup {<<Key(w), call[w].env>>}
      /\ call' = [call EXCEPT ![w] = Idle]
      /\ UNCHANGED <<cursor, seen, last>>
  BY CommitPuts
<1>2. new \in Row /\ new # None /\ new.seq = call[w].seq
  BY <1>1, AsRowIsRow, CommitPuts DEF AsRow, IInv, TypeOK
<1> HIDE DEF new
<1>3. rows' = rows \/ rows' = [rows EXCEPT ![Key(w)] = new]
  BY <1>1 DEF Upsert, new
<1>4. \A k \in Keys : rows'[k] = rows[k] \/ (k = Key(w) /\ rows'[k] = new)
  BY <1>3 DEF IInv, TypeOK
<1>5. TypeOK'
  <2>1. rows' \in [Keys -> Row \cup {None}]
    BY <1>2, <1>3 DEF IInv, TypeOK
  <2>2. call' \in [Workers -> Calls]
    BY <1>1, EndedIsIdle
  <2> QED BY <1>1, <2>1, <2>2 DEF IInv, TypeOK
<1>6. Numbered' = Numbered \ {w} /\ w \in Numbered
      /\ \A v \in Numbered' : call'[v] = call[v]
  BY <1>1, EndedIsIdle DEF Numbered
<1>7. NumbersAreOwn'
  <2>1. /\ \A v \in Numbered' : call'[v].seq \in 1..last'
        /\ \A v, u \in Numbered' : call'[v].seq = call'[u].seq => v = u
    BY <1>1, <1>6 DEF IInv, NumbersAreOwn
  <2>2. ASSUME NEW k \in Keys, rows'[k] # None
        PROVE  /\ rows'[k].seq \in 1..last
               /\ \A v \in Numbered' : call'[v].seq # rows'[k].seq
    <3>1. CASE rows'[k] = rows[k]
      BY <1>6, <2>2, <3>1 DEF IInv, NumbersAreOwn
    <3>2. CASE rows'[k] = new
      BY <1>1, <1>2, <1>6, <3>2 DEF IInv, NumbersAreOwn
    <3> QED BY <1>4, <3>1, <3>2
  <2> QED BY <1>1, <2>1, <2>2 DEF NumbersAreOwn
<1>8. RowLocksHold'
  <2>1. ASSUME NEW v \in Workers, call'[v].at = "locked"
        PROVE  /\ call[v].at = "locked" /\ call'[v] = call[v] /\ Key(v)' = Key(v)
               /\ Key(v) # Key(w)
    BY <1>1, <2>1, EndedIsIdle DEF IInv, RowLocksHold, Commit
  <2>2. ASSUME NEW v \in Workers, call'[v].at = "locked"
        PROVE  Key(v) \in Keys /\ rows'[Key(v)] = rows[Key(v)]
    BY <1>4, <2>1, <2>2, CallIsTyped, IdleIsCall DEF IInv
  <2>3. ASSUME NEW v \in Workers, call'[v].at = "locked"
        PROVE  call'[v].takes = Takes(rows', Key(v)', call'[v].env)
    BY <2>1, <2>2, <2>3 DEF IInv, RowLocksHold, Takes
  <2>4. \A v, u \in Workers :
           (call'[v].at = "locked" /\ call'[u].at = "locked" /\ Key(v)' = Key(u)') => v = u
    BY <2>1 DEF IInv, RowLocksHold
  <2> QED BY <2>3, <2>4 DEF RowLocksHold
<1>9. SeqsAreUnique'
  <2>1. \A k \in Keys : rows[k] # None => rows[k].seq # call[w].seq
    BY <1>6 DEF IInv, NumbersAreOwn
  <2> QED BY <1>2, <1>4, <2>1 DEF IInv, SeqsAreUnique
<1> QED BY <1>1, <1>5, <1>7, <1>8, <1>9 DEF IInv

LEMMA PullStep ==
    ASSUME IInv, ReaderPull
    PROVE  IInv'
<1>1. UNCHANGED <<rows, last, call, answered>>
  BY DEF ReaderPull, Pull
<1>2. cursor' \in cursor..last
  BY TypedTable, PageHasNoHoles DEF ReaderPull, Pull, IInv, TypeOK
<1>3. seen' \in [Keys -> Row \cup {None}]
  BY DEF ReaderPull, Pull, IInv, TypeOK
<1>4. TypeOK'
  BY <1>1, <1>2, <1>3 DEF IInv, TypeOK
<1>5. NumbersAreOwn' /\ RowLocksHold' /\ SeqsAreUnique'
  BY <1>1 DEF IInv, NumbersAreOwn, RowLocksHold, SeqsAreUnique, Numbered, Key
<1> QED BY <1>1, <1>2, <1>4, <1>5 DEF IInv, TypeOK

(***************************************************************************)
(* Numbers are never shared, and what a statement found under its row lock *)
(* still holds when it commits.                                            *)
(***************************************************************************)
THEOREM PostgresInvariance == Spec => []IInv
<1>1. IInv /\ [Next]_vars => IInv'
  <2> SUFFICES ASSUME IInv, [Next]_vars PROVE IInv'
    OBVIOUS
  <2>1. CASE UNCHANGED vars
    BY <2>1 DEF vars, IInv, TypeOK, NumbersAreOwn, RowLocksHold, SeqsAreUnique, Numbered, Key
  <2>2. ASSUME NEW w \in Workers, Put(w) PROVE IInv'
    BY <2>2, NextValStep, LockRowStep, CommitStep, AbortStep DEF Put
  <2> QED BY <2>1, <2>2, PullStep DEF Next
<1> QED BY <1>1, InitIInv, PTL DEF Spec

-----------------------------------------------------------------------------

LEMMA OnlyCommitsWrite ==
    ASSUME [Next]_vars
    PROVE  \/ \E w \in Workers : Commit(w)
           \/ UNCHANGED <<rows, answered>>
BY DEF Next, Put, NextVal, LockRow, Abort, ReaderPull, Pull, vars

\* A commit replaces a row by a newer one only.
LEMMA CommitGetsNewer ==
    ASSUME IInv, NEW w \in Workers, Commit(w), NEW k \in Keys, rows[k] # None,
           rows'[k] # rows[k]
    PROVE  rows'[k] # None /\ Wins(rows'[k], rows[k])
<1>1. /\ Takes(rows, Key(w), call[w].env) /\ k = Key(w)
      /\ rows'[k] = AsRow(call[w].env, call[w].seq)
      /\ call[w].env \in Envelope /\ call[w].seq \in Nat
  BY CommitPuts DEF Upsert, IInv, TypeOK
<1> QED BY <1>1, AsRowIsRow DEF Takes, Wins, AsRow

(***************************************************************************)
(* A committed row is only ever replaced by a strictly newer write.        *)
(***************************************************************************)
THEOREM PostgresRowsGetNewer == Spec => RowsOnlyGetNewer
<1>1. IInv /\ [Next]_vars =>
         [\A k \in Keys : rows[k] # None /\ rows'[k] # rows[k] =>
            rows'[k] # None /\ Wins(rows'[k], rows[k])]_vars
  BY OnlyCommitsWrite, CommitGetsNewer
<1> QED BY <1>1, PostgresInvariance, PTL DEF Spec, RowsOnlyGetNewer

(***************************************************************************)
(* No put that returned is lost, with the row lock alone to order two      *)
(* devices that push at once (store/mod.rs).                               *)
(***************************************************************************)
THEOREM PostgresPutsAreKept == Spec => []NoLostUpdate
<1>1. Init => NoLostUpdate
  BY DEF Init, NoLostUpdate
<1>2. IInv /\ NoLostUpdate /\ [Next]_vars /\ IInv' => NoLostUpdate'
  <2> SUFFICES ASSUME IInv, NoLostUpdate, [Next]_vars, IInv' PROVE NoLostUpdate'
    OBVIOUS
  <2>1. CASE UNCHANGED <<rows, answered>>
    BY <2>1 DEF NoLostUpdate, Stored
  <2>2. ASSUME NEW w \in Workers, Commit(w) PROVE NoLostUpdate'
    <3>1. /\ rows' = Upsert(rows, Key(w), call[w].env, call[w].seq)
          /\ Key(w) \in Keys /\ call[w].env \in Envelope /\ call[w].seq \in Nat
          /\ answered' = answered \cup {<<Key(w), call[w].env>>}
      BY <2>2, CommitPuts DEF IInv, TypeOK
    <3>2. Stored(rows', Key(w), call[w].env)
      BY <3>1, TypedTable, UpsertStores DEF IInv, TypeOK
    <3>3. ASSUME NEW p \in answered PROVE Stored(rows', p[1], p[2])
      <4>1. p[1] \in Keys /\ IsClock(p[2]) /\ Stored(rows, p[1], p[2])
        BY EnvelopeIsClock DEF IInv, TypeOK, NoLostUpdate
      <4>2. rows \in [Keys -> Row \cup {None}] /\ rows' \in [Keys -> Row \cup {None}]
        BY DEF IInv, TypeOK
      <4>3. CASE rows'[p[1]] = rows[p[1]]
        BY <4>1, <4>3 DEF Stored
      <4>4. CASE rows'[p[1]] # rows[p[1]]
        <5>1. rows'[p[1]] # None /\ Wins(rows'[p[1]], rows[p[1]])
          BY <2>2, <4>1, <4>4, CommitGetsNewer DEF Stored
        <5>2. IsClock(rows'[p[1]]) /\ IsClock(rows[p[1]])
          BY <4>1, <4>2, <5>1, RowIsClock DEF Stored
        <5>3. Wins(rows'[p[1]], p[2])
          BY <4>1, <5>1, <5>2, WinsThenCovers DEF Stored
        <5> QED BY <5>1, <5>3 DEF Stored, Covers
      <4> QED BY <4>3, <4>4
    <3> QED BY <3>1, <3>2, <3>3 DEF NoLostUpdate
  <2> QED BY <2>1, <2>2, OnlyCommitsWrite
<1> QED BY <1>1, <1>2, PostgresInvariance, PTL DEF Spec

-----------------------------------------------------------------------------

\* A statement that ends closes its own number and no other.
LEMMA EndedCloses ==
    ASSUME IInv, NEW w \in Workers, call[w] # Idle, call' = [call EXCEPT ![w] = Idle]
    PROVE  /\ call[w].seq \in {call[v].seq : v \in Numbered}
           /\ {call[v].seq : v \in Numbered}' = {call[v].seq : v \in Numbered} \ {call[w].seq}
<1>1. /\ Numbered' = Numbered \ {w} /\ w \in Numbered
      /\ \A v \in Numbered' : call'[v] = call[v]
  BY EndedIsIdle DEF Numbered
<1>2. \A v \in Numbered \ {w} : call[v].seq # call[w].seq
  BY <1>1 DEF IInv, NumbersAreOwn
<1> QED BY <1>1, <1>2

(***************************************************************************)
(* Whatever interleaves or dies, the table is that of statements that ran  *)
(* whole, one after the other, each for a number it had taken.             *)
(***************************************************************************)
THEOREM PostgresRefinement == Spec => ImplementsOpenLog
<1> DEFINE open == {call[w].seq : w \in Numbered}
<1>1. Init => Log!Init
  BY DEF Init, Log!Init, EmptyTable, Log!EmptyTable, Keys, Log!Keys, Numbered
<1>2. IInv /\ [Next]_vars => [Log!Next]_<<rows, last, open>>
  <2> SUFFICES ASSUME IInv, [Next]_vars PROVE [Log!Next]_<<rows, last, open>>
    OBVIOUS
  <2>1. ASSUME NEW w \in Workers, NEW a \in Accounts, NEW env \in Envelopes,
               NextVal(w, a, env)
        PROVE  Log!Take
    <3>1. /\ Numbered' = Numbered \cup {w} /\ call'[w].seq = last + 1
          /\ \A v \in Numbered : call'[v] = call[v]
      BY <2>1, IdleIsCall DEF NextVal, Numbered, IInv, TypeOK, Idle
    <3>2. open' = open \cup {last + 1}
      BY <3>1
    <3> QED BY <2>1, <3>2 DEF NextVal, Log!Take
  <2>2. ASSUME NEW w \in Workers, LockRow(w)
        PROVE  UNCHANGED <<rows, last, open>>
    <3>1. Numbered' = Numbered /\ \A v \in Numbered : call'[v].seq = call[v].seq
      BY <2>2, IdleIsCall DEF LockRow, Numbered, IInv, TypeOK, Idle
    <3>2. open' = open
      BY <3>1
    <3> QED BY <2>2, <3>2 DEF LockRow
  <2>3. ASSUME NEW w \in Workers, Commit(w)
        PROVE  \E n \in open, a \in Accounts, env \in Envelopes : Log!Settle(n, a, env)
    <3>1. PICK n \in open, a \in Accounts, env \in Envelopes :
             /\ n = call[w].seq /\ a = call[w].account /\ env = call[w].env
             /\ open' = open \ {n}
      BY <2>3, CommitPuts, EndedCloses
    <3>2. rows' = Log!Upsert(rows, Log!KeyOf(a, env), env, n)
      BY <2>3, <3>1, CommitPuts DEF Log!Upsert, Upsert, Log!Takes, Takes, Log!Wins, Wins,
                                    Log!AsRow, AsRow, Log!KeyOf, KeyOf, Key
    <3>3. Log!Settle(n, a, env)
      BY <2>3, <3>1, <3>2, CommitPuts DEF Log!Settle
    <3> HIDE DEF open
    <3> QED BY <3>3
  <2>4. ASSUME NEW w \in Workers, Abort(w)
        PROVE  \E n \in open : Log!Burn(n)
    <3>1. PICK n \in open : open' = open \ {n}
      BY <2>4, EndedCloses DEF Abort
    <3>2. Log!Burn(n)
      BY <2>4, <3>1 DEF Log!Burn, Abort
    <3> HIDE DEF open
    <3> QED BY <3>2
  <2>5. ASSUME ReaderPull \/ UNCHANGED vars
        PROVE  UNCHANGED <<rows, last, open>>
    <3>1. UNCHANGED <<rows, last, call>>
      BY <2>5 DEF ReaderPull, Pull, vars
    <3>2. Numbered' = Numbered
      BY <3>1 DEF Numbered
    <3>3. open' = open
      BY <3>1, <3>2
    <3> QED BY <3>1, <3>3
  <2> HIDE DEF open
  <2>6. ASSUME NEW w \in Workers, Commit(w) PROVE Log!Next
    BY <2>3, <2>6 DEF Log!Next, open
  <2>7. ASSUME NEW w \in Workers, Put(w) PROVE Log!Next \/ UNCHANGED <<rows, last, open>>
    <3>1. ASSUME NEW a \in Accounts, NEW env \in Envelopes, NextVal(w, a, env)
          PROVE  Log!Next
      BY <2>1, <3>1 DEF Log!Next
    <3>2. ASSUME Abort(w) PROVE Log!Next
      BY <2>4, <3>2 DEF Log!Next, open
    <3> QED BY <2>2, <2>6, <2>7, <3>1, <3>2 DEF Put
  <2> QED BY <2>5, <2>7 DEF Next
<1> QED BY <1>1, <1>2, PostgresInvariance, PTL DEF Spec, ImplementsOpenLog, Log!Spec, Log!vars
=============================================================================
