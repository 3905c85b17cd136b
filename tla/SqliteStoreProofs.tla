------------------------- MODULE SqliteStoreProofs -------------------------
(***************************************************************************)
(* The transaction of put_envelope is one step of LwwLog, no put is lost,  *)
(* no reader is led past a row, and each learns where the log ends, for    *)
(* every number of connections, accounts, records and rows per page.       *)
(***************************************************************************)
EXTENDS SqliteStore, RecordTableProofs

USE SqliteStoreAssumption, ReaderAssumption DEF IInv

LEMMA TypedTable == IInv => Table(rows, next)
BY DEF TypeOK, SeqsBelowNext, Table

\* What a call in progress carries.
LEMMA CallIsTyped ==
    ASSUME IInv, NEW w \in Workers, call[w] # Idle
    PROVE  /\ call[w].at \in {"begun", "numbered", "written"}
           /\ call[w].account \in Accounts
           /\ call[w].env \in Envelopes /\ call[w].env \in Envelope
           /\ Key(w) \in Keys
           /\ call[w] \in [at : {"begun", "numbered", "written"},
                           account : Accounts, env : Envelopes]
<1>1. call[w] \in [at : {"begun", "numbered", "written"},
                   account : Accounts, env : Envelopes]
  BY DEF TypeOK, Calls
<1> QED BY <1>1, KeyOfIsKey DEF Key

LEMMA IdleIsCall == Idle \in Calls /\ Idle.at = "idle"
BY DEF Idle, Calls

-----------------------------------------------------------------------------

LEMMA InitIInv == Init => IInv
<1> SUFFICES ASSUME Init PROVE IInv
  OBVIOUS
<1>1. EmptyTable \in [Keys -> Row \cup {None}]
  BY DEF EmptyTable
<1>2. TypeOK
  BY <1>1, IdleIsCall DEF Init, ReaderInit, TypeOK, Committed
<1>3. \A w \in Workers : call[w].at = "idle" /\ writer # w
  BY IdleIsCall DEF Init
<1>4. WriterAgrees /\ DraftIsOneStepAhead
  BY <1>3 DEF WriterAgrees, DraftIsOneStepAhead
<1>5. SeqsBelowNext /\ cursor <= next
  BY DEF Init, ReaderInit, SeqsBelowNext, EmptyTable
<1> QED BY <1>2, <1>4, <1>5

\* The writer's call and draft.
LEMMA WriterState ==
    ASSUME IInv, NEW w \in Workers, call[w].at = "written"
    PROVE  /\ writer = w
           /\ draft.next = next + 1
           /\ draft.rows = Upsert(rows, Key(w), call[w].env, next + 1)
           /\ Key(w) \in Keys /\ call[w].env \in Envelope
<1>1. call[w] # Idle
  BY IdleIsCall
<1> QED BY <1>1, CallIsTyped DEF WriterAgrees, DraftIsOneStepAhead

LEMMA NextIInv == IInv /\ [Next]_vars => IInv'
<1> SUFFICES ASSUME IInv, [Next]_vars PROVE IInv'
  OBVIOUS
<1> USE DEF TypeOK
<1>1. ASSUME NEW w \in Workers, NEW a \in Accounts, NEW env \in Envelopes, Begin(w, a, env)
      PROVE  IInv'
  <2>1. call'[w] = [at |-> "begun", account |-> a, env |-> env]
        /\ call' \in [Workers -> Calls]
        /\ \A v \in Workers \ {w} : call'[v] = call[v]
    BY <1>1 DEF Begin, Calls
  <2>2. writer # w
    <3>1. ~(call[w].at \in {"numbered", "written"})
      BY <1>1, IdleIsCall DEF Begin
    <3> QED BY <3>1 DEF WriterAgrees
  <2>3. WriterAgrees'
    BY <1>1, <2>1, <2>2 DEF WriterAgrees, Begin
  <2>4. DraftIsOneStepAhead'
    BY <1>1, <2>1, <2>2 DEF DraftIsOneStepAhead, Begin, Key
  <2> QED BY <1>1, <2>1, <2>3, <2>4 DEF Begin, SeqsBelowNext
<1>2. ASSUME NEW w \in Workers, BumpSequence(w) PROVE IInv'
  <2>1. call[w] # Idle
    BY <1>2, IdleIsCall DEF BumpSequence
  <2>2. /\ call' \in [Workers -> Calls] /\ call'[w].at = "numbered"
        /\ \A v \in Workers \ {w} : call'[v] = call[v]
    BY <1>2, <2>1, CallIsTyped DEF BumpSequence, Calls
  <2>3. \A v \in Workers : call[v].at \notin {"numbered", "written"}
    BY <1>2 DEF BumpSequence, WriterAgrees
  <2>4. WriterAgrees' /\ DraftIsOneStepAhead'
    BY <1>2, <2>2, <2>3 DEF WriterAgrees, DraftIsOneStepAhead, BumpSequence
  <2> QED BY <1>2, <2>2, <2>4 DEF BumpSequence, SeqsBelowNext
<1>3. ASSUME NEW w \in Workers, UpsertRecord(w) PROVE IInv'
  <2>1. call[w] # Idle /\ writer = w
    BY <1>3, IdleIsCall DEF UpsertRecord, WriterAgrees
  <2>2. Key(w) \in Keys /\ call[w].env \in Envelope
    BY <2>1, CallIsTyped
  <2>3. /\ call' \in [Workers -> Calls] /\ call'[w].at = "written"
        /\ call'[w].account = call[w].account /\ call'[w].env = call[w].env
        /\ \A v \in Workers \ {w} : call'[v] = call[v]
    BY <1>3, <2>1, CallIsTyped DEF UpsertRecord, Calls
  <2>4. /\ draft' = [rows |-> Upsert(rows, Key(w), call[w].env, next + 1),
                     next |-> next + 1]
        /\ UNCHANGED <<rows, cursor, seen, next, writer, answered>>
    BY <1>3, <2>1 DEF UpsertRecord, DraftIsOneStepAhead
  <2>5. Table(Upsert(rows, Key(w), call[w].env, next + 1), next + 1)
    BY <2>2, TypedTable, UpsertTable
  <2>6. WriterAgrees'
    BY <2>1, <2>3, <2>4 DEF WriterAgrees
  <2>7. DraftIsOneStepAhead'
    BY <2>1, <2>3, <2>4 DEF DraftIsOneStepAhead, Key
  <2> QED BY <2>3, <2>4, <2>5, <2>6, <2>7 DEF SeqsBelowNext, Table
<1>4. ASSUME NEW w \in Workers, Commit(w) PROVE IInv'
  <2>1. /\ writer = w /\ draft.next = next + 1
        /\ draft.rows = Upsert(rows, Key(w), call[w].env, next + 1)
        /\ Key(w) \in Keys /\ call[w].env \in Envelope
    BY <1>4, WriterState DEF Commit
  <2>2. Table(draft.rows, next + 1)
    BY <2>1, TypedTable, UpsertTable
  <2>3. call' \in [Workers -> Calls] /\ call'[w].at = "idle"
        /\ \A v \in Workers \ {w} : call'[v] = call[v]
    BY <1>4, IdleIsCall DEF Commit
  <2>4. call[w].env \in Envelopes
    BY <1>4, CallIsTyped, IdleIsCall DEF Commit
  <2>5. WriterAgrees' /\ DraftIsOneStepAhead'
    BY <1>4, <2>1, <2>3 DEF WriterAgrees, DraftIsOneStepAhead, Commit
  <2> QED BY <1>4, <2>1, <2>2, <2>3, <2>4, <2>5 DEF Commit, SeqsBelowNext, Table
<1>5. ASSUME NEW w \in Workers, RollBack(w) PROVE IInv'
  <2>1. call' \in [Workers -> Calls] /\ call'[w].at = "idle"
        /\ \A v \in Workers \ {w} : call'[v] = call[v]
    BY <1>5, IdleIsCall DEF RollBack
  <2>2. UNCHANGED <<rows, cursor, seen, next, answered>>
    BY <1>5 DEF RollBack
  <2>3. WriterAgrees' /\ DraftIsOneStepAhead' /\ writer' \in Workers \cup {None}
        /\ draft' \in [rows : [Keys -> Row \cup {None}], next : Nat]
    <3>1. CASE writer = w
      BY <1>5, <2>1, <3>1 DEF WriterAgrees, DraftIsOneStepAhead, RollBack, Committed
    <3>2. CASE writer # w
      BY <1>5, <2>1, <3>2 DEF WriterAgrees, DraftIsOneStepAhead, RollBack, Key
    <3> QED BY <3>1, <3>2
  <2> QED BY <2>1, <2>2, <2>3 DEF SeqsBelowNext
<1>6. CASE Restart
  <2>1. call' \in [Workers -> Calls] /\ \A v \in Workers : call'[v].at = "idle"
    BY <1>6, IdleIsCall DEF Restart
  <2>2. WriterAgrees' /\ DraftIsOneStepAhead'
    BY <1>6, <2>1 DEF WriterAgrees, DraftIsOneStepAhead, Restart
  <2> QED BY <1>6, <2>1, <2>2 DEF Restart, Committed, SeqsBelowNext
<1>7. CASE ReaderPull
  <2>1. UNCHANGED <<rows, next, writer, draft, call, answered>>
    BY <1>7 DEF ReaderPull, Pull
  <2>2. cursor' \in cursor..next
    BY <1>7, TypedTable, PageHasNoHoles DEF ReaderPull, Pull
  <2>3. seen' \in [Keys -> Row \cup {None}]
    BY <1>7 DEF ReaderPull, Pull
  <2> QED BY <2>1, <2>2, <2>3
          DEF WriterAgrees, DraftIsOneStepAhead, SeqsBelowNext, Key
<1>8. CASE UNCHANGED vars
  BY <1>8 DEF vars, WriterAgrees, DraftIsOneStepAhead, SeqsBelowNext, Key
<1> QED BY <1>1, <1>2, <1>3, <1>4, <1>5, <1>6, <1>7, <1>8 DEF Next, Put

(***************************************************************************)
(* The write lock, the calls and the draft of put_envelope agree for ever. *)
(***************************************************************************)
THEOREM Invariance == Spec => []IInv
BY InitIInv, NextIInv, PTL DEF Spec

-----------------------------------------------------------------------------

\* The committed table only ever changes by one committed put.
LEMMA CommitPuts ==
    ASSUME IInv, NEW w \in Workers, Commit(w)
    PROVE  /\ rows' = Upsert(rows, Key(w), call[w].env, next + 1)
           /\ next' = next + 1
           /\ Key(w) \in Keys /\ call[w].env \in Envelope
           /\ call[w].account \in Accounts /\ call[w].env \in Envelopes
<1>1. call[w].at = "written" /\ call[w] # Idle
  BY IdleIsCall DEF Commit
<1> QED BY <1>1, WriterState, CallIsTyped DEF Commit

LEMMA OnlyCommitsWrite ==
    ASSUME [Next]_vars
    PROVE  \/ \E w \in Workers : Commit(w)
           \/ UNCHANGED <<rows, next, answered>>
BY DEF Next, Put, Begin, BumpSequence, UpsertRecord, RollBack, Restart, ReaderPull,
       Pull, vars

(***************************************************************************)
(* Whatever interleaves, fails or restarts, the store behaves as if every  *)
(* put_envelope were one atomic step of the log.                           *)
(***************************************************************************)
THEOREM Refinement == Spec => ImplementsLog
<1>1. Init => Log!Init
  BY DEF Init, Log!Init, EmptyTable, Log!EmptyTable, Keys, Log!Keys
<1>2. IInv /\ [Next]_vars => [Log!Next]_<<rows, next>>
  <2> SUFFICES ASSUME IInv, [Next]_vars PROVE [Log!Next]_<<rows, next>>
    OBVIOUS
  <2>1. ASSUME NEW w \in Workers, Commit(w) PROVE Log!Next
    <3>1. Log!Put(call[w].account, call[w].env)
      BY <2>1, CommitPuts DEF Log!Put, Log!Upsert, Upsert, Log!Takes, Takes,
             Log!Wins, Wins, Log!AsRow, AsRow, Log!KeyOf, KeyOf, Key
    <3> QED BY <2>1, <3>1, CommitPuts DEF Log!Next
  <2> QED BY <2>1, OnlyCommitsWrite
<1> QED BY <1>1, <1>2, Invariance, PTL DEF Spec, ImplementsLog, Log!Spec

(***************************************************************************)
(* No put that returned is lost: "two devices pushing at once cannot       *)
(* interleave into a lost update" (store/mod.rs).                          *)
(***************************************************************************)
THEOREM PutsAreKept == Spec => []NoLostUpdate
<1>1. Init => NoLostUpdate
  BY DEF Init, NoLostUpdate
<1>2. IInv /\ NoLostUpdate /\ [Next]_vars /\ IInv' => NoLostUpdate'
  <2> SUFFICES ASSUME IInv, NoLostUpdate, [Next]_vars, IInv' PROVE NoLostUpdate'
    OBVIOUS
  <2>1. CASE UNCHANGED <<rows, next, answered>>
    BY <2>1 DEF NoLostUpdate, Stored
  <2>2. ASSUME NEW w \in Workers, Commit(w) PROVE NoLostUpdate'
    <3>1. Advances(rows, rows') /\ Stored(rows', Key(w), call[w].env)
      <4>1. /\ rows' = Upsert(rows, Key(w), call[w].env, next + 1)
            /\ Key(w) \in Keys /\ call[w].env \in Envelope
        BY <2>2, CommitPuts
      <4>2. next \in Nat /\ Table(rows, next)
        BY TypedTable DEF TypeOK
      <4> QED BY <4>1, <4>2, UpsertAdvances, UpsertStores
    <3>2. answered' = answered \cup {<<Key(w), call[w].env>>}
      BY <2>2 DEF Commit
    <3>3. ASSUME NEW p \in answered PROVE Stored(rows', p[1], p[2])
      <4>1. p[1] \in Keys /\ IsClock(p[2]) /\ Stored(rows, p[1], p[2])
        BY EnvelopeIsClock DEF TypeOK, NoLostUpdate
      <4>2. rows \in [Keys -> Row \cup {None}] /\ rows' \in [Keys -> Row \cup {None}]
        BY DEF TypeOK
      <4> QED BY <3>1, <4>1, <4>2, AdvancesKeepsStored
    <3> QED BY <3>1, <3>2, <3>3 DEF NoLostUpdate
  <2> QED BY <2>1, <2>2, OnlyCommitsWrite
<1> QED BY <1>1, <1>2, Invariance, PTL DEF Spec

(***************************************************************************)
(* A reader is never led past a row it was not sent: a number becomes      *)
(* visible only after every smaller one is settled, and a page has no      *)
(* holes.                                                                  *)
(***************************************************************************)
THEOREM ReaderMissesNothing == Spec => []NothingSkipped
<1>1. Init => NothingSkipped
  BY DEF Init, NothingSkipped, Visible, EmptyTable
<1>2. IInv /\ NothingSkipped /\ [Next]_vars => NothingSkipped'
  <2> SUFFICES ASSUME IInv, NothingSkipped, [Next]_vars PROVE NothingSkipped'
    OBVIOUS
  <2>1. CASE UNCHANGED <<rows, cursor, seen>>
    BY <2>1 DEF NothingSkipped, Visible
  <2>2. ASSUME NEW w \in Workers, Commit(w) PROVE NothingSkipped'
    <3>1. UNCHANGED <<cursor, seen>> /\ cursor <= next
      BY <2>2 DEF Commit
    <3>2. ASSUME NEW k \in Keys, rows'[k] # rows[k], rows'[k] # None
          PROVE  ~(rows'[k].seq <= cursor)
      BY <2>2, <3>1, <3>2, CommitPuts DEF Upsert, AsRow, TypeOK
    <3> QED BY <3>1, <3>2 DEF NothingSkipped, Visible
  <2>3. CASE ReaderPull
    <3> DEFINE page == PullPage(rows, Reader, {}, cursor)
               visible == Visible(rows, Reader, {}, cursor)
    <3>1. /\ cursor' = page.cursor /\ UNCHANGED rows
          /\ seen' = [k \in Keys |-> IF k \in page.keys THEN rows[k] ELSE seen[k]]
      BY <2>3 DEF ReaderPull, Pull
    <3>2. /\ page.keys \subseteq visible
          /\ \A k \in visible : k \in page.keys <=> rows[k].seq <= page.cursor
      BY TypedTable, PageHasNoHoles DEF TypeOK
    <3>3. ASSUME NEW k \in Visible(rows, Reader, {}, 0), rows[k].seq <= page.cursor
          PROVE  seen'[k] = rows[k]
      <4>1. k \in Keys /\ rows[k].seq \in Nat
        BY DEF Visible, TypeOK, SeqsBelowNext
      <4>2. CASE k \in page.keys
        BY <3>1, <4>1, <4>2
      <4>3. CASE k \notin page.keys
        <5>1. k \notin visible
          BY <3>2, <3>3, <4>3
        <5>2. rows[k].seq <= cursor
          BY <4>1, <5>1 DEF Visible, TypeOK
        <5> QED BY <3>1, <4>1, <4>3, <5>2 DEF NothingSkipped
      <4> QED BY <4>2, <4>3
    <3> QED BY <3>1, <3>3 DEF NothingSkipped
  <2> QED BY <2>1, <2>2, <2>3
          DEF Next, Put, Begin, BumpSequence, UpsertRecord, RollBack, Restart, vars
<1> QED BY <1>1, <1>2, Invariance, PTL DEF Spec

\* No two committed rows share a number.
PlacesStayApart == PlacesDiffer(rows)

(***************************************************************************)
(* A client that pulls until `more` is false comes to an end and has seen  *)
(* all there was: no page is empty while a row is left, and `more` says    *)
(* whether one is (routes/sync.rs:36).                                     *)
(***************************************************************************)
THEOREM PullsComeToAnEnd == Spec => []PullsMakeProgress
<1>1. Init => PlacesStayApart
  BY DEF PlacesStayApart, Init, PlacesDiffer, EmptyTable
<1>2. IInv /\ PlacesStayApart /\ [Next]_vars => PlacesStayApart'
  <2> SUFFICES ASSUME IInv, PlacesStayApart, [Next]_vars
               PROVE  PlacesDiffer(rows')
    BY DEF PlacesStayApart
  <2>1. ASSUME NEW w \in Workers, Commit(w) PROVE PlacesDiffer(rows')
    BY <2>1, CommitPuts, UpsertKeepsPlaces, TypedTable DEF TypeOK, PlacesStayApart
  <2> QED BY <2>1, OnlyCommitsWrite DEF PlacesStayApart
<1>3. Spec => []PlacesStayApart
  BY <1>1, <1>2, Invariance, PTL DEF Spec
<1>4. IInv /\ PlacesStayApart => PullsMakeProgress
  <2> SUFFICES ASSUME IInv, PlacesStayApart PROVE PullsMakeProgress
    OBVIOUS
  <2>1. next \in Nat /\ Table(rows, next) /\ PlacesDiffer(rows) /\ cursor \in 0..next
    BY TypedTable DEF TypeOK, PlacesStayApart
  <2>2. LET page == PullPage(rows, Reader, {}, cursor)
        IN  /\ page.keys = {} <=> Visible(rows, Reader, {}, cursor) = {}
            /\ page.keys # {} => page.cursor > cursor
            /\ page.more <=> Visible(rows, Reader, {}, page.cursor) # {}
    BY ONLY <2>1, ReaderAssumption, PagesMakeProgress
  <2> QED BY <2>2 DEF PullsMakeProgress
<1> QED BY <1>3, <1>4, Invariance, PTL
=============================================================================
