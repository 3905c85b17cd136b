-------------------------- MODULE SyncSystemProofs --------------------------
(***************************************************************************)
(* What holds of any number of devices, records, requests and losses: the  *)
(* handlers implement the log of the stores; a device stops pushing only   *)
(* what the server has and its copies only advance; with stamps that never *)
(* go back its pulls skip none of its records and a clock names a version; *)
(* with groups that have one owner each a record is one row, and at rest   *)
(* all that hold a record agree.                                           *)
(***************************************************************************)
EXTENDS SyncProperties, SyncServerProofs, SequenceTheorems

USE SyncSystemAssumption, NoneIsNoRow, NoneIsNoPush, NoneIsNoClock

-----------------------------------------------------------------------------
\* The operators of the devices.

LEMMA ClockIsClock == ASSUME NEW c \in Clock PROVE IsClock(c)
BY RecordTableAssumption DEF Clock, IsClock

LEMMA SameClockIsSame == ASSUME NEW b \in Clock, NEW c \in Clock, SameClock(b, c)
                         PROVE  b = c
<1>1. /\ b = [updated_at |-> b.updated_at, device_id |-> b.device_id]
      /\ c = [updated_at |-> c.updated_at, device_id |-> c.device_id]
  BY DEF Clock
<1>2. b.updated_at = c.updated_at /\ b.device_id = c.device_id
  BY DEF SameClock
<1> QED BY <1>1, <1>2

LEMMA MaxOfTwo ==
    ASSUME NEW a \in Int, NEW b \in Int
    PROVE  Max({a, b}) \in {a, b} /\ Max({a, b}) >= a /\ Max({a, b}) >= b
<1>1. \E x \in {a, b} : \A y \in {a, b} : x >= y
  OBVIOUS
<1> QED BY <1>1 DEF Max

\* A stamp is a number and, but for raw stamps, later than the copy's.
LEMMA StampIsLater ==
    ASSUME TypeOK, NEW d \in Devices, NEW i \in Ids
    PROVE  /\ Stamp(d, i) \in Int
           /\ ~RawStamps /\ local[d][i] # None =>
                 Stamp(d, i) > local[d][i].updated_at
<1>1. now + Offset[d] \in Int
  BY DEF TypeOK, ServerTypeOK
<1>2. CASE RawStamps \/ local[d][i] = None
  BY <1>1, <1>2 DEF Stamp
<1>3. CASE ~(RawStamps \/ local[d][i] = None)
  <2> DEFINE reading == now + Offset[d]
             later == local[d][i].updated_at + 1
  <2>1. local[d][i].updated_at \in Int /\ later \in Int
    BY <1>3 DEF TypeOK, Clock
  <2>2. Stamp(d, i) = Max({reading, later})
    BY <1>3 DEF Stamp
  <2>3. Stamp(d, i) \in {reading, later} /\ Stamp(d, i) >= later
    BY <1>1, <2>1, <2>2, MaxOfTwo
  <2> QED BY <1>1, <2>1, <2>3
<1> QED BY <1>2, <1>3

LEMMA EnvelopeOfTyped ==
    ASSUME TypeOK, NEW d \in Devices, NEW i \in Ids, local[d][i] # None
    PROVE  EnvelopeOf(d, i) \in Envelope
<1>1. local[d][i] \in Clock /\ place[d][i] \in Places
  BY DEF TypeOK
<1> QED BY <1>1 DEF EnvelopeOf, Envelope, Clock, Places

\* What a device pushes is a batch of envelopes.
LEMMA BatchTyped ==
    ASSUME TypeOK, DirtyIsLocal, NEW d \in Devices,
           NEW order \in SetToSeqs(dirty[d])
    PROVE  [n \in DOMAIN order |-> EnvelopeOf(d, order[n])] \in Seq(Envelope)
<1> DEFINE size == Cardinality(dirty[d])
<1>1. size \in Nat
  <2>1. dirty[d] \in SUBSET Ids /\ IsFiniteSet(Ids)
    BY RecordTableAssumption DEF TypeOK
  <2> QED BY <2>1, FS_Subset, FS_CardinalityType
<1>2. order \in [1..size -> dirty[d]]
  BY DEF SetToSeqs
<1> HIDE DEF size
<1>3. \A n \in 1..size : EnvelopeOf(d, order[n]) \in Envelope
  BY <1>2, EnvelopeOfTyped DEF TypeOK, DirtyIsLocal
<1>4. [n \in DOMAIN order |-> EnvelopeOf(d, order[n])] \in [1..size -> Envelope]
  BY <1>2, <1>3
<1>5. [1..size -> Envelope] \subseteq Seq(Envelope)
  BY <1>1, SeqDef
<1> QED BY <1>4, <1>5

\* Of finitely many versions one is the latest.
LEMMA LatestExists ==
    ASSUME NEW S, IsFiniteSet(S), S # {}, \A v \in S : IsClock(v)
    PROVE  Latest(S) \in S /\ \A u \in S : ~Wins(u, Latest(S))
<1> DEFINE Above(v) == {u \in S : Wins(u, v)}
           T == {Above(v) : v \in S}
<1>1. T \subseteq FiniteSubsetsOf(S) /\ T # {}
  <2>1. FiniteSubsetsOf(S) = SUBSET S
    BY FS_FiniteSubsetsOfFinite
  <2>2. \A v \in S : Above(v) \in SUBSET S
    OBVIOUS
  <2> HIDE DEF Above
  <2> QED BY <2>1, <2>2
<1>2. PICK X \in T : \A Y \in T : <<Y, X>> \notin StrictSubsetOrdering(S)
  <2>1. IsWellFoundedOn(StrictSubsetOrdering(S), FiniteSubsetsOf(S))
    BY FS_StrictSubsetOrderingWellFounded
  <2> HIDE DEF T
  <2> QED BY <1>1, <2>1, WFMin
<1>3. PICK v \in S : X = Above(v)
  OBVIOUS
<1>4. \A u \in S : ~Wins(u, v)
  <2> SUFFICES ASSUME NEW u \in S, Wins(u, v) PROVE FALSE
    OBVIOUS
  <2>1. u \in Above(v) /\ u \notin Above(u)
    BY DEF Wins, IsClock
  <2>2. Above(u) \subseteq Above(v)
    BY DEF Wins, IsClock
  <2>3. Above(u) \in T /\ Above(u) \subseteq S /\ Above(v) \subseteq S
    OBVIOUS
  <2>4. <<Above(u), Above(v)>> \in StrictSubsetOrdering(S)
    <3> HIDE DEF Above
    <3> QED BY <2>1, <2>2, <2>3 DEF StrictSubsetOrdering
  <2> QED BY <1>2, <1>3, <2>3, <2>4
<1> QED BY <1>4 DEF Latest

(***************************************************************************)
(* Taking a page in one step is resolving its envelopes one by one         *)
(* (resolve of merge.rs:30), in whatever order: of what was seen and one   *)
(* envelope more, the latest is what resolve chooses between the two.      *)
(***************************************************************************)
THEOREM MergingOneByOne ==
    ASSUME NEW S, IsFiniteSet(S), S # {}, \A v \in S : IsClock(v),
           NEW e, IsClock(e)
    PROVE  SameClock(Latest(S \cup {e}),
                     IF Resolve(Latest(S), e) = "TakeRemote" THEN e ELSE Latest(S))
<1> DEFINE T == S \cup {e}
<1>1. IsFiniteSet(T) /\ \A v \in T : IsClock(v)
  BY FS_AddElement
<1>2. Latest(S) \in S /\ \A u \in S : ~Wins(u, Latest(S))
  BY LatestExists
<1>3. Latest(T) \in T /\ \A u \in T : ~Wins(u, Latest(T))
  BY <1>1, LatestExists
<1> DEFINE last == Latest(S)
           all == Latest(T)
<1>4. /\ IsClock(last) /\ IsClock(all)
      /\ last \in T /\ e \in T
      /\ all = e \/ (all \in S /\ ~Wins(all, last))
      /\ ~Wins(last, all) /\ ~Wins(e, all)
  BY <1>1, <1>2, <1>3
<1>5. Resolve(last, e) = "TakeRemote" <=> Wins(e, last)
  BY <1>4, ResolveIsWins
<1> HIDE DEF last, all, T
<1>6. CASE Wins(e, last)
  <2>1. all = e
    BY <1>4, <1>6 DEF Wins, IsClock
  <2> QED BY <1>5, <1>6, <2>1 DEF SameClock, last, all, T
<1>7. CASE ~Wins(e, last)
  <2>1. SameClock(all, last)
    <3>1. ~Wins(all, last)
      BY <1>4, <1>7
    <3> QED BY <1>4, <3>1, LosesThenCovers DEF Covers
  <2> QED BY <1>5, <1>7, <2>1 DEF last, all, T
<1> QED BY <1>6, <1>7

\* A merge keeps what the device has unless the page has a later version, and
\* ends with a version at least as late as any in the page, filed where it is.
LEMMA MergedCovers ==
    ASSUME TypeOK, PagesAreStored, NEW d \in Devices, NEW i \in Ids, pull[d] # None
    PROVE  /\ Fresher(d, i) = {} => Merged(d, i) = local[d][i]
           /\ Fresher(d, i) # {} => /\ Merged(d, i) \in Clock
                                    /\ local[d][i] # None => Wins(Merged(d, i), local[d][i])
                                    /\ \E e \in pull[d].envelopes :
                                          /\ e.id = i /\ SameClock(Merged(d, i), e)
                                          /\ MergedPlace(d, i) = PlaceOf(e)
           /\ MergedPlace(d, i) \in Places
           /\ local[d][i] # None => Covers(Merged(d, i), local[d][i])
           /\ \A e \in pull[d].envelopes : e.id = i =>
                 Merged(d, i) # None /\ Covers(Merged(d, i), e)
<1> DEFINE S == Fresher(d, i)
           has == local[d][i]
<1>1. /\ local[d][i] \in Clock \cup {None}
      /\ pull[d].envelopes \subseteq Version
  BY DEF TypeOK, Page
<1>2. \A e \in pull[d].envelopes : IsClock(e) /\ e.device_id \in Devices
  BY <1>1, RecordTableAssumption DEF IsClock, Version
<1>3. has # None => IsClock(has)
  BY <1>1, ClockIsClock
<1>4. /\ S \subseteq pull[d].envelopes
      /\ \A e \in pull[d].envelopes :
            e \in S <=> e.id = i /\ (has = None \/ Wins(e, has))
  <2>1. \A e \in pull[d].envelopes : has # None =>
           (Resolve(has, e) = "TakeRemote" <=> Wins(e, has))
    BY <1>2, <1>3, ResolveIsWins
  <2> QED BY <2>1 DEF Fresher
<1> HIDE DEF S, has
<1>5. CASE S = {}
  <2>1. Merged(d, i) = has
    BY <1>5 DEF Merged, S, has
  <2>2. \A e \in pull[d].envelopes : e.id = i => has # None /\ Covers(has, e)
    BY <1>2, <1>3, <1>4, <1>5, LosesThenCovers
  <2>3. MergedPlace(d, i) \in Places
    BY <1>5 DEF MergedPlace, S, TypeOK
  <2> QED BY <1>5, <2>1, <2>2, <2>3, CoversReflexive DEF S, has
<1>6. CASE S # {}
  <2>1. IsFiniteSet(S)
    BY <1>4, FS_Subset DEF PagesAreStored
  <2>2. Latest(S) \in S /\ \A u \in S : ~Wins(u, Latest(S))
    BY <1>2, <1>4, <1>6, <2>1, LatestExists
  <2>3. /\ Merged(d, i) = [updated_at |-> Latest(S).updated_at,
                        device_id  |-> Latest(S).device_id]
        /\ MergedPlace(d, i) = PlaceOf(Latest(S))
    BY <1>6 DEF Merged, MergedPlace, S
  <2>4. PICK e \in S : e = Latest(S)
    BY <2>2
  <2>5. /\ e \in pull[d].envelopes /\ e.id = i
        /\ has # None => Wins(e, has)
        /\ \A u \in S : ~Wins(u, e)
        /\ Merged(d, i) = [updated_at |-> e.updated_at, device_id |-> e.device_id]
        /\ MergedPlace(d, i) = PlaceOf(e)
    BY <1>4, <2>2, <2>3, <2>4
  <2>6. Merged(d, i) \in Clock /\ SameClock(Merged(d, i), e) /\ IsClock(e)
    BY <1>1, <1>2, <2>5 DEF Clock, SameClock, IsClock
  <2>10. PlaceOf(e) \in Places
    BY <1>1, <2>5 DEF PlaceOf, Places, Version
  <2>7. Merged(d, i) # None /\ IsClock(Merged(d, i))
    BY <2>6, ClockIsClock
  <2>8. has # None => Wins(Merged(d, i), has) /\ Covers(Merged(d, i), has)
    BY <2>5, <2>6 DEF Covers, Wins, SameClock
  <2>9. ASSUME NEW u \in pull[d].envelopes, u.id = i
        PROVE  Covers(Merged(d, i), u)
    <3>1. CASE u \in S
      <4>1. Covers(e, u)
        BY <1>2, <2>5, <2>6, <3>1, LosesThenCovers
      <4> QED BY <2>6, <4>1 DEF Covers, Wins, SameClock
    <3>2. CASE u \notin S
      <4>1. has # None /\ ~Wins(u, has)
        BY <1>4, <2>9, <3>2
      <4>2. Covers(has, u)
        BY <1>2, <1>3, <4>1, LosesThenCovers
      <4> QED BY <1>2, <1>3, <2>7, <2>8, <4>1, <4>2, CoversTransitive
    <3> QED BY <3>1, <3>2
  <2> QED BY <1>6, <2>5, <2>6, <2>7, <2>8, <2>9, <2>10 DEF S, has
<1> QED BY <1>5, <1>6

-----------------------------------------------------------------------------
\* The server's steps, as the devices see them.

\* A handler works for the account it started with until it ends.
LEMMA PushStepLocals ==
    ASSUME ServerIInv, NEW w \in Workers, PushStep(w)
    PROVE  \A v \in Workers : push[v] # None =>
              push'[v] # None /\ push'[v].account = push[v].account
<1>1. Working(w) /\ push[w] \in Push /\ push[w] # None
  <2>1. Working(w)
    BY DEF PushStep, RefuseEnvelope, AskWritable, RefuseNonMember, AskOwner,
           PutEnvelope, Passed
  <2> QED BY <2>1, WorkingTyped DEF Working, ServerIInv
<1>2. ASSUME NEW answer \in Refusals \cup {"Accepted", "Stale"},
             push' = Answered(w, answer)
      PROVE  \A v \in Workers : push[v] # None =>
                push'[v] # None /\ push'[v].account = push[v].account
  BY <1>1, <1>2, AnsweredLocals DEF ServerIInv
<1>3. CASE RefuseEnvelope(w)
  BY <1>2, <1>3 DEF RefuseEnvelope, Refuse, Refusals
<1>4. CASE RefuseNonMember(w)
  BY <1>2, <1>4 DEF RefuseNonMember, Refusals
<1>5. CASE PutEnvelope(w)
  BY <1>2, <1>5 DEF PutEnvelope
<1>6. CASE AskWritable(w) \/ AskOwner(w)
  <2>1. \A v \in Workers \ {w} : push'[v] = push[v]
    BY <1>6 DEF AskWritable, AskOwner, ServerTypeOK, ServerIInv
  <2>2. push'[w] \in Push /\ push'[w].account = push[w].account
    BY <1>6, AskWritableIInv, AskOwnerIInv
  <2> QED BY <2>1, <2>2
<1> QED BY <1>3, <1>4, <1>5, <1>6 DEF PushStep

\* A push step only moves rows forward.
LEMMA PushStepAdvances ==
    ASSUME ServerIInv, NEW w \in Workers, PushStep(w)
    PROVE  Advances(rows, rows') /\ next' \in Nat /\ next' >= next
<1>1. CASE PutEnvelope(w)
  BY <1>1, PutEnvelopeStep DEF ServerIInv, ServerTypeOK
<1>2. CASE ~PutEnvelope(w)
  <2>1. UNCHANGED <<rows, next>>
    BY <1>2 DEF PushStep, RefuseEnvelope, AskWritable, RefuseNonMember, AskOwner
  <2> QED BY <2>1 DEF Advances, ServerIInv, ServerTypeOK
<1> QED BY <1>1, <1>2

\* Rows that move forward keep what the devices rely on.
LEMMA ForwardKeepsStored ==
    ASSUME IInv, ServerTypeOK', Advances(rows, rows'),
           UNCHANGED <<local, dirty, pull>>
    PROVE  PagesAreStored' /\ CleanMeansStored'
<1>1. ASSUME NEW k \in Keys, NEW v, IsClock(v), Stored(rows, k, v)
      PROVE  Stored(rows', k, v)
  BY <1>1, AdvancesKeepsStored DEF IInv, ServerIInv, ServerTypeOK
<1>2. PagesAreStored'
  <2> SUFFICES ASSUME NEW d \in Devices, pull[d] # None
               PROVE  /\ IsFiniteSet(pull[d].envelopes)
                      /\ \A e \in pull[d].envelopes :
                            \E k \in Keys : k[2] = e.id /\ Stored(rows', k, e)
    BY DEF PagesAreStored
  <2>1. pull[d].envelopes \subseteq Version
    BY DEF IInv, TypeOK, Page
  <2>2. \A e \in pull[d].envelopes : IsClock(e)
    BY <2>1, RecordTableAssumption DEF IsClock, Version
  <2> QED BY <1>1, <2>2 DEF IInv, PagesAreStored
<1>3. CleanMeansStored'
  <2> SUFFICES ASSUME NEW d \in Devices, NEW i \in Ids, local[d][i] # None,
                      i \notin dirty[d]
               PROVE  \E k \in Keys : k[2] = i /\ Stored(rows', k, local[d][i])
    BY DEF CleanMeansStored
  <2>1. IsClock(local[d][i])
    BY ClockIsClock DEF IInv, TypeOK
  <2> QED BY <1>1, <2>1 DEF IInv, CleanMeansStored
<1> QED BY <1>2, <1>3

-----------------------------------------------------------------------------
\* Every step preserves IInv.

LEMMA InitIInv == Init => IInv
<1> SUFFICES ASSUME Init PROVE IInv
  OBVIOUS
<1>1. rows \in [Keys -> Row \cup {None}] /\ \A k \in Keys : rows[k] = None
  BY DEF Init, EmptyTable
<1>2. shares \in [Groups \X Accounts -> Accounts \cup {None}]
  BY DEF Init
<1>3. ServerIInv
  <2>1. push \in [Workers -> Push \cup {None}] /\ \A w \in Workers : push[w] = None
    BY DEF Init
  <2>2. ServerTypeOK
    <3>1. next = 0 /\ now = 0
      BY DEF Init
    <3> QED BY <1>1, <1>2, <2>1, <3>1 DEF ServerTypeOK
  <2>3. SeqsBelowNext /\ AnswersAreDurable /\ AnsweredOwnersKnown
    BY <1>1, <2>1 DEF SeqsBelowNext, AnswersAreDurable, AnsweredOwnersKnown
  <2>4. StoredClocksArePlausible
    BY <1>1, <2>1 DEF StoredClocksArePlausible
  <2> QED BY <2>2, <2>3, <2>4 DEF ServerIInv
<1>4. TypeOK
  BY <1>3 DEF Init, ServerIInv, TypeOK, Personal, Places
<1>5. CursorsBelowNext /\ DirtyIsLocal /\ PagesAreStored /\ CleanMeansStored
  BY DEF Init, CursorsBelowNext, DirtyIsLocal, PagesAreStored, CleanMeansStored
<1> QED BY <1>3, <1>4, <1>5 DEF IInv

\* What the devices do alone leaves the server's invariant as it is.
LEMMA ServerUnchanged ==
    ASSUME ServerIInv, UNCHANGED serverVars
    PROVE  ServerIInv'
BY DEF serverVars, ServerIInv, ServerTypeOK, SeqsBelowNext, AnswersAreDurable,
       AnsweredOwnersKnown, StoredClocksArePlausible, Stored

LEMMA EditIInv ==
    ASSUME IInv, NEW d \in Devices, NEW i \in Ids, Edit(d, i)
    PROVE  IInv'
<1> DEFINE new == [updated_at |-> Stamp(d, i), device_id |-> d]
<1>1. /\ local' = [local EXCEPT ![d][i] = new]
      /\ dirty' = [dirty EXCEPT ![d] = @ \cup {i}]
      /\ edits' = edits + 1
      /\ UNCHANGED <<serverVars, cursor, waiting, pull, losses>>
  BY DEF Edit
<1>2. new \in Clock
  BY StampIsLater DEF IInv, Clock
<1>11. place' \in [Devices -> [Ids -> Places]]
  <2>1. PICK p \in EditsInto(d, i) : place' = [place EXCEPT ![d][i] = p]
    BY DEF Edit
  <2>2. p \in Places /\ place \in [Devices -> [Ids -> Places]]
    BY DEF EditsInto, IInv, TypeOK
  <2> QED BY <2>1, <2>2
<1> HIDE DEF new
<1>3. TypeOK /\ ServerIInv'
  BY <1>1, ServerUnchanged DEF IInv
<1>4. /\ local' \in [Devices -> [Ids -> Clock \cup {None}]]
      /\ dirty' \in [Devices -> SUBSET Ids]
  BY <1>1, <1>2, <1>3 DEF TypeOK
<1>5. TypeOK'
  BY <1>1, <1>3, <1>4, <1>11 DEF TypeOK, serverVars, ServerIInv
<1>6. /\ local'[d][i] # None /\ i \in dirty'[d]
      /\ \A e \in Devices, j \in Ids : ~(e = d /\ j = i) =>
            local'[e][j] = local[e][j] /\ (j \in dirty'[e] <=> j \in dirty[e])
  BY <1>1, <1>2, <1>3 DEF TypeOK
<1>7. DirtyIsLocal'
  <2> SUFFICES ASSUME NEW e \in Devices, NEW j \in dirty'[e]
               PROVE  local'[e][j] # None
    BY DEF DirtyIsLocal
  <2>1. j \in Ids
    BY <1>4
  <2> QED BY <1>6, <2>1 DEF IInv, DirtyIsLocal
<1>8. PagesAreStored'
  BY <1>1 DEF IInv, PagesAreStored, serverVars, Stored
<1>9. CleanMeansStored'
  BY <1>1, <1>6 DEF IInv, CleanMeansStored, serverVars, Stored
<1>10. CursorsBelowNext'
  BY <1>1 DEF IInv, CursorsBelowNext, serverVars
<1> QED BY <1>3, <1>5, <1>7, <1>8, <1>9, <1>10 DEF IInv

\* Steps that change neither the table nor what the devices keep.
LEMMA KeptIInv ==
    ASSUME IInv, ServerIInv', TypeOK',
           UNCHANGED <<rows, next, local, dirty, cursor>>,
           \A d \in Devices : pull'[d] \in {None, pull[d]}
    PROVE  IInv'
<1>1. DirtyIsLocal'
  BY DEF IInv, DirtyIsLocal
<1>2. PagesAreStored'
  BY DEF IInv, PagesAreStored, Stored
<1>3. CleanMeansStored'
  BY DEF IInv, CleanMeansStored, Stored
<1>4. CursorsBelowNext'
  BY DEF IInv, CursorsBelowNext
<1> QED BY <1>1, <1>2, <1>3, <1>4 DEF IInv

LEMMA BeginPushIInv ==
    ASSUME IInv, NEW d \in Devices, NEW w \in Workers, BeginPush(d, w)
    PROVE  IInv'
<1>1. PICK batch \in Seq(Envelope) : StartPush(w, AccountOf[d], batch)
  BY BatchTyped DEF BeginPush, IInv
<1>2. ServerIInv'
  BY <1>1, StartPushIInv DEF IInv
<1>3. /\ waiting' = [waiting EXCEPT ![d] = w]
      /\ UNCHANGED <<rows, next, local, place, dirty, cursor, pull, edits, losses>>
  BY <1>1 DEF BeginPush, StartPush
<1>4. /\ push[w] = None /\ push'[w] # None /\ push'[w].account = AccountOf[d]
      /\ \A v \in Workers \ {w} : push'[v] = push[v]
  <2> DEFINE new == [account |-> AccountOf[d], now |-> now, todo |-> batch,
                     writable |-> [g \in Groups |-> Unasked],
                     owners |-> [g \in Groups |-> Unasked], answers |-> {}]
  <2>1. push[w] = None /\ push' = [push EXCEPT ![w] = new] /\ new \in Push
    BY <1>1 DEF StartPush, IInv, ServerIInv, ServerTypeOK, Push
  <2>2. new.account = AccountOf[d]
    OBVIOUS
  <2> HIDE DEF new
  <2> QED BY <2>1, <2>2 DEF IInv, ServerIInv, ServerTypeOK
<1>5. waiting' \in [Devices -> Workers \cup {None}]
  BY <1>3 DEF IInv, TypeOK
<1>6. ASSUME NEW e \in Devices, waiting'[e] # None
      PROVE  /\ push'[waiting'[e]] # None /\ push'[waiting'[e]].account = AccountOf[e]
             /\ \A c \in Devices : waiting'[e] = waiting'[c] => e = c
  <2>1. waiting'[e] = IF e = d THEN w ELSE waiting[e]
    BY <1>3, <1>5 DEF IInv, TypeOK
  <2>2. \A c \in Devices : waiting[c] # w
    BY <1>4, SyncServerAssumption DEF IInv, TypeOK
  <2>3. \A c \in Devices : waiting'[c] = IF c = d THEN w ELSE waiting[c]
    BY <1>3 DEF IInv, TypeOK
  <2>4. CASE e = d
    BY <1>4, <2>1, <2>2, <2>3, <2>4
  <2>5. CASE e # d
    <3>1. waiting[e] \in Workers \ {w} /\ waiting[e] # None
      BY <1>6, <2>1, <2>2, <2>5 DEF IInv, TypeOK
    <3>2. push'[waiting'[e]] = push[waiting[e]]
      BY <1>4, <2>1, <2>5, <3>1
    <3>3. push[waiting[e]] # None /\ push[waiting[e]].account = AccountOf[e]
      BY <3>1 DEF IInv, TypeOK
    <3>4. \A c \in Devices : waiting'[e] = waiting'[c] => e = c
      BY <2>1, <2>3, <2>5, <3>1 DEF IInv, TypeOK
    <3> QED BY <3>2, <3>3, <3>4
  <2> QED BY <2>4, <2>5
<1>7. ServerTypeOK' /\ UNCHANGED <<local, place, dirty, cursor, pull, edits, losses>>
  BY <1>2, <1>3 DEF ServerIInv
<1>8. TypeOK'
  BY <1>5, <1>6, <1>7 DEF IInv, TypeOK
<1> QED BY <1>2, <1>3, <1>8, KeptIInv DEF IInv, TypeOK

\* A finished or cancelled handler leaves nothing that a device still awaits.
LEMMA EndedTypeOK ==
    ASSUME IInv, NEW w \in Workers, FinishPush(w) \/ CancelPush(w),
           waiting' \in [Devices -> Workers \cup {None}],
           \A d \in Devices : waiting'[d] \in {None, waiting[d]} \ {w},
           local' \in [Devices -> [Ids -> Clock \cup {None}]],
           dirty' \in [Devices -> SUBSET Ids],
           losses' \in Nat, UNCHANGED <<place, cursor, pull, edits>>
    PROVE  ServerIInv' /\ TypeOK'
<1>1. ServerIInv'
  BY EndPushIInv DEF IInv
<1>2. \A v \in Workers \ {w} : push'[v] = push[v]
  BY DEF FinishPush, CancelPush, IInv, ServerIInv, ServerTypeOK
<1>3. ASSUME NEW d \in Devices, waiting'[d] # None
      PROVE  /\ push'[waiting'[d]] # None
             /\ push'[waiting'[d]].account = AccountOf[d]
             /\ \A e \in Devices : waiting'[d] = waiting'[e] => d = e
  <2>1. waiting'[d] = waiting[d] /\ waiting[d] \in Workers \ {w}
    BY <1>3
  <2>2. push'[waiting'[d]] = push[waiting[d]]
    BY <1>2, <2>1
  <2>3. \A e \in Devices : waiting'[d] = waiting'[e] => waiting[d] = waiting[e]
    BY <1>3, <2>1
  <2> QED BY <1>3, <2>1, <2>2, <2>3 DEF IInv, TypeOK
<1>4. /\ place' \in [Devices -> [Ids -> Places]]
      /\ cursor' \in [Devices -> Nat] /\ pull' \in [Devices -> Page \cup {None}]
      /\ edits' \in Nat
  BY DEF IInv, TypeOK
<1> QED BY <1>1, <1>3, <1>4 DEF TypeOK, ServerIInv

\* A device calls clean what was answered and is still the copy it pushed.
LEMMA ReceivePushIInv ==
    ASSUME IInv, NEW d \in Devices, ReceivePush(d)
    PROVE  IInv'
<1> DEFINE w == waiting[d]
           p == push[w]
<1>1. /\ w \in Workers /\ FinishPush(w)
      /\ dirty' = [dirty EXCEPT ![d] = dirty[d] \ Settled(d, p.answers)]
      /\ waiting' = [waiting EXCEPT ![d] = None]
      /\ UNCHANGED <<rows, next, local, place, cursor, pull, edits, losses>>
  BY DEF ReceivePush, FinishPush, IInv, TypeOK
<1>2. p \in Push /\ p # None
  BY <1>1 DEF IInv, TypeOK, ServerTypeOK, FinishPush
<1>3. /\ dirty' \in [Devices -> SUBSET Ids]
      /\ dirty'[d] = dirty[d] \ Settled(d, p.answers)
      /\ \A e \in Devices : dirty'[e] \subseteq dirty[e]
      /\ \A e \in Devices \ {d} : dirty'[e] = dirty[e]
  BY <1>1 DEF IInv, TypeOK
<1>4. /\ waiting' \in [Devices -> Workers \cup {None}]
      /\ \A e \in Devices : waiting'[e] \in {None, waiting[e]} \ {w}
  BY <1>1, SyncServerAssumption DEF IInv, TypeOK
<1>5. ServerIInv' /\ TypeOK'
  <2>1. /\ local' \in [Devices -> [Ids -> Clock \cup {None}]]
        /\ losses' \in Nat
    BY <1>1 DEF IInv, TypeOK
  <2> HIDE DEF w
  <2> QED BY <1>1, <1>3, <1>4, <2>1, EndedTypeOK
<1>6. DirtyIsLocal'
  BY <1>1, <1>3 DEF IInv, DirtyIsLocal
<1>7. PagesAreStored'
  BY <1>1 DEF IInv, PagesAreStored, Stored
<1>8. CleanMeansStored'
  <2> SUFFICES ASSUME NEW e \in Devices, NEW i \in Ids, local[e][i] # None,
                      i \notin dirty'[e]
               PROVE  \E k \in Keys : k[2] = i /\ Stored(rows, k, local[e][i])
    BY <1>1 DEF CleanMeansStored, Stored
  <2>1. CASE i \notin dirty[e]
    BY <2>1 DEF IInv, CleanMeansStored
  <2>2. CASE i \in dirty[e]
    <3>1. e = d /\ i \in Settled(d, p.answers)
      BY <1>3, <2>2
    <3>2. PICK a \in p.answers : /\ a.env.id = i
                                 /\ a.answer \in {"Accepted", "Stale"}
                                 /\ SameClock(local[d][i], a.env)
      BY <3>1 DEF Settled
    <3>3. a.env \in Envelope
      BY <1>2 DEF Push
    <3> DEFINE key == KeyOf(StorageAccount(p, a.env), a.env)
    <3>4. key \in Keys
      <4>1. a.env.key_ref # None => p.owners[a.env.key_ref] # Unasked
        BY <1>1, <1>2, <3>2 DEF IInv, ServerIInv, AnsweredOwnersKnown
      <4> QED BY <1>2, <3>3, <4>1, RoutedKey
    <3>5. key[2] = i
      BY <3>2 DEF KeyOf
    <3>6. rows[key] # None /\ Covers(rows[key], a.env)
      BY <1>1, <1>2, <3>2 DEF IInv, ServerIInv, AnswersAreDurable, Stored
    <3>7. Covers(rows[key], local[d][i])
      BY <3>2, <3>6 DEF Covers, Wins, SameClock
    <3> QED BY <3>1, <3>4, <3>5, <3>6, <3>7 DEF Stored
  <2> QED BY <2>1, <2>2
<1>9. CursorsBelowNext'
  BY <1>1 DEF IInv, CursorsBelowNext
<1> QED BY <1>5, <1>6, <1>7, <1>8, <1>9 DEF IInv

LEMMA EndedIInv ==
    ASSUME IInv, NEW w \in Workers, FinishUnheard(w) \/ LoseHandler(w)
    PROVE  IInv'
<1>1. /\ FinishPush(w) \/ CancelPush(w)
      /\ UNCHANGED <<rows, next, local, place, dirty, cursor, pull, edits>>
  BY DEF FinishUnheard, LoseHandler, FinishPush, CancelPush, deviceVars
<1>2. /\ waiting' \in [Devices -> Workers \cup {None}]
      /\ \A d \in Devices : waiting'[d] \in {None, waiting[d]} \ {w}
      /\ losses' \in Nat
  <2>1. CASE FinishUnheard(w)
    BY <2>1 DEF FinishUnheard, Awaited, deviceVars, IInv, TypeOK
  <2>2. CASE LoseHandler(w)
    BY <2>2, SyncServerAssumption DEF LoseHandler, IInv, TypeOK
  <2> QED BY <2>1, <2>2
<1>3. /\ local' \in [Devices -> [Ids -> Clock \cup {None}]]
      /\ dirty' \in [Devices -> SUBSET Ids]
  BY <1>1 DEF IInv, TypeOK
<1>4. ServerIInv' /\ TypeOK'
  BY <1>1, <1>2, <1>3, EndedTypeOK
<1> QED BY <1>1, <1>4, KeptIInv

LEMMA AbandonedIInv ==
    ASSUME IInv, NEW d \in Devices, AbandonPush(d) \/ LosePull(d)
    PROVE  IInv'
<1>1. /\ UNCHANGED <<serverVars, local, place, dirty, cursor, edits>>
      /\ waiting' \in {waiting, [waiting EXCEPT ![d] = None]}
      /\ pull' \in {pull, [pull EXCEPT ![d] = None]}
      /\ losses' = losses + 1
  BY DEF AbandonPush, LosePull
<1>2. ServerIInv'
  BY <1>1, ServerUnchanged DEF IInv
<1>3. \A e \in Devices : /\ waiting'[e] \in {None, waiting[e]}
                         /\ pull'[e] \in {None, pull[e]}
  BY <1>1 DEF IInv, TypeOK
<1>4. /\ waiting' \in [Devices -> Workers \cup {None}]
      /\ pull' \in [Devices -> Page \cup {None}]
  BY <1>1 DEF IInv, TypeOK
<1>5. TypeOK'
  BY <1>1, <1>2, <1>3, <1>4 DEF IInv, TypeOK, ServerIInv, serverVars
<1> QED BY <1>1, <1>2, <1>3, <1>5, KeptIInv DEF serverVars

\* The page that GET /v1/sync reads.
LEMMA ServedPage ==
    ASSUME IInv, NEW d \in Devices, ServePull(d)
    PROVE  LET page == PullPage(rows, AccountOf[d], MemberOf(AccountOf[d]), cursor[d])
           IN  /\ pull' = [pull EXCEPT ![d] =
                              [cursor |-> page.cursor, more |-> page.more,
                               envelopes |-> {SentEnvelope(k) : k \in page.keys}]]
               /\ page.cursor \in Nat /\ page.cursor \in cursor[d]..next
               /\ page.more \in BOOLEAN
               /\ IsFiniteSet(page.keys)
               /\ \A k \in page.keys :
                     /\ k \in Keys /\ rows[k] \in Row
                     /\ k[1] = AccountOf[d]
                           \/ rows[k].group_id \in MemberOf(AccountOf[d])
               /\ \A k \in Keys :
                     /\ rows[k] # None
                     /\ k[1] = AccountOf[d]
                           \/ rows[k].group_id \in MemberOf(AccountOf[d])
                     /\ rows[k].seq \in cursor[d] + 1 .. page.cursor
                     => k \in page.keys
<1> DEFINE memberOf == MemberOf(AccountOf[d])
           page == PullPage(rows, AccountOf[d], memberOf, cursor[d])
           visible == Visible(rows, AccountOf[d], memberOf, cursor[d])
<1>1. /\ Table(rows, next) /\ AccountOf[d] \in Accounts
      /\ next \in Nat /\ cursor[d] \in 0..next /\ cursor[d] \in Nat
  BY ServerTable DEF IInv, ServerIInv, ServerTypeOK, TypeOK, CursorsBelowNext
<1>2. /\ page.keys \subseteq visible
      /\ page.cursor \in cursor[d]..next
      /\ \A k \in visible : k \in page.keys <=> rows[k].seq <= page.cursor
  BY <1>1, PageHasNoHoles
<1>3. page.more \in BOOLEAN
  BY DEF PullPage
<1>4. pull' = [pull EXCEPT ![d] =
                  [cursor |-> page.cursor, more |-> page.more,
                   envelopes |-> {SentEnvelope(k) : k \in page.keys}]]
  BY DEF ServePull
<1> HIDE DEF page
<1>5. visible \in SUBSET Keys /\ \A k \in visible : rows[k] \in Row
  BY DEF Visible, IInv, ServerIInv, ServerTypeOK
<1>6. IsFiniteSet(page.keys)
  BY <1>2, <1>5, KeysFinite, FS_Subset
<1>7. ASSUME NEW k \in Keys, rows[k] # None,
             k[1] = AccountOf[d] \/ rows[k].group_id \in memberOf,
             rows[k].seq \in cursor[d] + 1 .. page.cursor
      PROVE  k \in page.keys
  <2>1. rows[k].seq > cursor[d] /\ rows[k].seq <= page.cursor
    BY <1>1, <1>2, <1>7
  <2>2. k \in visible
    BY <1>7, <2>1 DEF Visible
  <2> QED BY <1>2, <2>1, <2>2
<1>8. page.cursor \in Nat
  BY <1>1, <1>2
<1>9. ASSUME NEW k \in page.keys
      PROVE  /\ k \in Keys /\ rows[k] \in Row
             /\ k[1] = AccountOf[d] \/ rows[k].group_id \in memberOf
  <2>1. k \in visible
    BY <1>2
  <2>2. k[1] = AccountOf[d] \/ rows[k].group_id \in memberOf
    BY <2>1 DEF Visible
  <2> QED BY <1>5, <2>1, <2>2
<1> HIDE DEF visible, memberOf
<1> QED BY <1>2, <1>3, <1>4, <1>6, <1>7, <1>8, <1>9 DEF page, memberOf

LEMMA ServePullIInv ==
    ASSUME IInv, NEW d \in Devices, ServePull(d)
    PROVE  IInv'
<1> DEFINE page == PullPage(rows, AccountOf[d], MemberOf(AccountOf[d]), cursor[d])
           sent == {SentEnvelope(k) : k \in page.keys}
<1>1. /\ pull' = [pull EXCEPT ![d] = [cursor |-> page.cursor, more |-> page.more,
                                     envelopes |-> sent]]
      /\ page.cursor \in Nat /\ page.cursor \in cursor[d]..next
      /\ page.more \in BOOLEAN
      /\ IsFiniteSet(page.keys)
      /\ \A k \in page.keys : k \in Keys /\ rows[k] \in Row
  BY ServedPage
<1>2. UNCHANGED <<serverVars, local, place, dirty, cursor, waiting, edits, losses>>
  BY DEF ServePull
<1> HIDE DEF page
<1>3. sent \subseteq Version
  BY <1>1 DEF SentEnvelope, Keys, Row, Version
<1>4. IsFiniteSet(sent)
  <2> DEFINE f == [k \in page.keys |-> SentEnvelope(k)]
  <2>1. f \in Surjection(page.keys, sent)
    BY DEF Surjection
  <2> HIDE DEF f, sent
  <2> QED BY <1>1, <2>1, FS_Surjection
<1>5. \A e \in sent : \E k \in Keys : k[2] = e.id /\ Stored(rows, k, e)
  <2> SUFFICES ASSUME NEW k \in page.keys
               PROVE  /\ k[2] = SentEnvelope(k).id
                      /\ Stored(rows, k, SentEnvelope(k))
    BY <1>1
  <2>1. rows[k] # None /\ k[2] = SentEnvelope(k).id
    BY <1>1 DEF SentEnvelope
  <2>2. SameClock(rows[k], SentEnvelope(k))
    BY DEF SentEnvelope, SameClock
  <2> QED BY <2>1, <2>2 DEF Stored, Covers
<1> HIDE DEF sent
<1>6. /\ pull' \in [Devices -> Page \cup {None}]
      /\ pull'[d].cursor = page.cursor /\ pull'[d].envelopes = sent
      /\ \A e \in Devices \ {d} : pull'[e] = pull[e]
  BY <1>1, <1>3 DEF IInv, TypeOK, Page
<1>7. ServerIInv'
  BY <1>2, ServerUnchanged DEF IInv
<1>8. TypeOK'
  BY <1>2, <1>6, <1>7 DEF IInv, TypeOK, ServerIInv, serverVars
<1>9. CursorsBelowNext'
  BY <1>1, <1>2, <1>6 DEF IInv, CursorsBelowNext, serverVars
<1>10. DirtyIsLocal' /\ CleanMeansStored'
  BY <1>2 DEF IInv, DirtyIsLocal, CleanMeansStored, serverVars, Stored
<1>11. PagesAreStored'
  BY <1>2, <1>4, <1>5, <1>6 DEF IInv, PagesAreStored, serverVars, Stored
<1> QED BY <1>7, <1>8, <1>9, <1>10, <1>11 DEF IInv

LEMMA ReceivePullIInv ==
    ASSUME IInv, NEW d \in Devices, ReceivePull(d)
    PROVE  IInv'
<1>1. /\ pull[d] # None
      /\ local' = [local EXCEPT ![d] = [i \in Ids |-> Merged(d, i)]]
      /\ place' = [place EXCEPT ![d] = [i \in Ids |-> MergedPlace(d, i)]]
      /\ dirty' = [dirty EXCEPT ![d] = {i \in dirty[d] : Fresher(d, i) = {}}]
      /\ cursor' = [cursor EXCEPT ![d] = pull[d].cursor]
      /\ pull' = [pull EXCEPT ![d] = None]
      /\ UNCHANGED <<serverVars, waiting, edits, losses>>
  BY DEF ReceivePull
<1>2. TypeOK /\ PagesAreStored /\ pull[d] \in Page
  BY <1>1 DEF IInv, TypeOK
<1>3. \A i \in Ids :
         /\ Fresher(d, i) = {} => Merged(d, i) = local[d][i]
         /\ Fresher(d, i) # {} => /\ Merged(d, i) \in Clock
                                  /\ \E e \in pull[d].envelopes :
                                        e.id = i /\ SameClock(Merged(d, i), e)
         /\ MergedPlace(d, i) \in Places
  BY <1>1, <1>2, MergedCovers
<1>4. /\ \A i \in Ids : local'[d][i] = Merged(d, i)
      /\ \A e \in Devices \ {d} : local'[e] = local[e] /\ dirty'[e] = dirty[e]
      /\ dirty'[d] = {i \in dirty[d] : Fresher(d, i) = {}}
      /\ dirty' \in [Devices -> SUBSET Ids]
  BY <1>1, <1>2 DEF TypeOK
<1>5. local' \in [Devices -> [Ids -> Clock \cup {None}]]
  <2>1. \A i \in Ids : local[d][i] \in Clock \cup {None}
    BY <1>2 DEF TypeOK
  <2>2. \A i \in Ids : Merged(d, i) \in Clock \cup {None}
    BY <1>3, <2>1
  <2>3. [i \in Ids |-> Merged(d, i)] \in [Ids -> Clock \cup {None}]
    BY <2>2
  <2> QED BY <1>1, <1>2, <2>3 DEF TypeOK
<1>13. place' \in [Devices -> [Ids -> Places]]
  BY <1>1, <1>2, <1>3 DEF TypeOK
<1>6. /\ cursor' \in [Devices -> Nat] /\ cursor'[d] = pull[d].cursor
      /\ \A e \in Devices \ {d} : cursor'[e] = cursor[e]
      /\ pull' \in [Devices -> Page \cup {None}] /\ pull'[d] = None
      /\ \A e \in Devices \ {d} : pull'[e] = pull[e]
  BY <1>1, <1>2 DEF TypeOK, Page
<1>7. ServerIInv'
  BY <1>1, ServerUnchanged DEF IInv
<1>8. TypeOK'
  BY <1>1, <1>2, <1>4, <1>5, <1>6, <1>7, <1>13 DEF TypeOK, ServerIInv, serverVars
<1>9. CursorsBelowNext'
  BY <1>1, <1>6 DEF IInv, CursorsBelowNext, serverVars, TypeOK, ServerTypeOK
<1>10. DirtyIsLocal'
  <2> SUFFICES ASSUME NEW e \in Devices, NEW i \in dirty'[e]
               PROVE  local'[e][i] # None
    BY DEF DirtyIsLocal
  <2>1. i \in dirty[e] /\ i \in Ids
    BY <1>2, <1>4 DEF TypeOK
  <2>2. local[e][i] # None
    BY <2>1 DEF IInv, DirtyIsLocal
  <2> QED BY <1>3, <1>4, <2>1, <2>2
<1>11. PagesAreStored'
  BY <1>1, <1>2, <1>6 DEF PagesAreStored, serverVars, Stored
<1>12. CleanMeansStored'
  <2> SUFFICES ASSUME NEW e \in Devices, NEW i \in Ids, local'[e][i] # None,
                      i \notin dirty'[e]
               PROVE  \E k \in Keys : k[2] = i /\ Stored(rows, k, local'[e][i])
    BY <1>1 DEF CleanMeansStored, Stored, serverVars
  <2>1. CASE e = d /\ Fresher(d, i) # {}
    <3>1. PICK v \in pull[d].envelopes : v.id = i /\ SameClock(local'[d][i], v)
      BY <1>3, <1>4, <2>1
    <3>2. PICK k \in Keys : k[2] = i /\ Stored(rows, k, v)
      BY <1>1, <1>2, <3>1 DEF PagesAreStored
    <3>3. Stored(rows, k, local'[d][i])
      BY <3>1, <3>2 DEF Stored, Covers, Wins, SameClock
    <3> QED BY <2>1, <3>2, <3>3
  <2>2. CASE ~(e = d /\ Fresher(d, i) # {})
    <3>1. local'[e][i] = local[e][i] /\ i \notin dirty[e]
      BY <1>3, <1>4, <2>2
    <3> QED BY <3>1 DEF IInv, CleanMeansStored
  <2> QED BY <2>1, <2>2
<1> QED BY <1>7, <1>8, <1>9, <1>10, <1>11, <1>12 DEF IInv

\* Steps of the server that leave the devices alone.
LEMMA ServerStepIInv ==
    ASSUME IInv, ServerIInv', UNCHANGED deviceVars,
           Advances(rows, rows'), next' \in Nat, next' >= next,
           \A w \in Workers : push[w] # None =>
               push'[w] # None /\ push'[w].account = push[w].account
    PROVE  IInv'
<1>1. ServerTypeOK'
  BY DEF ServerIInv
<1>2. TypeOK'
  <2>1. UNCHANGED <<local, place, dirty, cursor, waiting, pull, edits, losses>>
    BY DEF deviceVars
  <2>2. ASSUME NEW d \in Devices, waiting[d] # None
        PROVE  push'[waiting[d]] # None /\ push'[waiting[d]].account = AccountOf[d]
    <3>1. waiting[d] \in Workers
      BY <2>2 DEF IInv, TypeOK
    <3>2. push[waiting[d]] # None /\ push[waiting[d]].account = AccountOf[d]
      BY <2>2 DEF IInv, TypeOK
    <3> QED BY <3>1, <3>2
  <2>3. /\ local' \in [Devices -> [Ids -> Clock \cup {None}]]
        /\ place' \in [Devices -> [Ids -> Places]]
        /\ dirty' \in [Devices -> SUBSET Ids]
        /\ cursor' \in [Devices -> Nat]
        /\ waiting' \in [Devices -> Workers \cup {None}]
        /\ pull' \in [Devices -> Page \cup {None}]
        /\ edits' \in Nat /\ losses' \in Nat
    BY <2>1 DEF IInv, TypeOK
  <2>4. \A d, e \in Devices :
           waiting'[d] # None /\ waiting'[d] = waiting'[e] => d = e
    BY <2>1 DEF IInv, TypeOK
  <2>5. \A d \in Devices : waiting'[d] # None =>
           push'[waiting'[d]] # None /\ push'[waiting'[d]].account = AccountOf[d]
    BY <2>1, <2>2
  <2> QED BY <1>1, <2>3, <2>4, <2>5 DEF TypeOK
<1>3. CursorsBelowNext'
  BY DEF IInv, CursorsBelowNext, TypeOK, Page, ServerTypeOK, deviceVars
<1>4. DirtyIsLocal'
  BY DEF IInv, DirtyIsLocal, deviceVars
<1>5. PagesAreStored' /\ CleanMeansStored'
  BY <1>1, ForwardKeepsStored DEF deviceVars
<1> QED BY <1>2, <1>3, <1>4, <1>5 DEF IInv

LEMMA HandleIInv ==
    ASSUME IInv, NEW w \in Workers, Handle(w)
    PROVE  IInv'
BY PushStepIInv, PushStepLocals, PushStepAdvances, ServerStepIInv DEF Handle, IInv

LEMMA OthersIInv ==
    ASSUME IInv, Share \/ Tick, UNCHANGED deviceVars
    PROVE  IInv'
<1>1. \/ \E o \in Accounts, g \in Groups, u \in Accounts :
            CreateShare(o, g, u) \/ RemoveShare(o, g, u)
      \/ Tick
  BY DEF Share
<1>2. ServerIInv'
  BY <1>1, OtherIInv DEF IInv
<1>3. UNCHANGED <<rows, next, push>>
  BY <1>1 DEF CreateShare, RemoveShare, Tick
<1>4. Advances(rows, rows') /\ next' \in Nat /\ next' >= next
  BY <1>3 DEF Advances, IInv, ServerIInv, ServerTypeOK
<1> QED BY <1>2, <1>3, <1>4, ServerStepIInv

-----------------------------------------------------------------------------
LEMMA NextIInv == IInv /\ [Next]_vars => IInv'
<1> SUFFICES ASSUME IInv, [Next]_vars PROVE IInv'
  OBVIOUS
<1>1. CASE \E d \in Devices, i \in Ids : Edit(d, i)
  BY <1>1, EditIInv
<1>2. CASE \E d \in Devices : ClientStep(d)
  BY <1>2, BeginPushIInv, ReceivePushIInv, ServePullIInv, ReceivePullIInv
     DEF ClientStep
<1>3. CASE \E w \in Workers : Handle(w) \/ FinishUnheard(w)
  BY <1>3, HandleIInv, EndedIInv
<1>4. CASE Loss
  BY <1>4, EndedIInv, AbandonedIInv DEF Loss
<1>5. CASE Share /\ UNCHANGED deviceVars
  BY <1>5, OthersIInv
<1>6. CASE now < MaxNow /\ Tick /\ UNCHANGED deviceVars
  BY <1>6, OthersIInv
<1>7. CASE UNCHANGED vars
  <2>1. UNCHANGED serverVars /\ UNCHANGED deviceVars
    BY <1>7 DEF vars
  <2>2. ServerIInv'
    BY <2>1, ServerUnchanged DEF IInv
  <2>3. Advances(rows, rows') /\ next' \in Nat /\ next' >= next
    BY <2>1 DEF Advances, IInv, ServerIInv, ServerTypeOK, serverVars
  <2>4. UNCHANGED push
    BY <2>1 DEF serverVars
  <2> QED BY <2>1, <2>2, <2>3, <2>4, ServerStepIInv
<1>8. CASE AllSynced
  BY <1>7, <1>8 DEF AllSynced
<1>9. CASE Next
  BY <1>1, <1>2, <1>3, <1>4, <1>5, <1>8, <1>6, <1>9 DEF Next
<1> QED BY <1>7, <1>9

(***************************************************************************)
(* Types, cursors, answers and what devices keep are as IInv says, of any  *)
(* number of devices and handlers, and whatever is lost on the way.        *)
(***************************************************************************)
THEOREM Invariance == Spec => []IInv
<1>1. Init => IInv
  BY InitIInv
<1>2. IInv /\ [Next]_vars => IInv'
  BY NextIInv
<1> QED BY <1>1, <1>2, PTL DEF Spec

(***************************************************************************)
(* No edit is lost: what a device no longer pushes, some row of the server *)
(* holds in that version or a later one (routes/sync.rs:123).              *)
(***************************************************************************)
THEOREM CleanIsStored == Spec => []CleanMeansStored
<1>1. IInv => CleanMeansStored
  BY DEF IInv
<1> QED BY <1>1, Invariance, PTL

(***************************************************************************)
(* An answer is true for as long as it is under way: what was answered     *)
(* Accepted or Stale (routes/sync.rs:117) is stored, in that version or a  *)
(* later one, under the owner the handler found, although other handlers   *)
(* share and unshare the group meanwhile.                                  *)
(***************************************************************************)
THEOREM AnswersStayTrue == Spec => []AnswersAreDurable
<1>1. IInv => AnswersAreDurable
  BY DEF IInv, ServerIInv
<1> QED BY <1>1, Invariance, PTL

(***************************************************************************)
(* No row is further ahead of the server's clock than the skew allows      *)
(* (merge.rs:51), although a batch is checked against an earlier instant,  *)
(* as long as the server's wall clock is not set back (Tick).              *)
(***************************************************************************)
THEOREM StoredClocksStayPlausible == Spec => []StoredClocksArePlausible
<1>1. IInv => StoredClocksArePlausible
  BY DEF IInv, ServerIInv
<1> QED BY <1>1, Invariance, PTL

(***************************************************************************)
(* Each row changes into strictly newer ones only, each at the end of the  *)
(* log (put_envelope), whichever handlers run side by side.                *)
(***************************************************************************)
THEOREM RowsOnlyAdvance == Spec => RowsAdvance
<1>1. IInv /\ [Next]_vars => [Advances(rows, rows')]_vars
  <2> SUFFICES ASSUME IInv, Next PROVE Advances(rows, rows')
    OBVIOUS
  <2>1. CASE \E w \in Workers : Handle(w)
    BY <2>1, PushStepAdvances DEF Handle, IInv
  <2>2. CASE ~\E w \in Workers : Handle(w)
    <3>1. UNCHANGED rows
      BY <2>2 DEF Next, Edit, ClientStep, BeginPush, StartPush, ReceivePush,
         FinishPush, ServePull, ReceivePull, FinishUnheard, Loss, LoseHandler,
         CancelPush, AbandonPush, LosePull, Share, CreateShare, RemoveShare,
         Tick, AllSynced, vars, serverVars
    <3> QED BY <3>1 DEF Advances
  <2> QED BY <2>1, <2>2
<1> QED BY <1>1, Invariance, PTL DEF Spec, RowsAdvance

\* The log of the Store trait, for every envelope a client may push.
Log == INSTANCE LwwLog WITH Envelopes <- Envelope

(***************************************************************************)
(* The handlers touch the records of a store by whole calls of             *)
(* put_envelope alone, however they interleave: the table and the sequence *)
(* behave as the log that the stores are shown to implement, so what is    *)
(* shown of the system with atomic calls holds over a store that runs a    *)
(* call as a transaction (store/mod.rs).                                   *)
(***************************************************************************)
THEOREM ServerRefinesLog == Spec => Log!Spec
<1>1. Init => Log!Init
  BY DEF Init, Log!Init, EmptyTable, Log!EmptyTable, Keys, Log!Keys
<1>2. IInv /\ [Next]_vars => [Log!Next]_<<rows, next>>
  <2> SUFFICES ASSUME IInv, [Next]_vars PROVE [Log!Next]_<<rows, next>>
    OBVIOUS
  <2>1. ASSUME NEW w \in Workers, PutEnvelope(w) PROVE Log!Next
    <3> DEFINE account == StorageAccount(push[w], Env(w))
    <3>1. /\ KeyOf(account, Env(w)) \in Keys /\ Env(w) \in Envelope
          /\ rows' = Upsert(rows, KeyOf(account, Env(w)), Env(w), next + 1)
          /\ next' = next + 1
      BY <2>1, PutEnvelopeStep DEF IInv
    <3> HIDE DEF account
    <3>2. account \in Accounts
      BY <3>1 DEF KeyOf, Keys
    <3>3. Log!Put(account, Env(w))
      BY <3>1 DEF Log!Put, Log!Upsert, Upsert, Log!Takes, Takes, Log!Wins, Wins,
             Log!AsRow, AsRow, Log!KeyOf, KeyOf
    <3> QED BY <3>1, <3>2, <3>3 DEF Log!Next
  <2>2. CASE ~\E w \in Workers : PutEnvelope(w)
    BY <2>2 DEF Next, Edit, ClientStep, BeginPush, StartPush, ReceivePush,
       FinishPush, ServePull, ReceivePull, Handle, PushStep, RefuseEnvelope,
       AskWritable, RefuseNonMember, AskOwner, FinishUnheard, Loss, LoseHandler,
       CancelPush, AbandonPush, LosePull, Share, CreateShare, RemoveShare,
       Tick, AllSynced, vars, serverVars
  <2> QED BY <2>1, <2>2
<1> QED BY <1>1, <1>2, Invariance, PTL DEF Spec, Log!Spec

-----------------------------------------------------------------------------
\* The rows a device is owed, and the cursor.

LEMMA InitSharesAsAsked == Init => SharesAsAsked
<1> SUFFICES ASSUME Init, NEW g \in Groups, NEW u \in Accounts
             PROVE  /\ shares[<<g, u>>] # None =>
                          <<shares[<<g, u>>], g, u>> \in InitialShares \cup ShareRequests
                    /\ InitialMember(g, u) => shares[<<g, u>>] # None
  BY DEF SharesAsAsked
<1> DEFINE Shares(o) == <<o, g, u>> \in InitialShares
<1>1. shares[<<g, u>>] = IF \E o \in Accounts : Shares(o)
                         THEN CHOOSE o \in Accounts : Shares(o) ELSE None
  BY DEF Init
<1>2. CASE \E o \in Accounts : Shares(o)
  <2>1. shares[<<g, u>>] \in Accounts /\ Shares(shares[<<g, u>>])
    BY <1>1, <1>2
  <2> QED BY <2>1, RecordTableAssumption
<1>3. CASE ~\E o \in Accounts : Shares(o)
  BY <1>1, <1>3 DEF InitialMember
<1> QED BY <1>2, <1>3

\* Only the owners' requests change the shares.
LEMMA SharesChange ==
    ASSUME [Next]_vars
    PROVE  \/ UNCHANGED shares
           \/ \E s \in ShareRequests : CreateShare(s[1], s[2], s[3])
           \/ \E s \in Removals : RemoveShare(s[1], s[2], s[3])
<1>1. CASE \E w \in Workers : Handle(w)
  BY <1>1 DEF Handle, PushStep, RefuseEnvelope, AskWritable, RefuseNonMember,
     AskOwner, PutEnvelope
<1>2. CASE ~\E w \in Workers : Handle(w)
  BY <1>2 DEF Next, Edit, ClientStep, BeginPush, StartPush, ReceivePush,
     FinishPush, ServePull, ReceivePull, FinishUnheard, Loss, LoseHandler,
     CancelPush, AbandonPush, LosePull, Share, Tick, AllSynced, vars, serverVars
<1> QED BY <1>1, <1>2

\* A share is only ever added as asked for, and removed as asked for, so that
\* no account comes to have been a member of a group all along.
LEMMA NextShares ==
    ASSUME IInv, SharesAsAsked, [Next]_vars
    PROVE  /\ SharesAsAsked'
           /\ \A d \in Devices : Lasting(d)' \subseteq Lasting(d)
<1>0. shares \in [Groups \X Accounts -> Accounts \cup {None}]
  BY DEF IInv, ServerIInv, ServerTypeOK
<1>1. \/ UNCHANGED shares
      \/ \E s \in ShareRequests : CreateShare(s[1], s[2], s[3])
      \/ \E s \in Removals : RemoveShare(s[1], s[2], s[3])
  BY SharesChange
<1>2. CASE UNCHANGED shares
  <2>1. \A u \in Accounts : MemberOf(u)' = MemberOf(u)
    BY <1>2 DEF MemberOf, Members
  <2>2. \A d \in Devices : Lasting(d)' = Lasting(d)
    BY <2>1 DEF Lasting
  <2> QED BY <1>2, <2>2 DEF SharesAsAsked
<1>3. ASSUME NEW s \in ShareRequests, CreateShare(s[1], s[2], s[3])
      PROVE  /\ SharesAsAsked'
             /\ \A d \in Devices : Lasting(d)' \subseteq Lasting(d)
  <2>1. /\ s[1] \in Accounts /\ s[2] \in Groups /\ s[3] \in Accounts
        /\ s = <<s[1], s[2], s[3]>> /\ s \in ShareRequests
    OBVIOUS
  <2>2. \A g \in Groups, u \in Accounts :
           shares'[<<g, u>>] = IF g = s[2] /\ u = s[3] /\ shares[<<g, u>>] = None
                               THEN s[1] ELSE shares[<<g, u>>]
    BY <1>0, <1>3, <2>1 DEF CreateShare, PutShare
  <2>3. SharesAsAsked'
    BY <2>1, <2>2, RecordTableAssumption DEF SharesAsAsked
  <2>4. ASSUME NEW d \in Devices, NEW g \in Lasting(d)' PROVE g \in Lasting(d)
    <3>1. /\ g \in Groups /\ AccountOf[d] \in Accounts
          /\ InitialMember(g, AccountOf[d])
          /\ ~(MayLose(g, AccountOf[d]) /\ MayGet(g, AccountOf[d]))
          /\ shares'[<<g, AccountOf[d]>>] # None
      BY <2>4 DEF Lasting, MemberOf, Members
    <3>2. shares[<<g, AccountOf[d]>>] # None
      <4> SUFFICES ASSUME shares[<<g, AccountOf[d]>>] = None PROVE FALSE
        OBVIOUS
      <4>1. g = s[2] /\ AccountOf[d] = s[3]
        BY <2>2, <3>1
      <4>2. MayGet(g, AccountOf[d])
        BY <2>1, <4>1 DEF MayGet
      <4> QED BY <3>1, <4>2 DEF SharesAsAsked
    <3> QED BY <3>1, <3>2 DEF Lasting, MemberOf, Members
  <2> QED BY <2>3, <2>4
<1>4. ASSUME NEW s \in Removals, RemoveShare(s[1], s[2], s[3])
      PROVE  /\ SharesAsAsked'
             /\ \A d \in Devices : Lasting(d)' \subseteq Lasting(d)
  <2>1. /\ s[1] \in Accounts /\ s[2] \in Groups /\ s[3] \in Accounts
        /\ s = <<s[1], s[2], s[3]>> /\ s \in Removals
    OBVIOUS
  <2>2. \A g \in Groups, u \in Accounts :
           shares'[<<g, u>>] = IF g = s[2] /\ u = s[3] /\ shares[<<g, u>>] = s[1]
                               THEN None ELSE shares[<<g, u>>]
    BY <1>0, <1>4, <2>1 DEF RemoveShare, DeleteShare
  <2>3. MayLose(s[2], s[3])
    BY <2>1 DEF MayLose
  <2>4. SharesAsAsked'
    BY <2>2, <2>3 DEF SharesAsAsked
  <2>5. ASSUME NEW d \in Devices, NEW g \in Lasting(d)' PROVE g \in Lasting(d)
    BY <2>2, <2>5 DEF Lasting, MemberOf, Members
  <2> QED BY <2>4, <2>5
<1> QED BY <1>1, <1>2, <1>3, <1>4

\* A row that stays as it is is owed no more than before.
LEMMA OwedBefore ==
    ASSUME \A d \in Devices : Lasting(d)' \subseteq Lasting(d),
           NEW d \in Devices, NEW k \in Keys, rows'[k] = rows[k], Owed(d, k)'
    PROVE  Owed(d, k)
BY DEF Owed

\* Rows only change into rows past every cursor.
LEMMA NewRowsAreLast ==
    ASSUME IInv, NEW w \in Workers, PushStep(w), NEW k \in Keys, rows'[k] # rows[k]
    PROVE  rows'[k].seq = next + 1
<1>1. CASE PutEnvelope(w)
  <2> DEFINE key == KeyOf(StorageAccount(push[w], Env(w)), Env(w))
  <2>1. rows' = Upsert(rows, key, Env(w), next + 1) /\ key \in Keys
    BY <1>1, PutEnvelopeStep DEF IInv
  <2> HIDE DEF key
  <2>2. rows'[k] = AsRow(Env(w), next + 1)
    BY <2>1 DEF Upsert, IInv, ServerIInv, ServerTypeOK
  <2> QED BY <2>2 DEF AsRow
<1>2. CASE ~PutEnvelope(w)
  BY <1>2 DEF PushStep, RefuseEnvelope, AskWritable, RefuseNonMember, AskOwner
<1> QED BY <1>1, <1>2

\* What a push does to the table happens past every cursor.
LEMMA HandlePullIInv ==
    ASSUME IInv, IInv', PullIInv, UNCHANGED deviceVars, SharesAsAsked',
           \A d \in Devices : Lasting(d)' \subseteq Lasting(d),
           \A k \in Keys : rows'[k] # rows[k] => rows'[k].seq = next + 1
    PROVE  PullIInv'
<1>1. UNCHANGED <<local, cursor, pull>> /\ TypeOK /\ TypeOK'
  BY DEF deviceVars, IInv
<1>2. ASSUME NEW d \in Devices, NEW k \in Keys, rows'[k] # rows[k]
      PROVE  /\ ~(rows'[k].seq <= cursor[d])
             /\ pull[d] # None => ~(rows'[k].seq <= pull[d].cursor)
  <2>1. rows'[k].seq = next + 1
    BY <1>2
  <2>2. next \in Nat /\ cursor[d] \in Nat /\ cursor[d] <= next
    BY DEF IInv, TypeOK, ServerTypeOK, CursorsBelowNext
  <2>3. pull[d] # None => pull[d].cursor \in cursor[d]..next
    BY DEF IInv, CursorsBelowNext
  <2> QED BY <2>1, <2>2, <2>3
<1>3. OwedPagesComplete'
  <2> SUFFICES ASSUME NEW d \in Devices, pull[d] # None, NEW k \in Keys,
                      rows'[k] # None, Owed(d, k)',
                      rows'[k].seq \in cursor[d] + 1 .. pull[d].cursor
               PROVE  \E e \in pull[d].envelopes :
                         e.id = k[2] /\ SameClock(e, rows'[k])
    BY <1>1 DEF OwedPagesComplete
  <2>1. rows'[k] = rows[k]
    BY <1>2
  <2>2. Owed(d, k)
    BY <2>1, OwedBefore
  <2> QED BY <2>1, <2>2 DEF PullIInv, OwedPagesComplete
<1>4. OwedNothingSkipped'
  <2> SUFFICES ASSUME NEW d \in Devices, NEW k \in Keys, rows'[k] # None,
                      Owed(d, k)', rows'[k].seq <= cursor[d]
               PROVE  local[d][k[2]] # None /\ Covers(local[d][k[2]], rows'[k])
    BY <1>1 DEF OwedNothingSkipped, Holds
  <2>1. rows'[k] = rows[k]
    BY <1>2
  <2>2. Owed(d, k)
    BY <2>1, OwedBefore
  <2> QED BY <2>1, <2>2 DEF PullIInv, OwedNothingSkipped, Holds
<1> QED BY <1>3, <1>4 DEF PullIInv

\* A copy only grows, a page or a cursor stays or goes, and the table stays.
LEMMA DevicePullIInv ==
    ASSUME IInv, IInv', PullIInv, UNCHANGED <<rows, cursor>>, SharesAsAsked',
           \A d \in Devices : Lasting(d)' \subseteq Lasting(d),
           \A d \in Devices : pull'[d] \in {None, pull[d]},
           \A d \in Devices, i \in Ids : local[d][i] # None =>
               local'[d][i] # None /\ Covers(local'[d][i], local[d][i])
    PROVE  PullIInv'
<1>1. OwedPagesComplete'
  BY OwedBefore DEF PullIInv, OwedPagesComplete
<1>2. OwedNothingSkipped'
  <2> SUFFICES ASSUME NEW d \in Devices, NEW k \in Keys, rows[k] # None,
                      Owed(d, k)', rows[k].seq <= cursor[d]
               PROVE  local'[d][k[2]] # None /\ Covers(local'[d][k[2]], rows[k])
    BY DEF OwedNothingSkipped, Holds
  <2>1. local[d][k[2]] # None /\ Covers(local[d][k[2]], rows[k])
    BY OwedBefore DEF PullIInv, OwedNothingSkipped, Holds
  <2>2. k[2] \in Ids
    BY DEF Keys
  <2>3. local'[d][k[2]] # None /\ Covers(local'[d][k[2]], local[d][k[2]])
    BY <2>1, <2>2
  <2>4. local[d][k[2]] \in Clock /\ local'[d][k[2]] \in Clock /\ rows[k] \in Row
    BY <2>1, <2>2, <2>3 DEF IInv, TypeOK, ServerTypeOK
  <2>5. IsClock(local[d][k[2]]) /\ IsClock(local'[d][k[2]]) /\ IsClock(rows[k])
    BY <2>4, ClockIsClock, RowIsClock
  <2> QED BY <2>1, <2>3, <2>5, CoversTransitive
<1> QED BY <1>1, <1>2 DEF PullIInv

\* With stamps that never go back, an edit is a later version of the copy.
LEMMA EditPullIInv ==
    ASSUME ~RawStamps, IInv, IInv', PullIInv, SharesAsAsked',
           \A e \in Devices : Lasting(e)' \subseteq Lasting(e),
           NEW d \in Devices, NEW i \in Ids, Edit(d, i)
    PROVE  PullIInv'
<1>1. /\ local' = [local EXCEPT ![d][i] =
                      [updated_at |-> Stamp(d, i), device_id |-> d]]
      /\ UNCHANGED <<rows, cursor, pull>>
  BY DEF Edit, serverVars
<1>2. TypeOK /\ TypeOK'
  BY DEF IInv
<1>3. Stamp(d, i) \in Int
      /\ (local[d][i] # None => Stamp(d, i) > local[d][i].updated_at)
  BY <1>2, StampIsLater
<1>4. ASSUME NEW e \in Devices, NEW j \in Ids, local[e][j] # None
      PROVE  local'[e][j] # None /\ Covers(local'[e][j], local[e][j])
  <2>1. CASE e = d /\ j = i
    <3>1. local'[d][i] = [updated_at |-> Stamp(d, i), device_id |-> d]
      BY <1>1, <1>2 DEF TypeOK
    <3>2. [updated_at |-> Stamp(d, i), device_id |-> d] \in Clock
      BY <1>3 DEF Clock
    <3>3. local'[d][i] # None
      BY <3>1, <3>2
    <3>4. Wins(local'[d][i], local[d][i])
      BY <1>3, <1>4, <2>1, <3>1 DEF Wins
    <3> QED BY <2>1, <3>3, <3>4 DEF Covers
  <2>2. CASE ~(e = d /\ j = i)
    <3>1. local'[e][j] = local[e][j]
      BY <1>1, <1>2, <2>2 DEF TypeOK
    <3> QED BY <1>4, <3>1, CoversReflexive
  <2> QED BY <2>1, <2>2
<1> QED BY <1>1, <1>4, DevicePullIInv

LEMMA ServePullPullIInv ==
    ASSUME IInv, PullIInv, SharesAsAsked',
           \A e \in Devices : Lasting(e)' \subseteq Lasting(e),
           NEW d \in Devices, ServePull(d)
    PROVE  PullIInv'
<1> DEFINE page == PullPage(rows, AccountOf[d], MemberOf(AccountOf[d]), cursor[d])
           sent == {SentEnvelope(k) : k \in page.keys}
<1>1. /\ pull' = [pull EXCEPT ![d] = [cursor |-> page.cursor, more |-> page.more,
                                     envelopes |-> sent]]
      /\ \A k \in Keys :
            /\ rows[k] # None /\ Owed(d, k)
            /\ rows[k].seq \in cursor[d] + 1 .. page.cursor
            => k \in page.keys
  BY ServedPage DEF Owed, Lasting
<1>2. UNCHANGED <<rows, local, cursor>>
  BY DEF ServePull, serverVars
<1> HIDE DEF page
<1>3. ASSUME NEW k \in page.keys
      PROVE  \E e \in sent : e.id = k[2] /\ SameClock(e, rows[k])
  <2>1. /\ SentEnvelope(k) \in sent
        /\ SentEnvelope(k).id = k[2] /\ SameClock(SentEnvelope(k), rows[k])
    BY <1>3 DEF SentEnvelope, SameClock
  <2> QED BY <2>1
<1> HIDE DEF sent
<1>4. /\ pull'[d].cursor = page.cursor /\ pull'[d].envelopes = sent
      /\ \A e \in Devices \ {d} : pull'[e] = pull[e]
  BY <1>1 DEF IInv, TypeOK
<1>5. OwedPagesComplete'
  <2> SUFFICES ASSUME NEW e \in Devices, pull'[e] # None, NEW k \in Keys,
                      rows[k] # None, Owed(e, k)',
                      rows[k].seq \in cursor[e] + 1 .. pull'[e].cursor
               PROVE  \E v \in pull'[e].envelopes :
                         v.id = k[2] /\ SameClock(v, rows[k])
    BY <1>2 DEF OwedPagesComplete
  <2>0. Owed(e, k)
    BY <1>2, OwedBefore
  <2>1. CASE e = d
    BY <1>1, <1>3, <1>4, <2>0, <2>1
  <2>2. CASE e # d
    BY <1>4, <2>0, <2>2 DEF PullIInv, OwedPagesComplete
  <2> QED BY <2>1, <2>2
<1>6. OwedNothingSkipped'
  BY <1>2, OwedBefore DEF PullIInv, OwedNothingSkipped, Holds
<1> QED BY <1>5, <1>6 DEF PullIInv

LEMMA ReceivePullPullIInv ==
    ASSUME IInv, IInv', PullIInv, SharesAsAsked',
           \A e \in Devices : Lasting(e)' \subseteq Lasting(e),
           NEW d \in Devices, ReceivePull(d)
    PROVE  PullIInv'
<1>1. /\ pull[d] # None
      /\ local' = [local EXCEPT ![d] = [i \in Ids |-> Merged(d, i)]]
      /\ cursor' = [cursor EXCEPT ![d] = pull[d].cursor]
      /\ pull' = [pull EXCEPT ![d] = None]
      /\ UNCHANGED rows
  BY DEF ReceivePull, serverVars
<1>2. /\ TypeOK /\ TypeOK' /\ PagesAreStored /\ pull[d] \in Page
  BY <1>1 DEF IInv, TypeOK
<1>3. /\ \A i \in Ids : local'[d][i] = Merged(d, i)
      /\ cursor'[d] = pull[d].cursor /\ pull'[d] = None
      /\ \A e \in Devices \ {d} : /\ local'[e] = local[e] /\ cursor'[e] = cursor[e]
                                   /\ pull'[e] = pull[e]
  BY <1>1, <1>2 DEF TypeOK
<1>4. OwedPagesComplete'
  BY <1>1, <1>3, OwedBefore DEF PullIInv, OwedPagesComplete
<1>5. ASSUME NEW k \in Keys, rows[k] # None, Owed(d, k),
             rows[k].seq <= pull[d].cursor
      PROVE  local'[d][k[2]] # None /\ Covers(local'[d][k[2]], rows[k])
  <2>1. k[2] \in Ids /\ rows[k] \in Row /\ rows[k].seq \in Nat
    BY <1>2, <1>5 DEF Keys, TypeOK, ServerTypeOK, Row
  <2>2. /\ local[d][k[2]] # None =>
              Merged(d, k[2]) # None /\ Covers(Merged(d, k[2]), local[d][k[2]])
        /\ \A e \in pull[d].envelopes : e.id = k[2] =>
              Merged(d, k[2]) # None /\ Covers(Merged(d, k[2]), e)
    <3>1. Merged(d, k[2]) = local[d][k[2]] \/ Merged(d, k[2]) \in Clock
      BY <1>1, <1>2, <2>1, MergedCovers
    <3> QED BY <1>1, <1>2, <2>1, <3>1, MergedCovers
  <2>3. CASE rows[k].seq <= cursor[d]
    <3>1. local[d][k[2]] # None /\ Covers(local[d][k[2]], rows[k])
      BY <1>5, <2>3 DEF PullIInv, OwedNothingSkipped, Holds
    <3>2. local'[d][k[2]] # None /\ Covers(local'[d][k[2]], local[d][k[2]])
      BY <1>3, <2>1, <2>2, <3>1
    <3>3. local[d][k[2]] \in Clock /\ local'[d][k[2]] \in Clock
      BY <1>2, <2>1, <3>1, <3>2 DEF TypeOK
    <3> QED BY <2>1, <3>1, <3>2, <3>3, ClockIsClock, RowIsClock, CoversTransitive
  <2>4. CASE ~(rows[k].seq <= cursor[d])
    <3>1. rows[k].seq \in cursor[d] + 1 .. pull[d].cursor
      BY <1>2, <1>5, <2>1, <2>4 DEF TypeOK, Page
    <3>2. PICK e \in pull[d].envelopes : e.id = k[2] /\ SameClock(e, rows[k])
      BY <1>1, <1>5, <3>1 DEF PullIInv, OwedPagesComplete
    <3>3. local'[d][k[2]] # None /\ Covers(local'[d][k[2]], e)
      BY <1>3, <2>1, <2>2, <3>2
    <3> QED BY <3>2, <3>3 DEF Covers, Wins, SameClock
  <2> QED BY <2>3, <2>4
<1>6. OwedNothingSkipped'
  BY <1>1, <1>3, <1>5, OwedBefore DEF PullIInv, OwedNothingSkipped, Holds
<1> QED BY <1>4, <1>6 DEF PullIInv

\* The steps that touch neither the table, nor copies, nor cursors.
LEMMA OtherPullIInv ==
    ASSUME IInv, IInv', PullIInv, UNCHANGED <<rows, local, cursor>>, SharesAsAsked',
           \A d \in Devices : Lasting(d)' \subseteq Lasting(d),
           \A d \in Devices : pull'[d] \in {None, pull[d]}
    PROVE  PullIInv'
BY CoversReflexive, DevicePullIInv

LEMMA NextPullIInv ==
    ~RawStamps /\ IInv /\ IInv' /\ PullIInv /\ [Next]_vars => PullIInv'
<1> SUFFICES ASSUME ~RawStamps, IInv, IInv', PullIInv, [Next]_vars PROVE PullIInv'
  OBVIOUS
<1>0. SharesAsAsked' /\ \A d \in Devices : Lasting(d)' \subseteq Lasting(d)
  BY NextShares DEF PullIInv
<1>1. CASE \E d \in Devices, i \in Ids : Edit(d, i)
  BY <1>0, <1>1, EditPullIInv
<1>2. CASE \E d \in Devices : ServePull(d) \/ ReceivePull(d)
  BY <1>0, <1>2, ServePullPullIInv, ReceivePullPullIInv
<1>3. CASE \E w \in Workers : Handle(w)
  BY <1>0, <1>3, NewRowsAreLast, HandlePullIInv DEF Handle
<1>4. CASE \E d \in Devices : LosePull(d)
  <2>1. PICK d \in Devices : LosePull(d)
    BY <1>4
  <2>2. UNCHANGED <<rows, local, cursor>> /\ pull' = [pull EXCEPT ![d] = None]
    BY <2>1 DEF LosePull, serverVars
  <2>3. \A e \in Devices : pull'[e] \in {None, pull[e]}
    BY <2>2 DEF IInv, TypeOK
  <2> QED BY <1>0, <2>2, <2>3, OtherPullIInv
<1>5. CASE \/ \E d \in Devices, w \in Workers : BeginPush(d, w)
           \/ \E d \in Devices : ReceivePush(d) \/ AbandonPush(d)
           \/ \E w \in Workers : FinishUnheard(w) \/ LoseHandler(w)
           \/ (Share \/ Tick) /\ UNCHANGED deviceVars
           \/ UNCHANGED vars
  <2>1. UNCHANGED <<rows, local, cursor, pull>>
    BY <1>5 DEF BeginPush, StartPush, ReceivePush, FinishPush, AbandonPush,
       FinishUnheard, LoseHandler, CancelPush, Share, CreateShare, RemoveShare,
       Tick, vars, serverVars, deviceVars
  <2> QED BY <1>0, <2>1, OtherPullIInv
<1>6. CASE Next
  BY <1>1, <1>2, <1>3, <1>4, <1>5, <1>6 DEF Next, ClientStep, Loss, AllSynced
<1> QED BY <1>5, <1>6

(***************************************************************************)
(* Every page under way to a device holds all the rows the device is owed  *)
(* between its cursor and the page's own (pull, sync.rs:24 and             *)
(* sqlite.rs:235), so that taking the page and its cursor together leaves  *)
(* nothing of it behind.                                                   *)
(***************************************************************************)
THEOREM PullsAreComplete ==
    ASSUME ~RawStamps
    PROVE  Spec => []PullIInv
<1>1. Init => PullIInv
  BY InitSharesAsAsked
     DEF Init, PullIInv, OwedPagesComplete, OwedNothingSkipped, EmptyTable
<1>2. IInv /\ IInv' /\ PullIInv /\ [Next]_vars => PullIInv'
  BY NextPullIInv
<1> QED BY <1>1, <1>2, Invariance, PTL DEF Spec

(***************************************************************************)
(* Pulling page after page, through lost pages and pushes by others, no    *)
(* record of the account is passed over: unless the device's clock went    *)
(* back on one of its own edits, it has every row behind its cursor.       *)
(***************************************************************************)
THEOREM OwnRowsReachTheDevice ==
    ASSUME ~RawStamps
    PROVE  Spec => []OwnNothingSkipped
<1>1. PullIInv => OwnNothingSkipped
  BY DEF PullIInv, OwedNothingSkipped, OwnNothingSkipped, Owed
<1> QED BY <1>1, PullsAreComplete, PTL

(***************************************************************************)
(* The same for every record a device may read, its account's and those of *)
(* the groups it is a member of ("the last row actually returned",         *)
(* routes/sync.rs:41), unless an account becomes a member of a group when  *)
(* it already has a cursor, which is what goes wrong in late_share.        *)
(***************************************************************************)
THEOREM NothingIsSkipped ==
    ASSUME ~RawStamps, NoLateShares
    PROVE  Spec => []NothingSkipped
<1>1. IInv /\ PullIInv => NothingSkipped
  <2> SUFFICES ASSUME IInv, PullIInv, NEW d \in Devices, NEW k \in Readable(d),
                      rows[k].seq <= cursor[d]
               PROVE  Holds(d, k)
    BY DEF NothingSkipped
  <2>1. /\ k \in Keys /\ rows[k] # None
        /\ k[1] = AccountOf[d] \/ rows[k].group_id \in MemberOf(AccountOf[d])
    BY DEF Readable, Visible
  <2>2. ASSUME NEW g \in MemberOf(AccountOf[d]) PROVE g \in Lasting(d)
    <3>1. g \in Groups /\ AccountOf[d] \in Accounts /\ shares[<<g, AccountOf[d]>>] # None
      BY <2>2 DEF MemberOf, Members
    <3>2. <<shares[<<g, AccountOf[d]>>], g, AccountOf[d]>> \in InitialShares \cup ShareRequests
      BY <3>1 DEF PullIInv, SharesAsAsked
    <3>3. shares[<<g, AccountOf[d]>>] \in Accounts
      BY <3>1 DEF IInv, ServerIInv, ServerTypeOK
    <3>4. InitialMember(g, AccountOf[d]) \/ MayGet(g, AccountOf[d])
      BY <3>2, <3>3 DEF InitialMember, MayGet
    <3> QED BY <2>2, <3>1, <3>4 DEF NoLateShares, Lasting
  <2> QED BY <2>1, <2>2 DEF PullIInv, OwedNothingSkipped, Owed
<1> QED BY <1>1, PullsAreComplete, Invariance, PTL
-----------------------------------------------------------------------------
\* The versions of records: only an edit makes one.

StoredCopy(v) == \E k \in Keys : rows[k] # None /\ v = CopyOf(k[2], rows[k], rows[k])
HeldCopy(v) == \E d \in Devices, i \in Ids :
                  local[d][i] # None /\ v = CopyOf(i, local[d][i], place[d][i])
PushedCopy(v) == \E w \in Workers : push[w] # None /\ \E n \in DOMAIN push[w].todo :
                    v = CopyOf(push[w].todo[n].id, push[w].todo[n], push[w].todo[n])
PulledCopy(v) == \E d \in Devices : pull[d] # None /\ \E e \in pull[d].envelopes :
                    v = CopyOf(e.id, e, e)

LEMMA CopyCases ==
    \A v : v \in Copies <=>
              StoredCopy(v) \/ HeldCopy(v) \/ PushedCopy(v) \/ PulledCopy(v)
<1> TAKE v
<1>1. v \in StoredCopies <=> StoredCopy(v)
  BY DEF StoredCopy, StoredCopies
<1>2. v \in HeldCopies <=> HeldCopy(v)
  BY DEF HeldCopy, HeldCopies
<1>3. v \in PushedCopies <=> PushedCopy(v)
  BY DEF PushedCopy, PushedCopies
<1>4. v \in PulledCopies <=> PulledCopy(v)
  BY DEF PulledCopy, PulledCopies
<1> QED BY <1>1, <1>2, <1>3, <1>4 DEF Copies

LEMMA CopyCasesNext ==
    \A v : v \in Copies' <=>
              StoredCopy(v)' \/ HeldCopy(v)' \/ PushedCopy(v)' \/ PulledCopy(v)'
<1> TAKE v
<1>1. v \in StoredCopies' <=> StoredCopy(v)'
  BY DEF StoredCopy, StoredCopies
<1>2. v \in HeldCopies' <=> HeldCopy(v)'
  BY DEF HeldCopy, HeldCopies
<1>3. v \in PushedCopies' <=> PushedCopy(v)'
  BY DEF PushedCopy, PushedCopies
<1>4. v \in PulledCopies' <=> PulledCopy(v)'
  BY DEF PulledCopy, PulledCopies
<1> QED BY <1>1, <1>2, <1>3, <1>4 DEF Copies

\* A copy has a record, a clock and an author.
IsCopy(v) == v.id \in Ids /\ v.device_id \in Devices /\ IsClock(v)

LEMMA CopiesTyped == ASSUME TypeOK PROVE \A v \in Copies : IsCopy(v)
<1> SUFFICES ASSUME NEW v \in Copies PROVE IsCopy(v)
  OBVIOUS
<1>1. CASE StoredCopy(v)
  <2>1. PICK k \in Keys : rows[k] # None /\ v = CopyOf(k[2], rows[k], rows[k])
    BY <1>1 DEF StoredCopy
  <2>2. rows[k] \in Row /\ k[2] \in Ids
    BY <2>1 DEF TypeOK, ServerTypeOK, Keys
  <2> QED BY <2>1, <2>2, RecordTableAssumption DEF CopyOf, IsCopy, IsClock, Row
<1>2. CASE HeldCopy(v)
  <2>1. PICK d \in Devices, i \in Ids :
           local[d][i] # None /\ v = CopyOf(i, local[d][i], place[d][i])
    BY <1>2 DEF HeldCopy
  <2>2. local[d][i] \in Clock
    BY <2>1 DEF TypeOK
  <2> QED BY <2>1, <2>2, RecordTableAssumption DEF CopyOf, IsCopy, IsClock, Clock
<1>3. CASE PushedCopy(v)
  <2>1. PICK w \in Workers : push[w] # None /\ \E n \in DOMAIN push[w].todo :
           v = CopyOf(push[w].todo[n].id, push[w].todo[n], push[w].todo[n])
    BY <1>3 DEF PushedCopy
  <2>2. push[w].todo \in Seq(Envelope)
    BY <2>1 DEF TypeOK, ServerTypeOK, Push
  <2>3. PICK e \in Envelope : v = CopyOf(e.id, e, e)
    BY <2>1, <2>2
  <2> QED BY <2>3, RecordTableAssumption DEF CopyOf, IsCopy, IsClock, Envelope
<1>4. CASE PulledCopy(v)
  <2>1. PICK d \in Devices : pull[d] # None /\ \E e \in pull[d].envelopes :
           v = CopyOf(e.id, e, e)
    BY <1>4 DEF PulledCopy
  <2>2. PICK e \in pull[d].envelopes : v = CopyOf(e.id, e, e)
    BY <2>1
  <2>3. e \in Version
    BY <2>1, <2>2 DEF TypeOK, Page
  <2> QED BY <2>2, <2>3, RecordTableAssumption DEF CopyOf, IsCopy, IsClock, Version
<1> QED BY <1>1, <1>2, <1>3, <1>4, CopyCases

\* A step that makes no version and moves copies forward keeps the versions.
LEMMA KeptVersions ==
    ASSUME IInv, IInv', VersionIInv, Copies' \subseteq Copies,
           \A d \in Devices, i \in Ids : local[d][i] # None =>
               local'[d][i] # None /\ Covers(local'[d][i], local[d][i])
    PROVE  VersionIInv'
<1>1. AuthorsAreAhead'
  <2> SUFFICES ASSUME NEW v \in Copies
               PROVE  /\ local'[v.device_id][v.id] # None
                      /\ Covers(local'[v.device_id][v.id], v)
    BY DEF AuthorsAreAhead
  <2>1. IsCopy(v)
    BY CopiesTyped DEF IInv
  <2> DEFINE own == local[v.device_id][v.id]
             new == local'[v.device_id][v.id]
  <2>2. own # None /\ Covers(own, v)
    BY DEF VersionIInv, AuthorsAreAhead
  <2>3. new # None /\ Covers(new, own)
    BY <2>1, <2>2 DEF IsCopy
  <2>4. own \in Clock /\ new \in Clock
    BY <2>1, <2>2, <2>3 DEF IInv, TypeOK, IsCopy
  <2> HIDE DEF own, new
  <2>5. Covers(new, v)
    BY <2>1, <2>2, <2>3, <2>4, ClockIsClock, CoversTransitive DEF IsCopy
  <2> QED BY <2>3, <2>5 DEF own, new
<1>2. OneVersionPerClock'
  BY DEF VersionIInv, OneVersionPerClock
<1> QED BY <1>1, <1>2 DEF VersionIInv

\* An edit makes one version, which is where the device files its copy.
LEMMA EditCopies ==
    ASSUME IInv, IInv', NEW d \in Devices, NEW i \in Ids, Edit(d, i)
    PROVE  LET clock == [updated_at |-> Stamp(d, i), device_id |-> d]
           IN  \E p \in EditsInto(d, i) :
                  /\ clock # None /\ local'[d][i] = clock /\ place'[d][i] = p
                  /\ \A e \in Devices, j \in Ids : ~(e = d /\ j = i) =>
                        local'[e][j] = local[e][j] /\ place'[e][j] = place[e][j]
                  /\ \A v \in Copies' : v \in Copies \/ v = CopyOf(i, clock, p)
<1> DEFINE clock == [updated_at |-> Stamp(d, i), device_id |-> d]
<1>1. /\ local' = [local EXCEPT ![d][i] = clock]
      /\ UNCHANGED <<rows, push, pull>>
  BY DEF Edit, serverVars
<1>2. PICK p \in EditsInto(d, i) : place' = [place EXCEPT ![d][i] = p]
  BY DEF Edit
<1>3. TypeOK /\ TypeOK'
  BY DEF IInv
<1>4. clock # None
  <2>1. clock \in Clock
    BY <1>3, StampIsLater DEF Clock
  <2> QED BY <2>1
<1> HIDE DEF clock
<1>5. /\ local'[d][i] = clock /\ place'[d][i] = p
      /\ \A e \in Devices, j \in Ids : ~(e = d /\ j = i) =>
            local'[e][j] = local[e][j] /\ place'[e][j] = place[e][j]
  BY <1>1, <1>2, <1>3 DEF TypeOK
<1> DEFINE new == CopyOf(i, clock, p)
<1>6. ASSUME NEW v \in Copies', v # new PROVE v \in Copies
  <2>1. CASE StoredCopy(v)' \/ PushedCopy(v)' \/ PulledCopy(v)'
    BY <1>1, <2>1, CopyCases DEF StoredCopy, PushedCopy, PulledCopy
  <2>2. CASE HeldCopy(v)'
    <3>1. PICK e \in Devices, j \in Ids :
             local'[e][j] # None /\ v = CopyOf(j, local'[e][j], place'[e][j])
      BY <2>2 DEF HeldCopy
    <3>2. ~(e = d /\ j = i)
      BY <1>5, <1>6, <3>1
    <3>3. HeldCopy(v)
      BY <1>5, <3>1, <3>2 DEF HeldCopy
    <3> QED BY <3>3, CopyCases
  <2> QED BY <2>1, <2>2, CopyCasesNext
<1> QED BY <1>4, <1>5, <1>6 DEF clock

\* The version an edit makes is later than all its device has made before.
LEMMA EditVersions ==
    ASSUME ~RawStamps, IInv, IInv', VersionIInv,
           NEW d \in Devices, NEW i \in Ids, Edit(d, i)
    PROVE  VersionIInv'
<1> DEFINE clock == [updated_at |-> Stamp(d, i), device_id |-> d]
<1>1. PICK p \in EditsInto(d, i) :
         /\ clock # None /\ local'[d][i] = clock /\ place'[d][i] = p
         /\ \A e \in Devices, j \in Ids : ~(e = d /\ j = i) =>
               local'[e][j] = local[e][j] /\ place'[e][j] = place[e][j]
         /\ \A v \in Copies' : v \in Copies \/ v = CopyOf(i, clock, p)
  BY EditCopies
<1>3. TypeOK /\ TypeOK'
  BY DEF IInv
<1>4. Stamp(d, i) \in Int
      /\ (local[d][i] # None => Stamp(d, i) > local[d][i].updated_at)
  BY <1>3, StampIsLater
<1> DEFINE new == CopyOf(i, clock, p)
<1>5. /\ new.id = i /\ new.device_id = d /\ new.updated_at = Stamp(d, i)
      /\ SameClock(clock, new)
  BY DEF CopyOf, SameClock
<1> HIDE DEF clock
<1>6. /\ local'[d][i] = clock
      /\ \A e \in Devices, j \in Ids : ~(e = d /\ j = i) => local'[e][j] = local[e][j]
  BY <1>1
<1>7. clock # None
  BY <1>1
<1>8. \A v \in Copies' : v \in Copies \/ v = new
  BY <1>1
<1> HIDE DEF new
\* Whatever has the device as its author and this record is behind the edit.
<1>9. ASSUME NEW v \in Copies, v.device_id = d, v.id = i
      PROVE  Stamp(d, i) > v.updated_at
  <2>1. local[d][i] # None /\ Covers(local[d][i], v)
    BY <1>9 DEF VersionIInv, AuthorsAreAhead
  <2>2. IsCopy(v) /\ IsClock(local[d][i])
    BY <1>3, <1>9, <2>1, CopiesTyped, ClockIsClock DEF TypeOK
  <2> QED BY <1>4, <2>1, <2>2 DEF Covers, Wins, SameClock, IsClock, IsCopy
<1>10. AuthorsAreAhead'
  <2> SUFFICES ASSUME NEW v \in Copies'
               PROVE  /\ local'[v.device_id][v.id] # None
                      /\ Covers(local'[v.device_id][v.id], v)
    BY DEF AuthorsAreAhead
  <2>1. CASE v = new
    BY <1>5, <1>6, <1>7, <2>1 DEF Covers
  <2>2. CASE v # new
    <3>1. v \in Copies /\ IsCopy(v)
      BY <1>3, <1>8, <2>2, CopiesTyped
    <3>2. CASE v.device_id = d /\ v.id = i
      <4>1. Stamp(d, i) > v.updated_at
        BY <1>9, <3>1, <3>2
      <4>2. Wins(clock, v)
        BY <4>1 DEF Wins, clock
      <4> QED BY <1>6, <1>7, <3>2, <4>2 DEF Covers
    <3>3. CASE ~(v.device_id = d /\ v.id = i)
      <4>1. local'[v.device_id][v.id] = local[v.device_id][v.id]
        BY <1>6, <3>1, <3>3 DEF IsCopy
      <4> QED BY <3>1, <4>1 DEF VersionIInv, AuthorsAreAhead
    <3> QED BY <3>2, <3>3
  <2> QED BY <2>1, <2>2
<1>11. OneVersionPerClock'
  <2>1. ASSUME NEW v \in Copies PROVE ~(v.id = new.id /\ SameClock(v, new))
    <3> SUFFICES ASSUME v.id = new.id, SameClock(v, new) PROVE FALSE
      OBVIOUS
    <3>1. v.device_id = d /\ v.id = i /\ v.updated_at = Stamp(d, i)
      BY <1>5 DEF SameClock
    <3> QED BY <1>4, <1>9, <3>1
  <2>2. ASSUME NEW u \in Copies', NEW v \in Copies', u.id = v.id, SameClock(u, v)
        PROVE  u = v
    <3>1. CASE u \in Copies /\ v \in Copies
      BY <2>2, <3>1 DEF VersionIInv, OneVersionPerClock
    <3>2. CASE u = new /\ v = new
      BY <3>2
    <3>3. CASE u \in Copies /\ v = new
      BY <2>1, <2>2, <3>3
    <3>4. CASE u = new /\ v \in Copies
      BY <2>1, <2>2, <3>4 DEF SameClock
    <3> QED BY <1>8, <3>1, <3>2, <3>3, <3>4
  <2> QED BY <2>2 DEF OneVersionPerClock
<1> QED BY <1>10, <1>11 DEF VersionIInv

\* A push step leaves the batch as it is or takes its head away.
LEMMA PushStepTodo ==
    ASSUME ServerIInv, NEW w \in Workers, PushStep(w)
    PROVE  /\ push[w] # None /\ push[w].todo \in Seq(Envelope) /\ push[w].todo # <<>>
           /\ push'[w].todo \in {push[w].todo, Tail(push[w].todo)}
           /\ \A x \in Workers \ {w} : push'[x] = push[x]
<1>1. Working(w) /\ push[w] \in Push /\ push[w] # None /\ push[w].todo # <<>>
  <2>1. Working(w)
    BY DEF PushStep, RefuseEnvelope, AskWritable, RefuseNonMember, AskOwner,
           PutEnvelope, Passed
  <2> QED BY <2>1, WorkingTyped DEF Working, ServerIInv
<1>2. push[w].todo \in Seq(Envelope) /\ push \in [Workers -> Push \cup {None}]
  BY <1>1 DEF Push, ServerIInv, ServerTypeOK
<1>3. ASSUME NEW answer, push' = Answered(w, answer)
      PROVE  /\ push'[w].todo = Tail(push[w].todo)
             /\ \A x \in Workers \ {w} : push'[x] = push[x]
  <2> DEFINE new == [push[w] EXCEPT
                        !.todo = Tail(push[w].todo),
                        !.answers = push[w].answers \cup
                                       {[env |-> Env(w), answer |-> answer]}]
  <2>1. push' = [push EXCEPT ![w] = new]
    BY <1>2, <1>3 DEF Answered
  <2>2. new.todo = Tail(push[w].todo)
    BY <1>1 DEF Push
  <2> HIDE DEF new
  <2> QED BY <1>2, <2>1, <2>2
<1>4. CASE RefuseEnvelope(w) \/ RefuseNonMember(w) \/ PutEnvelope(w)
  <2>1. PICK answer : push' = Answered(w, answer)
    BY <1>4 DEF RefuseEnvelope, RefuseNonMember, PutEnvelope
  <2> QED BY <1>1, <1>2, <1>3, <2>1
<1>5. CASE AskWritable(w)
  <2>1. PICK cache : push' = [push EXCEPT ![w] = [push[w] EXCEPT !.writable = cache]]
    BY <1>2, <1>5 DEF AskWritable
  <2>2. [push[w] EXCEPT !.writable = cache].todo = push[w].todo
    BY <1>1 DEF Push
  <2> QED BY <1>1, <1>2, <2>1, <2>2
<1>6. CASE AskOwner(w)
  <2>1. PICK cache : push' = [push EXCEPT ![w] = [push[w] EXCEPT !.owners = cache]]
    BY <1>2, <1>6 DEF AskOwner
  <2>2. [push[w] EXCEPT !.owners = cache].todo = push[w].todo
    BY <1>1 DEF Push
  <2> QED BY <1>1, <1>2, <2>1, <2>2
<1> QED BY <1>4, <1>5, <1>6 DEF PushStep

\* A handler stores what it was sent.
LEMMA HandleVersions ==
    ASSUME IInv, NEW w \in Workers, Handle(w)
    PROVE  Copies' \subseteq Copies
<1>1. PushStep(w) /\ UNCHANGED <<local, place, pull>>
  BY DEF Handle, deviceVars
<1>2. /\ push[w] # None /\ push[w].todo \in Seq(Envelope) /\ push[w].todo # <<>>
      /\ push'[w].todo \in {push[w].todo, Tail(push[w].todo)}
      /\ \A x \in Workers \ {w} : push'[x] = push[x]
  BY <1>1, PushStepTodo DEF IInv
<1> SUFFICES ASSUME NEW v \in Copies' PROVE v \in Copies
  OBVIOUS
<1>3. CASE HeldCopy(v)' \/ PulledCopy(v)'
  BY <1>1, <1>3, CopyCases DEF HeldCopy, PulledCopy
<1>4. CASE PushedCopy(v)'
  <2>1. PICK x \in Workers : push'[x] # None /\ \E n \in DOMAIN push'[x].todo :
           v = CopyOf(push'[x].todo[n].id, push'[x].todo[n], push'[x].todo[n])
    BY <1>4 DEF PushedCopy
  <2>2. PICK n \in DOMAIN push'[x].todo :
           v = CopyOf(push'[x].todo[n].id, push'[x].todo[n], push'[x].todo[n])
    BY <2>1
  <2>3. push[x] # None
    BY <1>2, <2>1
  <2>4. \E m \in DOMAIN push[x].todo : push'[x].todo[n] = push[x].todo[m]
    <3>1. CASE x = w /\ push'[w].todo = Tail(push[w].todo)
      <4>1. n + 1 \in DOMAIN push[w].todo /\ push'[w].todo[n] = push[w].todo[n + 1]
        BY <1>2, <2>2, <3>1
      <4> QED BY <3>1, <4>1
    <3>2. CASE ~(x = w /\ push'[w].todo = Tail(push[w].todo))
      BY <1>2, <2>2, <3>2
    <3> QED BY <3>1, <3>2
  <2>5. PushedCopy(v)
    BY <2>2, <2>3, <2>4 DEF PushedCopy
  <2> QED BY <2>5, CopyCases
<1>5. CASE StoredCopy(v)'
  <2>1. PICK k \in Keys : rows'[k] # None /\ v = CopyOf(k[2], rows'[k], rows'[k])
    BY <1>5 DEF StoredCopy
  <2>2. CASE rows'[k] = rows[k]
    <3>1. StoredCopy(v)
      BY <2>1, <2>2 DEF StoredCopy
    <3> QED BY <3>1, CopyCases
  <2>3. CASE rows'[k] # rows[k]
    <3> DEFINE key == KeyOf(StorageAccount(push[w], Env(w)), Env(w))
    <3>1. PutEnvelope(w)
      BY <1>1, <2>3 DEF PushStep, RefuseEnvelope, AskWritable, RefuseNonMember, AskOwner
    <3>2. rows' = Upsert(rows, key, Env(w), next + 1) /\ key \in Keys
      BY <3>1, PutEnvelopeStep DEF IInv
    <3>3. key[2] = Env(w).id
      BY DEF KeyOf
    <3> HIDE DEF key
    <3>4. k = key /\ rows'[k] = AsRow(Env(w), next + 1)
      BY <2>3, <3>2 DEF Upsert, IInv, ServerIInv, ServerTypeOK
    <3>5. v = CopyOf(Env(w).id, Env(w), Env(w))
      BY <2>1, <3>3, <3>4 DEF CopyOf, AsRow
    <3>6. 1 \in DOMAIN push[w].todo /\ Env(w) = push[w].todo[1]
      BY <1>2 DEF Env
    <3>7. PushedCopy(v)
      BY <1>2, <3>5, <3>6 DEF PushedCopy
    <3> QED BY <3>7, CopyCases
  <2> QED BY <2>2, <2>3
<1> QED BY <1>3, <1>4, <1>5, CopyCasesNext

\* A batch holds the device's copies as they are.
LEMMA BeginPushVersions ==
    ASSUME IInv, NEW d \in Devices, NEW w \in Workers, BeginPush(d, w)
    PROVE  Copies' \subseteq Copies
<1>1. UNCHANGED <<rows, local, place, pull>>
  BY DEF BeginPush, StartPush
<1>2. PICK order \in SetToSeqs(dirty[d]) :
         StartPush(w, AccountOf[d], [n \in DOMAIN order |-> EnvelopeOf(d, order[n])])
  BY DEF BeginPush
<1> DEFINE batch == [n \in DOMAIN order |-> EnvelopeOf(d, order[n])]
<1>3. push'[w].todo = batch /\ \A x \in Workers \ {w} : push'[x] = push[x]
  <2>1. push \in [Workers -> Push \cup {None}]
    BY DEF IInv, ServerIInv, ServerTypeOK
  <2> HIDE DEF batch
  <2> QED BY <1>2, <2>1 DEF StartPush, batch
<1>4. \A n \in DOMAIN order :
         order[n] \in Ids /\ local[d][order[n]] # None
  <2>1. order \in [1..Cardinality(dirty[d]) -> dirty[d]]
    BY DEF SetToSeqs
  <2> QED BY <2>1 DEF IInv, TypeOK, DirtyIsLocal
<1> SUFFICES ASSUME NEW v \in Copies' PROVE v \in Copies
  OBVIOUS
<1>5. CASE StoredCopy(v)' \/ HeldCopy(v)' \/ PulledCopy(v)'
  BY <1>1, <1>5, CopyCases DEF StoredCopy, HeldCopy, PulledCopy
<1>6. CASE PushedCopy(v)'
  <2>1. PICK x \in Workers : push'[x] # None /\ \E n \in DOMAIN push'[x].todo :
           v = CopyOf(push'[x].todo[n].id, push'[x].todo[n], push'[x].todo[n])
    BY <1>6 DEF PushedCopy
  <2>2. CASE x = w
    <3>1. PICK n \in DOMAIN order : v = CopyOf(batch[n].id, batch[n], batch[n])
      BY <1>3, <2>1, <2>2
    <3>2. batch[n] = EnvelopeOf(d, order[n])
      OBVIOUS
    <3> HIDE DEF batch
    <3>3. v = CopyOf(order[n], local[d][order[n]], place[d][order[n]])
      BY <3>1, <3>2 DEF CopyOf, EnvelopeOf
    <3>4. HeldCopy(v)
      BY <1>4, <3>1, <3>3 DEF HeldCopy
    <3> QED BY <3>4, CopyCases
  <2>3. CASE x # w
    <3>1. PushedCopy(v)
      BY <1>3, <2>1, <2>3 DEF PushedCopy
    <3> QED BY <3>1, CopyCases
  <2> QED BY <2>2, <2>3
<1> QED BY <1>5, <1>6, CopyCasesNext

\* A page holds rows of the table.
LEMMA ServePullVersions ==
    ASSUME IInv, NEW d \in Devices, ServePull(d)
    PROVE  Copies' \subseteq Copies
<1> DEFINE page == PullPage(rows, AccountOf[d], MemberOf(AccountOf[d]), cursor[d])
           sent == {SentEnvelope(k) : k \in page.keys}
<1>1. /\ pull' = [pull EXCEPT ![d] = [cursor |-> page.cursor, more |-> page.more,
                                     envelopes |-> sent]]
      /\ \A k \in page.keys : k \in Keys /\ rows[k] \in Row
  BY ServedPage
<1>2. UNCHANGED <<rows, local, place, push>>
  BY DEF ServePull, serverVars
<1> HIDE DEF page
<1>3. \A e \in sent : \E k \in Keys : rows[k] # None /\ e = SentEnvelope(k)
  BY <1>1
<1> HIDE DEF sent
<1>4. pull'[d].envelopes = sent /\ \A e \in Devices \ {d} : pull'[e] = pull[e]
  BY <1>1 DEF IInv, TypeOK
<1> SUFFICES ASSUME NEW v \in Copies' PROVE v \in Copies
  OBVIOUS
<1>5. CASE StoredCopy(v)' \/ HeldCopy(v)' \/ PushedCopy(v)'
  BY <1>2, <1>5, CopyCases DEF StoredCopy, HeldCopy, PushedCopy
<1>6. CASE PulledCopy(v)'
  <2>1. PICK x \in Devices : pull'[x] # None /\ \E e \in pull'[x].envelopes :
           v = CopyOf(e.id, e, e)
    BY <1>6 DEF PulledCopy
  <2>2. CASE x = d
    <3>1. PICK e \in sent : v = CopyOf(e.id, e, e)
      BY <1>4, <2>1, <2>2
    <3>2. PICK k \in Keys : rows[k] # None /\ e = SentEnvelope(k)
      BY <1>3, <3>1
    <3>3. v = CopyOf(k[2], rows[k], rows[k])
      BY <3>1, <3>2 DEF CopyOf, SentEnvelope
    <3>4. StoredCopy(v)
      BY <3>2, <3>3 DEF StoredCopy
    <3> QED BY <3>4, CopyCases
  <2>3. CASE x # d
    <3>1. PulledCopy(v)
      BY <1>4, <2>1, <2>3 DEF PulledCopy
    <3> QED BY <3>1, CopyCases
  <2> QED BY <2>2, <2>3
<1> QED BY <1>5, <1>6, CopyCasesNext

\* A merge takes over versions of the page and only moves copies forward.
LEMMA ReceivePullVersions ==
    ASSUME IInv, IInv', NEW d \in Devices, ReceivePull(d)
    PROVE  /\ Copies' \subseteq Copies
           /\ \A e \in Devices, i \in Ids : local[e][i] # None =>
                 local'[e][i] # None /\ Covers(local'[e][i], local[e][i])
<1>1. /\ pull[d] # None
      /\ local' = [local EXCEPT ![d] = [i \in Ids |-> Merged(d, i)]]
      /\ place' = [place EXCEPT ![d] = [i \in Ids |-> MergedPlace(d, i)]]
      /\ pull' = [pull EXCEPT ![d] = None]
      /\ UNCHANGED <<rows, push>>
  BY DEF ReceivePull, serverVars
<1>2. TypeOK /\ TypeOK' /\ PagesAreStored
  BY DEF IInv
<1>3. /\ \A i \in Ids : local'[d][i] = Merged(d, i) /\ place'[d][i] = MergedPlace(d, i)
      /\ pull'[d] = None
      /\ \A e \in Devices \ {d} : /\ local'[e] = local[e] /\ place'[e] = place[e]
                                   /\ pull'[e] = pull[e]
  BY <1>1, <1>2 DEF TypeOK
<1>4. ASSUME NEW i \in Ids
      PROVE  /\ \/ Merged(d, i) = local[d][i] /\ MergedPlace(d, i) = place[d][i]
                \/ \E e \in pull[d].envelopes :
                      CopyOf(i, Merged(d, i), MergedPlace(d, i)) = CopyOf(e.id, e, e)
             /\ local[d][i] # None =>
                   Merged(d, i) # None /\ Covers(Merged(d, i), local[d][i])
  <2>1. CASE Fresher(d, i) = {}
    <3>1. Merged(d, i) = local[d][i] /\ MergedPlace(d, i) = place[d][i]
      BY <2>1 DEF Merged, MergedPlace
    <3> QED BY <3>1, CoversReflexive
  <2>2. CASE Fresher(d, i) # {}
    <3>1. Merged(d, i) \in Clock /\ \E e \in pull[d].envelopes :
             /\ e.id = i /\ SameClock(Merged(d, i), e) /\ MergedPlace(d, i) = PlaceOf(e)
      BY <1>1, <1>2, <2>2, MergedCovers
    <3>2. PICK e \in pull[d].envelopes :
             /\ e.id = i /\ SameClock(Merged(d, i), e) /\ MergedPlace(d, i) = PlaceOf(e)
      BY <3>1
    <3>3. CopyOf(i, Merged(d, i), MergedPlace(d, i)) = CopyOf(e.id, e, e)
      BY <3>2 DEF CopyOf, SameClock, PlaceOf
    <3>4. local[d][i] # None => Covers(Merged(d, i), local[d][i])
      BY <1>1, <1>2, MergedCovers
    <3> QED BY <3>1, <3>3, <3>4
  <2> QED BY <2>1, <2>2
<1>5. ASSUME NEW e \in Devices, NEW i \in Ids, local[e][i] # None
      PROVE  local'[e][i] # None /\ Covers(local'[e][i], local[e][i])
  <2>1. CASE e = d
    BY <1>3, <1>4, <1>5, <2>1
  <2>2. CASE e # d
    BY <1>3, <1>5, <2>2, CoversReflexive
  <2> QED BY <2>1, <2>2
<1>6. ASSUME NEW v \in Copies' PROVE v \in Copies
  <2>1. CASE StoredCopy(v)' \/ PushedCopy(v)'
    BY <1>1, <2>1, CopyCases DEF StoredCopy, PushedCopy
  <2>2. CASE PulledCopy(v)'
    <3>1. PulledCopy(v)
      BY <1>3, <2>2 DEF PulledCopy
    <3> QED BY <3>1, CopyCases
  <2>3. CASE HeldCopy(v)'
    <3>1. PICK e \in Devices, i \in Ids :
             local'[e][i] # None /\ v = CopyOf(i, local'[e][i], place'[e][i])
      BY <2>3 DEF HeldCopy
    <3>2. CASE local'[e][i] = local[e][i] /\ place'[e][i] = place[e][i]
      <4>1. HeldCopy(v)
        BY <3>1, <3>2 DEF HeldCopy
      <4> QED BY <4>1, CopyCases
    <3>3. CASE ~(local'[e][i] = local[e][i] /\ place'[e][i] = place[e][i])
      <4>1. e = d
        BY <1>3, <3>3
      <4>2. local'[d][i] = Merged(d, i) /\ place'[d][i] = MergedPlace(d, i)
        BY <1>3
      <4>3. PICK u \in pull[d].envelopes :
               CopyOf(i, Merged(d, i), MergedPlace(d, i)) = CopyOf(u.id, u, u)
        BY <1>4, <3>3, <4>1, <4>2
      <4>4. v = CopyOf(u.id, u, u)
        BY <3>1, <4>1, <4>2, <4>3
      <4>5. PulledCopy(v)
        BY <1>1, <4>4 DEF PulledCopy
      <4> QED BY <4>5, CopyCases
    <3> QED BY <3>2, <3>3
  <2> QED BY <2>1, <2>2, <2>3, CopyCasesNext
<1> QED BY <1>5, <1>6

\* All other steps leave copies alone, or let go of a batch or a page.
LEMMA OtherVersions ==
    ASSUME IInv, UNCHANGED <<rows, local, place>>,
           \A w \in Workers : push'[w] \in {None, push[w]},
           \A d \in Devices : pull'[d] \in {None, pull[d]}
    PROVE  Copies' \subseteq Copies
<1> SUFFICES ASSUME NEW v \in Copies' PROVE v \in Copies
  OBVIOUS
<1>1. CASE StoredCopy(v)' \/ HeldCopy(v)'
  BY <1>1, CopyCases DEF StoredCopy, HeldCopy
<1>2. CASE PushedCopy(v)'
  <2>1. PushedCopy(v)
    BY <1>2 DEF PushedCopy
  <2> QED BY <2>1, CopyCases
<1>3. CASE PulledCopy(v)'
  <2>1. PulledCopy(v)
    BY <1>3 DEF PulledCopy
  <2> QED BY <2>1, CopyCases
<1> QED BY <1>1, <1>2, <1>3, CopyCasesNext

\* Only an edit makes a version, and all other steps move copies forward.
LEMMA OtherCopies ==
    ASSUME IInv, IInv', [Next]_vars, ~\E d \in Devices, i \in Ids : Edit(d, i)
    PROVE  /\ Copies' \subseteq Copies
           /\ \A d \in Devices, i \in Ids : local[d][i] # None =>
                 local'[d][i] # None /\ Covers(local'[d][i], local[d][i])
<1>1. UNCHANGED local => \A d \in Devices, i \in Ids : local[d][i] # None =>
         local'[d][i] # None /\ Covers(local'[d][i], local[d][i])
  BY CoversReflexive
<1>2. CASE \E w \in Workers : Handle(w)
  BY <1>1, <1>2, HandleVersions DEF Handle, deviceVars
<1>3. CASE \E d \in Devices, w \in Workers : BeginPush(d, w)
  BY <1>1, <1>3, BeginPushVersions DEF BeginPush
<1>4. CASE \E d \in Devices : ServePull(d)
  BY <1>1, <1>4, ServePullVersions DEF ServePull
<1>5. CASE \E d \in Devices : ReceivePull(d)
  BY <1>5, ReceivePullVersions
<1>6. CASE \/ \E d \in Devices : ReceivePush(d) \/ AbandonPush(d) \/ LosePull(d)
           \/ \E w \in Workers : FinishUnheard(w) \/ LoseHandler(w)
           \/ (Share \/ Tick) /\ UNCHANGED deviceVars
           \/ UNCHANGED vars
  <2>1. UNCHANGED <<rows, local, place>>
    BY <1>6 DEF ReceivePush, FinishPush, AbandonPush, LosePull, FinishUnheard,
       LoseHandler, CancelPush, Share, CreateShare, RemoveShare, Tick, vars,
       serverVars, deviceVars
  <2>2. \A w \in Workers : push'[w] \in {None, push[w]}
    <3>1. push' = push \/ \E w \in Workers \cup {None} : push' = [push EXCEPT ![w] = None]
      BY <1>6 DEF ReceivePush, FinishPush, AbandonPush, LosePull, FinishUnheard,
         LoseHandler, CancelPush, Share, CreateShare, RemoveShare, Tick, vars,
         serverVars, deviceVars, IInv, TypeOK
    <3> QED BY <3>1 DEF IInv, ServerIInv, ServerTypeOK
  <2>3. \A d \in Devices : pull'[d] \in {None, pull[d]}
    <3>1. pull' = pull \/ \E d \in Devices : pull' = [pull EXCEPT ![d] = None]
      BY <1>6 DEF ReceivePush, FinishPush, AbandonPush, LosePull, FinishUnheard,
         LoseHandler, CancelPush, Share, CreateShare, RemoveShare, Tick, vars,
         serverVars, deviceVars
    <3> QED BY <3>1 DEF IInv, TypeOK
  <2> QED BY <1>1, <2>1, <2>2, <2>3, OtherVersions
<1>7. CASE Next
  BY <1>2, <1>3, <1>4, <1>5, <1>6, <1>7 DEF Next, ClientStep, Loss, AllSynced
<1> QED BY <1>6, <1>7

LEMMA NextVersions ==
    ~RawStamps /\ IInv /\ IInv' /\ VersionIInv /\ [Next]_vars => VersionIInv'
BY EditVersions, OtherCopies, KeptVersions

(***************************************************************************)
(* A device never goes back on a record, by its own edits or by what it    *)
(* pulls, whatever happens to shares and to rows (merge.rs:30).            *)
(***************************************************************************)
THEOREM CopiesOnlyAdvance ==
    ASSUME ~RawStamps
    PROVE  Spec => CopiesAdvance
<1> DEFINE Forward == \A d \in Devices, i \in Ids :
              /\ local[d][i] # None
              /\ local'[d][i] # local[d][i] \/ place'[d][i] # place[d][i]
              => local'[d][i] # None /\ Wins(local'[d][i], local[d][i])
<1>1. IInv /\ IInv' /\ Next => Forward
  <2> SUFFICES ASSUME IInv, IInv', Next, NEW d \in Devices, NEW i \in Ids,
                      local[d][i] # None,
                      local'[d][i] # local[d][i] \/ place'[d][i] # place[d][i]
               PROVE  local'[d][i] # None /\ Wins(local'[d][i], local[d][i])
    OBVIOUS
  <2>1. ASSUME NEW e \in Devices, NEW j \in Ids, Edit(e, j)
        PROVE  local'[d][i] # None /\ Wins(local'[d][i], local[d][i])
    <3> DEFINE clock == [updated_at |-> Stamp(e, j), device_id |-> e]
    <3>1. /\ clock # None /\ local'[e][j] = clock
          /\ \A x \in Devices, k \in Ids : ~(x = e /\ k = j) =>
                local'[x][k] = local[x][k] /\ place'[x][k] = place[x][k]
      BY <2>1, EditCopies
    <3>2. d = e /\ i = j
      BY <3>1
    <3>3. Stamp(d, i) \in Int /\ Stamp(d, i) > local[d][i].updated_at
      BY StampIsLater DEF IInv
    <3> QED BY <3>1, <3>2, <3>3 DEF Wins
  <2>2. ASSUME NEW e \in Devices, ReceivePull(e)
        PROVE  local'[d][i] # None /\ Wins(local'[d][i], local[d][i])
    <3>1. /\ pull[e] # None
          /\ local' = [local EXCEPT ![e] = [k \in Ids |-> Merged(e, k)]]
          /\ place' = [place EXCEPT ![e] = [k \in Ids |-> MergedPlace(e, k)]]
      BY <2>2 DEF ReceivePull
    <3>2. d = e /\ local'[d][i] = Merged(d, i) /\ place'[d][i] = MergedPlace(d, i)
      BY <3>1 DEF IInv, TypeOK
    <3>3. Fresher(d, i) # {}
      BY <3>2 DEF Merged, MergedPlace
    <3>4. Merged(d, i) \in Clock /\ Wins(Merged(d, i), local[d][i])
      BY <3>1, <3>2, <3>3, MergedCovers DEF IInv
    <3> QED BY <3>2, <3>4
  <2>3. CASE UNCHANGED <<local, place>>
    BY <2>3
  <2> QED BY <2>1, <2>2, <2>3 DEF Next, ClientStep, BeginPush, ReceivePush, ServePull,
             Handle, FinishUnheard, Loss, LoseHandler, AbandonPush, LosePull,
             AllSynced, vars, deviceVars
<1>2. IInv /\ IInv' /\ [Next]_vars => [Forward]_vars
  BY <1>1
<1> QED BY <1>2, Invariance, PTL DEF Spec, CopiesAdvance

(***************************************************************************)
(* Equal clocks are equal records, on every device, in the table and on    *)
(* the way (the WHERE of put_envelope, merge.rs:36), as long as no device  *)
(* stamps an edit at or below the copy it replaces.                        *)
(***************************************************************************)
THEOREM ClocksNameVersions ==
    ASSUME ~RawStamps
    PROVE  Spec => []VersionIInv
<1>1. Init => VersionIInv
  <2> SUFFICES ASSUME Init PROVE Copies = {}
    BY DEF VersionIInv, AuthorsAreAhead, OneVersionPerClock
  <2> SUFFICES ASSUME NEW v \in Copies PROVE FALSE
    OBVIOUS
  <2> QED BY CopyCases DEF StoredCopy, HeldCopy, PushedCopy, PulledCopy, Init, EmptyTable
<1>2. IInv /\ IInv' /\ VersionIInv /\ [Next]_vars => VersionIInv'
  BY NextVersions
<1> QED BY <1>1, <1>2, Invariance, PTL DEF Spec

(***************************************************************************)
(* What a store or a device drops because its clock is the one it has is   *)
(* what it has, also when the record moved between a group and its account *)
(* (put_envelope's WHERE and SET, merge.rs:36).                            *)
(***************************************************************************)
THEOREM EqualClocksAgree ==
    ASSUME ~RawStamps
    PROVE  Spec => []OneVersionPerClock
<1>1. VersionIInv => OneVersionPerClock
  BY DEF VersionIInv
<1> QED BY <1>1, ClocksNameVersions, PTL

-----------------------------------------------------------------------------
\* One record, one row: every route a batch can take leads to the record's home.

\* Where nobody removes shares, a group keeps its members.
LEMMA MembersStay ==
    ASSUME OneHome, IInv, [Next]_vars
    PROVE  \A g \in Groups : Members(g) \subseteq Members(g)'
<1>0. shares \in [Groups \X Accounts -> Accounts \cup {None}]
  BY DEF IInv, ServerIInv, ServerTypeOK
<1>1. \/ UNCHANGED shares
      \/ \E s \in ShareRequests : CreateShare(s[1], s[2], s[3])
  BY SharesChange DEF OneHome
<1>2. \A g \in Groups, u \in Accounts :
         shares[<<g, u>>] # None => shares'[<<g, u>>] = shares[<<g, u>>]
  BY <1>0, <1>1 DEF CreateShare, PutShare
<1> QED BY <1>2 DEF Members

\* A copy on a device is filed by the record's account.
LEMMA HeldFiledByHome ==
    ASSUME CopiesFiledByHome, NEW d \in Devices, NEW i \in Ids, local[d][i] # None
    PROVE  /\ FiledByHome(place[d][i], i)
           /\ place[d][i].key_ref = None => AccountOf[local[d][i].device_id] = Home(i)
<1> DEFINE v == CopyOf(i, local[d][i], place[d][i])
<1>1. HeldCopy(v)
  BY DEF HeldCopy
<1>2. v \in Copies
  BY <1>1, CopyCases
<1>3. /\ v.id = i /\ v.device_id = local[d][i].device_id
      /\ v.group_id = place[d][i].group_id /\ v.key_ref = place[d][i].key_ref
  BY DEF CopyOf
<1> HIDE DEF v
<1> QED BY <1>2, <1>3 DEF CopiesFiledByHome, FiledByHome

\* Who edits a record files it as the record's account does, and leaves it in
\* its place when it is another account's.
LEMMA EditsStayHome ==
    ASSUME OneHome, IInv, CopiesFiledByHome, NEW d \in Devices, NEW i \in Ids,
           Edit(d, i), NEW p \in EditsInto(d, i)
    PROVE  /\ FiledByHome(p, i)
           /\ p.key_ref = None => AccountOf[d] = Home(i)
           /\ AccountOf[d] # Home(i) => local[d][i] # None /\ p = place[d][i]
<1>1. CASE p \in Filings[d][i]
  BY <1>1 DEF OneHome
<1>2. CASE p \notin Filings[d][i]
  <2>1. local[d][i] # None /\ p = place[d][i]
    BY <1>2 DEF EditsInto
  <2>2. Opens(d, i)
    BY <2>1 DEF Edit
  <2> QED BY <2>1, <2>2, HeldFiledByHome DEF Opens
<1> QED BY <1>1, <1>2

LEMMA NextCopiesFiledByHome ==
    ASSUME OneHome, IInv, IInv', CopiesFiledByHome, [Next]_vars
    PROVE  CopiesFiledByHome'
<1>1. CASE ~\E d \in Devices, i \in Ids : Edit(d, i)
  BY <1>1, OtherCopies DEF CopiesFiledByHome
<1>2. ASSUME NEW d \in Devices, NEW i \in Ids, Edit(d, i) PROVE CopiesFiledByHome'
  <2> DEFINE clock == [updated_at |-> Stamp(d, i), device_id |-> d]
  <2>1. PICK p \in EditsInto(d, i) :
           \A v \in Copies' : v \in Copies \/ v = CopyOf(i, clock, p)
    BY <1>2, EditCopies
  <2> DEFINE new == CopyOf(i, clock, p)
  <2>2. /\ new.id = i /\ new.device_id = d
        /\ new.group_id = p.group_id /\ new.key_ref = p.key_ref
    BY DEF CopyOf
  <2>3. FiledByHome(p, i) /\ (p.key_ref = None => AccountOf[d] = Home(i))
    BY <1>2, EditsStayHome
  <2> HIDE DEF new
  <2>4. FiledByHome(new, i)
    BY <2>2, <2>3 DEF FiledByHome
  <2> QED BY <2>1, <2>2, <2>3, <2>4 DEF CopiesFiledByHome, new
<1> QED BY <1>1, <1>2

\* A batch's envelope goes to the row of the record's own account.
LEMMA RoutedHome ==
    ASSUME HomeIInv, NEW w \in Workers, PutEnvelope(w), ServerIInv
    PROVE  StorageAccount(push[w], Env(w)) = Home(Env(w).id)
<1> DEFINE p == push[w]
           env == Env(w)
<1>1. /\ p # None /\ p \in Push /\ env \in Envelope
      /\ 1 \in DOMAIN p.todo /\ env = p.todo[1]
  <2>1. Working(w)
    BY DEF PutEnvelope, Passed
  <2>2. p \in Push /\ env \in Envelope /\ p.todo # <<>> /\ p # None
    BY <2>1, WorkingTyped DEF ServerIInv, Working
  <2>3. p.todo \in Seq(Envelope)
    BY <2>2 DEF Push
  <2> QED BY <2>2, <2>3 DEF Env
<1>2. FiledByHome(env, env.id)
  <2> DEFINE v == CopyOf(env.id, env, env)
  <2>1. PushedCopy(v)
    BY <1>1 DEF PushedCopy
  <2>2. v \in Copies
    BY <2>1, CopyCases
  <2>3. v.id = env.id /\ v.group_id = env.group_id /\ v.key_ref = env.key_ref
    BY DEF CopyOf
  <2> HIDE DEF v
  <2> QED BY <2>2, <2>3 DEF HomeIInv, CopiesFiledByHome, FiledByHome
<1>3. p.account # Home(env.id) =>
         env.key_ref # None /\ p.owners[env.key_ref] # None
  BY <1>1 DEF HomeIInv, PushesLeadHome, LeadsHome
<1>4. CASE env.key_ref = None
  BY <1>3, <1>4 DEF StorageAccount
<1>5. CASE env.key_ref # None
  <2>1. env.key_ref \in Groups /\ p.owners[env.key_ref] # Unasked
    BY <1>1, <1>5 DEF PutEnvelope, Envelope
  <2>2. CASE p.owners[env.key_ref] = None
    BY <1>3, <1>5, <2>2 DEF StorageAccount
  <2>3. CASE p.owners[env.key_ref] # None
    <3>1. PICK s \in InitialShares \cup ShareRequests :
             s[1] = p.owners[env.key_ref] /\ s[2] = env.key_ref
      BY <1>1, <2>1, <2>3 DEF HomeIInv, PushesLeadHome, LeadsHome
    <3>2. s[1] = Home(env.id)
      BY <1>2, <1>5, <3>1 DEF FiledByHome, OnlyHomeShares
    <3> QED BY <1>5, <2>3, <3>1, <3>2 DEF StorageAccount
  <2> QED BY <2>2, <2>3
<1> QED BY <1>4, <1>5

LEMMA NextRowsAtHome ==
    ASSUME IInv, HomeIInv, [Next]_vars
    PROVE  RowsAtHome'
<1>1. CASE \E w \in Workers : PutEnvelope(w)
  <2>1. PICK w \in Workers : PutEnvelope(w)
    BY <1>1
  <2> DEFINE key == KeyOf(StorageAccount(push[w], Env(w)), Env(w))
  <2>2. rows' = Upsert(rows, key, Env(w), next + 1) /\ key \in Keys
    BY <2>1, PutEnvelopeStep DEF IInv
  <2>3. key[1] = Home(key[2])
    BY <2>1, RoutedHome DEF IInv, KeyOf
  <2> HIDE DEF key
  <2>4. \A k \in Keys : rows'[k] # None => k = key \/ rows[k] # None
    BY <2>2 DEF Upsert, IInv, ServerIInv, ServerTypeOK
  <2> QED BY <2>3, <2>4 DEF HomeIInv, RowsAtHome
<1>2. CASE ~\E w \in Workers : PutEnvelope(w)
  <2>1. UNCHANGED rows
    BY <1>2 DEF Next, Edit, ClientStep, BeginPush, StartPush, ReceivePush,
       FinishPush, ServePull, ReceivePull, Handle, PushStep, RefuseEnvelope,
       AskWritable, RefuseNonMember, AskOwner, FinishUnheard, Loss, LoseHandler,
       CancelPush, AbandonPush, LosePull, Share, CreateShare, RemoveShare,
       Tick, AllSynced, vars, serverVars
  <2> QED BY <2>1 DEF HomeIInv, RowsAtHome
<1> QED BY <1>1, <1>2

LEMMA SharedStays ==
    ASSUME \A g \in Groups : Members(g) \subseteq Members(g)',
           NEW account, NEW v, v.key_ref \in Groups \cup {None}, SharedWith(account, v)
    PROVE  SharedWith(account, v)'
BY DEF SharedWith

\* A step that shares no copy anew keeps those that are there.
LEMMA KeptShared ==
    ASSUME IInv, CopiesAreShared,
           \A g \in Groups : Members(g) \subseteq Members(g)',
           UNCHANGED <<local, place>>,
           \A d \in Devices : /\ dirty'[d] \subseteq dirty[d]
                              /\ pull'[d] \in {None, pull[d]}
    PROVE  CopiesAreShared'
<1> SUFFICES ASSUME NEW d \in Devices
             PROVE  /\ \A i \in Ids : local[d][i] # None =>
                          SharedWith(AccountOf[d], CopyOf(i, local[d][i], place[d][i]))'
                    /\ \A i \in dirty'[d] :
                          AccountOf[d] # Home(i) => place[d][i].key_ref # None
                    /\ pull'[d] # None =>
                          \A e \in pull'[d].envelopes : SharedWith(AccountOf[d], e)'
  BY DEF CopiesAreShared, SharedWith
<1>1. ASSUME NEW i \in Ids, local[d][i] # None
      PROVE  SharedWith(AccountOf[d], CopyOf(i, local[d][i], place[d][i]))'
  <2>1. SharedWith(AccountOf[d], CopyOf(i, local[d][i], place[d][i]))
    BY <1>1 DEF CopiesAreShared
  <2>2. place[d][i].key_ref \in Groups \cup {None}
    BY DEF IInv, TypeOK, Places
  <2> QED BY <2>1, <2>2 DEF SharedWith, CopyOf
<1>2. ASSUME pull'[d] # None, NEW e \in pull'[d].envelopes
      PROVE  SharedWith(AccountOf[d], e)'
  <2>1. pull'[d] = pull[d] /\ pull[d] # None
    BY <1>2
  <2>2. e \in Version /\ SharedWith(AccountOf[d], e)
    BY <1>2, <2>1 DEF CopiesAreShared, IInv, TypeOK, Page
  <2> QED BY <2>2, SharedStays DEF Version
<1> QED BY <1>1, <1>2 DEF CopiesAreShared

LEMMA EditShared ==
    ASSUME OneHome, IInv, IInv', HomeIInv, NEW d \in Devices, NEW i \in Ids, Edit(d, i)
    PROVE  CopiesAreShared'
<1> DEFINE clock == [updated_at |-> Stamp(d, i), device_id |-> d]
<1>1. PICK p \in EditsInto(d, i) :
         /\ local'[d][i] = clock /\ place'[d][i] = p
         /\ \A e \in Devices, j \in Ids : ~(e = d /\ j = i) =>
               local'[e][j] = local[e][j] /\ place'[e][j] = place[e][j]
  BY EditCopies
<1>2. /\ \A e \in Devices : \A j \in dirty'[e] : j \in dirty[e] \/ (e = d /\ j = i)
      /\ UNCHANGED <<pull, shares>>
  BY DEF Edit, IInv, TypeOK, serverVars
<1>3. /\ p.key_ref = None => AccountOf[d] = Home(i)
      /\ AccountOf[d] # Home(i) => local[d][i] # None /\ p = place[d][i]
  BY EditsStayHome DEF HomeIInv
<1>4. \A g : Members(g)' = Members(g)
  BY <1>2 DEF Members
<1> HIDE DEF clock
<1>5. ASSUME NEW e \in Devices, NEW j \in Ids, local'[e][j] # None
      PROVE  SharedWith(AccountOf[e], CopyOf(j, local'[e][j], place'[e][j]))
  <2>1. CASE ~(e = d /\ j = i)
    BY <1>1, <1>5, <2>1 DEF HomeIInv, CopiesAreShared
  <2>2. CASE e = d /\ j = i /\ AccountOf[d] # Home(i)
    <3>1. SharedWith(AccountOf[d], CopyOf(i, local[d][i], place[d][i]))
      BY <1>3, <2>2 DEF HomeIInv, CopiesAreShared
    <3> QED BY <1>1, <1>3, <2>2, <3>1 DEF SharedWith, CopyOf
  <2>3. CASE e = d /\ j = i /\ AccountOf[d] = Home(i)
    BY <2>3 DEF SharedWith, CopyOf
  <2> QED BY <2>1, <2>2, <2>3
<1>6. ASSUME NEW e \in Devices, NEW j \in dirty'[e], AccountOf[e] # Home(j)
      PROVE  place'[e][j].key_ref # None
  <2>1. j \in Ids
    BY DEF IInv, TypeOK
  <2>2. CASE e = d /\ j = i
    BY <1>1, <1>3, <1>6, <2>2
  <2>3. CASE ~(e = d /\ j = i)
    <3>1. j \in dirty[e] /\ place'[e][j] = place[e][j]
      BY <1>1, <1>2, <2>1, <2>3
    <3> QED BY <1>6, <3>1 DEF HomeIInv, CopiesAreShared
  <2> QED BY <2>2, <2>3
<1>7. ASSUME NEW e \in Devices, pull[e] # None, NEW v \in pull[e].envelopes
      PROVE  SharedWith(AccountOf[e], v)
  BY <1>7 DEF HomeIInv, CopiesAreShared
<1> QED BY <1>2, <1>4, <1>5, <1>6, <1>7 DEF CopiesAreShared, SharedWith

\* A page has another account's records for the members of their groups only.
LEMMA ServePullShared ==
    ASSUME IInv, HomeIInv, NEW d \in Devices, ServePull(d)
    PROVE  CopiesAreShared'
<1> DEFINE page == PullPage(rows, AccountOf[d], MemberOf(AccountOf[d]), cursor[d])
           sent == {SentEnvelope(k) : k \in page.keys}
<1>1. /\ pull' = [pull EXCEPT ![d] = [cursor |-> page.cursor, more |-> page.more,
                                     envelopes |-> sent]]
      /\ \A k \in page.keys :
            /\ k \in Keys /\ rows[k] \in Row
            /\ k[1] = AccountOf[d] \/ rows[k].group_id \in MemberOf(AccountOf[d])
  BY ServedPage
<1>2. UNCHANGED <<shares, local, place, dirty>>
  BY DEF ServePull, serverVars
<1> HIDE DEF page
<1>3. ASSUME NEW k \in page.keys PROVE SharedWith(AccountOf[d], SentEnvelope(k))
  <2> SUFFICES ASSUME AccountOf[d] # Home(k[2]), rows[k].key_ref # None
               PROVE  Members(rows[k].key_ref) # {}
    BY DEF SharedWith, SentEnvelope
  <2>1. k \in Keys /\ rows[k] \in Row /\ rows[k] # None
    BY <1>1
  <2>2. k[1] # AccountOf[d]
    BY <2>1 DEF HomeIInv, RowsAtHome
  <2>3. rows[k].group_id \in MemberOf(AccountOf[d])
    BY <1>1, <2>2
  <2>4. rows[k].group_id \in {None, rows[k].key_ref}
    <3> DEFINE v == CopyOf(k[2], rows[k], rows[k])
    <3>1. StoredCopy(v)
      BY <2>1 DEF StoredCopy
    <3>2. v \in Copies
      BY <3>1, CopyCases
    <3>3. v.group_id = rows[k].group_id /\ v.key_ref = rows[k].key_ref
      BY DEF CopyOf
    <3> HIDE DEF v
    <3> QED BY <3>2, <3>3 DEF HomeIInv, CopiesFiledByHome, FiledByHome
  <2>5. rows[k].group_id = rows[k].key_ref /\ AccountOf[d] \in Members(rows[k].group_id)
    BY <2>3, <2>4, RecordTableAssumption DEF MemberOf
  <2> QED BY <2>5
<1> HIDE DEF sent
<1>4. pull'[d].envelopes = sent /\ \A e \in Devices \ {d} : pull'[e] = pull[e]
  BY <1>1 DEF IInv, TypeOK
<1>5. \A e \in sent : SharedWith(AccountOf[d], e)
  BY <1>3 DEF sent
<1>6. \A g : Members(g)' = Members(g)
  BY <1>2 DEF Members
<1>7. ASSUME NEW e \in Devices, pull'[e] # None, NEW v \in pull'[e].envelopes
      PROVE  SharedWith(AccountOf[e], v)
  BY <1>4, <1>5, <1>7 DEF HomeIInv, CopiesAreShared
<1> QED BY <1>2, <1>6, <1>7 DEF HomeIInv, CopiesAreShared, SharedWith

LEMMA ReceivePullShared ==
    ASSUME IInv, IInv', HomeIInv, NEW d \in Devices, ReceivePull(d)
    PROVE  CopiesAreShared'
<1>1. /\ pull[d] # None
      /\ local' = [local EXCEPT ![d] = [i \in Ids |-> Merged(d, i)]]
      /\ place' = [place EXCEPT ![d] = [i \in Ids |-> MergedPlace(d, i)]]
      /\ dirty' = [dirty EXCEPT ![d] = {i \in dirty[d] : Fresher(d, i) = {}}]
      /\ pull' = [pull EXCEPT ![d] = None]
      /\ UNCHANGED shares
  BY DEF ReceivePull, serverVars
<1>2. TypeOK /\ TypeOK' /\ PagesAreStored
  BY DEF IInv
<1>3. /\ \A i \in Ids : local'[d][i] = Merged(d, i) /\ place'[d][i] = MergedPlace(d, i)
      /\ dirty'[d] = {i \in dirty[d] : Fresher(d, i) = {}}
      /\ \A e \in Devices \ {d} :
            local'[e] = local[e] /\ place'[e] = place[e] /\ dirty'[e] = dirty[e]
      /\ \A e \in Devices : pull'[e] \in {None, pull[e]}
  BY <1>1, <1>2 DEF TypeOK
<1>4. \A g : Members(g)' = Members(g)
  BY <1>1 DEF Members
<1>5. ASSUME NEW i \in Ids, Merged(d, i) # None
      PROVE  SharedWith(AccountOf[d], CopyOf(i, Merged(d, i), MergedPlace(d, i)))
  <2>1. CASE Fresher(d, i) = {}
    BY <1>5, <2>1 DEF Merged, MergedPlace, HomeIInv, CopiesAreShared
  <2>2. CASE Fresher(d, i) # {}
    <3>1. PICK e \in pull[d].envelopes : e.id = i /\ MergedPlace(d, i) = PlaceOf(e)
      BY <1>1, <1>2, <2>2, MergedCovers
    <3>2. SharedWith(AccountOf[d], e)
      BY <1>1 DEF HomeIInv, CopiesAreShared
    <3> QED BY <3>1, <3>2 DEF SharedWith, CopyOf, PlaceOf
  <2> QED BY <2>1, <2>2
<1>6. ASSUME NEW e \in Devices, NEW i \in Ids, local'[e][i] # None
      PROVE  SharedWith(AccountOf[e], CopyOf(i, local'[e][i], place'[e][i]))
  BY <1>3, <1>5, <1>6 DEF HomeIInv, CopiesAreShared
<1>7. ASSUME NEW e \in Devices, NEW i \in dirty'[e], AccountOf[e] # Home(i)
      PROVE  place'[e][i].key_ref # None
  <2>1. i \in Ids /\ i \in dirty[e]
    BY <1>2, <1>3 DEF TypeOK
  <2>2. place'[e][i] = place[e][i]
    BY <1>3, <2>1 DEF MergedPlace
  <2> QED BY <1>7, <2>1, <2>2 DEF HomeIInv, CopiesAreShared
<1>8. ASSUME NEW e \in Devices, pull'[e] # None, NEW v \in pull'[e].envelopes
      PROVE  SharedWith(AccountOf[e], v)
  <2>1. pull'[e] = pull[e]
    BY <1>3, <1>8
  <2> QED BY <1>8, <2>1 DEF HomeIInv, CopiesAreShared
<1> QED BY <1>4, <1>6, <1>7, <1>8 DEF CopiesAreShared, SharedWith

LEMMA NextCopiesAreShared ==
    ASSUME OneHome, IInv, IInv', HomeIInv, [Next]_vars
    PROVE  CopiesAreShared'
<1>1. CASE \E d \in Devices, i \in Ids : Edit(d, i)
  BY <1>1, EditShared
<1>2. CASE \E d \in Devices : ServePull(d) \/ ReceivePull(d)
  BY <1>2, ServePullShared, ReceivePullShared
<1>3. CASE \/ \E d \in Devices, w \in Workers : BeginPush(d, w)
           \/ \E d \in Devices : ReceivePush(d) \/ AbandonPush(d) \/ LosePull(d)
           \/ \E w \in Workers : Handle(w) \/ FinishUnheard(w) \/ LoseHandler(w)
           \/ (Share \/ Tick) /\ UNCHANGED deviceVars
           \/ UNCHANGED vars
  <2>1. /\ UNCHANGED <<local, place>>
        /\ \/ dirty' = dirty
           \/ \E d \in Devices : dirty' =
                 [dirty EXCEPT ![d] = @ \ Settled(d, push[waiting[d]].answers)]
        /\ pull' = pull \/ \E d \in Devices : pull' = [pull EXCEPT ![d] = None]
    BY <1>3 DEF BeginPush, ReceivePush, AbandonPush, LosePull, Handle,
       FinishUnheard, LoseHandler, vars, deviceVars
  <2>2. dirty \in [Devices -> SUBSET Ids] /\ pull \in [Devices -> Page \cup {None}]
    BY DEF IInv, TypeOK
  <2>3. \A d \in Devices : dirty'[d] \subseteq dirty[d]
    BY <2>1, <2>2
  <2>4. \A d \in Devices : pull'[d] \in {None, pull[d]}
    BY <2>1, <2>2
  <2> QED BY <2>1, <2>3, <2>4, MembersStay, KeptShared DEF HomeIInv
<1>4. CASE Next
  BY <1>1, <1>2, <1>3, <1>4 DEF Next, ClientStep, Loss, AllSynced
<1> QED BY <1>3, <1>4

\* A push step leaves the cached owners as they are or asks for one more.
LEMMA PushStepOwners ==
    ASSUME ServerIInv, NEW w \in Workers, PushStep(w)
    PROVE  \/ push'[w].owners = push[w].owners
           \/ \E g \in Groups : \E owner \in ShareOwner(g) :
                 push'[w].owners = [push[w].owners EXCEPT ![g] = owner]
<1>1. Working(w) /\ push[w] \in Push /\ Env(w) \in Envelope
  <2>1. Working(w)
    BY DEF PushStep, RefuseEnvelope, AskWritable, RefuseNonMember, AskOwner,
           PutEnvelope, Passed
  <2> QED BY <2>1, WorkingTyped DEF ServerIInv
<1>2. ASSUME NEW answer \in Refusals \cup {"Accepted", "Stale"},
             push' = Answered(w, answer)
      PROVE  push'[w].owners = push[w].owners
  BY <1>1, <1>2, AnsweredLocals DEF ServerIInv
<1>3. CASE RefuseEnvelope(w)
  BY <1>2, <1>3 DEF RefuseEnvelope, Refuse, Refusals
<1>4. CASE RefuseNonMember(w)
  BY <1>2, <1>4 DEF RefuseNonMember, Refusals
<1>5. CASE PutEnvelope(w)
  BY <1>2, <1>5 DEF PutEnvelope
<1>6. CASE AskWritable(w)
  <2>1. PICK cache : push' = [push EXCEPT ![w] = [push[w] EXCEPT !.writable = cache]]
    BY <1>6 DEF AskWritable, ServerIInv, ServerTypeOK
  <2>2. [push[w] EXCEPT !.writable = cache].owners = push[w].owners
    BY <1>1 DEF Push
  <2> QED BY <2>1, <2>2 DEF ServerIInv, ServerTypeOK
<1>7. CASE AskOwner(w)
  <2> DEFINE g == Env(w).key_ref
  <2>1. g \in Groups
    BY <1>1, <1>7 DEF AskOwner, Envelope
  <2>2. PICK owner \in ShareOwner(g) : push' = [push EXCEPT ![w].owners[g] = owner]
    BY <1>7 DEF AskOwner
  <2> DEFINE cache == [push[w].owners EXCEPT ![g] = owner]
  <2>3. push' = [push EXCEPT ![w] = [push[w] EXCEPT !.owners = cache]]
    BY <2>2 DEF ServerIInv, ServerTypeOK
  <2>4. [push[w] EXCEPT !.owners = cache].owners = cache
    BY <1>1 DEF Push
  <2> HIDE DEF cache
  <2>5. push'[w].owners = cache
    BY <2>3, <2>4 DEF ServerIInv, ServerTypeOK
  <2> QED BY <2>1, <2>5 DEF cache
<1> QED BY <1>3, <1>4, <1>5, <1>6, <1>7 DEF PushStep

\* The owner that a handler asks for is one the group was shared by.
LEMMA AskedOwnersLeadHome ==
    ASSUME IInv, SharesAsAsked, NEW p \in Push, NEW q, LeadsHome(p),
           q.account = p.account,
           \A n \in DOMAIN q.todo : \E m \in DOMAIN p.todo : q.todo[n] = p.todo[m],
           \/ q.owners = p.owners
           \/ \E g \in Groups : \E owner \in ShareOwner(g) :
                 q.owners = [p.owners EXCEPT ![g] = owner]
    PROVE  LeadsHome(q)
<1>1. CASE q.owners = p.owners
  <2>1. ASSUME NEW n \in DOMAIN q.todo, q.account # Home(q.todo[n].id)
        PROVE  /\ q.todo[n].key_ref # None /\ Members(q.todo[n].key_ref) # {}
               /\ q.owners[q.todo[n].key_ref] # None
    <3>1. PICK m \in DOMAIN p.todo : q.todo[n] = p.todo[m]
      BY <2>1
    <3> QED BY <1>1, <2>1, <3>1 DEF LeadsHome
  <2>2. \A h \in Groups : q.owners[h] \notin {Unasked, None} =>
           \E s \in InitialShares \cup ShareRequests : s[1] = q.owners[h] /\ s[2] = h
    BY <1>1 DEF LeadsHome
  <2> QED BY <2>1, <2>2 DEF LeadsHome
<1>2. ASSUME NEW g \in Groups, NEW owner \in ShareOwner(g),
             q.owners = [p.owners EXCEPT ![g] = owner]
      PROVE  LeadsHome(q)
  <2>1. \A h \in Groups : q.owners[h] = IF h = g THEN owner ELSE p.owners[h]
    BY <1>2 DEF Push
  <2>2. Members(g) # {} => owner # None /\ \E u \in Members(g) : owner = shares[<<g, u>>]
    <3> SUFFICES ASSUME Members(g) # {}
                 PROVE  owner # None /\ \E u \in Members(g) : owner = shares[<<g, u>>]
      OBVIOUS
    <3>1. PICK u \in Members(g) : owner = shares[<<g, u>>]
      BY DEF ShareOwner, Owners
    <3> QED BY <3>1 DEF Members
  <2>3. ASSUME NEW n \in DOMAIN q.todo, q.account # Home(q.todo[n].id)
        PROVE  /\ q.todo[n].key_ref # None /\ Members(q.todo[n].key_ref) # {}
               /\ q.owners[q.todo[n].key_ref] # None
    <3>1. PICK m \in DOMAIN p.todo : q.todo[n] = p.todo[m]
      BY <2>3
    <3>2. /\ p.todo[m].key_ref # None /\ Members(p.todo[m].key_ref) # {}
          /\ p.owners[p.todo[m].key_ref] # None
      BY <2>3, <3>1 DEF LeadsHome
    <3>3. p.todo[m].key_ref \in Groups
      <4>1. p.todo \in Seq(Envelope)
        BY DEF Push
      <4>2. p.todo[m] \in Envelope
        BY <4>1
      <4> QED BY <3>2, <4>2 DEF Envelope
    <3> QED BY <2>1, <2>2, <3>1, <3>2, <3>3
  <2>4. ASSUME NEW h \in Groups, q.owners[h] \notin {Unasked, None}
        PROVE  \E s \in InitialShares \cup ShareRequests :
                  s[1] = q.owners[h] /\ s[2] = h
    <3>1. CASE h # g
      BY <2>1, <2>4, <3>1 DEF LeadsHome
    <3>2. CASE h = g
      <4>1. Members(g) # {}
        BY <2>1, <2>4, <3>2 DEF ShareOwner
      <4>2. PICK u \in Members(g) : owner = shares[<<g, u>>]
        BY <2>2, <4>1
      <4>3. <<owner, g, u>> \in InitialShares \cup ShareRequests
        BY <4>2 DEF Members, SharesAsAsked
      <4>4. <<owner, g, u>>[1] = q.owners[h] /\ <<owner, g, u>>[2] = h
        BY <2>1, <3>2
      <4> QED BY <4>3, <4>4
    <3> QED BY <3>1, <3>2
  <2> QED BY <2>3, <2>4 DEF LeadsHome
<1> QED BY <1>1, <1>2

\* A batch has a device's dirty copies, for which no owner is cached yet.
LEMMA BatchLeadsHome ==
    ASSUME IInv, HomeIInv, NEW d \in Devices, NEW w \in Workers, BeginPush(d, w)
    PROVE  /\ LeadsHome(push'[w])
           /\ \A x \in Workers \ {w} : push'[x] = push[x]
<1>1. PICK order \in SetToSeqs(dirty[d]) :
         StartPush(w, AccountOf[d], [n \in DOMAIN order |-> EnvelopeOf(d, order[n])])
  BY DEF BeginPush
<1> DEFINE batch == [n \in DOMAIN order |-> EnvelopeOf(d, order[n])]
           p == [account |-> AccountOf[d], now |-> now, todo |-> batch,
                 writable |-> [g \in Groups |-> Unasked],
                 owners |-> [g \in Groups |-> Unasked], answers |-> {}]
<1>2. push' = [push EXCEPT ![w] = p]
  BY <1>1 DEF StartPush
<1>3. /\ p.account = AccountOf[d] /\ p.todo = batch
      /\ \A g \in Groups : p.owners[g] = Unasked
      /\ DOMAIN batch = DOMAIN order
      /\ \A n \in DOMAIN order : batch[n] = EnvelopeOf(d, order[n])
  OBVIOUS
<1> HIDE DEF batch, p
<1>4. push'[w] = p /\ \A x \in Workers \ {w} : push'[x] = push[x]
  BY <1>2 DEF IInv, ServerIInv, ServerTypeOK
<1>5. ASSUME NEW n \in DOMAIN order, AccountOf[d] # Home(batch[n].id)
      PROVE  /\ batch[n].key_ref # None /\ Members(batch[n].key_ref) # {}
             /\ p.owners[batch[n].key_ref] # None
  <2> DEFINE i == order[n]
  <2>1. i \in dirty[d] /\ i \in Ids /\ local[d][i] # None
    <3>1. order \in [1..Cardinality(dirty[d]) -> dirty[d]]
      BY DEF SetToSeqs
    <3> QED BY <3>1 DEF IInv, TypeOK, DirtyIsLocal
  <2>2. batch[n].id = i /\ batch[n].key_ref = place[d][i].key_ref
    BY <1>3 DEF EnvelopeOf
  <2> HIDE DEF i
  <2>3. place[d][i].key_ref # None
    BY <1>5, <2>1, <2>2 DEF HomeIInv, CopiesAreShared
  <2>4. SharedWith(AccountOf[d], CopyOf(i, local[d][i], place[d][i]))
    BY <2>1 DEF HomeIInv, CopiesAreShared
  <2>5. Members(place[d][i].key_ref) # {}
    BY <1>5, <2>2, <2>3, <2>4 DEF SharedWith, CopyOf
  <2>6. place[d][i].key_ref \in Groups
    BY <2>1, <2>3 DEF IInv, TypeOK, Places
  <2> QED BY <1>3, <2>2, <2>3, <2>5, <2>6, SyncServerAssumption
<1> QED BY <1>3, <1>4, <1>5 DEF LeadsHome

LEMMA NextPushesLeadHome ==
    ASSUME OneHome, IInv, SharesAsAsked, HomeIInv, [Next]_vars
    PROVE  PushesLeadHome'
<1>1. push \in [Workers -> Push \cup {None}]
  BY DEF IInv, ServerIInv, ServerTypeOK
<1>2. ASSUME NEW p \in Push, LeadsHome(p) PROVE LeadsHome(p)'
  <2>1. \A n \in DOMAIN p.todo : p.todo[n].key_ref \in Groups \cup {None}
    <3>1. p.todo \in Seq(Envelope)
      BY DEF Push
    <3>2. \A n \in DOMAIN p.todo : p.todo[n] \in Envelope
      BY <3>1
    <3> QED BY <3>2 DEF Envelope
  <2>2. \A g \in Groups : Members(g) \subseteq Members(g)'
    BY MembersStay
  <2> QED BY <1>2, <2>1, <2>2 DEF LeadsHome
<1>3. ASSUME \A w \in Workers : push'[w] \in {None, push[w]} PROVE PushesLeadHome'
  <2> SUFFICES ASSUME NEW w \in Workers, push'[w] # None PROVE LeadsHome(push[w])'
    BY DEF PushesLeadHome
  <2>1. PICK p \in Push : p = push[w] /\ p = push'[w]
    BY <1>1, <1>3
  <2>2. LeadsHome(p)
    BY <2>1 DEF HomeIInv, PushesLeadHome
  <2>3. LeadsHome(p)'
    BY <1>2, <2>2
  <2> QED BY <2>1, <2>3
<1>4. ASSUME NEW w \in Workers, LeadsHome(push'[w]), UNCHANGED shares,
             \A x \in Workers \ {w} : push'[x] = push[x]
      PROVE  PushesLeadHome'
  <2>1. \A g : Members(g)' = Members(g)
    BY <1>4 DEF Members
  <2>2. ASSUME NEW x \in Workers, push'[x] # None PROVE LeadsHome(push'[x])
    BY <1>4, <2>2 DEF HomeIInv, PushesLeadHome
  <2> QED BY <2>1, <2>2 DEF PushesLeadHome, LeadsHome
<1>5. CASE \E d \in Devices, w \in Workers : BeginPush(d, w)
  BY <1>4, <1>5, BatchLeadsHome DEF BeginPush, StartPush
<1>6. ASSUME NEW w \in Workers, Handle(w) PROVE PushesLeadHome'
  <2>1. PushStep(w) /\ ServerIInv
    BY <1>6 DEF Handle, IInv
  <2>2. /\ push[w] \in Push /\ push[w] # None
        /\ push[w].todo \in Seq(Envelope) /\ push[w].todo # <<>>
        /\ push'[w].todo \in {push[w].todo, Tail(push[w].todo)}
        /\ \A x \in Workers \ {w} : push'[x] = push[x]
    BY <1>1, <2>1, PushStepTodo
  <2>3. \A n \in DOMAIN push'[w].todo :
           \E m \in DOMAIN push[w].todo : push'[w].todo[n] = push[w].todo[m]
    <3>1. CASE push'[w].todo = push[w].todo
      BY <3>1
    <3>2. CASE push'[w].todo = Tail(push[w].todo)
      <4>1. \A n \in DOMAIN Tail(push[w].todo) :
               n + 1 \in DOMAIN push[w].todo /\ Tail(push[w].todo)[n] = push[w].todo[n + 1]
        BY <2>2
      <4> QED BY <3>2, <4>1
    <3> QED BY <2>2, <3>1, <3>2
  <2>4. push'[w].account = push[w].account
    BY <2>1, <2>2, PushStepLocals
  <2>5. LeadsHome(push[w])
    BY <2>2 DEF HomeIInv, PushesLeadHome
  <2>6. LeadsHome(push'[w])
    BY <2>1, <2>2, <2>3, <2>4, <2>5, PushStepOwners, AskedOwnersLeadHome
  <2>7. UNCHANGED shares
    BY <2>1 DEF PushStep, RefuseEnvelope, AskWritable, RefuseNonMember, AskOwner,
           PutEnvelope
  <2> QED BY <1>4, <2>2, <2>6, <2>7
<1>7. CASE \/ \E d \in Devices, i \in Ids : Edit(d, i)
           \/ \E d \in Devices : \/ ReceivePush(d) \/ ServePull(d) \/ ReceivePull(d)
                                 \/ AbandonPush(d) \/ LosePull(d)
           \/ \E w \in Workers : FinishUnheard(w) \/ LoseHandler(w)
           \/ (Share \/ Tick) /\ UNCHANGED deviceVars
           \/ UNCHANGED vars
  <2>1. push' = push \/ \E w \in Workers \cup {None} : push' = [push EXCEPT ![w] = None]
    BY <1>7 DEF Edit, ReceivePush, FinishPush, ServePull, ReceivePull, AbandonPush,
       LosePull, FinishUnheard, LoseHandler, CancelPush, Share, CreateShare,
       RemoveShare, Tick, vars, serverVars, deviceVars, IInv, TypeOK
  <2> QED BY <1>1, <1>3, <2>1
<1>8. CASE Next
  BY <1>5, <1>6, <1>7, <1>8 DEF Next, ClientStep, Loss, AllSynced
<1> QED BY <1>7, <1>8

(***************************************************************************)
(* Whatever accounts share, whoever edits, and however pushes of several   *)
(* devices interleave with shares being made, every record stays under the *)
(* account that made it: no handler's cached owner (routes/sync.rs:77)     *)
(* and no re-filed copy leads a batch elsewhere, where clients keep to     *)
(* OneHome.                                                                *)
(***************************************************************************)
THEOREM RecordsStayHome ==
    ASSUME OneHome
    PROVE  Spec => []HomeIInv
<1>1. Init => HomeIInv /\ SharesAsAsked
  <2> SUFFICES ASSUME Init PROVE HomeIInv
    BY InitSharesAsAsked
  <2>1. Copies = {}
    <3> SUFFICES ASSUME NEW v \in Copies PROVE FALSE
      OBVIOUS
    <3> QED BY CopyCases
            DEF StoredCopy, HeldCopy, PushedCopy, PulledCopy, Init, EmptyTable
  <2> QED BY <2>1 DEF Init, HomeIInv, RowsAtHome, CopiesFiledByHome, CopiesAreShared,
                      PushesLeadHome, EmptyTable
<1>2. IInv /\ IInv' /\ SharesAsAsked /\ HomeIInv /\ [Next]_vars
         => SharesAsAsked' /\ HomeIInv'
  BY NextShares, NextRowsAtHome, NextCopiesFiledByHome, NextCopiesAreShared,
     NextPushesLeadHome DEF HomeIInv
<1> QED BY <1>1, <1>2, Invariance, PTL DEF Spec

(***************************************************************************)
(* A record of a group is one row, the owner's, for all the members who    *)
(* edit it (store/mod.rs, share_owner; tests/store.rs:543).                *)
(***************************************************************************)
THEOREM OneRecordOneRow ==
    ASSUME OneHome
    PROVE  Spec => []OneRowPerRecord
<1>1. HomeIInv => OneRowPerRecord
  <2> SUFFICES ASSUME RowsAtHome, NEW j \in Keys, NEW k \in Keys, j[2] = k[2],
                      rows[j] # None, rows[k] # None
               PROVE  j = k
    BY DEF HomeIInv, OneRowPerRecord
  <2>1. j[1] = k[1]
    BY DEF RowsAtHome
  <2> QED BY <2>1 DEF Keys
<1> QED BY <1>1, RecordsStayHome, PTL

-----------------------------------------------------------------------------
\* At rest.

\* A device at rest that may read a record's row has the version of the row.
LEMMA AtRestHasTheRow ==
    ASSUME IInv, NothingSkipped, OneRowPerRecord, Quiet,
           NEW d \in Devices, NEW k \in Keys, rows[k] # None,
           k[1] = AccountOf[d] \/ rows[k].group_id \in MemberOf(AccountOf[d])
    PROVE  local[d][k[2]] # None /\ SameClock(local[d][k[2]], rows[k])
<1> DEFINE own == local[d][k[2]]
<1>1. /\ rows[k] \in Row /\ rows[k].seq \in Nat /\ rows[k].seq > 0
      /\ cursor[d] \in Nat /\ k[2] \in Ids /\ dirty[d] = {}
      /\ Visible(rows, AccountOf[d], MemberOf(AccountOf[d]), cursor[d]) = {}
  BY DEF IInv, ServerIInv, ServerTypeOK, SeqsBelowNext, TypeOK, Row, Keys, Quiet
<1>2. rows[k].seq <= cursor[d]
  <2>1. ~(rows[k].seq > cursor[d])
    BY <1>1 DEF Visible
  <2> QED BY <1>1, <2>1
<1>3. own # None /\ Covers(own, rows[k])
  <2>1. k \in Readable(d)
    BY <1>1 DEF Readable, Visible
  <2> QED BY <1>2, <2>1 DEF NothingSkipped, Holds
<1>4. PICK j \in Keys : j[2] = k[2] /\ Stored(rows, j, own)
  BY <1>1, <1>3 DEF IInv, CleanMeansStored
<1>5. Covers(rows[k], own)
  BY <1>4 DEF OneRowPerRecord, Stored
<1>6. IsClock(own) /\ IsClock(rows[k])
  BY <1>1, <1>3, ClockIsClock, RowIsClock DEF IInv, TypeOK
<1> HIDE DEF own
<1>7. SameClock(own, rows[k])
  BY <1>3, <1>5, <1>6 DEF Covers, Wins, SameClock, IsClock
<1> QED BY <1>3, <1>7 DEF own

LEMMA QuietConverges ==
    ASSUME IInv, NothingSkipped, OneRowPerRecord, RowsAtHome, OneVersionPerClock
    PROVE  QuietMeansConverged
<1> SUFFICES ASSUME Quiet, NEW i \in Ids, NEW d \in Devices, NEW e \in Devices,
                    Reads(d, i), Reads(e, i)
             PROVE  local[d][i] = local[e][i]
  BY DEF QuietMeansConverged, Converged
<1>1. CASE \A k \in Keys : k[2] = i => rows[k] = None
  <2>1. \A x \in Devices : local[x][i] = None
    BY <1>1 DEF IInv, CleanMeansStored, Stored, Quiet
  <2> QED BY <2>1
<1>2. ASSUME NEW k \in Keys, k[2] = i, rows[k] # None
      PROVE  local[d][i] = local[e][i]
  <2> DEFINE maker == Creator[i]
  <2>1. k[1] = Home(i) /\ maker \in Devices /\ AccountOf[maker] = Home(i)
    BY <1>2 DEF RowsAtHome, Home
  <2>2. place[maker][i].group_id = rows[k].group_id
    <3>1. local[maker][i] # None /\ SameClock(local[maker][i], rows[k])
      BY <1>2, <2>1, AtRestHasTheRow
    <3> DEFINE u == CopyOf(i, local[maker][i], place[maker][i])
               v == CopyOf(k[2], rows[k], rows[k])
    <3>2. HeldCopy(u) /\ StoredCopy(v)
      BY <1>2, <2>1, <3>1 DEF HeldCopy, StoredCopy
    <3>3. u \in Copies /\ v \in Copies
      BY <3>2, CopyCases
    <3>4. /\ u.id = v.id /\ SameClock(u, v)
          /\ u.group_id = place[maker][i].group_id /\ v.group_id = rows[k].group_id
      BY <1>2, <3>1 DEF CopyOf, SameClock
    <3> HIDE DEF u, v
    <3>5. u = v
      BY <3>3, <3>4 DEF OneVersionPerClock
    <3> QED BY <3>4, <3>5
  <2> HIDE DEF maker
  <2>3. ASSUME NEW x \in Devices, Reads(x, i)
        PROVE  local[x][i] \in Clock /\ SameClock(local[x][i], rows[k])
    <3>1. k[1] = AccountOf[x] \/ rows[k].group_id \in MemberOf(AccountOf[x])
      BY <2>1, <2>2, <2>3 DEF Reads, maker
    <3>2. local[x][i] # None /\ SameClock(local[x][i], rows[k])
      BY <1>2, <3>1, AtRestHasTheRow
    <3> QED BY <3>2 DEF IInv, TypeOK
  <2>4. /\ local[d][i] \in Clock /\ local[e][i] \in Clock
        /\ SameClock(local[d][i], local[e][i])
    BY <2>3 DEF SameClock
  <2> QED BY <2>4, SameClockIsSame
<1> QED BY <1>1, <1>2

(***************************************************************************)
(* When nothing is left to push or to pull, all who may read a record have *)
(* the same copy of it (merge.rs:16, "both devices reach the same answer") *)
(* whatever was lost, edited meanwhile or pushed out of order on the way:  *)
(* no two devices keep different versions for good.  It takes devices that *)
(* do not stamp backwards, records shared as OneHome has it and members    *)
(* that are there from the start.                                          *)
(***************************************************************************)
THEOREM QuietIsConverged ==
    ASSUME ~RawStamps, OneHome, NoLateShares
    PROVE  Spec => []QuietMeansConverged
<1>1. IInv /\ NothingSkipped /\ OneRowPerRecord /\ HomeIInv /\ OneVersionPerClock
         => QuietMeansConverged
  BY QuietConverges DEF HomeIInv
<1> QED BY <1>1, Invariance, NothingIsSkipped, OneRecordOneRow, RecordsStayHome,
           EqualClocksAgree, PTL
=============================================================================
