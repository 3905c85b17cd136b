------------------------- MODULE RecordTableProofs -------------------------
(* What the conflict rule and the upsert guarantee, for every table.       *)
EXTENDS RecordTable, FiniteSetTheorems, TLAPS

\* A record with the two fields of a clock.
IsClock(v) == v.updated_at \in Int /\ v.device_id \in Int

(***************************************************************************)
(* The rule devices apply in merge.rs is the rule the stores evaluate in   *)
(* SQL: a device takes the remote version exactly when the upsert would.   *)
(***************************************************************************)
THEOREM ResolveIsWins ==
    ASSUME NEW local, NEW remote, IsClock(local), IsClock(remote)
    PROVE  Resolve(local, remote) = "TakeRemote" <=> Wins(remote, local)
<1>1. CASE remote.updated_at > local.updated_at
  BY <1>1 DEF Resolve, Wins, IsClock
<1>2. CASE remote.updated_at < local.updated_at
  BY <1>2 DEF Resolve, Wins, IsClock
<1>3. CASE remote.updated_at = local.updated_at
  BY <1>3 DEF Resolve, Wins, IsClock
<1> QED BY <1>1, <1>2, <1>3 DEF IsClock

(***************************************************************************)
(* Two devices that compare the same two versions choose the same winner   *)
(* (merge.rs, the tie test), and a device never takes its own echo.        *)
(***************************************************************************)
THEOREM BothSidesAgree ==
    ASSUME NEW a, NEW b, IsClock(a), IsClock(b)
    PROVE  /\ SameClock(a, b) => /\ Resolve(a, b) = "KeepLocal"
                                 /\ Resolve(b, a) = "KeepLocal"
           /\ ~SameClock(a, b) => (Resolve(a, b) = "TakeRemote"
                                      <=> Resolve(b, a) = "KeepLocal")
BY DEF Resolve, SameClock, IsClock

\* Wins is a strict order, and Covers the order it closes to.
LEMMA CoversTransitive ==
    ASSUME NEW a, NEW b, NEW c, IsClock(a), IsClock(b), IsClock(c),
           Covers(a, b), Covers(b, c)
    PROVE  Covers(a, c)
BY DEF Covers, Wins, SameClock, IsClock

LEMMA WinsThenCovers ==
    ASSUME NEW a, NEW b, NEW c, IsClock(a), IsClock(b), IsClock(c),
           Wins(a, b), Covers(b, c)
    PROVE  Wins(a, c)
BY DEF Covers, Wins, SameClock, IsClock

LEMMA CoversReflexive ==
    ASSUME NEW a, NEW b, a.updated_at = b.updated_at, a.device_id = b.device_id
    PROVE  Covers(a, b)
BY DEF Covers, SameClock

LEMMA LosesThenCovers ==
    ASSUME NEW a, NEW b, IsClock(a), IsClock(b), ~Wins(a, b)
    PROVE  Covers(b, a)
BY DEF Covers, Wins, SameClock, IsClock

-----------------------------------------------------------------------------

\* A table of rows that the sequence has reached.
Table(rows, next) == /\ rows \in [Keys -> Row \cup {None}]
                     /\ \A k \in Keys : rows[k] # None => rows[k].seq \in 1..next

LEMMA RowIsClock == \A r \in Row : IsClock(r)
BY RecordTableAssumption DEF Row, IsClock

LEMMA EnvelopeIsClock == \A e \in Envelope : IsClock(e)
BY RecordTableAssumption DEF Envelope, IsClock

LEMMA AsRowIsRow ==
    ASSUME NEW env \in Envelope, NEW seq \in Nat
    PROVE  AsRow(env, seq) \in Row /\ AsRow(env, seq) # None
BY NoneIsNoRow DEF AsRow, Row, Envelope

LEMMA KeyOfIsKey ==
    ASSUME NEW account \in Accounts, NEW env \in Envelope
    PROVE  KeyOf(account, env) \in Keys
BY DEF KeyOf, Keys, Envelope

\* One put leaves a table whose rows the sequence has reached.
LEMMA UpsertTable ==
    ASSUME NEW rows, NEW next \in Nat, Table(rows, next),
           NEW key \in Keys, NEW env \in Envelope
    PROVE  Table(Upsert(rows, key, env, next + 1), next + 1)
<1>1. CASE Takes(rows, key, env)
  <2>1. AsRow(env, next + 1) \in Row /\ AsRow(env, next + 1).seq = next + 1
    BY AsRowIsRow DEF AsRow
  <2> QED BY <1>1, <2>1 DEF Upsert, Table
<1>2. CASE ~Takes(rows, key, env)
  BY <1>2 DEF Upsert, Table
<1> QED BY <1>1, <1>2

\* One put leaves its envelope, or a later write, in its row.
LEMMA UpsertStores ==
    ASSUME NEW rows, NEW next \in Nat, Table(rows, next),
           NEW key \in Keys, NEW env \in Envelope, NEW seq \in Nat
    PROVE  Stored(Upsert(rows, key, env, seq), key, env)
<1>1. CASE Takes(rows, key, env)
  BY <1>1, AsRowIsRow, CoversReflexive DEF Upsert, Stored, AsRow, Table
<1>2. CASE ~Takes(rows, key, env)
  <2>1. rows[key] \in Row /\ ~Wins(env, rows[key])
    BY <1>2 DEF Takes, Table
  <2> QED BY <1>2, <2>1, LosesThenCovers, RowIsClock, EnvelopeIsClock
             DEF Upsert, Stored, Takes
<1> QED BY <1>1, <1>2

(***************************************************************************)
(* A put moves the row it changes to the end of the log, and only for a    *)
(* strictly newer write (the WHERE of both stores' upsert).                *)
(***************************************************************************)
LEMMA UpsertAdvances ==
    ASSUME NEW rows, NEW next \in Nat, Table(rows, next),
           NEW key \in Keys, NEW env \in Envelope
    PROVE  Advances(rows, Upsert(rows, key, env, next + 1))
<1> DEFINE new == Upsert(rows, key, env, next + 1)
<1> SUFFICES ASSUME NEW k \in Keys, new[k] # rows[k]
             PROVE  /\ new[k] # None
                    /\ rows[k] # None => Wins(new[k], rows[k])
                    /\ \A j \in Keys : rows[j] # None => new[k].seq > rows[j].seq
  BY DEF Advances
<1>1. Takes(rows, key, env) /\ k = key /\ new[k] = AsRow(env, next + 1)
  BY DEF Upsert, Table
<1>2. new[k] # None /\ new[k].seq = next + 1
  BY <1>1, AsRowIsRow DEF AsRow
<1>3. rows[k] # None => Wins(new[k], rows[k])
  BY <1>1 DEF Takes, Wins, AsRow
<1>4. \A j \in Keys : rows[j] # None => new[k].seq > rows[j].seq
  BY <1>2 DEF Table
<1> QED BY <1>2, <1>3, <1>4

\* What is stored stays stored while rows only advance.
LEMMA AdvancesKeepsStored ==
    ASSUME NEW rows, NEW new, rows \in [Keys -> Row \cup {None}],
           new \in [Keys -> Row \cup {None}], Advances(rows, new),
           NEW k \in Keys, NEW v, IsClock(v), Stored(rows, k, v)
    PROVE  Stored(new, k, v)
<1>1. CASE new[k] = rows[k]
  BY <1>1 DEF Stored
<1>2. CASE new[k] # rows[k]
  <2>1. new[k] # None /\ Wins(new[k], rows[k]) /\ Covers(rows[k], v)
    BY <1>2 DEF Advances, Stored
  <2>2. IsClock(new[k]) /\ IsClock(rows[k])
    BY <2>1, RowIsClock DEF Stored
  <2>3. Wins(new[k], v)
    BY <2>1, <2>2, WinsThenCovers
  <2> QED BY <2>1, <2>3 DEF Stored, Covers
<1> QED BY <1>1, <1>2

-----------------------------------------------------------------------------

LEMMA KeysFinite == IsFiniteSet(Keys)
BY RecordTableAssumption, FS_Product DEF Keys

\* A bounded set of numbers has a largest one, which Max chooses.
LEMMA MaxOfBounded ==
    ASSUME NEW S \in SUBSET Nat, S # {}, NEW n \in Nat, \A s \in S : s <= n
    PROVE  Max(S) \in S /\ \A s \in S : s <= Max(S)
<1> DEFINE Above(x) == {y \in S : y > x}
           T == {Above(x) : x \in S}
<1>1. IsFiniteSet(S)
  BY FS_BoundedSetOfNaturals
<1>2. T \subseteq FiniteSubsetsOf(S) /\ T # {}
  <2>1. FiniteSubsetsOf(S) = SUBSET S
    BY <1>1, FS_FiniteSubsetsOfFinite
  <2>2. T \subseteq SUBSET S
    OBVIOUS
  <2>3. PICK x \in S : TRUE
    OBVIOUS
  <2>4. Above(x) \in T
    OBVIOUS
  <2> QED BY <2>1, <2>2, <2>4
<1>3. PICK U \in T : \A V \in T : ~(<<V, U>> \in StrictSubsetOrdering(S))
  <2>1. IsWellFoundedOn(StrictSubsetOrdering(S), FiniteSubsetsOf(S))
    BY FS_StrictSubsetOrderingWellFounded
  <2> HIDE DEF T
  <2> QED BY <1>2, <2>1, WFMin
<1>4. PICK x \in S : U = Above(x)
  OBVIOUS
<1>5. \A y \in S : y <= x
  <2> SUFFICES ASSUME NEW y \in S, y > x PROVE FALSE
    OBVIOUS
  <2>1. \A z \in S : z \in Nat
    OBVIOUS
  <2>2. ASSUME NEW z \in Above(y) PROVE z \in Above(x)
    <3>1. z \in S /\ z > y
      OBVIOUS
    <3>2. z > x
      BY <2>1, <3>1
    <3> QED BY <3>1, <3>2
  <2>3. y \in Above(x) /\ y \notin Above(y)
    BY <2>1
  <2>4. Above(y) \in SUBSET S /\ Above(x) \in SUBSET S /\ Above(y) # Above(x)
    BY <2>3
  <2> HIDE DEF Above
  <2>5. <<Above(y), Above(x)>> \in StrictSubsetOrdering(S)
    BY <2>2, <2>4 DEF StrictSubsetOrdering
  <2>6. Above(y) \in T
    OBVIOUS
  <2> QED BY <1>3, <1>4, <2>5, <2>6
<1> QED BY <1>5 DEF Max

\* A page in the order of seq has no holes.
LEMMA FirstIsClosed ==
    ASSUME NEW rows, NEW next \in Nat, Table(rows, next),
           NEW keys \in SUBSET Keys, \A k \in keys : rows[k] # None,
           NEW limit \in Nat,
           NEW j \in keys, NEW k \in FirstBySeq(rows, keys, limit),
           rows[j].seq <= rows[k].seq
    PROVE  j \in FirstBySeq(rows, keys, limit)
<1> DEFINE Before(i) == {h \in keys : rows[h].seq < rows[i].seq}
<1>1. k \in keys /\ Cardinality(Before(k)) < limit
  BY DEF FirstBySeq
<1>2. \A h \in keys : rows[h].seq \in Nat
  BY DEF Table
<1>3. Before(j) \subseteq Before(k)
  BY <1>1, <1>2
<1>4. IsFiniteSet(Before(k)) /\ IsFiniteSet(Before(j))
  <2>1. Before(k) \in SUBSET Keys /\ Before(j) \in SUBSET Keys
    OBVIOUS
  <2> QED BY <2>1, KeysFinite, FS_Subset
<1>5. /\ Cardinality(Before(j)) \in Nat /\ Cardinality(Before(k)) \in Nat
      /\ Cardinality(Before(j)) <= Cardinality(Before(k))
  BY <1>3, <1>4, FS_Subset, FS_CardinalityType
<1>6. Cardinality(Before(j)) < limit
  BY <1>1, <1>5
<1> QED BY <1>6 DEF FirstBySeq

(***************************************************************************)
(* The page of the pull handler holds every visible row between the cursor *)
(* it was asked for and the cursor it answers with (routes/sync.rs: "the   *)
(* last row actually returned, never the store's high-water mark").        *)
(***************************************************************************)
THEOREM PageHasNoHoles ==
    ASSUME NEW rows, NEW next \in Nat, Table(rows, next),
           NEW account \in Accounts, NEW memberOf, NEW cursor \in 0..next
    PROVE  LET page == PullPage(rows, account, memberOf, cursor)
               visible == Visible(rows, account, memberOf, cursor)
           IN  /\ page.keys \subseteq visible
               /\ page.cursor \in cursor..next
               /\ \A k \in visible : k \in page.keys <=> rows[k].seq <= page.cursor
<1> DEFINE visible == Visible(rows, account, memberOf, cursor)
           fetched == FirstBySeq(rows, visible, MaxPage + 1)
           page == FirstBySeq(rows, fetched, MaxPage)
           seqs == {rows[k].seq : k \in page}
           result == PullPage(rows, account, memberOf, cursor)
<1>1. /\ visible \in SUBSET Keys
      /\ \A k \in visible : rows[k] # None /\ rows[k].seq \in cursor + 1 .. next
  BY DEF Visible, Table
<1>2. MaxPage \in Nat /\ MaxPage + 1 \in Nat
  BY RecordTableAssumption
<1>3. fetched \subseteq visible /\ page \subseteq fetched
  BY DEF FirstBySeq
<1>4. result.keys = page
      /\ result.cursor = IF page = {} THEN cursor ELSE Max(seqs)
  BY DEF PullPage
<1>5. \A k \in page, j \in visible : rows[j].seq <= rows[k].seq => j \in page
  <2> SUFFICES ASSUME NEW k \in page, NEW j \in visible, rows[j].seq <= rows[k].seq
               PROVE  j \in page
    OBVIOUS
  <2>1. j \in fetched
    <3> HIDE DEF visible
    <3> QED BY <1>1, <1>2, <1>3, FirstIsClosed
  <2>2. fetched \in SUBSET Keys /\ \A i \in fetched : rows[i] # None
    BY <1>1, <1>3
  <2> HIDE DEF fetched
  <2> QED BY <1>2, <2>1, <2>2, FirstIsClosed
<1> SUFFICES /\ result.keys \subseteq visible
             /\ result.cursor \in cursor..next
             /\ \A k \in visible : k \in result.keys <=> rows[k].seq <= result.cursor
  OBVIOUS
<1> HIDE DEF visible, fetched, page, result
<1>6. CASE page = {}
  BY <1>1, <1>3, <1>4, <1>6
<1>7. CASE page # {}
  <2>1. seqs \in SUBSET Nat /\ seqs # {} /\ \A s \in seqs : s <= next
    BY <1>1, <1>3, <1>7
  <2>2. Max(seqs) \in seqs /\ \A s \in seqs : s <= Max(seqs)
    BY <2>1, MaxOfBounded
  <2>3. PICK k \in page : Max(seqs) = rows[k].seq
    BY <2>2
  <2>4. \A j \in page : rows[j].seq <= rows[k].seq
    BY <2>2, <2>3
  <2>5. result.cursor = rows[k].seq
    BY <1>4, <1>7, <2>3
  <2>6. k \in visible /\ result.cursor \in cursor + 1 .. next /\ result.keys = page
    BY <1>1, <1>3, <1>4, <2>5
  <2>7. ASSUME NEW j \in visible
        PROVE  j \in result.keys <=> rows[j].seq <= result.cursor
    BY <1>5, <2>4, <2>5, <2>6
  <2> QED BY <1>3, <2>6, <2>7
<1> QED BY <1>6, <1>7

\* Some row of a set of them comes first.
LEMMA FirstOfAll ==
    ASSUME NEW rows, NEW keys, keys # {}, \A k \in keys : rows[k].seq \in Nat
    PROVE  \E k \in keys : \A j \in keys : ~(rows[j].seq < rows[k].seq)
<1> DEFINE seqs == {rows[k].seq : k \in keys}
<1>1. seqs \in SUBSET Nat /\ seqs # {}
  OBVIOUS
<1>2. PICK s \in seqs : \A t \in seqs : ~(t < s)
  <2> HIDE DEF seqs
  <2>1. PICK s \in seqs : \A t \in seqs : <<t, s>> \notin OpToRel(<, Nat)
    BY <1>1, NatLessThanWellFounded, WFMin
  <2> QED BY <1>1, <2>1 DEF OpToRel
<1> QED BY <1>2

LEMMA FirstExists ==
    ASSUME NEW rows, NEW next \in Nat, Table(rows, next),
           NEW keys \in SUBSET Keys, keys # {}, \A k \in keys : rows[k] # None,
           NEW limit \in Nat \ {0}
    PROVE  FirstBySeq(rows, keys, limit) # {}
<1>1. PICK k \in keys : \A j \in keys : ~(rows[j].seq < rows[k].seq)
  BY FirstOfAll DEF Table
<1>2. {j \in keys : rows[j].seq < rows[k].seq} = {}
  BY <1>1
<1>3. Cardinality({j \in keys : rows[j].seq < rows[k].seq}) = 0
  BY <1>2, FS_EmptySet
<1> QED BY <1>3 DEF FirstBySeq

\* No two rows share a place in the log.
PlacesDiffer(rows) ==
    \A j, k \in Keys : rows[j] # None /\ rows[k] # None /\ rows[j].seq = rows[k].seq
                          => j = k

\* Every upsert with a fresh number keeps it so.
LEMMA UpsertKeepsPlaces ==
    ASSUME NEW rows, NEW next \in Nat, Table(rows, next), PlacesDiffer(rows),
           NEW key \in Keys, NEW env \in Envelope
    PROVE  PlacesDiffer(Upsert(rows, key, env, next + 1))
<1> DEFINE new == Upsert(rows, key, env, next + 1)
<1>1. \A k \in Keys : rows[k] # None => rows[k].seq \in 1..next
  BY DEF Table
<1>2. CASE new = rows
  BY <1>2
<1>3. CASE new # rows
  <2>1. /\ \A k \in Keys \ {key} : new[k] = rows[k]
        /\ new[key].seq = next + 1
    BY <1>3 DEF Upsert, AsRow, Table
  <2> SUFFICES PlacesDiffer(new)
    OBVIOUS
  <2> HIDE DEF new
  <2>2. \A k \in Keys \ {key} : new[k] # None => new[k].seq \in 1..next
    BY <1>1, <2>1
  <2> QED BY <2>1, <2>2 DEF PlacesDiffer
<1> QED BY <1>2, <1>3

(***************************************************************************)
(* A client that pulls until `more` is false comes to an end and has seen  *)
(* all: a page is empty only when nothing is left to read, a page that is  *)
(* not moves the cursor, and the last page is the last (routes/sync.rs:36, *)
(* `more` is a row fetched over the page).                                 *)
(***************************************************************************)
THEOREM PagesMakeProgress ==
    ASSUME NEW rows, NEW next \in Nat, Table(rows, next), PlacesDiffer(rows),
           NEW account \in Accounts, NEW memberOf, NEW cursor \in 0..next
    PROVE  LET page == PullPage(rows, account, memberOf, cursor)
           IN  /\ page.keys = {} <=> Visible(rows, account, memberOf, cursor) = {}
               /\ page.keys # {} => page.cursor > cursor
               /\ page.more <=> Visible(rows, account, memberOf, page.cursor) # {}
<1> DEFINE visible == Visible(rows, account, memberOf, cursor)
           fetched == FirstBySeq(rows, visible, MaxPage + 1)
           page == FirstBySeq(rows, fetched, MaxPage)
           result == PullPage(rows, account, memberOf, cursor)
           left == {k \in visible : k \notin page}
<1>1. /\ visible \in SUBSET Keys
      /\ \A k \in visible : rows[k] # None /\ rows[k].seq \in cursor + 1 .. next
  BY DEF Visible, Table
<1>2. MaxPage \in Nat \ {0} /\ MaxPage + 1 \in Nat \ {0}
  BY RecordTableAssumption
<1>3. fetched \subseteq visible /\ page \subseteq fetched
  BY DEF FirstBySeq
<1>4. result.keys = page /\ (result.more <=> page # fetched)
      /\ (page = {} => result.cursor = cursor)
  BY DEF PullPage
<1>5. /\ result.cursor \in cursor..next
      /\ \A k \in visible : k \in page <=> rows[k].seq <= result.cursor
  BY <1>4, PageHasNoHoles
<1>6. Visible(rows, account, memberOf, result.cursor) = left
  <2>1. \A k \in Keys : rows[k] # None => rows[k].seq \in Nat
    BY DEF Table
  <2> HIDE DEF page, result
  <2> QED BY <1>5, <2>1 DEF Visible
<1> HIDE DEF visible, fetched, page, result, left
<1>7. visible # {} => page # {}
  <2> SUFFICES ASSUME visible # {} PROVE page # {}
    OBVIOUS
  <2>1. fetched # {}
    BY <1>1, <1>2, FirstExists DEF fetched
  <2>2. fetched \in SUBSET Keys /\ \A k \in fetched : rows[k] # None
    BY <1>1, <1>3
  <2> QED BY <1>2, <2>1, <2>2, FirstExists DEF page
<1>8. page # {} => result.cursor > cursor
  BY <1>1, <1>3, <1>5
\* What is fetched over the page is left, and what is left has a first row,
\* which has the page before it and is fetched with it.
<1>9. left # {} => page # fetched
  <2> SUFFICES ASSUME left # {}, page = fetched PROVE FALSE
    OBVIOUS
  <2> DEFINE Before(k) == {j \in visible : rows[j].seq < rows[k].seq}
  <2>1. IsFiniteSet(visible) /\ IsFiniteSet(page)
    BY <1>1, <1>3, KeysFinite, FS_Subset
  <2>2. PICK k \in left : \A j \in left : rows[k].seq <= rows[j].seq
    <3>1. left \in SUBSET Keys /\ \A j \in left : rows[j] # None /\ rows[j].seq \in Nat
      BY <1>1 DEF left, Table
    <3>2. PICK k \in left : \A j \in left : ~(rows[j].seq < rows[k].seq)
      BY <3>1, FirstOfAll
    <3> QED BY <3>1, <3>2
  <2>3. Before(k) \subseteq page
    BY <1>1, <2>2 DEF left
  <2>4. k \in visible /\ k \notin fetched
    BY <2>2 DEF left
  <2>5. ~(Cardinality(Before(k)) < MaxPage + 1)
    BY <2>4 DEF fetched, FirstBySeq
  <2>6. Cardinality(Before(k)) <= Cardinality(page) /\ Cardinality(Before(k)) \in Nat
    BY <2>1, <2>3, FS_Subset, FS_CardinalityType
  <2>7. page # {} /\ Cardinality(page) \in Nat
    BY <1>7, <2>1, <2>4, FS_CardinalityType
  \* The last row of the page has the others before it.
  <2>8. PICK m \in page : \A j \in page : rows[j].seq <= rows[m].seq
    <3> DEFINE seqs == {rows[j].seq : j \in page}
    <3>1. seqs \in SUBSET Nat /\ seqs # {} /\ \A s \in seqs : s <= next
      BY <1>1, <1>3, <2>7
    <3> HIDE DEF seqs
    <3>2. Max(seqs) \in seqs /\ \A s \in seqs : s <= Max(seqs)
      BY <3>1, MaxOfBounded
    <3> QED BY <3>2 DEF seqs
  <2> DEFINE earlier == {j \in fetched : rows[j].seq < rows[m].seq}
  <2>9. Cardinality(earlier) < MaxPage
    <3> SUFFICES \A j \in page : Cardinality({i \in fetched : rows[i].seq < rows[j].seq}) < MaxPage
      BY <2>8
    <3> QED BY DEF page, FirstBySeq
  <2>10. page = earlier \cup {m} /\ m \notin earlier
    <3>1. \A j \in page : j \in Keys /\ rows[j] # None /\ rows[j].seq \in Nat
      BY <1>1, <1>3
    <3>2. \A j \in page : j # m => rows[j].seq # rows[m].seq
      BY <2>8, <3>1 DEF PlacesDiffer
    <3> QED BY <2>8, <3>1, <3>2
  <2>11. IsFiniteSet(earlier) /\ Cardinality(earlier) \in Nat
    BY <2>1, <2>10, FS_Subset, FS_CardinalityType
  <2>12. Cardinality(page) = Cardinality(earlier) + 1
    <3> HIDE DEF earlier
    <3> QED BY <2>10, <2>11, FS_AddElement
  <2> HIDE DEF earlier, Before
  <2> QED BY <1>2, <2>5, <2>6, <2>7, <2>9, <2>11, <2>12
<1>10. page # fetched => left # {}
  BY <1>3 DEF left
<1> QED BY <1>3, <1>4, <1>6, <1>7, <1>8, <1>9, <1>10 DEF visible, result
=============================================================================
