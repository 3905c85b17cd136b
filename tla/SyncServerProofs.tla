-------------------------- MODULE SyncServerProofs --------------------------
(***************************************************************************)
(* Every step of the server's handlers preserves ServerIInv, for every     *)
(* batch a client may send: the lemmas that SyncSystemProofs composes.     *)
(***************************************************************************)
EXTENDS SyncServer, RecordTableProofs

USE SyncServerAssumption

LEMMA ServerTable == ServerTypeOK /\ SeqsBelowNext => Table(rows, next)
BY DEF ServerTypeOK, SeqsBelowNext, Table

\* The locals of a handler in progress, and the envelope it is at.
LEMMA WorkingTyped ==
    ASSUME ServerTypeOK, NEW w \in Workers, Working(w)
    PROVE  /\ push[w] \in Push
           /\ Env(w) \in Envelope
           /\ Tail(push[w].todo) \in Seq(Envelope)
<1>1. push[w] \in Push /\ push[w].todo # <<>>
  BY DEF ServerTypeOK, Working
<1>2. push[w].todo \in Seq(Envelope)
  BY <1>1 DEF Push
<1> QED BY <1>1, <1>2 DEF Env

\* Answering the head of the batch touches the handler's own locals only.
LEMMA AnsweredLocals ==
    ASSUME ServerTypeOK, NEW w \in Workers, Working(w),
           NEW answer \in Refusals \cup {"Accepted", "Stale"},
           push' = Answered(w, answer)
    PROVE  /\ push' \in [Workers -> Push \cup {None}]
           /\ push'[w] \in Push
           /\ push'[w].account = push[w].account /\ push'[w].owners = push[w].owners
           /\ push'[w].now = push[w].now
           /\ push'[w].answers =
                 push[w].answers \cup {[env |-> Env(w), answer |-> answer]}
           /\ \A v \in Workers \ {w} : push'[v] = push[v]
<1>1. push[w] \in Push /\ Env(w) \in Envelope /\ Tail(push[w].todo) \in Seq(Envelope)
  BY WorkingTyped
<1>2. push' = [push EXCEPT ![w] =
                  [push[w] EXCEPT !.todo = Tail(push[w].todo),
                                  !.answers = push[w].answers \cup
                                     {[env |-> Env(w), answer |-> answer]}]]
  BY DEF Answered, ServerTypeOK
<1>3. push'[w] = [push[w] EXCEPT !.todo = Tail(push[w].todo),
                                 !.answers = push[w].answers \cup
                                    {[env |-> Env(w), answer |-> answer]}]
      /\ \A v \in Workers \ {w} : push'[v] = push[v]
  BY <1>2 DEF ServerTypeOK
<1>4. /\ push'[w].account = push[w].account /\ push'[w].owners = push[w].owners
      /\ push'[w].now = push[w].now
      /\ push'[w].answers =
            push[w].answers \cup {[env |-> Env(w), answer |-> answer]}
  BY <1>1, <1>3 DEF Push
<1>5. push'[w] \in Push
  <2> DEFINE Answers == [env : Envelope, answer : Refusals \cup {"Accepted", "Stale"}]
  <2>1. [env |-> Env(w), answer |-> answer] \in Answers
    BY <1>1
  <2>2. push[w].answers \cup {[env |-> Env(w), answer |-> answer]} \in SUBSET Answers
    BY <1>1, <2>1 DEF Push
  <2> HIDE DEF Answers
  <2>3. Push = [account : Accounts, now : Int, todo : Seq(Envelope),
                writable : [Groups -> BOOLEAN \cup {Unasked}],
                owners : [Groups -> Accounts \cup {None, Unasked}],
                answers : SUBSET Answers]
    BY DEF Push, Answers
  <2> QED BY <1>1, <1>3, <2>2, <2>3
<1>6. push' \in [Workers -> Push \cup {None}]
  <2> DEFINE new == push'[w]
  <2>1. push' = [push EXCEPT ![w] = new]
    BY <1>2 DEF ServerTypeOK
  <2> QED BY <1>5, <2>1 DEF ServerTypeOK
<1> QED BY <1>3, <1>4, <1>5, <1>6

LEMMA SameRouting ==
    ASSUME NEW p, NEW q, NEW env, p.account = q.account, p.owners = q.owners
    PROVE  StorageAccount(p, env) = StorageAccount(q, env)
BY DEF StorageAccount

\* Once the owner of its group is cached, an envelope's row is known.
LEMMA RoutedKey ==
    ASSUME NEW p \in Push, NEW env \in Envelope,
           env.key_ref # None => p.owners[env.key_ref] # Unasked
    PROVE  KeyOf(StorageAccount(p, env), env) \in Keys
<1>1. p.account \in Accounts /\ p.owners \in [Groups -> Accounts \cup {None, Unasked}]
  BY DEF Push
<1>2. env.key_ref \in Groups \cup {None}
  BY DEF Envelope
<1>3. StorageAccount(p, env) \in Accounts
  BY <1>1, <1>2 DEF StorageAccount
<1> QED BY <1>3, KeyOfIsKey

-----------------------------------------------------------------------------

LEMMA StartPushIInv ==
    ASSUME ServerIInv, NEW w \in Workers, NEW account \in Accounts,
           NEW batch \in Seq(Envelope), StartPush(w, account, batch)
    PROVE  ServerIInv'
<1> DEFINE fresh == [account |-> account, now |-> now, todo |-> batch,
                     writable |-> [g \in Groups |-> Unasked],
                     owners |-> [g \in Groups |-> Unasked],
                     answers |-> {}]
<1>0. push' = [push EXCEPT ![w] = fresh] /\ UNCHANGED <<rows, next, shares, now>>
  BY DEF StartPush
<1>1. fresh \in Push /\ fresh.answers = {} /\ fresh.now = now
  BY DEF Push, ServerIInv, ServerTypeOK
<1> HIDE DEF fresh
<1>2. ServerTypeOK' /\ SeqsBelowNext'
  BY <1>0, <1>1 DEF ServerIInv, ServerTypeOK, SeqsBelowNext
<1>3. push'[w] = fresh /\ \A v \in Workers \ {w} : push'[v] = push[v]
  BY <1>0 DEF ServerIInv, ServerTypeOK
<1>4. AnswersAreDurable' /\ AnsweredOwnersKnown'
  BY <1>0, <1>1, <1>3
     DEF ServerIInv, AnswersAreDurable, AnsweredOwnersKnown, Stored
<1>5. StoredClocksArePlausible'
  BY <1>0, <1>1, <1>3 DEF ServerIInv, ServerTypeOK, StoredClocksArePlausible
<1> QED BY <1>2, <1>4, <1>5 DEF ServerIInv

\* A handler that ends, one way or the other, takes its locals along.
LEMMA EndPushIInv ==
    ASSUME ServerIInv, NEW w \in Workers, FinishPush(w) \/ CancelPush(w)
    PROVE  ServerIInv'
<1>1. push' = [push EXCEPT ![w] = None] /\ UNCHANGED <<rows, next, shares, now>>
  BY DEF FinishPush, CancelPush
<1>2. push' \in [Workers -> Push \cup {None}]
  BY <1>1 DEF ServerIInv, ServerTypeOK
<1>3. \A v \in Workers : push'[v] # None => push'[v] = push[v]
  BY <1>1 DEF ServerIInv, ServerTypeOK
<1>4. AnswersAreDurable' /\ AnsweredOwnersKnown'
  BY <1>1, <1>3 DEF ServerIInv, AnswersAreDurable, AnsweredOwnersKnown, Stored
<1>5. StoredClocksArePlausible'
  BY <1>1, <1>3 DEF ServerIInv, StoredClocksArePlausible
<1> QED BY <1>1, <1>2, <1>4, <1>5 DEF ServerIInv, ServerTypeOK, SeqsBelowNext

\* A refusal answers without touching the table.
LEMMA RefusedIInv ==
    ASSUME ServerIInv, NEW w \in Workers, Working(w), NEW answer \in Refusals,
           push' = Answered(w, answer), UNCHANGED <<rows, next, shares, now>>
    PROVE  ServerIInv'
<1>1. /\ push' \in [Workers -> Push \cup {None}] /\ push'[w] \in Push
      /\ push'[w].account = push[w].account /\ push'[w].owners = push[w].owners
      /\ push'[w].now = push[w].now
      /\ push'[w].answers =
            push[w].answers \cup {[env |-> Env(w), answer |-> answer]}
      /\ \A v \in Workers \ {w} : push'[v] = push[v]
  BY AnsweredLocals DEF ServerIInv
<1>2. push[w] # None
  BY DEF Working
<1>3. answer \notin {"Accepted", "Stale"}
  BY DEF Refusals
<1>4. AnswersAreDurable' /\ AnsweredOwnersKnown'
  <2> SUFFICES ASSUME NEW v \in Workers, push'[v] # None, NEW a \in push'[v].answers,
                      a.answer \in {"Accepted", "Stale"}
               PROVE  /\ Stored(rows, KeyOf(StorageAccount(push'[v], a.env), a.env),
                                a.env)
                      /\ a.env.key_ref # None => push'[v].owners[a.env.key_ref] # Unasked
    BY DEF AnswersAreDurable, AnsweredOwnersKnown, Stored
  <2>1. push[v] # None /\ a \in push[v].answers
    BY <1>1, <1>2, <1>3
  <2>2. push'[v].owners = push[v].owners /\ push'[v].account = push[v].account
    BY <1>1
  <2>3. StorageAccount(push'[v], a.env) = StorageAccount(push[v], a.env)
    BY <2>2, SameRouting
  <2> QED BY <2>1, <2>2, <2>3 DEF ServerIInv, AnswersAreDurable, AnsweredOwnersKnown
<1>5. StoredClocksArePlausible'
  BY <1>1, <1>2 DEF ServerIInv, StoredClocksArePlausible
<1> QED BY <1>1, <1>4, <1>5 DEF ServerIInv, ServerTypeOK, SeqsBelowNext

LEMMA AskWritableIInv ==
    ASSUME ServerIInv, NEW w \in Workers, AskWritable(w)
    PROVE  ServerIInv' /\ push'[w] \in Push /\ push'[w].account = push[w].account
<1>1. Working(w) /\ Env(w).key_ref # None /\ UNCHANGED <<rows, next, shares, now>>
  BY DEF AskWritable, Passed
<1>2. push[w] \in Push /\ push[w] # None /\ Env(w).key_ref \in Groups
  BY <1>1, WorkingTyped DEF ServerIInv, Envelope, Working
<1>3. PICK known \in BOOLEAN :
         push' = [push EXCEPT ![w].writable[Env(w).key_ref] = known]
  BY DEF AskWritable, CanWriteGroup
<1>4. /\ push'[w] = [push[w] EXCEPT !.writable =
                        [push[w].writable EXCEPT ![Env(w).key_ref] = known]]
      /\ \A v \in Workers \ {w} : push'[v] = push[v]
      /\ DOMAIN push' = Workers
      /\ push' = [v \in Workers |-> push'[v]]
  BY <1>3 DEF ServerIInv, ServerTypeOK
<1>5. /\ push'[w] \in Push
      /\ push'[w].account = push[w].account /\ push'[w].owners = push[w].owners
      /\ push'[w].now = push[w].now /\ push'[w].answers = push[w].answers
  BY <1>2, <1>4 DEF Push
<1>6. push' \in [Workers -> Push \cup {None}]
  BY <1>4, <1>5 DEF ServerIInv, ServerTypeOK
<1>7. \A v \in Workers : /\ push'[v] # None => push[v] # None
                         /\ push'[v].account = push[v].account
                         /\ push'[v].owners = push[v].owners
                         /\ push'[v].now = push[v].now
                         /\ push'[v].answers = push[v].answers
  BY <1>2, <1>4, <1>5
<1>8. AnswersAreDurable' /\ AnsweredOwnersKnown'
  BY <1>1, <1>7, SameRouting
     DEF ServerIInv, AnswersAreDurable, AnsweredOwnersKnown, Stored
<1>9. StoredClocksArePlausible'
  BY <1>1, <1>7 DEF ServerIInv, StoredClocksArePlausible
<1> QED BY <1>1, <1>5, <1>6, <1>8, <1>9 DEF ServerIInv, ServerTypeOK, SeqsBelowNext

LEMMA AskOwnerIInv ==
    ASSUME ServerIInv, NEW w \in Workers, AskOwner(w)
    PROVE  ServerIInv' /\ push'[w] \in Push /\ push'[w].account = push[w].account
<1>1. Working(w) /\ Env(w).key_ref # None /\ UNCHANGED <<rows, next, shares, now>>
      /\ push[w].owners[Env(w).key_ref] = Unasked
  BY DEF AskOwner, Passed
<1>2. push[w] \in Push /\ push[w] # None /\ Env(w).key_ref \in Groups
  BY <1>1, WorkingTyped DEF ServerIInv, Envelope, Working
<1>3. PICK owner \in Accounts \cup {None} :
         push' = [push EXCEPT ![w].owners[Env(w).key_ref] = owner]
  <2>1. ShareOwner(Env(w).key_ref) \subseteq Accounts \cup {None}
    BY <1>2 DEF ShareOwner, Owners, Members, ServerIInv, ServerTypeOK
  <2> QED BY <2>1 DEF AskOwner
<1>4. /\ push'[w] = [push[w] EXCEPT !.owners =
                        [push[w].owners EXCEPT ![Env(w).key_ref] = owner]]
      /\ \A v \in Workers \ {w} : push'[v] = push[v]
      /\ DOMAIN push' = Workers
      /\ push' = [v \in Workers |-> push'[v]]
  BY <1>3 DEF ServerIInv, ServerTypeOK
<1>5. /\ push'[w] \in Push
      /\ push'[w].account = push[w].account
      /\ \A g \in Groups \ {Env(w).key_ref} : push'[w].owners[g] = push[w].owners[g]
      /\ push'[w].now = push[w].now /\ push'[w].answers = push[w].answers
  BY <1>2, <1>4 DEF Push
<1>6. push' \in [Workers -> Push \cup {None}]
  BY <1>4, <1>5 DEF ServerIInv, ServerTypeOK
<1>7. \A v \in Workers : /\ push'[v] # None => push[v] # None
                         /\ push'[v].account = push[v].account
                         /\ push'[v].now = push[v].now
                         /\ push'[v].answers = push[v].answers
  BY <1>2, <1>4, <1>5
<1>8. AnswersAreDurable' /\ AnsweredOwnersKnown'
  <2> SUFFICES ASSUME NEW v \in Workers, push'[v] # None, NEW a \in push'[v].answers,
                      a.answer \in {"Accepted", "Stale"}
               PROVE  /\ Stored(rows, KeyOf(StorageAccount(push'[v], a.env), a.env),
                                a.env)
                      /\ a.env.key_ref # None => push'[v].owners[a.env.key_ref] # Unasked
    BY <1>1 DEF AnswersAreDurable, AnsweredOwnersKnown, Stored
  <2>1. /\ push[v] # None /\ a \in push[v].answers
        /\ a.env.key_ref # None => push[v].owners[a.env.key_ref] # Unasked
        /\ Stored(rows, KeyOf(StorageAccount(push[v], a.env), a.env), a.env)
    BY <1>7 DEF ServerIInv, AnswersAreDurable, AnsweredOwnersKnown
  <2>2. a.env.key_ref \in Groups \cup {None}
    <3>1. push[v] \in Push
      BY <2>1 DEF ServerIInv, ServerTypeOK
    <3> QED BY <2>1, <3>1 DEF Push, Envelope
  <2>3. a.env.key_ref # None => push'[v].owners[a.env.key_ref] = push[v].owners[a.env.key_ref]
    BY <1>1, <1>4, <1>5, <2>1, <2>2
  <2>4. StorageAccount(push'[v], a.env) = StorageAccount(push[v], a.env)
    BY <1>7, <2>3 DEF StorageAccount
  <2> QED BY <2>1, <2>3, <2>4
<1>9. StoredClocksArePlausible'
  BY <1>1, <1>7 DEF ServerIInv, StoredClocksArePlausible
<1> QED BY <1>1, <1>5, <1>6, <1>8, <1>9 DEF ServerIInv, ServerTypeOK, SeqsBelowNext

\* What PutEnvelope does to the table.
LEMMA PutEnvelopeStep ==
    ASSUME ServerIInv, NEW w \in Workers, PutEnvelope(w)
    PROVE  LET key == KeyOf(StorageAccount(push[w], Env(w)), Env(w))
           IN  /\ key \in Keys /\ Env(w) \in Envelope
               /\ Env(w).key_ref # None => push[w].owners[Env(w).key_ref] # Unasked
               /\ rows' = Upsert(rows, key, Env(w), next + 1)
               /\ next' = next + 1
               /\ Table(rows', next')
               /\ Stored(rows', key, Env(w))
               /\ Advances(rows, rows')
<1>1. Working(w) /\ (Env(w).key_ref # None => push[w].owners[Env(w).key_ref] # Unasked)
  BY DEF PutEnvelope, Passed
<1>2. push[w] \in Push /\ Env(w) \in Envelope
  BY <1>1, WorkingTyped DEF ServerIInv
<1>3. KeyOf(StorageAccount(push[w], Env(w)), Env(w)) \in Keys
  BY <1>1, <1>2, RoutedKey
<1>4. next \in Nat /\ Table(rows, next)
  BY ServerTable DEF ServerIInv, ServerTypeOK
<1>5. /\ rows' = Upsert(rows, KeyOf(StorageAccount(push[w], Env(w)), Env(w)),
                        Env(w), next + 1)
      /\ next' = next + 1
  BY DEF PutEnvelope
<1> QED BY <1>1, <1>2, <1>3, <1>4, <1>5, UpsertTable, UpsertStores, UpsertAdvances

LEMMA PutEnvelopeIInv ==
    ASSUME ServerIInv, NEW w \in Workers, PutEnvelope(w)
    PROVE  ServerIInv'
<1> DEFINE key == KeyOf(StorageAccount(push[w], Env(w)), Env(w))
           answer == IF Takes(rows, key, Env(w)) THEN "Accepted" ELSE "Stale"
<1>1. Working(w) /\ push[w] # None /\ UNCHANGED <<shares, now>>
      /\ Refuse(Env(w), push[w].now) = None /\ push' = Answered(w, answer)
  BY DEF PutEnvelope, Passed, Working
<1>2. /\ key \in Keys /\ Env(w) \in Envelope
      /\ Env(w).key_ref # None => push[w].owners[Env(w).key_ref] # Unasked
      /\ rows' = Upsert(rows, key, Env(w), next + 1)
      /\ next' = next + 1 /\ Table(rows', next')
      /\ Stored(rows', key, Env(w)) /\ Advances(rows, rows')
  BY PutEnvelopeStep
<1>3. answer \in Refusals \cup {"Accepted", "Stale"}
  OBVIOUS
<1> HIDE DEF answer
<1>4. /\ push' \in [Workers -> Push \cup {None}] /\ push'[w] \in Push
      /\ push'[w].account = push[w].account /\ push'[w].owners = push[w].owners
      /\ push'[w].now = push[w].now
      /\ push'[w].answers =
            push[w].answers \cup {[env |-> Env(w), answer |-> answer]}
      /\ \A v \in Workers \ {w} : push'[v] = push[v]
  BY <1>1, <1>3, AnsweredLocals DEF ServerIInv
<1>5. ServerTypeOK' /\ SeqsBelowNext'
  BY <1>1, <1>2, <1>4 DEF ServerIInv, ServerTypeOK, SeqsBelowNext, Table
<1>6. AnswersAreDurable' /\ AnsweredOwnersKnown'
  <2> SUFFICES ASSUME NEW v \in Workers, push'[v] # None, NEW a \in push'[v].answers,
                      a.answer \in {"Accepted", "Stale"}
               PROVE  /\ Stored(rows', KeyOf(StorageAccount(push'[v], a.env), a.env),
                                a.env)
                      /\ a.env.key_ref # None => push'[v].owners[a.env.key_ref] # Unasked
    BY DEF AnswersAreDurable, AnsweredOwnersKnown
  <2>1. /\ push[v] # None
        /\ push'[v].owners = push[v].owners /\ push'[v].account = push[v].account
    BY <1>1, <1>4
  <2>2. StorageAccount(push'[v], a.env) = StorageAccount(push[v], a.env)
    BY <2>1, SameRouting
  <2>3. CASE a \in push[v].answers
    <3>1. /\ Stored(rows, KeyOf(StorageAccount(push[v], a.env), a.env), a.env)
          /\ a.env.key_ref # None => push[v].owners[a.env.key_ref] # Unasked
      BY <2>1, <2>3 DEF ServerIInv, AnswersAreDurable, AnsweredOwnersKnown
    <3>2. push[v] \in Push /\ a.env \in Envelope
      <4>1. push[v] \in Push
        BY <2>1 DEF ServerIInv, ServerTypeOK
      <4> QED BY <2>3, <4>1 DEF Push
    <3>3. KeyOf(StorageAccount(push[v], a.env), a.env) \in Keys /\ IsClock(a.env)
      BY <3>1, <3>2, RoutedKey, EnvelopeIsClock
    <3>4. rows \in [Keys -> Row \cup {None}] /\ rows' \in [Keys -> Row \cup {None}]
      BY <1>5 DEF ServerIInv, ServerTypeOK
    <3>5. Stored(rows', KeyOf(StorageAccount(push[v], a.env), a.env), a.env)
      BY <1>2, <3>1, <3>3, <3>4, AdvancesKeepsStored
    <3> QED BY <2>1, <2>2, <3>1, <3>5
  <2>4. CASE v = w /\ a = [env |-> Env(w), answer |-> answer]
    <3>1. a.env = Env(w)
      BY <2>4
    <3> QED BY <1>2, <2>1, <2>2, <2>4, <3>1
  <2> QED BY <1>4, <2>3, <2>4
<1>7. StoredClocksArePlausible'
  <2>1. push[w].now <= now /\ push[w].now \in Int /\ now \in Int
    <3>1. push[w] \in Push
      BY <1>1, WorkingTyped DEF ServerIInv
    <3> QED BY <1>1, <3>1 DEF ServerIInv, StoredClocksArePlausible, ServerTypeOK, Push
  <2>2. ClockIsPlausible(Env(w).updated_at, push[w].now)
    BY <1>1 DEF Refuse, Refusals
  <2>3. ClockIsPlausible(Env(w).updated_at, now)
    BY <1>2, <2>1, <2>2, MaxClockSkewAssumption DEF ClockIsPlausible, Envelope
  <2>4. ASSUME NEW k \in Keys, rows'[k] # None
        PROVE  ClockIsPlausible(rows'[k].updated_at, now)
    <3>1. CASE rows'[k] = rows[k]
      BY <2>4, <3>1 DEF ServerIInv, StoredClocksArePlausible
    <3>2. CASE rows'[k] # rows[k]
      <4>1. rows'[k].updated_at = Env(w).updated_at
        BY <1>2, <3>2 DEF Upsert, AsRow, ServerIInv, ServerTypeOK
      <4> QED BY <2>3, <4>1
    <3> QED BY <3>1, <3>2
  <2>5. ASSUME NEW v \in Workers, push'[v] # None PROVE push'[v].now <= now
    BY <1>1, <1>4, <2>5 DEF ServerIInv, StoredClocksArePlausible
  <2> QED BY <1>1, <2>4, <2>5 DEF StoredClocksArePlausible
<1> QED BY <1>5, <1>6, <1>7 DEF ServerIInv

LEMMA PushStepIInv ==
    ASSUME ServerIInv, NEW w \in Workers, PushStep(w)
    PROVE  ServerIInv'
<1>1. CASE RefuseEnvelope(w)
  <2>1. Working(w) /\ Refuse(Env(w), push[w].now) \in Refusals
    BY <1>1 DEF RefuseEnvelope, Refuse, Refusals
  <2> QED BY <1>1, <2>1, RefusedIInv DEF RefuseEnvelope
<1>2. CASE RefuseNonMember(w)
  <2>1. Working(w) /\ "NotAMember" \in Refusals
    BY <1>2 DEF RefuseNonMember, Passed, Refusals
  <2> QED BY <1>2, <2>1, RefusedIInv DEF RefuseNonMember
<1> QED BY <1>1, <1>2, AskWritableIInv, AskOwnerIInv, PutEnvelopeIInv DEF PushStep

\* Shares and time change nothing the handlers rely on.
LEMMA OtherIInv ==
    ASSUME ServerIInv,
           \/ \E o \in Accounts, g \in Groups, u \in Accounts :
                 CreateShare(o, g, u) \/ RemoveShare(o, g, u)
           \/ Tick
    PROVE  ServerIInv'
<1>1. UNCHANGED <<rows, next, push>> /\ now' \in {now, now + 1}
  BY DEF CreateShare, RemoveShare, Tick
<1>2. shares' \in [Groups \X Accounts -> Accounts \cup {None}]
  BY DEF ServerIInv, ServerTypeOK, CreateShare, RemoveShare, PutShare, DeleteShare, Tick
<1>3. ServerTypeOK' /\ SeqsBelowNext'
  BY <1>1, <1>2 DEF ServerIInv, ServerTypeOK, SeqsBelowNext
<1>4. AnswersAreDurable' /\ AnsweredOwnersKnown'
  BY <1>1 DEF ServerIInv, AnswersAreDurable, AnsweredOwnersKnown, Stored
<1>5. \A k \in Keys : rows[k] # None => rows[k].updated_at \in Int
  BY DEF ServerIInv, ServerTypeOK, Row
<1>6. \A v \in Workers : push[v] # None => push[v].now \in Int
  BY DEF ServerIInv, ServerTypeOK, Push
<1>7. StoredClocksArePlausible'
  BY <1>1, <1>5, <1>6, MaxClockSkewAssumption
     DEF ServerIInv, ServerTypeOK, StoredClocksArePlausible, ClockIsPlausible
<1> QED BY <1>3, <1>4, <1>7 DEF ServerIInv
=============================================================================
