----------------------------- MODULE SyncServer -----------------------------
(***************************************************************************)
(* The server's handlers for push and shares (server/src/routes/sync.rs    *)
(* and shares.rs) over the tables of a record store.  A push is a handler  *)
(* that awaits the store several times per envelope; every await is a      *)
(* point where other handlers run, so each is an action.  One put_envelope *)
(* is one step, as SqliteStore shows it to be.                             *)
(***************************************************************************)
EXTENDS RecordTable, Sequences

CONSTANTS Workers,           \* push requests in progress at once
          Unasked            \* no answer cached yet for a group

\* RejectReason, but for Stale, which only the store can tell.
Refusals == {"ImplausibleClock", "TooLarge", "NotAMember"}

ASSUME SyncServerAssumption ==
    /\ None \notin Workers \cup Refusals
    /\ Unasked \notin Accounts \cup BOOLEAN \cup {None}

VARIABLES rows,              \* the records table
          next,              \* the sequence
          shares,            \* <<group, member>> |-> owner_id, or None
          now,               \* the server's clock
          push               \* per worker: the push handler's locals, or None

serverVars == <<rows, next, shares, now, push>>

\* `todo` is the rest of the batch; `writable` and `owners` are the handler's
\* two caches; `answers` is what PushResponse will carry.
Push == [account : Accounts, now : Int, todo : Seq(Envelope),
         writable : [Groups -> BOOLEAN \cup {Unasked}],
         owners : [Groups -> Accounts \cup {None, Unasked}],
         answers : SUBSET [env : Envelope,
                           answer : Refusals \cup {"Accepted", "Stale"}]]

ASSUME NoneIsNoPush == None \notin Push

Members(group) == {u \in Accounts : shares[<<group, u>>] # None}
MemberOf(account) == {g \in Groups : account \in Members(g)}
Owners(group) == {shares[<<group, u>>] : u \in Members(group)}

-----------------------------------------------------------------------------
\* POST /v1/sync: `now` is read once for the batch and both caches are empty.

StartPush(w, account, batch) ==
    /\ push[w] = None
    /\ push' = [push EXCEPT ![w] =
                   [account |-> account, now |-> now, todo |-> batch,
                    writable |-> [g \in Groups |-> Unasked],
                    owners |-> [g \in Groups |-> Unasked],
                    answers |-> {}]]
    /\ UNCHANGED <<rows, next, shares, now>>

Working(w) == push[w] # None /\ push[w].todo # <<>>

Env(w) == Head(push[w].todo)

\* Broken: the clock is not checked.
BrokenRefuse(env, clock) == IF env.large THEN "TooLarge" ELSE None

\* The reason `refuse` gives without asking the database, or None.
Refuse(env, clock) ==
    IF ~ClockIsPlausible(env.updated_at, clock) THEN "ImplausibleClock"
    ELSE IF env.large THEN "TooLarge" ELSE None

\* Answer the head of the batch and go on with the next envelope.
Answered(w, answer) ==
    [push EXCEPT ![w].todo = Tail(@),
                 ![w].answers = @ \cup {[env |-> Env(w), answer |-> answer]}]

RefuseEnvelope(w) ==
    /\ Working(w)
    /\ Refuse(Env(w), push[w].now) # None
    /\ push' = Answered(w, Refuse(Env(w), push[w].now))
    /\ UNCHANGED <<rows, next, shares, now>>

Passed(w) == Working(w) /\ Refuse(Env(w), push[w].now) = None

\* can_write_group: the group has no shares at all, or the caller is in it.
CanWriteGroup(account, group) ==
    \/ Members(group) = {}
    \/ account \in Owners(group) \cup Members(group)

AskWritable(w) ==
    /\ Passed(w) /\ Env(w).key_ref # None
    /\ push[w].writable[Env(w).key_ref] = Unasked
    /\ push' = [push EXCEPT ![w].writable[Env(w).key_ref] =
                   CanWriteGroup(push[w].account, Env(w).key_ref)]
    /\ UNCHANGED <<rows, next, shares, now>>

RefuseNonMember(w) ==
    /\ Passed(w) /\ Env(w).key_ref # None
    /\ push[w].writable[Env(w).key_ref] = FALSE
    /\ push' = Answered(w, "NotAMember")
    /\ UNCHANGED <<rows, next, shares, now>>

\* share_owner: LIMIT 1 without ORDER BY picks any of the group's owners.
ShareOwner(group) == IF Members(group) = {} THEN {None} ELSE Owners(group)

AskOwner(w) ==
    /\ Passed(w) /\ Env(w).key_ref # None
    /\ push[w].writable[Env(w).key_ref] = TRUE
    /\ push[w].owners[Env(w).key_ref] = Unasked
    /\ \E owner \in ShareOwner(Env(w).key_ref) :
          push' = [push EXCEPT ![w].owners[Env(w).key_ref] = owner]
    /\ UNCHANGED <<rows, next, shares, now>>

\* Broken: everyone's records are stored under who pushed them.
BrokenStorageAccount(p, env) == p.account

\* A group's records are stored under its owner, whoever pushed them.
StorageAccount(p, env) ==
    IF env.key_ref = None THEN p.account
    ELSE IF p.owners[env.key_ref] = None THEN p.account ELSE p.owners[env.key_ref]

PutEnvelope(w) ==
    /\ Passed(w)
    /\ Env(w).key_ref # None =>
          /\ push[w].writable[Env(w).key_ref] = TRUE
          /\ push[w].owners[Env(w).key_ref] # Unasked
    /\ LET key == KeyOf(StorageAccount(push[w], Env(w)), Env(w))
       IN  /\ rows' = Upsert(rows, key, Env(w), next + 1)
           /\ push' = Answered(w, IF Takes(rows, key, Env(w)) THEN "Accepted"
                                                              ELSE "Stale")
    /\ next' = next + 1
    /\ UNCHANGED <<shares, now>>

PushStep(w) == \/ RefuseEnvelope(w)
               \/ AskWritable(w)
               \/ RefuseNonMember(w)
               \/ AskOwner(w)
               \/ PutEnvelope(w)

\* The batch is done; the response leaves and the handler's locals with it.
FinishPush(w) ==
    /\ push[w] # None /\ push[w].todo = <<>>
    /\ push' = [push EXCEPT ![w] = None]
    /\ UNCHANGED <<rows, next, shares, now>>

\* A store error ends the handler with a 500, a closed connection drops it, a
\* crash takes it along: what the batch wrote so far stays.
CancelPush(w) ==
    /\ push[w] # None
    /\ push' = [push EXCEPT ![w] = None]
    /\ UNCHANGED <<rows, next, shares, now>>

-----------------------------------------------------------------------------
\* POST and DELETE /v1/shares, called by `owner`.

\* put_share: sharing a pair again replaces its wrapped key, never its owner.
PutShare(owner, group, user) ==
    [shares EXCEPT ![<<group, user>>] = IF @ = None THEN owner ELSE @]

\* delete_share: only the owner's own share goes, and its absence is no error.
DeleteShare(owner, group, user) ==
    [shares EXCEPT ![<<group, user>>] = IF @ = owner THEN None ELSE @]

CreateShare(owner, group, user) ==
    /\ user # owner
    /\ shares' = PutShare(owner, group, user)
    /\ UNCHANGED <<rows, next, now, push>>

RemoveShare(owner, group, user) ==
    /\ shares' = DeleteShare(owner, group, user)
    /\ UNCHANGED <<rows, next, now, push>>

\* now_ms: the wall clock.  It could be set back, which would let stored clocks be
\* further ahead than the skew; assumed is that it is not.  Only
\* StoredClocksArePlausible depends on it.
Tick == now' = now + 1 /\ UNCHANGED <<rows, next, shares, push>>

-----------------------------------------------------------------------------

\* Every variable has the shape its table or handler gives it.
ServerTypeOK ==
    /\ rows \in [Keys -> Row \cup {None}]
    /\ next \in Nat /\ now \in Int
    /\ shares \in [Groups \X Accounts -> Accounts \cup {None}]
    /\ push \in [Workers -> Push \cup {None}]

SeqsBelowNext == \A k \in Keys : rows[k] # None => rows[k].seq \in 1..next

(***************************************************************************)
(* An answered envelope is safe: Accepted or Stale (routes/sync.rs), its   *)
(* row under the account it was routed to holds it or a later write, until *)
(* the response leaves and whatever other handlers do meanwhile.           *)
(***************************************************************************)
AnswersAreDurable ==
    \A w \in Workers : push[w] # None =>
        \A a \in push[w].answers : a.answer \in {"Accepted", "Stale"} =>
            Stored(rows, KeyOf(StorageAccount(push[w], a.env), a.env), a.env)

\* A group record is only answered once its owner is cached, for good.
AnsweredOwnersKnown ==
    \A w \in Workers : push[w] # None =>
        \A a \in push[w].answers :
            a.answer \in {"Accepted", "Stale"} /\ a.env.key_ref # None =>
                push[w].owners[a.env.key_ref] # Unasked

(***************************************************************************)
(* No stored clock is further ahead of the server's than the skew          *)
(* (merge.rs, MAX_CLOCK_SKEW_MS), as long as nobody sets that one back:    *)
(* the batch's `now` may be old when a row is written, but never new.      *)
(***************************************************************************)
StoredClocksArePlausible ==
    /\ \A k \in Keys : rows[k] # None => ClockIsPlausible(rows[k].updated_at, now)
    /\ \A w \in Workers : push[w] # None => push[w].now <= now

\* The inductive invariant of the handlers.
ServerIInv == /\ ServerTypeOK /\ SeqsBelowNext
              /\ AnswersAreDurable /\ AnsweredOwnersKnown
              /\ StoredClocksArePlausible
=============================================================================
