----------------------------- MODULE SyncSystem -----------------------------
(***************************************************************************)
(* The server of SyncServer together with the devices it serves.  The      *)
(* desktop client lives in another repository: a device is modelled from   *)
(* what merge.rs, record.rs and api.rs ask of it, and is marked external.  *)
(* It edits offline, pushes its dirty records as one batch, pulls pages,   *)
(* resolves each pulled envelope against its own copy, and may lose any    *)
(* request or response.                                                    *)
(***************************************************************************)
EXTENDS SyncServer, SequencesExt

CONSTANTS
    AccountOf,               \* [Devices -> Accounts]
    Creator,                 \* [Ids -> Devices]: who makes a record (a UUID) first
    Filings,                 \* [Devices -> [Ids -> SUBSET Places]]: where a device's
                             \* user files a record, or moves it to
    Large,                   \* ids whose ciphertext is over max_record_bytes
    Offset,                  \* [Devices -> Int]: a device's clock minus the server's
    RawStamps,               \* TRUE: updated_at is the bare clock reading
    InitialShares,           \* <<owner, group, member>>, shared before anything else
    ShareRequests,           \* <<owner, group, member>> that are shared meanwhile
    Removals,                \* <<owner, group, member>> that are removed meanwhile
    MaxNow, MaxStamp,        \* bounds: the server's clock, the stamps given
    MaxEdits, MaxLosses,     \* bounds: edits, and requests or responses lost
    MaxSeq                   \* bound: numbers the sequence may hand out

ASSUME SyncSystemAssumption ==
    /\ AccountOf \in [Devices -> Accounts]
    /\ Creator \in [Ids -> Devices]
    /\ Filings \in [Devices -> [Ids -> SUBSET Places]]
    /\ Large \subseteq Ids
    /\ Offset \in [Devices -> Int]
    /\ RawStamps \in BOOLEAN
    /\ InitialShares \cup ShareRequests \cup Removals
          \subseteq Accounts \X Groups \X Accounts
    /\ MaxStamp \in Int /\ {MaxNow, MaxEdits, MaxLosses, MaxSeq} \subseteq Nat

VARIABLES
    local,                   \* per device and id: the clock of its copy, or None
    place,                   \* per device and id: where its copy is filed
    dirty,                   \* per device: ids edited since the server took them
    cursor,                  \* per device: PullResponse.cursor it pulls from
    waiting,                 \* per device: the worker serving its push, or None
    pull,                    \* per device: the pull response under way, or None
    edits, losses            \* how many so far

deviceVars == <<local, place, dirty, cursor, waiting, pull, edits, losses>>
vars == <<serverVars, deviceVars>>

Clock == [updated_at : Int, device_id : Devices]

ASSUME NoneIsNoClock == None \notin Clock

Version == [id : Ids, group_id : Groups \cup {None}, key_ref : Groups \cup {None},
            updated_at : Int, device_id : Devices, seq : Nat]

Page == [cursor : Nat, more : BOOLEAN, envelopes : SUBSET Version]

\* KeyRef::Personal, in no group.
Personal == [group_id |-> None, key_ref |-> None]

Init ==
    /\ rows = EmptyTable /\ next = 0 /\ now = 0
    /\ shares = [s \in Groups \X Accounts |->
                    IF \E o \in Accounts : <<o, s[1], s[2]>> \in InitialShares
                    THEN CHOOSE o \in Accounts : <<o, s[1], s[2]>> \in InitialShares
                    ELSE None]
    /\ push = [w \in Workers |-> None]
    /\ local = [d \in Devices |-> [i \in Ids |-> None]]
    /\ place = [d \in Devices |-> [i \in Ids |-> Personal]]
    /\ dirty = [d \in Devices |-> {}]
    /\ cursor = [d \in Devices |-> 0]
    /\ waiting = [d \in Devices |-> None]
    /\ pull = [d \in Devices |-> None]
    /\ edits = 0 /\ losses = 0

-----------------------------------------------------------------------------
\* A device edits: the stamp it gives, and the envelope it will push.

\* Broken: two edits of one instant are stamped alike.
BrokenStamp(d, i) ==
    LET reading == now + Offset[d]
    IN  IF RawStamps \/ local[d][i] = None THEN reading
        ELSE Max({reading, local[d][i].updated_at})

Stamp(d, i) ==
    LET reading == now + Offset[d]
    IN  IF RawStamps \/ local[d][i] = None THEN reading
        ELSE Max({reading, local[d][i].updated_at + 1})

EnvelopeOf(d, i) ==
    [id |-> i, group_id |-> place[d][i].group_id, key_ref |-> place[d][i].key_ref,
     updated_at |-> local[d][i].updated_at, device_id |-> local[d][i].device_id,
     large |-> i \in Large]

\* A personal key is that of the account whose device sealed the copy.
Opens(d, i) == \/ place[d][i].key_ref # None
               \/ AccountOf[d] = AccountOf[local[d][i].device_id]

\* An edit leaves a record where it is or moves it.
EditsInto(d, i) == IF local[d][i] = None THEN Filings[d][i]
                   ELSE Filings[d][i] \cup {place[d][i]}

Edit(d, i) ==
    /\ edits < MaxEdits /\ Stamp(d, i) <= MaxStamp
    /\ IF local[d][i] = None THEN Creator[i] = d ELSE Opens(d, i)
    /\ local' = [local EXCEPT ![d][i] =
                    [updated_at |-> Stamp(d, i), device_id |-> d]]
    /\ \E p \in EditsInto(d, i) : place' = [place EXCEPT ![d][i] = p]
    /\ dirty' = [dirty EXCEPT ![d] = @ \cup {i}]
    /\ edits' = edits + 1
    /\ UNCHANGED <<serverVars, cursor, waiting, pull, losses>>

\* All that is dirty goes in one batch, in any order.
BeginPush(d, w) ==
    /\ waiting[d] = None /\ dirty[d] # {}
    /\ \E order \in SetToSeqs(dirty[d]) :
          StartPush(w, AccountOf[d], [n \in DOMAIN order |-> EnvelopeOf(d, order[n])])
    /\ waiting' = [waiting EXCEPT ![d] = w]
    /\ UNCHANGED <<local, place, dirty, cursor, pull, edits, losses>>

\* Broken: a copy edited while its push was under way is called settled too.
BrokenSettled(d, answers) ==
    {a.env.id : a \in {b \in answers : b.answer \in {"Accepted", "Stale"}}}

\* The server has the record or a newer one, and the copy is the one pushed.
Settled(d, answers) ==
    {a.env.id : a \in {b \in answers : /\ b.answer \in {"Accepted", "Stale"}
                                       /\ SameClock(local[d][b.env.id], b.env)}}

ReceivePush(d) ==
    /\ waiting[d] # None
    /\ FinishPush(waiting[d])
    /\ dirty' = [dirty EXCEPT ![d] = @ \ Settled(d, push[waiting[d]].answers)]
    /\ waiting' = [waiting EXCEPT ![d] = None]
    /\ UNCHANGED <<local, place, cursor, pull, edits, losses>>

Awaited(w) == \E d \in Devices : waiting[d] = w

FinishUnheard(w) == ~Awaited(w) /\ FinishPush(w) /\ UNCHANGED deviceVars

\* The handler dies; a device that waits for it gets an error.
LoseHandler(w) ==
    /\ losses < MaxLosses
    /\ CancelPush(w)
    /\ waiting' = [d \in Devices |-> IF waiting[d] = w THEN None ELSE waiting[d]]
    /\ losses' = losses + 1
    /\ UNCHANGED <<local, place, dirty, cursor, pull, edits>>

\* The device times out or restarts; the handler goes on without it.
AbandonPush(d) ==
    /\ losses < MaxLosses
    /\ waiting[d] # None
    /\ waiting' = [waiting EXCEPT ![d] = None]
    /\ losses' = losses + 1
    /\ UNCHANGED <<serverVars, local, place, dirty, cursor, pull, edits>>

-----------------------------------------------------------------------------
\* GET /v1/sync: one SELECT.  (An empty page answers with the same cursor.)

SentEnvelope(k) ==
    [id |-> k[2], group_id |-> rows[k].group_id, key_ref |-> rows[k].key_ref,
     updated_at |-> rows[k].updated_at, device_id |-> rows[k].device_id,
     seq |-> rows[k].seq]

ServePull(d) ==
    LET page == PullPage(rows, AccountOf[d], MemberOf(AccountOf[d]), cursor[d])
    IN  /\ pull[d] = None
        /\ page.keys # {}
        /\ pull' = [pull EXCEPT ![d] =
                       [cursor |-> page.cursor, more |-> page.more,
                        envelopes |-> {SentEnvelope(k) : k \in page.keys}]]
        /\ UNCHANGED <<serverVars, local, place, dirty, cursor, waiting, edits, losses>>

\* The envelopes of a page that beat the device's own copy of record i.
Fresher(d, i) == {e \in pull[d].envelopes :
                     /\ e.id = i
                     /\ local[d][i] = None \/ Resolve(local[d][i], e) = "TakeRemote"}

\* Resolving one by one leaves the last of them in the order of clocks.
Latest(versions) == CHOOSE v \in versions : \A u \in versions : ~Wins(u, v)

Merged(d, i) ==
    IF Fresher(d, i) = {} THEN local[d][i]
    ELSE [updated_at |-> Latest(Fresher(d, i)).updated_at,
          device_id  |-> Latest(Fresher(d, i)).device_id]

MergedPlace(d, i) ==
    IF Fresher(d, i) = {} THEN place[d][i] ELSE PlaceOf(Latest(Fresher(d, i)))

ReceivePull(d) ==
    /\ pull[d] # None
    /\ place' = [place EXCEPT ![d] = [i \in Ids |-> MergedPlace(d, i)]]
    /\ local' = [local EXCEPT ![d] = [i \in Ids |-> Merged(d, i)]]
    /\ dirty' = [dirty EXCEPT ![d] = {i \in @ : Fresher(d, i) = {}}]
    /\ cursor' = [cursor EXCEPT ![d] = pull[d].cursor]
    /\ pull' = [pull EXCEPT ![d] = None]
    /\ UNCHANGED <<serverVars, waiting, edits, losses>>

LosePull(d) ==
    /\ losses < MaxLosses
    /\ pull[d] # None
    /\ pull' = [pull EXCEPT ![d] = None]
    /\ losses' = losses + 1
    /\ UNCHANGED <<serverVars, local, place, dirty, cursor, waiting, edits>>

-----------------------------------------------------------------------------

Handle(w) == next < MaxSeq /\ PushStep(w) /\ UNCHANGED deviceVars

Share == \/ \E s \in ShareRequests : CreateShare(s[1], s[2], s[3])
         \/ \E s \in Removals : RemoveShare(s[1], s[2], s[3])

ClientStep(d) == \/ \E w \in Workers : BeginPush(d, w)
                 \/ ReceivePush(d)
                 \/ ServePull(d)
                 \/ ReceivePull(d)

Loss == \/ \E w \in Workers : LoseHandler(w)
        \/ \E d \in Devices : AbandonPush(d) \/ LosePull(d)

\* Nothing is left to send: every further pull comes back empty.
Quiet ==
    /\ \A d \in Devices :
          /\ dirty[d] = {} /\ waiting[d] = None /\ pull[d] = None
          /\ Visible(rows, AccountOf[d], MemberOf(AccountOf[d]), cursor[d]) = {}
    /\ \A w \in Workers : push[w] = None

AllSynced == Quiet /\ UNCHANGED vars

Next == \/ \E d \in Devices, i \in Ids : Edit(d, i)
        \/ \E d \in Devices : ClientStep(d)
        \/ \E w \in Workers : Handle(w) \/ FinishUnheard(w)
        \/ Loss
        \/ Share /\ UNCHANGED deviceVars
        \/ now < MaxNow /\ Tick /\ UNCHANGED deviceVars
        \/ AllSynced

Spec == Init /\ [][Next]_vars

(***************************************************************************)
(* The server runs every handler it has accepted to its end, its clock     *)
(* goes on, and a client syncs again and again.  Edits, losses and shares  *)
(* are never owed.                                                         *)
(***************************************************************************)
Fairness ==
    /\ \A w \in Workers : WF_vars(Handle(w)) /\ WF_vars(FinishUnheard(w))
    /\ \A d \in Devices : /\ WF_vars(\E w \in Workers : BeginPush(d, w))
                          /\ WF_vars(ReceivePush(d))
                          /\ WF_vars(ServePull(d))
                          /\ WF_vars(ReceivePull(d))
    /\ WF_vars(now < MaxNow /\ Tick /\ UNCHANGED deviceVars)

FairSpec == Spec /\ Fairness
=============================================================================
