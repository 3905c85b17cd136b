--------------------------- MODULE SyncProperties ---------------------------
(* What the server and the devices must achieve together. *)
EXTENDS SyncSystem

\* The device's copy of record i is the row's version or a later one.
Holds(d, k) == local[d][k[2]] # None /\ Covers(local[d][k[2]], rows[k])

Readable(d) == Visible(rows, AccountOf[d], MemberOf(AccountOf[d]), 0)

\* Devices and pages have their shapes; a device waits for a handler of its own.
TypeOK ==
    /\ ServerTypeOK
    /\ local \in [Devices -> [Ids -> Clock \cup {None}]]
    /\ place \in [Devices -> [Ids -> Places]]
    /\ dirty \in [Devices -> SUBSET Ids]
    /\ cursor \in [Devices -> Nat]
    /\ waiting \in [Devices -> Workers \cup {None}]
    /\ pull \in [Devices -> Page \cup {None}]
    /\ edits \in Nat /\ losses \in Nat
    /\ \A d, e \in Devices : waiting[d] # None /\ waiting[d] = waiting[e] => d = e
    /\ \A d \in Devices : waiting[d] # None =>
          push[waiting[d]] # None /\ push[waiting[d]].account = AccountOf[d]

(***************************************************************************)
(* Every record a device may read and whose row is behind its cursor has   *)
(* reached it.  The pull handler must answer with the last row it returns, *)
(* "never the store's high-water mark" (routes/sync.rs), and an edited row *)
(* must move to the end of the log (tests/store.rs).                       *)
(***************************************************************************)
NothingSkipped ==
    \A d \in Devices : \A k \in Readable(d) :
        rows[k].seq <= cursor[d] => Holds(d, k)

(***************************************************************************)
(* The same for the account's own rows, whatever happens to the shares.    *)
(***************************************************************************)
OwnNothingSkipped ==
    \A d \in Devices, k \in Keys :
        rows[k] # None /\ k[1] = AccountOf[d] /\ rows[k].seq <= cursor[d]
        => Holds(d, k)

(***************************************************************************)
(* A device stops pushing a record only when the server holds that version *)
(* or a later one, through lost responses, repeated pushes and edits made  *)
(* while a push or a pull was under way (merge.rs, routes/sync.rs:123).    *)
(***************************************************************************)
CleanMeansStored ==
    \A d \in Devices, i \in Ids : local[d][i] # None /\ i \notin dirty[d] =>
        \E k \in Keys : k[2] = i /\ Stored(rows, k, local[d][i])

\* The account whose device made the record.
Home(i) == AccountOf[Creator[i]]

(***************************************************************************)
(* One record is one row: a member's edit lands on the owner's copy, never *)
(* beside it (store/mod.rs, share_owner; tests/store.rs:543).              *)
(***************************************************************************)
OneRowPerRecord ==
    \A j, k \in Keys : j[2] = k[2] /\ rows[j] # None /\ rows[k] # None => j = k

(***************************************************************************)
(* A row only changes into a strictly newer write, and always moves to the *)
(* end of the log (put_envelope).                                          *)
(***************************************************************************)
RowsAdvance == [][Advances(rows, rows')]_vars

(***************************************************************************)
(* A device's copy only changes into a strictly newer version: neither a   *)
(* page that was read before the device's own edit, nor the device's write *)
(* coming back to it, replaces or moves a copy (merge.rs:28, "does not     *)
(* flap between two equal versions").                                      *)
(***************************************************************************)
CopiesAdvance ==
    [][\A d \in Devices, i \in Ids :
          /\ local[d][i] # None
          /\ local'[d][i] # local[d][i] \/ place'[d][i] # place[d][i]
          => local'[d][i] # None /\ Wins(local'[d][i], local[d][i])]_vars

(***************************************************************************)
(* Both devices reach the same answer (merge.rs:16): once nobody edits,    *)
(* all devices that may read a record end with the same copy of it, and    *)
(* stay with it.  A record too large for the server stays where it is.     *)
(***************************************************************************)
Reads(d, i) == \/ AccountOf[d] = Home(i)
               \/ place[Creator[i]][i].group_id \in MemberOf(AccountOf[d])

Converged == \A i \in Ids \ Large : \A d, e \in Devices :
                Reads(d, i) /\ Reads(e, i) => local[d][i] = local[e][i]

EventuallyConverged == <>[]Converged

(***************************************************************************)
(* There is no other way to come to rest: when all is pushed, answered and *)
(* pulled, those who may read a record agree on it, so a record that two   *)
(* devices keep differently is one that some device still has to push or   *)
(* to pull (merge.rs:16, "both devices reach the same answer").            *)
(***************************************************************************)
QuietMeansConverged == Quiet => Converged

\* Every copy of a record there is: in the table, on devices, in batches that
\* are being pushed and in pages that are on their way.
CopyOf(i, clock, filed) ==
    [id |-> i, group_id |-> filed.group_id, key_ref |-> filed.key_ref,
     updated_at |-> clock.updated_at, device_id |-> clock.device_id]

StoredCopies == {CopyOf(k[2], rows[k], rows[k]) : k \in {j \in Keys : rows[j] # None}}
HeldCopies == UNION {{CopyOf(i, local[d][i], place[d][i]) :
                 i \in {j \in Ids : local[d][j] # None}} : d \in Devices}
PushedCopies == UNION {{CopyOf(push[w].todo[n].id, push[w].todo[n], push[w].todo[n]) :
                   n \in DOMAIN push[w].todo} : w \in {x \in Workers : push[x] # None}}
PulledCopies == UNION {{CopyOf(e.id, e, e) : e \in pull[d].envelopes} :
                   d \in {x \in Devices : pull[x] # None}}

Copies == StoredCopies \cup HeldCopies \cup PushedCopies \cup PulledCopies

(***************************************************************************)
(* A record's clock names one version of it, wherever that is kept.        *)
(* Stores and devices drop a write whose clock is the one they have (the   *)
(* WHERE of put_envelope, merge.rs:36), so a device that stamped two edits *)
(* alike, or a row that took only a part of a write that moves its record, *)
(* would keep two copies apart for good.                                   *)
(***************************************************************************)
OneVersionPerClock ==
    \A u, v \in Copies : u.id = v.id /\ SameClock(u, v) => u = v

-----------------------------------------------------------------------------
\* What CleanMeansStored and NothingSkipped rest on.

\* Only what a device has can be dirty.
DirtyIsLocal == \A d \in Devices : \A i \in dirty[d] : local[d][i] # None

\* A page under way holds versions the table has, or had before newer ones.
PagesAreStored ==
    \A d \in Devices : pull[d] # None =>
        /\ IsFiniteSet(pull[d].envelopes)
        /\ \A e \in pull[d].envelopes :
              \E k \in Keys : k[2] = e.id /\ Stored(rows, k, e)

\* No cursor, kept or on its way, is ahead of the sequence.
CursorsBelowNext ==
    \A d \in Devices :
        /\ cursor[d] <= next
        /\ pull[d] # None => pull[d].cursor \in cursor[d]..next

\* Who was given a group before anything else, and whose share may go.
InitialMember(g, u) == \E o \in Accounts : <<o, g, u>> \in InitialShares
MayLose(g, u) == \E o \in Accounts : <<o, g, u>> \in Removals
MayGet(g, u) == \E o \in Accounts : <<o, g, u>> \in ShareRequests

\* The groups the account has been a member of from the start, without a break.
Lasting(d) ==
    {g \in MemberOf(AccountOf[d]) :
        /\ InitialMember(g, AccountOf[d])
        /\ ~(MayLose(g, AccountOf[d]) /\ MayGet(g, AccountOf[d]))}

\* The rows a device is owed: its account's, and those of its lasting groups.
Owed(d, k) == k[1] = AccountOf[d] \/ rows[k].group_id \in Lasting(d)

\* A page under way has every row owed up to its cursor.
OwedPagesComplete ==
    \A d \in Devices : pull[d] # None =>
        \A k \in Keys :
            /\ rows[k] # None /\ Owed(d, k)
            /\ rows[k].seq \in cursor[d] + 1 .. pull[d].cursor
            => \E e \in pull[d].envelopes : e.id = k[2] /\ SameClock(e, rows[k])

OwedNothingSkipped ==
    \A d \in Devices, k \in Keys :
        rows[k] # None /\ Owed(d, k) /\ rows[k].seq <= cursor[d] => Holds(d, k)

\* Every share was asked for, and one that is never removed is there.
SharesAsAsked ==
    \A g \in Groups, u \in Accounts :
        /\ shares[<<g, u>>] # None =>
              <<shares[<<g, u>>], g, u>> \in InitialShares \cup ShareRequests
        /\ InitialMember(g, u) /\ ~MayLose(g, u) => shares[<<g, u>>] # None

\* The inductive invariant of the system, and of its pulls.
IInv == /\ ServerIInv /\ TypeOK /\ CursorsBelowNext
        /\ DirtyIsLocal /\ PagesAreStored /\ CleanMeansStored

PullIInv == SharesAsAsked /\ OwedPagesComplete /\ OwedNothingSkipped

\* A device's own copy is never behind a version it made.
AuthorsAreAhead ==
    \A v \in Copies : LET own == local[v.device_id][v.id]
                      IN  own # None /\ Covers(own, v)

\* The inductive invariant of versions.
VersionIInv == AuthorsAreAhead /\ OneVersionPerClock

-----------------------------------------------------------------------------
\* When one record is one row: what clients must keep to, and what it rests on.

\* No one becomes a member whose cursor may be past the group's rows.
NoLateShares ==
    \A g \in Groups, u \in Accounts :
        MayGet(g, u) => InitialMember(g, u) /\ ~MayLose(g, u)

\* Only accounts file their own records, under their own key or that of a group
\* which they alone share; and shares are for good.
OnlyHomeShares(g, i) ==
    \A s \in InitialShares \cup ShareRequests : s[2] = g => s[1] = Home(i)

FiledByHome(p, i) ==
    p.key_ref # None => p.group_id \in {None, p.key_ref} /\ OnlyHomeShares(p.key_ref, i)

OneHome ==
    /\ Removals = {}
    /\ \A d \in Devices, i \in Ids : \A p \in Filings[d][i] :
          AccountOf[d] = Home(i) /\ FiledByHome(p, i)

RowsAtHome == \A k \in Keys : rows[k] # None => k[1] = Home(k[2])

\* Only the account's own devices seal a record with its personal key.
CopiesFiledByHome ==
    \A v \in Copies :
        /\ FiledByHome(v, v.id)
        /\ v.key_ref = None => AccountOf[v.device_id] = Home(v.id)

\* Who has a record of another account's group got it as the group was shared.
SharedWith(account, v) ==
    account # Home(v.id) /\ v.key_ref # None => Members(v.key_ref) # {}

CopiesAreShared ==
    \A d \in Devices :
        /\ \A i \in Ids : local[d][i] # None =>
              SharedWith(AccountOf[d], CopyOf(i, local[d][i], place[d][i]))
        /\ \A i \in dirty[d] : AccountOf[d] # Home(i) => place[d][i].key_ref # None
        /\ pull[d] # None => \A e \in pull[d].envelopes : SharedWith(AccountOf[d], e)

\* A batch only has envelopes whose route leads home, whatever it has cached.
LeadsHome(p) ==
    /\ \A n \in DOMAIN p.todo :
          LET env == p.todo[n]
          IN  p.account # Home(env.id) =>
                 /\ env.key_ref # None /\ Members(env.key_ref) # {}
                 /\ p.owners[env.key_ref] # None
    /\ \A g \in Groups : p.owners[g] \notin {Unasked, None} =>
          \E s \in InitialShares \cup ShareRequests : s[1] = p.owners[g] /\ s[2] = g

PushesLeadHome == \A w \in Workers : push[w] # None => LeadsHome(push[w])

\* The inductive invariant of the one row.
HomeIInv == /\ RowsAtHome /\ CopiesFiledByHome /\ CopiesAreShared /\ PushesLeadHome
=============================================================================
