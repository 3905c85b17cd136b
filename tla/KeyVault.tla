------------------------------ MODULE KeyVault ------------------------------
(***************************************************************************)
(* What the server keeps of everybody's keys, and what can be opened with  *)
(* them: registering, signing in through either door, re-wrapping, sharing *)
(* a group key and pushing sealed records (server/src/routes/auth.rs,      *)
(* shares.rs and sync.rs over the accounts, shares and records tables).    *)
(* Registrations and rewraps are requests that may be delayed, overtaken   *)
(* or lost, and a push is a handler with a step for each await; the other  *)
(* handlers read or write the database once.                               *)
(*                                                                         *)
(* Which tokens a request needs is in Sessions, how a batch of records is  *)
(* stored, with its two caches, in SyncServer.  The client is not in this  *)
(* repository: a device derives, seals and opens as crypto.rs documents    *)
(* and api.rs asks, shares only keys it has, and is marked external.  The  *)
(* server gives a group's key to whom it was shared with and to nobody     *)
(* else: its founder has it on the device that drew it.                    *)
(***************************************************************************)
EXTENDS EnvelopeCrypto, Merge, FiniteSets

CONSTANTS People,            \* whoever has a mailbox
          Accented,          \* those with a letter beyond a to z in its address
          Devices, PersonOf, \* the devices, and whose each is
          Groups, Founder,   \* the groups, and who makes up each
          Ids,               \* record ids, with their kinds
          None,              \* no account, share, row, key
          MaxChosen, MaxWraps, MaxStamp, MaxSeq   \* bounds

ASSUME KeyVaultAssumption ==
    /\ Accented \subseteq People
    /\ Devices \subseteq Int /\ PersonOf \in [Devices -> People]
    /\ Founder \in [Groups -> People]
    /\ None \notin Groups \cup People
    /\ MaxChosen \in [People -> Nat] /\ {MaxWraps, MaxStamp, MaxSeq} \subseteq Nat

VARIABLES accounts,          \* the accounts row of a mailbox, or None
          shares,            \* <<group, member>> |-> a shares row, or None
          rows,              \* <<account, id>> |-> a records row, or None
          last,              \* the number handed out last
          wire,              \* registrations and rewraps under way
          memory,            \* per device: the account's keys, or None
          looked,            \* per device: public keys found by `lookup`
          ring,              \* per device: the group keys it has, or None
          pushing,           \* per device: the push handler's locals, or None
          groupKey,          \* per group: its key, once it is drawn
          chosen,            \* per person: how many passwords, each with a code
          wraps              \* how many times a group key was wrapped

serverVars == <<accounts, shares, rows, last>>
deviceVars == <<memory, looked, ring, pushing>>
vars == <<serverVars, wire, deviceVars, groupKey, chosen, wraps>>

Password(p, n) == [password |-> n, of |-> p]
Code(p, n) == RecoveryCode([code |-> n, of |-> p])

\* The ways to write an address that the stores' to_lowercase makes one.
Spellings(p) ==
    {email \in [mailbox : {p}, ascii : BOOLEAN, other : BOOLEAN] :
        email.other => p \in Accented}

-----------------------------------------------------------------------------
\* server/src/auth.rs: a salted hash verifies against its own key only.

HashAuthKey(key) == [hash_of |-> key]
VerifyAuthKey(key, stored) == HashAuthKey(key) = stored

\* KeyMaterial: the account secret and the personal key under a wrap key.
Material(wrap, keys) == [secret   |-> Seal(wrap, "keys", keys.secret),
                         personal |-> Seal(wrap, "keys", keys.personal)]

Unlock(wrap, material) == [secret   |-> Open(wrap, "keys", material.secret),
                           personal |-> Open(wrap, "keys", material.personal)]

\* What p's n-th password and code lock: both proofs, and the keys twice.
Doors(p, n, email, keys) ==
    LET byPassword == DeriveAccountKeys(Password(p, n), email)
        byCode == DeriveRecoveryKeys(Code(p, n))
    IN  [auth_hash |-> HashAuthKey(byPassword.auth),
         material |-> Material(byPassword.wrap, keys),
         recovery_auth_hash |-> HashAuthKey(byCode.auth),
         recovery_material |-> Material(byCode.wrap, keys)]

\* What login answers: the row's key material, or BadCredentials.
Login(p, derived) ==
    IF accounts[p] # None /\ VerifyAuthKey(derived.auth, accounts[p].doors.auth_hash)
    THEN Unlock(derived.wrap, accounts[p].doors.material) ELSE None

\* Broken: the session carries the keys the password opens.
BrokenRecover(p, derived) ==
    IF accounts[p] # None
       /\ VerifyAuthKey(derived.auth, accounts[p].doors.recovery_auth_hash)
    THEN Unlock(derived.wrap, accounts[p].doors.material) ELSE None

\* recover: the same with the recovery columns.
Recover(p, derived) ==
    IF accounts[p] # None
       /\ VerifyAuthKey(derived.auth, accounts[p].doors.recovery_auth_hash)
    THEN Unlock(derived.wrap, accounts[p].doors.recovery_material) ELSE None

\* What the n-th password and code get, typed in any way; None is a refusal.
Answers(p, n) ==
    {Login(p, DeriveAccountKeys(Password(p, n), email)) : email \in Spellings(p)}
    \cup {Recover(p, DeriveRecoveryKeys(code)) : code \in Retypings([code |-> n, of |-> p])}

Obtained(p, n) == Answers(p, n) \ {None}

-----------------------------------------------------------------------------
\* RegisterRequest and RewrapRequest: the public key, and the doors to set.
RequestOf(op, p, n, email, keys) ==
    [op |-> op, person |-> p, account_public |-> PublicKey(keys.secret),
     doors |-> Doors(p, n, email, keys)]

\* A new account: its keys are drawn and sealed on the device.
SendRegister(d) ==
    LET p == PersonOf[d]
        keys == [secret   |-> Random([secret_of |-> p, nth |-> chosen[p]]),
                 personal |-> Random([personal_of |-> p, nth |-> chosen[p]])]
    IN  /\ memory[d] = None
        /\ chosen[p] < MaxChosen[p]
        /\ \E email \in Spellings(p) :
              wire' = wire \cup {RequestOf("register", p, chosen[p], email, keys)}
        /\ chosen' = [chosen EXCEPT ![p] = @ + 1]
        /\ UNCHANGED <<serverVars, deviceVars, groupKey, wraps>>

\* register: the mailbox is free, or EmailTaken.  A device signs in afterwards
\* with what it chose, whether the answer reaches it or not.
CreateAccount(m) ==
    /\ m.op = "register"
    /\ accounts' = IF accounts[m.person] # None THEN accounts
                   ELSE [accounts EXCEPT ![m.person] =
                            [account_public |-> m.account_public, doors |-> m.doors]]
    /\ wire' = wire \ {m}
    /\ UNCHANGED <<shares, rows, last, deviceVars, groupKey, chosen, wraps>>

\* login and recover, with any secret the person ever chose.
SignIn(d) ==
    /\ memory[d] = None
    /\ \E n \in 0..chosen[PersonOf[d]] - 1 :
          \E keys \in Obtained(PersonOf[d], n) :
              /\ Failed \notin {keys.secret, keys.personal}
              /\ memory' = [memory EXCEPT ![d] = keys]
    /\ UNCHANGED <<serverVars, wire, looked, ring, pushing, groupKey, chosen, wraps>>

\* The account's keys are never on disk: a restart or a sign-out forgets them.
\* Where a client keeps its groups' keys is left open.
Forget(d) ==
    /\ memory[d] # None
    /\ memory' = [memory EXCEPT ![d] = None]
    /\ looked' = [looked EXCEPT ![d] = [q \in People |-> None]]
    /\ ring' \in {ring, [ring EXCEPT ![d] = [g \in Groups |-> None]]}
    /\ UNCHANGED <<serverVars, wire, pushing, groupKey, chosen, wraps>>

\* A new password and code for the keys in memory.
SendRewrap(d) ==
    LET p == PersonOf[d]
    IN  /\ memory[d] # None /\ chosen[p] < MaxChosen[p]
        /\ \E email \in Spellings(p) :
              wire' = wire \cup {RequestOf("rewrap", p, chosen[p], email, memory[d])}
        /\ chosen' = [chosen EXCEPT ![p] = @ + 1]
        /\ UNCHANGED <<serverVars, deviceVars, groupKey, wraps>>

\* Broken: the recovery columns stay as they are.
BrokenRewrapAccount(m) ==
    /\ m.op = "rewrap"
    /\ accounts' = [accounts EXCEPT
                       ![m.person].doors.auth_hash = m.doors.auth_hash,
                       ![m.person].doors.material = m.doors.material]
    /\ wire' = wire \ {m}
    /\ UNCHANGED <<shares, rows, last, deviceVars, groupKey, chosen, wraps>>

\* rewrap: one UPDATE of both doors; account_public stays.
RewrapAccount(m) ==
    /\ m.op = "rewrap"
    /\ accounts' = [accounts EXCEPT ![m.person].doors = m.doors]
    /\ wire' = wire \ {m}
    /\ UNCHANGED <<shares, rows, last, deviceVars, groupKey, chosen, wraps>>

\* The request, or the server before it wrote, is lost.
Lose(m) ==
    /\ wire' = wire \ {m}
    /\ UNCHANGED <<serverVars, deviceVars, groupKey, chosen, wraps>>

-----------------------------------------------------------------------------
\* Sharing.

\* lookup: the public key stored for an address; for one's own it is of no use,
\* as create refuses to share with oneself.
Lookup(d, q) ==
    /\ memory[d] # None /\ accounts[q] # None /\ q # PersonOf[d]
    /\ looked' = [looked EXCEPT ![d][q] = accounts[q].account_public]
    /\ UNCHANGED <<serverVars, wire, memory, ring, pushing, groupKey, chosen, wraps>>

\* The founder draws the group's key, before its first share or not.
DrawGroupKey(d, g) ==
    /\ memory[d] # None /\ PersonOf[d] = Founder[g] /\ groupKey[g] = None
    /\ groupKey' = [groupKey EXCEPT ![g] = Random([group |-> g])]
    /\ ring' = [ring EXCEPT ![d][g] = Random([group |-> g])]
    /\ UNCHANGED <<serverVars, wire, memory, looked, pushing, chosen, wraps>>

\* create: any caller may share any group with any other account, an honest one
\* a key it has.  put_share: a pair shared again gets the new blob, and keeps its
\* owner_id.
Share(d, g, q) ==
    LET p == PersonOf[d]
        blob == WrapFor(looked[d][q], ring[d][g], Random([throwaway |-> wraps]))
    IN  /\ memory[d] # None /\ q # p
        /\ looked[d][q] # None /\ ring[d][g] # None /\ wraps < MaxWraps
        /\ shares' = [shares EXCEPT ![<<g, q>>] =
                         [owner |-> IF @ = None THEN p ELSE @.owner, blob |-> blob]]
        /\ wraps' = wraps + 1
        /\ UNCHANGED <<accounts, rows, last, wire, deviceVars, groupKey, chosen>>

\* remove: the caller's own share goes; the member's devices have seen the key.
Unshare(d, g, q) ==
    /\ memory[d] # None
    /\ shares[<<g, q>>] # None /\ shares[<<g, q>>].owner = PersonOf[d]
    /\ shares' = [shares EXCEPT ![<<g, q>>] = None]
    /\ UNCHANGED <<accounts, rows, last, wire, deviceVars, groupKey, chosen, wraps>>

\* What p opens its records with; the key of a group comes out of its share.
ContentKey(p, keys, keyRef) ==
    IF keyRef = None THEN keys.personal
    ELSE UnwrapWith(keys.secret, shares[<<keyRef, p>>].blob)

\* mine: the shares whose user_id is the caller, whoever owns them.
Mine(d, g) ==
    LET p == PersonOf[d]
    IN  /\ memory[d] # None /\ shares[<<g, p>>] # None
        /\ ContentKey(p, memory[d], g) # Failed
        /\ ring' = [ring EXCEPT ![d][g] = ContentKey(p, memory[d], g)]
        /\ UNCHANGED <<serverVars, wire, memory, looked, pushing, groupKey, chosen, wraps>>

-----------------------------------------------------------------------------
\* Sealed records.

\* Broken: the position in the log is bound too.
BrokenAad(env) == <<env.id, env.updated_at, env.device_id, env.seq>>

\* Envelope::aad: neither where the record is filed, nor its key, nor its place.
Aad(env) == <<env.id, env.updated_at, env.device_id>>

\* Broken: the record goes where it is filed.
BrokenRouting(env) == env.group_id

\* push asks about the group whose key seals the record, KeyRef::Group.
Routing(env) == env.key_ref

\* A record is sealed with a key the device has, and may be filed in any group:
\* moving it re-seals it on the next push only.
SendPush(d, i, groupId, keyRef) ==
    /\ memory[d] # None /\ pushing[d] = None /\ last < MaxSeq
    /\ keyRef # None => ring[d][keyRef] # None
    /\ \E stamp \in 1..MaxStamp :
          LET header == [id |-> i, group_id |-> groupId, key_ref |-> keyRef,
                         updated_at |-> stamp, device_id |-> d, seq |-> 0, sealed |-> None]
              key == IF keyRef = None THEN memory[d].personal ELSE ring[d][keyRef]
              env == [header EXCEPT !.sealed = Seal(key, Aad(header), "payload")]
          IN  pushing' = [pushing EXCEPT ![d] =
                 [env |-> env, account |-> PersonOf[d],
                  at |-> IF Routing(env) = None THEN "put" ELSE "write?"]]
    /\ UNCHANGED <<serverVars, wire, memory, looked, ring, groupKey, chosen, wraps>>

At(d, step) == pushing[d] # None /\ pushing[d].at = step

Members(g) == {q \in People : shares[<<g, q>>] # None}
Owners(g) == {shares[<<g, q>>].owner : q \in Members(g)}

\* can_write_group: the group has no shares at all, or the caller is in it.
CanWriteGroup(p, g) == Members(g) = {} \/ p \in Owners(g) \cup Members(g)

\* The first await; NotAMember ends it.
AskWritable(d) ==
    /\ At(d, "write?")
    /\ pushing' = IF CanWriteGroup(PersonOf[d], Routing(pushing[d].env))
                  THEN [pushing EXCEPT ![d].at = "owner?"]
                  ELSE [pushing EXCEPT ![d] = None]
    /\ UNCHANGED <<serverVars, wire, memory, looked, ring, groupKey, chosen, wraps>>

\* The second, share_owner: any owner of the group, or the caller if none is left.
AskOwner(d) ==
    /\ At(d, "owner?")
    /\ LET owners == Owners(Routing(pushing[d].env))
       IN  \E p \in IF owners = {} THEN {PersonOf[d]} ELSE owners :
              pushing' = [pushing EXCEPT ![d].at = "put", ![d].account = p]
    /\ UNCHANGED <<serverVars, wire, memory, looked, ring, groupKey, chosen, wraps>>

\* The third, put_envelope: upserted unless a newer one is stored.
PutEnvelope(d) ==
    /\ At(d, "put") /\ last < MaxSeq
    /\ LET k == <<pushing[d].account, pushing[d].env.id>>
           row == [pushing[d].env EXCEPT !.seq = last + 1]
       IN  rows' = IF rows[k] = None \/ Wins(row, rows[k])
                   THEN [rows EXCEPT ![k] = row] ELSE rows
    /\ last' = last + 1
    /\ pushing' = [pushing EXCEPT ![d] = None]
    /\ UNCHANGED <<accounts, shares, wire, memory, looked, ring, groupKey, chosen, wraps>>

\* The push is lost, or its handler dropped at an await.
LosePush(d) ==
    /\ pushing[d] # None
    /\ pushing' = [pushing EXCEPT ![d] = None]
    /\ UNCHANGED <<serverVars, wire, memory, looked, ring, groupKey, chosen, wraps>>

PushStep(d) == AskWritable(d) \/ AskOwner(d) \/ PutEnvelope(d) \/ LosePush(d)

\* pull: an account's own rows, and those filed in a group shared with it.
Pulled(p) ==
    {k \in People \X Ids :
        /\ rows[k] # None
        /\ \/ k[1] = p
           \/ rows[k].group_id # None /\ p \in Members(rows[k].group_id)}

OpenRow(p, keys, row) == Open(ContentKey(p, keys, row.key_ref), Aad(row), row.sealed)

-----------------------------------------------------------------------------
Init ==
    /\ accounts = [p \in People |-> None]
    /\ shares = [s \in Groups \X People |-> None]
    /\ rows = [k \in People \X Ids |-> None]
    /\ last = 0 /\ wire = {}
    /\ memory = [d \in Devices |-> None]
    /\ looked = [d \in Devices |-> [q \in People |-> None]]
    /\ ring = [d \in Devices |-> [g \in Groups |-> None]]
    /\ pushing = [d \in Devices |-> None]
    /\ groupKey = [g \in Groups |-> None]
    /\ chosen = [p \in People |-> 0] /\ wraps = 0

Serve(m) == CreateAccount(m) \/ RewrapAccount(m) \/ Lose(m)

Device(d) ==
    \/ SendRegister(d) \/ SignIn(d) \/ Forget(d) \/ SendRewrap(d)
    \/ \E q \in People : Lookup(d, q)
    \/ \E g \in Groups : \/ DrawGroupKey(d, g) \/ Mine(d, g)
                         \/ \E q \in People : Share(d, g, q) \/ Unshare(d, g, q)
    \/ \E i \in Ids, groupId, keyRef \in Groups \cup {None} : SendPush(d, i, groupId, keyRef)
    \/ PushStep(d)

Next == (\E m \in wire : Serve(m)) \/ (\E d \in Devices : Device(d))

Spec == Init /\ [][Next]_vars

-----------------------------------------------------------------------------
\* The shapes of the terms, and of the tables and messages that hold them.

\* Keys are drawn for an account, a group, or one wrapping.
RandomKey ==
    [random : [secret_of : People, nth : Nat] \cup [personal_of : People, nth : Nat]
              \cup [group : Groups] \cup [throwaway : Nat]]
KeyPair == [secret : RandomKey, personal : RandomKey]
Public == [public_of : RandomKey]

Email == [mailbox : People, ascii : BOOLEAN, other : BOOLEAN]
Master ==
    [argon2id : [password : Nat, of : People],
     salt : [context : {"salt"}, email : Email]]
    \cup [argon2id : [random : [code : Nat, of : People]],
          salt : [context : {"recovery"}]]
Derived == [master : Master, info : {"auth", "wrap"}]
Hash == [hash_of : Derived]
Sealed == [key : Derived, aad : {"keys"}, plaintext : RandomKey]
Sealeds == [secret : Sealed, personal : Sealed]

BothDoors == [auth_hash : Hash, material : Sealeds,
              recovery_auth_hash : Hash, recovery_material : Sealeds]
Account == [account_public : Public, doors : BothDoors]
Request == [op : {"register", "rewrap"}, person : People,
            account_public : Public, doors : BothDoors]
Blob == [ephemeral : Public,
         sealed : [key : [shared : SUBSET RandomKey, ephemeral : Public,
                          recipient : Public],
                   aad : {"box"}, plaintext : RandomKey]]
ShareRow == [owner : People, blob : Blob]
Row == [id : Ids, group_id : Groups \cup {None}, key_ref : Groups \cup {None},
        updated_at : Int, device_id : Devices, seq : Nat,
        sealed : [key : RandomKey, aad : Ids \X Int \X Devices, plaintext : {"payload"}]]
Handler == [env : Row, account : People, at : {"write?", "owner?", "put"}]

ASSUME NoneIsNoTerm ==
    /\ None \notin Account /\ None \notin KeyPair /\ None \notin Public
    /\ None \notin ShareRow /\ None \notin Row /\ None \notin RandomKey /\ None \notin Handler
    /\ Failed \notin RandomKey

TypeOK ==
    /\ accounts \in [People -> Account \cup {None}]
    /\ shares \in [Groups \X People -> ShareRow \cup {None}]
    /\ rows \in [People \X Ids -> Row \cup {None}]
    /\ last \in Nat
    /\ wire \subseteq Request
    /\ memory \in [Devices -> KeyPair \cup {None}]
    /\ looked \in [Devices -> [People -> Public \cup {None}]]
    /\ ring \in [Devices -> [Groups -> RandomKey \cup {None}]]
    /\ pushing \in [Devices -> Handler \cup {None}]
    /\ groupKey \in [Groups -> RandomKey \cup {None}]
    /\ chosen \in [People -> Nat] /\ wraps \in Nat

(***************************************************************************)
(* Of the passwords and codes a person chose, one pair is accepted, and    *)
(* opens the account's own keys: "interchangeable doors" (api.rs,          *)
(* RegisterRequest), whichever registrations and rewraps were lost, late   *)
(* or answered with an error, and however address and code are typed.      *)
(***************************************************************************)
DoorsOpen ==
    \A p \in People : accounts[p] # None =>
        \E n \in 0..chosen[p] - 1 : \A keys, others \in Answers(p, n) :
            /\ keys # None /\ keys = others
            /\ PublicKey(keys.secret) = accounts[p].account_public
            /\ keys.personal # Failed

\* p is answered the key of a row: its own, or with a share of the key's group.
KeyIsAnswered(p, k) ==
    IF rows[k].key_ref = None THEN k[1] = p ELSE p \in Members(rows[k].key_ref)

(***************************************************************************)
(* Whatever the server still accepts is enough for a new device: what it   *)
(* pulls opens with the keys it is answered, sealed by whichever device,   *)
(* under whatever password, however shared and wherever the three awaits   *)
(* of its push filed it (routes/auth.rs, rewrap; routes/sync.rs, push).    *)
(* Where the server has no key to answer, of a group that is not shared    *)
(* with p or of another account, nothing is claimed.                       *)
(***************************************************************************)
NewDeviceReads ==
    \A p \in People : \A n \in 0..chosen[p] - 1 : \A keys \in Obtained(p, n) :
        \A k \in Pulled(p) : KeyIsAnswered(p, k) => OpenRow(p, keys, rows[k]) = "payload"

-----------------------------------------------------------------------------
\* The invariant they rest on: whose keys every stored or sent term holds.

KeysIn(body) == [secret   |-> body.doors.material.secret.plaintext,
                 personal |-> body.doors.material.personal.plaintext]

KeysOf(p) == KeysIn(accounts[p])

\* One pair of keys under both doors, which p can open.
SealedBy(p, body) ==
    /\ body.account_public = PublicKey(KeysIn(body).secret)
    /\ \E n \in 0..chosen[p] - 1, email \in Spellings(p) :
          body.doors = Doors(p, n, email, KeysIn(body))

AccountsSound ==
    \A p \in People : accounts[p] # None => SealedBy(p, accounts[p])

RequestsSound ==
    \A m \in wire :
        /\ SealedBy(m.person, m)
        /\ m.op = "rewrap" =>
              accounts[m.person] # None /\ KeysIn(m) = KeysOf(m.person)

DevicesSound ==
    \A d \in Devices :
        /\ memory[d] # None =>
              accounts[PersonOf[d]] # None /\ memory[d] = KeysOf(PersonOf[d])
        /\ \A q \in People : looked[d][q] # None =>
              accounts[q] # None /\ looked[d][q] = accounts[q].account_public

RingsSound ==
    \A d \in Devices, g \in Groups : ring[d][g] # None => ring[d][g] = groupKey[g]

SharesSound ==
    \A g \in Groups, q \in People : shares[<<g, q>>] # None =>
        /\ q # shares[<<g, q>>].owner /\ accounts[q] # None /\ groupKey[g] # None
        /\ UnwrapWith(KeysOf(q).secret, shares[<<g, q>>].blob) = groupKey[g]

\* Under p's account: p's own key, or that of the group the row names.
SealedUnder(p, env) ==
    /\ env.sealed.aad = Aad(env)
    /\ IF env.key_ref = None
       THEN accounts[p] # None /\ env.sealed.key = KeysOf(p).personal
       ELSE groupKey[env.key_ref] # None /\ env.sealed.key = groupKey[env.key_ref]

PushesSound ==
    \A d \in Devices : pushing[d] # None =>
        /\ SealedUnder(pushing[d].account, pushing[d].env)
        /\ pushing[d].at # "put" => pushing[d].env.key_ref # None

RowsSound == \A k \in People \X Ids : rows[k] # None => SealedUnder(k[1], rows[k])

IInv == /\ TypeOK /\ AccountsSound /\ RequestsSound /\ DevicesSound
        /\ RingsSound /\ SharesSound /\ PushesSound /\ RowsSound
=============================================================================
