--------------------------- MODULE KeyVaultProofs ---------------------------
(***************************************************************************)
(* Any people, devices and groups, and any number of registrations,        *)
(* rewraps, shares and pushes.                                             *)
(***************************************************************************)
EXTENDS KeyVault, TLAPS

-----------------------------------------------------------------------------
\* The crypto: what was sealed opens, under the key it was sealed with.

(***************************************************************************)
(* An authKey determines its wrapKey: both come from one master (crypto.rs,*)
(* derive_account_keys and derive_recovery_keys).                          *)
(***************************************************************************)
LEMMA OneMaster ==
    ASSUME NEW m1, NEW m2,
           VerifyAuthKey(SplitMaster(m1).auth, HashAuthKey(SplitMaster(m2).auth))
    PROVE  SplitMaster(m1) = SplitMaster(m2)
<1>1. SplitMaster(m1).auth = SplitMaster(m2).auth
  BY DEF VerifyAuthKey, HashAuthKey
<1>2. m1 = m2
  BY <1>1 DEF SplitMaster, Subkey
<1> QED BY <1>2

(***************************************************************************)
(* Key material opens under the key that sealed it (seal, open).           *)
(***************************************************************************)
LEMMA MaterialOpens ==
    ASSUME NEW wrap, NEW keys \in KeyPair
    PROVE  Unlock(wrap, Material(wrap, keys)) = keys
<1>1. Unlock(wrap, Material(wrap, keys))
        = [secret |-> keys.secret, personal |-> keys.personal]
  BY DEF Unlock, Material, Seal, Open
<1> QED BY <1>1 DEF KeyPair

(***************************************************************************)
(* The recipient unwraps what was wrapped for its public key (wrap_for,    *)
(* unwrap_with): both sides agree on the exchange and on the salt.         *)
(***************************************************************************)
LEMMA WrapOpens ==
    ASSUME NEW secret, NEW key, NEW ephemeral
    PROVE  UnwrapWith(secret, WrapFor(PublicKey(secret), key, ephemeral)) = key
<1>1. DiffieHellman(ephemeral, PublicKey(secret)) = DiffieHellman(secret, PublicKey(ephemeral))
  BY DEF DiffieHellman, PublicKey
<1> QED BY <1>1 DEF UnwrapWith, WrapFor, Open, Seal

(***************************************************************************)
(* A wrapped group key has the shape the shares table holds.               *)
(***************************************************************************)
LEMMA WrapType ==
    ASSUME NEW public \in Public, NEW key \in RandomKey, NEW ephemeral \in RandomKey
    PROVE  WrapFor(public, key, ephemeral) \in Blob
<1>1. PublicKey(ephemeral) \in Public
  BY DEF PublicKey, Public
<1>2. DiffieHellman(ephemeral, public) \in SUBSET RandomKey
  BY DEF DiffieHellman, Public
<1> QED BY <1>1, <1>2 DEF WrapFor, BoxKey, Seal, Blob

(***************************************************************************)
(* What a registration or a rewrap sends has the shape of the row.         *)
(***************************************************************************)
LEMMA DoorsType ==
    ASSUME NEW p \in People, NEW n \in Nat, NEW email \in Spellings(p), NEW keys \in KeyPair
    PROVE  /\ Doors(p, n, email, keys) \in BothDoors
           /\ KeysIn([doors |-> Doors(p, n, email, keys)]) = keys
<1>1. email \in Email
  BY DEF Spellings, Email
<1>2. DeriveMaster(Password(p, n), email) \in Master
  BY <1>1 DEF DeriveMaster, Argon2id, Password, ToAsciiLowercase, Master, Email
<1>3. Argon2id(Normalised(Code(p, n)), [context |-> "recovery"]) \in Master
  BY DEF Argon2id, Normalised, Code, RecoveryCode, Random, Master
<1>4. ASSUME NEW m \in Master
      PROVE  /\ SplitMaster(m).auth \in Derived /\ SplitMaster(m).wrap \in Derived
             /\ HashAuthKey(SplitMaster(m).auth) \in Hash
             /\ Material(SplitMaster(m).wrap, keys) \in Sealeds
  <2>1. SplitMaster(m).auth \in Derived /\ SplitMaster(m).wrap \in Derived
    BY DEF SplitMaster, Subkey, Derived
  <2>2. HashAuthKey(SplitMaster(m).auth) \in Hash
    BY <2>1 DEF HashAuthKey, Hash
  <2>3. Material(SplitMaster(m).wrap, keys) \in Sealeds
    BY <2>1 DEF Material, Seal, Sealeds, Sealed, KeyPair
  <2> QED BY <2>1, <2>2, <2>3
<1>5. Doors(p, n, email, keys) \in BothDoors
  BY <1>2, <1>3, <1>4 DEF Doors, DeriveAccountKeys, DeriveRecoveryKeys, BothDoors
<1>6. KeysIn([doors |-> Doors(p, n, email, keys)])
        = [secret |-> keys.secret, personal |-> keys.personal]
  BY DEF KeysIn, Doors, Material, Seal
<1> QED BY <1>5, <1>6 DEF KeyPair

(***************************************************************************)
(* The keys in a row or request of the right shape are a pair of keys.     *)
(***************************************************************************)
LEMMA KeysInType ==
    ASSUME NEW body, body.doors \in BothDoors
    PROVE  KeysIn(body) \in KeyPair
BY DEF KeysIn, BothDoors, Sealeds, Sealed, KeyPair

-----------------------------------------------------------------------------
(***************************************************************************)
(* A sign-in the server accepts opens the account's own keys, through      *)
(* either door (routes/auth.rs, login and recover).                        *)
(***************************************************************************)
LEMMA AcceptedOpens ==
    ASSUME TypeOK, AccountsSound, NEW p \in People, NEW n,
           NEW keys \in Obtained(p, n)
    PROVE  accounts[p] # None /\ keys = KeysOf(p)
<1>1. accounts[p] # None
  BY DEF Obtained, Answers, Login, Recover
<1>2. KeysOf(p) \in KeyPair
  BY <1>1, KeysInType DEF TypeOK, Account, KeysOf
<1>3. PICK n0 \in 0..chosen[p] - 1, email0 \in Spellings(p) :
            accounts[p].doors = Doors(p, n0, email0, KeysOf(p))
  BY <1>1 DEF AccountsSound, SealedBy, KeysOf
<1> DEFINE master0 == DeriveMaster(Password(p, n0), email0)
           spare0 == Argon2id(Normalised(Code(p, n0)), [context |-> "recovery"])
<1>4. /\ accounts[p].doors.auth_hash = HashAuthKey(SplitMaster(master0).auth)
      /\ accounts[p].doors.material = Material(SplitMaster(master0).wrap, KeysOf(p))
      /\ accounts[p].doors.recovery_auth_hash = HashAuthKey(SplitMaster(spare0).auth)
      /\ accounts[p].doors.recovery_material = Material(SplitMaster(spare0).wrap, KeysOf(p))
  BY <1>3 DEF Doors, DeriveAccountKeys, DeriveRecoveryKeys
<1> HIDE DEF master0, spare0
<1>5. CASE \E email \in Spellings(p) :
              keys = Login(p, DeriveAccountKeys(Password(p, n), email))
  <2>1. PICK email \in Spellings(p) :
            keys = Login(p, SplitMaster(DeriveMaster(Password(p, n), email)))
    BY <1>5 DEF DeriveAccountKeys
  <2> DEFINE derived == SplitMaster(DeriveMaster(Password(p, n), email))
  <2>2. VerifyAuthKey(derived.auth, accounts[p].doors.auth_hash)
    BY <2>1 DEF Obtained, Login
  <2>3. derived = SplitMaster(master0)
    BY <2>2, <1>4, OneMaster
  <2> HIDE DEF derived
  <2>4. keys = Unlock(derived.wrap, accounts[p].doors.material)
    BY <1>1, <2>1, <2>2 DEF Login, derived
  <2> QED BY <1>1, <1>2, <1>4, <2>3, <2>4, MaterialOpens
<1>6. CASE \E code \in Retypings([code |-> n, of |-> p]) :
              keys = Recover(p, DeriveRecoveryKeys(code))
  <2>1. PICK code \in Retypings([code |-> n, of |-> p]) :
            keys = Recover(p, DeriveRecoveryKeys(code))
    BY <1>6
  <2> DEFINE spare == Argon2id(Normalised(code), [context |-> "recovery"])
             derived == SplitMaster(spare)
  <2>2. keys = Recover(p, derived)
    BY <2>1 DEF DeriveRecoveryKeys
  <2>3. VerifyAuthKey(derived.auth, accounts[p].doors.recovery_auth_hash)
    BY <2>2 DEF Obtained, Recover
  <2>4. derived = SplitMaster(spare0)
    BY <2>3, <1>4, OneMaster
  <2> HIDE DEF derived
  <2>5. keys = Unlock(derived.wrap, accounts[p].doors.recovery_material)
    BY <1>1, <2>2, <2>3 DEF Recover
  <2> QED BY <1>1, <1>2, <1>4, <2>4, <2>5, MaterialOpens
<1> QED BY <1>5, <1>6 DEF Obtained, Answers

(***************************************************************************)
(* Whoever is answered a row and its key opens the row with it.            *)
(***************************************************************************)
LEMMA ReadersOpen ==
    ASSUME IInv, NEW p \in People, accounts[p] # None, NEW k \in Pulled(p),
           KeyIsAnswered(p, k)
    PROVE  OpenRow(p, KeysOf(p), rows[k]) = "payload"
<1> DEFINE row == rows[k]
<1>1. k \in People \X Ids /\ k[1] \in People /\ row # None
  BY DEF Pulled
<1>2. row \in Row /\ row.sealed.plaintext = "payload" /\ SealedUnder(k[1], row)
  BY <1>1 DEF IInv, TypeOK, RowsSound, Row
<1>3. row.sealed.key = ContentKey(p, KeysOf(p), row.key_ref)
  <2>1. CASE row.key_ref = None
    <3>1. k[1] = p
      BY <2>1 DEF KeyIsAnswered
    <3> QED BY <1>2, <2>1, <3>1 DEF SealedUnder, ContentKey
  <2>2. CASE row.key_ref # None
    <3> DEFINE g == row.key_ref
    <3>1. g \in Groups /\ row.sealed.key = groupKey[g]
      BY <1>2, <2>2 DEF SealedUnder, Row
    <3>2. shares[<<g, p>>] # None
      BY <2>2 DEF KeyIsAnswered, Members
    <3>3. UnwrapWith(KeysOf(p).secret, shares[<<g, p>>].blob) = groupKey[g]
      BY <3>1, <3>2 DEF IInv, SharesSound
    <3> QED BY <2>2, <3>1, <3>3 DEF ContentKey
  <2> QED BY <2>1, <2>2
<1>4. row.sealed.aad = Aad(row)
  BY <1>2 DEF SealedUnder
<1> QED BY <1>2, <1>3, <1>4 DEF OpenRow, Open

-----------------------------------------------------------------------------
(***************************************************************************)
(* The initial state: nobody has an account.                               *)
(***************************************************************************)
LEMMA InitFact == Init => IInv
<1> SUFFICES ASSUME Init PROVE IInv
  OBVIOUS
<1>1. TypeOK
  BY DEF Init, TypeOK
<1>2. AccountsSound /\ RequestsSound /\ DevicesSound
  BY DEF Init, AccountsSound, RequestsSound, DevicesSound
<1>3. RingsSound /\ SharesSound /\ PushesSound /\ RowsSound
  BY DEF Init, RingsSound, SharesSound, PushesSound, RowsSound
<1> QED BY <1>1, <1>2, <1>3 DEF IInv

(***************************************************************************)
(* Accounts keep their keys and groups theirs, and so what is sealed under *)
(* them.                                                                   *)
(***************************************************************************)
LEMMA SealedStays ==
    ASSUME NEW p \in People, NEW env \in Row, SealedUnder(p, env),
           \A q \in People : accounts[q] # None =>
              accounts'[q] # None /\ KeysOf(q)' = KeysOf(q),
           \A g \in Groups : groupKey[g] # None => groupKey'[g] = groupKey[g]
    PROVE  SealedUnder(p, env)'
<1>1. env.key_ref \in Groups \cup {None} /\ Aad(env)' = Aad(env)
  BY DEF Row, Aad
<1>2. CASE env.key_ref = None
  BY <1>1, <1>2 DEF SealedUnder
<1>3. CASE env.key_ref # None
  BY <1>1, <1>3 DEF SealedUnder
<1> QED BY <1>2, <1>3

(***************************************************************************)
(* The table and the pushes under way stay sound with them.                *)
(***************************************************************************)
LEMMA RecordsStay ==
    ASSUME IInv,
           UNCHANGED <<rows, pushing>>,
           \A q \in People : accounts[q] # None =>
              accounts'[q] # None /\ KeysOf(q)' = KeysOf(q),
           \A g \in Groups : groupKey[g] # None => groupKey'[g] = groupKey[g]
    PROVE  PushesSound' /\ RowsSound'
<1>1. ASSUME NEW k \in People \X Ids, rows[k] # None
      PROVE  SealedUnder(k[1], rows[k])'
  <2>1. k[1] \in People /\ rows[k] \in Row /\ SealedUnder(k[1], rows[k])
    BY <1>1 DEF IInv, TypeOK, RowsSound
  <2> QED BY <2>1, SealedStays
<1>2. ASSUME NEW d \in Devices, pushing[d] # None
      PROVE  SealedUnder(pushing[d].account, pushing[d].env)'
  <2>1. /\ pushing[d].account \in People /\ pushing[d].env \in Row
        /\ SealedUnder(pushing[d].account, pushing[d].env)
    BY <1>2 DEF IInv, TypeOK, PushesSound, Handler
  <2> QED BY <2>1, SealedStays
<1>3. RowsSound'
  BY <1>1 DEF RowsSound
<1>4. PushesSound'
  BY <1>2 DEF IInv, PushesSound
<1> QED BY <1>3, <1>4

(***************************************************************************)
(* What is sound stays so while accounts keep their keys.                  *)
(***************************************************************************)
LEMMA KeysStay ==
    ASSUME IInv,
           UNCHANGED <<shares, rows, memory, looked, ring, pushing, groupKey>>,
           \A p \in People : accounts[p] # None =>
              /\ accounts'[p] # None /\ KeysOf(p)' = KeysOf(p)
              /\ accounts'[p].account_public = accounts[p].account_public
    PROVE  DevicesSound' /\ RingsSound' /\ SharesSound' /\ PushesSound' /\ RowsSound'
<1>1. DevicesSound'
  BY KeyVaultAssumption DEF IInv, DevicesSound
<1>2. RingsSound' /\ SharesSound'
  BY DEF IInv, RingsSound, SharesSound
<1>3. PushesSound' /\ RowsSound'
  BY RecordsStay
<1> QED BY <1>1, <1>2, <1>3

(***************************************************************************)
(* A body that p can open stays so when p chooses another password.        *)
(***************************************************************************)
LEMMA StaysSealed ==
    ASSUME TypeOK, NEW p \in People, NEW body, SealedBy(p, body),
           chosen'[p] \in {chosen[p], chosen[p] + 1}
    PROVE  SealedBy(p, body)'
<1>1. chosen[p] \in Nat
  BY DEF TypeOK
<1>2. \A n \in 0..chosen[p] - 1 : n \in 0..chosen'[p] - 1
  BY <1>1
<1> QED BY <1>2 DEF SealedBy, KeysIn, Doors, Spellings

(***************************************************************************)
(* Any person may choose another password: rows and requests stay sound.   *)
(***************************************************************************)
LEMMA ChoosingKeeps ==
    ASSUME IInv, NEW p \in People, chosen' = [chosen EXCEPT ![p] = @ + 1],
           UNCHANGED accounts
    PROVE  /\ AccountsSound'
           /\ \A m \in wire :
                 /\ SealedBy(m.person, m)'
                 /\ m.op = "rewrap" =>
                      (accounts[m.person] # None /\ KeysIn(m) = KeysOf(m.person))'
<1>1. \A q \in People : chosen'[q] \in {chosen[q], chosen[q] + 1}
  BY DEF IInv, TypeOK
<1>2. AccountsSound'
  BY <1>1, StaysSealed DEF IInv, AccountsSound
<1>3. ASSUME NEW m \in wire
      PROVE  /\ SealedBy(m.person, m)'
             /\ m.op = "rewrap" =>
                  (accounts[m.person] # None /\ KeysIn(m) = KeysOf(m.person))'
  <2>1. m.person \in People /\ SealedBy(m.person, m)
    BY DEF IInv, TypeOK, RequestsSound, Request
  <2>2. SealedBy(m.person, m)'
    BY <1>1, <2>1, StaysSealed DEF IInv
  <2>3. m.op = "rewrap" =>
          (accounts[m.person] # None /\ KeysIn(m) = KeysOf(m.person))'
    BY DEF IInv, RequestsSound, KeysOf, KeysIn
  <2> QED BY <2>2, <2>3
<1> QED BY <1>2, <1>3

(***************************************************************************)
(* A request for keys that a device has is sound.                          *)
(***************************************************************************)
LEMMA NewRequest ==
    ASSUME TypeOK, NEW op \in {"register", "rewrap"}, NEW p \in People, NEW n,
           NEW email \in Spellings(p), NEW keys \in KeyPair, NEW m,
           n = chosen[p], chosen' = [chosen EXCEPT ![p] = @ + 1],
           m = RequestOf(op, p, n, email, keys)
    PROVE  m \in Request /\ SealedBy(p, m)'
<1>1. n \in Nat /\ chosen'[p] = n + 1
  BY DEF TypeOK
<1>2. /\ Doors(p, n, email, keys) \in BothDoors
      /\ KeysIn([doors |-> Doors(p, n, email, keys)]) = keys
  BY <1>1, DoorsType
<1>3. PublicKey(keys.secret) \in Public
  BY DEF PublicKey, Public, KeyPair
<1>4. m \in Request /\ KeysIn(m) = keys
  BY <1>2, <1>3 DEF Request, RequestOf, KeysIn
<1>5. n \in 0..chosen'[p] - 1
  BY <1>1
<1>6. m.doors = Doors(p, n, email, KeysIn(m))
  BY <1>4 DEF RequestOf
<1>7. m.account_public = PublicKey(KeysIn(m).secret)
  BY <1>4 DEF RequestOf
<1>8. \E i \in 0..chosen'[p] - 1, e \in Spellings(p) : m.doors = Doors(p, i, e, KeysIn(m))
  BY <1>5, <1>6
<1> QED BY <1>4, <1>7, <1>8 DEF SealedBy

(***************************************************************************)
(* A device asks for a new account.                                        *)
(***************************************************************************)
LEMMA SendRegisterStep ==
    ASSUME IInv, NEW d \in Devices, SendRegister(d)
    PROVE  IInv'
<1>1. PICK p \in People, keys \in KeyPair :
          /\ p = PersonOf[d]
          /\ keys = [secret   |-> Random([secret_of |-> p, nth |-> chosen[p]]),
                     personal |-> Random([personal_of |-> p, nth |-> chosen[p]])]
  <2>1. PersonOf[d] \in People
    BY KeyVaultAssumption
  <2>2. chosen[PersonOf[d]] \in Nat
    BY <2>1 DEF IInv, TypeOK
  <2>3. /\ Random([secret_of |-> PersonOf[d], nth |-> chosen[PersonOf[d]]]) \in RandomKey
        /\ Random([personal_of |-> PersonOf[d], nth |-> chosen[PersonOf[d]]]) \in RandomKey
    BY <2>1, <2>2 DEF RandomKey, Random
  <2>4. [secret   |-> Random([secret_of |-> PersonOf[d], nth |-> chosen[PersonOf[d]]]),
         personal |-> Random([personal_of |-> PersonOf[d], nth |-> chosen[PersonOf[d]]])]
           \in KeyPair
    BY <2>3 DEF KeyPair
  <2> QED BY <2>1, <2>4, Zenon
<1>2. PICK email, n, m :
          /\ email \in Spellings(p) /\ n = chosen[p]
          /\ m = RequestOf("register", p, n, email, keys)
          /\ wire' = wire \cup {m}
  BY <1>1 DEF SendRegister
<1>3. /\ chosen' = [chosen EXCEPT ![p] = @ + 1]
      /\ UNCHANGED <<accounts, shares, rows, last, memory, looked, ring, pushing, groupKey,
                      wraps>>
  BY <1>1 DEF SendRegister, serverVars, deviceVars
<1>4. m \in Request /\ SealedBy(p, m)'
  <2>1. TypeOK /\ "register" \in {"register", "rewrap"}
    BY DEF IInv
  <2> QED BY <1>2, <1>3, <2>1, NewRequest
<1>5. m.person = p /\ m.op # "rewrap"
  BY <1>2 DEF RequestOf
<1>6. TypeOK'
  BY <1>2, <1>3, <1>4 DEF IInv, TypeOK
<1>7. AccountsSound' /\ RequestsSound'
  <2>1. UNCHANGED accounts
    BY <1>3
  <2>2. /\ AccountsSound'
        /\ \A w \in wire :
              /\ SealedBy(w.person, w)'
              /\ w.op = "rewrap" =>
                   (accounts[w.person] # None /\ KeysIn(w) = KeysOf(w.person))'
    BY <1>3, <2>1, ChoosingKeeps, Zenon
  <2>3. wire' = wire \cup {m}
    BY <1>2
  <2> QED BY <1>4, <1>5, <2>2, <2>3 DEF RequestsSound
<1>8. DevicesSound' /\ RingsSound' /\ SharesSound' /\ PushesSound' /\ RowsSound'
  BY <1>3, KeysStay DEF KeysOf, KeysIn
<1> QED BY <1>6, <1>7, <1>8 DEF IInv

(***************************************************************************)
(* A device asks for a new password.                                       *)
(***************************************************************************)
LEMMA SendRewrapStep ==
    ASSUME IInv, NEW d \in Devices, SendRewrap(d)
    PROVE  IInv'
<1>1. PICK p \in People, keys \in KeyPair :
          /\ p = PersonOf[d] /\ keys = memory[d]
          /\ accounts[p] # None /\ keys = KeysOf(p)
  BY KeyVaultAssumption DEF IInv, TypeOK, DevicesSound, SendRewrap
<1>2. PICK email, n, m :
          /\ email \in Spellings(p) /\ n = chosen[p]
          /\ m = RequestOf("rewrap", p, n, email, keys)
          /\ wire' = wire \cup {m}
  BY <1>1 DEF SendRewrap
<1>3. /\ chosen' = [chosen EXCEPT ![p] = @ + 1]
      /\ UNCHANGED <<accounts, shares, rows, last, memory, looked, ring, pushing, groupKey,
                      wraps>>
  BY <1>1 DEF SendRewrap, serverVars, deviceVars
<1>4. m \in Request /\ KeysIn(m) = keys /\ SealedBy(p, m)'
  <2>1. TypeOK
    BY DEF IInv
  <2>2. "rewrap" \in {"register", "rewrap"}
    OBVIOUS
  <2>3. chosen' = [chosen EXCEPT ![p] = @ + 1]
    BY <1>3
  <2>4. /\ email \in Spellings(p) /\ n = chosen[p]
        /\ m = RequestOf("rewrap", p, n, email, keys)
    BY <1>2
  <2>5. m \in Request
    BY <2>1, <2>2, <2>3, <2>4, NewRequest
  <2>6. KeysIn(m) = keys
    <3>1. KeysIn(m) = [secret |-> keys.secret, personal |-> keys.personal]
      BY <2>4 DEF RequestOf, KeysIn, Doors, Material, Seal
    <3> QED BY <3>1 DEF KeyPair
  <2>7. SealedBy(p, m)'
    BY <2>1, <2>2, <2>3, <2>4, NewRequest
  <2> QED BY <2>5, <2>6, <2>7
<1>5. m.person = p
  BY <1>2 DEF RequestOf
<1>6. TypeOK'
  BY <1>2, <1>3, <1>4 DEF IInv, TypeOK
<1>7. (accounts[p] # None /\ KeysIn(m) = KeysOf(p))'
  BY <1>1, <1>3, <1>4 DEF KeysOf, KeysIn
<1>8. AccountsSound' /\ RequestsSound'
  <2>1. UNCHANGED accounts
    BY <1>3
  <2>2. /\ AccountsSound'
        /\ \A w \in wire :
              /\ SealedBy(w.person, w)'
              /\ w.op = "rewrap" =>
                   (accounts[w.person] # None /\ KeysIn(w) = KeysOf(w.person))'
    BY <1>3, <2>1, ChoosingKeeps, Zenon
  <2>3. wire' = wire \cup {m}
    BY <1>2
  <2> QED BY <1>4, <1>5, <1>7, <2>2, <2>3 DEF RequestsSound
<1>9. DevicesSound' /\ RingsSound' /\ SharesSound' /\ PushesSound' /\ RowsSound'
  BY <1>3, KeysStay DEF KeysOf, KeysIn
<1> QED BY <1>6, <1>8, <1>9 DEF IInv

(***************************************************************************)
(* A request that was served or lost is one less.                          *)
(***************************************************************************)
LEMMA RequestsKept ==
    ASSUME IInv, wire' \subseteq wire, UNCHANGED chosen,
           \A p \in People : accounts[p] # None =>
              accounts'[p] # None /\ KeysOf(p)' = KeysOf(p)
    PROVE  RequestsSound'
BY DEF IInv, TypeOK, Request, RequestsSound, SealedBy, KeysIn

(***************************************************************************)
(* register writes a row that its person can open, or none.                *)
(***************************************************************************)
LEMMA CreateAccountStep ==
    ASSUME IInv, NEW m \in wire, CreateAccount(m)
    PROVE  IInv'
<1> DEFINE new == [account_public |-> m.account_public, doors |-> m.doors]
<1>1. /\ m \in Request /\ m.person \in People /\ SealedBy(m.person, m)
      /\ wire' = wire \ {m} /\ TypeOK
      /\ UNCHANGED <<shares, rows, last, memory, looked, ring, pushing, groupKey, chosen, wraps>>
      /\ accounts' = IF accounts[m.person] # None THEN accounts
                     ELSE [accounts EXCEPT ![m.person] = new]
  BY DEF IInv, TypeOK, RequestsSound, Request, CreateAccount, deviceVars
<1>2. new \in Account /\ new # None
  BY <1>1, NoneIsNoTerm DEF Request, Account
<1>3. SealedBy(m.person, new)
  BY <1>1 DEF SealedBy, KeysIn
<1> HIDE DEF new
<1>4. \A p \in People : accounts[p] # None => accounts'[p] = accounts[p]
  BY <1>1 DEF TypeOK
<1>5. \A p \in People : accounts'[p] = accounts[p]
                         \/ (p = m.person /\ accounts'[p] = new)
  BY <1>1 DEF TypeOK
<1>6. TypeOK'
  BY <1>1, <1>2 DEF TypeOK
<1>7. AccountsSound'
  BY <1>1, <1>3, <1>5 DEF IInv, AccountsSound, SealedBy
<1>8. RequestsSound'
  BY <1>1, <1>4, RequestsKept DEF KeysOf, KeysIn
<1>9. DevicesSound' /\ RingsSound' /\ SharesSound' /\ PushesSound' /\ RowsSound'
  BY <1>1, <1>4, KeysStay DEF KeysOf, KeysIn
<1> QED BY <1>6, <1>7, <1>8, <1>9 DEF IInv

(***************************************************************************)
(* rewrap puts other locks on the keys the account has.                    *)
(***************************************************************************)
LEMMA RewrapStep ==
    ASSUME IInv, NEW m \in wire, RewrapAccount(m)
    PROVE  IInv'
<1> DEFINE p == m.person
           new == [accounts[p] EXCEPT !.doors = m.doors]
<1>1. /\ m \in Request /\ p \in People /\ SealedBy(p, m) /\ accounts[p] # None
      /\ accounts[p] \in Account /\ KeysIn(m) = KeysOf(p)
      /\ wire' = wire \ {m} /\ TypeOK /\ SealedBy(p, accounts[p])
      /\ UNCHANGED <<shares, rows, last, memory, looked, ring, pushing, groupKey, chosen, wraps>>
      /\ accounts' = [accounts EXCEPT ![p] = new]
  BY DEF IInv, TypeOK, RequestsSound, AccountsSound, Request, RewrapAccount, deviceVars
<1>2. new \in Account /\ new # None /\ new.doors = m.doors
      /\ new.account_public = accounts[p].account_public
  BY <1>1, NoneIsNoTerm DEF Request, Account
<1>3. KeysIn(new) = KeysOf(p)
  BY <1>1, <1>2 DEF KeysIn
<1>4. SealedBy(p, new)
  BY <1>1, <1>2, <1>3 DEF SealedBy, KeysOf
<1> HIDE DEF new, p
<1>5. \A q \in People : accounts[q] # None =>
          /\ accounts'[q] # None /\ KeysIn(accounts'[q]) = KeysIn(accounts[q])
          /\ accounts'[q].account_public = accounts[q].account_public
  BY <1>1, <1>2, <1>3 DEF TypeOK, KeysOf
<1>6. \A q \in People : accounts'[q] = accounts[q] \/ (q = p /\ accounts'[q] = new)
  BY <1>1 DEF TypeOK
<1>7. TypeOK'
  BY <1>1, <1>2 DEF TypeOK
<1>8. AccountsSound'
  BY <1>1, <1>4, <1>6 DEF IInv, AccountsSound, SealedBy
<1>9. \A q \in People : accounts[q] # None => KeysOf(q)' = KeysOf(q)
  BY <1>5 DEF KeysOf, KeysIn
<1>10. RequestsSound'
  BY <1>1, <1>5, <1>9, RequestsKept
<1>11. DevicesSound' /\ RingsSound' /\ SharesSound' /\ PushesSound' /\ RowsSound'
  BY <1>1, <1>5, <1>9, KeysStay
<1> QED BY <1>7, <1>8, <1>10, <1>11 DEF IInv

(***************************************************************************)
(* A request is lost.                                                      *)
(***************************************************************************)
LEMMA LoseStep ==
    ASSUME IInv, NEW m \in wire, Lose(m)
    PROVE  IInv'
<1>1. /\ wire' = wire \ {m}
      /\ UNCHANGED <<accounts, shares, rows, last, memory, looked, ring, pushing, groupKey, chosen, wraps>>
  BY DEF Lose, serverVars, deviceVars
<1>2. TypeOK'
  BY <1>1 DEF IInv, TypeOK
<1>3. AccountsSound'
  BY <1>1 DEF IInv, AccountsSound, SealedBy
<1>4. RequestsSound'
  BY <1>1, RequestsKept DEF KeysOf, KeysIn
<1>5. DevicesSound' /\ RingsSound' /\ SharesSound' /\ PushesSound' /\ RowsSound'
  BY <1>1, KeysStay DEF KeysOf, KeysIn
<1> QED BY <1>2, <1>3, <1>4, <1>5 DEF IInv

(***************************************************************************)
(* A step of a device alone writes no account.                             *)
(***************************************************************************)
LEMMA AccountsStay ==
    ASSUME IInv, UNCHANGED <<accounts, wire, chosen>>
    PROVE  /\ AccountsSound' /\ RequestsSound'
           /\ \A p \in People : KeysOf(p)' = KeysOf(p)
<1>1. AccountsSound'
  BY DEF IInv, AccountsSound, SealedBy
<1>2. \A p \in People : KeysOf(p)' = KeysOf(p)
  BY DEF KeysOf, KeysIn
<1>3. RequestsSound'
  BY <1>2, RequestsKept
<1> QED BY <1>1, <1>2, <1>3

(***************************************************************************)
(* A device gets its account's keys, or forgets them.                      *)
(***************************************************************************)
LEMMA MemoryStep ==
    ASSUME IInv, NEW d \in Devices, SignIn(d) \/ Forget(d)
    PROVE  IInv'
<1>1. /\ PersonOf[d] \in People /\ TypeOK /\ AccountsSound
      /\ UNCHANGED <<accounts, shares, rows, last, wire, pushing, groupKey, chosen, wraps>>
  BY KeyVaultAssumption DEF IInv, SignIn, Forget, serverVars
<1>2. \/ memory' = [memory EXCEPT ![d] = None]
      \/ /\ memory' = [memory EXCEPT ![d] = KeysOf(PersonOf[d])]
         /\ accounts[PersonOf[d]] # None
  <2>1. CASE SignIn(d)
    <3>1. PICK n \in 0..chosen[PersonOf[d]] - 1 :
              \E keys \in Obtained(PersonOf[d], n) :
                 memory' = [memory EXCEPT ![d] = keys]
      BY <2>1 DEF SignIn
    <3>2. PICK keys \in Obtained(PersonOf[d], n) :
              memory' = [memory EXCEPT ![d] = keys]
      BY <3>1
    <3>3. accounts[PersonOf[d]] # None /\ keys = KeysOf(PersonOf[d])
      BY <1>1, AcceptedOpens
    <3> QED BY <3>2, <3>3
  <2>2. CASE Forget(d)
    BY <2>2 DEF Forget
  <2> QED BY <2>1, <2>2
<1>3. \/ looked' = looked
      \/ looked' = [looked EXCEPT ![d] = [q \in People |-> None]]
  BY DEF SignIn, Forget
<1>4. \/ ring' = ring
      \/ ring' = [ring EXCEPT ![d] = [g \in Groups |-> None]]
  BY DEF SignIn, Forget
<1>5. accounts[PersonOf[d]] # None => KeysOf(PersonOf[d]) \in KeyPair
  BY <1>1, KeysInType DEF TypeOK, Account, KeysOf
<1>6. TypeOK'
  <2>1. memory' \in [Devices -> KeyPair \cup {None}]
    BY <1>1, <1>2, <1>5 DEF TypeOK
  <2>2. looked' \in [Devices -> [People -> Public \cup {None}]]
    <3>1. [q \in People |-> None] \in [People -> Public \cup {None}]
      OBVIOUS
    <3>2. looked \in [Devices -> [People -> Public \cup {None}]]
      BY <1>1 DEF TypeOK
    <3> QED BY <1>3, <3>1, <3>2
  <2>3. ring' \in [Devices -> [Groups -> RandomKey \cup {None}]]
    BY <1>1, <1>4 DEF TypeOK
  <2> QED BY <1>1, <2>1, <2>2, <2>3 DEF TypeOK
<1>7. AccountsSound' /\ RequestsSound' /\ \A p \in People : KeysOf(p)' = KeysOf(p)
  BY <1>1, AccountsStay
<1>8. DevicesSound'
  BY <1>1, <1>2, <1>3, <1>7, KeyVaultAssumption DEF IInv, DevicesSound, TypeOK
<1>9. RingsSound' /\ SharesSound'
  <2>1. ASSUME NEW e \in Devices, NEW g \in Groups
        PROVE  ring'[e][g] = ring[e][g] \/ ring'[e][g] = None
    <3>1. ring \in [Devices -> [Groups -> RandomKey \cup {None}]]
      BY <1>1 DEF TypeOK
    <3>2. CASE ring' = ring
      BY <3>2
    <3>3. CASE ring' = [ring EXCEPT ![d] = [h \in Groups |-> None]] /\ e = d
      BY <3>1, <3>3
    <3>4. CASE ring' = [ring EXCEPT ![d] = [h \in Groups |-> None]] /\ e # d
      BY <3>1, <3>4
    <3> QED BY <1>4, <3>2, <3>3, <3>4
  <2>2. RingsSound'
    BY <1>1, <2>1 DEF IInv, RingsSound
  <2>3. SharesSound'
    BY <1>1, <1>7 DEF IInv, SharesSound
  <2> QED BY <2>2, <2>3
<1>10. PushesSound' /\ RowsSound'
  BY <1>1, <1>7, RecordsStay
<1> QED BY <1>6, <1>7, <1>8, <1>9, <1>10 DEF IInv

(***************************************************************************)
(* lookup answers with the public key of the row.                          *)
(***************************************************************************)
LEMMA LookupStep ==
    ASSUME IInv, NEW d \in Devices, NEW q \in People, Lookup(d, q)
    PROVE  IInv'
<1>1. /\ accounts[q] # None /\ accounts[q] \in Account /\ TypeOK
      /\ looked' = [looked EXCEPT ![d][q] = accounts[q].account_public]
      /\ UNCHANGED <<accounts, shares, rows, last, wire, memory, ring, pushing,
                     groupKey, chosen, wraps>>
  BY DEF IInv, TypeOK, Lookup, serverVars
<1>2. TypeOK'
  BY <1>1 DEF TypeOK, Account
<1>3. AccountsSound' /\ RequestsSound' /\ \A p \in People : KeysOf(p)' = KeysOf(p)
  BY <1>1, AccountsStay
<1>4. DevicesSound'
  BY <1>1, <1>3, KeyVaultAssumption DEF IInv, TypeOK, DevicesSound
<1>5. RingsSound' /\ SharesSound'
  BY <1>1, <1>3 DEF IInv, RingsSound, SharesSound
<1>6. PushesSound' /\ RowsSound'
  BY <1>1, <1>3, RecordsStay
<1> QED BY <1>2, <1>3, <1>4, <1>5, <1>6 DEF IInv

(***************************************************************************)
(* A group gets its key, before anything is sealed with it.                *)
(***************************************************************************)
LEMMA DrawGroupKeyStep ==
    ASSUME IInv, NEW d \in Devices, NEW g \in Groups, DrawGroupKey(d, g)
    PROVE  IInv'
<1> DEFINE key == Random([group |-> g])
<1>1. /\ groupKey[g] = None /\ TypeOK
      /\ groupKey' = [groupKey EXCEPT ![g] = key]
      /\ ring' = [ring EXCEPT ![d][g] = key]
      /\ UNCHANGED <<accounts, shares, rows, last, wire, memory, looked, pushing,
                     chosen, wraps>>
  BY DEF IInv, DrawGroupKey, serverVars
<1>2. key \in RandomKey
  BY DEF Random, RandomKey
<1> HIDE DEF key
<1>3. TypeOK'
  BY <1>1, <1>2 DEF TypeOK
<1>4. \A h \in Groups : groupKey[h] # None => groupKey'[h] = groupKey[h]
  BY <1>1 DEF TypeOK
<1>5. AccountsSound' /\ RequestsSound' /\ \A p \in People : KeysOf(p)' = KeysOf(p)
  BY <1>1, AccountsStay
<1>6. DevicesSound'
  BY <1>1, <1>5, KeyVaultAssumption DEF IInv, DevicesSound
<1>7. RingsSound'
  <2> SUFFICES ASSUME NEW e \in Devices, NEW h \in Groups, ring'[e][h] # None
               PROVE  ring'[e][h] = groupKey'[h]
    BY DEF RingsSound
  <2>1. CASE e = d /\ h = g
    BY <1>1, <2>1 DEF TypeOK
  <2>2. CASE ~(e = d /\ h = g)
    <3>1. ring'[e][h] = ring[e][h]
      BY <1>1, <2>2 DEF TypeOK
    <3>2. ring[e][h] = groupKey[h] /\ groupKey[h] # None
      BY <3>1 DEF IInv, RingsSound
    <3> QED BY <1>4, <3>1, <3>2
  <2> QED BY <2>1, <2>2
<1>8. SharesSound'
  BY <1>1, <1>4, <1>5 DEF IInv, SharesSound
<1>9. PushesSound' /\ RowsSound'
  BY <1>1, <1>4, <1>5, RecordsStay
<1> QED BY <1>3, <1>5, <1>6, <1>7, <1>8, <1>9 DEF IInv

(***************************************************************************)
(* A share is wrapped for the key of the member's row, however long ago it *)
(* was looked up, by whoever has the group's key.                          *)
(***************************************************************************)
LEMMA ShareStep ==
    ASSUME IInv, NEW d \in Devices, NEW g \in Groups, NEW q \in People,
           Share(d, g, q) \/ Unshare(d, g, q)
    PROVE  IInv'
<1>1. /\ TypeOK /\ PersonOf[d] \in People
      /\ UNCHANGED <<accounts, rows, last, wire, memory, looked, ring, pushing,
                     groupKey, chosen>>
  BY KeyVaultAssumption DEF IInv, Share, Unshare, deviceVars
<1>2. wraps' \in Nat
  BY <1>1 DEF Share, Unshare, TypeOK
<1>3. \/ shares' = [shares EXCEPT ![<<g, q>>] = None]
      \/ \E row \in ShareRow :
            /\ shares' = [shares EXCEPT ![<<g, q>>] = row]
            /\ q # row.owner /\ accounts[q] # None /\ groupKey[g] # None
            /\ UnwrapWith(KeysOf(q).secret, row.blob) = groupKey[g]
  <2>1. CASE Share(d, g, q)
    <3> DEFINE blob == WrapFor(looked[d][q], ring[d][g], Random([throwaway |-> wraps]))
               owner == IF shares[<<g, q>>] = None THEN PersonOf[d]
                        ELSE shares[<<g, q>>].owner
               row == [owner |-> owner, blob |-> blob]
    <3>1. /\ shares' = [shares EXCEPT ![<<g, q>>] = row]
          /\ q # PersonOf[d] /\ looked[d][q] # None /\ ring[d][g] # None
      BY <2>1, <1>1 DEF Share, TypeOK
    <3>2. accounts[q] # None /\ looked[d][q] = PublicKey(KeysOf(q).secret)
      BY <3>1 DEF IInv, DevicesSound, AccountsSound, SealedBy, KeysOf
    <3>3. ring[d][g] = groupKey[g] /\ groupKey[g] # None
      BY <3>1 DEF IInv, RingsSound
    <3>4. Random([throwaway |-> wraps]) \in RandomKey
      BY <1>1 DEF TypeOK, Random, RandomKey
    <3>5. looked[d][q] \in Public /\ ring[d][g] \in RandomKey
      BY <1>1, <3>1 DEF TypeOK
    <3>6. blob \in Blob
      BY <3>4, <3>5, WrapType
    <3>7. UnwrapWith(KeysOf(q).secret, blob) = groupKey[g]
      BY <3>2, <3>3, WrapOpens
    <3>8. owner \in People /\ q # owner
      BY <1>1, <3>1 DEF TypeOK, ShareRow, IInv, SharesSound
    <3> HIDE DEF blob, owner
    <3>9. row \in ShareRow
      BY <3>6, <3>8 DEF ShareRow
    <3> QED BY <3>1, <3>2, <3>3, <3>7, <3>8, <3>9
  <2>2. CASE Unshare(d, g, q)
    BY <2>2 DEF Unshare
  <2> QED BY <2>1, <2>2
<1>4. TypeOK'
  <2>1. shares' \in [Groups \X People -> ShareRow \cup {None}]
    BY <1>1, <1>3 DEF TypeOK
  <2> QED BY <1>1, <1>2, <2>1 DEF TypeOK
<1>5. AccountsSound' /\ RequestsSound' /\ \A p \in People : KeysOf(p)' = KeysOf(p)
  BY <1>1, AccountsStay
<1>6. DevicesSound' /\ RingsSound'
  BY <1>1, <1>5, KeyVaultAssumption DEF IInv, DevicesSound, RingsSound
<1>7. SharesSound'
  <2> SUFFICES ASSUME NEW h \in Groups, NEW u \in People, shares'[<<h, u>>] # None
               PROVE  /\ u # shares'[<<h, u>>].owner /\ accounts[u] # None
                      /\ groupKey[h] # None
                      /\ UnwrapWith(KeysOf(u).secret, shares'[<<h, u>>].blob) = groupKey[h]
    BY <1>1, <1>5 DEF SharesSound
  <2>1. CASE h = g /\ u = q
    BY <1>1, <1>3, <2>1 DEF TypeOK
  <2>2. CASE ~(h = g /\ u = q)
    <3>1. shares'[<<h, u>>] = shares[<<h, u>>]
      BY <1>1, <1>3, <2>2 DEF TypeOK
    <3> QED BY <3>1 DEF IInv, SharesSound
  <2> QED BY <2>1, <2>2
<1>8. PushesSound' /\ RowsSound'
  BY <1>1, <1>5, RecordsStay
<1> QED BY <1>4, <1>5, <1>6, <1>7, <1>8 DEF IInv

(***************************************************************************)
(* The blob that `mine` answers holds the key the group's founder drew.    *)
(***************************************************************************)
LEMMA MineStep ==
    ASSUME IInv, NEW d \in Devices, NEW g \in Groups, Mine(d, g)
    PROVE  IInv'
<1> DEFINE p == PersonOf[d]
<1>1. /\ TypeOK /\ p \in People /\ memory[d] # None /\ shares[<<g, p>>] # None
      /\ UNCHANGED <<accounts, shares, rows, last, wire, memory, looked, pushing,
                     groupKey, chosen, wraps>>
  BY KeyVaultAssumption DEF IInv, Mine, serverVars
<1>2. UnwrapWith(memory[d].secret, shares[<<g, p>>].blob) = groupKey[g]
  BY <1>1 DEF IInv, DevicesSound, SharesSound
<1>3. ring' = [ring EXCEPT ![d][g] = groupKey[g]]
  <2>1. g # None
    BY KeyVaultAssumption
  <2> QED BY <1>2, <2>1 DEF Mine, ContentKey
<1>4. groupKey[g] \in RandomKey \cup {None}
  BY <1>1 DEF TypeOK
<1>5. TypeOK'
  <2>1. ring' \in [Devices -> [Groups -> RandomKey \cup {None}]]
    BY <1>1, <1>3, <1>4 DEF TypeOK
  <2> QED BY <1>1, <2>1 DEF TypeOK
<1>6. AccountsSound' /\ RequestsSound' /\ \A q \in People : KeysOf(q)' = KeysOf(q)
  BY <1>1, AccountsStay
<1>7. DevicesSound' /\ SharesSound'
  BY <1>1, <1>6, KeyVaultAssumption DEF IInv, DevicesSound, SharesSound
<1>8. RingsSound'
  BY <1>1, <1>3 DEF IInv, RingsSound, TypeOK
<1>9. PushesSound' /\ RowsSound'
  BY <1>1, <1>6, RecordsStay
<1> QED BY <1>5, <1>6, <1>7, <1>8, <1>9 DEF IInv

-----------------------------------------------------------------------------
(***************************************************************************)
(* What a step of a push leaves alone, it leaves sound.                    *)
(***************************************************************************)
LEMMA PushLeaves ==
    ASSUME IInv,
           UNCHANGED <<accounts, shares, wire, memory, looked, ring, groupKey, chosen>>
    PROVE  /\ AccountsSound' /\ RequestsSound' /\ DevicesSound'
           /\ RingsSound' /\ SharesSound'
           /\ \A p \in People, env \in Row : SealedUnder(p, env) => SealedUnder(p, env)'
<1>1. AccountsSound' /\ RequestsSound' /\ \A q \in People : KeysOf(q)' = KeysOf(q)
  BY AccountsStay
<1>2. DevicesSound' /\ RingsSound' /\ SharesSound'
  BY <1>1, KeyVaultAssumption DEF IInv, DevicesSound, RingsSound, SharesSound
<1>3. ASSUME NEW p \in People, NEW env \in Row, SealedUnder(p, env)
      PROVE  SealedUnder(p, env)'
  BY <1>1, <1>3, SealedStays
<1> QED BY <1>1, <1>2, <1>3

(***************************************************************************)
(* A handler's locals change for sound ones, or go.                        *)
(***************************************************************************)
LEMMA HandlerStep ==
    ASSUME IInv, NEW d \in Devices, NEW locals \in Handler \cup {None},
           pushing' = [pushing EXCEPT ![d] = locals],
           UNCHANGED <<accounts, shares, wire, memory, looked, ring, groupKey, chosen,
                       rows, last, wraps>>,
           locals # None =>
              /\ SealedUnder(locals.account, locals.env)
              /\ locals.at # "put" => locals.env.key_ref # None
    PROVE  IInv'
<1>1. TypeOK
  BY DEF IInv
<1>2. TypeOK'
  <2>1. pushing' \in [Devices -> Handler \cup {None}]
    BY <1>1 DEF TypeOK
  <2> QED BY <1>1, <2>1 DEF TypeOK
<1>3. /\ AccountsSound' /\ RequestsSound' /\ DevicesSound'
      /\ RingsSound' /\ SharesSound'
      /\ \A p \in People, env \in Row : SealedUnder(p, env) => SealedUnder(p, env)'
  BY PushLeaves
<1>4. PushesSound'
  <2> SUFFICES ASSUME NEW e \in Devices, pushing'[e] # None
               PROVE  /\ SealedUnder(pushing[e].account, pushing[e].env)'
                      /\ pushing'[e].at # "put" => pushing'[e].env.key_ref # None
    BY DEF PushesSound
  <2>1. /\ SealedUnder(pushing'[e].account, pushing'[e].env)
        /\ pushing'[e].at # "put" => pushing'[e].env.key_ref # None
    <3>1. CASE e = d
      <4>1. pushing'[e] = locals
        BY <1>1, <3>1 DEF TypeOK
      <4> QED BY <4>1
    <3>2. CASE e # d
      <4>1. pushing'[e] = pushing[e]
        BY <1>1, <3>2 DEF TypeOK
      <4> QED BY <4>1 DEF IInv, PushesSound
    <3> QED BY <3>1, <3>2
  <2>2. pushing'[e].account \in People /\ pushing'[e].env \in Row
    BY <1>2 DEF TypeOK, Handler
  <2> QED BY <1>3, <2>1, <2>2
<1>5. RowsSound'
  <2> SUFFICES ASSUME NEW k \in People \X Ids, rows[k] # None
               PROVE  SealedUnder(k[1], rows[k])'
    BY DEF RowsSound
  <2>1. k[1] \in People /\ rows[k] \in Row /\ SealedUnder(k[1], rows[k])
    BY <1>1 DEF IInv, TypeOK, RowsSound
  <2> QED BY <1>3, <2>1
<1> QED BY <1>2, <1>3, <1>4, <1>5 DEF IInv

(***************************************************************************)
(* A device seals with the key of the record's key_ref, and binds the      *)
(* header (record.rs, aad).                                                *)
(***************************************************************************)
LEMMA SendPushStep ==
    ASSUME IInv, NEW d \in Devices, NEW i \in Ids, NEW groupId \in Groups \cup {None},
           NEW keyRef \in Groups \cup {None}, SendPush(d, i, groupId, keyRef)
    PROVE  IInv'
<1> DEFINE p == PersonOf[d]
           key == IF keyRef = None THEN memory[d].personal ELSE ring[d][keyRef]
<1>1. /\ TypeOK /\ p \in People /\ memory[d] # None
      /\ accounts[p] # None /\ memory[d] = KeysOf(p)
      /\ keyRef # None => ring[d][keyRef] # None
      /\ UNCHANGED <<accounts, shares, wire, memory, looked, ring, groupKey, chosen,
                     rows, last, wraps>>
  BY KeyVaultAssumption DEF IInv, DevicesSound, SendPush, serverVars
<1>2. key \in RandomKey
  BY <1>1 DEF TypeOK, KeyPair
<1>3. IF keyRef = None THEN key = KeysOf(p).personal
      ELSE groupKey[keyRef] # None /\ key = groupKey[keyRef]
  BY <1>1 DEF IInv, RingsSound
<1> HIDE DEF key
<1>4. PICK stamp \in 1..MaxStamp :
          LET header == [id |-> i, group_id |-> groupId, key_ref |-> keyRef,
                         updated_at |-> stamp, device_id |-> d, seq |-> 0, sealed |-> None]
              env == [header EXCEPT !.sealed = Seal(key, Aad(header), "payload")]
          IN  pushing' = [pushing EXCEPT ![d] =
                 [env |-> env, account |-> p,
                  at |-> IF Routing(env) = None THEN "put" ELSE "write?"]]
  BY DEF SendPush, key
<1> DEFINE env == [id |-> i, group_id |-> groupId, key_ref |-> keyRef,
                   updated_at |-> stamp, device_id |-> d, seq |-> 0,
                   sealed |-> [key |-> key, aad |-> <<i, stamp, d>>,
                               plaintext |-> "payload"]]
           locals == [env |-> env, account |-> p,
                      at |-> IF keyRef = None THEN "put" ELSE "write?"]
<1>5. pushing' = [pushing EXCEPT ![d] = locals]
  <2> DEFINE header == [id |-> i, group_id |-> groupId, key_ref |-> keyRef,
                        updated_at |-> stamp, device_id |-> d, seq |-> 0, sealed |-> None]
  <2>1. Seal(key, Aad(header), "payload")
          = [key |-> key, aad |-> <<i, stamp, d>>, plaintext |-> "payload"]
    BY DEF Seal, Aad
  <2>2. [header EXCEPT !.sealed = Seal(key, Aad(header), "payload")] = env
    BY <2>1
  <2>3. Routing(env) = keyRef
    BY DEF Routing
  <2> HIDE DEF header, env
  <2> QED BY <1>4, <2>2, <2>3 DEF header
<1>6. stamp \in Int
  BY KeyVaultAssumption
<1>7. env \in Row
  BY <1>2, <1>6 DEF Row
<1>8. SealedUnder(p, env)
  BY <1>1, <1>3 DEF SealedUnder, Aad
<1>9. env.key_ref = keyRef
  OBVIOUS
<1> HIDE DEF env
<1>10. locals \in Handler
  BY <1>1, <1>7 DEF Handler
<1>11. /\ SealedUnder(locals.account, locals.env)
       /\ locals.at # "put" => locals.env.key_ref # None
  BY <1>8, <1>9
<1> HIDE DEF locals, p
<1> QED BY <1>1, <1>5, <1>10, <1>11, HandlerStep

(***************************************************************************)
(* Wherever the awaits file a record, it stays sealed under the key it     *)
(* names: only one under a group's key goes to another account.            *)
(***************************************************************************)
LEMMA AwaitsStep ==
    ASSUME IInv, NEW d \in Devices, AskWritable(d) \/ AskOwner(d) \/ LosePush(d)
    PROVE  IInv'
<1>1. /\ TypeOK /\ pushing[d] # None /\ PersonOf[d] \in People
      /\ UNCHANGED <<accounts, shares, wire, memory, looked, ring, groupKey, chosen,
                     rows, last, wraps>>
  BY KeyVaultAssumption DEF IInv, AskWritable, AskOwner, LosePush, At, serverVars
<1>2. /\ pushing[d] \in Handler /\ SealedUnder(pushing[d].account, pushing[d].env)
      /\ pushing[d].at # "put" => pushing[d].env.key_ref # None
  BY <1>1 DEF IInv, TypeOK, PushesSound
<1>3. CASE pushing' = [pushing EXCEPT ![d] = None]
  BY <1>1, <1>3, HandlerStep
<1>4. CASE AskWritable(d) /\ pushing' = [pushing EXCEPT ![d].at = "owner?"]
  <2> DEFINE new == [pushing[d] EXCEPT !.at = "owner?"]
  <2>1. pushing' = [pushing EXCEPT ![d] = new]
    BY <1>1, <1>4 DEF TypeOK
  <2>2. pushing[d].env.key_ref # None
    BY <1>2, <1>4 DEF AskWritable, At
  <2>3. /\ new \in Handler /\ new.env = pushing[d].env
        /\ new.account = pushing[d].account
    BY <1>2 DEF Handler
  <2> HIDE DEF new
  <2> QED BY <1>1, <1>2, <2>1, <2>2, <2>3, HandlerStep
<1>5. CASE AskOwner(d)
  <2>1. PICK q : /\ q \in IF Owners(Routing(pushing[d].env)) = {} THEN {PersonOf[d]}
                          ELSE Owners(Routing(pushing[d].env))
                 /\ pushing' = [pushing EXCEPT ![d].at = "put", ![d].account = q]
    BY <1>5 DEF AskOwner
  <2>2. pushing[d].env.key_ref # None /\ pushing[d].env \in Row
    BY <1>2, <1>5 DEF AskOwner, At, Handler
  <2>3. q \in People
    <3>1. Routing(pushing[d].env) \in Groups
      BY <2>2 DEF Routing, Row
    <3>2. \A u \in People : shares[<<Routing(pushing[d].env), u>>] # None =>
              shares[<<Routing(pushing[d].env), u>>].owner \in People
      BY <1>1, <3>1 DEF TypeOK, ShareRow
    <3> QED BY <1>1, <2>1, <3>2 DEF Owners, Members
  <2> DEFINE new == [pushing[d] EXCEPT !.at = "put", !.account = q]
  <2>4. pushing' = [pushing EXCEPT ![d] = new]
    BY <1>1, <2>1 DEF TypeOK
  <2>5. new \in Handler /\ new.env = pushing[d].env /\ new.account = q /\ new.at = "put"
    BY <1>2, <2>3 DEF Handler
  <2>6. SealedUnder(q, pushing[d].env)
    BY <1>2, <2>2 DEF SealedUnder
  <2> HIDE DEF new
  <2> QED BY <1>1, <2>4, <2>5, <2>6, HandlerStep
<1> QED BY <1>3, <1>4, <1>5 DEF AskWritable, LosePush

(***************************************************************************)
(* put_envelope gives the record a number, which nothing was bound to.     *)
(***************************************************************************)
LEMMA PutEnvelopeStep ==
    ASSUME IInv, NEW d \in Devices, PutEnvelope(d)
    PROVE  IInv'
<1> DEFINE env == pushing[d].env
           k == <<pushing[d].account, env.id>>
           row == [env EXCEPT !.seq = last + 1]
<1>1. /\ TypeOK /\ pushing[d] # None /\ last' = last + 1
      /\ pushing' = [pushing EXCEPT ![d] = None]
      /\ rows' = IF rows[k] = None \/ Wins(row, rows[k])
                 THEN [rows EXCEPT ![k] = row] ELSE rows
      /\ UNCHANGED <<accounts, shares, wire, memory, looked, ring, groupKey, chosen, wraps>>
  BY DEF IInv, PutEnvelope, At
<1>2. /\ env \in Row /\ pushing[d].account \in People
      /\ SealedUnder(pushing[d].account, env)
  BY <1>1 DEF IInv, TypeOK, PushesSound, Handler
<1>3. row \in Row /\ row.sealed = env.sealed /\ row.key_ref = env.key_ref /\ Aad(row) = Aad(env)
  <2>1. last + 1 \in Nat
    BY <1>1 DEF TypeOK
  <2> HIDE DEF env
  <2>2. /\ row \in Row /\ row.sealed = env.sealed /\ row.key_ref = env.key_ref
        /\ row.id = env.id /\ row.updated_at = env.updated_at
        /\ row.device_id = env.device_id
    BY <1>2, <2>1 DEF Row
  <2> QED BY <2>2 DEF Aad
<1>4. SealedUnder(k[1], row) /\ k \in People \X Ids
  BY <1>2, <1>3 DEF SealedUnder, Row
<1>5. rows' = rows \/ rows' = [rows EXCEPT ![k] = row]
  BY <1>1
<1> HIDE DEF row, k, env
<1>6. TypeOK'
  <2>1. rows' \in [People \X Ids -> Row \cup {None}]
    BY <1>1, <1>3, <1>5 DEF TypeOK
  <2>2. pushing' \in [Devices -> Handler \cup {None}] /\ last' \in Nat
    BY <1>1 DEF TypeOK
  <2> QED BY <1>1, <2>1, <2>2 DEF TypeOK
<1>7. /\ AccountsSound' /\ RequestsSound' /\ DevicesSound'
      /\ RingsSound' /\ SharesSound'
      /\ \A p \in People, e \in Row : SealedUnder(p, e) => SealedUnder(p, e)'
  BY <1>1, PushLeaves
<1>8. PushesSound'
  <2> SUFFICES ASSUME NEW e \in Devices, pushing'[e] # None
               PROVE  /\ SealedUnder(pushing[e].account, pushing[e].env)'
                      /\ pushing'[e].at # "put" => pushing'[e].env.key_ref # None
    BY DEF PushesSound
  <2>1. pushing'[e] = pushing[e]
    BY <1>1 DEF TypeOK
  <2>2. /\ SealedUnder(pushing[e].account, pushing[e].env)
        /\ pushing[e].at # "put" => pushing[e].env.key_ref # None
        /\ pushing[e].account \in People /\ pushing[e].env \in Row
    BY <1>1, <2>1 DEF IInv, PushesSound, TypeOK, Handler
  <2> QED BY <1>7, <2>1, <2>2
<1>9. RowsSound'
  <2> SUFFICES ASSUME NEW j \in People \X Ids, rows'[j] # None
               PROVE  SealedUnder(j[1], rows[j])'
    BY DEF RowsSound
  <2>1. SealedUnder(j[1], rows'[j])
    <3>1. CASE rows'[j] = rows[j]
      BY <3>1 DEF IInv, RowsSound
    <3>2. CASE rows'[j] # rows[j]
      <4>1. j = k /\ rows'[j] = row
        BY <1>1, <1>5, <3>2 DEF TypeOK
      <4> QED BY <1>4, <4>1
    <3> QED BY <3>1, <3>2
  <2>2. j[1] \in People /\ rows'[j] \in Row
    BY <1>6 DEF TypeOK
  <2> QED BY <1>7, <2>1, <2>2
<1> QED BY <1>6, <1>7, <1>8, <1>9 DEF IInv

-----------------------------------------------------------------------------
(***************************************************************************)
(* No registration, rewrap, share or push, late or lost, leaves the server *)
(* with a term that its reader cannot open: an account's doors hold its    *)
(* keys, a share the group's key, a row what its key_ref names - in every  *)
(* account its push may file it under (auth.rs, shares.rs, sync.rs).       *)
(***************************************************************************)
THEOREM KeyVaultInvariant == Spec => []IInv
<1>1. IInv /\ [Next]_vars => IInv'
  <2> SUFFICES ASSUME IInv, [Next]_vars PROVE IInv'
    OBVIOUS
  <2>1. CASE UNCHANGED vars
    <3>1. UNCHANGED <<accounts, shares, rows, last, wire, memory, looked, ring, pushing,
                      groupKey, chosen, wraps>>
      BY <2>1 DEF vars, serverVars, deviceVars
    <3>2. TypeOK'
      BY <3>1 DEF IInv, TypeOK
    <3>3. AccountsSound' /\ RequestsSound' /\ \A p \in People : KeysOf(p)' = KeysOf(p)
      BY <3>1, AccountsStay
    <3>4. DevicesSound' /\ RingsSound' /\ SharesSound' /\ PushesSound' /\ RowsSound'
      BY <3>1, <3>3, KeysStay
    <3> QED BY <3>2, <3>3, <3>4 DEF IInv
  <2>2. CASE \E m \in wire : Serve(m)
    BY <2>2, CreateAccountStep, RewrapStep, LoseStep DEF Serve
  <2>3. CASE \E d \in Devices : Device(d)
    <3> SUFFICES ASSUME NEW d \in Devices, Device(d) PROVE IInv'
      BY <2>3
    <3>1. CASE SendRegister(d) \/ SignIn(d) \/ Forget(d) \/ SendRewrap(d)
      BY <3>1, SendRegisterStep, MemoryStep, SendRewrapStep
    <3>2. CASE \E q \in People : Lookup(d, q)
      BY <3>2, LookupStep
    <3>3. CASE \E g \in Groups : \/ DrawGroupKey(d, g) \/ Mine(d, g)
                                 \/ \E q \in People : Share(d, g, q) \/ Unshare(d, g, q)
      BY <3>3, DrawGroupKeyStep, MineStep, ShareStep
    <3>4. CASE \E i \in Ids, groupId, keyRef \in Groups \cup {None} :
                  SendPush(d, i, groupId, keyRef)
      BY <3>4, SendPushStep
    <3>5. CASE PushStep(d)
      BY <3>5, AwaitsStep, PutEnvelopeStep DEF PushStep
    <3> QED BY <3>1, <3>2, <3>3, <3>4, <3>5 DEF Device
  <2> QED BY <2>1, <2>2, <2>3 DEF Next
<1> QED BY <1>1, InitFact, PTL DEF Spec

(***************************************************************************)
(* A new device reads every row it is answered together with its key, with *)
(* any password or code the server still accepts (routes/auth.rs, rewrap:  *)
(* "a password change does not have to re-encrypt a single record").       *)
(***************************************************************************)
THEOREM NewDeviceReadsTheorem == Spec => []NewDeviceReads
<1>1. IInv => NewDeviceReads
  <2> SUFFICES ASSUME IInv, NEW p \in People, NEW n \in 0..chosen[p] - 1,
                      NEW keys \in Obtained(p, n), NEW k \in Pulled(p),
                      KeyIsAnswered(p, k)
               PROVE  OpenRow(p, keys, rows[k]) = "payload"
    BY DEF NewDeviceReads
  <2>1. accounts[p] # None /\ keys = KeysOf(p)
    BY AcceptedOpens DEF IInv
  <2> QED BY <2>1, ReadersOpen
<1> QED BY <1>1, KeyVaultInvariant, PTL

(***************************************************************************)
(* With addresses of plain letters both doors of every account open, to    *)
(* the same keys, for a password and code that were chosen together.       *)
(***************************************************************************)
THEOREM DoorsOpenTheorem ==
    ASSUME Accented = {}
    PROVE  Spec => []DoorsOpen
<1>1. IInv => DoorsOpen
  <2> SUFFICES ASSUME IInv, NEW p \in People, accounts[p] # None
               PROVE  \E n \in 0..chosen[p] - 1 : \A keys, others \in Answers(p, n) :
                         /\ keys # None /\ keys = others
                         /\ PublicKey(keys.secret) = accounts[p].account_public
                         /\ keys.personal # Failed
    BY DEF DoorsOpen
  <2>1. PICK n \in 0..chosen[p] - 1, email0 \in Spellings(p) :
            accounts[p].doors = Doors(p, n, email0, KeysOf(p))
    BY DEF IInv, AccountsSound, SealedBy, KeysOf
  <2>2. KeysOf(p) \in KeyPair /\ PublicKey(KeysOf(p).secret) = accounts[p].account_public
    BY KeysInType DEF IInv, TypeOK, Account, AccountsSound, SealedBy, KeysOf
  <2>3. None \notin Answers(p, n)
    <3>1. ASSUME NEW email \in Spellings(p)
          PROVE  Login(p, DeriveAccountKeys(Password(p, n), email)) # None
      <4>1. ToAsciiLowercase(email) = ToAsciiLowercase(email0)
        BY DEF Spellings, ToAsciiLowercase
      <4>2. DeriveAccountKeys(Password(p, n), email) = DeriveAccountKeys(Password(p, n), email0)
        BY <4>1 DEF DeriveAccountKeys, DeriveMaster
      <4>3. VerifyAuthKey(DeriveAccountKeys(Password(p, n), email).auth,
                          accounts[p].doors.auth_hash)
        BY <2>1, <4>2 DEF Doors, VerifyAuthKey
      <4>4. Login(p, DeriveAccountKeys(Password(p, n), email))
              = Unlock(DeriveAccountKeys(Password(p, n), email).wrap, accounts[p].doors.material)
        BY <4>3 DEF Login
      <4>5. accounts[p].doors.material
              = Material(DeriveAccountKeys(Password(p, n), email).wrap, KeysOf(p))
        BY <2>1, <4>2 DEF Doors
      <4>6. Login(p, DeriveAccountKeys(Password(p, n), email)) = KeysOf(p)
        BY <2>2, <4>4, <4>5, MaterialOpens
      <4> QED BY <2>2, <4>6, NoneIsNoTerm
    <3>2. ASSUME NEW code \in Retypings([code |-> n, of |-> p])
          PROVE  Recover(p, DeriveRecoveryKeys(code)) # None
      <4>1. DeriveRecoveryKeys(code) = DeriveRecoveryKeys(Code(p, n))
        BY DEF Retypings, DeriveRecoveryKeys, Normalised, Code, RecoveryCode
      <4>2. VerifyAuthKey(DeriveRecoveryKeys(code).auth, accounts[p].doors.recovery_auth_hash)
        BY <2>1, <4>1 DEF Doors, VerifyAuthKey
      <4>3. Recover(p, DeriveRecoveryKeys(code))
              = Unlock(DeriveRecoveryKeys(code).wrap, accounts[p].doors.recovery_material)
        BY <4>2 DEF Recover
      <4>4. accounts[p].doors.recovery_material
              = Material(DeriveRecoveryKeys(code).wrap, KeysOf(p))
        BY <2>1, <4>1 DEF Doors
      <4>5. Recover(p, DeriveRecoveryKeys(code)) = KeysOf(p)
        BY <2>2, <4>3, <4>4, MaterialOpens
      <4> QED BY <2>2, <4>5, NoneIsNoTerm
    <3> QED BY <3>1, <3>2 DEF Answers
  <2>4. \A keys \in Answers(p, n) : keys = KeysOf(p)
    BY <2>3, AcceptedOpens DEF IInv, Obtained
  <2> QED BY <2>1, <2>2, <2>3, <2>4, NoneIsNoTerm DEF KeyPair
<1> QED BY <1>1, KeyVaultInvariant, PTL
=============================================================================
