------------------------------ MODULE Sessions ------------------------------
(***************************************************************************)
(* Registering, signing in, refreshing and re-wrapping one account         *)
(* (server/src/routes/auth.rs) over the accounts and tokens tables.  A     *)
(* handler awaits the store several times: its `step` is the call it makes *)
(* next, and other requests run between two calls.                         *)
(*                                                                         *)
(* A secret is a password or a recovery code, numbered by the registration *)
(* or rewrap that set it; a wrapped key blob is the secret that opens it.  *)
(* Clients only send tokens they received and secrets that were set.       *)
(***************************************************************************)
EXTENDS Integers, FiniteSets

CONSTANTS Requests,          \* requests in progress at once
          Clients,           \* device ids
          None,              \* no account, no request, nothing sent
          AccessTtl,         \* config.access_ttl_secs
          RefreshTtl,        \* REFRESH_TTL_MS
          MaxNow, MaxSecrets, MaxSessions, MaxDrops   \* bounds

ASSUME SessionsAssumption ==
    /\ None \notin Clients
    /\ {AccessTtl, RefreshTtl, MaxNow, MaxSecrets, MaxSessions, MaxDrops} \subseteq Nat

VARIABLES account,           \* the accounts row of the email, or None
          tokens,            \* the tokens table
          devices,           \* the devices table: those seen signing in
          requests,          \* per request: the handler's locals, or None
          sessions,          \* the sessions clients received
          secrets,           \* how many passwords were chosen
          minted,            \* how many tokens were
          drops,             \* how many handlers died
          now                \* the server's clock

vars == <<account, tokens, devices, requests, sessions, secrets, minted, drops, now>>

Password(n) == <<"password", n>>
Recovery(n) == <<"recovery", n>>

Secret == {"password", "recovery"} \X Nat

\* What NewAccount carries: both proofs, and both sets of wrapped keys.
Sealed(n) == [auth_hash |-> Password(n), wrapped |-> Password(n),
              recovery_auth_hash |-> Recovery(n), recovery_wrapped |-> Recovery(n)]

Account == [auth_hash : Secret, wrapped : Secret,
            recovery_auth_hash : Secret, recovery_wrapped : Secret]

\* `opened` is the number of the secret the session goes back to.
Token == [hash : Nat, kind : {"access", "refresh"}, expires_at : Int, opened : Nat]

\* KeyMaterial and the two tokens, with what the client had sent for them.
Session == [op : {"register", "login", "recover", "refresh"},
            secret : Secret \cup {None}, used : Nat \cup {None},
            access : Nat, refresh : Nat, wrapped : Secret]

-----------------------------------------------------------------------------
\* A request arrives with its first call to the store: until then nobody sees
\* it.  One that this call turns away gets an error and leaves no trace.

Blank == [op |-> None, step |-> None, secret |-> None, used |-> None, device |-> None,
          opened |-> 0, wrapped |-> None, issued |-> 0, access |-> 0, refresh |-> 0]

Steps == {"load", "access", "refresh", "touch", "reply", "update", "revoke"}

Request == [op : {"register", "login", "recover", "refresh", "logout", "rewrap"},
            step : Steps, secret : Secret \cup {None}, used : Nat \cup {None},
            device : Clients \cup {None}, opened : Nat, wrapped : Secret \cup {None},
            issued : Nat, access : Nat, refresh : Nat]

ASSUME NoneIsNoRecord ==
    None \notin Account /\ None \notin Request /\ None \notin Secret

Begin(r, request) ==
    /\ requests[r] = None
    /\ requests' = [requests EXCEPT ![r] = request]

\* Tokens of that hash and kind which have not expired.
Live(hash, kind) == {t \in tokens : t.hash = hash /\ t.kind = kind /\ t.expires_at > now}

\* Bound: the handlers in progress may open their sessions, and one more.
Room ==
    minted + 2 * Cardinality({r \in Requests : requests[r] # None}) < 2 * MaxSessions

\* register: create_account finds the email free (it is UNIQUE), or EmailTaken.
Register(r, device) ==
    /\ Room /\ secrets < MaxSecrets
    /\ account = None
    /\ account' = Sealed(secrets)
    /\ Begin(r, [Blank EXCEPT !.op = "register", !.step = "load", !.device = device,
                             !.secret = Password(secrets), !.opened = secrets])
    /\ secrets' = secrets + 1
    /\ UNCHANGED <<tokens, devices, sessions, minted, drops, now>>

\* login: the row of the email is read once, for the proof and for the answer;
\* then issue_session reads the clock, once for both tokens.
Login(r, device) ==
    /\ Room
    /\ account # None
    /\ \E n \in 0..secrets - 1 :
          /\ Password(n) = account.auth_hash
          /\ Begin(r, [Blank EXCEPT !.op = "login", !.step = "access", !.device = device,
                                   !.secret = Password(n), !.opened = n,
                                   !.wrapped = account.wrapped, !.issued = now])
    /\ UNCHANGED <<account, tokens, devices, sessions, secrets, minted, drops, now>>

\* Broken: the answer carries the keys the password opens.
BrokenRecover(r, device) ==
    /\ Room
    /\ account # None
    /\ \E n \in 0..secrets - 1 :
          /\ Recovery(n) = account.recovery_auth_hash
          /\ Begin(r, [Blank EXCEPT !.op = "recover", !.step = "load", !.device = device,
                                   !.secret = Recovery(n), !.opened = n])
    /\ UNCHANGED <<account, tokens, devices, sessions, secrets, minted, drops, now>>

\* recover: the same with the recovery columns.
Recover(r, device) ==
    /\ Room
    /\ account # None
    /\ \E n \in 0..secrets - 1 :
          /\ Recovery(n) = account.recovery_auth_hash
          /\ Begin(r, [Blank EXCEPT !.op = "recover", !.step = "access", !.device = device,
                                   !.secret = Recovery(n), !.opened = n,
                                   !.wrapped = account.recovery_wrapped, !.issued = now])
    /\ UNCHANGED <<account, tokens, devices, sessions, secrets, minted, drops, now>>

\* Broken: the token is looked up and left in the table.
BrokenRefresh(r) ==
    /\ Room
    /\ \E s \in sessions : \E t \in Live(s.refresh, "refresh") :
          Begin(r, [Blank EXCEPT !.op = "refresh", !.step = "load",
                                 !.used = t.hash, !.opened = t.opened])
    /\ UNCHANGED <<account, tokens, devices, sessions, secrets, minted, drops, now>>

\* consume_token: one DELETE ... RETURNING.
ConsumeToken(t) == tokens' = tokens \ {t}

\* refresh: a live token, or Unauthorised.
Refresh(r) ==
    /\ Room
    /\ \E s \in sessions : \E t \in Live(s.refresh, "refresh") :
          /\ ConsumeToken(t)
          /\ Begin(r, [Blank EXCEPT !.op = "refresh", !.step = "load",
                                   !.used = t.hash, !.opened = t.opened])
    /\ UNCHANGED <<account, devices, sessions, secrets, minted, drops, now>>

\* logout and rewrap: the extractor finds the access token live.
Logout(r) ==
    /\ \E s \in sessions : Live(s.access, "access") # {}
    /\ Begin(r, [Blank EXCEPT !.op = "logout", !.step = "revoke"])
    /\ UNCHANGED <<account, tokens, devices, sessions, secrets, minted, drops, now>>

Rewrap(r) ==
    /\ secrets < MaxSecrets
    /\ \E s \in sessions : Live(s.access, "access") # {}
    /\ Begin(r, [Blank EXCEPT !.op = "rewrap", !.step = "load",
                             !.secret = Password(secrets)])
    /\ secrets' = secrets + 1
    /\ UNCHANGED <<account, tokens, devices, sessions, minted, drops, now>>

-----------------------------------------------------------------------------
\* The calls a handler makes after that, one await each.

At(r, step) == requests[r] # None /\ requests[r].step = step

Goto(r, step) == requests' = [requests EXCEPT ![r].step = step]

\* The handler answers and is gone.
End(r) == requests' = [requests EXCEPT ![r] = None]

\* account_by_id; after it register and refresh enter issue_session.
LoadAccount(r) ==
    /\ At(r, "load")
    /\ IF requests[r].op = "rewrap" THEN Goto(r, "update")
       ELSE requests' = [requests EXCEPT ![r].step = "access", ![r].issued = now,
                                         ![r].wrapped = account.wrapped]
    /\ UNCHANGED <<account, tokens, devices, sessions, secrets, minted, drops, now>>

\* Broken: both tokens of a session get one hash.
BrokenPutToken(r, kind, ttl, after) ==
    /\ At(r, kind)
    /\ requests' = [requests EXCEPT ![r].step = after, ![r][kind] = minted]
    /\ tokens' = tokens \cup {[hash |-> minted, kind |-> kind,
                               expires_at |-> requests[r].issued + ttl,
                               opened |-> requests[r].opened]}
    /\ minted' = IF kind = "access" THEN minted ELSE minted + 1
    /\ UNCHANGED <<account, devices, sessions, secrets, drops, now>>

\* mint_token and put_token, for the access token and then the refresh token.
PutToken(r, kind, ttl, after) ==
    /\ At(r, kind)
    /\ requests' = [requests EXCEPT ![r].step = after, ![r][kind] = minted]
    /\ tokens' = tokens \cup {[hash |-> minted, kind |-> kind,
                               expires_at |-> requests[r].issued + ttl,
                               opened |-> requests[r].opened]}
    /\ minted' = minted + 1
    /\ UNCHANGED <<account, devices, sessions, secrets, drops, now>>

PutAccess(r) == PutToken(r, "access", AccessTtl, "refresh")

PutRefresh(r) ==
    PutToken(r, "refresh", RefreshTtl,
             IF requests[r].device = None THEN "reply" ELSE "touch")

TouchDevice(r) ==
    /\ At(r, "touch")
    /\ devices' = devices \cup {requests[r].device}
    /\ Goto(r, "reply")
    /\ UNCHANGED <<account, tokens, sessions, secrets, minted, drops, now>>

\* rewrap_account: one UPDATE of the two proofs and all wrapped keys.
UpdateAccount(r) ==
    /\ At(r, "update")
    /\ account' = Sealed(requests[r].secret[2])
    /\ Goto(r, "revoke")
    /\ UNCHANGED <<tokens, devices, sessions, secrets, minted, drops, now>>

\* revoke_account_tokens, the end of logout and of rewrap.
RevokeTokens(r) ==
    /\ At(r, "revoke")
    /\ tokens' = {}
    /\ End(r)
    /\ UNCHANGED <<account, devices, sessions, secrets, minted, drops, now>>

\* The session reaches the client.
Reply(r) ==
    /\ At(r, "reply")
    /\ LET q == requests[r]
       IN  sessions' = sessions \cup
              {[op |-> q.op, secret |-> q.secret, used |-> q.used,
                access |-> q.access, refresh |-> q.refresh, wrapped |-> q.wrapped]}
    /\ End(r)
    /\ UNCHANGED <<account, tokens, devices, secrets, minted, drops, now>>

\* A store error, a closed connection or a crash: what was written stays.
Drop(r) ==
    /\ drops < MaxDrops /\ requests[r] # None
    /\ End(r)
    /\ drops' = drops + 1
    /\ UNCHANGED <<account, tokens, devices, sessions, secrets, minted, now>>

Tick == /\ now < MaxNow /\ now' = now + 1
        /\ UNCHANGED <<account, tokens, devices, requests, sessions, secrets,
                       minted, drops>>

-----------------------------------------------------------------------------
Init ==
    /\ account = None /\ tokens = {} /\ devices = {}
    /\ requests = [r \in Requests |-> None]
    /\ sessions = {} /\ secrets = 0 /\ minted = 0 /\ drops = 0 /\ now = 0

Arrival(r) ==
    \/ \E device \in Clients : Register(r, device) \/ Login(r, device) \/ Recover(r, device)
    \/ Refresh(r) \/ Logout(r) \/ Rewrap(r)

Step(r) ==
    \/ LoadAccount(r) \/ PutAccess(r) \/ PutRefresh(r) \/ TouchDevice(r)
    \/ UpdateAccount(r) \/ RevokeTokens(r) \/ Reply(r)

\* With no handler in progress the server waits for a request.
Idle == (\A r \in Requests : requests[r] = None) /\ UNCHANGED vars

Next == (\E r \in Requests : Arrival(r) \/ Step(r) \/ Drop(r)) \/ Tick \/ Idle

Spec == Init /\ [][Next]_vars

-----------------------------------------------------------------------------
\* Tables, locals and answers have their shapes; every hash was minted once.
TypeOK ==
    /\ account \in Account \cup {None}
    /\ tokens \subseteq Token /\ devices \subseteq Clients
    /\ requests \in [Requests -> Request \cup {None}]
    /\ sessions \subseteq Session
    /\ {secrets, minted, drops, now} \subseteq Nat
    /\ \A t \in tokens : t.hash < minted
    /\ \A t, u \in tokens : t.hash = u.hash => t = u

(***************************************************************************)
(* What a refresh token buys is bought once: two concurrent refreshes      *)
(* cannot both succeed (store/sqlite.rs, consume_token).                   *)
(***************************************************************************)
RefreshedOnce ==
    \A s, t \in sessions : s.op = "refresh" /\ t.op = "refresh" /\ s.used = t.used
                           => s = t

(***************************************************************************)
(* A client opens the keys it is answered with the secret it signed in     *)
(* with (routes/auth.rs, recover), even when the account is re-wrapped     *)
(* while its sign-in is under way.                                         *)
(***************************************************************************)
AnsweredKeysOpen ==
    \A s \in sessions : s.op \in {"login", "recover"} => s.wrapped = s.secret

-----------------------------------------------------------------------------
\* The invariant they rest on: what a handler's locals say of the tables.

\* The columns of the row are those of one registration or rewrap.
RowSealed == account # None => \E n \in 0..secrets - 1 : account = Sealed(n)

Issuing == {"access", "refresh", "touch", "reply"}

HandlersSound ==
    \A r \in Requests : requests[r] # None =>
        LET q == requests[r]
        IN  /\ account # None
            /\ q.step \in CASE q.op = "logout" -> {"revoke"}
                             [] q.op = "rewrap" -> {"load", "update", "revoke"}
                             [] q.op \in {"login", "recover"} -> Issuing
                             [] OTHER -> Issuing \cup {"load"}
            /\ q.step \in Issuing => q.wrapped \in Secret
            /\ q.step = "touch" => q.device # None
            /\ q.op \in {"login", "recover"} => q.wrapped = q.secret
            /\ q.op = "rewrap" => \E n \in 0..secrets - 1 : q.secret = Password(n)

\* A refresh token that a handler or an answer names is gone for good.
Spent(hash) == hash \in 0..minted - 1 /\ \A t \in tokens : t.hash # hash

Refreshing(r) == requests[r] # None /\ requests[r].op = "refresh"

RefreshesSound ==
    /\ \A r \in Requests : Refreshing(r) => Spent(requests[r].used)
    /\ \A s \in sessions : s.op = "refresh" => Spent(s.used)
    /\ \A q, r \in Requests :
          Refreshing(q) /\ Refreshing(r) /\ requests[q].used = requests[r].used => q = r
    /\ \A r \in Requests, s \in sessions :
          Refreshing(r) /\ s.op = "refresh" => s.used # requests[r].used

IInv == /\ TypeOK /\ HandlersSound /\ RefreshesSound
        /\ sessions # {} => account # None
        /\ RefreshedOnce /\ AnsweredKeysOpen /\ RowSealed

(***************************************************************************)
(* "Every existing session dies with the old password" (routes/auth.rs,    *)
(* rewrap): with no rewrap under way, every live token goes back to the    *)
(* password or recovery code the account has now, whatever overlapped the  *)
(* rewrap and wherever it stopped.                                         *)
(***************************************************************************)
OldSessionsEnd ==
    (\A r \in Requests : requests[r] = None \/ requests[r].op # "rewrap") =>
        \A t \in tokens : t.opened = account.auth_hash[2]
=============================================================================
