--------------------------- MODULE SessionsProofs ---------------------------
(***************************************************************************)
(* Refresh tokens are spent once and answered keys open, for every number  *)
(* of requests in progress and every interleaving of their calls, lost     *)
(* answers and crashes.                                                    *)
(***************************************************************************)
EXTENDS Sessions, TLAPS

\* Every invariant but the type invariant.
Promises == /\ HandlersSound /\ RefreshesSound
            /\ sessions # {} => account # None
            /\ RefreshedOnce /\ AnsweredKeysOpen /\ RowSealed

LEMMA IInvParts == IInv <=> TypeOK /\ Promises
BY DEF IInv, Promises

LEMMA InitIInv == Init => IInv
BY DEF Init, IInv, TypeOK, HandlersSound, RefreshesSound, Refreshing, RefreshedOnce,
       AnsweredKeysOpen, RowSealed

\* Sealed rows are rows, and say by which secret they were sealed.
LEMMA SealedIsAccount ==
    ASSUME NEW n \in Nat
    PROVE  /\ Sealed(n) \in Account /\ Sealed(n) # None
           /\ Password(n) \in Secret /\ Recovery(n) \in Secret
           /\ Password(n)[2] = n
BY NoneIsNoRecord DEF Sealed, Account, Password, Recovery, Secret

\* A row in the table was sealed by one secret, which its columns tell.
LEMMA AccountIsSealed ==
    ASSUME IInv, account # None
    PROVE  \E m \in 0..secrets - 1 :
              /\ account = Sealed(m)
              /\ account.auth_hash = Password(m) /\ account.wrapped = Password(m)
              /\ account.recovery_auth_hash = Recovery(m)
              /\ account.recovery_wrapped = Recovery(m)
BY DEF IInv, RowSealed, Sealed

-----------------------------------------------------------------------------
(***************************************************************************)
(* A request arrives: nothing it does disturbs another one.                *)
(***************************************************************************)

\* What may be said of a request that has just begun.
Fits(q, row, spentIn) ==
    /\ q \in Request /\ row # None
    /\ q.step \in CASE q.op = "logout" -> {"revoke"}
                    [] q.op = "rewrap" -> {"load", "update", "revoke"}
                    [] q.op \in {"login", "recover"} -> Issuing
                    [] OTHER -> Issuing \cup {"load"}
    /\ q.step \in Issuing => q.wrapped \in Secret
    /\ q.step = "touch" => q.device # None
    /\ q.op \in {"login", "recover"} => q.wrapped = q.secret
    /\ q.op = "rewrap" => \E n \in 0..spentIn - 1 : q.secret = Password(n)

LEMMA StillBelow ==
    ASSUME NEW a \in Nat, NEW b \in Nat, a \in 0..b, NEW n \in 0..a - 1
    PROVE  n \in 0..b - 1
OBVIOUS

LEMMA ArrivalKeeps ==
    ASSUME IInv, NEW r \in Requests, NEW q, requests[r] = None,
           requests' = [requests EXCEPT ![r] = q],
           Fits(q, account', secrets'),
           secrets \in 0..secrets', secrets' \in Nat,
           account # None => account' = account,
           account' \in Account \cup {None},
           RowSealed',
           tokens' \in SUBSET tokens,
           q.op = "refresh" => /\ \E t \in tokens : t.hash = q.used
                               /\ \A t \in tokens' : t.hash # q.used,
           UNCHANGED <<devices, sessions, minted, drops, now>>
    PROVE  IInv'
<1>1. q # None /\ q \in Request
  BY NoneIsNoRecord DEF Fits
<1>2. requests'[r] = q /\ \A p \in Requests \ {r} : requests'[p] = requests[p]
  BY DEF IInv, TypeOK
<1>3. TypeOK'
  <2>1. requests' \in [Requests -> Request \cup {None}]
    BY <1>1 DEF IInv, TypeOK
  <2> QED BY <2>1 DEF IInv, TypeOK
<1>4. HandlersSound'
  <2> SUFFICES ASSUME NEW p \in Requests, requests'[p] # None
               PROVE  Fits(requests'[p], account', secrets')
    BY DEF HandlersSound, Fits
  <2>1. CASE p = r
    BY <1>2, <2>1
  <2>2. CASE p # r
    <3>1. requests'[p] = requests[p] /\ requests[p] \in Request /\ account # None
      BY <1>2, <2>2 DEF IInv, TypeOK, HandlersSound
    <3>2. Fits(requests[p], account, secrets)
      <4>1. HandlersSound /\ requests[p] # None
        BY <1>2, <2>2 DEF IInv
      <4> QED BY <3>1, <4>1, Zenon DEF HandlersSound, Fits
    <3>3. \A n \in 0..secrets - 1 : n \in 0..secrets' - 1
      <4>1. secrets \in Nat
        BY DEF IInv, TypeOK
      <4> QED BY <4>1, StillBelow
    <3> QED BY <3>1, <3>2, <3>3 DEF Fits
  <2> QED BY <2>1, <2>2
<1>6. \A h : Spent(h) => Spent(h)'
  BY DEF Spent
<1>7. \A h : Spent(h) /\ q.op = "refresh" => h # q.used
  BY DEF Spent
<1>8. q.op = "refresh" => Spent(q.used)'
  BY DEF Spent, IInv, TypeOK, Token
<1>9. \A p \in Requests : Refreshing(p)' =>
         \/ p = r /\ q.op = "refresh"
         \/ p # r /\ Refreshing(p) /\ requests'[p] = requests[p]
  BY <1>2 DEF Refreshing
<1>10. RefreshesSound'
  <2>1. ASSUME NEW p \in Requests, Refreshing(p)'
        PROVE  Spent(requests[p].used)'
    <3>1. CASE p = r /\ q.op = "refresh"
      BY <1>2, <1>8, <3>1
    <3>2. CASE Refreshing(p) /\ requests'[p] = requests[p]
      <4>1. PICK h : h = requests[p].used
        OBVIOUS
      <4>2. Spent(h)
        BY <3>2, <4>1 DEF IInv, RefreshesSound
      <4>3. Spent(h)'
        BY <1>6, <4>2
      <4> QED BY <3>2, <4>1, <4>3
    <3> QED BY <1>9, <2>1, <3>1, <3>2
  <2>2. \A s \in sessions : s.op = "refresh" => Spent(s.used)'
    BY <1>6 DEF IInv, RefreshesSound
  <2>3. \A p, o \in Requests :
           Refreshing(p)' /\ Refreshing(o)' /\ requests'[p].used = requests'[o].used => p = o
    BY <1>2, <1>7, <1>9 DEF IInv, RefreshesSound
  <2>4. \A p \in Requests, s \in sessions :
           Refreshing(p)' /\ s.op = "refresh" => s.used # requests'[p].used
    BY <1>2, <1>7, <1>9 DEF IInv, RefreshesSound
  <2> QED BY <2>1, <2>2, <2>3, <2>4 DEF RefreshesSound
<1> QED BY <1>3, <1>4, <1>10 DEF IInv, RefreshedOnce, AnsweredKeysOpen, Fits

-----------------------------------------------------------------------------
(***************************************************************************)
(* A handler makes its next call, or ends.                                 *)
(***************************************************************************)

LEMMA ProgressKeeps ==
    ASSUME IInv, NEW r \in Requests, NEW q, requests[r] # None,
           requests' = [requests EXCEPT ![r] = q],
           Fits(q, account', secrets), account' \in Account \cup {None},
           q.op = requests[r].op, q.used = requests[r].used,
           RowSealed',
           tokens' \subseteq Token, minted' \in Nat, \A t \in tokens' : t.hash < minted',
           \A t, u \in tokens' : t.hash = u.hash => t = u,
           \A h : Spent(h) => Spent(h)',
           devices' \subseteq Clients,
           UNCHANGED <<sessions, secrets, drops, now>>
    PROVE  IInv'
<1>1. q # None /\ q \in Request /\ account' # None
  BY NoneIsNoRecord DEF Fits
<1>2. requests'[r] = q /\ \A p \in Requests \ {r} : requests'[p] = requests[p]
  BY DEF IInv, TypeOK
<1>3. TypeOK'
  <2>1. requests' \in [Requests -> Request \cup {None}]
    BY <1>1 DEF IInv, TypeOK
  <2>2. {secrets, minted, drops, now}' \subseteq Nat
    BY DEF IInv, TypeOK
  <2> QED BY <2>1, <2>2 DEF IInv, TypeOK
<1>4. HandlersSound'
  <2> SUFFICES ASSUME NEW p \in Requests, requests'[p] # None
               PROVE  Fits(requests'[p], account', secrets')
    BY DEF HandlersSound, Fits
  <2>1. CASE p = r
    BY <1>2, <2>1
  <2>2. CASE p # r
    <3>1. /\ requests'[p] = requests[p] /\ requests[p] # None
          /\ requests[p] \in Request /\ HandlersSound
      BY <1>2, <2>2 DEF IInv, TypeOK
    <3>2. Fits(requests[p], account', secrets)
      BY <1>1, <3>1, Zenon DEF HandlersSound, Fits
    <3> QED BY <3>1, <3>2
  <2> QED BY <2>1, <2>2
<1>5. \A p \in Requests : Refreshing(p)' =>
         Refreshing(p) /\ requests'[p].used = requests[p].used
  BY <1>2 DEF Refreshing
<1>6. RefreshesSound'
  <2>1. ASSUME NEW p \in Requests, Refreshing(p)'
        PROVE  Spent(requests[p].used)'
    <3>1. PICK h : h = requests[p].used
      OBVIOUS
    <3>2. Spent(h)
      BY <1>5, <2>1, <3>1 DEF IInv, RefreshesSound
    <3> QED BY <1>5, <2>1, <3>1, <3>2
  <2>2. \A s \in sessions : s.op = "refresh" => Spent(s.used)'
    BY DEF IInv, RefreshesSound
  <2>3. \A p, o \in Requests :
           Refreshing(p)' /\ Refreshing(o)' /\ requests'[p].used = requests'[o].used => p = o
    BY <1>5 DEF IInv, RefreshesSound
  <2>4. \A p \in Requests, s \in sessions :
           Refreshing(p)' /\ s.op = "refresh" => s.used # requests'[p].used
    BY <1>5 DEF IInv, RefreshesSound
  <2> QED BY <2>1, <2>2, <2>3, <2>4 DEF RefreshesSound
<1> QED BY <1>1, <1>3, <1>4, <1>6 DEF IInv, RefreshedOnce, AnsweredKeysOpen

\* What is left when a handler is gone.
LEMMA EndKeeps ==
    ASSUME IInv, NEW r \in Requests, End(r), tokens' \subseteq tokens, drops' \in Nat,
           UNCHANGED <<account, devices, secrets, minted, now>>
    PROVE  /\ HandlersSound' /\ RowSealed'
           /\ \A p \in Requests : Refreshing(p)' =>
                 p # r /\ Refreshing(p) /\ requests'[p] = requests[p]
           /\ \A h : Spent(h) => Spent(h)'
           /\ sessions' \subseteq Session => TypeOK'
<1>1. requests'[r] = None /\ \A p \in Requests \ {r} : requests'[p] = requests[p]
  BY DEF IInv, TypeOK, End
<1>2. requests' \in [Requests -> Request \cup {None}]
  BY DEF IInv, TypeOK, End
<1>3. sessions' \subseteq Session => TypeOK'
  BY <1>2 DEF IInv, TypeOK
<1>4. HandlersSound'
  BY <1>1 DEF IInv, HandlersSound
<1> QED BY <1>1, <1>3, <1>4 DEF IInv, RowSealed, Refreshing, Spent

LEMMA GoneStep ==
    ASSUME IInv, NEW r \in Requests, End(r), tokens' \subseteq tokens, drops' \in Nat,
           UNCHANGED <<account, devices, secrets, minted, now, sessions>>
    PROVE  IInv'
<1>1. TypeOK' /\ HandlersSound' /\ RowSealed'
  BY EndKeeps DEF IInv, TypeOK
<1>2. /\ \A p \in Requests : Refreshing(p)' => Refreshing(p) /\ requests'[p] = requests[p]
      /\ \A h : Spent(h) => Spent(h)'
  BY EndKeeps
<1>3. RefreshesSound'
  <2>1. ASSUME NEW p \in Requests, Refreshing(p)'
        PROVE  Spent(requests[p].used)'
    <3>1. PICK h : h = requests[p].used
      OBVIOUS
    <3>2. Spent(h)
      BY <1>2, <2>1, <3>1 DEF IInv, RefreshesSound
    <3> QED BY <1>2, <2>1, <3>1, <3>2
  <2>2. \A s \in sessions : s.op = "refresh" => Spent(s.used)'
    BY <1>2 DEF IInv, RefreshesSound
  <2> QED BY <1>2, <2>1, <2>2 DEF IInv, RefreshesSound
<1> QED BY <1>1, <1>3 DEF IInv, RefreshedOnce, AnsweredKeysOpen

LEMMA ReplyStep ==
    ASSUME IInv, NEW r \in Requests, Reply(r)
    PROVE  IInv'
<1> DEFINE q == requests[r]
           new == [op |-> q.op, secret |-> q.secret, used |-> q.used,
                   access |-> q.access, refresh |-> q.refresh, wrapped |-> q.wrapped]
<1>1. /\ q # None /\ q.step = "reply" /\ End(r) /\ sessions' = sessions \cup {new}
      /\ UNCHANGED <<account, tokens, devices, secrets, minted, drops, now>>
  BY DEF Reply, At
<1>2. /\ account # None /\ q.wrapped \in Secret /\ q \in Request
      /\ q.op \in {"register", "login", "recover", "refresh"}
      /\ q.op \in {"login", "recover"} => q.wrapped = q.secret
  BY <1>1 DEF IInv, TypeOK, HandlersSound, Issuing, Request
<1>3. new \in Session
  BY <1>2 DEF Session, Request
<1>4. TypeOK' /\ HandlersSound' /\ RowSealed'
  BY <1>1, <1>3, EndKeeps DEF IInv, TypeOK
<1>5. \A p \in Requests : Refreshing(p)' =>
         p # r /\ Refreshing(p) /\ requests'[p] = requests[p]
  BY <1>1, EndKeeps DEF IInv, TypeOK
<1>6. \A h : Spent(h) => Spent(h)'
  BY <1>1 DEF Spent
<1>7. new.op = "refresh" => Refreshing(r)
  BY <1>1 DEF Refreshing
<1>8. RefreshesSound'
  <2>1. ASSUME NEW p \in Requests, Refreshing(p)'
        PROVE  Spent(requests[p].used)'
    <3>1. PICK h : h = requests[p].used
      OBVIOUS
    <3>2. Spent(h)
      BY <1>5, <2>1, <3>1 DEF IInv, RefreshesSound
    <3> QED BY <1>5, <1>6, <2>1, <3>1, <3>2
  <2>2. ASSUME NEW s \in sessions', s.op = "refresh"
        PROVE  Spent(s.used)'
    <3>1. CASE s \in sessions
      BY <1>6, <2>2, <3>1 DEF IInv, RefreshesSound
    <3>2. CASE s = new
      <4>1. Spent(s.used)
        BY <1>7, <2>2, <3>2 DEF IInv, RefreshesSound
      <4> QED BY <1>6, <4>1
    <3> QED BY <1>1, <3>1, <3>2
  <2>3. \A p, o \in Requests :
           Refreshing(p)' /\ Refreshing(o)' /\ requests'[p].used = requests'[o].used => p = o
    BY <1>5 DEF IInv, RefreshesSound
  <2>4. \A p \in Requests, s \in sessions' :
           Refreshing(p)' /\ s.op = "refresh" => s.used # requests'[p].used
    BY <1>1, <1>5, <1>7 DEF IInv, RefreshesSound
  <2> QED BY <1>5, <2>1, <2>2, <2>3, <2>4 DEF RefreshesSound
<1>9. RefreshedOnce'
  BY <1>1, <1>7 DEF IInv, RefreshedOnce, RefreshesSound
<1>10. AnsweredKeysOpen'
  BY <1>1, <1>2 DEF IInv, AnsweredKeysOpen
<1> QED BY <1>1, <1>2, <1>4, <1>8, <1>9, <1>10 DEF IInv

-----------------------------------------------------------------------------
(***************************************************************************)
(* The arrivals, one by one.                                               *)
(***************************************************************************)

LEMMA RegisterStep ==
    ASSUME IInv, NEW r \in Requests, NEW device \in Clients, Register(r, device)
    PROVE  IInv'
<1>1. PICK n, q :
        /\ n = secrets
        /\ q = [Blank EXCEPT !.op = "register", !.step = "load", !.device = device,
                             !.secret = Password(n), !.opened = n]
  OBVIOUS
<1>2. /\ requests[r] = None /\ requests' = [requests EXCEPT ![r] = q]
      /\ account = None /\ account' = Sealed(n) /\ secrets' = n + 1 /\ n \in Nat
      /\ UNCHANGED <<tokens, devices, sessions, minted, drops, now>>
  BY <1>1 DEF Register, Begin, IInv, TypeOK
<1>3. q \in Request /\ q.op = "register" /\ q.step = "load"
  BY <1>1, <1>2, SealedIsAccount DEF Blank, Request, Steps
<1>4. Fits(q, account', secrets')
  BY <1>2, <1>3, SealedIsAccount DEF Fits, Issuing
<1>5. RowSealed'
  BY <1>2 DEF RowSealed
<1>6. secrets \in 0..secrets' /\ secrets' \in Nat /\ account' \in Account \cup {None}
  BY <1>1, <1>2, SealedIsAccount
<1> QED BY <1>2, <1>3, <1>4, <1>5, <1>6, ArrivalKeeps

LEMMA SignInStep ==
    ASSUME IInv, NEW r \in Requests, NEW device \in Clients,
           Login(r, device) \/ Recover(r, device)
    PROVE  IInv'
<1>1. /\ account # None /\ requests[r] = None
      /\ UNCHANGED <<account, tokens, devices, sessions, secrets, minted, drops, now>>
  BY DEF Login, Recover, Begin
<1>2. PICK m \in 0..secrets - 1 :
        /\ account.auth_hash = Password(m) /\ account.wrapped = Password(m)
        /\ account.recovery_auth_hash = Recovery(m)
        /\ account.recovery_wrapped = Recovery(m)
  BY <1>1, AccountIsSealed
<1> DEFINE Locals(op, n, secret, wrapped) ==
             [Blank EXCEPT !.op = op, !.step = "access", !.device = device,
                           !.secret = secret, !.opened = n, !.wrapped = wrapped,
                           !.issued = now]
           By(op, n, secret, wrapped) ==
             \/ op = "login" /\ secret = Password(n) /\ wrapped = account.wrapped
                   /\ secret = account.auth_hash
             \/ op = "recover" /\ secret = Recovery(n) /\ wrapped = account.recovery_wrapped
                   /\ secret = account.recovery_auth_hash
<1>3. PICK op, n, secret, wrapped, q :
        /\ n \in 0..secrets - 1
        /\ requests' = [requests EXCEPT ![r] = q]
        /\ By(op, n, secret, wrapped) /\ q = Locals(op, n, secret, wrapped)
  <2>1. CASE Login(r, device)
    <3>1. PICK n \in 0..secrets - 1 :
             /\ By("login", n, Password(n), account.wrapped)
             /\ requests' = [requests EXCEPT ![r] = Locals("login", n, Password(n), account.wrapped)]
      BY <2>1 DEF Login, Begin
    <3>2. PICK secret, wrapped : secret = Password(n) /\ wrapped = account.wrapped
      OBVIOUS
    <3>3. PICK q : q = Locals("login", n, secret, wrapped)
      OBVIOUS
    <3>4. By("login", n, secret, wrapped) /\ requests' = [requests EXCEPT ![r] = q]
      BY <3>1, <3>2, <3>3
    <3> HIDE DEF By, Locals
    <3> QED BY <3>3, <3>4
  <2>2. CASE Recover(r, device)
    <3>1. PICK n \in 0..secrets - 1 :
             /\ By("recover", n, Recovery(n), account.recovery_wrapped)
             /\ requests' = [requests EXCEPT ![r] = Locals("recover", n, Recovery(n), account.recovery_wrapped)]
      BY <2>2 DEF Recover, Begin
    <3>2. PICK secret, wrapped : secret = Recovery(n) /\ wrapped = account.recovery_wrapped
      OBVIOUS
    <3>3. PICK q : q = Locals("recover", n, secret, wrapped)
      OBVIOUS
    <3>4. By("recover", n, secret, wrapped) /\ requests' = [requests EXCEPT ![r] = q]
      BY <3>1, <3>2, <3>3
    <3> HIDE DEF By, Locals
    <3> QED BY <3>3, <3>4
  <2> QED BY <2>1, <2>2
<1>4. secret = wrapped /\ secret \in Secret /\ op \in {"login", "recover"} /\ n \in Nat
  <2>1. secrets \in Nat
    BY DEF IInv, TypeOK
  <2> QED BY <1>2, <1>3, <2>1, SealedIsAccount
<1>5. /\ q \in Request /\ q.op = op /\ q.step = "access"
      /\ q.wrapped = wrapped /\ q.secret = secret
  <2>1. now \in Nat
    BY DEF IInv, TypeOK
  <2> QED BY <1>3, <1>4, <2>1 DEF Blank, Request, Steps
<1>6. Fits(q, account', secrets')
  BY <1>1, <1>4, <1>5 DEF Fits, Issuing
<1>7. RowSealed'
  BY <1>1 DEF IInv, RowSealed
<1>8. secrets \in 0..secrets' /\ secrets' \in Nat /\ account' \in Account \cup {None}
  <2>1. secrets \in Nat
    BY DEF IInv, TypeOK
  <2> QED BY <1>1, <2>1 DEF IInv, TypeOK
<1> QED BY <1>1, <1>3, <1>4, <1>5, <1>6, <1>7, <1>8, ArrivalKeeps

\* An issued session, and so every token a client knows, has an account.
LEMMA SessionHasAccount ==
    ASSUME IInv, NEW s \in sessions
    PROVE  account # None
BY DEF IInv

LEMMA RefreshStep ==
    ASSUME IInv, NEW r \in Requests, Refresh(r)
    PROVE  IInv'
<1>1. PICK t, q :
        /\ t \in tokens /\ sessions # {}
        /\ q = [Blank EXCEPT !.op = "refresh", !.step = "load",
                             !.used = t.hash, !.opened = t.opened]
        /\ requests[r] = None /\ requests' = [requests EXCEPT ![r] = q]
        /\ tokens' = tokens \ {t}
        /\ UNCHANGED <<account, devices, sessions, secrets, minted, drops, now>>
  BY DEF Refresh, Begin, ConsumeToken, Live
<1>2. t \in tokens /\ t \in Token /\ account # None
  BY <1>1 DEF IInv, TypeOK
<1>3. /\ q \in Request /\ q.op = "refresh" /\ q.step = "load" /\ q.used = t.hash
  BY <1>1, <1>2 DEF Blank, Request, Steps, Token
<1>4. Fits(q, account', secrets')
  BY <1>1, <1>2, <1>3 DEF Fits, Issuing
<1>5. \A u \in tokens' : u.hash # q.used
  BY <1>1, <1>2, <1>3 DEF IInv, TypeOK
<1>6. RowSealed' /\ tokens' \in SUBSET tokens
  BY <1>1 DEF IInv, RowSealed
<1>7. secrets \in 0..secrets' /\ secrets' \in Nat /\ account' \in Account \cup {None}
  <2>1. secrets \in Nat
    BY DEF IInv, TypeOK
  <2> QED BY <1>1, <2>1 DEF IInv, TypeOK
<1> QED BY <1>1, <1>2, <1>3, <1>4, <1>5, <1>6, <1>7, ArrivalKeeps

LEMMA LogoutStep ==
    ASSUME IInv, NEW r \in Requests, Logout(r)
    PROVE  IInv'
<1>1. PICK q :
        /\ q = [Blank EXCEPT !.op = "logout", !.step = "revoke"]
        /\ requests[r] = None /\ requests' = [requests EXCEPT ![r] = q]
        /\ account # None
        /\ UNCHANGED <<account, tokens, devices, sessions, secrets, minted, drops, now>>
  BY SessionHasAccount DEF Logout, Begin
<1>2. q \in Request /\ q.op = "logout" /\ q.step = "revoke"
  BY <1>1 DEF Blank, Request, Steps
<1>3. Fits(q, account', secrets')
  BY <1>1, <1>2 DEF Fits, Issuing
<1>4. RowSealed'
  BY <1>1 DEF IInv, RowSealed
<1>5. secrets \in 0..secrets' /\ secrets' \in Nat /\ account' \in Account \cup {None}
  <2>1. secrets \in Nat
    BY DEF IInv, TypeOK
  <2> QED BY <1>1, <2>1 DEF IInv, TypeOK
<1> QED BY <1>1, <1>2, <1>3, <1>4, <1>5, ArrivalKeeps

LEMMA RewrapStep ==
    ASSUME IInv, NEW r \in Requests, Rewrap(r)
    PROVE  IInv'
<1>1. PICK n, q :
        /\ n = secrets
        /\ q = [Blank EXCEPT !.op = "rewrap", !.step = "load", !.secret = Password(n)]
  OBVIOUS
<1>2. /\ requests[r] = None /\ requests' = [requests EXCEPT ![r] = q]
      /\ account # None /\ secrets' = n + 1 /\ n \in Nat
      /\ UNCHANGED <<account, tokens, devices, sessions, minted, drops, now>>
  BY <1>1, SessionHasAccount DEF Rewrap, Begin, IInv, TypeOK
<1>3. q \in Request /\ q.op = "rewrap" /\ q.step = "load" /\ q.secret = Password(n)
  BY <1>1, <1>2, SealedIsAccount DEF Blank, Request, Steps
<1>4. n \in 0..secrets' - 1 /\ secrets \in 0..secrets' /\ secrets' \in Nat
  BY <1>1, <1>2
<1>5. Fits(q, account', secrets')
  BY <1>2, <1>3, <1>4 DEF Fits, Issuing
<1>6. RowSealed'
  BY <1>1, <1>2, <1>4, StillBelow DEF IInv, RowSealed
<1>7. account' \in Account \cup {None}
  BY <1>2 DEF IInv, TypeOK
<1> QED BY <1>2, <1>3, <1>4, <1>5, <1>6, <1>7, ArrivalKeeps

-----------------------------------------------------------------------------
(***************************************************************************)
(* The calls after the first, one by one.                                  *)
(***************************************************************************)

\* What the locals of a request in progress are.
LEMMA LocalsFit ==
    ASSUME IInv, NEW r \in Requests, requests[r] # None
    PROVE  Fits(requests[r], account, secrets)
<1>1. requests[r] \in Request /\ account # None /\ HandlersSound
  BY DEF IInv, TypeOK, HandlersSound
<1> QED BY <1>1, Zenon DEF HandlersSound, Fits

\* A step that changes nothing but where its handler is, and its locals.
LEMMA MoveKeeps ==
    ASSUME IInv, NEW r \in Requests, NEW q, requests[r] # None,
           requests' = [requests EXCEPT ![r] = q],
           Fits(q, account, secrets), q.op = requests[r].op, q.used = requests[r].used,
           devices' \subseteq Clients,
           UNCHANGED <<account, tokens, sessions, secrets, minted, drops, now>>
    PROVE  IInv'
<1>1. account' \in Account \cup {None} /\ Fits(q, account', secrets)
  BY DEF IInv, TypeOK
<1>2. RowSealed' /\ \A h : Spent(h) => Spent(h)'
  BY DEF IInv, RowSealed, Spent
<1>3. /\ tokens' \subseteq Token /\ minted' \in Nat /\ \A t \in tokens' : t.hash < minted'
      /\ \A t, u \in tokens' : t.hash = u.hash => t = u
  BY DEF IInv, TypeOK
<1> QED BY <1>1, <1>2, <1>3, ProgressKeeps

LEMMA LoadStep ==
    ASSUME IInv, NEW r \in Requests, LoadAccount(r)
    PROVE  IInv'
<1>1. /\ requests[r] # None /\ requests[r].step = "load" /\ requests[r] \in Request
      /\ Fits(requests[r], account, secrets)
      /\ UNCHANGED <<account, tokens, devices, sessions, secrets, minted, drops, now>>
  BY LocalsFit DEF LoadAccount, At, IInv, TypeOK
<1>2. devices' \subseteq Clients
  BY <1>1 DEF IInv, TypeOK
<1>3. CASE requests[r].op = "rewrap"
  <2>1. PICK q : q = [requests[r] EXCEPT !.step = "update"]
    OBVIOUS
  <2>2. requests' = [requests EXCEPT ![r] = q]
    BY <1>3, <2>1 DEF LoadAccount, Goto
  <2>3. q \in Request /\ q.op = "rewrap" /\ q.used = requests[r].used
        /\ q.step = "update" /\ q.secret = requests[r].secret
    BY <1>1, <1>3, <2>1 DEF Request, Steps
  <2>4. Fits(q, account, secrets)
    BY <1>1, <1>3, <2>3 DEF Fits, Issuing
  <2> QED BY <1>1, <1>2, <1>3, <2>2, <2>3, <2>4, MoveKeeps
<1>4. CASE requests[r].op # "rewrap"
  <2>1. PICK q : q = [requests[r] EXCEPT !.step = "access", !.issued = now,
                                         !.wrapped = account.wrapped]
    OBVIOUS
  <2>2. requests' = [requests EXCEPT ![r] = q]
    BY <1>4, <2>1 DEF LoadAccount
  <2>3. requests[r].op \notin {"logout", "rewrap", "login", "recover"}
    BY <1>1, <1>4 DEF Fits, Issuing
  <2>4. account.wrapped \in Secret /\ now \in Nat
    BY <1>1 DEF IInv, TypeOK, Account, Fits
  <2>5. /\ q \in Request /\ q.op = requests[r].op /\ q.used = requests[r].used
        /\ q.step = "access" /\ q.wrapped \in Secret
    BY <1>1, <2>1, <2>4 DEF Request, Steps
  <2>6. Fits(q, account, secrets)
    BY <1>1, <2>3, <2>5 DEF Fits, Issuing
  <2> QED BY <1>1, <1>2, <2>2, <2>5, <2>6, MoveKeeps
<1> QED BY <1>3, <1>4

LEMMA PutTokenStep ==
    ASSUME IInv, NEW r \in Requests, NEW kind \in {"access", "refresh"}, NEW ttl \in Nat,
           NEW after \in Issuing, after = "touch" => requests[r].device # None,
           PutToken(r, kind, ttl, after)
    PROVE  IInv'
<1> DEFINE t == [hash |-> minted, kind |-> kind,
                 expires_at |-> requests[r].issued + ttl, opened |-> requests[r].opened]
<1>1. /\ requests[r] # None /\ requests[r].step = kind /\ requests[r] \in Request
      /\ Fits(requests[r], account, secrets)
      /\ tokens' = tokens \cup {t} /\ minted' = minted + 1 /\ minted \in Nat
      /\ UNCHANGED <<account, devices, sessions, secrets, drops, now>>
  BY LocalsFit DEF PutToken, At, IInv, TypeOK
<1>2. PICK q : q = [requests[r] EXCEPT !.step = after, ![kind] = minted]
  OBVIOUS
<1>3. requests' = [requests EXCEPT ![r] = q]
  BY <1>1, <1>2 DEF PutToken, IInv, TypeOK
<1>4. /\ q \in Request /\ q.op = requests[r].op /\ q.used = requests[r].used
      /\ q.step = after /\ q.wrapped = requests[r].wrapped /\ q.secret = requests[r].secret
      /\ q.device = requests[r].device
  <2>1. CASE kind = "access"
    BY <1>1, <1>2, <2>1 DEF Request, Steps, Issuing
  <2>2. CASE kind = "refresh"
    BY <1>1, <1>2, <2>2 DEF Request, Steps, Issuing
  <2> QED BY <2>1, <2>2
<1>5. requests[r].op \notin {"logout", "rewrap"} /\ requests[r].wrapped \in Secret
  BY <1>1 DEF Fits, Issuing
<1>6. Fits(q, account, secrets)
  BY <1>1, <1>4, <1>5 DEF Fits, Issuing
<1>7. t \in Token /\ t.hash = minted
  BY <1>1 DEF Token, Request
<1> HIDE DEF t
<1>8. /\ tokens' \subseteq Token /\ minted' \in Nat /\ \A u \in tokens' : u.hash < minted'
      /\ \A u, v \in tokens' : u.hash = v.hash => u = v
  <2>1. \A u \in tokens : u.hash \in Nat /\ u.hash < minted
    BY DEF IInv, TypeOK, Token
  <2> QED BY <1>1, <1>7, <2>1 DEF IInv, TypeOK
<1>9. \A h : Spent(h) => Spent(h)'
  BY <1>1, <1>7 DEF Spent
<1>10. RowSealed'
  BY <1>1 DEF IInv, RowSealed
<1>11. account' \in Account \cup {None} /\ devices' \subseteq Clients
  BY <1>1 DEF IInv, TypeOK
<1> QED BY <1>1, <1>3, <1>4, <1>6, <1>8, <1>9, <1>10, <1>11, ProgressKeeps

LEMMA TouchStep ==
    ASSUME IInv, NEW r \in Requests, TouchDevice(r)
    PROVE  IInv'
<1>1. /\ requests[r] # None /\ requests[r].step = "touch" /\ requests[r] \in Request
      /\ Fits(requests[r], account, secrets)
      /\ devices' = devices \cup {requests[r].device}
      /\ UNCHANGED <<account, tokens, sessions, secrets, minted, drops, now>>
  BY LocalsFit DEF TouchDevice, At, IInv, TypeOK
<1>2. PICK q : q = [requests[r] EXCEPT !.step = "reply"]
  OBVIOUS
<1>3. requests' = [requests EXCEPT ![r] = q]
  BY <1>2 DEF TouchDevice, Goto
<1>4. /\ q \in Request /\ q.op = requests[r].op /\ q.used = requests[r].used
      /\ q.step = "reply" /\ q.wrapped = requests[r].wrapped
      /\ q.secret = requests[r].secret
  BY <1>1, <1>2 DEF Request, Steps
<1>5. Fits(q, account, secrets)
  BY <1>1, <1>4 DEF Fits, Issuing
<1>6. devices' \subseteq Clients
  BY <1>1 DEF IInv, TypeOK, Request, Fits
<1> QED BY <1>1, <1>3, <1>4, <1>5, <1>6, MoveKeeps

LEMMA UpdateStep ==
    ASSUME IInv, NEW r \in Requests, UpdateAccount(r)
    PROVE  IInv'
<1>1. /\ requests[r] # None /\ requests[r].step = "update" /\ requests[r] \in Request
      /\ Fits(requests[r], account, secrets)
      /\ account' = Sealed(requests[r].secret[2])
      /\ UNCHANGED <<tokens, devices, sessions, secrets, minted, drops, now>>
  BY LocalsFit DEF UpdateAccount, At, IInv, TypeOK
<1>2. requests[r].op = "rewrap"
  BY <1>1 DEF Fits, Issuing, Request
<1>3. PICK n \in 0..secrets - 1 : requests[r].secret = Password(n)
  BY <1>1, <1>2 DEF Fits
<1>4. n \in Nat /\ account' = Sealed(n)
  <2>1. secrets \in Nat
    BY DEF IInv, TypeOK
  <2> QED BY <1>1, <1>3, <2>1, SealedIsAccount
<1>5. account' \in Account \cup {None} /\ account' # None
  BY <1>4, SealedIsAccount
<1>6. PICK q : q = [requests[r] EXCEPT !.step = "revoke"]
  OBVIOUS
<1>7. requests' = [requests EXCEPT ![r] = q]
  BY <1>6 DEF UpdateAccount, Goto
<1>8. /\ q \in Request /\ q.op = "rewrap" /\ q.used = requests[r].used
      /\ q.step = "revoke" /\ q.secret = requests[r].secret
  BY <1>1, <1>2, <1>6 DEF Request, Steps
<1>9. Fits(q, account', secrets)
  BY <1>3, <1>5, <1>8 DEF Fits, Issuing
<1>10. RowSealed' /\ \A h : Spent(h) => Spent(h)'
  BY <1>1, <1>4 DEF RowSealed, Spent
<1>11. /\ tokens' \subseteq Token /\ minted' \in Nat /\ \A t \in tokens' : t.hash < minted'
       /\ \A t, u \in tokens' : t.hash = u.hash => t = u /\ devices' \subseteq Clients
  BY <1>1 DEF IInv, TypeOK
<1>12. devices' \subseteq Clients
  BY <1>1 DEF IInv, TypeOK
<1> QED BY <1>1, <1>2, <1>5, <1>7, <1>8, <1>9, <1>10, <1>11, <1>12, ProgressKeeps

LEMMA StepStep ==
    ASSUME IInv, NEW r \in Requests, Step(r)
    PROVE  IInv'
<1>1. CASE PutAccess(r)
  BY <1>1, PutTokenStep, SessionsAssumption DEF PutAccess, Issuing
<1>2. CASE PutRefresh(r)
  <2>1. CASE requests[r].device = None
    BY <1>2, <2>1, PutTokenStep, SessionsAssumption DEF PutRefresh, Issuing
  <2>2. CASE requests[r].device # None
    BY <1>2, <2>2, PutTokenStep, SessionsAssumption DEF PutRefresh, Issuing
  <2> QED BY <2>1, <2>2
<1>3. CASE RevokeTokens(r)
  BY <1>3, GoneStep DEF RevokeTokens, IInv, TypeOK
<1> QED BY <1>1, <1>2, <1>3, LoadStep, TouchStep, UpdateStep, ReplyStep DEF Step

LEMMA DropStep ==
    ASSUME IInv, NEW r \in Requests, Drop(r)
    PROVE  IInv'
<1>1. drops' \in Nat
  BY DEF Drop, IInv, TypeOK
<1> QED BY <1>1, GoneStep DEF Drop

LEMMA TickStep ==
    ASSUME IInv, Tick \/ UNCHANGED vars
    PROVE  IInv'
<1>1. /\ UNCHANGED <<account, tokens, devices, requests, sessions, secrets, minted, drops>>
      /\ now' \in Nat
  BY DEF Tick, vars, IInv, TypeOK
<1>2. TypeOK'
  BY <1>1 DEF IInv, TypeOK
<1>3. HandlersSound' /\ RefreshesSound'
  BY <1>1 DEF IInv, HandlersSound, RefreshesSound, Refreshing, Spent
<1>4. RefreshedOnce' /\ AnsweredKeysOpen' /\ RowSealed'
  BY <1>1 DEF IInv, RefreshedOnce, AnsweredKeysOpen, RowSealed
<1> QED BY <1>1, <1>2, <1>3, <1>4 DEF IInv

-----------------------------------------------------------------------------
(***************************************************************************)
(* Every table, local and answer is what the handlers' order of calls      *)
(* makes it, whatever runs between two of them.                            *)
(***************************************************************************)
THEOREM SessionsInvariance == Spec => []IInv
<1>1. IInv /\ [Next]_vars => IInv'
  <2> SUFFICES ASSUME IInv, [Next]_vars PROVE IInv'
    OBVIOUS
  <2>1. ASSUME NEW r \in Requests, Arrival(r) PROVE IInv'
    BY <2>1, RegisterStep, SignInStep, RefreshStep, LogoutStep, RewrapStep DEF Arrival
  <2>2. ASSUME NEW r \in Requests, Step(r) \/ Drop(r) PROVE IInv'
    BY <2>2, StepStep, DropStep
  <2>3. CASE Tick \/ UNCHANGED vars
    BY <2>3, TickStep
  <2> QED BY <2>1, <2>2, <2>3 DEF Next, Idle
<1> QED BY <1>1, InitIInv, PTL DEF Spec

(***************************************************************************)
(* No refresh token buys two sessions: "two concurrent refreshes cannot    *)
(* both succeed" (store/sqlite.rs, consume_token).                         *)
(***************************************************************************)
THEOREM RefreshTokensAreSingleUse == Spec => []RefreshedOnce
BY SessionsInvariance, PTL DEF IInv

(***************************************************************************)
(* A sign-in by password or by recovery code answers keys that the same    *)
(* secret opens, across a rewrap that runs meanwhile (routes/auth.rs).     *)
(***************************************************************************)
THEOREM SignInsOpenTheirKeys == Spec => []AnsweredKeysOpen
BY SessionsInvariance, PTL DEF IInv
=============================================================================
