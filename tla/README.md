# A TLA+ model of remotier-sync

`remotier-sync` stores encrypted records and routes them between the devices of
an account and between the members of a shared group. This directory holds TLA+
modules translated from its source, TLC configurations that check them on small
instances, and TLAPS proofs of the properties that matter most for every size.

Paths below are relative to the repository root; `server/src` is shortened to
`server` and `crates/remotier-sync-proto/src` to `proto`.

## 1. Inventory

| Component | State it keeps | Operations | Interacts with |
|---|---|---|---|
| Conflict rule, `proto/merge.rs` | none | `resolve`, `clock_is_plausible` | devices call `resolve`; push calls `clock_is_plausible`; the stores repeat the rule in SQL |
| Wire format, `proto/record.rs`, `api.rs` | none | envelopes and their associated data, pages, answers | every request |
| Envelope crypto, `proto/crypto.rs` | none | deriving keys from a password or a code, sealing, wrapping a group key | clients only; the server stores what it makes |
| Store contract, `server/store/mod.rs` | | one method per query | all handlers |
| SQLite store, `server/store/sqlite.rs` | tables `records`, `sequence`, `shares`, `accounts`, `tokens`, `devices` | `put_envelope` is a transaction, everything else one statement | WAL readers beside one writer, a pool of 4 connections |
| PostgreSQL store, `server/store/postgres.rs` | the same tables, `record_seq` | one autocommitted statement each | row locks, a pool of 16 connections |
| Push and pull, `server/routes/sync.rs` | a handler's `now`, its caches `writable` and `owners`, its answers | `push`, `pull`, `refuse` | awaits the store up to three times per envelope |
| Sharing, `server/routes/shares.rs` | none | `create`, `remove`, `mine`, `list` | the `shares` table, read by push and pull; its blobs open with account keys |
| Accounts and sessions, `server/routes/auth.rs`, `server/auth.rs` | handler locals | `register`, `login`, `refresh`, `recover`, `rewrap`, `logout`, `keys`, `lookup`, the `Caller` extractor | `accounts`, `tokens`, `devices` |
| Rate limiter, `server/ratelimit.rs` | instants per address under a mutex | `check` | `register`, `login`, `recover` call it first |
| Devices, instance, router, errors, configuration, health check | none | read-only endpoints, wiring | |
| Client devices (another repository) | local copies and where they are filed, dirty records, a cursor; keys in memory | edit, move, push, pull, merge; derive, seal, open | the HTTP API |

What makes the system hard:

* **Interleaving.** Handlers run concurrently and every `await` on the store is a
  point where others run. `push` asks for membership, then for the owner, then
  writes, and caches the first two for the batch.
* **Order.** A cursor is a position in one instance-wide log. Anything that makes
  a row appear behind a cursor hides it for ever: numbers taken before commits,
  shares granted late, rows that keep an old number.
* **Failure.** A handler may die with its batch half written; a response may be
  lost after everything was written; a transaction may fail at any statement; the
  process may restart; a client may give up while its handler goes on.
* **Time.** Clocks are the devices' own, up to a day ahead; the server's `now` is
  read once per batch and per session; the limiter reads its clock before it waits.
* **Equal clocks.** A write with the clock that is stored is dropped everywhere, so
  one clock must never name two versions, wherever a record is moved meanwhile.
* **Keys.** The server keeps terms only a client can open. A request that is late,
  lost or overtaken must not leave it with one that nobody can.
* **Sessions.** Tokens are put one by one while other requests revoke them, and a
  re-wrap replaces an account row other handlers have read.

What makes each component correct:

* conflict rule: both sides decide alike, whoever compares (`ResolveIsWins`,
  `BothSidesAgree`);
* stores: a put is one step, none is lost, readers miss nothing (`ImplementsLog`,
  `ImplementsOpenLog`, `NoLostUpdate`, `RowsOnlyGetNewer`, `NothingSkipped`);
* push and pull: answers are durable, accepted clocks are plausible, pages have no
  holes and an end (`IInv`, `PullIInv`, `NothingSkipped`, `OwnNothingSkipped`,
  `PullsMakeProgress`, `RowsAdvance`);
* sharing: one record is one row (`OneRowPerRecord`, `HomeIInv`);
* devices: what is called clean is stored, a clock names one version, copies never go
  back, and they converge (`CleanMeansStored`, `OneVersionPerClock`, `CopiesAdvance`,
  `QuietMeansConverged`, `EventuallyConverged`);
* sessions: a refresh token is spent once, answered keys open, old sessions end
  (`RefreshedOnce`, `AnsweredKeysOpen`, `OldSessionsEnd`);
* keys: one password and one code open every account, and whoever is let in reads
  what it pulls and is answered the key of (`DoorsOpen`, `NewDeviceReads`);
* limiter: what it still bounds although callers wait, and who may be refused
  (`LimitHolds` in `IInv`, `RefusalsAreEarned`).

`PROJECT.json` lists every component with its status, and every hazard at its line.

## 2. Modules

```
Merge ── RecordTable ─┬─ LwwLog, OpenLog             the abstract logs
                      ├─ PullReader ─┬─ SqliteStore ── MCSqliteStore
                      │              └─ PostgresStore ── MCPostgresStore
                      └─ SyncServer ── SyncSystem ── SyncProperties ── MCSyncSystem
Sessions ── MCSessions
EnvelopeCrypto ─┬─ KeyVault ── MCKeyVault
Merge ──────────┘
RateLimit ── MCRateLimit
RecordTableProofs ─┬─ SqliteStoreProofs, PostgresStoreProofs
                   └─ SyncServerProofs ── SyncSystemProofs
SessionsProofs, KeyVaultProofs, RateLimitProofs
```

**Merge.** `Resolve` is `resolve`; `Wins` is the `WHERE` of both stores' upserts,
written separately in Rust and in SQL, so that their agreement is a theorem and
not a definition. Device ids are strings compared byte by byte: integer ranks.

**RecordTable.** The `records` table as a function from keys (account, id) to rows
or `None`. A record's kind is part of its id. `Takes`/`Upsert` are the upsert,
`Visible` the pull's `WHERE`, `FirstBySeq` its `ORDER BY seq LIMIT`, `PullPage` the
handler's one-row-over paging. A record is filed in a place: its `group_id`, which
pulls are filtered by, and its `key_ref`, which pushes are routed by; the two need
not agree, and an edit may change both. Payloads, nonces,
`parent_id` and `sort` are not modelled; a tombstone is an ordinary write, so
`deleted_at` is not either. `large` says the ciphertext is over `max_record_bytes`.

**LwwLog.** What `Store::put_envelope` promises: one atomic step per call, which
takes the next number and writes its row at the end of the log if it is newer.
**OpenLog** is what is left of it without SQLite's single writer: a number is taken
first and settled later, at most once and atomically, so a reader may be past one that
is still open.

**SqliteStore.** `put_envelope` statement by statement: `Begin` (deferred, locks
nothing), `BumpSequence` (takes the write lock), `UpsertRecord`, `Commit`,
`RollBack` (a failed statement, a busy database, a dropped future), `Restart`.
`draft` is what the writer has not committed. `ReaderPull` is a device that pulls
the committed snapshot over and over. `Log!Spec` is the refinement: uncommitted
steps are stutters and `Commit` is the abstract `Put`.

**PostgresStore.** The same method as PostgreSQL runs its one statement: `NextVal`
takes a number without a lock, `LockRow` waits for the row and evaluates the
`WHERE` on the committed version, `Commit` makes the row visible, `Abort` burns
the number. `ImplementsOpenLog` refines it to `OpenLog`: the open numbers are those of
the statements in progress, and a `Commit` is a `Settle` on the row as it is then, which
is right only because the row's lock was held since the clocks were compared. PostgreSQL
is external; its default isolation level, READ COMMITTED,
is assumed, as `PostgresStore::connect` sets none.

**SyncServer.** `push` with one action per await: `StartPush` (reads `now`, empty
caches), `RefuseEnvelope`, `AskWritable`, `RefuseNonMember`, `AskOwner`,
`PutEnvelope`, `FinishPush`; `CancelPush` is a handler that dies. `push[w]` holds
exactly the handler's locals. `put_envelope` is one step here, which is what
`SqliteStore` shows; the composed system is thus the server over SQLite
(`ServerRefinesLog`).
`ShareOwner` may return any owner of the group: the SQL has `LIMIT 1` and no order.
`Tick` only goes forward. `now_ms` reads the wall clock (`store/mod.rs:133`), which an
administrator or a time service can set back; a row stored before that may then be
further ahead than the skew. That it is not set back is an assumption, and
`StoredClocksArePlausible` is the only property here that needs it.

**SyncSystem.** The server with its devices. The client is in another repository:
its actions (`Edit`, `BeginPush`, `ReceivePush`, `ReceivePull`, and losing requests
and responses) follow what `merge.rs`, `record.rs` and `api.rs` ask of it, and
`PROJECT.json` marks them external. A device pushes all it has dirty as one batch,
in any order; it calls a record clean when the answer is Accepted or Stale *and* its
copy is still the one it pushed; it merges each pulled envelope with `Resolve`. It
stamps an edit with its own clock (`Offset` from the server's) but never below the
copy it replaces, unless `RawStamps` is TRUE. That is a requirement on clients which
the crate does not state: `merge.rs:15-16` promises that both devices reach the same
answer, and a device that stamped an edit with its bare clock, below a copy from a
faster one, would be answered Stale and keep a version nobody else has. `Filings` says
where a device's user may file a record or move it to, and `Edit` moves it.

**SyncProperties.** What they achieve together, and the inductive invariants. `Copies`
are all versions of records there are: in the table, on devices, in batches and pages.

**Sessions.** One account: each handler's `step` is the store call it makes next.
`Register`, `Login`, `Recover`, `Refresh`, `Logout` and `Rewrap` are a request's
first call (before it the request has no effect, and one that is turned away never
has any); `LoadAccount`, `PutToken`, `TouchDevice`, `UpdateAccount`, `RevokeTokens` and
`Reply` are the rest; `Drop` is an error, a closed connection or a crash. Secrets
are numbered by the registration or re-wrap that chose them, and a wrapped blob is
the secret that opens it. Clients send only tokens they received and secrets that
were set. The columns `account_public` and `email` never change and are left out.

**EnvelopeCrypto.** `crypto.rs` symbolically: a derived key, a sealed text, a wrapped
key and a public key are records that say what they were made from, and opening one
compares. An address as it is typed has a mailbox and two kinds of capitals, since
`to_ascii_lowercase` and the stores' `to_lowercase` treat them differently.

**KeyVault.** The key-bearing columns of `accounts`, `shares` and `records`, and what
devices can open. `CreateAccount` and `RewrapAccount` serve requests from `wire`, which
may be delayed, overtaken or lost; the answer a client does not get is a device that
signs in instead. `SignIn` tries any password and code its person ever chose, in any
spelling, through `Login` and `Recover`, which return the unlocked keys or a refusal.
`Forget` is a restart: the account's keys are never on disk.

Group keys reach a device in two ways only, and `ring` is what it has: its person
founded the group and drew the key on this device (`DrawGroupKey`), or `Mine` answered
it a share, whose blob it unwrapped. `Share` has the handler's checks and no others:
anybody may share any group with any other account, and a pair shared again keeps its
`owner_id`. What is assumed of the client, which is external, is that it shares a key it
has, wrapped for a public key it looked up before, and that a group's key is drawn once.

A push is a handler with a step for each await (`AskWritable`, `AskOwner`,
`PutEnvelope`), between which shares come and go; the account it files the record under
is what `share_owner` answered, or the caller when no share is left, and a group without
shares is writable by everybody. Rows carry both `group_id`, by which `Pulled` selects
them, and `key_ref`, by which `Routing` sends them and which names the key that seals
them. A device may file a record in a group and seal it with its personal key.
`NewDeviceReads` therefore claims a pulled row only where the server has a key to answer
(`KeyIsAnswered`): the account's own rows under its personal key, and rows under the key
of a group that is shared with it. It claims nothing of three kinds of rows a device may
pull and cannot open from what the server has: rows under a group's key in the account
of its founder (a new device of the founder is answered no share) or of a member whose
share was removed, rows of other accounts filed in a shared group under a personal key,
and rows under a group's key whose `group_id` is that of another group.

**RateLimit.** `check` as two steps: `ReadClock` takes the instant, `Check` is what runs
under the mutex (sweep, count, record or refuse). `admitted` is history: every attempt
that was let through, with the instant it read and the time it took the mutex.

Operators named `Broken...` are deliberately wrong variants of the definition that
follows them (a dropped guard, a missing reset, a swapped order). Nothing uses
them; `PROJECT.json` pairs each property with one, and putting it in the
definition's place makes TLC report that property violated.

## 3. Runs

| Run | Checks | States |
|---|---|---|
| `sqlite_store` | `IInv`, `NoLostUpdate`, `NothingSkipped`, `PullsMakeProgress`, `ImplementsLog` | 28 k |
| `postgres_store` | `IInv`, `NoLostUpdate`, `RowsOnlyGetNewer`, `ImplementsOpenLog` | 36 k |
| `postgres_skips` | `NothingSkipped`: **violated** | |
| `sync_shared` | `NothingSkipped`, `OneRowPerRecord`, `OneVersionPerClock`, `CleanMeansStored`, `QuietMeansConverged`, `PullIInv`, `HomeIInv`, `RowsAdvance`, `EventuallyConverged` | 138 k |
| `sync_churn` | `IInv`, `PullIInv`, `OwnNothingSkipped`, `VersionIInv`, `CopiesAdvance` | 847 k |
| `late_share` | `NothingSkipped`: **violated** | |
| `split_row` | `OneRowPerRecord`: **violated** | |
| `sessions` | `IInv`, `RefreshedOnce`, `AnsweredKeysOpen` | 992 k |
| `sessions_overlap` | `OldSessionsEnd`: **violated** | |
| `rate_limit` | `IInv`, `RefusalsAreEarned` | 608 k |
| `key_vault` | `IInv`, `DoorsOpen`, `NewDeviceReads` | 476 k |
| `email_spelling` | `DoorsOpen`: **violated** | |

Bounds, and why they are enough:

* **Stores.** Two connections, two records, four writes: two of `r1` tie on the
  clock, one is later, one is of `r2`. Two writers are enough for every race on one
  row and on the sequence, and `MaxSeq = 4` lets each put twice, so a burnt number,
  a lost race and a second round all occur. `MaxPage = 1` puts a page boundary
  between any two rows.
* **sync_shared.** Owner and member of a group, a device each, the member's clock two
  ticks ahead; one record, which the owner moves in and out of the group with any edit.
  Three edits give a concurrent pair and an edit of its winner, made by the device with
  the slower clock. One loss; sharing again may happen, removal may not. The instance
  meets `OneHome` and `NoLateShares`, the hypotheses of the proofs below; `split_row`
  and `late_share` are what happens without the one and the other.
* **sync_churn.** The group id starts shared by alice with carol; alice and carol may
  both share it with bob, and alice's shares are removed at any time, so that a batch
  meets every answer of `can_write_group` and `share_owner`, fresh or cached, and two
  owners. `r1` is filed in the group under the group's key or still under alice's own,
  and bob may take it to his account; `r2` is too large. A skew of zero makes an edit
  of an edit within one tick implausible until the tick. Pages of one row; two edits
  and one loss.
* **late_share, split_row.** The smallest instances with the actions
  each needs.
* **sessions.** One account, two concurrent requests, three sessions, two
  generations of secrets, one dropped handler, one tick with `AccessTtl = 1` and
  `RefreshTtl = 2`: an access token expires while its refresh token lives. Two
  requests are enough for each property, which relate two handlers at most. The
  requests are symmetric. `sessions_overlap` allows no drop, so that the violation
  is due to the overlap alone.
* **rate_limit.** Two callers at a time, two addresses, a window of two ticks, two
  attempts allowed, five calls over five ticks: the window fills, expires and fills
  again while a caller still waits with an instant from before. Callers and addresses
  are symmetric. It ends when its calls are used up, so deadlock is not checked.
* **key_vault.** Two people with a device each, three choices of a password and a code
  for one of them: two registrations, two rewraps, or a rewrap beside a registration that
  comes too late, may be under way together and are served in any order. One share, made
  and removed; one record and one number: the record that is put may be sealed under the
  group's key or a personal one, filed in the group or not, by either person, and every
  change of shares may come before, between and after its awaits. A second share of one
  group, a second row and a second device of one person were run apart (`MaxWraps = 2`
  with one password each; `People = {ada}` and `MaxSeq = 2`) and are too large together.
  Every bound may be used up, so deadlock is not checked.
* **email_spelling.** One person with two devices and an accented address.

`MaxSeq = 20` in the system's runs is never reached; edits and losses bound them.

### What the violated runs show

1. `postgres_skips`: `nextval` numbers a row before it commits. A pull between two
   overlapping commits can pass a number whose row appears later, and never
   return it (`postgres.rs:188`). SQLite's transaction excludes this (proved).
2. `late_share`: the pull filters by `seq > cursor` before it looks at shares, so rows
   written before a share stay behind the new member's cursor (`sqlite.rs:241`). A
   client would have to start from 0 again; nothing says so.
3. `split_row`: a share removed between `can_write_group` and `share_owner` (or
   between two envelopes, behind the caches) makes the group look unshared, and the
   member's edit becomes a second row under the member (`routes/sync.rs:107`).
4. `sessions_overlap`: a login, recover or refresh that passed its check before a
   re-wrap can put its tokens after the revocation (`routes/auth.rs:215`).
5. `email_spelling`: the stores find an account by `to_lowercase`, the key derivation uses
   `to_ascii_lowercase` (`crypto.rs:114`). An address registered in lower case and later
   typed with a capital outside A to Z, or the other way round, is one account and two
   keys.

Five more disagreements have no run of their own:

* The claim that `sessions_overlap` refutes fails without an overlap too. A re-wrap is two
  statements; an error, a closed connection or a crash between them sets the new password
  and revokes nothing (`routes/auth.rs:211-215`). With `MaxDrops = 1` and
  `Requests = {q1}` TLC finds it: a registration, then a re-wrap that is dropped.
* `api.rs:173-174` says looking up a user "is rate limited and requires authentication";
  `lookup` (`routes/auth.rs:128`) takes a `Caller` but does not call `guard`, as
  `register`, `login` and `recover` do.
* `config.rs:12` says refresh tokens "live until they are used or revoked", but they
  expire after 90 days (`auth.rs:21`).
* `api.rs:168` says Stale means "a newer version already exists"; a repeated push of the
  stored version is answered Stale too, which is why `Settled` takes Stale as success.
* `split_row` needs no race if members may move records: a member that takes a group
  record to its own key gets a row of its own beside the owner's, though "the same host is
  the same id everywhere" (`record.rs:68`); with `Filings <- BobTakesR1` and no removals
  TLC finds it in the same instance.

### Fairness

`FairSpec` is used where `EventuallyConverged` is checked. The server runs each
handler it accepted to its end (`WF` of `Handle` and `FinishUnheard`: tokio polls every
ready task and the store answers), its clock goes on, and a client syncs again and
again (`WF` of pushing, pulling and reading responses). Strong fairness is not
needed, because losses are bounded by `MaxLosses` and a device that waits either
receives its response or gives up. Edits, losses and shares are never owed. A
loss that happened for ever would, rightly, prevent convergence.

## 4. Proofs

`RecordTableProofs` has the facts about clocks and the table. `ResolveIsWins` and
`BothSidesAgree` say that Rust and SQL decide alike and that two devices shown each
other's version end with the same one. `Wins` is a strict order and `Covers` its
reflexive closure; an upsert keeps what a row covered (`Stored` is stable) and only
advances the log. `PageHasNoHoles` is the paging argument: every visible row
between the cursor a pull was given and the cursor it returns is in the page. It
rests on finite cardinalities: the rows before one that was left out fill the page.
`PagesMakeProgress` is its counterpart for a client that loops: a page is empty only at
the end, one that is not moves the cursor, and `more` is exact. The row that makes it
exact is the first one left out: all that come before it are in the page, so it is
within the one more that is fetched. It needs that no two rows share a number.

`SqliteStoreProofs`. `IInv` says that the write lock and the calls agree and that the
writer's draft is the committed state plus what its call has done. From it follow
`Invariance`, `PutsAreKept` (no lost update), `ReaderMissesNothing`, `PullsComeToAnEnd`
(with `PlacesStayApart`: numbers of rows differ) and `Refinement`:
`Commit` is the abstract `Put`, every other step a stutter. Without the draft's
clause the commit could not be mapped, since the rows it writes were computed two
steps earlier.

`SyncServerProofs` shows each handler step keeps `ServerIInv`. Its core is
`AnswersAreDurable`, which is not inductive alone: the row an answer refers to is
found through the owners cache, so the cache entry of an answered group must never
change (`AnsweredOwnersKnown`).

`SyncSystemProofs` extends this to devices. `CleanMeansStored` needs that answers
under way are durable, that what pages carry is in the table (`PagesAreStored`) and
that dirty records exist (`DirtyIsLocal`); all of it is `IInv`, and `AnswersStayTrue`,
`StoredClocksStayPlausible` (for a wall clock that is not set back, see `Tick`) and
`RowsOnlyAdvance` follow from it. `ServerRefinesLog`
closes the gap to the stores: in all interleavings of handlers and devices the table
and the sequence behave as `LwwLog`, which `SqliteStore` implements.

What devices hold is proved in steps, the last resting on all before it. All but the
fourth assume `~RawStamps`: a device never stamps an edit at or below the copy it
replaces.

* *No copy goes back.* `CopiesOnlyAdvance`: a merged page and an edit replace a copy by
  a strictly newer one, so a page read before an edit never undoes it. A page is merged
  in one step; `MergingOneByOne` says that resolving its envelopes one after another
  ends with the same clock.
* *No row is skipped.* `PullIInv` (`PullsAreComplete`): a page under way has every row
  the device is owed up to its cursor, and merging it leaves the device at or above each
  of its envelopes (`MergedCovers`). A device is owed its account's rows and those of
  the groups its account has been in all along (`Lasting`). `OwnRowsReachTheDevice` is
  the account's half, whatever happens to shares; `NothingIsSkipped` is all of
  `NothingSkipped`, when nobody becomes a member late (`NoLateShares`).
* *One clock, one version.* `ClocksNameVersions` is about all copies at once: a step
  other than an edit only moves copies (`Copies` of the new state are among those of the
  old one), and an edit makes one whose clock is above every copy its device made, since
  no author is behind a version of its own (`AuthorsAreAhead`).
* *One record, one row.* `OneHome` says what clients must keep to: records are made and
  moved by their own account only, under its own key or that of a group nobody else
  shares, and no share is removed. Then each row is under the home account
  (`RecordsStayHome`, `OneRecordOneRow`). The invariant `HomeIInv` has to say more than
  that: every copy of the record, wherever it is, is filed by its home or
  under a key its home shares; who holds it without being home knows a group that has
  members; and in a batch, where `can_write_group` and `share_owner` may have been asked
  long ago, no cached owner is anyone else (`LeadsHome`). Without the last the put of a
  member could still go astray, as `split_row` shows once shares are removed.
* *At rest, all agree.* `QuietIsConverged` puts these together. If nothing is dirty,
  under way or left to pull, a reader's copy covers the row, since nothing is skipped;
  the row covers its copy, since it is clean and there is only one row; so both have one
  clock, which names one version. What is left to liveness is only that the system does
  come to rest.

`PostgresStoreProofs`. `IInv` says that numbers of rows and of statements in progress
are all different, and that a statement with the row lock still has the answer the
`WHERE` would give now (`RowLocksHold`). From it follow `PostgresPutsAreKept`,
`PostgresRowsGetNewer` and `PostgresRefinement`.

`SessionsProofs`. `IInv` says what a handler's locals are worth while others run: which
step it may be at, that its wrapped keys belong to its secret, and that a refresh token
named by a handler or an answer is gone for good and named once (`RefreshesSound`).
Since a hash is minted once, no later token brings it back. That the account row comes
from one registration or one re-wrap (`RowSealed`) is only a step towards
`AnsweredKeysOpen`: the code sets it in one statement.

`KeyVaultProofs`. `IInv` says whose keys every term holds, in the tables and under way:
one pair of keys under both doors of an account, and a rewrap under way carries the
keys the account has (`RequestsSound`). So a late rewrap changes which password opens
the account, never what is opened; and rows, blobs and looked-up keys stay good
because an account's keys never change. Whatever a device has in its ring is the group's
key (`RingsSound`), so every share's blob opens to it (`SharesSound`). A row is sealed
with the group's key its `key_ref` names, or else with the personal key of the account
it is filed under (`SealedUnder`, `RowsSound`); for a push between its awaits the same
holds of the account found so far, because only a record with a group's key is sent to
another account than the caller's (`PushesSound`). Nothing is said of which account a
group's record ends under: with the last share gone it is the pusher's.
`DoorsOpenTheorem` assumes `Accented = {}`; the run `email_spelling` is what happens
otherwise. `NewDeviceReadsTheorem` does not.

`RateLimitProofs`. `RateLimitInvariant` bounds the attempts in any span of the clock by
the time its attempts waited for the mutex. It needs that an attempt is only forgotten
when it is a window old (`Remembered`): a sweep's instant may be old, never ahead.

The assumptions are those on the constants: finite sets of accounts and ids, integer
device ids, a positive page size, window and limit, and null values that are not values
of another kind (`NoneIsNoRow` and the like). TLC evaluates all of them in every run.

Only model-checked: `EventuallyConverged`, which is liveness under fairness, out of the
prover's reach. Its safety part, that rest means agreement, is `QuietIsConverged`.
Every other property of a passing run is stated by a theorem. `OneHome` and
`NoLateShares` are predicates on the constants that say which requests the environment
makes; `sync_shared` satisfies both, so its run and these theorems speak of the same
instances, and `sync_churn`, which satisfies neither, checks what is proved without them.

## 5. Not modelled

* Payload structs, JSON and base64, nonces and lengths: computations over bytes that no
  property here tells apart. Tombstones carry no payload, and `KeyVault` has none.
* The read-only endpoints `keys`, `list`, `devices` and `instance`. `keys` and `refresh`
  answer blobs under the password also to a session opened with a code; what a client
  does with them is not stated.
* Input validation (`validate_email`, empty recovery material, `registration_open`) and
  start-up, configuration and the health check: none has state.
* `max_seq` in the push response: the modelled devices keep the cursor of their pulls.
* Rotating a group's key after a share was removed: work of the client, and `KeyRef`
  names a group without a version. A founder's other devices get a group key in a way
  the repository does not show: `create` refuses sharing with oneself, and `mine` answers
  shares of the caller only.

## 6. Plan

Done: the record log from the SQL of both stores to the devices, records that move,
groups with two owners, sessions, keys, the limiter, and proofs of all their safety
properties.

1. Sessions: a client that can always sign in again (liveness).
2. A client that adopts the push response's cursor, against `max_seq` of both stores.
