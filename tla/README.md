# SimpleVault in TLA+

SimpleVault is a self-hosted, end-to-end encrypted password and notes vault: a
NestJS API (`apps/api`) on PostgreSQL and Redis, a Next.js client (`apps/web`), a
small operator CLI (`apps/cli`) and three packages (`crypto`, `db`, `shared`). The
production compose file runs one API container against one PostgreSQL, at the
default isolation level READ COMMITTED, and one Redis.

The server stores ciphertext, so its own logic is who may do what, for how long,
and what happens when two requests meet. The client has the other half: several
tabs, timers and effects, keys in memory, and what is encrypted under which key.
This directory models both.

## 1. Inventory

| Component | State | Operations | Correct when | Hard because | Module |
|---|---|---|---|---|---|
| Refresh sessions (`auth/sessions/session.service.ts`) | rows of `user_sessions` | log in, rotate, log out, revoke one, revoke all | one live row per family, a token is redeemed once, a dead family stays dead | row locks, statement snapshots | `RefreshFamilies` |
| Session epoch (`session-epoch.cache.ts`) | `users.session_epoch`, a Redis key, an in-flight map, a generation map | `get`, `bust`, `bumpEpoch` | a bump is seen; the cache never falls behind a bust | reads and busts meet at every `await`; Redis fails, the process restarts | `EpochCache` |
| Endpoints and guard (`auth/*`, `sessions`, `jwt-auth.guard.ts`) | access tokens out in the world | sign in (three ways), refresh, log out, revoke, pass the guard | after a revocation no token of the revoked rows is accepted | rows, epoch and cache change in separate steps | `Sessions` |
| Second factor (`twofa/`) | TOTP and WebAuthn credentials, nonces, challenges, step-up tokens | enrol, verify, ceremonies, remove | codes, nonces and challenges are used once | read-then-write without transactions | `TwoFactor` |
| Invites and signup (`invite/`, `auth/signup/`, `apps/cli`) | `invite_codes`, `users`, personal `vaults` | issue, redeem, sign up | one account per code and address, never half written | two signups with one code | `Signup` |
| Sharing (`vault-sharing/`) | `vaults`, `vault_memberships` | create, invite, accept, decline, remove | memberships move only as promised; the two access rules agree | checks and writes are separate statements | `Sharing` |
| Credentials (`credentials/`, the credential pages) | versioned rows; a tab's baseline and draft | create, edit, save, resolve a conflict, delete | no password is lost; every save is computed from the row it replaces | several tabs; a load effect that runs again | `CredentialEditor` |
| Pages (`pages/`, the page editor) | versioned rows, ten earlier versions; baseline, draft, dialog | save, favourite, restore, delete | history is the last versions; a copy is what its version says | overlapping PATCHes from one page | `PageEditor` |
| Lists (`vault/page.tsx`, `vaults/[id]`, `pages/page.tsx`) | lists, decrypted cards, reuse map, searches | load, search, decrypt, count reuse | cards and badges keep up with their list | effects, idle callbacks and answers without an order | `VaultList`, `PageList` |
| Password generator (`lib/passwords/generator.ts`) | the dialog's options and output | generate, shuffle, choose | every enabled class appears, whatever is drawn | rejection sampling and a shuffle | `Generator` |
| Shared-vault keys (`key-store.ts`, the vault pages) | keys in the tabs' stores, in boxes, in credentials | create, invite, accept, leave, save, lock, sign in | under a vault's name there is that vault's key | locks and reloads overtake handlers; a store outlives its user's sign-in | `SharedKeys` |
| Client session (`lib/auth`) | tokens, timers, flights, one cookie for all tabs | bootstrap, renew, leave and enter the tree, lock, log out | a mounted page with a token goes on renewing it | timers, tabs, lost answers, effects that are cleaned up | `ClientSession` |
| Accounts (`signup`, `login`, `login/2fa`, key derivations) | the users row of ciphertexts; wizard, login and step-up pages | sign up, sign in, step up, renew, go back and forward, enrol | what is stored can be opened; a token and keys of one account stay together | parameters change between steps; stores outlive pages; all tabs have one cookie | `Account` |
| Throttler, timing floor, exception filter | Redis counters (external) | around every handler | | | not modelled |
| Schema, health, me, rendering | | | | | not modelled |

How they interact. The guard runs before every non-public handler and reads the
epoch through the cache. Login, refresh and the second-factor endpoints write a
session row first and ask for the epoch afterwards; `revokeOne` and `revokeAll`
write rows, then the epoch, then bust the cache; logout writes rows only.
`Require2FAGuard` counts the second factors before each sharing handler. The web
client reaches all of it with a refresh cookie shared by its tabs and a bearer
token each tab holds in memory; a renewed token makes every page's load effect run
again, which is why the editors and the lists have a step for it at any time.

`PROJECT.json` lists every hazard at its line, with the properties that cover it
or the reason why none does.

## 2. Modules

Abstract specifications and what implements them:

| Abstract | Promise | Implemented by | Shown by |
|---|---|---|---|
| `EpochRegister` | an epoch that only grows; reads lag, but not behind the last settled bump | `EpochCache` | TLC `ImplementsRegister`, TLAPS `Refinement` |
| `Tickets` | issued to one holder, redeemed once, by a request that acts for the holder, never after it lapsed | `TwoFactor` (nonces and challenges), `Signup` (codes) | TLC `ImplementsTickets`, `CodesAreTickets`; TLAPS `Refinement` (`TwoFactor_proofs`), `CodesRedeemOnce` |
| `Membership` | founder owns for good; in by invitation and acceptance, out by removal; a declined invitation is final | `Sharing` | TLC `ImplementsMembership`, TLAPS `Refinement` |

`SharedKeys` in turn takes `Membership`, not `Sharing`, for its server, and
`Sessions` takes `EpochRegister` for the cache: the refinements are what makes
that sound.

Compositions. `Sessions` runs the row statements of `RefreshFamilies` itself (its
actions, on the same variables) inside the endpoints, and adds the epoch.
`Server` (`Sharing`, `Signup`), `Editors` (`CredentialEditor`, `PageEditor`,
`PageList`, `VaultList`, `Generator`) and `Client` (`SharedKeys`, `ClientSession`,
`Account`) put together parts that share *no* variable. Their joint behaviours are
all interleavings of the parts', and no property relates two parts, so a behaviour
has one part "in focus" (chosen from the constant `Scope` in the initial state)
and the others rest. The state space is then the sum of the parts' and not their
product. `PartsRun` of each proof module is the theorem behind this: a behaviour of
the composition is one of each part. `MC…` modules add symmetry sets and constant values for TLC.

### RefreshFamilies, EpochCache, Sessions

A row *is* the refresh token it stores; a family is named by its root row. A
request in `req` is at a statement boundary of its handler. `RotateLock` is
`SELECT … FOR UPDATE` with the verdicts in the order of the code; `RotateCommit` is
INSERT, UPDATE and COMMIT, one step because nothing of a transaction is seen
before it commits. `…Snapshot` and `…Revoke` split each `UPDATE … SET revoked_at`:
the statement picks its rows from a snapshot, waits until nobody holds one of
them, and never looks for rows committed in between, which is what PostgreSQL
documents for READ COMMITTED. A circular wait, which PostgreSQL breaks by failing
one transaction, appears as `Fail`.

`EpochCache` has `get` as the Redis GET, a hit or a flight in the in-flight map,
the database read, and the SET that is skipped when a bust changed the
generation. With `Faults` a GET, SET or DEL may fail, a read may reject and the
process may restart. In `EpochRegister` the clause that matters is `ShareRead`: a
read may inherit the older start of another, because `JoinFlight` lets it.

`Sessions` runs each endpoint as a sequence of actions in the order of the code.
Access tokens are never removed from `access`: expiry only removes behaviours. It
has no row actions of its own, so that its rows behave like `RefreshFamilies`' is no
result: what is checked of it is what rows, epoch, cache and tokens do together.

### TwoFactor

A ticket is a TOTP issuance nonce (Redis, GETDEL) or a WebAuthn challenge (one row
per user and kind, upserted by begin, DELETE … RETURNING by finish). No handler
opens a transaction, so requests are overtaken between any two statements and die
anywhere. `VerifyTotp` is the one conditional UPDATE on `last_used_step`;
`LookupKey` and `StoreCounter` are the SELECT and the unconditional UPDATE of the
signature counter, with authenticators (external) that count and sign. A request
that redeemed a ticket or used a method stays `done` for the properties to see, so
its slot in `Requests` is spent; all other requests come back. `removeGuarded`
reduces to its DELETE, since `userHasSharedVaultDependency` is constantly false.
In `Tickets` a redemption names the request and the party it acts for, and the
party must be the holder. `ConsumeNonce` takes a stranger's nonce out of the store
and then refuses it: a `Lapse`.

### Signup and Sharing

`Signup`: what an open transaction wrote is in its request until `Commit`; row
locks and uncommitted entries of a unique index make others wait (guards over the
other requests). `Sharing`: the guard's count (`Enter`), then each SELECT, INSERT,
UPDATE and DELETE as a step of its own; `removeMember` is a transaction with a row
lock (`Holds`). Two facts of the code shape it. The last-owner guard runs
`SELECT COUNT(*) … FOR UPDATE`, which PostgreSQL rejects, so removing an owner
always fails (`CountOwners`). And the 409 of a repeated invitation is looked for on
the wrong error object, so the caller gets a generic error (`InsertInvite`).

### CredentialEditor and PageEditor

One row, the API's compare-and-swap on its version, and tabs. `GetById` and
`Loaded` are the load effect, which runs again whenever the token is renewed: it
moves a credential tab's baseline and keeps its draft, and replaces a page visit's
draft. `Save`/`Update`/`SelectAfterMiss`/`Refetch`/`Proceed`/`CancelSave` follow
`onSave` and the merge prompt. The blob carries the version it was bound to in its
additional data (`bound`), and `Decrypts` says when it opens. A page's PATCH is one
transaction whose first statement locks the row, so `Patch` is one step; three
buttons send PATCHes without waiting for one another. `CredentialOverwrite` adds
an auxiliary variable, the version the user of a tab knows of.

### PageList, VaultList, Generator

The lists' effects as they are cancelled, or not, in the code: a decrypt or bulk
run is dropped when its list or token changes; a search answer is not. In
`VaultList` the server's answer and its arrival are one step, because rows that
change on the way make the list as stale as rows that change later; a card's
request and answer are one step for the same reason. `PageList` also has the
API's `prefixRange` with the digits and width as constants. In `Generator` each
random number is a step, so behaviours are outcomes; the rejection of `randInt`
is `Random`. The list `enabled` is the set of classes chosen with `Rank`, the index
of a class in it, and the joined string `all` is the set of its places (`All`): an
index drawn into the one is a place of the other.

### SharedKeys, ClientSession, Account

`SharedKeys` follows a vault's key from its creator's tab through boxes to other
tabs. `Wipe` zero-fills arrays in place, so a key that the invite page took from
the store earlier becomes `Blank`. A sign-in writes five named keys and clears
none, and the way to the login page need not be a page load: `SignIn` puts another
user's keys beside the vault keys that are there, `Refresh` the token of whomever
the cookie names; `realm` remembers whose tokens the page has had since it was loaded.

`ClientSession` counts a tab's pending timeouts apart from the one its `timer`
variable refers to (`handle`), because the catch branch overwrites the variable.
`Unmount` leaves the authed tree without a page load: the effects are cleaned up,
the token stays; what is still on its way is `LeftBehind` and only moves the cookie.
`Mount` enters the tree with a token that is live, expired or missing; an expired
one is renewed by the bootstrap and by its timer at once. The server is the
current-or-replayed view of `RefreshFamilies`.

`Account` has derivations and ciphers as terms that are equal when all inputs are;
`Recalibrate` changes the server's Argon2 parameters between any two steps. `Go`
moves between the login, second-factor and authed pages without a page load, so
that their stores live on; `Load` is a page load. `cookie` is the set of accounts the
browser's one refresh cookie may name: `Login` and `Finalize` set it, a lost answer
may have, `OtherTab` stands for all other tabs and makes it any account; `Renew`
and the bootstrap in `Enter` take whichever it names. `Login` stores the token and
`Unlock` tries what was typed, as the code does.

## 3. Runs

| Run | Shows | Instance |
|---|---|---|
| `refresh_safety` | `TypeOK`, `OneLiveRow`, `RedeemedOnce`, `FamilyDeathIsFinal`, `RevokesOwnRows` | 2 users, 2 requests of every kind, 3 rows, expiry |
| `refresh_liveness` | `RequestsTerminate` | logins and refreshes, 2 requests, 3 rows |
| `cache` | `TypeOK`, `CacheKeepsUpWithBusts`, `ImplementsRegister`, `Converges`, `GetsEnd` | 3 callers, 2 bumps, all faults |
| `sessions_safety` | `TypeOK`, `RevokedFamiliesAreOut`, `DrainedIsFinal` | 2 requests of every kind, 3 rows, 2 bumps |
| `sessions_faults` | `RevokedFamiliesAreOut` | 2 requests, 2 rows, 2 bumps, faults, expiry |
| `two_factor` | `TypeOK`, `CodeOnce`, `PasswordAlone`, `OnlyOverlapLowersCounter`, `ImplementsTickets` | 2 users, 1 TOTP credential, 1 passkey, 3 tickets, 3 requests |
| `server` | `TypesOK`, `RulesAgree`, `RemovedOnce`, `AccountsAreWhole`, `ImplementsMembership`, `CodesAreTickets` | 1 vault, 2 users, 3 rows or codes, 3 requests |
| `editors` | `TypesOK`, `PasswordsAreKept`, `SavesBuildOnTheRow`, `HistoryIsTheLastVersions`, `CopiesAreTrue`, `ListsAreTrue`, `SearchFindsTheTitle`, `EveryClassAppears` | see below |
| `client` | `TypesOK`, `OwnKeyOrBlank`, `HeldAfterJoining`, `ChainUnbroken`, `AccountOpens`, `RightKeysOnly` | 2 users, 2 vaults, 2 tabs; 2 accounts, 1 wizard, 1 browser with any number of other tabs |

Three runs end in a violation, each of one property that a plan or a comment of
the repository states:

* `refresh_revoke_all_race`: `revokeAllForUser` is said to revoke *every*
  non-revoked row. Its UPDATE waits for a row that a rotation has locked; the
  rotation commits a successor outside the UPDATE's snapshot; the family survives.
* `credential_overwrite`: the phase plan promises a merge prompt when two tabs
  save. A token renewal moves the slower tab's baseline under its draft, and its
  save then replaces the other tab's edit with no prompt. (`PasswordsAreKept` says
  what still holds: the replaced password is in the history.)
* `second_factor`: the step-up page says it stashes the key material and then
  redirects. The redirect is a page load, which throws the key store away.

Bounds, by name, and why they are enough. `Tokens` (rows; `RowsExhausted` fails an
INSERT): a race on one row needs the contended row and two would-be successors.
`MaxEpoch`: one bump for a token of a revoked family, a second for a stranded one.
`Requests`: two on one row race; a third lets a ticket be redeemed by one, replaced
by another and presented by a third. `MaxStep` and `MaxCount` 2: a value, a higher
one and a replay of either. `Rows` 3: an invitation, a removal and a second
invitation of the same user. `MaxVersion` 3 with `HistoryMax` 1: the history
overflows once. `PageMaxVersion` 3 with `PageHistoryMax` 1: a snapshot is trimmed
twice. `ListMaxVersion` and `VaultMaxVersion` 2: a row is stale once. `MaxByte` 2
and `Width` 3: the token sought ends in two highest bytes, so that `prefixRange`
carries over both, and the other page has the very next token. `Bytes` 8, `Bytes16` 16 and charsets
of one and two characters: rejection happens, and every outcome of the draws is
explored. `MaxTimers` 3: a timeout that nothing refers to beside one that is, and a
request. `MaxReach` 2: two pages with a signed-in past and one vault, or one page and
two vaults. `MaxFactors` 1: one second factor is enrolled at a time.
`MaxParams` 2: the parameters change once, at any moment. `Synced = {}`: the one
passkey counts; passkeys that always send 0 never take the interesting branch.
Accounts, secrets and phrases share members with other constants of `Client` so that
one set of permutations serves all parts; rows, requests, users, tabs, vaults,
tickets and passwords are interchangeable where symmetry is used, and runs with
liveness properties use none. Deadlock checking is off where a behaviour may stop:
all rows, codes, tickets or versions are used up, or the tabs are closed.

## 4. Fairness

`refresh_liveness` assumes strong fairness of each request's steps. Weak fairness
would not do, because a lock that is taken and released over and over disables the
waiting statement in between; PostgreSQL queues waiters for a row lock. Nothing
forces a request to arrive or to fail. `cache` assumes weak fairness of the
process's continuations, of the database and Redis replies, and of key expiry
(every SET carries a TTL); nothing of `Get`, `UpdateEpoch`, faults or restarts.
Everything else is safety only: tabs, users and networks owe nobody a step.

## 5. Proofs

TLAPS proves the following for every value of the constants.

A proof module holds, in order: the inductive invariant, lemmas about the writes
that several actions share, one lemma for each group of actions, the invariance and
then the results. Why each invariant is stronger than the property:

* `RefreshFamilies_proofs` (from `NoneIsNoValue`, `BoundsAssumption`): `TypeCorrect`,
  `AtMostOneLiveRow`, `TokensRedeemedOnce`, `FamiliesHaveOneOwner`, `DeathIsFinal`,
  `OwnRowsOnly`. "One live row" is kept only because a rotation that is about to
  commit holds its parent's lock and the parent is still live (`RequestInv`,
  `LockInv`), and because a family has one user (`OneOwner`), so that nobody else's
  UPDATE reaches it. The two action properties follow from the same invariant.
* `EpochCache_proofs` (from `CacheAssumption`): `TypeCorrect`, `CacheKeepsUp` and the
  refinement of `EpochRegister`. `FlightInv` says that a value a flight may still
  store was read after the last bust, `CallInv` that a value on its way to a caller
  respects the caller's bound. Under the mapping `Get` is a `BeginRead`; a hit or a
  landing is an `AnswerReads`; joining a flight that started earlier is a `ShareRead`;
  `Return`, a failed read and a restart are `EndReads`; the UPDATE is a `Bump` and a
  bust that has reached Redis a `Settle`.
* `Sessions_proofs` (from `NoneIsNoValue`, `BoundsAssumption`): `TypeCorrect`,
  `RevokedTokensAreOut` and `DrainedForGood`. What rows
  alone guarantee is not proved again: `RP == INSTANCE RefreshFamilies_proofs` brings
  its lemmas, and `SameInv` and `SameNext` say that they are about the formulas
  `Sessions` names `RF!`. What is new is in `IInv`: what an answered request says is true of
  the rows and a revocation has its caller's rows in its hands (`Answers`); a handler
  that is between the rows and the epoch asks for the epoch of the user of its row
  (`Errands`); no token has an epoch of the future (`Signed`); and a family that a
  bump was for stays drained (`BarredAreDrained`). Without the last a request that
  was given its row before the revocation would sign under the new epoch, which is
  what the code does as long as the family is not drained. The bump
  then lifts the epoch above every token `Signed` allows.
* `TwoFactor_proofs` (from `TwoFactorAssumption`, which asks for finitely many methods
  because the code counts them): `TypeCorrect`, `CodesPassOnce`, `NoMethodWasThere`,
  `CountersFallOnlyInOverlaps` and the refinement of `Tickets`. A code passes once
  because every request that passed one knows a step at or below `last_used_step`
  (`Sane`), while a request that passes now writes a higher one or a new row. A
  ticket opens once because it is in one place, the nonce or the one challenge it was
  made for (`TicketInv`). An upsert over an open challenge is `Replace`, over an
  expired one `Issue`; a nonce that a stranger burns is a `Lapse`. The pairs in
  `redeemers` are computed from the requests, so the refinement is where the comparison
  of the nonce's user with the caller is needed.
* `Server_proofs` (from `NoneIsNobody`, `NoneIsNoCode`). Of `Sharing`: `TypeCorrect`,
  `AccessRulesAgree`, `RemovalsAreDistinct` and the refinement of `Membership`.
  `RowInv` has one row for a vault and a user, and owner rows that are active and the
  creator's; `Known` says what a request may still rely on of what it has read;
  `LockInv` keeps the rows apart that removals hold or have deleted. The vault's
  creation is `Found`, an inserted invitation `Invite` *by the creator*, although the
  inviter was checked in an earlier statement; everything but the answers and the
  DELETE is a stutter. Of `Signup`: `AccountsStayWhole` and `CodesRedeemOnce`, the
  refinement of `Tickets`. A code and an account determine each other (`CodesInv`), an
  address one account (`AccountsInv`), and `RequestsInv` is what the locks are for: no
  two transactions have the same code, or have inserted the same address, and what one
  has checked holds until it commits. The cardinality 1 of the property is that of the
  set with the one code `CodesInv` gives. Of both: `ServerTypes`.
* `Client_proofs` (from `KeysAssumption`, `BoundsAssumption`, `NoneIsNoTerm`; the last
  says that None is no key and no ciphertext, which TLC, where None is a model value,
  evaluates). Of `SharedKeys`: `TypeCorrect`, `KeysStayApart`, `KeysFollowMembership`.
  What a handler took before an `await` is part of the invariant: the key it carries
  is its vault's or blank (`OnlyOwnKeys`), and a handler that will store a key began
  for somebody the vault had let in (`PageInv`, `LetIn`), although by then the tab
  may have another user's token. The owner's box is never blank (`OwnersBox`) because
  only `CreateVault` writes it. Of `Account`: `AccountsOpen` and
  `KeysAreTheTokens`. A row is the envelope of a kit in its user's notes (`RowsInv`),
  because the wizard has noted what it encrypts before it submits (`Progress`); the
  TOTP secret is there exactly when the factor is (`TotpInv`). `RightKeysOnly` is an
  action property with three named excuses; its proof needs that keys are never without
  a token and that the account of a token is among those the cookie may name
  (`TabInv`): a renewal from a cookie that names one account then gives the token's
  account again. Of `ClientSession`: `ChainHolds`. Of all: `ClientTypes`.
* `ClientSession_proofs` (from `MaxTimers` of at least 2): `TokensAreRenewed`, which is
  `ChainUnbroken`, and `TypeCorrect`. `Links` adds what the chain rests on: the variable
  `timer` never refers to a timeout that is not pending, so `clearTimeout` takes away
  at most the one that is replaced; the login page has neither timeouts nor requests.
  Each request counts with the pending timeouts, so that the one it sets when it ends is
  within the bound.
* `Editors_proofs` (from the assumptions `CredentialAssumption`, `PageAssumption`,
  `ListAssumption`, `VaultAssumption`, `GeneratorAssumption`: bounds are numbers, a
  token has `Width` bytes, credentials are finitely many because badges count them,
  and the shortest password has room for a letter of each class), five parts:
  - `CredentialEditor`: `NoPasswordIsLost`, `EverySaveBuildsOnTheRow`. What a tab
    remembers of the row's present version is the row itself (`Genuine`), so a
    compare-and-swap that succeeds on the version has met the body the save was
    computed from; `RotatedBody` and `RotatedRemembers` are about the history.
  - `PageEditor`: `TheHistoryIsWhole`, `VersionsNameBodies`. A request that is stored
    has written the body it carries (`Underway`), and so a visit may take it for the
    version it was told (`Honest`). `NewestEntries` is about the trim, which keeps the
    entries with fewer than `PageHistoryMax` above them: of a gapless history these
    are the last ones, because later versions and entries above are in bijection.
  - `VaultList` and `PageList`: `ListsKeepUp`. What a run has read is no newer than the
    row, and *is* the row if it is as new (`TrueRead`): a list that still equals the
    server's leaves only that. `SearchIsExact` rests on `RangeOfAPrefix`, about
    `prefixRange` for every base, width and prefix: a token lies in the half-open range
    iff it has the prefix and is not the highest. The carry is the case where trailing
    bytes of the prefix are highest (`RestIsHighest`). As induction over
    data is out of reach, the first place where two tokens differ and the last byte
    below the highest come from `Least` and `Greatest`: a nonempty set of naturals has a
    least element, by the library's well-foundedness of `<`.
  - `Generator`: `EveryClassIsThere`. Each class whose turn has come has a letter in the
    output (`GenProgress`), every class has its own turn (`RankInjective`, and
    `CountBelow`: ranks are below the number of classes), and exchanging two places
    keeps the set of letters (`SwapKeepsAll`).
  - `EditorsTypes` for all of them.

Every safety property and action property that a passing run checks is proved, and
so are the refinements of `EpochRegister`, `Tickets` (twice) and `Membership`. Some proofs are of a part's own specification; `PartsRun` carries
them to the composition that the run checks.

Model-checked only: the liveness properties `RequestsTerminate`, `Converges` and
`GetsEnd`, because fairness and ENABLED are out of the prover's reach; and, being
violations, the three runs that end in one.

## 6. Where code and words differ, without a run

Met while modelling, and kept as behaviours of the models or noted here:

* `get` joins a database read that began before a bust which had already returned
  (`ShareRead` allows it); a refresh whose rotation commits before a revocation may
  sign one token under the new epoch; logout leaves the epoch alone although
  REQUIREMENTS.md:31 wants it bumped; if `revokeOne` dies between its UPDATE and the
  bump, a retry answers 404 and never bumps.
* A refresh whose answer is lost, or two tabs that refresh at once, replay a rotated
  token and end the session; a refresh that answers after the auto-lock stores a
  token again (`ClientSession` has all three).
* New Argon2 parameters lock existing accounts out of sign-in, whose verifier was
  derived under the old ones (`Account`: `SubmitLogin` uses the server's current
  parameters; `AccountOpens` is about the stored row).
* Two tabs signed in as different accounts share one cookie: the next renewal in the
  first (use-auto-refresh.ts:56) stores a token of the second account beside the keys
  of the first. `RightKeysOnly` says that token and keys part in this case only, in the
  moment of a sign-in, and on the second-factor page: there, what was typed may not open
  the account, and the new token stays beside older keys. A TOTP secret enrolled in
  such a tab is wrapped under the other account's key and never opens.
* A sign-in that succeeds clears nothing (login/page.tsx:213): after a soft step back
  to the form, the vault keys of the user before stay in the store of the next, and
  without an idle lock while the form is shown. `HeldAfterJoining` is about whoever had
  the page, not about whoever has it now.
* A page mounted with an expired token sends two refreshes with one cookie, the
  bootstrap's and the timer's; the slower one is a replay and ends the session.
* An invitation overtaken by the auto-lock wraps an all-zero key (`OwnKeyOrBlank`
  names it). A member who signs in again has no way to get a shared vault's key back.
* Removing an owner always fails, and the 409 of a repeated invitation is never sent
  (see `Sharing`).
* Shared-vault credentials bind the reader's own e-mail address as additional data,
  so other members cannot open them; `credential/new` asks for the personal vault's
  key by its vault id and finds none.
* The page conflict dialog's Cancel leaves the old baseline, so the next save
  conflicts again; the rich-text editor is not reset by Reload; page and credential
  lists end in an error page that does not recover.
* Page search answers have no order, body search does not refetch, a renewed token
  reloads the unfiltered list under the query, and a prefix of a title has a token
  that shares nothing with the title's. `prefixRange` leaves the all-ones token out.
* Cards never decrypt again after a list reload; a failed bulk run keeps the older
  reuse map although the comment says badges stay at 0.
* An earlier copy's 30-second timer clears a later copy from the clipboard; the
  button "except this device" signs this device out too; the list refresh after
  "Sign out" of one session uses a token that has just been refused.

## 7. Not modelled, and why

* The throttler counts inside `@nestjs/throttler`; the timing floor and the
  exception filter shape answers and change no state.
* The cryptographic primitives, BIP-39, the TOTP code and the calibration loop: pure
  functions over bytes, taken as terms where their result matters.
* Rendering, layout and navigation; `eff-large.ts` is a list of words (`Words`).
* The auto-heal of a missing personal vault: `AccountsAreWhole` shows that it never
  runs for accounts that signup made.
* Health, me, the Redis and database services, migrations: plumbing and reads.
* Audit events, token hashing, cookies, JWT encoding: a token is a value.

Simplifications that limit what is shown. A tab has one sign-in under way in `Account`
and one vault handler in `SharedKeys`, although leaving a page and returning resets
the flag (`busy`, `processing`) that keeps them apart; `finalize` and the bootstrap of
`Account` are one step each, although they await. `SignIn` of `ClientSession` waits
until no refresh is on its way. The model may also do more than the browser: `OtherTab`
lets the cookie name any account, `Go` lets the history hold any page, `LeftBehind`
serves requests of pages that are gone at any time, and a wiped tab of `SharedKeys`
may go on without a page load. Inviting oneself is left out. Server and
browser are checked apart, against each other's abstract promises. The parameters of
Argon2 only ever take new values.

## 8. Plan

Next: theorems that relate parts, not only hold of each: that a `Sharing` behaviour
gives `SharedKeys` the server it assumes, that `EpochCache` gives `Sessions` its
register; a model of the throttler if its storage moves into this repository; a
composition of `ClientSession` with `RefreshFamilies` in place of its own view of the
server.
