# A specification of plugin-auth

`plugin-auth` is a Go package that adds registration, login and session handling
to an HTTP application: passwords, passkeys (WebAuthn), TOTP with recovery
codes, one-time codes by message, server-side sessions behind a cookie. This
directory holds a TLA+ specification of it, the TLC configurations that check
it on small instances, and TLAPS proofs of what holds on every instance.
`PROJECT.json` lists components, runs, mutants, hazards, theorems, findings and,
for every definition, the lines of the source it stands for.

The package serves requests concurrently and **no handler holds a lock between
two store calls**. Each store method is atomic (one mutex); everything a handler
does across two or more of them is read, decide, write with other requests in
between. That is what the specification is about: a request is a program
counter with the local variables of its handler, and each store call, with the
local computation around it, is one action.

## Parts of the system

| part | source | state | operations |
|---|---|---|---|
| data model, `Store` | `models.go`, `store.go`, `memory_clone.go` | rows | the interface of 24 methods |
| memory store | `memory_store.go`, `memory_session.go` | users and two indexes, passwords, passkeys, TOTP, recovery codes, one-time codes, sessions; one mutex | every method of `Store` |
| challenge store | `challenge.go` | challenges with expiry; one mutex | `Put`, `Take` |
| rate limiter | `limiter.go` | a bucket (count, reset) per key; one mutex | `Allow` |
| sessions | `session.go`, guards of `handlers_totp.go` | none of its own: cookie and session row | `createSession`, `logout`, `User`, `RequireUser`, `RequireLevel`, `Session`, `RevokeAll` |
| password | `handlers_password.go`, `password.go` | none | register, login (with rehash) |
| second factor | `handlers_totp.go`, `totp.go` | none | setup, confirm, login by TOTP, login by recovery code |
| one-time codes | `handlers_codes.go`, `crypto.go` | none | request (and send), verify for login, account verification, password reset |
| passkeys | `handlers_passkey.go`, `passkey_user.go` | none | begin and finish of registration and of login |
| routes, requests | `auth.go`, `http.go`, `options.go` | configuration | registration of routes, decoding, replies |
| hooks | `hooks.go`, `principal.go` | none | policies may refuse, observers are told |
| demo store | `demo/jsonstore` | the maps of the memory store and a JSON file; one mutex | every method of `Store`, written after each; `Open` |
| demo, client | `demo/main.go`, `client/*.js` | none | wiring, `fetch` wrappers |

How they interact: a handler calls the rate limiter and the policies (each may
refuse), then the store and the challenge store any number of times, then
`createSession` if it logs somebody in, then replies. Handlers communicate only
through the stores and through the browser's cookie. Outside the package stand
the browser (which may have several requests under way and not receive a
reply), the application (which may create and disable accounts in its store, and
call `RevokeAll`), the Messenger, and the go-webauthn library.

What makes each part correct, and where that is hard:

- *Store*: a row and its indexes change together; credentials belong to existing
  users; codes and sessions are never replaced in place. Easy under one mutex,
  but every handler relies on it, so it is proved.
- *One-time things* (codes, recovery codes, challenges): accepted once, within a
  budget of attempts, whoever races for them, whatever fails after the
  ticket was spent.
- *Sessions*: rotation, logout and reset end what they should while other
  requests carry the same cookie; a protected handler is entered with a session
  that is live *then*, not only when its guard began.
- *Passwords*: a reset replaces the password for good although logins with the
  old one are under way. The rehash at login makes this hard, and an account
  without a password is verified against a hash of a constant.
- *Second factor*: enrolment takes two requests and four writes; the gate is read
  before the write it guards.
- *Passkeys*: a ceremony takes two requests and ties them to one user; the
  signature counter is compared in one place and swapped in another.
- *Limiter*: window boundaries, and refused calls that count.
- *Guessing a TOTP code*: the window of the limiter, the range of the period and
  the three periods a code lives come from three files and have to fit, and the
  limiter is asked some calls before the code is compared.
- *Stored hashes*: they outlive the parameters they were made with.
- *JSON store*: a method changes memory first and writes the file second. When
  the write fails the two differ, the caller gets an error for something that
  has happened, and a restart goes back to the file.

The full list, each at its line, is under `hazards` in `PROJECT.json`.

## Modules

```
Ticket          what is promised of a thing that is presented once   (abstract)
MemoryStore     Store and MemoryStore; StoreSpec: any caller, any method
ChallengeStore  MemoryChallengeStore
Sessions        requests, browsers, guards, createSession            (EXTENDS the two)
 PasswordHandlers  TOTPHandlers  CodeHandlers  PasskeyHandlers       (EXTEND Sessions)
Auth            all routes together, the properties                  (EXTENDS the four)
JsonStore       the store of the demo: memory and file               (EXTENDS MemoryStore)
DurableAuth     all routes over it, failed writes, restarts          (EXTENDS Auth, JsonStore)
RateLimiter     MemoryRateLimiter
TOTP            the counters verifyTOTP accepts at an instant
Options         normalizeOptions
SecondFactorGuard  guesses at a TOTP code under the limiter          (EXTENDS the three)
PasswordHash    a stored hash and the parameters of the hasher
MCMemoryStore, MCAuth, MCDurableAuth, MCConfigured                   instances for TLC
MemoryStoreProofs  TicketProofs    proofs about the two
AuthProofs         types of Auth, and that it implements StoreSpec   (EXTENDS MemoryStoreProofs)
 AuthSessionProofs  sessions, passwords, factors, ceremonies         (EXTENDS AuthProofs)
 AuthTicketProofs   the refinements of Ticket                        (EXTENDS AuthProofs)
JsonStoreProofs    memory and file under any calls                   (EXTENDS MemoryStoreProofs)
DurableAuthProofs  handlers, failed writes and restarts   (EXTENDS AuthTicketProofs, JsonStoreProofs)
ConfiguredProofs   limiter, TOTP, options, hashes         (EXTENDS SecondFactorGuard, PasswordHash)
```

**MemoryStore.** One function variable per Go map, `None` for a missing key. A
method that can fail comes as two operators: `SaveCode` is the call that
succeeds, `CanSaveCode` its condition; a caller that gets the error takes the
branch `~CanSaveCode`, which changes nothing. Rows keep the fields the handlers
decide on. Names, timestamps, transports and client addresses are left out. An
encoded hash is the password it verifies and whether `NeedsRehash` finds its
parameters out of date; a code proof is its purpose (which is in the HMAC label)
and whether the digits are those that were sent.

**Sessions.** `req[r]` is one request: program counter, route, browser, cookie as
it arrived, input, the user and level found so far, a value read earlier (`seen`),
the cookie of the reply. `Arrive` starts a handler, `Reply` ends its work and
forgets its locals, `Deliver` brings the reply to the browser, or loses it.
The program counters of `createSession` are `rotate`, `create`, `cookie`; of the guards
`session`, `user`, `gate`; `visit` and `level` are application routes behind
`RequireUser` and `RequireLevel`. `Deny` is a policy, the limiter or a check of
the input refusing; `Fail` a store call that answers an error without having
acted; `IgnoreError` and `CookieFails` the places where the code drops or
undoes. Values from `randomID` are `drawn` once and never again.

**Handlers.** One action per store call, named for it, in the order of the
code: `LookupIdentifier`, `VerifyPassword`, `CheckHash`, `Rehash` for
`loginPassword`, and so on. `HashFor` is the hash a login is verified against: the
stored one, or `dummyHash`, made of `DummyPassword`, where there is no row. For an unknown
account the answer of that verification is ignored. For an account *without a
password*, which only the application creates (`AddAccount`), it is used: the constant logs
in, and as the empty row read again needs a rehash (`NeedsRehash`), it is stored. `SendCode` is the Messenger with a free outcome.
A WebAuthn response that the library rejects is a refusal, one it accepts names
a credential and a counter; `CloneWarning` is the library's comparison.

**History variables**, which no action reads: `origin` (what a session was granted
for), `resets`, `tries`, `accepts`, `begun`.

**Ticket** is the abstract specification of a thing presented once. `Auth`
instantiates it three times with a refinement mapping (`CodeTickets`,
`RecoveryTickets`, `ChallengeTickets`): a ticket is *new* before it is drawn,
*open* while the store has it, *closed* after. `CodesAreTickets` and its two
siblings state that the whole of `Auth` implements it.

A step of a ticket may close others as well (a new set of recovery codes does),
and a restart may close one before its last attempt.

**JsonStore** adds `file`, the maps as `persistLocked` last wrote them, all of them
at once, since the new file takes the old one's place by a rename. `Persist` is a
write, `Saved` a write that may fail. Every method leaves its change in memory when
the write fails; `createUserLocked` alone takes it back (`CreateUserFails`). `Reopen` is
`Open` at the next start. A row on file has lost its WebAuthn handle
(`json:"-"` in `models.go`), and stays `None` when the file is loaded; so is the handle of
every user a method answers, because `clone` copies through JSON. The index by
handle is kept in the file, so `AccountsIndexed` compares accounts with that index. `JsonSpec` lets any caller call any method, as `StoreSpec` does.

**DurableAuth** is `Auth` over that store. `Serve` is a step of a handler whose
write succeeds. `WriteFails` is one whose write does not: where the code drops
the error (`Dropped`) the handler goes on, elsewhere it gives up and answers an
error (`GivesUp`), although memory has changed (`Leaves`). `Writes` says which steps come
to `persistLocked`: all that change a map, and the revocations and overwrites that write
whether or not they change one, so that a repeated logout can repair the file.
`Restart` loads the file,
ends the requests under way and forgets the challenges; cookies stay. `ended` is a
history variable: sessions whose end was told and written.

**SecondFactorGuard** puts together what decides how often a code can be guessed:
`Allow` of the limiter as `allowSecondFactor` calls it (`Admit`), the accepted counters around
the present (`Accepted`) at the later time of the comparison (`Compare`), and the period
that `Options` lets pass. `waiting` calls are admitted and not yet compared. Time is relative,
and a code is known by its distance from the present one. Instants are in
ticks of which a second has several, so that a period may have a fraction of a
second, as a `time.Duration` may.

**PasswordHash** follows one stored hash through deployments with other parameters,
logins that upgrade it, resets, and hashes written by another program. An
encoded hash is the numbers written in it and the inputs of its key. The
parallelism is read as 32 bits and kept as 8.

**RateLimiter** keeps time relative: `left` is what remains of a bucket's window. The history
`granted` holds the ages of the last `2 * Limit + 1` allowed calls of a key, up to `Window`, so the
limiter's promise is about the call `Limit` or `2 * Limit` before the last one.
Inside `Auth` the limiter is a free refusal, which allows every answer it could give.

## Runs

All routes at once are too many states. `MCAuth` therefore explores *mixes*: a
mix says which operations are called, how many accounts and sessions there are,
and what earlier registrations and enrolments have left behind. One
run checks all its mixes, each from its own initial state; `MCNext` is `Next` less
the calls that the mix leaves out. Every mix keeps two request slots: each
hazard above is a race between two handlers, or between one handler and the
clock or the application, and slots are used again, so sequences of any length
come before and after an overlap as far as fresh IDs last. One browser is
enough: replies may be lost and overtake each other, so requests under way carry
its present cookie, an older one or none, as those of several browsers would.

| run | module | what it explores | properties |
|---|---|---|---|
| `Store` | MCMemoryStore | any caller, any method, IDs reused | `TypeOK`, `IndexesAgree`, `CredentialsOwned`, `PasskeyIDsUnique`, `TicketsOnlyAge` |
| `Configured` | MCConfigured | options on both sides of each bound; guesses at a code at every phase of its step; two limits and windows; a hash through changes of the hasher | `TypeOK`, `WithinWindow`, `TwiceLimit`, `WindowEnds`, `GuessesPerCode`, `ClockTolerated`, `PresentAccepted`, `StartedFits`, `VerifiesOwner`, `UpgradeSettles` |
| `Sessions` | MCAuth | *Visits*: two users of one browser log in, out, visit, are revoked, disabled, expire. *Resets*, *Upgrades*, *Unset*: a reset beside logins with both passwords, of an account whose hash is present, outdated or missing. *Ceremony*: two users share a browser | `VisitServedLive`, `PresentedSessionEnds`, `ResetEndsSessions`, `ResetUndoneOnlyByEarlierLogin`, `CeremonyKeepsUser` |
| `Credentials` | MCAuth, with failing calls | *SecondFactor*, *Levelled*, *Redeem*, *Signing*: two requests after what is good once. *Newcomers*: registrations of one name, beside accounts the application creates | `AuthTypeOK`, `SecondFactorPedigree`, `LevelServedAsGranted`, `OneSessionPerTicket`, `CodesAreTickets`, `ChallengesAreTickets`, `WinnerOwnsAccount` |
| `Enrolment` | MCAuth, fair | *Enrolling*: two secrets, two recovery codes, logins that use them. *Everyday*, *Messages*, *Keys*: a route of each kind, one-time codes, levels and passkeys included | `ConfirmedHasRecovery`, `RecoveryCodesAreTickets`, `EveryRequestAnswered` |
| `Restarts` | MCDurableAuth | *Redeemed*, *Recovered*, *Enrolled*, *Returning*, *Registered*: codes, recovery logins, enrolment, visits, registrations over the JSON store, with up to two failed writes and a restart | `JsonTypeOK`, `SameAccounts`, `FileConsistent`, `EndedForGood`, `SentOnFile`, `CodesSurviveAsTickets`, `RecoveryCodesSurviveAsTickets` |

What they show, in words:

- Whatever is called in whatever order, the store keeps its indexes, owners and
  credential IDs straight, and a code or session is only ever aged or removed.
- The limiter lets `Limit` calls through in one window and up to `2 * Limit` in
  a stretch of that length, which two adjacent windows reach; refused calls do not
  extend the window.
- `RequireUser` makes four store calls and still enters the handler only with a
  session that is live then and belongs to the user it resolved, because it
  reads the session again at the end. Rotation and logout end the
  presented session whatever else carries it.
- After a reset no session from before it is left. The password that opens an
  account changes only by a reset, or by the rehash of a login that a reset
  overtook: a login that arrived after the last completed reset never changes it.
  That logins after a reset presented the new password is therefore false where a
  rehash may happen at all, with an outdated hash or none: see below.
- A login that was verified with the old password before the reset may open its
  session after it. No text of the repository forbids that and no property does.
- A code is compared with at most `MaxAttempts` answers, redeemed once, and opens
  one session; recovery codes and challenges likewise, with requests failing at
  any call. An MFA session completes a password session of the same user. Two
  requests with one password session may complete it at once and open two.
- One TOTP code is compared, for one client address and user (the limiter's key), with
  at most twice the limit of the second factor, however the guesses are timed: a
  code's life (three periods, at most three minutes) and the time a guess takes from the
  limiter to the comparison never touch three windows (of five minutes). That
  time is assumed to be at most `MaxDelay`, two minutes at the longest period, as the code sets
  no bound on how slowly a body is read. Guesses from many addresses add up. An
  authenticator whose clock is up to one period off is accepted when the period is a
  whole number of seconds. With a fraction of a second that is not so: the code one step
  ahead may be refused and one two steps away accepted.
- An account keeps its password, and no other is accepted, through changes of the
  hasher's parameters. A login upgrades a hash once.
- Over the JSON store, whatever writes fail and whenever the process restarts: no
  account appears, disappears or is renamed; what is loaded is consistent; a code
  or recovery code that was accepted is not accepted again, because nobody was told
  of a spending that was not written; a session that was handed out is on file; and
  a session whose end was written stays ended. A logout whose write *failed* is
  answered as a success (`session.go:111` drops the error), and its session is back
  after a restart unless the logout was repeated: `EndedForGood` says no more than
  the code can keep.
- A confirmed factor has recovery codes, as long as no call fails between the two
  writes of `confirmTOTP`.

### Runs that find a violation

Each states what the repository's text or tests say, and TLC shows the code doing
otherwise. All but the last two need two requests in one particular overlap.

| run | property | behaviour |
|---|---|---|
| `StaleRehash` | `ResetReplacesPassword` | login verifies the old password (or the dummy, of an account without a password) and is about to upgrade the hash (or store one); a reset completes; the login stores its password over the new one |
| `StaleCounter` | `CounterNeverFalls` | two assertions with counters 1 and 2; `findPasskey` re-reads the counter after the check, so the swap of the lower one succeeds against the higher |
| `StaleSetup` | `ConfirmedFactorKept` | `setupTOTP` passes its gate, another request confirms the factor, setup replaces it by an unconfirmed one |
| `TwoConfirms` | `ShownRecoveryCodesStored` | two confirmations of one setup both succeed; one has shown codes that are no longer stored |
| `LatePolicy` | `PoliciesBeforeCode` | `verifyCode` spends the code and then asks the policies |
| `LostHandles` | `HandleReturned` | a user of the JSON store comes back from every lookup without the WebAuthn handle that the ceremonies need |

### Bounds

Constants give the sizes: at most two accounts (three user IDs where
registrations fail and retry), two passwords, one or two of each ticket, two to
four sessions, two request slots. `DummyPassword` is one of the passwords
clients type. `MaxNow` is 1 and lifetimes are one tick: enough for
a ticket to be issued before and used after its expiry, and for the clock to move
between two steps of a handler. `MaxAttempts` is 3, so the last attempt differs
from the first and from the middle one. `MaxCount` is where the
limiter's count saturates, above every limit, so that callers may knock forever.
In `Configured` a second is two ticks and periods are 3 or 4 ticks, so one of them has a
fraction; the window is three of the longest periods and a `MaxDelay` of one tick,
tighter than the code's five, and two keys are enough because keys share nothing.
`MaxFailures` is 2 and `MaxRestarts` 1: one failed write makes memory and file
differ, a second hits the call that would repair it, and a restart makes the
difference visible; a second restart would start as the first did. `Supplied` is a bound as
well: a request arrives only while enough random values are left for every
handler under way, so that running out of IDs never blocks a step (it would make
the liveness property false for a reason the code does not have). `Rest` lets the
system stand still only when no request is under way, so TLC's deadlock check,
which is on, means that no handler is ever stuck.

Symmetry is used over requests and sessions (and, in `Store`, over all IDs), in runs
without liveness only. Initial states pick one account of several
interchangeable ones; no action tells them apart.

### Fairness

`FairSpec` asks weak fairness of `Step(r)` for each request: `net/http` runs a started
handler to its end and every mutex is released, so a handler that can take
its next step does. Nothing is assumed of clients, the clock, policies or
failures. `Deliver` is a step: the reply is written or its connection is gone. In
`Configured` the passing of time (`Pass`) is fair, and so is `Compare`, the rest of an admitted call:
callers may stop, the clock and a started handler do not. `DurableSpec` has safety properties only and no fairness.

## Proofs

All proofs hold for every set of requests, browsers, accounts, passwords and tickets and for
every lifetime and budget. Every safety property of the passing runs is the
conclusion of a theorem. `PROJECT.json` lists the theorems; this is how they are reached.

**The store (`MemoryStoreProofs`).** `TypeOK` is inductive; that a stored code has an attempt
left is part of it, which is where the off-by-one of `AttemptCode` would show. `IndexesAgree`,
`CredentialsOwned` and `PasskeyIDsUnique` are inductive together, relative to `TypeOK`: creating
a user keeps the indexes apart because its guard reads both, and a new user owns
no credential because none belongs to an ID that is not there. `TicketsOnlyAge` is
proved step by step.

**Types of the plugin (`AuthProofs`).** A handler's locals are set on the way to where they are
read. `AuthTypeOK` says by program counter what a request has there; with `Shaped` (every
slot is a record of all the locals) it is `Typed`, and inductive. Every step is then a call that
`StoreSpec` allows with arguments of its types, so `ImplementsStore`: `Spec => StoreSpec`, and what
is proved of the store with any callers holds under the handlers
(`StoreUnderHandlers`). `Moves` and `Changes` say once for all actions what a step does to the
requests and to the rest; the later proofs go through them, not through 50 actions.

**Sessions and passwords (`AuthSessionProofs`).** A handler acts on what it read some calls ago, and
none of the properties is inductive without knowing what of that is still true:

| theorem | invariant beyond `Typed` | why it is needed |
|---|---|---|
| `Pedigree`, `VisitsServedLive`, `LevelsServedAsGranted` | `Sourced`: a cookie, in a jar or a request, names a session some login opened; the user and level behind the guards are that login's; a stored session is as it was opened | the guards make up to four calls; what they read in the first has to be about the session of the last |
| `PresentedSessionsEnd` | `Ended`: from the rotation on, the presented session is gone | IDs are drawn once, so a revoked session is not opened again |
| `ResetsEndSessions` | itself, with `Sourced` | a login under way when a reset completes opens a session that is as young as the reset |
| `ConfirmedFactorHasRecovery` | itself, with `Typed` | a set of recovery codes is replaced, never emptied |
| `CeremoniesKeepUser` | `Begun`: a stored challenge, and one taken by a request, is what `begun` says | the challenge leaves the store before the passkey is saved |
| `WinnersOwnAccount` | `Winners`: also the logins about to rehash hold the password that is stored | a rehash writes the password again |
| `ResetsUndoneOnlyByEarlierLogins` | `Rehashable`: a reset leaves a hash that needs no rehash, a login at its rehash arrived before any reset, and until one comes it holds the password that is still accepted | a login that arrives after a reset never comes to a rehash |
| `ResetsReplacePassword` | `Replaced`: of such a login on its way to a session, and of the session, the password is the stored one | a write by a login that a reset overtook (`LateRehash`) breaks it, as in `StaleRehash` |

**Tickets (`AuthTicketProofs`, `TicketProofs`).** For each kind, one step of the plugin is one of a
few things (`CodeSteps`, `RecoverySteps`, `ChallengeSteps`): some tickets are drawn and some given
up, or one is compared with an answer. `Counted` says of what is in the store that it was
drawn, not accepted, and compared as often as its row counts; of recovery codes also that one
account has them. Under `Counted` each such step is a step of `Ticket` or a stutter, so
codes, recovery codes and challenges implement it. `PresentedAtMostOnce` is proved of `Ticket`
alone (`Unspent`: an open ticket was not accepted and has an answer to come); together
they give `TicketsAcceptedOnce`. `TicketsOpenOneSession` follows a ticket from the call
that accepts it to the session (`HeldOnce`: one request holds it or one session was opened
with it, never two, and then it was accepted).

**The JSON store (`JsonStoreProofs`).** What is known of memory at a write is then known of the
file, and what is known of the file at a restart of memory, so each invariant
is about both sides. `SameAccounts` needs `RowsOK` and a sorting of the steps
(`StepKinds`) into those that leave the accounts alone, set a flag, add an account *and* are
written, or read the file. `JsonTypeOK` is inductive; `FileConsistent` with it.

**Restarts (`DurableAuthProofs`).** `ImplementsJsonStore`: every step of the plugin, whether its write
succeeds, fails with the error dropped, or fails and is answered, is a step of `JsonSpec`. So
the three properties of the store hold under the handlers. For the rest:

- `EndedForGood` needs `EndedGone` (an ended ID is drawn, so it is not used again) and, for the call
  that ends a session, that it is written even when memory has nothing to remove.
- `SentOnFile` needs `SessionsFiled`: a session on both sides is the same one. It
  holds because `CreateSession` is the one call whose error is never dropped.
- `CodesSurvive`: `CodesFiled` says that memory and file have each counted every attempt whose
  outcome was told, and neither has a code that was accepted. An attempt that
  was not written may be forgotten, but was not answered either. `RecoveryCodesSurvive` is the
  same with `RecoveryFiled`, and that a usable code is one account's on either side.

**Configuration (`ConfiguredProofs`).**

- `LimiterBounds`: `WithinWindow` and `TwiceLimit` are not inductive. `Windows` adds, of an open
  window, that it let exactly `Let` calls through, and that of the calls before it at most `Limit`
  are younger than a window.
- `GuessesBounded`: `GuessesRecent` places the guesses at a code, and the calls still `waiting`,
  among the latest allowed calls, not older than the code has been acceptable and
  `MaxDelay` before that. Three periods and `MaxDelay` fit the window, and a stretch of a window
  has at most twice `Limit` calls.
- `ClocksTolerated` is arithmetic of floors, for every period with or without a fraction of
  a second; `ConfigurationFits` that `normalizeOptions` accepts only what suits the other modules.
- `HashesHold`: `HashInv` is that the stored hash is of the account's password with *some*
  parameters, and the hasher's are allowed. A number that does not fit its width reads
  back as another, and then the key differs too, so nothing is accepted by mistake.

### What the proofs assume

Of the constants:

| assumption | says | because |
|---|---|---|
| `NoneAssumption`, `RowAssumption`, `UnsetAssumption`, part of `ChallengeAssumption` | the missing value is no ID, row or challenge; the clearing of a cookie is no session | Go maps and cookies tell absence apart |
| `NumbersAssumption`, `SessionsAssumption`, `CodesAssumption`, `ChallengeAssumption` | counters and times are naturals, lifetimes and budgets positive, `Times` large enough for what is issued until `MaxNow` | types; `normalizeOptions` refuses others (`StartedFits`) |
| `KindsAssumption` | IDs of different kinds differ | separate maps: only one set `drawn` in the model needs it |
| `RecoveryAssumption` | a set of recovery codes is not empty | a literal in `confirmTOTP` |
| `LimiterAssumption` | limits and windows are positive; the bound `MaxCount` is above the limits | literals in the handlers, and the lifetime of a code |
| `GuardAssumption`, `RangeAssumption`, `SecondAssumption` | a default is in its range; three of the longest periods and `MaxDelay` fit the window; a period has a second | literals of `options.go` and `handlers_totp.go`; `MaxDelay` is about the server |
| `HashAssumption` | parameters asked for are numbers of their widths; imported hashes are some hash of some password | types of `Argon2idParams` |
| `DurableAssumption` | failing calls are failing writes | bounds, and no `Fail` beside `WriteFails` |

Of the theorems:

- `PresentedSessionsEnd`, `ResetsEndSessions`, `ResetsUndoneOnlyByEarlierLogins`,
  `ResetsReplacePassword` and `ConfirmedFactorHasRecovery` assume `~FaultsHappen`. The handlers drop the error of a
  revocation, and confirm a factor before they store its recovery codes, so
  with failing calls they are false. With faults everything else above holds.
- `WinnersOwnAccount` assumes that one-time codes are not enabled, since a reset
  changes the password of whoever registered.
- `ResetsReplacePassword` assumes that no login takes the step `LateRehash`: storing a
  password that would no longer be accepted. Without that it is false (`StaleRehash`), and
  `ResetsUndoneOnlyByEarlierLogins` says which logins take it. Accounts may begin without
  a password, with an outdated hash or a present one.
- `Spec` starts with an empty store; accounts come by registration and from the application
  (`AddAccount`). The mixes of the runs start from other states too, which `Spec` reaches.

### Only model-checked

`EveryRequestAnswered` and `WindowEnds` are liveness under fairness, outside the prover's reach.
The violation runs are counterexamples of TLC. That the mixes' initial
states can be reached is by construction of `MCAuth`, not proved.

## What is not modelled

- **Errors after the effect** are modelled for the JSON store (`Leaves`). A store
  that reports a failure of a call it committed and whose state is shared with
  other processes, as a database may, is not.
- **Loss of power.** A restart is one of the process; the directory is not synced
  after the rename, and what a file system keeps is outside the code. A file
  of an older version (`fillMissingMaps`) is not loaded either.
- **Applications over the JSON store.** Disabling is done in the application's own store: the
  JSON store has no method for it, and `JsonSpec` and `Restarts` have no disabled account.
  `DurableAuth` also leaves out `RevokeAll` and accounts the application creates; the demo does
  neither. `JsonSpec` has the store calls behind both.
- **The clock.** A handler reads `time.Now()` just before a store call; the two are
  one action here, so an expiry judged a scheduling delay late is not distinguished.
- **TOTP under the handlers.** In `Auth` a code is right when it comes from the stored
  secret, and may be presented again; when it is right is the subject of `TOTP`.
- **Cryptography, WebAuthn**: outcomes only. Of an encoded hash the numbers are
  modelled, and that it may not parse, not its characters.
- **Decoding, normalisation, `safeNext`, `validBasePath`**: functions of strings
  without state; a refused request is `Deny`, and a path, an origin or a name in the
  options is good or not. Observers cannot change the flow.
- **Passkeys over the JSON store**: `JsonStore` has the calls, `Restarts` leaves the
  ceremonies out, since they cannot succeed there (`LostHandles`).
- **A cookie that fails to be cleared** at logout counts as a lost reply (`Deliver`).
- **Browser client, static pages of the demo**: what they send is some request of the model.

## Plan

Done: the stores, challenge store, sessions, all handlers, limiter, tickets, TOTP,
options, hashes, restarts; every safety property of a run proved. Next:

1. Which faults matter: a weaker hypothesis than `~FaultsHappen` for the five theorems that
   have it (that no *revocation* failed, for the first two).
2. `PresentedSessionsEnd` and `ResetsEndSessions` over the JSON store, for calls that were
   written.
3. A history of the second factor, so that "a password session is not served once the
   factor is confirmed" can be stated for requests that arrive later.
