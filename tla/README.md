# A formal model of GophKeepston

GophKeepston is a password manager: a command line client and a text UI keep a
user's encrypted entries in a local Bolt file, and a gRPC server keeps them in
PostgreSQL so that several devices share them. This directory holds TLA+ modules
that model the program, configurations that check them with TLC, and proofs
that TLAPS checks. Paths and line numbers are relative to the repository.

## 1. The system

| part | code | state it keeps | operations |
|---|---|---|---|
| local store | `internal/client/store/store.go` | Bolt buckets `entries` and `versions` | Put, Get, List, Delete, PutVersion, GetVersion, DeleteVersion, GetMaxVersion |
| client synchronisation | `internal/client/sync/sync.go` | the local variables of each running `FullSync`, one connection | pull and apply, push, delete |
| sync service | `internal/server/sync/sync.go`, `migrations/002_entries.sql` | table `entries` | Push, Pull, Delete |
| conflict policy | `internal/sync/policy.go` | none | three resolvers |
| command line client | `cmd/client/main.go` | one process per command, the lock of the Bolt file | register, login, add, get, list, delete |
| text UI | `internal/tui/components.go` | screen, listing, viewed entry, form | keys, and commands run in goroutines |
| rate limiter | `internal/server/middleware/ratelimit.go` | attempts per key, start of the window | Allow, cleanup loop |
| authentication interceptor | same file, 97-139 | none | limit, then token |
| authentication service | `internal/server/auth/auth.go` | tables `users`, `refresh_tokens` | Register, Login, RefreshToken |
| token manager | `internal/pkg/jwt/jwt.go` | secret, lifetimes | generate, validate |
| session file | `internal/client/session/session.go` | `session.enc`, one per machine | Save, Load, EnsureFreshAccess |
| authentication client | `internal/client/authclient/authclient.go` | one connection | Register, Login, Refresh |
| server process | `cmd/server/main.go` | listener | serve, graceful stop |
| entry types, codec, presenter, cryptography | `internal/domain/entry`, `internal/presenter`, `internal/client/crypto` | none | pure functions |

How they interact: the user's process opens the store and runs `FullSync`,
which calls the store (mutex and one transaction per call) and the server (one
request at a time, on a connection of its own, 30 s for the whole sync). Every
request passes the interceptor: the limiter counts it against the peer address,
then the token is checked. The command line client runs one operation at a time
and ends most commands with a second sync. The text UI starts a sync in a
goroutine at every deletion and goes on taking keys. The programs of one machine meet in
two files: `session.enc`, which every login writes, and `gophkeepston.db`, which Bolt locks for
one process.

What is hard in this code, and where: two syncs of one text UI (components.go:176),
a read that is used after a request (sync.go:132-158), two transactions for one
fact (sync.go:119-122, main.go:304-308), a cursor derived from local data
(sync.go:102), the sentinels 0 and -1 among timestamps (sync.go:133), a deletion
in three steps of which two drop their error (sync.go:169-173), lost answers, a
deletion that leaves no trace on the server (server sync.go:91), a limiter that
counts the requests of one sync together (ratelimit.go:93), the rotation of
refresh tokens (auth.go:99-144), a session file with two keys (main.go:177,
session.go:58) that is written in place (session.go:54), a wait for the store that nothing
ends (store.go:22), goroutines of the text UI that read its model while it goes on
(components.go:324-509), and answers that do not say what they answer (components.go:141-151). `PROJECT.json` lists each with its line and the properties that
watch it.

What makes each part correct:

* store: a version stands for data the store holds; one version per entry;
* synchronisation: nothing is lost unasked; a broken-off sync resumes; a sync
  returns; what a device saved comes to the server and to the other devices; a
  deletion is final;
* sync service: it never replaces a newer version, and never invents one;
* limiter: a bounded number of requests of a key pass in any stretch of time, and nobody is
  turned away who had less than `max`;
* authentication: a rotation ends no session and revives no token; a refresh token is used
  once;
* session file: it belongs to the program that has the store, and a session that was saved
  loads;
* text UI: what is shown is what was asked for, what is saved is what was typed, the list has
  nothing that was deleted, and one vault is open.

## 2. The modules

```
EntryData ── LocalStore ──┐
        └─── SyncServer ──┼── FullSync ──┬── MCFullSync
      ConflictPolicy ─────┘      │       ├── FullSyncLive ── MCFullSyncLive
                 Vault  <── INSTANCE     └── FullSyncProofs ──┬── CommandProofs
                                                              └── ProgressProofs

RateLimiter ──┬── MCRateLimiter          AuthService ──┬── MCAuthService
      │       └── RateLimiterProofs            │       └── AuthServiceProofs
 INSTANCE ──> FixedWindow                 INSTANCE ──> Sessions

Session ──┬── MCSession
          ├── SessionProofs ─────┐
          └── Tui ──┬── MCTui    │
                    └────────────┴── TuiProofs
```

* **EntryData**: ids, the sentinels `NoVersion` (0) and `Tombstone` (-1), and a row of
  a pull. An entry's data is written once, under an id that holds the time of its
  creation, and never changes, so data is presence: an entry is held or it is not.
* **LocalStore**: the two buckets per device, one operator per method.
* **SyncServer**: the table as the version of each row, one operator per RPC. `ServerPush`
  is the upsert with its `WHERE entries.version < EXCLUDED.version`; `ServerPull` the
  `SELECT`; `ServerDelete` the `DELETE`, whose "no row" is an error.
* **ConflictPolicy**: the resolvers. `FullSync` uses last-write-wins with 0 as the local
  time, so the server's copy wins every time.
* **FullSync**: the composition. A *worker* is one goroutine that runs `FullSync`;
  `sync[w]` holds its program counter and local variables:

  | `pc` | where the code is (client sync.go) | leaves by |
  |---|---|---|
  | idle | not running | StartSync (102) |
  | pull | before the Pull request (106) | PullOk, PullFail |
  | apply | top of the loop over the rows (110) | ApplyPut, ListEntries, ApplyPutFail |
  | applyVersion | between Put and PutVersion (119, 122) | ApplyVersion, ApplyVersionFail |
  | push | top of the push loop (131) | PushSkip, PushRead, PushDone |
  | get | between GetVersion and Get (132, 136) | PushGet, PushGone |
  | send | before the Push request (158) | PushOk, PushRefused, PushFail, PushLost |
  | delete | top of the delete loop (164) | DeleteSkip, DeleteRead, SyncDone |
  | deleteSend | before the Delete request (169) | DeleteOk, DeleteMissing, DeleteRefused, DeleteFail, DeleteLost |
  | dropEntry, dropVersion | 172, 173 | DropEntry, DropVersion, DropFail |

  `open[d]` says that the first sync of the device's process is over and the user's
  command may run (`requireSession`, or the login of the text UI); `due[d]` counts the
  syncs the process has ordered; `adding[d]` is the entry between `Put` and `PutVersion` of a
  save. `AddPut`, `AddVersion` and `Mark` are the writes of the two clients, `Leave` and `Crash` the
  end of a process. `stamp` and `marked` are history variables: the version an entry was
  given, and which user asked to delete what.
* **Vault**: what a user may rely on, without the protocol: entries are created on one
  device, saved, published, copied, requested for deletion, and dropped or retired
  only after a request. `FullSync` instantiates it with a refinement mapping.
* **FullSyncLive**: `FullSync` with a switch to a calm environment and fairness.
* **FullSyncProofs**, **CommandProofs**, **ProgressProofs**: the theorems of section 5.
* **RateLimiter**: the map of attempts with its clock and its cleanup loop. A request is
  `AllowFirst` (a new record, or one in the place of an expired record), `Allow` or
  `Refuse`; each is one pass through the mutex. `Cleanup` is one tick of the loop, `Stop` its
  end, which no code calls. `admitted` is a history variable: when each request passed, and in
  which record it was counted.
* **FixedWindow**: what the limiter promises a key, without the map: a window opens with the key's first
  request, lets `Max` of them pass, and closes when its time is over. `RateLimiter` instantiates it; a record that has
  expired, one that the cleanup removed and one that never was are all the closed window.
* **AuthService**: the tables `users` and `refresh_tokens` and the goroutines that serve Login and
  RefreshToken. `call[h]` is what a handler holds:

  | `pc` | where the code is (auth.go) | leaves by |
  |---|---|---|
  | idle | no request | LoginSign (47-61), RefreshFind (102-117) |
  | login | before Login's INSERT (64) | LoginInsert, Fail |
  | found | token found and new one signed, before the DELETE (126) | RefreshDelete, RefreshWait, RefreshMiss, Fail |
  | waiting | the DELETE waits for another transaction | RefreshDelete (after its rollback), missed (after its commit), Fail |
  | deleted, missed | before the INSERT (129) | RefreshCommit, Fail |

  `stem` (the logins a token stems from), `used` (tokens that were exchanged) and `slow` (a
  handler kept a signed token past its second) are history variables.
* **Sessions**: what the rotation promises, without statements, locks and transactions: a login puts a
  token in, an exchange takes one out and puts one in at once, and a late exchange, whose token another one
  took meanwhile, only puts one in. `AuthService` instantiates it with the rows of the table as the live tokens.
* **Session**: the programs of one machine up to the moment they have a session. A *client* is one
  run of a command (`Cli`) or one goroutine of the text UI that logs in (`Attempt`); `stage[c]` says
  where it is, `typed[c]` which password it was given. `account` is the server's user, `file` the session
  file (nothing, half a file, or who wrote it under which key), `lock` who has the Bolt file open.

  | `stage` | where the code is (main.go; components.go) | leaves by |
  |---|---|---|
  | idle | not started | CliRegister (91), CliLogin (133), CliUse (40); TuiStart (622-636) |
  | register | before the call (113; 694) | Register, RegisterFail |
  | login | before the call and the opening of the secret (152-165; 700-714) | Login, LoginFail |
  | open | before NewStore (172; 720) | OpenStore, OpenStoreFail |
  | save, write | before and inside the write of the file (181; 730; session.go:54) | SaveTruncate, SaveWrite, SaveFail |
  | sync | first FullSync (187; 738) | FirstSync |
  | load | before session.Load (46) | Load |
  | done, failed | ended; a login's answer waits for Update | TuiTake |
  | in, gone | the text UI has taken the session over; it is no more | |

  `Kill` ends a command anywhere, `KillAttempts` the text UI with all its goroutines. `End` gives the lock
  back with a command's process. A login of the text UI that fails behind NewStore does not
  close its store: the lock stays until `Collect`, the finalizer of the file.
* **Tui**: the text UI, which EXTENDS `Session`. Its variables are the fields of `model` and `authModel`
  (`screen`, `step`, `session`, `list`, `viewing`, `data`, `form`, `adding`, `err`), the store (`held`, `marked`), and
  `cmd`: what bubbletea has in hand, in slots. A slot is a command that has not run yet (load, view, save,
  sync), or the answer that has not been handled (listed, viewed, synced, error). `Key...` and
  `Take...` are one pass through Update, `Run...` a goroutine, in any order. The steps of
  commands and logins stutter in the screens; `EnterPassword`, `AuthSuccess`, `AuthError` and `Quit` are
  joint steps of both modules.
* **RateLimiterProofs**, **AuthServiceProofs**, **SessionProofs**, **TuiProofs**: their theorems.

Abstractions to know of:

* Two saves do not read the same nanosecond, on any device (`AddVersion`). Clocks of
  different devices are otherwise unrelated: any free stamp may come next.
* A request the client has given up is executed before its next step or never.
* Reads of an open Bolt file fail only for a missing key; writes may fail always.
* A rejected token, a failed dial and an unreachable server are the same failed request.
* `RateMax` is small where the program has 5 (`cmd/server/main.go:47`), with fewer entries.
* In `FullSync` the limiter is the count of one connection within one window; `RateLimiter`
  has the windows. A count above `max` is as good as any other, and is kept at `Max + 1`.
* A token is its user and the second of its issue: the claims are sub, iat and exp
  (jwt.go:40-48), so two tokens of one second are one token, with one hash.
* Login's SELECT and its signing are one step, and so are RefreshToken's: users are never
  deleted, and the rest is local. The lifetime of a signed token (configuration) and of a
  row (72 h in the code) are one constant. Calls the limiter refuses are left out.
* Locks are PostgreSQL's, read committed: a DELETE that waited for another one finds
  nothing after its commit, and an INSERT waits while its hash is being deleted.
* The clients in this repository never come as far as RefreshToken: authclient.go:78-80 sends no
  authorization header, and the interceptor asks for one (ratelimit.go:121-124). `AuthService` is
  about what the server does for a client that sends it.
* The text UI marks entries of its last listing. The model lets it mark any entry that
  was saved, which includes those of an outdated listing.
* `FullSync`'s model of the command line client begins where the session file has been opened.
  As the code stands `login` and `requireSession` derive different keys for that file
  (main.go:177, session.go:58; the run `session_unreadable`), so the commands behind `requireSession`
  are reached only with a session file written under the other key. The runs that show a defect of
  synchronisation therefore use the text UI, which logs in by itself.
* In `Session` there is one account: logins differ in who made them and in the password. The
  server hands tokens to anyone who knows the login (auth.go:37), so a wrong password shows when the
  secret is decrypted. A key is what it is derived from. The content of a session is its writer.
* A register, a login or a sync in `Session` is one step at the server's end: `AuthService` and `FullSync`
  have their inside. A registration whose answer is lost has registered the user.
* In `Tui` a sync is one step that may add, restore or drop any entry and resolve any mark, and
  makes no mark: `FullSync` has what it does in between.
* Each key of the list acts on an entry of the list as it stands; which one is selected, and the
  list widget's own keys (its filter among them), are the widget's. The four kinds of entry are one
  kind of form. The id of a new entry is one that nothing remembers (`Known`), because it holds the
  time of its creation; the value of a form is new if no save holds it, because the code allocates it.
* The text UI does not start again after `Quit`: its model is reset and nothing but the files is left.

## 3. The runs

| run | instance | checks |
|---|---|---|
| `cli_two_devices` | 2 devices with the command line client, 2 entries, 2 stamps, limit 2, all faults | `TypeOK`, `VersionHasData`, `PullResumes`, `PushPublishes`, `PushIsCurrent`, `NothingLost`, `OlderMarkSurvives` |
| `tui_two_syncs` | 1 text UI, 2 overlapping syncs, 2 entries, limit 3, all faults | `OneVersion`, `VaultSpec`, `SyncDescends` |
| `rate_limiter` | 2 keys, limit 2, window 2, times 0 to 6 | `TypeOK`, `SpreadOut`, `RefusedHadShare`, `WindowSpec` |
| `token_rotation` | 1 user, 3 handlers, 2 logins, seconds 0 to 2, lifetime 2, failures | `TypeOK`, `SessionKept`, `UsedNeverFound`, `SessionsSpec` |
| `one_machine` | 2 commands, 2 logins of a text UI, 2 passwords, kills and failures | `SessionTypeOK`, `FileOfHolder`, `FileWhole`, `StoreInUse`, `CommandReturns` |
| `tui_screens` | 1 text UI, 2 logins, 2 commands in flight, 2 entries (1 with a file), 2 forms | `TypeOK`, `NothingBeforeLogin`, `ShownIsAsked`, `ListIsFresh`, `SaveReadsItsForm`, `OneVault` |
| `tui_liveness` | 1 text UI, 1 sync at a time, 2 entries, limit 3 (a pull and two pushes), faults until it is calm | `SyncEnds`, `EventuallyPublished`, `DropAfterRetire` |

Bounds. Two entries are enough for an order between entries (a newer one hides an older
one, one refused push stops the next); two devices for every exchange, two syncs for every overlap. `Stamp` has as
many values as there are entries, in any order. `MaxDue` bounds the syncs a text UI has
ordered; `RateMax` is at the edge (2: the second push is refused) or just above it.
The limiter's clock reaches three windows, so that a
record can expire, be replaced and expire again around every tick. Three handlers let a login and two
rotations meet, or two waiters queue behind one deletion; three seconds let a token be of the
same second, of the next, and expired. Two commands and two logins are every pair that can meet
at the lock and the file, of either kind; with two passwords the second login may be of another one, or
the password of a load the wrong one. Two slots let any two commands overtake each other (two views, two
listings, a sync and a save), and two forms let a save meet another form than its own; the proofs of
`TuiProofs` cover any number. `tui_screens` has no commands beside the text UI: `one_machine` has those.

`token_rotation` does not check for deadlock, because its clock stops at `MaxNow`; nor do `one_machine`,
`tui_screens` and `session_unreadable`, where a program that has ended does not start again. `rate_limiter`
does, since a request is always answered. `SYMMETRY` exchanges devices together with their workers, the
workers of one device, handlers, or in `tui_screens` the slots, forms and logins. Its `VIEW` leaves out
fields that are written before they are read again: the steps of the login behind the login
screen, the viewed entry outside its screen, the form when none is open or being saved.

What each property is about:

* `OneVersion`: "higher version" on the server never chooses between two contents, and a
  tombstone never leaves the device.
* `VersionHasData`, `PullResumes`: a sync that dies anywhere leaves a store from which the
  next pull continues. They hold for one operation at a time, so they speak of the devices with the command
  line client (`Command`), whatever the others run; in the text UI a save beside a pull raises the maximum
  over rows not applied yet.
* `PushPublishes`: the push phase ends well only if everything listed with a version is on
  the server, or some user deleted it.
* `PushIsCurrent`: entry and version are read, then pushed. In a command nothing comes in between, so what
  is pushed is what the store holds; in the text UI a mark may (section 4).
* `OlderMarkSurvives`: how far `MarkSurvives` is true: a pull of a command may erase the mark of the newest
  entry, and of no other, because it asks only for what is later than the device's maximum.
* `SyncDescends`: a sync returns because each of its steps leaves less to do: fewer phases, fewer rows or ids
  in the loop's list, or fewer calls in the loop's body. No answer, failure or other worker lengthens
  a list or starts a loop again.
* `NothingLost`, `DropAfterRetire`: a copy goes only after a mark on that device, and after
  the server's row.
* `VaultSpec`: the refinement.
* `SpreadOut`, `RefusedHadShare`: windows are fixed, so the limiter's real promise is not "at
  most `max` per window" but that any `2 * max` requests in a row take longer than a window; and
  a refusal is deserved.
* `WindowSpec`: the map, the expiry that Allow looks at and the cleanup are together one window per key:
  nobody can tell when the cleanup ran, or that it was stopped.
* `SessionKept`: deletion, insertion and failure of rotations never leave a login without a row.
* `UsedNeverFound`: a token that was exchanged stays unknown, unless a handler kept a signed
  token past its second. That condition is needed: a login that signs a token and is
  delayed may insert it after a twin of the same second was exchanged.
* `SessionsSpec`: the DELETE and the INSERT are one step for whoever reads the table, whoever waits for the
  row, fails or is cut off in between. A token goes out of the table only for one that comes in; the
  only exchange that takes none out is the late one.
* `FileOfHolder`: both logins open the store before they write the file, so the lock of the store
  guards a file that has no lock of its own: two programs never end with the session of one and the
  store of the other.
* `FileWhole`: a reader finds half a file only while the holder of the store writes it, or after a
  writer died: the next reader sees a torn session, and nothing mends it but another login.
* `StoreInUse`: a client that has the store is at work with it. The one exception is a login of the text UI that
  failed behind NewStore, which does not close its store (components.go:732-740).
* `CommandReturns`: no way out of a command leaves the lock behind. It supposes that the text UI
  ends or gives the store up, because nothing limits the wait (store.go:22).
* `OneVault`, `NothingBeforeLogin`: escape lets the user start a second login beside the first; it never
  gets the store, so its session can not replace the one that is open, and no command reads a nil
  store.
* `ShownIsAsked`: an answer carries data and not the id it belongs to. Two requests that cross may
  show one entry under the other's title; without a crossing they do not, and the condition is
  the exact one: dropping it gives a counterexample.
* `ListIsFresh`: likewise for listings. A listing that was read before a deletion may be shown in
  between; once every sync and its listing are in, no deleted entry is listed.
* `SaveReadsItsForm`: a save reads the model's form when its goroutine runs. The screen of the form
  stays meanwhile, so there is no other form, unless a sync comes back and opens the way to one
  (`left`); then the save may read that other form.
* `SyncEnds`, `EventuallyPublished`: see fairness.

Fairness (`FullSyncLive`): each worker's goroutine is scheduled and each request is answered
or times out; a save that began ends; a user with nothing running leaves the program and
starts it again, and every start syncs. `BecomeCalm` ends faults and writes: without it
nothing could be promised. Each conjunct is weak fairness of one goroutine's steps.

Fairness (`FairSession`): a command is scheduled and its calls return, since each call to the server has a
limit of time. The wait for the store is enabled only while the store is free, so weak fairness says nothing of
it. Logins of the text UI have no fairness: their registration has no limit (components.go:694).

## 4. Where the code and its documents disagree

Each of these runs ends in a counterexample, and none of them needs a fault. Those of
synchronisation use the text UI. The last one needs a login and one more command.

| run | property | what happens |
|---|---|---|
| `mark_overwritten` | `MarkSurvives` | the sync that a deletion orders pulls the newest entry again and erases its mark: the newest entry can not be deleted |
| `deletion_undone` | `DeletedStaysDeleted` | a device that pulled the entry earlier pushes it back |
| `missed_by_pull` | `PullFindsMissing` | an entry that reaches the server late is older than this device's newest: it is never pulled |
| `rate_limit_starves` | `EventuallyPublished` | with more entries than the limit admits the last ones are never pushed |
| `session_unreadable` | `LoginThenLoad` | a command is given the password of a login that ended well, and the session it saved does not open |

Three more are in the models without a run of their own: one device is enough to undo a deletion, when a sync
pushes what it read before another sync deleted it; an entry marked before its first push stays marked, because
the server refuses to delete what it does not have; and two rotations with one token both succeed, because the
second one's DELETE meets no row and goes on (auth.go:126).

## 5. The proofs

`FullSyncProofs` proves, for any sets of devices, workers, entries and stamps, any limit, and
any mix of clients:

* `Invariant`: `Spec => []IInv`;
* `TypeCorrect`: `Spec => []TypeOK`;
* `OneVersionHolds`: `Spec => []OneVersion`;
* `NothingIsLost`: `Spec => NothingLost`, an action property;
* `RefinesVault`: `Spec => VaultSpec`;
* `DropAfterRetireHolds`: `Spec => DropAfterRetire` if there is one worker. The hypothesis is needed: a second
  worker, of this device or another, may push the entry back between the server's deletion and the local one.

Assumptions: `EntryAssumption` (ids are positive numbers) and `WorkerAssumption` (each worker has
a device, stamps are positive, the limit is). TLC evaluates both in every run.

The argument. `OneVersion` is not inductive: a worker that writes a version from its hand,
or pushes one, needs to know what that version is, and a new entry must not collide with
one that is under way. `IInv` adds: the stores and the table agree on an entry's version
(`VersionsAgree`); an entry being saved has no version yet and one owner (`SavingOnce`); every
tombstone has a user behind it (`TombstonesMarked`); and for each program counter what the
worker holds (`HandOk`): rows and versions in hand are the entry's own, and an id between the
Delete request and the end of the drop was marked on the worker's device. One lemma per
group of actions shows that the step keeps it; steps that only move a worker share
`LocalStep`. `NothingIsLost` follows because only `DropEntry` removes a copy and only a deletion
removes a row. `RefinesVault` maps each action to a step of the vault or to a stutter
(`StepKinds`), and uses `IInv` for the guards: a row in hand was saved, a drop was requested.
`DropAfterRetireHolds` has an invariant of its own (`RetiredFirst`): between the server's answer and the drop
there is no row, since the one worker that could push it is the one that is dropping.

`RateLimiterProofs` proves `TypeCorrect`, `SpreadOutHolds` and `RefusedHadShareHolds` for any keys, limit and
window, from `LimiterAssumption` (limit and window are positive). The invariant speaks of the history of each
key as a sequence of groups, one per record (`GroupsOk`): a group spans at most a window, has at most `Max`
members, and begins after the one before it has expired; the last group is the record in the map, if the
map has one (`RecordOk`). Of `2 * Max` requests in a row the first and the last are therefore in groups
with a third one between them, or more than a window apart. `RefinesFixedWindow` maps `AllowFirst` to the opening of a
window, `Allow` to a request that passes in it, `Pass` to the time that closes windows, and `Refuse`, `Cleanup` and `Stop` to a stutter: a
record that has expired and one that was removed are the same window through the mapping, and a count above `Max` is `Max`.

`AuthServiceProofs` proves `TypeCorrect`, `SessionKeptHolds` and `UsedNeverFoundHolds` for any users, handlers and lifetime,
from `AuthAssumption`. The invariant adds what a handler holds (`HandOk`): the new token belongs to the user of
the old one, and was signed in the current second unless a handler is slow; a token in use is then of an
earlier second than any token that can still be inserted. Login and rotation share one lemma (`InsertStep`):
a token takes the place of others and inherits the logins they stem from. `ImplementsSessions` maps the INSERT of a
login to a login, the INSERT of a rotation to an exchange if its DELETE took the row and to a late exchange if it found none,
and all else to a stutter. Its guards need a second invariant (`DeletedOk`): what a transaction has deleted is still in the table for
everybody else, no other transaction has deleted it, and a token held for an exchange stems from a login.

`SessionProofs` proves `TypeCorrect`, `FileOfHolderHolds`, `FileWholeHolds` and `StoreInUseHolds` for any commands, logins and passwords, from
`SessionAssumption` (commands are not logins, `None` is neither). `FileOfHolder` alone is not inductive: that nobody
else writes the file rests on who has the store, so `SessionInv` adds that every client from
NewStore on has the lock, up to the end of a command and beyond the end of a login (`Holding`).

`TuiProofs` proves the six properties of `tui_screens` for any number of entries, slots, forms and logins beside any number
of commands, and `ImplementsSession`: every step of `Tui` is a step of `Session` or none, so the
invariant of `Session` is not proved again but used. `TuiInv` adds what is on its way: the answers for the view screen are
of the viewed entry (`ViewOnItsWay`), one listing is under way and is of what is there (`ListOnItsWay`), the
screen of a form that is being saved has not been left (`SaveOnItsWay`), each under the condition of its
property; and that an open vault is that of a login that is in (`VaultIsOpen`), whence a second one would need the lock.

`CommandProofs` proves `VersionHasDataHolds`, `PullResumesHolds`, `PushPublishesHolds`, `PushIsCurrentHolds` and
`OlderMarkSurvivesHolds` for any number of devices, any limit and all faults. The properties speak of the devices with the command line client
(`Command`); text UIs may run beside them, on other devices. They are false for a text UI itself, where operations overlap. `CommandInv` adds to
`IInv`: a command's device runs one sync or one save, or has one sync ordered (`OneAtATime`); no two entries have one version
(`StampsDiffer`); and for each phase what it has done so far: a pull's rows are above all that is recorded, and above the
row in hand (`PullPhase`); what the push loop has passed is published (`PushPhase`); what is in hand is what the store
holds, a tombstone while it is being deleted (`InHand`). A step of a worker changes its own device, where nothing else runs, and rows of the
server, where what is published stays so until someone marks it (`PublishedKept`); so the phases of all others are kept by
one lemma (`OthersOk`). `OlderMarkSurvives` needs one more invariant, `MarksPut`: a marked entry is not one that is
just being added, so only a pull can write a version over its mark, and a pull writes above everything recorded.

`ProgressProofs` proves `SyncDescendsHolds`, for any entries and any overlap of syncs, and `DescentIsFinite`: the rows and ids a sync has ahead
are finitely many in every reachable state, although `Entry` need not be finite (`FiniteWork`: a step adds at most one entry to the
stores and the table), and every nonempty set of such states has one that no other is nearer to the end than
(`DescentsEnd`). Together they say that a sync takes finitely many steps of its own: the safety part of
"every sync returns". What is left for TLC is that each of its steps is taken, which is `SyncEnds` under fairness.

Only model-checked: liveness (`SyncEnds`, `EventuallyPublished`, `CommandReturns`), which needs fairness and ENABLED and is out of
the prover's reach. `StoreInUse` is the part of `CommandReturns` that is a safety property. Every other property of a
passing run has a theorem.

## 6. Not modelled, and the plan

Not modelled on purpose: generated RPC code, cryptography, formatting, prompts, configuration,
the unused repository and the empty hash package. Of modelled parts: the refresh of a session and its
rename (session.go:82-133), which no saved session reaches; rendering, the fields of the forms, the error that
the view never leaves (`err` has it, the wording is the view's); the start and the stop of the server, which for a
client is a lost request or a lost answer.

Planned, in this order:

1. `StoreKeys` and `EntryCodec`: prefix scan over several users and the choice of an entry's type,
   as operators checked over bounded inputs;
2. requests that are executed after the client has gone on, and the server's stop;
3. `Tui` with the steps of `FullSync` in the place of its one-step sync.
