# Ztech ERP: a verification project

TLA+ models of the parts of Ztech ERP in which several processes, requests or
transactions meet, the TLC configurations that check them on small instances,
and TLAPS proofs for every value of the constants. Paths are relative to the
repository; `core/` stands for `backend/ztech_sales/core/`.

## The system

One deployment serves one company: PostgreSQL 16 at READ COMMITTED, Django under
gunicorn (3 processes of 4 threads), any number of `run_worker` processes, and a
React client. `ATOMIC_REQUESTS` is off, so a request is a series of small
transactions, and only code inside `transaction.atomic` is atomic. Each statement
of a transaction sees what is committed when that statement starts.

| Component | State it keeps | Operations | Meets others through |
|---|---|---|---|
| Durable outbox (`core/models/outbox.py`, `core/outbox_handlers.py`, `run_worker.py`) | `core_outbox_message`: status, attempts, available_at, key | enqueue, claim_batch, mark_succeeded, mark_failed, dispatch, the worker loop, signals | enqueuers and workers share the table; workers die |
| Document numbering (`core/models/sequence.py`) | one row per sequence: next_value, current_period | allocate | the caller's transaction; the company's row and time zone |
| User account (`core/models/user.py`, `base.py`, `auth_backends.py`) | one `core_user` row: version, profile, flags, password, failed sign-ins | update_user, sign-in, failed sign-in, password change | unlocked copies of the row, and the version column |
| User and role administration (`core/services/identity.py`) | accounts, assignments, roles and their codes | update_user, update_role, create_user, create_role | reads of one request, writes of another; foreign keys |
| API (`core/api/`) | none beyond a request | views, serializers, permission classes | calls the services above |
| Company settings (`core/models/company.py`, `CompanyView`) | one row | PATCH | numbering uses its time zone and locks its row |
| Audit trail (`core/services/audit.py`) | insert-only rows | record_audit | written in the caller's transaction; refers to the actor |
| Request context (`core/context.py`, `middleware.py`, `tenancy.py`) | a context variable | set, reset, read | one request at a time |
| Sessions and sign-in (`LoginView` to `PasswordChangeView`, `auth_backends.py`, the session middleware) | `django_session` rows, the audit entries of signing in and out | sign in, change the password, use, sign out | the user's row; requests of one browser that overtake each other |
| Roles and the permission catalogue (`core/permissions.py`, `get_permission_codes`) | roles and their codes | resolve, seed, replace, prune | every check of a request; two releases have two catalogues |
| Money, storage (`core/money.py`, `storage.py`) | none; files | rounding; save, open, delete | a currency's decimal places; nothing calls storage in this increment |
| Commands (`bootstrap_client`, `create_admin`, `check_roles`) | the seed rows | run by an operator, release after release | the same tables, beside the requests of administrators |
| Browser: editing screens (`pages/*FormPage.tsx`, `CompanySettingsPage.tsx`, `api/hooks.ts`) | the fields of one form, what they were loaded from, requests under way, the tab's history | load, edit, save, reload, navigate | HTTP; the router; the same rows other administrators save |
| Browser: requests, sign-in (`api/client.ts`, `SessionProvider.tsx`) | the session, the CSRF cookie | request, signIn, signOut, refresh | every screen calls them |
| Browser: lists and widgets | filters, toasts | list, render | load as the editing screens do |
| Configuration and deployment | settings, containers | start, stop | fixes the process structure above |

### What is hard, and what makes each component correct

* **Outbox**: claims, crashes, signals and failures interleave at statement
  level. A message must belong to one worker at a time, be queued once per key
  and not lost when the transaction it was skipped for rolls back, be tried
  within its limit and with its backoff, and be settled in the end.
* **Numbering**: the row lock lives in the caller's transaction, and the period
  is computed after the lock was granted. References must be unique, gap-free,
  in order; and two rows locked per allocation must not stop the system.
* **User account**: two protocols write one row, one locked and versioned, one
  from unlocked copies. No column may be put back, and no stale form accepted.
* **Administration**: a rule over several rows is asserted by each transaction
  for itself. Somebody must always be able to manage users, and requests must end.
* **Sessions**: no view is one transaction; the middleware stores the session after the view, every answer stores
  again what its request loaded, and a session is loaded at another moment than its user. Somebody
  revoked must not be served, nobody signed in without a record, no ended session come back, and none end
  without a cause, whoever else signs in with the browser.
* **Provisioning**: the seed command is run again on an environment in use, by a release that may know other codes
  and other decimal places, perhaps before that release serves, and with another time zone. The environment must be
  complete or absent, what documents rely on must stay as far as the zone lets it, and the right to decide approvals must come from a
  role assignment alone.
* **Editing screens**: React keeps one instance for all roles, its requests and its
  `handleSubmit` outlive what the user looks at, and answers are late or lost. A form
  must show the record it stands for, a save must overwrite nobody else's, a
  conflict must be real, and the screen must come to rest.

`PROJECT.json` lists each hazard with its line and the properties that cover it.

## Modules

| Module | Models | Extends |
|---|---|---|
| `Delivery` | the contract of the outbox: messages wait, are held, retried, settled (with the proofs about it) | |
| `Outbox` | enqueueing transactions, claim_batch, handlers, marks, the worker process, crashes, the clock | instantiates `Delivery` |
| `OutboxProofs` | its invariant, its theorems, the refinement | `Outbox` |
| `DocumentSequence` | transactions that call allocate, and the zone the company may change | |
| `DocumentSequenceProofs` | its invariant and theorems | `DocumentSequence` |
| `UserAccount` | one user row and all requests that write it | |
| `UserAccountProofs` | its invariant and theorems | `UserAccount` |
| `Session` | the composition of `UserAccount` with sessions, the browsers that use them and audit entries | `UserAccount` |
| `SessionProofs` | its invariant and theorems; that it implements `UserAccount` | `Session`, `UserAccountProofs` |
| `Administrators` | update_user and update_role over all accounts and roles | |
| `AdministratorsProofs` | its invariant and theorems | `Administrators` |
| `Catalogue` | the permission catalogue, the built-in roles, and what a release may change of them | |
| `Money` | rounding and printing of amounts | |
| `Provisioning` | the commands and the requests that change the company, roles, accounts and numbers, across releases | `Catalogue`, `Money` |
| `ProvisioningProofs` | its invariant and theorems, and those about rounding | `Provisioning` |
| `EditScreen` | RoleFormPage in one tab: the form, useResource, saves, the history, and the roles on the server | |
| `EditScreenProofs` | its invariant and theorems | `EditScreen` |
| `MC...` | small instances: job sets, period starts, symmetry | the module named |

### Outbox

A member of `Messages` is one request's `enqueue` and the row it would insert, so
a retried request is another member with the same key. `job` holds its
arguments. `Enqueue` is the `exists()` query, `Insert` the INSERT of `create`,
with the unique index behind it: it waits while another uncommitted row has the
key (`KeyContended`) and fails if a committed one has. `Commit` and `Rollback` end
the caller's transaction. `ClaimSelect` and `ClaimUpdate` are the two statements
of `claim_batch`, and `locks` the rows between them; any page that the ORDER BY
allows may be chosen. `Dispatch` starts a handler, `MarkSucceeded`,
`MarkFailed` and `DispatchUnknown` are its outcomes. `ResultNotStored` is
`mark_succeeded` raising in the `else` branch of the try statement: the column
`result` is a JSONField without an encoder, and the exception leaves the loop.
`Signal` clears `_running`; `Exit` tests it between batches; `Crash` is a kill at any
point: an open claim rolls back, a committed one stays. `runs` and `failedAt` are history
variables that no action reads.

Left out: payloads, error texts, `locked_at` and `locked_by`, which are written and never
read. A worker's copy of a row is the row: only its holder writes it, which is
what `ExclusiveClaim` says.

The contract, `Delivery`, knows five phases of a message and the number of
times it was taken. `Outbox` implements it under the mapping `Phase`: a row that is
not committed is absent, pending and failed rows wait, a row in progress is held.

### DocumentSequence

A member of `Txns` is one transaction. `LockSequence` and `LockCompany` are the two
row locks of the one SELECT ... FOR UPDATE with its join, in the order the plan of
the join takes them; `Draw` computes the period from the clock and the zone of the company
row, numbers, and saves. `row` is the sequence as its lock holder sees it, `saved`
as last committed. A period is the count of period starts that have passed in the
company's zone (`Token`), so yearly, monthly and unreset sequences are values of
`Starts`. `DeadlockVictim` is PostgreSQL ending one transaction of a cycle of waits.

### UserAccount

`View`, `LockAndCheck`, `SaveEdit`, `AbandonEdit` are an administrator's form and
`update_user`: row lock, `assert_version`, save of every column. `Load` to
`StaySignedIn` are a sign-in or a password change, from an unlocked copy of the
row: each `save(update_fields=...)` writes its columns, and `version`, one more than the
version of the copy, because `User.save` adds it. `written` is a history variable:
what the last writer of each column wrote.

### Session

Takes every action of `UserAccount` and adds what the same request does to its session. `store` is the table: a key
is free, anonymous (`cycle_key` has stored it empty), signed in or ended, and carries a hash of the password, here the number
of the change that set the password. `Send` is the request with a cookie of the browser (`given`), `LoadSession`
the lazy load of the session, `Enter` the first half of `django_login` (keep, flush or cycle the key), `Greet` its second half and the
save of the counters, `Change` is `change_own_password` with the entry in its own transaction, `Record` the `record_audit` of
a sign-in, and `Respond` the middleware's save, which inserts a row for a session without a key and answers 400
for a row that has gone. `Arrive` and `Recognise` are the two loads that `SessionAuthentication` makes, `Show` the answer of
`SessionView.get`, `RecordLeave` and `Leave` are `LogoutView.post`. The middleware does not save on an
error of the server, so a request that fails, or whose process is killed, is one that takes no further step: every prefix of
a request is a behaviour. `past` and the `asked` of a visit are history variables.

`store` has the sessions of one user, as in `UserAccount`. A browser may change hands, and `django_login` flushes a session that is
somebody else's: `FindSession` and `Displace` are the sign-in of another user with the cookie of a session of this one (`LoginView` asks
for no session, so anybody may), which ends that session without an entry of signing out; `Foreign` is the key of somebody else's
session with which this user signs in, and `Enter` then starts one of its own. What becomes of the other users' sessions is left out,
and so are expiry, which ends a session as signing out does but without an entry, and the rate limit.

### Catalogue, Money, Provisioning

`Catalogue` has the codes and roles of the source, for release 0, and what a later release retires or adds as constants.
`Money` counts in the finest unit in use: a currency's quantum is the size of its smallest coin, so more decimal places are
a smaller quantum.

`Provisioning` keeps the rows that a client environment consists of. `bootstrap_client` is one transaction, and others see only
its locks before it commits: `Begin` seeds the currencies and reads the company, `SaveCompany` and `SeedRoles` lock
what they save, `Finish` seeds the sequences and commits, `Fail` is an error of any step or a kill. What it has saved is decided by its
copy, and nobody else can change a row it has saved, so that the saves are applied at the commit. Its release may be ahead of the one that
serves. The other commands and the requests are one step each, since
`Administrators` and `DocumentSequence` interleave those transactions statement by statement. `PermissionCodes` is
`get_permission_codes`; each request needs the company and a user with the code its view requires, and an account that updates
accounts is named because it may not deactivate or demote itself.

`now` is the clock and `zone` the company's time zone as an offset; `Year` counts the years that have begun by today's date in that zone,
and `Number` is the reset of `allocate`: 1 if the row is of another year, an earlier one included. Each run of `bootstrap_client` sets the
zone to its argument, whose default is one zone for every client, and a PATCH may set it too. The row of a seeded sequence
is of year 0, `""`, until a number is drawn.
`hist` keeps the references issued, which sequences gave one twice (`twice`) and which drew for a year after a later one
(`back`), the first quantum of each currency, who was last given `approval.decide`, and what a step of
`bootstrap_client` has to be compared with.

Left out: names and descriptions, role versions (`UserAccount` and `EditScreen` have version checks), audit entries in the transactions of
the changes they record, and a first run with one `--code` followed by another with a different one.

### Administrators

A user row is the account with its assignments, a role row the set of codes it
grants (none when it is inactive): `_replace_roles` and `set_permissions` write
under the lock of the row they belong to. `Send` is the permission check, made
before the transaction and from a user loaded before it. `LockRow` locks and compares the version,
`SaveUser` and `SaveRole` write any other value the rules allow, `AssertFlagged`
and `AssertRole` are the two queries of `_assert_administrator_remains`, each with what
is committed at that moment and the transaction's own rows. `Commit` waits for the
rows that deferred foreign keys refer to, the actor of the audit entry and each
newly granted role, as long as another transaction holds them FOR UPDATE.
A request that changes nothing writes no audit entry and is left out.

### EditScreen

`screen` is the state of the one instance React keeps for all of `/roles/:roleId`: its fields,
what they were loaded from (`form`), and `loading`, `failed`, `dirty`, `saving`,
`conflict`. `mount` numbers the instances; leaving for a location that is no form ends one.
`gets` are the requests of `useResource`: `active` is the effect's variable, `Load` is the
effect and `Cleanup` its cleanup, `ServeGet` the moment the server reads the row and `Receive` the
moment the answer is used. `saves` are calls of `handleSubmit`, each at the await where it is
suspended: `Submit` runs to the first one, `ServePatch` and `ServePost` are `update_role` and
`create_role`, `Saved` runs to `await refresh()`, `FinishSave` navigates and reloads, `EndSave` is
the catch and finally, `SignOut` what follows a `refresh()` that fails. `Follow` and `Back` are
the user's links and the browser's button. `OtherSave` is another administrator.

All that a role says is one number, its text, which is new each time somebody types. A
render and its effects are one step, as are the state changes of one callback, which
React batches. An answer to an aborted request is dropped when it was not yet given.
Left out: going forward in the history, losing the permission while a form is open, the
catalogue of permissions, which never changes, and a role's code, which stands and falls with its text
(`create_role` refuses one that exists). `UserFormPage` and
`CompanySettingsPage` follow the same steps; the former calls `refresh()` only for one's own account, the latter
neither creates nor navigates.

## Runs

| Run | Instance | Shows |
|---|---|---|
| `OutboxSafety` | 3 requests, 2 workers, batch of 2, 1 crash, jobs with a shared key, a missing handler, a late start and an unstorable result | claims are exclusive; a key has one committed message and a committed request leaves one; runs stay within attempts; every step is one of the contract |
| `OutboxLiveness` | 2 requests, 2 workers, up to 3 attempts, 1 signal, no crash | no message is stranded; backoff is kept; every committed message is settled; the contract's fairness is implemented |
| `OutboxCrash` (violation) | 1 worker, killed once, restarted | a claimed message is lost to a kill |
| `SequenceSafety` | 3 transactions of up to 2 draws, 2 sequences, 2 periods, one zone, the company edited once | unique, gap-free, in order; every transaction ends, deadlocks included |
| `SequenceZone` (violation) | 3 transactions of one draw, 2 periods, a change of zone at the turn | the later period is begun, left and begun again, and its first reference is given twice |
| `AccountColumns` | `Session`: 1 form, 2 requests that sign in or change the password, 2 visits, 1 sign-in by another user, 3 keys, 1 edit, lock-out at 2 | no column is put back; nobody revoked is served; every session is on record, ends for a cause, and stays ended |
| `AccountStale` (violation) | `UserAccount`: 2 forms, 2 requests, 2 edits | a stale form is accepted |
| `AdminSerial` | 2 users, 1 role, 3 requests, one open at a time | an administrator remains |
| `AdminDeactivations` | 3 users, no role, 2 requests at once | an administrator remains; requests end |
| `AdminSkew` (violation) | 2 users, 1 role, 2 requests at once | one request takes the flag from the one administrator, another the role from the other: nobody is left |
| `EditSafety` | 2 roles, either of which may be new, 2 saves, 2 forms opened, 2 texts typed by anybody | a form shows its role; no save overwrites another's; a conflict is someone else's change; the screen comes to rest |
| `Provisioning` | 2 releases, 2 runs of `bootstrap_client`, 2 accounts, 2 built-in roles and one of the client's own, 2 zones, the turn of a year, 2 changes by administrators, 3 numbers | complete or absent; deciders are chosen; amounts stay, and a reference is given twice only after a year went back; a form is fresh; housekeeping changes nothing |

### Why these bounds

The interesting cases need two of everything and a third of the kind that
interferes: two workers for a claim, and a third message to leave outside a page of
two; two requests with one key and a third for the wake of a rollback; two transactions
in a deadlock and a third that waits behind it; two forms and two requests, one
older than the edit; a session that is opened, one that is used meanwhile, and a key left for one that is flushed; three
numbers, so that a reference really is given twice after the zone went west and the year came again; two
runs of the seed command with a release between them, over a currency that the later release would seed otherwise; two roles one instance can go between, and a second save after one that was
lost, refused or answered late. `MaxCrashes`, `MaxSignals`, `MaxDraws`, `MaxTime`,
`MaxZoneChanges`, `MaxEdits`, `MaxOpen`, `MaxTexts`, `MaxVisits`, `MaxRuns`, `MaxChanges` and `MaxRelease`, with the sets of
keys, accounts, roles, what an administrator asks for (`Choices`, `Grants`) and amounts, are all the bounds on what the code leaves
unbounded, declared in the modules with their guards; the proofs hold for each value
of them. Time advances in `Outbox` only while a row is not yet due, since it matters
to nothing else. `BatchSize` and `RetryBase` are parameters of the code itself.
Symmetry is used for safety only. Every safety run disables TLC's deadlock check because the
system rests when all requests have ended and the queue is empty.

### Fairness

* `Outbox`: workers are supervised (a container that is restarted) and a handler returns or raises, so each worker
  keeps taking its next step; the clock runs. Requests may stop anywhere. Without
  a crash, `ClaimSelect` stays enabled for a due row unless another worker claims it.
* `DocumentSequence` and `Administrators`: a request, once begun, runs on: it takes
  a row lock that is free and PostgreSQL finds a deadlock. Rolling back for another reason is never
  assumed, so waiting for ever would show.
* `EditScreen`: the browser answers every request in the end, with an error if nothing else,
  and what awaits the answer goes on. The user, and requests nobody listens to, may do nothing for ever.
* `Session` and `Provisioning` state none: a request or a command may stop at any step, which is how they fail, and all
  that is claimed of them is safety.

## What disagrees with the documents

1. **A killed worker loses its batch.** `due()` selects `pending` and `failed`, so a
   row left `in_progress` is never claimed again; `locked_at` is written and
   not read. Theorem `ShutdownStrandsNothing` shows that kills and unstorable
   results are the only ways, `KillsLoseABatchEach` that a kill loses one batch and no more.
2. **A move of the time zone to the west at the turn of a period issues numbers twice.** A company whose zone is ahead draws in the new
   period; in the zone to the west the next draw falls back to the period before and resets the row; and when the clock reaches the new period
   again the row is reset once more, and its references are given a second time. A PATCH of the company moves the zone in the run
   `SequenceZone`; a rerun of `bootstrap_client` with another `--timezone`, or without one, does the same (`hist.back` in `Provisioning`).
   Theorem `OnwardIsForward` shows that nothing else can: the numbering is sound as long as the local time of the
   company never goes back (`LocalClockOnward`), whichever zones it moves through.
3. **A sign-in can undo the version increment of an edit.** Theorem
   `EditsNeverLost` shows that this is all that is wrong: while no step lowers the version, every stale form
   is rejected, however many requests write the other columns. `NoColumnLost` shows that the values themselves are never put back.
4. **Two changes at once can leave nobody who can manage users.** In the run `AdminSkew` one user administers by the flag and another
   through a role. One request, sent by the second, deactivates the first or takes the flag, and its assertion still sees the second's role; at the same time
   another takes that role, or its permission, and its assertion still sees the first's flag. Both commit.
   Accounts alone survive two requests at once only because each audit entry
   refers to a row the other request has locked; three such requests, two of them
   sent by one administrator whom the third has just deactivated, defeat that too.
   Theorem `AdministratorKeptInTurn` says what is missing: a lock that keeps two transactions from being between
   assertion and commit at once. `AdministratorKeptIfSpared` says that it is enough to keep apart the
   commits of actors who at that moment are not active system administrators by the flag.

Seen while modelling, and checked by no run of its own:

* A handler's result that the JSON column cannot hold ends the worker, because `mark_succeeded` is called outside the try statement,
  although `run_worker.py:71` says that "one bad message must not stop the worker" (`ResultNotStored`).
* A save that is done navigates to the saved role (`RoleFormPage.tsx:114`) whatever has been typed, and wherever the user has
  gone, since it was sent; `useUnsavedChanges.ts:7` says that "screens that navigate away themselves still confirm" (`FinishSave`).
  Edits typed into the same form while it is saved are replaced by the reload that follows.
* After an answer was lost, the user's own save is reported as a change by someone else (`unsure` in `ConflictsAreOthers`).
* The version of the company grows by two per PATCH, which saves the row twice (`SavedTwice`), where `base.py:68` says "by one".
* `bootstrap_client` "updates what it owns and leaves everything else alone" (line 5). It owns the built-in
  roles: a run resets what an administrator, whom `permissions.py:193` invites to edit them, has made of them, without an
  audit entry and without asserting that an administrator remains. Theorem `OfCommandsSeedingLocksOut` shows that no other
  command and no release can leave nobody who can manage users; requests that overlap can (4 above). It also owns the time zone, which a run
  without `--timezone` sets to Asia/Muscat, whatever an administrator has chosen (see 2 above for the numbers). A PATCH of the company between its read and its save
  is put back (`overtaken` in `CompanyFormsFresh`), as is the rename of a role.
* Signing out writes its audit entry before the session is flushed, and in a transaction of its own, although `audit.py:65` would have it in that of the
  change: a request that stops between the two leaves an entry and a session that lives (`RecordLeave`, `Leave`).
* A deactivated account's sessions are not ended; reactivation revives them (`Recognise`).

## Proofs

All theorems are about `Spec` (`SessionSpec` in `SessionProofs`), for any finite or infinite sets the assumptions of
the modules allow, any bounds, and any number of steps.

* **Outbox.** `IInv` is the conjunction of seven parts. `LockInv` and `HoldInv` tie
  `locks`, `batch` and `current` to the status of the rows and to each other: exclusivity
  alone is not inductive, because what keeps a second worker out is that a held row is neither
  pending nor failed, and that between the two statements of a claim it is locked.
  `KeyInv` says that two uncommitted or committed rows never share a key and that a
  skipped request saw a committed one. `AttemptInv` says a waiting row has an attempt left,
  `RunInv` that a held message whose handler has not started has run fewer times than it was
  claimed, `BackoffInv` that a failed row is due no earlier than its backoff.
  `ShutdownStrandsNothing` adds one invariant; `KillsLoseABatchEach` counts: a claim and a batch have at most
  `BatchSize` rows (`ClaimSizes`), and the rows in progress that nobody holds (`Stranded`) grow by a batch at a kill and at no other
  step. The refinement maps each action to `Submit`, `Take`,
  `Retry`, `Settle` or a stutter; `OutboxSettles` carries a theorem about the contract over to the outbox.
  The contract's own theorems rest on what a step is to one message (`StepOfOneMessage`): five arcs, of which only being taken counts a
  try and none leaves done or dead.
* **DocumentSequence.** The invariant says who may differ from the committed
  row (the lock holder only), that the drawn references of a holder continue the saved row without a gap,
  and that issued references of a period are exactly those below its counter. That holds as long as no number is drawn in a period
  before the last one a number was drawn in. The hypothesis is `DrawsForward`, an action property of the behaviour and not
  an assumption on constants; the types and the locks need none. `OnwardIsForward` derives it from `LocalClockOnward`: a period that a row
  has is one that has begun (`PeriodInv`), and `Token` counts the starts before the local time. `NumberingInOneZone` is the
  case of one zone, without hypotheses. `OneSequenceNoDeadlock`: whoever holds the company's row waits for nothing, and whoever holds a
  sequence has no other to wait for (`OrderInv`), so no circle closes; that transactions which draw from two sequences
  can deadlock is in the run, and `TransactionsEnd` holds in spite of it.
* **UserAccount.** `EditInv`: a client that edits holds the lock and a copy nobody has outdated. Requests wait for
  that lock with each UPDATE, so the whole-row save puts nothing back. `EditsNeverLost` adds `VersionInv`, that whoever has seen the current
  version has seen the current profile, and needs `VersionNeverFalls` at one place only: a sign-in or a password change that saves an older
  version. `AdministratorsAlone` discharges it where there are no such requests.
* **Session.** `SessionsImplementAccount`: hiding sessions, every step is one of `UserAccount` or a stutter, so what is proved there holds here. `SessionInv`
  adds to its invariant that the password behind a key never changes once a browser has the key, and that a key
  which is not yet given belongs to one request (`KeysHeld`, `HashInv`); a visit's key is one that was given and still has the hash that was loaded
  (`VisitInv`); a session another user has found is one whose key is in `past.handed` (`GuestInv`); and the last edit that left the account active is the last edit if it is active (`ActiveInv`). The
  three invariants about revocation, records and causes are then inductive together. A session ends in four places, two of them in
  `django_login`, and `EndedForCause` needs for each that the password it compares was in force when it was proved.
* **Provisioning.** `RoleInv`: built-in roles are active, and a role with the right to decide is in `hist.deciding`; the flag adds no such right because
  the catalogue excludes it. `SequenceInv`: as long as a sequence has not gone back a year, its row is past every
  reference it gave, a later year or the same year and a higher number, so that the next one is new (`NewReference`); `CurrencyInv` ties
  what is stored to what was first seeded, and
  `PrintsAsRounded` (a rounded amount is a multiple of its quantum, and rounding a multiple changes nothing) does the rest. `CompanyInv`:
  no form is newer than the company, and the command's copy is the company until it is overtaken. `FreshInv`: what was just
  seeded is what the release seeds, so that seeding it again changes nothing. `RoundedToCoins` states rounding itself: a multiple of the quantum at most half
  of it away; `RoundingKeepsOrder` that it is monotone. `OfCommandsSeedingLocksOut` goes through the commands that write accounts or
  roles: `create_admin` adds, and pruning takes no code that the release knows. It assumes that no release retires `user.manage`, and says
  nothing of requests, whose transactions are one step here and are not one in the code.
* **Administrators.** `AssertionStands`: what a transaction has asserted still holds when it commits. Only the commit of another can
  change what a transaction sees (`OthersUnseen`), so it remains to show that such a commit spares it (`CommitSpares`; `StepStands` is
  the induction). It is shown in three ways. `AdministratorKeptInTurn`: no two are between assertion and commit
  (`InTurn`); `AdministratorKept` derives that from `MaxOpen = 1`. `KeptByAdministrators` does without the assertion: an actor who is an active system
  administrator at the commit remains one, because his own row can be changed by his own request only as
  `KeepsOwnAccess` allows (`OwnInv`: a row that is locked but not yet saved is the committed one). `AdministratorKeptIfSpared` has both reasons
  in one hypothesis on each commit (`SparingCommits`): either nobody else has asserted, or the actor is an active system administrator, whom
  the others see afterwards, since the foreign key of the audit entry has waited for his row (`ActorIsSeen`). Run `AdminSkew` shows
  that with roles, two at once are too many.
* **EditScreen.** Every copy of a role in the tab, in the form, in an answer on its way, in a save, is of a version
  no newer than the role's, and says what the role says if the version is the same (`CopyOf`): versions only
  grow, and each is given one text. `SaveInv` adds that a save under way goes to the role its form was filled
  from, for which `FormShowsItsRole` is needed, so both are in one invariant. The version check
  then implies `NoLostUpdate`. `ConflictsExplained` needs `KnowInv`, five parts more: an instance has one save under way and
  disables its button meanwhile (`OneSave`), what the tab goes to exists (`Existing`), instances are numbered upwards (`Stamps`), an instance that wrote the
  role last shows that version, or is about to load it while its save is not done (`ScreenKnows`), and what it has sent
  carries it (`SentKnows`). A lost answer breaks only the last two, for that instance (`unsure`).

Hypotheses of the form `[][A]_vars` (`DrawsForward`, `LocalClockOnward`, `OneSequenceEach`, `VersionNeverFalls`, `ByAdministrators`,
`SparingCommits`) and
`[]InTurn` restrict behaviours, not constants, so each such theorem says exactly which steps a violation needs; the runs that find one
(`SequenceZone`, `AccountStale`, `AdminSkew`) take one of those steps.

Model-checked only: `AtLeastOnce`, `ImplementsFairDelivery`, `TransactionsEnd`,
`RequestsEnd` and `ScreenSettles`. They are liveness properties under fairness, which rests on ENABLED and is out of the prover's reach.
Every safety property and action property of the passing runs is a theorem, some under a hypothesis: the numbering's three under
`DrawsForward`, which one zone discharges (`NumberingInOneZone`), and `AdministratorRemains` under one of those above. `MaxOpen = 1`
discharges it in `AdminSerial`; that two requests which change accounts alone are safe, as `AdminDeactivations` shows, is model-checked only.

The proofs of `Provisioning` hold for any catalogue changes, any number of releases, roles, accounts and currencies, and any amounts in `Nat`;
they assume that each currency has a positive quantum in each release and that clients' roles do not take the codes of
built-in ones.

## How it was built, and what is left

In the order of risk: the outbox and its contract, numbering, the account and its administration, the editing screen, then
sessions over the account, and provisioning with the catalogue and rounding, each checked before it was proved; then the theorems
that say under which hypotheses the four violated properties hold. What could follow: `EditScreen` against the sessions of
`Session`, whose signing out is the one step the two share, and the rest of the administrator's assertion: which pairs of
requests, with roles, leave an administrator.

## Not modelled

* Validation of single columns, serialisation, error envelopes, pagination, lists and their filters, health checks: they hold no state that steps of two
  actors meet in. What the serializers refuse or leave read-only is in the guards of the actions.
* The request context and the middleware that sets it: one thread sets, reads and resets it. `get_active_company` is `CompanyFound`.
* Attachment storage: no view or service calls it at this commit.
* The content of audit entries, and those written inside the transaction of the change they record, which commit or vanish with it.
* `to_decimal`, which parses, and `round_calculation`, whose 28 digits bound no amount here.
* Settings, containers and scripts: what they fix (READ COMMITTED, no `ATOMIC_REQUESTS`, several processes and threads, a
  restarted worker) is assumed throughout.
* In the browser, priming of the CSRF cookie (a variable of one page load; the server refuses a request without the token), the
  forms for signing in and changing the password, guards of routes, lists, toasts and `useDebounced`: each shows what one answer says.
