# Verification of the Wi-Fi portal

TLA+ models of the portal in `src/portal`, the captive portal that signs
devices in through Entra, Duo or a guest code and admits them on an iKuai
router.  Each module is read beside the Go code: `PROJECT.json` maps every
definition to the lines it stands for.

## The system

One Go process serves the captive pages and an administrator's console.  Several
processes (instances) may share one SQLite, MySQL or PostgreSQL database; they
have no other channel between them.  Inside a process every request is a
goroutine, next to the ticker goroutines (`gcLoop`, `renewalLoop`) and the
callbacks of rollback timers.

| Component | State | Operations | Talks to |
|---|---|---|---|
| Guest codes (`store_guestcode.go`) | rows `guest_code`, `guest_code_use`, shared | `Validate` (a transaction), `Add`, `AddMany`, `Edit`, `Delete`, `DeleteMany`, `DeleteInactive`, `Stats` | the database; `handleGuestCode` and the console |
| IP cooldowns (`store_ipban.go`, `banHistory`) | rows `ip_ban`, `ban_history`, shared; a cache per instance | `isBanned`, `refresh`, `ban`, `unban`, `unbanAll`, `gcLoop`, `increment`, `reset` | every sign-in handler, through `recordIPFailure` and `bannedIPForRequest` |
| Settings and runtime (`settings.go`, `runtime.go`) | rows of settings, shared; `rtPtr` per process | `LoadSection`, `Save`, `LoadAll`, `reloadRuntime` | every handler reads `rt()` and `conf()` |
| Listeners (`listeners.go`, `tls.go`) | the HTTPS listener, the front of plain HTTP, a pending rollback | `apply`, `applyListenerChange`, `begin`, `confirm`, the timer callback | settings, the runtime, the operating system |
| Sign-in (`session.go`, `auth_proceed.go`, `main.go`) | a signed cookie in the browser; proceed tokens and consumed states per process | `handlePortal`, `handleAuthStart`, `handleAuthProceed`, `handleLogin`, `handleCallback`, `handleDuoCallback`, `handleAdminLoginStart` | Entra and Duo, through clients of the runtime |
| Failure counters (`ratelimit.go`) | timestamps per email, MAC and IP, per process | `record`, `countIn`, `reset`, `gcLoop` | sign-in and guest-code handlers |
| Certificates (`tls.go`, `acme.go`) | rows `certificate`, shared; the certificate served; `inFlight` | `Save`, `RecordFailure`, `saveAccount`, `Issue`, `renewIfNeeded`, upload | Let's Encrypt, the listeners |
| Local administrators (`localadmin.go`) | rows `local_admin`, shared | `authenticateLocalAdmin`, the CLI's create and delete | the console's login |
| iKuai policies (`store_policy.go`) | three rows, shared; a cache per process | `Get`, `Set`, `Refresh` | every admission |
| Denylist (`store_denylist.go`) | rows, shared | `IsMACDenied`, `AddMAC`, `AddMACMany` (a transaction), `DeleteMAC`, `DeleteAllMACs` | every gate of the sign-in; the console |
| Event log (`store_eventlog.go`) | rows, shared; the retention of each process | `Append`, `Query`, `Prune` in batches, `gcLoop` | all of the above |
| Import (`migrate_legacy.go`) | files of the earlier version | `importLegacyState` | all stores, once |

What is hard here: redemptions that race across instances; caches that lag
behind a shared decision; checks separated from the act by a call to Duo, to
Entra or to the database; configuration swapped under running handlers; saves
that overtake each other; a rollback that races its confirmation, a second
change, a failed bind, a failed statement or a restart.  `PROJECT.json` lists
these hazards at their lines.

What makes each part correct:

- *Guest codes.*  A code is never used more often than its limit; nobody is
  admitted without a committed use; a forced expiry holds against requests made
  after it; the sweep spares what is still handed out.
- *IP cooldowns.*  A cooldown ends when it says or when somebody lifts it; the
  answers of an instance are no staler than the code allows.
- *Listeners.*  A redirect does not outlive the HTTPS listener, and the port it names
  is served (the second does not hold, see below); an unconfirmed change is undone,
  once, and exactly.
- *Sign-in.*  A consumed state is not accepted again; the attempts of an email
  are bounded; a handler sees one runtime, and only clients that exist.
- *Certificates.*  No attempt takes away the certificate in place; what is stored
  is what is served; a renewal that is due arrives and spares an uploaded
  certificate; an account survives renewals.
- *Local administrators.*  The limit on wrong passwords is reached on time; a lock
  lasts and ends; a password that was taken away opens nothing.
- *iKuai policies.*  No default replaces what an administrator saved; an instance
  grants by what the table says, or for a reason the code names.
- *Denylist.*  A denied device is not let in by a request that came after the ban;
  an upload reports what it did.
- *Event log.*  Only events past their retention go, and all of them.
- *Failure counters.*  A device guesses no more often than the limit says, until its
  count is cleared; a full counter gives up no count while as many others are older.
- *Import.*  A renamed file is in its table; nothing is imported twice or brought
  back after it was deleted; what does not parse keeps nothing else out.

## Modules

| Module | Models | Extends or uses |
|---|---|---|
| `RedemptionLedger` | what the guest-code store promises, without instances or locks | |
| `GuestCodeStore` | the guest-code tables, `Validate` and the console's statements | instance of `RedemptionLedger` |
| `GuestCodeStoreProofs` | theorems about it | `GuestCodeStore`, TLAPS |
| `IpBan` | cooldowns, caches, escalation, lifting | |
| `Listeners` | tls settings, runtime reloads, listeners, commit-confirm | |
| `ListenersProofs` | theorems about it | `Listeners`, TLAPS |
| `SignIn` | cookies, tokens, states, budgets, callbacks, runtime swaps | |
| `SignInProofs` | theorems about it | `SignIn`, TLAPS |
| `Certificates` | the stored certificate, issuance, renewal, upload, what is served | |
| `CertificatesProofs` | theorems about it | `Certificates`, TLAPS |
| `LocalAdmin` | the break-glass account, its logins and the command line | |
| `LocalAdminProofs` | theorems about it | `LocalAdmin`, TLAPS |
| `LegacyImport` | the one-time import, by instances that start and stop | |
| `LegacyImportProofs` | theorems about it | `LegacyImport`, TLAPS |
| `EventLog` | appends, and the batched sweeps of several instances | |
| `PolicyStore` | the policy table and the copy of it in every instance | |
| `SharedTableProofs` | theorems about `IpBan`, `EventLog` and `PolicyStore` | `IpBan`, TLAPS; instances of the other two |
| `Denylist` | the table of denied devices and uploads into it | |
| `Admission` | the gates of the sign-in and the guesses per device | `Denylist` |
| `AdmissionProofs` | theorems about both | `Admission`, TLAPS |
| `MC...` | the small instances and symmetries TLC uses | the module of the name |

### GuestCodeStore

`row` and `uses` are the two tables.  A request `r` walks through `pc`: `Ask`
(the handler calls `Validate`), `Begin` (`SELECT ... FOR UPDATE`), `Check`
(expiry by the clock, then the count), `Commit` (insert, re-read, commit),
`Deliver` (the redirect to the router); `Abort` is any statement failing and
`Crash` the instance dying.  `Free(k)` is the row lock, or on SQLite
(`SingleConnection`) the single connection.  The console's actions are single
statements and wait for the same locks; an insert waits for none.  Deleting a
code cascades, as the foreign key and SQLite's pragma ask.  `began`, `spent` and
`peak` are history.  Left out: searching and paging, the note, the duration, and
the address and MAC a use records.

`RedemptionLedger` has the limit and the uses only.  The refinement maps the
limit of a row and the child rows to them; a transaction in progress, an edit of
the expiry and the clock are stutters.

### IpBan

One address (every statement is keyed by it or treats all alike), any number of
instances (`Node`) and of goroutines at work (`Job`).  Each database statement
and each critical section of the cache mutex is a step of a job (the first one is part
of the action that begins it: the staleness check in `Ask`, the DELETE in
`Lift`); `refresh` is
`Reload` and `Store`, `expiryOf` is `LookMissing`, `LookBanned` or `LookExpired`
with `DropEntry`, `recordIPFailure` is `Fail` .. `BanCache`.  When a failure
counter reaches its limit is left open: `Fail` may happen at any time.  The
SELECT of a statement that fails keeps the old view, a failed ban or unban still
changes the cache, a failed history gives a short cooldown, as in the code.
`unsettled` is history.  `Lag` is how old a decision may be that an instance does not
know: one `TTL` for the view, another when a goroutine that found an expired entry
deletes the one a reload has just renewed, and the operations themselves.  At the very
instant a cooldown ends an instance may still refuse: `expiryOf` keeps an entry until
the clock is past its end, while the statements select and delete what ends at it.
`AnswersAreCurrent` makes that exception.  Left out: the truncation at `maxCachedBans`.

### Listeners

`table` is the stored tls section, `conf` the configuration behind `rtPtr`,
`tls` and `front` the listener and the redirect, `pending`, `timer` and
`restore` the fields of `listenerCommit`.  A thread is a save request or a timer
callback; its stages follow `saveSettingsSection`: load, write, reload, install,
read the configuration, apply, arm.  A callback takes whatever rollback is
pending and then saves, reloads, installs and applies through the same actions.
`apply` is two steps, `Apply` (the mutex is taken and `Bound` starts, moves or stops
the listener) and `SetFront` (`Redirects` decides on the redirect, and the mutex is
released), because plain HTTP is answered by whatever `front` holds, without the
mutex; a thread in between `Holds` it.  The redirect leads to port 443 of the host,
whatever address the listener is bound to (`redirectToHTTPS`): `Standard` are the
addresses at which such a request arrives, 0.0.0.0:443 among them, and where
something forwards 443 the address it forwards to.
`Stopped` is `time.Timer.Stop`, which does not stop a callback that has begun.
`Restart` is a crash and a start: the table survives, the rollback does not.
`Faults` selects failed binds, failed statements and crashes.  `armed`, `open`
and `basis` are history.  The form of a thread plays no part after the installation and
is blanked there.  Left out: `TLSDomain` (the fourth case of
`listenerRisky`, and the host of the redirect), certificates, connections that a
listener which is shut down still serves for five seconds, and values the form
validation refuses.

### SignIn

One process.  A browser holds one `cookie`; `tokens` is `proceedStore`, `used`
is `usedStates`, `fails` the counter of emails, `rt` what the runtime pointer
leads to: a generation, which clients it has, and the two rules for an email, each a
window and a limit.  A save may change either rule; nothing in the code says that
the window called long is the longer one, and neither does the model, but what the
collector of the counter keeps is the long window of the start (`MaxWindow`, `main.go:497`).  A handler that waits between
two looks at shared state is a request `q` of several stages: `AuthStart`,
`Put` (with the answer of `Preauth`), `Record` for `/auth/start` (the two calls of
`countIn` in `AuthStart` are one step: a success of the same email between them only
clears, and is then the same as one before or after both, or a refusal more; a save
between the four loads of the configuration there, which pairs the window of one rule
with the limit of another, is left out);
`EntraCallback`, `TakeConf` or `DuoCallback`, then `Admit`, `AdmitAdmin` or
`Refuse` for the callbacks.  `/login` only redirects and changes nothing.  The
identity providers are external and answer anything; `prompts` remembers whom
Duo was asked about, so that the exchange can compare it.  Two attempts of one
instant are two timestamps in the list of an email; an attempt is therefore a pair of
its time and a number that no other attempt on record at that time has (`OneMore`), and
the list is a set of them, of which `countIn` counts those after its cutoff.  `Evictions` is the cap of the two stores:
expired entries first, then the oldest down to nine tenths.  `Panic` is the use
of a client that is nil.  `last` and `tries` are history.  Left out: refusals
that change nothing here (the denylist, the IP gate, a bad email), the cookie of
an administrator who is signed in, the cap of the failure counter (which is in
`Admission`), its reset from the console, restarts.

### Certificates

One process and its configured domain.  `row` is the row of the domain, `served`
what `certProvider` holds, `inFlight` the holder of the mutex of `Issue`.  A
thread is the renewal loop or a console request; it walks through the stages of
`Issue` (`Acquire`, with the read of the account; `Register`, with `saveAccount`;
`Obtain`; `Refuse` for every answer of Let's Encrypt that ends it), of `Save`
(`SaveFails` for a failed statement), of `RecordFailure`, and of serving what was
saved (`Load`, `LoadFails`, `Set`).  `Upload` begins at `Save`: an unusable pair
is refused before anything is stored.  `Save` writes the whole row, which is why
it puts back `Blank` columns; `RecordFailure` and `saveAccount` assign the
columns they name.  `Bind` and `Unbind` are the two effects of the listener
settings; `RenewBlind` is a check that could not read the row, `Age` the passing
of `renewBefore`, `Restart` a crash and a start.  ACME is enabled and its email
set, so the early returns for a missing one do not occur.  `excused` and
`current` are history.  Left out: `last_error` and `last_attempt`, the HTTP-01
tokens, the status page, a key that does not decrypt, the staging directory, a
change of the domain, a second instance.

### LocalAdmin

`row` is the row of one account, `login[a]` what the request `a` has read while
`verifyPassword` computes.  `Begin` is `handleLocalAdminLogin` up to the read and
the check of the lock; `Refuse`, `Admit` and `Unrecorded` are the three ways the
whole-row `db.Save` ends (GORM's `Save` inserts a row that is no longer there).
`Create` is `admin add` and `admin passwd`, `Delete` is `admin delete`, `Switch` is
`admin enable` and `disable`, which take effect with a `Reload` or a `Restart`.
`lock` counts down what is left of the lockout.  `guesses`, `missed`, `revoked` and
`revived` are history.  Left out: refusals before the read (another network,
another origin, the IP cooldown), the time of the last login, an account that is
not `Enabled` (nothing in the code clears it), other accounts.

### LegacyImport

`settings` and `rows` are the tables, `file` the names in the data directory,
`node[n]` how far an instance is: the sections still to be saved, the file and
the statement at hand.  `Adopt` and `Skip` are the two outcomes of `IsEmpty`;
`SaveDefaults`, `Fatal` and `SaveEnv` follow; `Read`, `Insert`, `InsertFails` and
`Rename` are the form that the five `import...` functions share, and they differ
in two points only: the uses of a code may be lost (`Lenient`), and events have no key
that a second import would run into.  A database with `SkipDefaultTransaction`
commits each batch of `CreateInBatches`, so a file may be half in.  `Edit` and `Delete` are
the console of a running instance.  `deleted`, `accompanied` and `smooth` are
history.  Left out: the contents of rows, lines of the event log that do not
parse, an empty file (passed over as if it were absent), a count of settings that
fails (the start fails and nothing has changed).

### EventLog

`event` is the table, from its autoincremented key to the time of the event;
`adding[w]` is a handler between taking the time and the INSERT of `Append`,
`sweep[n]` the `Prune` of an instance: its cutoff, the keys of the batch it has
selected, and the batches it has done.  `Begin` is the tick of `gcLoop`, `Scan`
the SELECT and `Delete` the DELETE by key; a batch that is not full ends the
sweep, and so does the last batch and a failed statement.  The first events may
be the backlog of an import.  `window[n]` is the retention handed over at the
start of an instance and `stored` the one in the settings: a save reaches an
instance when it is started again.  Left out: what an event says, and queries.

### PolicyStore

`row` is the table, `cache[n]` the copy behind the atomic pointer of an instance,
`default[n]` what it was configured with when it started.  `Start`, `Seed` and
`Load` are `newIKuaiPolicyStore`, `Stop` a failure in it (which ends the process)
or a crash.  A save is `Begin` (the validated form), `Write` or `WriteFails` (the
UPSERT), `Read` or `ReadFails` (the SELECT of `Refresh`) and `Swap`.  Nothing
serialises them, so two saves of an instance may store their copies in either
order.  `edited` and `excused` are history: an instance is excused when another
wrote since, its reload failed, or two of its copies were on the way at once.
Left out: what is in a policy, and what the validation refuses.

### Denylist and Admission

`Denylist` has the committed rows, `denied`, and the uploads: the lines still to
do, the rows inserted in the transaction, and the two counters of `AddMACMany`.
`InsertLine` is one round of its loop, which waits while another transaction has
inserted the same device; `UploadFails` is any statement or the commit.
`Admission` extends it with one process.  A browser is a session cookie with a
device; it walks through `Portal`, `Proceed` (`/auth/start` and `/auth/proceed`,
which look at the same gate), `Callback` and then `Admit` or `CallbackFails`, or
through `Submit`, `Lookup`, and `Accept` or `Miss` for a guest code.  Two browsers
may have one device.  Every look at the denylist may fail, and then lets the
device through (`LookupFails`).  `fails` is `guestCodeFails`; `Record` evicts when
the counter is full, as `evictOldestLocked` does; the history `misses` forgives an
eviction only of a device that as many others have overtaken as the eviction leaves
(`Overtaken`); `horizon` is the window it prunes
by, which is that of the last start, while `window` is the live one.  A statement
ends a step, together with what its handler then does in memory.  `made`, `open`
and `misses` are history.  Left out: who or what is behind an identity or a code
(`SignIn`, `GuestCodeStore`), the cooldowns of addresses (`IpBan`), the reason and
the author of a ban, and appends to the event log.

## Runs

| Run | Instance | Shows |
|---|---|---|
| `guest_codes` | 2 codes, 2 redemptions, limits 0..2, an expiry in the past and none, 2 instants | the guest-code properties, the refinement, and that every request is decided |
| `ip_ban` | 2 instances, 2 jobs, escalation at 2, a cooldown of 2, clock 0..3 | `CooldownOnlyExtends`, `AnswersAreCurrent` |
| `listeners` | 1 save request, 2 timers, 3 forms, all faults, 2 armed changes | the listener properties and that a pending change is settled |
| `sign_in` | 1 browser, 1 email, 2 handlers, 2 sessions, 1 slot in each store, clock 1..3, 1 runtime swap that changes both rules | `EmailBudget`, `StateUsedOnce` |
| `sign_in_world` | the same, clock 1..2 | old client, new configuration: *violation* |
| `certificates` | the loop, 1 request, 5 certificates, all faults, 1 crash | the certificate properties and that a due renewal arrives |
| `cert_account` | the same, no faults | a second account is registered: *violation* |
| `local_admin` | 2 logins, 2 passwords, limit 3, lockout 2, all faults | the lockout, its end, and revoked passwords |
| `legacy_import` | 2 instances, 2 sections, 3 files of 2 statements, all faults | the import properties |
| `event_log` | 2 instances, 1 handler, up to 3 events of backlog, retention 0 or 1, batches of 1, 2 of them to a sweep, 1 crash, clock 0..2 | only overdue events go, and all of them |
| `policies` | 2 instances, 2 saves, 2 profiles, 2 policies | no default over a save; an instance at rest is fresh or excused |
| `admission` | 2 devices, 2 browsers, 1 upload of 4 lines, limit 1, windows 1 and 2, room for 1 device in the counter, clock 0..1 | denied devices stay out, guesses are bounded, an upload tells the truth |

Five more configurations are not part of the routine checks and are there to be
run by hand.  Four end in a counterexample to what a comment says (see below):
`tlc -config listener_redirect.cfg MCListeners`, `tlc -config listener_diverge.cfg
MCListeners`, `tlc -config cert_upload.cfg MCCertificates` and `tlc -config
import_retry.cfg MCLegacyImport`.  One passes: `tlc -config admission_full.cfg
MCAdmission` is the property `MacBudget` with one browser, 4 devices, room for 3 of them
in the counter, windows 2 and 3 and a clock to 2, where the order of evictions shows;
with `EvictionsLatest` in the place of `Evictions` it fails.

The bounds.  The races of the guest codes are between two transactions, and a
third request on the same row waits behind one of the two; limit 1 is the last
use, 2 a partly used code, 0 no limit, and two codes let a sweep or a batch hold
for one and not the other.  Two jobs on two instances reach every race of two
critical sections in `IpBan`; the clock passes `Lag` (2 with `TTL` 1 and
instantaneous operations) and the end of a cooldown, and `EscalateAt` 2 makes the
second offence permanent.  The instant at which a cooldown ends, more than `Lag` after
it began, takes a cooldown of 3 and a clock to 4, with which the properties hold too; the
theorems have no such bounds.  Operations there take no time in the run (`Delay` 0), so the clock
does not advance within one.  In `Listeners` two timers are one superseded and
one live, the address of a form may be the default, another or absent, and two
armed changes are one superseding the other; races of two save requests are the
subject of `listener_diverge.cfg`.  In `SignIn` a store with room for one entry is
full after one, so every eviction happens, two sessions are one that evicts the
other, the windows of the counter (1 and 2) differ, and at 3 a timestamp is
older than both.  `Setup` is the one swap: it takes both clients away and makes the
short window the longer one (3, against 2).  In
`Certificates` the loop and one request are two orders, an order and an upload,
or two installations side by side, and one request runs again and again; there
is one certificate more than can be held, so that a new one is always new.
  In
`LocalAdmin` two logins overlap or follow each other, each with the right or
the wrong password, a limit of 3 leaves room for a count that is lost, and a
lockout of 2 has a moment at which it may go too early.  In `LegacyImport` one
file has uses, one does not parse and one has rows without a key, two statements
are a file that is half in, and with two instances one starts during the
import of the other, or after it.  In `EventLog` a batch of 1 is always
full, so sweeps go on, overlap on the same keys and are cut off at the second
batch, three old events are more than one sweep takes, and a key that is used again
is one of four.  `PolicyStore` needs no bound.  In `Admission` two browsers are two
devices or one device that guesses side by side, one key is a full counter, the file repeats a device and has a line that is
none, and the windows are one that is raised and one that is narrowed at runtime.
With room for one an eviction leaves nothing, so `Overtaken` is always true in the run;
the theorem is for any room, and in `admission_full.cfg` an eviction leaves two of three, which have failed at one of three instants,
and a window of 2 no longer covers the first of them at the last.

All runs but those of `SignIn` check deadlock.  `SignIn` does not, because with the clock and the sessions at their bounds the model
stops where the portal would go on.

`TypeOK` of `GuestCodeStore`, `Certificates`, `LocalAdmin`, `EventLog` and
`PolicyStore` is a theorem and no longer part of their runs.  Every property of a
passing run has a mutant, defined beside the operator it
replaces under a comment that says which mistake it is; TLC finds the property
violated with it.

### Fairness

`GuestCodeStore` assumes that a handler that is running keeps running and that
the database answers its statements in the end (weak fairness of `Begin`,
`Check`, `Commit`, `Deliver`); nothing is assumed of an administrator, of a
crash, or of a statement failing.  Weak fairness of `Begin` is enough on one row
because nobody else begins again: a request redeems once.  `Certificates` assumes that a
thread carries on, that the timer of the loop fires (weak fairness of
`Renew \/ RenewBlind`: it is set again after every check), and that a mutex which
is free again and again is granted to the loop (strong fairness of `Acquire`: a
Go mutex hands over to a waiter that has starved for a millisecond).  Of the
world outside it assumes that a step tried again and again succeeds in the end
(strong fairness of `Register`, `Obtain` and `Save` of the loop); without that no
renewal can be promised, and with it a lock that is not released is still found.
`Listeners` assumes
that a timer fires and that its callback gets the mutex (`Fire`, `Consume`),
which the Go runtime gives; no fairness is assumed of requests, so a rollback is
settled when it is taken, and its own save may still fail.  `LocalAdmin`
assumes that time passes (weak fairness of `Tick`), and of nobody that they log
in or do not.  `EventLog` assumes that the ticker
of an instance fires (weak fairness of `Begin`) and that a statement tried again
and again succeeds in the end (strong fairness of `Scan` and `Delete`); nothing is
assumed of an operator, a crash or a handler.  `IpBan`, `SignIn`, `LegacyImport`,
`PolicyStore` and `Admission` state no fairness: they have no liveness property.

## Where the code and its comments part

Two runs end in a violation and each quotes the comment it contradicts in
`PROJECT.json`: a callback mixes two runtimes (`runtime.go:6`), and the ACME account
does not survive the save of the certificate (`acme.go:133`).  Four demonstrations
of the kind can be run by hand:

- `listener_redirect.cfg`, `RedirectReachesListener` of `Listeners`: the redirect names
  port 443 whatever address the listener is bound to (`main.go:2557`), against
  "redirectToHTTPS sends plain-HTTP requests to the HTTPS listener" (`main.go:2536`)
  and the reason for which `apply` keeps it back, that one "would be redirected to a
  port nothing is listening on" (`listeners.go:99-101`).  It needs no fault: a portal
  that may not bind 443 is told to listen on 8443 (`README.md:697` of the repository),
  and with the redirect on, plain HTTP leads nowhere unless something forwards 443.
  Switching it on arms a rollback, so who cannot confirm gets the old state back; who
  confirms at the other port keeps it.  After a failed bind it is the same with the
  address of the old listener;
- `listener_diverge.cfg`, `RestartChangesNothing` of `Listeners`: `reloadRuntime`
  (`runtime.go:87`) stores its result without any order between reloads, so the
  older of two may be installed last and stay, against "the state a portal reaches
  by being restarted and the state it reaches by being reconfigured cannot diverge"
  (`listeners.go:38-40`);
- `cert_upload.cfg`, `UploadIsKept` of `Certificates`: `renewIfNeeded` (`acme.go:293`)
  goes on after a row it could not read, and `Issue` does not look at the source
  again after its wait, so an uploaded certificate is replaced, against "A manually
  uploaded certificate is the operator's to manage" (`acme.go:297-298`);
- `import_retry.cfg`, `NextStartRetries` of `LegacyImport`: `importLegacyState`
  (`migrate_legacy.go:45`) returns as soon as the settings table has a row, and the
  first section of defaults is that row, so what a failure or a crash cut short is
  never taken up, against "a failure part-way leaves the remaining files in place
  and the next start retries them" (`migrate_legacy.go:145-147`).

More of the kind is in the models without a run of its own:

- two failures of one burst escalate and extend a cooldown, against `main.go:997`
  (`Fail` to `BanCache` in `IpBan`);
- a redirect that was confirmed while HTTPS was off comes alive later with no
  rollback armed, against `listeners.go:213` (`Risky` in `Listeners`);
- after a failed bind `apply` still installs the redirect of the new
  configuration, against `listeners.go:80` (`SetFront` in `Listeners`);
- a rollback whose reload fails leaves the process with the unconfirmed
  configuration over a table that has the old one (`ReloadFails` in `Listeners`);
- the Duo callback does not look at the purpose of a session, against
  `session.go:32` (`DuoCallback` in `SignIn`);
- handlers use a client of the runtime that they did not check, or checked in an
  earlier runtime, against `main.go:186` (`Panic` in `SignIn`);
- a login that overlaps `passwd` or `delete` writes the old row back, and
  overlapping wrong passwords are counted once (`Write` in `LocalAdmin`);
- nothing calls `Refresh` of the policies but the start and `Set`, so no instance
  "picks up another instance's change on its next reload" (`store_policy.go:38-39`),
  and two overlapping saves of one instance may leave the older copy in place until
  the next (`Swap` in `PolicyStore`); the audit line of a save compares with the
  policy that was cached when the request came, not with the one it replaced;
- "Saving applies immediately" (`README.en.md:77`) does not hold of the retention of
  events (`main.go:491`), of the windows by which counters are pruned
  (`main.go:497-499`), of the life of proceed tokens (`main.go:500`) and of the
  policy defaults (`main.go:482`): they are read once, at the start (`Start` in
  `EventLog`, `horizon` in `Admission`);
- an upload of devices that was rolled back is answered with ok and logged as a
  success with nothing imported (`UploadFails` in `Denylist`, `main.go:2067`);
- the guest-code handler looks at the denylist before it redeems and not again: a
  ban in between does not stop that admission (`Lookup` to `Accept` in `Admission`);
- "every write in this codebase is a single statement or an explicit transaction"
  (`dbstore.go:201`) does not hold of the batches of the import, whose message "they
  were NOT imported" (`migrate_legacy.go:227`) may follow batches that are in
  (`InsertFails` in `LegacyImport`).

## What is proved

`GuestCodeStoreProofs` proves, for every set of codes and requests, every clock
bound, limit and set of expiries, and both kinds of driver:

| Theorem | Statement |
|---|---|
| `RedemptionInvariant` | `Spec => []RedemptionInv` |
| `TypeCorrect` | `Spec => []TypeOK` |
| `NeverOverspentTheorem` | `Spec => []NeverOverspent` |
| `GrantsAreRecordedTheorem` | `Spec => []GrantsAreRecorded` |
| `CountersAgreeTheorem` | `Spec => []CountersAgree` |
| `NoUseAfterForcedExpiryTheorem` | `Spec => NoUseAfterForcedExpiry` |
| `SweepSparesActiveTheorem` | `Spec => SweepSparesActive` |
| `StoreImplementsLedger` | `Spec => ImplementsLedger` |

The assumptions are those `GuestCodeStore` declares of its constants, all
evaluated by TLC (that `Code` is finite is one: `code_lower` is a column of 64
characters, `models.go:62`), and that `Void` and `Size` of the ledger are `Absent` and
`Cardinality`.

`NeverOverspent` is not inductive: nothing in it says why the count a request
took in `Check` is still right in `Commit`.  `RedemptionInv` adds that two
transactions never hold one row and that the row a transaction read is the row
that stands (`LockInv`), that uses are finite, belong to a code that exists and
to requests that have committed (`RecordInv`), that a checked request still has
a use to spare (`BudgetInv`), and that the limit of a row is at most its peak
(`PeakInv`), and that a request passed `Check` with an expiry not before the moment
it began, and began no later than now (`FreshInv`).  The last carries
`NoUseAfterForcedExpiry` from `Check` to `Commit`: the row cannot have been edited in
between, by `LockInv`.  `CountersAgree` needs no invariant: the codes
that are past, exhausted and unused are disjoint (`DisjointUnion`), and a count of
the union is the sum.  Each part has a lemma for its step, with one case per action.
The refinement then maps `Commit` to `Redeem`, by `BudgetInv`, the console's
statements to `Issue`, `Amend` and `Revoke`, and everything else to a stutter.

`CertificatesProofs` proves, for any number of console requests, any faults and
any number of crashes:

| Theorem | Statement |
|---|---|
| `TypeCorrect` | `Spec => []TypeOK` |
| `LoopSparesUploadTheorem` | `Spec => LoopSparesUpload` |
| `CertificateIsKeptTheorem` | `Spec => CertificateIsKept` |
| `ServesStoredTheorem` | `Spec => []ServesStored` |

from the assumptions `Certificates` declares of its constants; that there are
more certificates than can be held is what makes `New` one of them (`NewIsPair`,
a count with the finite-set theorems).  The inductive invariant is `TypeOK` with
`HandInv` (who saves or serves has a certificate in hand, and only an upload
saves as manual), without which a save could store none, and `ExcuseInv` (while
the loop is at work and an upload is stored, it is excused), which carries the
check of the source from `Renew` through the wait, the order and the saves of
others to the loop's own `Save`.  For `ServesStored` there is `ServeInv` beside it:
while `current` stands, whoever is about to serve a certificate holds the stored one,
and nobody serves anything out of an empty row.

`LocalAdminProofs` proves, for any number of logins at a time, any passwords, limit
and length of the lockout, and any faults:

| Theorem | Statement |
|---|---|
| `LockoutIsReachedTheorem` | `Spec => []LockoutIsReached` |
| `RevokedOnlyByRevivalTheorem` | `Spec => []RevokedOnlyByRevival` |
| `LockStandsTheorem` | `Spec => LockStands` |

from the assumptions of `LocalAdmin`.  The invariant is `TypeOK` and
`RevokedOnlyByRevival` with `CountInv` (as long as no login missed a write, the
counter of the row is the number of wrong passwords, so the bound on the counter
bounds them) and `ReadInv` (a login at work has read a row without a lock, which is
what makes a lock that disappears an older row written back).

Its `TypeCorrect` is `Spec => []TypeOK`, from the same invariant.

`SharedTableProofs` proves what holds of the three components that several instances
share as tables, for any number of instances and of operations at work.  It extends
`IpBan` and takes the other two as instances, `Log` and `Pol`.  A hypothesis of their
theorems, `LogAssumption` or `PolAssumption`, is the conjunction of the assumptions that
`EventLog` or `PolicyStore` declares of its constants, which TLC evaluates in their runs.

| Theorem | Statement |
|---|---|
| `BanTypeCorrect` | `Spec => []TypeOK` |
| `CooldownOnlyExtendsTheorem` | `Spec => CooldownOnlyExtends` |
| `AnswersAreCurrentTheorem` | `Spec => AnswersAreCurrent` |
| `LogTypeCorrect` | `LogAssumption` proves `Log!Spec => []Log!TypeOK` |
| `OnlyOverdueGoTheorem` | `LogAssumption` proves `Log!Spec => Log!OnlyOverdueGo` |
| `PolicyTypeCorrect` | `PolAssumption` proves `Pol!Spec => []Pol!TypeOK` |
| `EditSurvivesTheorem` | `PolAssumption` proves `Pol!Spec => []Pol!EditSurvives` |
| `QuietIsFreshTheorem` | `PolAssumption` proves `Pol!Spec => []Pol!QuietIsFresh` |

For `IpBan` the invariant is `BanInv`.  `AnswersAreCurrent` says something only of the
moment an answer is given, a `Lag` after the last change.  `SeesAt` follows a job there: one that
began after the last change holds what the table says, and one about to drop an entry it
found expired, begun a `TTL` and a `Delay` later still, drops nothing that stands.  `ViewAt`
says the same of the view of an instance, in two steps: a view stored after the change is
right as far as it says anything, and one stored a `TTL` later is right also where it is
silent, because nobody is left who would drop an entry of it.  `JobInv` bounds what a job
takes (`Delay`), from which `Lag` is the sum; that the run's `Delay` is 0 does not
matter here.

For `PolicyStore`, `QuietIsFresh` says nothing of the moment between a write and its swap, so it is not
inductive.  `FreshInv` says it of every moment: in an instance that is not excused at
most one copy is on its way, and the newest copy, the one on its way or else the one
in place, is the table, unless a save has yet to read.  `SaveInv` and `SeedInv` tie a
save to an instance that serves, and a loaded copy to a table without gaps.

For `EventLog`, with any number of handlers, any batch size and retention, `SweepInv` carries the SELECT to the DELETE: a key in the hands of a sweep
is one that has been given out, and if it still has a row, that row is older than
the cutoff, which is no later than the clock less the retention.  It holds because keys
are not used again, which is what `NextId` adds.

`SignInProofs` proves, for any number of browsers, emails, sessions and runtime swaps, any
finite number of handlers at work, any rules at the start and after a save, and any room in the stores:

| Theorem | Statement |
|---|---|
| `TypeCorrect` | `Spec => []TypeOK` |
| `EmailBudgetTheorem` | `Spec => []EmailBudget` |
| `StateUsedOnceTheorem` | `Spec => StateUsedOnce` |

from the assumptions of `SignIn`.  The invariant is `SignInInv`.  `HandlerInv` gives a handler
at work a browser, a session and, on its way to a token, an email, without which types
are not kept.  `EmailBudget` is about the tokens handed out and `WithinBudget` looks at the attempts
on record, and the two are raised in different critical sections.  `CountedInv` relates them:
for every cutoff that the collector's window covers, the tokens since then are no more than the
attempts on record since then and the handlers about to record one.  It has to say so of
every cutoff and not of the windows as they stand, or the clock could not be shown
to preserve it.  `RoomInv` adds the handlers that were let
through and have made no token yet, so that the bound leaves room for each of them; a handler
is let through below the limits of that moment (`PassedRules`; a window that no rule in
force has been narrower than holds no more than theirs), and is then one of at most `Cardinality(Request)`
that are on their way to a token or to a record (`Apart`).
`OneMoreIsMore` is what the representation of attempts rests on: there is always a number
left for one more, by counting.  For `StateUsedOnce`, `UsedInv` says of each state consumed within `SessionTTL`
that it is in the set with its own expiry, or that more than the target of an eviction
were consumed no earlier.  An eviction of a live entry spares as many entries as the target,
none of them older (`Spared`), all of them live and so consumed no earlier; with the state that caused
the eviction they are more than the target.

`AdmissionProofs` proves, for any number of devices, browsers and uploads, and any files:

| Theorem | Statement |
|---|---|
| `TypeCorrect` | `Spec => []TypeOK` |
| `DeniedStaysOutTheorem` | `Spec => []DeniedStaysOut` |
| `UploadReportsTruthTheorem` | `Spec => []UploadReportsTruth` |
| `MacBudgetTheorem` | `Spec => []MacBudget` |

For the first property, `GateInv` says that whoever is at work on a code has passed the
gate at an open moment, and that a request whose device is not denied now has had one.
For the second, `UploadInv` says that the rows of an open transaction are not committed
and their number is its counter (`RowsAt`), and that no other one has them (`Apart`).
`Mac` being finite is used by neither; a transaction has finitely many rows because it
inserts them one by one.  `MacBudget` needs sets of browsers and of devices that are finite.  It is a sum over
the clock, so the module first proves what a sum over a finite set is: `Total` is the
value of a table over the subsets (`SumTable`), any two tables agree and one exists, by
induction along the inclusion of finite subsets, which is well founded
(`MinimalSubset`); then sums compare term by term (`TotalAtMost`), and one term more
adds one (`TotalMore`).  `MissInv` says that the counter has every miss that a window
still covers, which is where the pruning by `horizon`, a window saved while the process runs, and
the eviction come in.  An eviction does forget misses that count; `EvictionEarned` shows
that then as many other devices as it leaves (nine tenths of the room) failed no earlier,
and this is where `misses`, and so `MacBudget`, starts again for the device; `GuessInv` adds the guesses that are let through and not yet
answered to the misses, so that the bound leaves room for each of them.

`LegacyImportProofs` proves, for any number of instances, sections, files and parts of
a file, and any faults:

| Theorem | Statement |
|---|---|
| `ImportInvariant` | `Spec => []ImportInv` |
| `TypeCorrect` | `Spec => []TypeOK` |
| `RenamedIsStoredTheorem` | `Spec => []RenamedIsStored` |
| `ImportedOnceTheorem` | `Spec => []ImportedOnce` |
| `ImportIsCompleteTheorem` | `Spec => []ImportIsComplete` |
| `OperatorDecidesTheorem` | `Spec => OperatorDecides` |

from the assumptions of `LegacyImport` (that the order names a file once is
`OrderAssumption`).  `PlaceInv` says where an instance can be; `SavedInv`, that the sections it is through
with are in the table and nobody touches a file before one is; `StoredInv`, that it
goes on to the next part, or to rename a file, with the earlier parts stored, which is
`RenamedIsStored` before the renaming.  `AloneInv` describes an import without
company: nobody else runs, no console has touched anything, and what lies ahead is not in
the table, so an insert finds none of its rows there.  `SmoothInv` gives the value of
every section, file and row at each point of an import that nothing has disturbed; at
its end that is `ImportIsComplete`.

`ListenersProofs` proves, for any addresses, forms, requests and timers, and any faults:

| Theorem | Statement |
|---|---|
| `TypeCorrect` | `Spec => []TypeOK` |
| `RedirectEndsWithListenerTheorem` | `Spec => []RedirectEndsWithListener` |
| `BindFailureTheorem` | `Spec => BindFailureKeepsListener` |
| `RollbackOnlyWhenOpenTheorem` | `Spec => RollbackOnlyWhenOpen` |
| `RollbackIsExactTheorem` | `Spec => RollbackIsExact` |

from the assumptions of `Listeners` (`Unset` is neither a mode nor a boolean).  The first
two invariants are inductive, with `PendingIsOpen` for the next property but one.
`RollbackIsExact` compares the end of a rollback with the configuration before the
change that armed it, a dozen steps of three threads earlier.  `RollbackInv` follows it there: while `basis` is set,
at most one thread holds anything it will still write or install (`Alone`); a save holds
a section that was effective as `basis` (`SaveFrom`); a pending rollback restores
`basis`, and nothing else is under way (`Waiting`); and a rollback at work leads back to
`basis`, by its form before it saves, by the table before it reloads, and by what it has
read before it installs (`LeadsBack`).  `SavedWhole` is what `Restoring` is for: a section with a value for
every key brings back a configuration whatever the table held.

Only model-checked: the liveness properties, which need fairness and ENABLED, and the two
violations.  What a recursive definition computes is
proved nowhere but for the sum above, whose definition is a fold over a finite set.

## Not modelled

The pages and their translations, the iKuai redirect (string formatting and an
MD5), the cryptography of secrets, sessions, Duo and OIDC, database opening and
schema creation, flags and environment parsing, packaging.  Reads that change
nothing and are not cached (listing, paging, counting, CSV export, the status of
the rate limits) are left out everywhere.

## Plan

1. Done: `RedemptionLedger`, `GuestCodeStore`, `IpBan`, `Listeners`, `SignIn`,
   `Certificates`, `LocalAdmin`, `LegacyImport`, `EventLog`, `PolicyStore`,
   `Denylist`, `Admission`.
2. Done: proofs of every safety property of these components that holds, and of the
   refinement of `RedemptionLedger`.
3. Left: restarts and a second instance in `SignIn`, `TLSDomain` in `Listeners`, the
   single SQLite connection in the runs of `GuestCodeStore`, the staging
   directory and a second instance in `Certificates`.
