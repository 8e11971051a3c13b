# Protek: specifications, model checks and proofs

Protek mirrors the decisions ("bans") of one or more CrowdSec LAPIs into SQLite
and keeps the address lists of firewalls equal to them. This directory holds
TLA+ modules of the parts that carry that promise, the TLC runs that check them
on small instances, and TLAPS proofs for every value of the constants.

## 1. The system

### Components, their state and operations

| component | state it keeps | operations | talks to |
|---|---|---|---|
| diff engine (`reconcile.py`) | none | `reconcile`, `is_owned`, `_normalize_addr` | called per target by the reconciler |
| reconciler (`reconciler.py`) | locals of a run; rows of `sync_events`, `mt_pushes` | `run_once`, `_run_one_bouncer`, filters, `_desired_from_db` | poller, `/api/sync/run`, synthetic test; adapters |
| target adapters (`bouncers/*`, `mikrotik.py`) | the list on the router | `snapshot`, `apply` | routers |
| poller (`poller.py`, `crowdsec.py`) | `_bootstrap_done`, `_fail_streak`, `_prev_lapi_ok`, knobs; `decisions`, `sources` | `tick`, `_pull_source`, `_bootstrap`, `_stream_apply` | LAPIs, reconciler, alert rules |
| federation, connection (`federation.py`, `connection.py`) | `sources`, `.env` | pause, enable, add, remove, save | shared rows with the poller |
| alert rules (`alerting.py`) | `alert_states`, `alert_silences` | `tick`, `add_silence`, `remove_silence` | poller, every view of `/alerts/rules` |
| retention (`retention.py`) | - | `prune` | `decisions` and history tables |
| approvals, whitelist (`scenarios_admin.py`) | `approval_queue`, `whitelist` | queue, decide, match | `_desired_from_db`, web |
| webhooks, SIEM (`webhooks_out.py`, `siem.py`, `ratelimit.py`) | queues and token buckets in memory; `webhook_subs`, `webhook_dlq`, `siem_journal` | ship, deliver, replay, edit subscriptions | every part; receivers |
| high availability (`ha.py`, the poller lock in `app.py`) | `ha.role`, flock | promote, demote, start | start-up of every process |
| other targets (pfSense, OPNsense, ipset, Cloudflare adapters) | a plain set of addresses on the device | `snapshot`, `apply` | reconciler, self-test |
| self-test (`synthetic.py`) | one row of `decisions` | `run_test` | target, reconciler's reads |
| sign-in (`auth.py`, `oidc.py`, `saml.py`, `google_auth.py`, `api_tokens.py`) | `users`, `login_attempts`, tokens; the session in the cookie | sign in, revalidate, edit users, one-time secrets | every route |
| backups (`backup.py`, `deploy/protek-backup.sh`, `hygiene.py`) | bundles in a directory and a bucket, `backup.*` settings | run, retain, copy, test, schedule | poller, nightly timer, page |
| watchers (`disk_watchdog.py`, `litestream.py`, `slo.py`, `digest.py`) | flags of what was told, `disk_samples`, a journal cursor | sample, alert, guard the log, rebaseline | poller's cycle |
| firewall check (`blocking.py`) | a cached verdict, counts of IPv6 bans | analyse, refresh, note | routers, poller, page |
| published feed (`intel_publish.py`) | two halves of a key, a sequence number | build, rotate | web workers |
| network suggestions (`asn_detector.py`) | `asn_escalations` | evaluate, decide | poller, operators |
| labels (`honeypot.py`, `intel_providers.py`, `reputation.py`) | `ip_tags`, `reputation_cache` | refresh, download, expire | poller, page |
| peers (`peers.py`) | `protek_peers` | add, toggle, delete, pull | poller, page, other instances |
| web application (`app.py`, `api_v1.py`, ...) | all of the tables above | routes | several gunicorn workers, one of which runs the poller |

Everything else (`PROJECT.json`, "components") reads what these parts write, is
transport, or is a numeric heuristic.

### What is hard in it

* **Concurrency.** `run_once` has no lock: the poller, a web worker and the
  synthetic test can be inside it together, each with one thread per target.
  The desired set is read by up to seven statements, with edits in between.
  `alerting.tick` is called by the poller and by page views of any worker.
  Settings, sources and targets are edited while a cycle runs.
* **Non-atomic writes.** Connections are in autocommit mode, so every SQL
  statement is a step of its own; router writes come before their `mt_pushes`
  rows.
* **Failure.** Calls to LAPIs and routers fail or time out at any point, an
  answer may be lost after the other side acted, statements fail ("database is
  locked"), the process restarts and forgets its dictionaries.
* **Ordering.** A renewed decision overwrites the id of its row and the end of
  the old one comes later; a stream cursor moves when the LAPI answers.
* **Limits.** `batch_cap`, `max_entries`, backoff, debounce, bounded queues,
  dead letters cut by id, token buckets, login attempts, retention, cooldowns.
* **Read, then write.** Failure counts, the signing key, the feed's number, whole
  aliases, cached verdicts and suggestions are read by one statement or call and
  written by another, in several processes.
* **Telling.** A message goes out before the flag that it did is stored, and the
  flag lives on the disk whose state the message is about.

### What makes each part correct

* The reconciler never touches the operator's entries; what it sends is
  justified by the desired set it read, even on a stale snapshot; dry-run is
  honoured; a write is never invisible; bans and unbans arrive in the end.
* The mirror drops a ban only if the LAPI dropped it, and ends up equal to the
  LAPI's active set whatever failed on the way; a recovery is announced.
* The desired set leaves out what the whitelist covers and, in SEMI-AUTO mode,
  what nobody approved, however its queries interleave with the operators' edits;
  everything held back can be approved; a change of rules reaches the targets.
* An alert fires after its debounce and not before, once; the last notice is
  true.
* A sender delivers what it took or leaves a dead letter, unless the database
  refuses a statement just then; a journal row says it was shipped only if it was.
* One poller writes to a target at a time unless databases are copied, and the
  target settles on what that poller's database says, whoever wrote in between.
* Nobody is taken for somebody else; guesses are bounded; the administrator of
  `.env` is never locked out.
* A store that had a restorable backup keeps one; backups and restore tests that
  are due are made; trouble of a disk, a log or a replica is told and stopped.
* A verdict on a router's rules agrees with what a packet meets; a feed can be
  verified; an operator's decision sticks; labels, verdicts and summaries catch up
  with the world.

## 2. Modules

| module | what it models |
|---|---|
| `Reconcile` | the diff: `Owned`, `Holders`, `ToAdd`, `ToRemove`, the slices `First` |
| `Reconciler` (extends `Reconcile`) | `run_once`, its workers, the MikroTik adapters, and what happens around them |
| `SharedList` | abstract: what Protek promises about a list it shares with an operator |
| `ReconcilerProofs` | theorems about `Reconciler` |
| `Mirror`, `MirrorProofs` | one source: full pull, delta pull, backoff, connection change, unban, prune; theorems |
| `Admission`, `AdmissionProofs` | which bans the targets get: `_desired_from_db`, whitelist, approval queue, threshold, bans by API; theorems |
| `Alerting` | one alert rule |
| `Delivery`, `DeliveryProofs` | `siem.ship` and what follows: SIEM queue, webhook queue, token bucket, dead letters; theorems about it and about `Alerting` |
| `Failover`, `FailoverProofs` | several installations, roles and the poller lock, the self-test, and the targets that hold plain sets; theorems |
| `Access`, `AccessProofs` | sign-in, sessions, users, lockout, tokens and one-time secrets; theorems |
| `Backup` | bundles, retention, off-box copies, restore tests, schedules, hygiene |
| `Watch` | disk watchdog, log guard, replica probe, journal scan, service levels, digest and drill reminder |
| `UpkeepProofs` | theorems about `Backup` and `Watch`, the upkeep of one installation |
| `Blocking` | the pure analysis of a router's rules, and a reference walk of a packet |
| `Firewall` (extends `Blocking`), `Feed`, `Escalation`, `Tags`, `Peers` | the verdict's cache, the published feed, network suggestions, labels, other instances |
| `Budget` | the bounds those five share |
| `Insight`, `InsightProofs` | their composition: one specification whose behaviours are each about one of them; theorems about its parts and about `Blocking` |
| `MC...` | constants for TLC, one per run's module |

Operators named `Mutant...`, or whose comment begins with "Mutant:", are deliberate mistakes. They are
used by nothing; `PROJECT.json` lists for each checked property a definition and
a mutant that, put in its place, makes TLC report the property.

### Reconciler

A thread in `Runner` is inside `run_once`: `run[r]` are its locals and
`work[r][t]` those of the worker for target `t`. `TickStart` is the part of
`Poller.tick` that re-reads `settings.dry_run`, `PollerRun` and `ManualRun` are
the two callers, `RunStart` is the beginning of `run_once`. A worker goes
`snap -> decide -> apply -> done`: `Snapshot*` is `b.snapshot()` (clean; failed
inside the adapter, which returns any part of the list; raised), the batch is
computed in the same step (it is local), `Decide` evaluates `b_dry`, and each of
`AddLands`, `AddDuplicate`, `AddFails`, `AddRefused`, `RemoveLands`, `RemoveGone`,
`RemoveFails` is one call of `apply` with one outcome. `Finish` folds the
workers' results, inserts `mt_pushes` and, for the poller, stores
`targets.last_sync`; `FinishFails` is an insert that raises.

Around it: `DesiredChanges` (any change; what is possible is `Admission`), `SaveSettings`,
`AddTarget`, `DeleteTarget`, `PromoteTarget`, the operator's own edits of the
router's list (external), `Restart`.

The data: an address text is a member of `Text`; `Norm` is `_normalize_addr`; a
comment is the one bit the code reads from it. `unlogged`, `live`, `dry` and the
value `"swallowed"` are history the properties need and no guard reads.

Left out: the `min_reputation` filter (another filter like those in `Keep`), the
degraded badge, targets that are not configured, the limit of four pool threads
(it orders workers, which the model leaves open), blank values. The router of
`.env` is a row that is always enabled and never dry. Replies that are lost
after the write landed are `AddLands`: the adapter leaves a row naming the
address either way. At least one source is assumed to be enabled, since
`Poller.tick` returns early otherwise.

### Mirror

`TickSync`, `TickSkip`, then `FetchAll` (`_bootstrap`) or `FetchDelta`
(`_stream_apply`), then one step per statement: `UpsertNext`, `SelectUnseen`,
`DropUnseen` / `DropGone`, and `PullDone`. Failures: `FetchFails` (LAPIError),
`ReplyLost` (the LAPI answered, the client did not hear it), `WriteFails` (any
other exception), `Restart`. The web process: `SetPaused`, `SwitchRow` and
`SwitchFile` (the two durable steps of `connection.save`), `RemoveSource`,
`AddSource`, `Unban`, `Prune`. The LAPI (external) bans, ends decisions and keeps
a cursor per key, as `SKILL.md` and the poller's use of it say.

`lost`, `told` and `pull.seen` of a delta are history. Left out: the
SIEM events and `ip_sources` rows of a pull, transport of notices; the two
requests of a full pull (addresses, ranges) are one. A restart while a save is
under way counts as a LAPI that has not changed since. `Prune` may also delete a
tombstone whose approval is pending (more than the code does).

Sources share no row and no dictionary entry, so one source is the general case.

### Admission

A reader is a thread inside `_desired_from_db`, `read[r]` its locals. One action
per statement: `Begin` (the threshold), `ReadRows`, `ReadRules` (rules and
locations), `ReadMode`, `ReadApproved`, `ReadSeen`, one `QueueNext` per held-back
value, `AllQueued`; `Use` is `run_once` going on with the list, `ReadFails` a
statement that raises. Around it: pulls (`SourceBans`, `SourceEnds`, and
`NoteAges`, the seven days of `ip_sources`), `ExternalBan`, `Unban`, the geo
worker (`Locate`), whitelist rules (`AddRule`, `DropRule`), `ToggleMode`,
`SetThreshold`, `Decide` and, for a rejection, `RejectRule`, its second durable
step; `Restart` falls between the two as well.

A value is a text; `Bare` are the ones `ipaddress.ip_address` accepts, `Prefixed`
is `str(ip_network(x))` (the spelling the API stores), and `Matches` is
`matches_whitelist`: texts for ip rules, addresses for cidr rules, locations for
asn and country rules. `spared`, `denied`, `known`, `strict` and `by` are history.
Left out: which of several rows of a value gives the comment, whitelist hits and
their notices. A pull's row and its `ip_sources` note are one step; the chunks of
900 of a query are one query. A bulk whitelist is `AddRule` and then `Unban`.

### Alerting

`Snapshot`, `Load`, `Notify`, `Save` are the four parts of `tick()` for one rule,
for the poller and for one page view at a time. `consecutive` is counted up to
the debounce, the only value it is compared with. Rules share only the snapshot.

### Delivery

`Ship` is `siem.ship`: journal, SIEM queue, webhook queue. The SIEM worker goes
`SiemTake`, `SiemSend` (every forwarder in turn, some failing), `SiemStamp`; the
webhook worker `HookTake`, then per subscription `HookPick`, up to three `HookTry`
with the outcomes of `_send_once` (taken; taken but unanswered; error; 429; no
token), and `PushDlq` with its cut by id. An operator adds, toggles and deletes
subscriptions and replays a dead letter in three steps (`ReplayRead`, `ReplaySend`,
`ReplayFinish`); `Crash` empties what is in memory.

A statement may be refused ("database is locked") wherever a worker makes one.
`StampFails`: the event was sent and its row stays pending. `ListFails`, `HookAborts`,
`CutFails`: `_worker_loop` swallows the exception, so the event is dropped for the
subscriptions that were left, with no dead letter (`dropped`). `ReplayFails`: the
letter stays although its subscriber has the event. `owed`, `lost`, `dropped`, `dead`,
`received`, `reached` and a row's `to` are history. Signatures, formats and waiting
times are left out.

### Failover

A host has a database (`rows`, `synth`, `roleDb`), a poller or none, and web
workers. `StartRun`, `Snapshot`, then `apply` as the kind of target does it: one
call per entry (`PushEntry`), read-change-write of a whole alias with a second call
that loads it (`Reread`, `Patch`, `Activate`), or chunks against a token bucket
(`Chunk`, `Refill`). The self-test is one action per statement, from `StartTest` to
`Purge`, and calls the same `apply`. `SetRole`, `CopyDb`, `Stop`, `Restart`,
`WorkerDies`, `Respawn` are what happens to hosts. `alias # active` is an alias
that is stored and not loaded. `alias` are the addresses the target holds as
Protek's: all of them in the alias and ipset adapters, the entries with its mark on a
Cloudflare list, whose other entries the adapter leaves alone and the model leaves
out. `TestRaises` is a statement of the self-test that fails and sends it to its
purge, which may fail as well and is then only logged (`Purge` with `ok` false).
`told`, `quiet`, `copied`, `orphan`, `unapplied` are history.

### Access

A worker serves one request at a time, in steps: `LoginPost` (lock and password),
`Admit`, or `FailRead` and `FailWrite` (the two statements of `record_failure`);
`Arrive` (`_revalidate_session` and `login_required`), then one of the pages.
`SsoCallback` and `GoogleCallback` create or update rows as `upsert_sso_user`
does. The session is the cookie's: a request works on a copy, and its answer
replaces the cookie. `Restart` seeds the user of `.env`. A password with its TOTP
secret is one credential; locks and sessions run out at any moment. `guesses` and
`shown` are history.

A count can be lost (`Stores`): an UPDATE of a row that a success deleted meanwhile
changes nothing, an INSERT of a row that another worker made is refused.
`LoginFails` is any other refused statement, which ends the request. `Arrive` with
`readable` false is `_revalidate_session` failing open: the session goes on with the
role it carries until the next request (`app.py:237-240`). That a role is otherwise
the current one is not stated as a property, since the table is read in the very
step that serves.

### Backup

`NewRun` starts a bundle, `Build`, `Written`, `ShipOffsite`, `Stamp` and `Sweep`
(retention: the list is read in one step and what it named is deleted in a later
one) make it; `TestList`,
`TestGet` are a restore test. `Hourly` is the poller's schedule, `TimerFires` the
nightly script, `PageRuns` and `PageTests` the buttons. A bundle that is being
written is there, and not whole; one that retention takes away while it is written
fails its run, since `chmod` finds no file (`StillThere`). Times are intervals that
are over or not; `FirstEnds` is the end of the first of a month, before which the
first monthly bundle is due. `had`, `owed` are history.

### Watch

One cycle of the poller goes through `WalGuard`, `AutoStop`, `Usage`, `Judge` for
each of the two alerts, `Body` (what fails on a full disk) and the jobs: digest,
reminder, service level, checkpoint, replica probe, journal scan, rebaseline.
`Tell` sends a message and `Remember` stores its flag. Every write may fail, always on
a full disk and within the bound on any other (`Saves`); so may every probe and
command (`Tries`), and nobody looks at what `systemctl` or the removal of the stage
came to (`AutoStop`, `MaybeRebaseline`). `Probe` is `df`, then the write, read and
delete, then the thresholds: a failure of the first two is told as a warning and ends
it. A scan without a cursor goes back `LookBack` seconds, an hour in truth. Disk usage
is a band, so a threshold with its hysteresis is kept and bytes are not. `said`,
`twice`, `lost`, `heard`, `seen`, `since` are history. `focus` bounds which parts of the host change in one
behaviour; none of the program's guards read it.

### Insight

`Blocking` is `analyze_family`, `analyze`, `summarize` and the pill as operators,
and beside them `Stopper`, what RouterOS does with a packet (external). `Firewall`
adds the routers, the cache and the notes of IPv6 counts, and reads of IPv6 tables
that fail and are taken for absent tables (`Readable`); `Feed` builds a feed
statement by statement in several workers, across changes of `SECRET_KEY` that make
the stored private half unusable (`Usable`), with a ban in the spelling the whitelist
does not match (`"spelt"`); `Escalation` is `evaluate` and `decide`;
`Tags` the honeypot's `refresh_targets` on a set of scores of which each call computes
at most `PerCall` (200), and the downloads of lists; `Peers`
`refresh_all` row by row. They share no state, which is why a behaviour of
`Insight` is about one (`focus`); the composition is one specification so that the
poller's fairness and the budget are stated once.

## 3. Runs

| run | checks | instance | distinct states |
|---|---|---|---|
| `ReconcilerStale` | `PendingJustified`, `SharedListContract` | poller and a web worker, one target, an address in two spellings and another, one edit of the list, one change, no fault | 501 k |
| `ReconcilerFaults` | `TypeOK`, `NoSilentWrites`, `PollerHonoursDryRun`, `UnbansReachTargets`, `BansReachTargets` | poller, two targets, one with `max_entries = 1`, two plain addresses, one edit, one change, one fault | 574 k |
| `MirrorAll` | `TypeOK`, `TombstonedOnlyIfGone`, `MirrorSettles`, `RecoveryTold` | two identities, two bans per LAPI, four plans of events: six failed pulls (one more than the backoff's limit needs); a local source with a save, a failed statement and a restart; another source with a lost answer, a pause, a restart and a new key; a local unban | 1.32 M |
| `AdmissionAll` | `TypeOK`, `WhitelistHonoured`, `ApprovalHonoured`, `NotRequeued`, `Settles` | poller and a web worker, one address in two spellings, a country rule, two sources, threshold up to 2, any four events | 1.07 M |
| `AlertingAll` | `AlertTypeOK`, `NoticesAlternate`, `DebouncedUnseen`, `ProblemTold`, `ResolvedTold` | debounce 3, four changes of the predicate, one silence, one restart, one page view | 64 k |
| `AccessAll` | `TablesSound`, `ServedAsOneself`, `GuessesBounded` | two workers (symmetric), one browser, two addresses, one of which is admitted, a local and an SSO name, three `.env` files, two attempts, up to six guesses and up to three changes (six guesses with one of them, two with three) | 1.53 M |
| `DeliveryAll` | `QueuesSound`, `DeadLettersKept`, `TakenIsSettled` | two events, queues of one, one subscription, one forwarder, a bucket of one, one dead letter kept, one replay of the journal, one restart or refused statement | 1.13 M |
| `FailoverAll` | `TargetSound`, `StandbyQuietAlone`, `AliasSettles` | two hosts, three kinds of target, one address and the test's, a batch of one, any three events | 596 k |
| `BackupAll` | `StoresSound`, `ScheduleKept` | the poller and another actor, three bundles, two kept, two events, one fault | 183 k |
| `WatchAll` | `MessagesSound`, `TroubleTold`, `TroubleStopped` | six bands of usage with the stage, or an empty or full disk with the log, the service level or the replica, or the journal or the calendar alone; three events, one fault | 224 k |
| `InsightAll` | `VerdictSound`, `FeedSound`, `RecordsSound`, `DecisionSticks`, `InsightSettles` | every table with at most one raw rule and two filter rules, disabled rules being plain ones (16,410); two routers, one of which has IPv6 rules and changes, two workers, two feeds, two networks, two addresses with one score per call, two peers, one fault, up to four events | 739 k |

What the conjunctions stand for:

* `BansReachTargets`: every ban reaches a target that has room, and a limited
  target ends up at its limit or below. `MirrorSettles`: no stale ban stays, and
  every ban comes in. `Settles`: the last list read holds all that the help
  promises (`Promised`) and nothing that the filters stop (`Admissible`), and every
  value held back has a row that is pending or was rejected.
* `ServedAsOneself`: the row a session points to belongs to the person who signed
  in, or is gone, however long a cookie was kept while accounts came and went.
  `GuessesBounded`: at most n(n+1)/2 + 2 wrong passwords for n allowed attempts, lost
  counts included; refused statements come on top.
* `TablesSound`: types; the credentials of `.env` always open an administrator's
  session, as long as `.env` names the user it named at first and no identity
  provider knows that name; a one-time secret is shown at most once per worker
  that was at it.
* `QueuesSound`: types; dead letters bounded; a row stamped without an error was
  taken by every forwarder configured then. `TakenIsSettled`: what a worker took
  for a subscriber is delivered, a dead letter, or dropped by the very statement
  that was refused; a journalled event is stamped, unless it left the queue untried
  or its stamp was refused. The run has one forwarder and one subscription; several
  are the theorem's.
* `TargetSound`: types; an alias that is stored and not loaded is explained by a
  call that went wrong; no self-test leaves its row, unless it was cut short, its
  own purge failed, or its database was copied.
* `StoresSound`: a store that had a whole bundle has one, while fewer than the
  kept number are halves. `ScheduleKept`: backups and tests that are due are made,
  problems are told. A failed monthly run stamps the day as done; it stays due and is
  tried again, but the first one only on the first of a month, and then a day may
  pass without a backup: `DueIsMade` stops there (`Skipped`).
* `MessagesSound`: nothing is told twice unless a write of its flag failed or never
  came; from where the first successful scan began, a journal line is passed over
  only within a second that was gone through. `TroubleTold` and `TroubleStopped`: a
  critical disk or replica is told, a replica that cannot be written to is told as
  such, a log over its hard limit stops the service, a stage that fills the disk is
  dropped; the last two although one attempt may fail unnoticed.
* `VerdictSound`: the analysis agrees with the packet walk, and under a green
  pill every router was read and stops IPv4 packets both to it and through it; IPv6
  packets in one direction at least, if bans were noted and the rules could be read in
  part. `FeedSound`: a feed handed out verifies with the key it carries, has its own
  number, and holds no entry of others or of an address whitelisted all along, in the
  whitelist's spelling (each up to the overlaps and the torn key in "Also seen").
  `RecordsSound`: one pending suggestion per network, an approved one is banned
  (a row of `decisions`; targets may still filter it) unless that failed, a peer's row
  holds its own summary. `InsightSettles`: verdicts,
  questions to the operator, labels and peers catch up; no address without a ban or a
  score stays a target, and exactly the targets are handed out again and again.

Why these bounds: `batch_cap = 1` with two addresses makes every batch a cut;
three router ids allow an entry to be added, removed and added again, or an
operator's entry among Protek's; two runners are enough because a property
relates one run to the list and to one other actor; one fault per behaviour can
fall at each of its steps; four events are a ban, its rule or approval, a change
of mind and a second thread or a crash. Six guesses are one more than the bound of
`GuessesBounded`; three changes are an account deleted, another added and a restart
or an unreadable table under a cookie that was kept. Queues of one are full at the second event, and one dead letter
kept is cut by the second. Three bundles with two kept make retention delete; a
restart and two events put a change on both sides of every step. Two hosts are what
`ha.py` is for; three events are a promotion, a death or copy, and a fault. The
bounds stand in the guards (`MaxId`, `MaxEdits`, `MaxChanges`, `MaxFaults`, `MaxBan`,
`MaxEvents`, `MaxThreshold`, `Bound`, `MaxOf`, `MaxFailures`, `Plans`, `MaxEvent`, `MaxReplays`,
`MaxBundle`, `MaxLines`, `MaxServed`, `MaxRows`, `Passes`, `Foci`) and those of the proved
modules are constants of the theorems too.

`CHECK_DEADLOCK FALSE` stands where a behaviour ends with its bounded events: a
process that has nothing left to send, no run due or nobody at its pages really
stops.

### Fairness

The poller's loop catches everything and starts the next cycle, every network
call has a timeout, and `run_once` leaves its thread pool only after the last
worker: hence weak fairness of a cycle's steps, of each worker and of `Finish`.
Nothing is assumed of faults, edits and page views beyond their bounds. In
`Mirror` also: a backoff is an instant in the future that passes, and a save that
has begun runs to its end. In `Admission`: the poller starts a run in every cycle,
a read that began goes on, a rejection reaches its second step unless the process
dies. In `Alerting`: a silence has an `until_at`, so it ends.
In `Delivery`: the two worker threads run as long as their process. In `Failover`:
a thread goes on with what it is at, the poller starts its next cycle, gunicorn
replaces a dead worker, a bucket fills. In `Backup`: the poller's hour comes round
and a run goes on. In `Watch`: the cycle goes on (weak) and ends, and the jobs that
are counted by cycles come up in the cycles that get that far (strong, since a full
disk may keep some cycles from reaching them), as attempts: whether one works is open,
and the failures are bounded; systemd stops what it was asked to stop; hours pass. In `Insight`: the poller's
share of each part, requests that began, days and minutes; nothing of the operators. `Passes` cycles come before the end of a
day (in truth a day has thousands), enough to compute every score at `PerCall` each.
Most liveness properties have the form `<>[]P`, once the bounded disturbances are
over; those of `Backup`, `Watch` and `Insight` lead from a problem to its end, with
the disjuncts that excuse it named in the formula.

### The run that finds a disagreement

`AdmissionSpelling` checks a sentence the repository says of itself
(`help/catalog.json:377`): `WhitelistedNeverBlocked`. The API stores `1.2.3.4/32`,
which no whitelist rule matches, so TLC shows a whitelisted address being pushed.
The same spelling has two more effects, which other properties name and stop at:
no rule can be stored for a rejected value of that form (`add_whitelist` refuses it,
`scenarios_admin.py:271`), so in AUTO mode it is pushed (`Promised`;
`help/catalog.json:402` says it "stays unblocked even in AUTO mode"); a whitelisted
ban of that form is published (`OwnIntelOnly`; `intel_publish.py:158`).

Also seen while modelling; the properties above say where they stop, and no run
is kept for them:

* Addresses the operator already has on the list are proposed on every run and
  count against `batch_cap`; enough of them in front keep later bans off the
  router (the proviso of `BansReachTargets`; `help/catalog.json:519`).
* The first delta of a key that never streamed reports no ends, so a decision
  that ends between the full pull and that delta stays (`lost` in `Ends`;
  `SKILL.md:114` asks for `startup=true` on the first call).
* Saved connection settings, and a restart, forget that a source was announced
  as down (the proviso of `RecoveryTold`; `poller.py:15`).
* A silence stores `firing = 0`, so a problem that ends under it is never
  announced as resolved (`Undisturbed` in `ResolvedTold`; `alerting.py:11`).
* A read that failed inside a MikroTik adapter comes back as a short list and is
  stored as the list's size (`SnapshotSwallowed`; `poller.py:286`).
* A source removed and added again under its name gets deltas and no full pull,
  since `_bootstrap_done` outlives the row (`AddSource`; `app.py:5102`).
* External bans store `until`, and nothing ends them then (`app.py:2954`).
* Two runs at once may queue one value twice: `NotRequeued` speaks of rows that
  were there when the read began.
* The approvals page lists the newest 200 pending values, so an older one waits until
  those are decided (`Settles` says it has a row, not that the page shows it).
* Every view of `/alerts/rules` counts as a cycle of the debounce (`used.view` in
  `DebouncedUnseen`; `alerting.py:20`).
* With no enabled target `run_once` raises on `target_state`, which only the other
  branch binds (`reconciler.py:209`; the comment at :57 says otherwise).
* A manual run passes the dry-run value its process read at start-up
  (`app.py:3370`; the docstring at :3368 speaks of the setting), and a dry-run
  target that is deleted while its worker runs is written to, since the missing
  row reads as live (`reconciler.py:330`; `help/catalog.json:203`).
* A delta whose statements failed is never fetched again (`poller.py:687`; the
  `lost` of `WriteFails`).
* An external ban that was queued has no row in `decisions`: approving it pushes
  nothing (`app.py:2971`; `docs/USER_GUIDE.md:102`).
* Sign-in: the administrator of `.env` can be demoted by single sign-on if its
  username is an SSO address, and one whose `APP_USERNAME` was changed after the first
  start can be demoted by another administrator, since only row 1 is protected
  (`auth.py:4`; the conditions of `EnvAdminKept`); an answer in flight
  restores the cookie after a sign-out; a SAML user without an e-mail attribute is
  always refused; OIDC and SAML look neither at the lock nor at the allowed
  addresses; a failure counted late clears a lock, and a count can be lost to a row
  that came or went, so `GuessesBounded` is more than `MAX_LOGIN_ATTEMPTS` with two
  workers; the count is not reset when a lock expires.
* Sending: a refused statement in the webhook worker drops the event for the
  subscriptions that are left, without a dead letter (`webhooks_out.py:207`), and a
  SIEM row whose stamp was refused stays pending although it was sent
  (`siem.py:330`); the dead letters kept are one more than the constant; a worker can
  leave a dead letter of a subscription deleted meanwhile, which nobody can replay;
  three refused tokens make a dead letter without a request; the SIEM worker is
  one per process although `siem.py:16` speaks of an elected one.
* Failover: a copied database carries `ha.role`, so both hosts poll (the proviso of
  `StandbyQuietAlone`; `ha.py:12`, `templates/admin_ha.html:117`); the role is read
  at start only, and a manual sync does not ask for it; a self-test counts a failed
  snapshot as "gone" and may report success although the removal failed
  (`synthetic.py:262`); a purge that fails leaves the row, which the reconciler then
  reads as a ban if it was not yet soft-deleted (`synthetic.py:313` says "no orphans");
  a failed load leaves pfSense enforcing another alias than
  it shows.
* Backups: the restore test prefers a monthly bundle to a newer daily one
  (`backup.py:538`) and may pick one that is being written; a monthly run stamps the
  daily time even if it failed (`backup.py:632`; :606 says "last successful daily",
  the `Skipped` of `DueIsMade`); jobs are counted in cycles since the start, so a
  process that restarts often runs the rare ones seldom.
* Watchers: a failed reading of the usage counts as 0 and announces a recovery; a
  breach's start survives switching the check off; the automatic rebaseline cannot
  fire on a full disk, since the sample it waits for cannot be stored (`Relieved`
  stops at `Full`); the reminder of the drill repeats hourly while none is
  recorded; a message counts as sent even if every channel failed; a warning and a
  critical message share an hour's limit (hence the `~>` of `ReplicaTold`); a replica
  so full that the marker cannot be written is told as a warning, never as critical
  (`litestream.py:353`; the second conjunct of `ReplicaTold`), and how its error is
  worded decides whether it counts as space; journal lines older than an hour are
  never read while there is no cursor (`since` in `PassedOver`).
* Feed: entries of addresses whitelisted by country are published
  (`intel_publish.py:189`; its docstring at :158 says otherwise); two workers that make
  the key at once can mix its halves, and two builds at once can use one number
  (`crossed` in `FeedSound`); a worker that replaces an unusable key and ends between
  its two writes leaves a new private half beside the old public one, and every later
  feed is signed by another key than it carries (`"torn"`; `intel_publish.py:85`).
* Firewall check: the count of IPv6 bans is noted only if it differs from what this
  process noted last, so another process's note may stay (`mixed`); the analysis
  looks neither at jumps nor at an earlier accept of the list itself (`Straight`); an
  IPv6 rule in one direction is enough for green (`blocking.py:348` calls a gap in
  one direction amber), and IPv6 tables that could not be read count as a router
  without an IPv6 firewall (`blocking.py:222`), so green may stand over IPv6 rules
  nobody has seen (the IPv6 part of `GreenMeansStopped`).
* Suggestions: a decision does not look at the row's status, so rejecting after
  approving leaves the network banned, and nothing ends such a ban. Labels last to
  the end of the day they expire on, since texts are compared.
* Honeypot: while more scores than 200 have expired, `refresh_targets` sorts and cuts
  what is known so far, so addresses are tagged for which the full list leaves no
  place, again every six hours (`reputation.py:238`; hence `[]<>` in `TargetsSettle`).

## 4. Proofs

`tlapm` on the eight `...Proofs` modules, from the named assumptions on the
constants only (`NormAssumption`, `RankAssumption`, `TargetAssumption`,
`BoundAssumption`, `AdmissionAssumption`, `AlertAssumption`, `MaxAssumption`,
`DeliveryAssumption`, `FailoverAssumption`, `AccessAssumption`, `WatchAssumption`,
`BackupAssumption`, `BudgetAssumption`, `FirewallAssumption`, `FeedAssumption`,
`EscalationAssumption`, `TagsAssumption`, `PeersAssumption`): any sets of texts,
targets, threads, hosts, workers and subscriptions, any bounds, any debounce.
Finiteness is assumed of the identities of a source, and of the workers, because
cardinalities are compared. `GuessesStayBounded` has a hypothesis of its own, said
below.

* `TypeCorrect` (`Reconciler`, `Mirror`, `Admission`) and `AlertTypeCorrect`; in the other
  modules the types are a conjunct of the invariant that is proved.
* `PendingIsJustified`: `PendingJustified` is inductive only with `TypeOK`,
  `IdsUnique` (an id names one entry, and is below `nextId`, so an entry added
  later cannot be hit by a removal decided earlier) and `WorkersBelongToRuns` (a
  thread that starts a run has no batch left from another). The heart of it is
  that `ToRemove` yields ids of owned, unwanted entries of the snapshot and that
  entries never change.
* `KeepsContract`: `Reconciler` implements `SharedList`. Every step is mapped to
  `ProtekAdd`, `ProtekRemove`, an operator's step, or a stutter; that a removed
  entry is Protek's is `PendingJustified`.
* `NoSilentWritesEver` and `PollerStaysDry`, from `SafeInv`: a worker that sends
  belongs to a run that is not dry, and the poller's run is dry unless dry-run
  was off since its cycle began.
* `WhitelistIsHonoured`, `ApprovalIsHonoured`, `NeverRequeued`, from `SafeInv` of
  `AdmissionProofs`: for each reader, the values it must spare are still matched by
  the rules, those denied are still unapproved, those known still have a row, and
  what it has read so far agrees with that. Others' steps cannot hurt a reader
  (`OthersKeep`) because rules that go, approvals and switches of the mode are the
  only steps that weaken the tables, and the history shrinks with them.
* `DebounceHolds`: the stored count never exceeds the poller's own cycles while
  nobody views the page, also inside a call (`CountIsCycles`).
* `NoticesNeverRepeat`: undisturbed, the stored `firing` flag tells the last
  notice (`FlagIsTold`).

* `DroppedOnlyIfGone` (`Mirror`). Ids of decisions are unique and never used again
  (`LapiInv`); what a pull still has to write is younger than what was written
  before (`OrderInv`); a live row has the id of an active decision at least as young
  as any handed over (`RowInv`), so an id that an answer reports as ended hits a row
  of an active identity only if that row is about to get a younger id (`DropInv`).
* `QueuesStaySound` and `LettersAreKept` (`Delivery`). Dead letters have their own
  ids, all among the `DlqKeep + 1` newest and as many more as cuts were refused
  (`DlqInv`), which bounds them; a replay
  under way knows a letter that was in the table and whether its subscriber took it
  (`ReplayInv`); what the SIEM worker holds agrees with what the forwarders got
  (`StampInv`).
* `TargetStaysSound` and `StandbyStaysQuiet` (`Failover`). The number of a self-test's
  row is still carried by a test of that host, unless one was cut short or failed to
  purge it (`SynthInv`), so the last of two tests that share the row removes it; until a database is copied, the setting says what
  the operator said (`RoleInv`); idle jobs carry nothing (`JobsTidy`).
* `AlwaysOneself` and `TablesStaySound` (`Access`). The ids that sessions hold have been
  given out, and a row keeps its name or goes and its id is not given out again
  (`NameInv`, `NamesKept`), so an unchecked session, a cookie kept for long or a row found
  by name can point to nobody else; row 1 is the user
  `.env` named first, whom neither an administrator nor the seeding at a start
  demotes or disables (`AdminInv`); the requests that read a one-time secret and those
  it was shown to are together no more than the workers (`PopInv`).
* `MessagesStaySound` (`Watch`). A setting agrees with what was told unless its write
  was lost or is the next step (`KeyInv`); the cursor is a second past a line that
  was gone through, and what a scan has not read lies before it began or is no older
  than what it has read (`ScanInv`).

* `GuessesStayBounded` (`Access`), for one or two workers, which is what the image
  runs (`Dockerfile`: `--workers 2`). The lock is read before the count, and a failure
  counted late clears a lock, so the count alone bounds nothing. `Left` says how many
  more guesses two workers that hold given counts can still bring about before the
  lock closes; a count that finds its row come or gone is lost, which only one of the
  two can do, by what the other did (`Late`). Twice the guesses, with what is left,
  never exceeds `n(n + 1) + 4` (`GuessInv`), since a step that counts a failure takes
  at least as much from `Left` as it adds (`Climb`). Failures whose statement the
  database refused are not counted and come on top. Nothing is claimed for the
  three workers of the service file.
* `StoresStaySound` (`Backup`). A number is given once, to a run of one kind, so
  "newer" means the same to every reader (`NumberInv`). A list of bundles to delete
  holds only expendable ones, each with as many newer ones of its kind as are kept,
  and stays so while others delete, since what they delete is expendable too
  (`SweepInv`). Above the greatest number deleted the kept ones are all there, and
  they cannot all be halves while fewer than that many files are (`WholeKept`).
* `AnalysisIsRight` (`Blocking`): for rule tables of any length the verdict of
  `analyze_family` agrees with what a packet meets; where it claims that a packet is
  stopped, or that none is in a direction it does not cover, as far as the analysis
  looks (`Straight`). The rule that ends a packet's walk is the first of its
  chain that does (`EndsInIsFirst`), so the analysis counts it as live, and a live
  rule that covers the direction leaves no earlier one to accept the packet.
* `VerdictStaysSound`, `FeedStaysSound`, `RecordsStaySound`, `DecisionsStick`
  (`Insight`), from an invariant with one part per component. A cached verdict is of
  routers as they can be (`FirewallInv`), so `AnalysisIsRight` carries over to the
  pill; what was read of IPv6 rules stops a packet only if all of them do
  (`ReadInPart`). Until requests overlap in `_ensure_keypair`, or one ends between its
  two writes, the halves of a key that are both usable belong together, and so do
  those a request holds; until they overlap in the numbering, the number
  about to be stored is new; what was whitelisted all through a request is among the
  rules it has read (`FeedInv`). What the detector's query said of suggestions still
  holds at its insert (`EvalInv`). While the id a pull has read is in the table, that
  row has its address, for ids are not given twice (`PullInv`). The five parts share
  no variable but the budget, so a step of one cannot hurt the invariant of another.

Only model-checked: every liveness property (the prover has no rules for fairness
and `ENABLED`), `AdmissionSpelling`, whose counterexample is one behaviour, and the
bound on guesses where the number of workers differs from the theorem's. Every other
safety property that a run checks is a theorem.

## 5. Not modelled

* Look-ups and anomaly scores (`intel.py`, `ml_anomaly.py`): caches and numeric
  heuristics that no other part reads.
* Read-only pages, exports and views (`api_v2.py`, `graphql_api.py`, `bundle.py`,
  `diagnostic.py`, `navsignals.py`, `helpdocs.py`) and the append-only audit log:
  they change nothing that another part reads.
* Migrations of the database, the plug-in loader, encryption and manifests of
  bundles, formats of events, wording and transport of notices, the protocols of
  OIDC and SAML (libraries), scores and percentiles: data the properties do not
  tell apart.
* Of parts marked "partly" in `PROJECT.json`: what their note names.

## 6. What could follow

`min_reputation` among the filters of the reconciler; an operator's restore of a
bundle while the poller runs; how the bound on guesses grows with the workers; the
safety core of the liveness properties (what is never lost on the way) as theorems.
