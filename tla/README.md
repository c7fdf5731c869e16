# A TLA+ model of the security scanner

This directory holds TLA+ modules that model the security scanner's stateful
parts (`src/` at the repository root, a Bun/TypeScript program), the TLC
configurations that check them on small instances, and TLAPS proofs of theorems
about them. Paths below are relative to the repository's `src/` unless they
start with `tests/`, `scripts/` or `README`.

The program is a set of small asynchronous components. There is no shared-memory
concurrency (but for Bun Workers that get a copy of their input), so what goes
wrong goes wrong *between two awaits*: the models cut every handler at its
`await`s, make each piece an action, and let everything else that is in flight
act in between. Files, Redis and the keychain outlive a process; models with
such state have crashes or restarts.

## 1. Inventory

### The parts that keep state

| Component | Code | State | Operations | Interacts with |
| --- | --- | --- | --- | --- |
| Domain registry | `config/registry.ts` | `domains`, `securityCache` | `loadAll`, `get`, `security`, `service` | loader, watcher, service, shell |
| Hot reload | `config/registry-watch.ts` | debounce timers, reloads in flight | `schedule`, `reloadDomainFile`, stop | registry maps, `fs.watch` |
| `sp start` | `cli/sp.ts`, `service/index.ts` | phase of `runStart`, the service's security domain and serve options | load, initialize, start, watch, interrupt | registry |
| Provider feed cache | `provider/cache.ts`, `redis-cache.ts`, `feed.ts`, `net/retry.ts` | cache file, Redis entry, calls in flight | load, revalidate in the background, conditional request | origin, limiter, disk, Redis |
| Feed rate limiter | `utils/rate-limit.ts` | times of attempts | `attempt` (`reset`, `retryAfterMs`) | feed cache |
| Threat matching | `scan/matcher.ts`, `scan/parallel.ts`, `provider/*.ts`, `policy/engine.ts` | none | match, merge workers, categorize, override, dry run | supply-chain domain, install hook |
| Supply-chain domain | `domains/supply-chain.ts` | provider, policy, audit sink, decision buffer | activate, deactivate, set/reset policy, scanAll, clear | provider, audit log, watch mode |
| Watch mode | `cli/watch.ts`, `utils/debounce.ts` | debouncer, `scanning`, watchers | onChange, performScan, shutdown | supply-chain domain, config |
| Audit log (encrypted JSONL) | `audit/encrypted-jsonl-sink.ts` | file, chain of writes | append, stream, readAll | every domain; other processes |
| Audit follower | `interactive/shell.ts` (`tailAuditLog`) | `seen`, polls in flight | poll each second | audit file |
| Audit log (SQLite) | `audit/factory.ts`, `encrypted-sqlite-sink.ts` | table, one key per process | append, thumbnail (insert or replace), stream | every domain; other processes |
| Vault migration | `scripts/migrate-vault.ts`, `config/vault.ts`, `encrypted-store.ts`, `master-key.ts` | public config, private metadata, encrypted store, keychain entry | migrate, `--force`, master-key init/delete | loader |
| Config loader | `config/loader.ts` | none (reads four places one after another) | `loadDomainFile` | registry, vault files |
| Install hook | `index.ts`, `secrets-backend.ts` | cache file, availability memo, event log, default rules memo | scan, background refresh, hash verification | bun install, feed server, registry, keychain |
| Install hook's commands | `index.ts` (from line 1100) | probe and token in the keychain | health check, registry check, store, clear, list | keychain, feed, registry |
| Interactive shell | `interactive/shell.ts`, `cli/sp.ts` | current domain, cached context and service, interrupt handlers | REPL commands, interactive scan, `audit tail` | registry, service, audit |
| Secrets, CSRF and sessions | `secrets.ts`, `csrf/`, `cli/csrf.ts`, `cli/vault-commands.ts`, `config/security.ts` | secrets in the keychain, the contexts the registry caches | rotate, set, delete, issue, verify, guard | registry, service |
| QR and branding cache | `visual/qr-cache.ts`, `cli/qr.ts` | images, `mapping.json` of the directory and of each domain | `sp qr`: find token, get cached, save | disk, keychain |
| Feed sources | `provider/feed.ts`, `feed-jsonl.ts`, `feed-websocket.ts`, `threat-intel/dns.ts` | a load: its source, the body so far, a socket and a timer | dispatch, inspect, stream, messages | feed cache |
| Doctor | `config/doctor.ts`, `domain/doctor-snapshot.ts`, `cli/config-doctor.ts` | snapshot index | check every domain file, compare, update | domain files, vaults |
| `scan` commands | `cli/scan.ts`, `scan/domain-parallel.ts`, `scan/transpiler.ts` | chunks of workers | check domains in parallel, search a source or a bundle | doctor's checks |
| Signals, child processes | `utils/process.ts`, `scan/tools.ts`, `scan/terminal.ts` | children, pipes, timers, an abort signal | spawn, capture, run all tools, PTY session | shell, service |
| TLS inspection | `cli/tls.ts`, `intel/tls/` | the cached list of system CAs | inspect an endpoint | operating system |
| Reports | `cli/report.ts`, `scan/html.ts`, `web-security.ts`, `report/webview.ts`, `preview.ts` | a browser, temporary directories | security scan of a page, screenshot, preview | disk |

Without state, and not modelled: the CLIs that format catalogs and configs
(matrix, xref, bench, visual), badges and colours.

### What is hard, and what makes each part correct

- **Registry and reload.** Reloads of one file may overlap (the debounce timer
  is forgotten when its reload starts) and end in the other order; a file may
  change its id, break or vanish between `exists()` and the read; a security
  context is a cached promise of a config that a reload may replace. Correct: no
  cached context of an older config, a service built from one config, a reload
  that touches its own file's domains only, and a registry that converges to
  the disk.
- **Feed cache.** Two stores written one after the other, a background
  revalidation per cached load, conditional requests against an entry that may
  be replaced meanwhile, crashes in a write. Correct: what comes from the cache
  was confirmed at most a TTL ago, what comes from the network is current.
- **Limiter.** The boundary of the sliding window.
- **Audit log.** Several processes append to one file; a write can be cut
  short; a follower's polls overlap. Correct: one order, acknowledged after
  stored, bounded loss, no gaps in what is followed.
- **Matching, supply chain, watch mode.** Workers' results are merged; the
  domain can be reconfigured between the awaits of a scan; an append may fail
  half-way; triggers race the `scanning` flag and the shutdown. Correct: allowed
  exactly when clean, decisions in the log they belong to, no change forgotten
  but those dropped during a scan.
- **Vault migration.** Four places are written one after another and the
  process may die between or within the writes, and it is run again. Correct: at
  no point is an inventory lost, and a load never mistakes a part for the whole.
- **Install hook.** A background refresh outlives its scan, shares the cache
  file and the writer of the event log, and may `process.exit`; tarballs are
  downloaded one after another while the registry republishes. Its commands ask
  several services that come and go, and leave a probe in the keychain between
  two awaits. Correct: genuine feeds, no tarball passed over, a verdict on health
  that was true at some time, a probe that is swept.
- **SQLite audit.** Processes with different keys write one table; the thumbnail
  replaces a row by what the process believes the entry to be; the follower
  counts rows that the database sorts. Correct: what was acknowledged stays.
- **Shell and service.** A service outlives the configuration it was made of, a
  follower and a scan take over the interrupt and the terminal, and an append
  may fail after the scan. Correct: each scan is accounted for once, and nothing
  is held at the prompt.
- **Secrets.** A secret is replaced in one process while another has cached the
  promise of the old one. Correct: what passes was signed with a secret that the
  keychain had since the last reload, for its own session.
- **QR cache.** Image, index and mapping are written one after another by
  several processes. Correct: no code of an older token is shown; the index is
  whole unless saves overlapped.
- **Feed sources.** Chunks cut lines at any place, sockets fail after they
  delivered, callbacks come after the promise is settled. Correct: a feed is
  whole, a load ends.
- **Doctor and domain scans.** Every file is read twice, and the private file,
  the store and the keychain in between, each after an await; workers fail one by
  one, an index may be torn, and what a run reports depends on how it is run.
  Correct: a clean exit vouches for every file that was found, and an unchanged
  tree shows no drift to a run of the same kind.
- **Child processes.** `spawnCaptured` awaits the exit before it reads the pipes,
  so that a child may wait for its pipe and the parent for the child; its timeout
  sends one signal and no other. Correct: all tools are reported, unless a child
  defies that signal or leaves somebody behind who holds its pipe.
- **TLS, reports.** The list of CAs changes between two reads of it; a browser
  and two temporary directories are acquired one after another, each of which may
  fail. Correct: what passed was trusted by a list not older than its cache allows,
  and what was opened is closed.

`PROJECT.json` lists each hazard at its line with the properties that cover it,
or why none does.

## 2. Plan

Written so far, in this order: `DomainRegistry`, `SpStart`; `RateLimiter`,
`FeedCache`; `AuditLog`, `AuditJsonl`; `ThreatMatch`, `SupplyChain`, `WatchMode`;
`VaultMigration`; `InstallHook`, `EventLog`, `HookCli`; `OperatorShell`, `ToolRuns`,
`QrCache`, `CsrfSecrets`; `AuditSqlite`; `FeedSocket`, `FeedSource`; `Doctor`,
`ScanCommands`; `TlsScan`; `WebReport`. Then the proofs: `SpStartProofs`,
`AuditProofs`, `FeedCacheProofs`, `MatchProofs`, `HookProofs`, `WatchModeProofs`,
`CommandProofs`, `ScanProofs`.

Composition: `SpStart` extends `DomainRegistry`; `FeedCache` extends
`RateLimiter`; `WatchMode` extends `SupplyChain`, which extends `ThreatMatch`;
`InstallHook` extends `ThreatMatch`; `FeedSource` extends `FeedSocket`;
`ScanCommands` extends `Doctor`, whose files and checks it shares; `AuditJsonl`
implements `AuditLog` through a refinement mapping. `MCInstallHook` and
`MCCommands` put modules that share no state side by side, so that one run
covers them: a behaviour picks one program and keeps it.

Nothing is left to prove of what the runs check except liveness (section 5).

Left to extend: two vault commands at a time, and a service that is made anew
when a secret is rotated, both of which the code does not provide for.

## 3. Modules

Data are abstracted to what the properties tell apart: a config is which write
of which file it is, a version range or a glob is the set of what it matches, an
encrypted line is whole or not. Operators named `...Early`, `...Late`,
`...Anyway` and the like, commented "Faulty variant", are used by no
specification: each is a plausible bug of the definition after it, and shows
that a property would notice.

### DomainRegistry, SpStart

`domains` and `security` are the registry's two maps. `loader` is the `loadAll()`
in flight: `LoadAllStart` clears the maps and lists the files, `LoadAllRead`
reads one file at a time of its own, `LoadAllFinish` enters all results or fails.
`timers` are the debounce timers of the watcher; `FireTimer` forgets one and
starts a reload in a slot of `Task`, whose `ReloadStep` is cut at the awaits of
`reloadDomainFile`: exists, resume, load, finish. `SpStart` adds `runStart` (its
`phase`) and the service: `bound` is the config its domain was created from,
`listening` the one its serve options came from, read separately. `EditFile`
writes, breaks, creates or removes a file at any time; `AskSecurity` is any code
that calls `registry.security`. `track` is history: which files the watcher has
reported, and for which two reloads overlapped.

### RateLimiter, FeedCache

`attempts` is the limiter's queue; `granted` is history. `FeedCache` has an
`origin` that publishes and rolls back, the cache `file`s, `redis` with expiry,
and `call`s cut at the awaits of `getCachedFeed`: `ReadRedis`, `ReadFile`,
`Decide` (fresh, or the limiter), `Answer`/`FetchFails` (retries), `BodyArrives`,
`WriteRedis`, `OpenFile` (truncate), `CloseFile`. After `Decide` of a fresh entry
the call *is* the background revalidation, since its load has returned. A
`Restart` keeps the stores and drops the rest. `held` and `arrived` are history:
when an origin last had, and when it last sent or confirmed, a version.

The origin of the run sends an ETag with every 200 (`TwoHeaders = {TRUE}`). One
that sometimes does not breaks both freshness properties, since `cache.ts:167`
then keeps the old tag beside the new data; this is listed as a hazard.

### AuditLog, AuditJsonl

`AuditLog` is the abstract log: entries stored one at a time in one order,
acknowledged when stored; it may end in a stub that swallows the next append.
`AuditJsonl` has the `file` as a sequence of writes (a whole line, one cut in the
payload, one that lacks its newline), a `chain` of writes per process, the
`status` of every append, and the follower's overlapping `reading`s.
`ImplementsLog` maps whole lines on lines of their own to the abstract `log`.

### ThreatMatch, SupplyChain, WatchMode

`ThreatMatch` has no state: `MatchThreats`, `Chunks` and `Merge` of
`matchThreatsParallel`, `Categorize`, `Advisories`, `ApplyPolicy`, `ApplyDryRun`,
and `Scan`, the provider's pipeline. Rules and overrides are sequences, in which the
first one counts; the advisories of a scan are a set, since nobody asks for their
order. `SupplyChain` has the module's variables
(provider, policy, sink, decision buffer) and a `scan` per call of `scanAll`, cut
where it awaits the feed, the workers and every append; `WatchMode` adds the
debouncer (`generation`, `sleeping`), the `scanning` flag, `performScan`'s reads
of `package.json` and of the domain, shutdown, and a `Host` that calls the
supply-chain domain at any time. `unread`, `missed`, `startsAfterStop` and the
`disturbed` flag of a scan are history.

### VaultMigration

Per domain file: the `public` config (inventory inline, stripped, or torn), the
`private` metadata, the encrypted `store` (the key it was made with, or torn),
and the `key` in the keychain. `command` is the migration's position: it takes
the files in order and writes key, store, metadata and public file, each write
opened and closed apart so that a `Crash` can fall into it. `load` is one
concurrent `loadDomainFile`, which reads public file, metadata, key and store at
four times. `InitMasterKey` and `DeleteMasterKey` are the `master-key` command, run
while no migration is. Whoever asks the keychain for a key may get no answer, which
`getMasterKey` gives out as no key (`HasMasterKey`): an init then overwrites the key
of a whole vault. `replaced` and `unkeyed` are history: a forced migration gave an
existing vault another key; `master-key` took the key of a whole vault away.

### InstallHook

`task` holds scans of one process and the refreshes they leave behind. A scan
reads the `cache` file and goes on with a fresh entry, leaving a refresh in
another slot, or asks for the token, fetches, reads the body and writes the cache
itself; then it matches and verifies the tarballs of rules with hashes one by
one, each against what the `registry` has at that moment. `ExitForToken` is the
`process.exit(1)` of a credential store that does not answer, `ProcessEnds` any
other end; both take every task along and leave a half-written cache torn. The
process of `Init` may find a cache of an earlier one. `published` and the
`feeds` and `tarballs` of a task are history.

### EventLog, HookCli

`EventLog` has the scans of one host, the writer (`open`) that
`closeEventLogWriter` clears and `emitEvent` makes anew, and the file as the
`log` lines since it was last opened and the `rest` of older lines behind them:
Bun's file writer starts at the head of the file, and whether it truncates is left
open. Each of the four sources of a feed logs `feed.loaded` at its own place.

`HookCli` has the keychain (`token`, the `probe` that a store writes to see
whether it may), what is `up`, and a `proc` per command line. The health check
asks feed, store and registry at three times and keeps the store's answer. A
runtime without `Bun.secrets` is a keychain that does not answer.

### AuditSqlite

`Setup` is a build, a config and an environment, from which `CreateDomain` works
out the backend and the key (`sinks`). `rows` is the table: an insert is atomic,
but a call may die before it, fail, or be acknowledged (`calls`, `acked`).
`AddThumbnail` is `INSERT OR REPLACE` of an entry a process already stored.
`Stream` sorts what decrypts by the time of the decision; `tail` counts it.

### OperatorShell

`registry`, `context` and `service` are the three things the shell may have from
three different loads of the `domainFile`s; `Prompt` reloads the registry,
`UseService` makes the service unless there is one for the domain. `step` is the
prompt, an interactive scan with its PTY (`StartScan`, `ToolEnds`, `RecordScan`),
`audit tail` (`FollowLog`, `StopFollowing`), a server, or an exit. Every command
of the REPL is an action, those that only print as what they reload. `trail` is
what the audit files hold, `named` history.

### ToolRuns

Per tool a `child` that prints into a pipe of `Buffer` portions, exits or is
killed, and the `call` of `spawnCaptured` that waits for the exit, then reads.
The runtime may drain the pipes ahead or not (`reads`). `Timeout` and `Abort` only
send the configured signal (`sent`), the timeout once; `SignalFells` is its effect,
which may never come of SIGTERM. A child that ended may have left a process behind
that has its pipes (`held`, until `PipesClose`), and `ReadPipes` waits for that.
`AllOver` is `Promise.all`.

### QrCache, CsrfSecrets

`QrCache` cuts `sp qr` at the token (two names are asked at once), the lookup in
the cache, and the three files that a save opens and closes: image,
index (read, merged, rewritten), the domain's mapping. `held` and `overlapped` are
history.

`CsrfSecrets` has the `secret` in the keychain, the `promise` of a security
context that the registry has `cached`, `services` that share it, and a
`clientToken`. `Reload` drops the registry's contexts; a service keeps what it
was made with. `since` is history.

### FeedSocket, FeedSource

`FeedSocket` is `loadWebSocketFeed`: messages on their way, the `chunks` it
parses again as a whole after each one, the timer, and what `settled` the promise
first. `FeedSource` is the dispatch of `loadThreatFeed`: local file, default
rules, WebSocket, DNS inspection, cache or plain fetch, and `streamJSONLFeed`,
whose `pieces` end anywhere in a line. `Payload` and `ParseChunk` say what the two
parsers make of what they hold.

### Doctor, ScanCommands

`Doctor` has the `file`s and `vault`s, which may change at every step, and a
`doctor` per process, cut at every await: it reads a file as text
(`ReadPublicFile`), asks for its private file (`CheckPublic`), reads the file again
to load it (`LoadConfig`) and then the private file, the key and the store of the
vault which that names, one by one (`LoadInventory`, by `ReadVault`), reads the
private file, the store and the key of the vault named at first (`CheckPrivateFile`,
`CheckEncryptedStore`, `CheckMasterKey`), and asks for the CSRF secret
(`CheckRest`). A report has errors, warnings and what the config was made from, as a
page of the snapshot has; the warnings and the matrix that depend on flags, terminal,
environment and system are in the `setting` of a run. Then the `snapshot` index is
compared, opened (truncated) and closed.

`ScanCommands` uses the same files: loads of all of them at once, each with the same
reads (`LoadDomain`, `LoadDomainInventory`), chunks as `Promise.all` over Workers, each
of which checks, read by read (`CheckLoaded`, `CheckFile`, `CheckExists`,
`CheckMetadata`, `CheckStore`), or fails by itself. The history `seen` and `scanSeen`
is the set of trees there were since a command began.

### TlsScan, WebReport

`TlsScan`: the store of CAs changes, its cached list ages, and an `inspection` reads
the list up to three times (default of the flag, connection, profile). `recentCAs`
is history: what the store held since the cached list was read, or the inspection
began if that was earlier.
`WebReport`: a `page` that a build rewrites, the `report` with its steps, the
`view` (browser), and the `temp` directories, which a kill leaves behind.
`ScanHtml` and `Deduped` are the search of a page and the removal of
repetitions, by chunks of a script as the HTML parser hands them out.

## 4. Runs

`MC*` modules give the constants their values. In every instance the names are
few and their order of magnitude is the smallest at which the case of interest
occurs; the bounds on external events (`MaxWrites`, `MaxTime`, `MaxTorn`,
`MaxChanges`, `MaxDomains`, `MaxHost`, `MaxCrashes`, `MaxScans`, `MaxPublished`,
`MaxRepublished`, `MaxVerdicts`, `MaxOutages`, `MaxCalls`, `MaxPolls`, `MaxEdits`,
`MaxRotations`, `MaxKills`, `MaxLocks`, `MaxFileChanges`, `MaxDoctorKills`,
`MaxKeyChanges`, `MaxMessages`, `MaxStoreChanges`) are guards of the actions they
bound and of nothing else. `MCCommands` has two bounds of its own: `MaxMishaps` on
how many crashes, key changes and loads meet in one behaviour of the migration, and
`MaxBustle` on how many edits, kills and runs meet at the doctor.

| Run | Module, cfg | Shows |
| --- | --- | --- |
| `sp_start` | `MCSpStart`, `SpStart.cfg` | `SecurityCoherent`, `ServiceCoherent`, `ReloadsConverge` (unless reloads of one file overlapped), `ReloadsStayInTheirFile`, `ChangesArrive` |
| `hot_reload` | `MCSpStart`, `HotReload.cfg` | *violated*: overlapping reloads leave the registry on older content |
| `feed_cache` | `MCFeedCache`, `FeedCache.cfg` | `RateBound`, `ServedRecent`, `FetchedIsCurrent` |
| `cache_isolation` | `MCFeedCache`, `CacheIsolation.cfg` | *violated*: feeds that share a configured `cachePath` mix |
| `audit_log` | `AuditJsonl`, `AuditJsonl.cfg` | `TailHasNoGaps`, `ImplementsLog`, `TailCatchesUp` |
| `audit_torn` | `AuditJsonl`, `CorruptionIsLocal.cfg` | *violated*: an acknowledged entry after a torn write is lost |
| `watch_scan` | `MCWatchMode`, `WatchMode.cfg` | `AllowedMeansCleanOneRule`, `LogHoldsItsScans`, `OneScanAfterStop`, `ReturnedMeansRecorded`, `ChangesAreScanned` |
| `parallel_match` | `MCWatchMode`, `ParallelMatch.cfg` | *violated*: with workers, a second rule for a package is dropped |
| `install_hook` | `MCInstallHook`, `InstallHook.cfg` | `FeedIsGenuine`, `ReportedMeansBlocked`; `HookCommandsHold` (`HealthIsTrue`, `ProbeIsSwept`); `SqliteLogHolds` (`AckedRowsStay`, `TailMissesOnlyTheLate`) |
| `sp_commands` | `MCCommands`, `Commands.cfg` | shell: `EveryScanIsAccounted`, `PromptHoldsNothing`; tools: `ToolsAreReported`; vault: `InventoryNeverLost`, `LoadNeverWrong`, `MigrationConverges`; QR: `QrCommandsHold` (`QrIsCurrent`, `IndexIsWhole`); secrets: `PassedMeansEntitled`; doctor: `CleanExitMeansClean`, `UnchangedIsQuiet`; feeds: `FeedLoadsHold` (`FeedIsWhole`, and every socket settles); scans: `CleanScanMeansClean`; TLS: `PassedMeansTrusted`; reports: `ReportIsHonest` (`PassedPageIsClean`, `BrowserIsSwept`) |
| `cached_scan` | `MCInstallHook`, `CachedScan.cfg` | *violated*: the refresh behind a cached scan exits the process |
| `event_log` | `EventLog`, `EventLog.cfg` | *violated*: `feed.loaded` follows the `scan.complete` of the last scan |

Why the bounds are enough:

- `sp_start`: two files, one of which may be written with two ids; two reload
  slots are two overlapping reloads, and three writes let one of them start
  before, one between and one after the steps of the other.
- `feed_cache`: two calls overlap in every way two can; a TTL and a window of
  one tick put their boundaries inside the three instants of the clock; one
  retry is a first and a last attempt. One URL is enough but for isolation,
  where the second run has two.
- `audit_log`: three records in two processes: one torn, one swallowed, one
  after; two torn writes in a row; two polls, one of which ends late. Records,
  processes and polls are interchangeable, but symmetry is not sound for the
  liveness property that the run also checks, and is not used.
- `watch_scan`: `Threshold` is 2 rather than 8, so that lists of one package
  match in one piece and lists of three match in two chunks of unequal length.
  Feeds have a rule that two rules name, a range that is missed, and an
  allowlist entry. Two slots are one scan more than watch mode ever runs:
  `TypeOK` says that they never overlap.
- `install_hook`: two slots are two scans, or a scan and a refresh, and a cache
  left by an earlier process takes the part of a third scan. The feeds differ in
  rules with and without hashes; two versions of one package share a rule. Two
  commands share the keychain, and one outage and its end fall between any two of
  their questions. Two entries can be stored in the order they were decided or in
  the other one; two processes with two keys, one append under way at a time, since
  an insert is atomic and two of them only differ in their order; two polls.
- `sp_commands`: the programs share no state but the files and the keychain that
  each of the modules has, so that a behaviour runs one of them.
  *Shell*: two edits are one before and one after a service is made; one scan, with
  one thumbnail, is recorded once, twice or not at all. *Tools*: two, with a pipe of
  one portion and two to print, so that a child can fill its pipe. *Vault*: two files,
  since a file that cannot be read stops the migration of those after it, four
  keys, one crash, the run after which finds the half-done work, and two changes by
  `master-key`, a delete and an init; two of crash, change and load may meet.
  *QR*: two domains, two commands, one token replaced, one process killed.
  *Secrets*: two services, one made before and one after a rotation, two sessions.
  *Doctor, scans*: two files and two processes with two settings; two changes of files
  or vaults fall between any reads, so that a file and the vault of another one that
  were never there together may be judged as one, and one kill into the write of the
  index; one run has both with it, a second one after it leaves one, and one beside it
  none (`MaxBustle` is 4).
  `--workers` is one, two, or no number (0). *Feeds*: three messages are a document in two parts with
  another between them; three lines of two pieces each. *TLS*: two changes of the store
  empty and refill it. *Reports*: four pages, one for each kind of finding.
- `event_log`: two scans are one that leaves a refresh, and one that ends before it.

Deadlock is not checked: every modelled program comes to rest, after an exit or
when a bounded number of records, changes or scans have all come. What must not
hang is stated as liveness instead.

### Fairness

Safety runs have none. Each liveness run assumes what the event loop gives and
no more: timers fire and settled promises are continued.

- `SpStart`: weak fairness of `DebounceOver` and `Reload`. Nobody has to edit a
  file, ask for a context or interrupt.
- `AuditJsonl`: the interval keeps firing (weak fairness of starting some poll),
  and a poll does not fail for ever (strong fairness of `EndPoll`, which competes
  with `PollFails`). Appends need not happen.
- `WatchMode`: sleeps end and `package.json` is read. A fetch, a worker and an
  append may hang; `ChangesAreScanned` does not need them.
- `VaultMigration`: a migration runs to its end or dies (weak fairness), and the
  keychain does not refuse to store for ever (strong fairness of `SetKey`). That the
  operator runs it with `--force` again and again is the hypothesis of
  `MigrationConverges`.
- `ToolRuns`: a timer that is due fires, an exit is noticed, a pipe that nobody holds
  is read to its end, and SIGKILL ends a child. No child has to print, to exit or to
  heed SIGTERM, and nobody has to let go of a pipe: `ToolsAreReported` names the child
  that defies SIGTERM for ever and the pipe that is held for ever as its exceptions.
- `FeedSocket`: callbacks that are due are called, the timer's among them. The
  server has to do nothing.

In `sp_commands` each of these three speaks of its own module's variables, so
that it says nothing about the other programs.

### Where code and documentation disagree

1. `hot_reload`: `registry-watch.ts:43` promises hot reload; nothing orders two
   reloads of one file (`registry-watch.ts:127`).
2. `cache_isolation`: `tests/provider/cache.test.ts:138` says the cache isolates
   domains; a configured `cachePath`, which the defaults set, is shared
   (`cache.ts:39`).
3. `audit_torn`: `encrypted-jsonl-sink.ts:13` says corruption stays in its line;
   the next append shares the torn line (`:44`).
4. `parallel_match`: the merge of workers' matches is by package and keeps one
   rule (`parallel.ts:71`), which sequential matching does not.
5. `cached_scan`: `README.md:298` says a token problem does not fail the scan,
   `index.ts:558` ignores errors of background refreshes; `index.ts:251` exits.
6. `event_log`: `tests/logging/events.test.ts:52` says `scan.complete` is the final
   event; a refresh that ends later reopens the writer (`index.ts:930`).

Met on the way, and in the models, without a run of their own:

- `--workers` that is no number makes chunks of nothing: no domain is checked and
  the exit code is 0 (`domain-parallel.ts:79`). `CleanScanMeansClean` excludes it.
- A screenshot without an output path is made in a directory that is removed
  before the caller sees it (`webview.ts:105`; `:23` says where it will be).
- The follower of a database leaves out an entry stored after one that was decided
  later (`encrypted-sqlite-sink.ts:75`). `TailMissesOnlyTheLate` says that it leaves
  out nothing else.
- A line of a streamed feed that is no JSON loses the lines after it
  (`feed-jsonl.ts:98`), one of a file only itself (`:30`).
- `master-key init` over a keychain that throws when it is read and then stores
  (`config/master-key.ts:44`, `cli/master-key.ts:63`) replaces the key of a whole vault,
  which a load then finds empty. `InventoryNeverLost` and `LoadNeverWrong` name such a
  vault (`unkeyed`) as their exception.
- A child that handles SIGTERM, or whose offspring keeps its pipes, keeps the results of
  all tools back (`process.ts:424-438`): there is no second signal.
- With a list of CAs that was empty at the connection and is not at the profile, a server
  that the runtime vouches for passes as trusted by the system (`inspector.ts:68-163`).
- `csrf rotate` reports that all existing tokens are invalid (`csrf.ts:36`); a
  service keeps the secret it was made with. `PassedMeansEntitled` is what holds.

## 5. Proofs

TLAPS checks these for every value of the constants that satisfies the modules'
named assumptions (ids per file, sentinels that are no values, bounds that are
naturals).

`SpStartProofs`, about `sp start --watch`:

- `TypeCorrect`: `Spec => []TypeOK`. `TypeOK` is inductive: it ties a task's
  fields to its program counter (a path exactly when it is busy, a result of its
  own file exactly when it is about to enter it). One lemma per operation of the
  registry.
- `SecurityNeverStale`: `Spec => []SecurityCoherent`. Whoever writes
  `domains[d]` during a reload drops `security[d]` in the same step, but entering
  the results of `loadAll()` drops nothing. So the invariant `IInv` adds that
  until the load is over the registry is empty (`EmptyWhileLoading`), hence no
  context can have been asked for, and that until the watcher is armed no timer
  is set and no reload in flight (`Quiet`).
- `ServiceNeverMixed`: `Spec => []ServiceCoherent`, from the same `IInv`. The two
  reads of the config are apart; `Quiet` keeps `domains[Served]` as it is while
  the service starts, and `BoundToRegistry` says that what it is bound to is
  still what the registry holds.
- `ReloadsOwnTheirFile`: under `UniqueIds`, `Spec => ReloadsStayInTheirFile`,
  from `IInv` and `OwnIds`: every config anywhere (on disk, read by the loader,
  in the registry, in a reload's `previous` and `read`) has an id of its own file
  and stands under that id.
- `ReloadsReachTheRegistry`: under `UniqueIds`, `Spec => []ReloadsConverge`. That
  the registry has what the disk has once all is quiet is no invariant of what
  comes before; `ConvInv` says of every file whose reloads did not overlap that
  there is one reload of it at most, that this reload knows what the registry
  holds of the file (`previous`), and that it has read what is on disk unless a
  timer waits for a later change (`Knows`).

`FeedCacheProofs`, about the cache of remote feeds and the limiter in front of it:

- `RateNeverExceeded`, and `CacheKeepsRate` for the limiter as the cache uses it:
  every window holds at most `MaxAttempts` granted attempts. Neither the queue nor
  the history alone is inductive: `LimiterInv` says that the queue is the tail of
  the history (`IsTail`), that what it no longer holds is a window or more old
  (`ForgottenAreOld`), and that nothing lies in the future (`PastOnly`). When the
  queue has room, the attempt that came `MaxAttempts` earlier is among the
  forgotten.
- `CacheTypeCorrect`; and `CacheServesRecent`, `NetworkIsCurrent`, under
  `AlwaysTagged` (a 200 has an ETag) and `OwnFiles` (no two URLs share a file),
  without which both are false (section 4). A store is no better than the calls
  that write it, so `CacheSound` says of every entry, in Redis, in a file or in a
  call, that its tag belongs to its data and that the data was confirmed no
  earlier than the entry says.

`AuditProofs`, about the encrypted log:

- `TypeCorrect`, and `SinkIsALog`: `Spec => ImplementsLog`, a step of the sink is a
  step of `AuditLog` or leaves it as it is. `SinkInv`: an entry waits in one chain,
  once, or was written, once.
- `FollowerLeavesNoGaps`: `Spec => []TailHasNoGaps`. The polls end in any order, so
  that the count goes back and forth; what is inductive is that every poll read
  what the file began with (`TextsAreOld`) and that all that is counted was printed
  (`CountedIsPrinted`), as long as no line is half written.

`HookProofs`, about what `MCInstallHook` puts together:

- `DatabaseKeepsItsRows`: `SqliteSpec => []SqliteLogHolds`. An append that has not
  stored yet is the only one of its entry, one with a thumbnail has the key of the
  row it replaces (`CallsSound`), so that a replacement never hides a row from its
  readers. Reads of a table that only grows are nested, and the one that ended last
  was printed but for what came late (`TailSound`); `PlacedBehind` says that a new
  entry is placed behind what was counted unless something in front of it is new.
- `CommandsHold`: `HookSpec => []HookCommandsHold`. Every answer of a health check is
  about something that was, or was not, within reach since it began (`HealthSound`).
- `ScansGoByPublishedFeeds`, `ScansReportWhatIsBlocked`: `FeedIsGenuine` and
  `ReportedMeansBlocked` of `Spec`. `InstallInv` follows a feed from the reply to the
  cache and from there to a scan (`FeedSound`, `CacheSound`), and says of the threat
  that is being verified that those before it are judged and the packages before its
  next one cleared (`VerdictsSound`). `ProgramsTypeCorrect` is `MCTypeOK`.

`MatchProofs`, lemmas about the operators of `ThreatMatch` that the hook and the
supply-chain domain share. `Filter` is stated with ranks, since tlapm cannot expand
`SelectSeq`; that every rank has one position is the pigeonhole principle
(`RankIsOnto`), from which nothing that was asked for is lost (`FilterHasAll`) and a
set of positions has a least one (`LeastPosition`). `ChunksFit` is the arithmetic of
`chunkPackages`: chunks of ceil(n / w) leave no package out, whatever n and w.
`MergeKeeps`: the merge by package keeps a match of every package that some match
names. `MatchesFound` puts them together; `ScanReports` adds the policy, the override
that wins (`FirstMatchWins`) and the dry run.

`WatchModeProofs`, about watch mode and the supply-chain domain:

- `WatchTypeCorrect`, which says with the types that no two scans are under way: the
  flag `scanning` is set by whoever starts one, and cleared by the same.
- `LogsHoldTheirScans`, `ReturnedScansAreRecorded`: `LogHoldsItsScans`,
  `ReturnedMeansRecorded`. `CallSound` says how far each call has got in the buffer
  and in its log; since the host's calls disturb every scan under way, and no other
  scan is, an undisturbed one finds its decisions at the end of both.
- `AllowedPackagesAreClean`: `Spec => []AllowedMeansCleanOneRule`. The invariant is
  that what a call has found is the scan of its own packages, provider and feed
  (`CallJudged`), which no activation, no published feed and no other call changes;
  that such a scan has an advisory on a package exactly when it is flagged is
  `ScanFindsFlagged`. It needs that a list names a package once, as an object read
  from `package.json` does (`NamesOnce`): of a package with two versions an advisory
  names the first.
- `OneScanStartsAfterStop`: `OneScanAfterStop`, from `StopSound`: once a scan started
  after the stop, the only generation that may start one has been used.

`CommandProofs`, about the commands that change or judge the operator's files:

- `QrCodesAreCurrent`: `QrSpec => []QrCommandsHold`. A command's token is one that its
  domain had since it began (`CommandTyped`), a whole image has the token it is named
  after (`ImageTyped`); and as long as saves did not overlap and none was killed, the
  one that is at the index has read what the index holds (`IndexInv`).
- `PromptIsClean`, `ScansAreAccounted`: `PromptHoldsNothing`, `EveryScanIsAccounted` of
  `ShellSpec`. `ViewInv` says for each state of the shell which services are open, which
  handlers installed, and that the service writes to a file its domain has named since
  it was chosen; `LogInv`, that a scan is in no log until it is recorded and then in one
  place (`PendingScan`, `SettledScans`).
- `PassedIsEntitled`: `CsrfSpec => []PassedMeansEntitled`. What a shared context holds, or
  will, is a secret of each service that waits for it (`ServiceHolds`).
- `CleanExitsVouch`, `NoFalseAlarm`: `CleanExitMeansClean`, `UnchangedIsQuiet` of
  `DoctorSpec`. `Witnessed` has, for everything a doctor remembers at any step of a
  file's check, the versions of files and vaults it was read from (`SeenRaw`,
  `SeenLoading`, `SeenPrivate` and so on); `Steady` says that where nothing changed since
  it began, what it has found so far is what it would find of the disk now
  (`ExpectedLoading`, `ExpectedJudging`) and its reports are a function of the disk and
  its setting (`ReportOf`), as those of a whole snapshot are of the disk when that was
  begun (`SoundSnapshot`).
- Of the migration, `master-key` and a load beside them: `VaultTypeCorrect`; `InventoryKept`,
  `LoadsNeverWrong`: `InventoryNeverLost`, `LoadNeverWrong`. What a migration has done
  of its file when it comes to a step:
  the public file keeps its inventory up to its own rewriting (`PublicLast`), the
  store is whole before that and made with the key in the keychain (`StoreFirst`), and
  a vault that was there before a key was set is marked (`MarkedReplaced`). A stripped
  file has a whole vault with its key or one that lost it (`VaultWhole`), and only a
  whole vault ever loses its key (`UnkeyedVault`), which a migration by force makes
  good. A load remembers what it read at four times (`LoadSound`).

`ScanProofs`, about the commands that scan:

- `CleanScansVouch`: `ScanSpec => []CleanScanMeansClean`. That no file is left out needs
  that the chunks cover them, whatever the number of workers (`ChunksHaveAll`), and that
  the order they come in has them all (`OrderHasAll`, a pigeonhole argument again).
  `Halfway` says that a file is checked or in a chunk that is left; `HalfLoaded` and
  `HalfChecked` say of a load or a check between two of its reads what it has seen and
  when, and `DomainVouched` what is left of that once both are over.
- `PassedIsTrusted`: `TlsSpec => PassedMeansTrusted`, an action property. `TlsInv` says
  that the cached list, and the one that an inspection was begun with, are contents that
  the store had since it was read or the inspection began (`RecentlyRead`).
- `ReportsAreHonest`: `ReportSpec => []ReportIsHonest`. `Sweeping` says at which steps there
  may be a browser and directories.
- `FeedsAreWhole`: `SourceSpec => []FeedIsWhole`, the safety half of `FeedLoadsHold`. `Streaming`
  says that the parser is through with the whole lines of what arrived, up to one that is
  no JSON.

The specifications of single commands (`QrSpec` and so on) are the parts that `MCCommands`
puts side by side. At the end of `ScanProofs` they are put together:

- `CommandTypes`: `Spec => []TypeOK` of `MCCommands`. The types need bounds that the
  invariants above do not (`ShellBounds`, `QrBounds`, `CsrfRest`, `DoctorBounds`,
  `SourceBounds`, `ScanFields`); the child processes and the socket, whose properties are
  about liveness, get their types here (`ToolGoesOn`, `SocketGoesOn`). That a stream is
  read no further than its end rests on the number of lines its pieces can give
  (`FewerLines`).
- `CommandsKeepTheirWord`: all of the safety properties above, of the specification that
  `sp_commands` checks, whatever its bounds (`MaxMishaps` and `MaxBustle` are constants
  without an assumption). A step of one command is none of another (`EachIsSeen`) with one
  exception: scans and the doctor have the same files. An edit during a scan is a step of
  the doctor's world (`ScanStepIsSeen`), and where the doctor runs no scan has seen
  anything (`NothingToForget`).

Assumptions on constants are those the modules name: sentinels are no values, bounds are
naturals, a list names a package once, rules and overrides are sequences, `FirstFiles` is
a sequence of configs, `Config` of the shell has an interactive one with a log, there is a
domain to ask a code for, and a body and a setting to load a feed with, and a `Key` is left
when three are in use. `UniqueIds`, `AlwaysTagged` and `OwnFiles` are hypotheses of the theorems
that need them.

Only model-checked:

- the liveness properties (`ChangesArrive`, `TailCatchesUp`, `ChangesAreScanned`,
  `MigrationConverges`, `ToolsAreReported`, the sockets of `FeedLoadsHold`), which rest on
  fairness and `ENABLED`;
- that the runs of section 4 that expect a violation find one.

## 6. What is not modelled

- Wall-clock time beyond ticks of `FeedCache`; the lengths of debounces, sleeps
  and back-offs.
- Cryptography, parsing, validation: a line decrypts or not, a body is a feed,
  JSON that is none, or no JSON. The patterns that texts and pages are searched
  for, and the hundred checks of a config's fields, are data: a text is what they
  find in it, a file is where its error lies.
- In the registry: `unwatch()`, which only tests call. In the feed cache:
  `clearCache`, which only tests call. In the JSONL sink: `parseChunk`, which nothing
  calls. The unencrypted SQLite sink, which only tests construct.
- In watch mode: source scanning and external tools, which it does not use. An
  advisory names the first version that matches only (`provider/index.ts:118`,
  `supply-chain.ts:226`), so the lists of `WatchMode` have each name once.
- In the vault: two commands at the same time, and the legacy `inventoryFile` (which the doctor's
  files have).
- In CSRF: cookies, ages and encodings; `Bun.CSRF` itself is external. In the
  service: routes, TLS and HTTP/3 options.
- Printing, tables, colours and badges, and the CLIs that do nothing else.
