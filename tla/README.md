# 3dPrintPilot in TLA+

TLA+ modules, TLC configurations and TLAPS proofs for the parts of 3dPrintPilot whose
correctness depends on the order in which things happen: request threads that overlap on the
same database rows, background helpers, devices that move on the LAN, threads that wait for each
other.

    tlc -config MCBrowserLink.cfg MCBrowserLink     # model-check one instance
    tlapm PrinterInventoryProofs.tla                # check the proofs of one module

## 1. Inventory

The program is a FastAPI backend (`src/backend`) over PostgreSQL with SQLAlchemy, a React
frontend (`src/frontend`), a stand-alone accounting package (`src/local_ai_accounting`) and
scripts (`src/scripts`). Nearly all route handlers are plain functions: FastAPI runs each in a
thread of its own, each with its own SQLAlchemy session (`core/database.py`, autoflush off). So
every two requests overlap, and what they share is the database, a few process-wide objects
(throttle, browser link sessions) and the outside world.

| Component | State | Operations | Hard part | What makes it correct |
|---|---|---|---|---|
| Printer inventory (`printers/store.py`, `identity.py`) | `printers`, `network_scan_results` | create, update, delete, scan, confirm | stale sessions, several findings for one row, devices that move | one row per device; identities kept; results name saved printers; the endpoint an admin confirmed is kept |
| Bambu LAN credentials (`printers/credentials.py`) | credential column, `provider_secrets` | configure, remove (and retype, scan, delete) | two rows changed by one request, partial UPDATEs | a row never names a secret that is gone; a configure that succeeds takes effect |
| LAN discovery (`printers/service.py`) | none | scan, probe known printers | late probes, deadlines | a scan reports only what answers |
| Printer telemetry (`printers/bambu_mqtt_adapter.py`, `adapters.py`) | one MQTT connection per fetch | connect, subscribe, read until a report | any packet at any time, a printer that never stops sending | a status is one the printer was in; every fetch ends |
| Request throttle (`site_scanning/runners/throttle.py`) | next allowed time per host | wait | check and reserve, sleeping outside the lock | requests keep their distance, everybody gets to send |
| Browser login link (`site_scanning/browser_link.py`, `scripts/site-auth-browser-link.mjs`, `useModelSourceAuth.ts`) | session objects, helper process, result file, page | start, capture, poll, expire | no lock, a file and a process observed one after the other, polls that come late | only captured sessions are stored; expired helpers stop; the page settles |
| Site accounts and adapters (`site_scanning/store.py`, `routes.py`) | `site_auth_profiles`, `site_adapters` | upsert, capture, delete; synchronise, list, toggle | upserts from stale rows, columns that are not written | an account shown as linked can be used; a toggle stays |
| Site crawl (`site_scanning/service.py`) | queue, visited set, best candidates, saved run | crawl, save | limits that interact, pages that link back | each URL once at its distance, the best candidate of a model, a true stop reason |
| Users and sessions (`users`) | `users`, `user_sessions` | bootstrap, login, guards, status, logout, change password | guards that are open while nobody exists; SELECT and UPDATE of a session apart | the open window closes; a logged-out token passes no guard |
| Key file and provider secrets (`core/secrets.py`, `settings/store.py`) | key file, secret rows | load or create the key, save, read and delete a secret | creation and write are apart, kills | one key for everything that was ever stored |
| Model library (`models`, `resources/store.py`) | models with their files, payloads, geometry, job | upload, import, analyse | two commits a file, many files a request | what is stored is a prefix of what was asked for |
| Compatibility (`compatibility`) | reports | check a model or the candidates of a scan against printers | unknown values; a commit between two printers; models whose geometry is not there yet | verdicts hold whatever is unknown; reports describe printers as they are |
| AI budget, reconciliation (`ai`, `local_ai_accounting`) | `ai_usage_events`, `ai_cost_reconciliation_runs` | paid or local request, reconcile | check and record; two commits; runs that overlap | the overspend is bounded; final costs, runs and statuses agree; failed runs are closed |
| Resource gate, work queue (`resources`) | counters, queue, jobs | admit, enqueue | none that runs: see section 6 | |
| Operations, health, migrations, frontend, scripts | | | none | |

`PROJECT.json` lists the components with their sources and, under `hazards`, what in this code
is hard to test, each at its line.

## 2. Modules

    RequestSlots          abstract: what the throttle promises
      RequestThrottle     wait() statement by statement
    BambuTelemetry        one MQTT fetch, packet by packet
      MCRequestThrottle   composes both: what leaves the machine   -> OutgoingProofs
    PrinterCredentials    rows, secrets, sessions
    UserSessions          users, sessions, guards
    KeyFile               key file, ciphers, a secret
    ModelLibrary          imports, uploads, checks                 -> LibraryProofs
    SiteAccounts          account profile, adapter record
    CompatibilityRules    the verdict, no state                    -> LibraryProofs
      MCBackend           composes these six: the backend's stores -> BackendProofs
    PrinterInventory      rows, scan results, LAN, sessions        -> PrinterInventoryProofs
    BrowserLink           sessions, helper, file, row, page        -> BrowserLinkProofs
    AiAccounting          events, runs, sessions                   -> AiAccountingProofs
    SiteCrawl             queue, visited URLs, saved run           -> SiteCrawlProofs
    DataLemmas            induction, recursion, bounded sequences, for the proofs
    MC*                   instances for TLC

Some operators (`CreateKeyFileTruncating`, `SyncAdapterWhole`, `ReadReportForever`, ...) are in
no next-state relation: each is the form a definition would have with a plausible bug in it, and
`PROJECT.json` (`mutants`) says which property TLC then finds violated.

**How a database request is modelled.** A request is a record that holds what its SQLAlchemy
session has loaded (`loaded`) and what it has changed that to (`now` or `edited`). A SELECT and
a commit are separate actions, and anything another request commits may come between them. The
flush writes only columns that differ from what was loaded (`Flushed`), as SQLAlchemy does, to
the row as it is at that time; an UPDATE of a row that is gone, a unique index and a foreign key
roll the request back. Nothing of this is in the repository: those definitions are marked
external and follow from how the code uses the library. Ids come from a sequence and are not
used twice.

**PrinterCredentials.** `CreatePrinter`, `DeletePrinter`; configure as `BeginConfigure` (load
the row, 409 unless Bambu), `ReadSecretToConfigure` (the second SELECT), `CommitConfigure` or
`RollbackConfigure`; remove in the same three steps; `BeginRetype` (PUT with a printer type) and
`BeginRefresh`, `MatchRefresh` (scan) because they write the same row. The JSON column
`capabilities` is one value: an engine and a device id.

**PrinterInventory.** A scan is `BeginScan` (whatever part of what answers), `ListKnown`, one
`ProbeKnown` per saved printer, one `MatchFinding` per finding, then `CommitScan` or `Rollback`.
Findings of one scan are matched in any order. A confirmation is `LoadConfirm` followed by
`CommitRow` or `CommitConfirmNew`; an update is `LoadUpdate` and `CommitRow`. `MoveDevices`
gives the LAN any other assignment of addresses at any time. `UpdateKnown` is
`_update_known_printer_from_discovery` as an operator.

**RequestThrottle.** The lock, the read of the clock, the read of the dictionary, the write and
release, the sleep, the wake-up and the send are steps of a thread. `slots` and `sent` are
history. `RequestSlots` is the specification in terms of granted slots alone: a slot may be
granted to a host once it keeps the interval of every earlier one. `Schedule == INSTANCE
RequestSlots WITH Hosts <- Hosts, Intervals <- Intervals, slots <- slots` is the refinement
mapping and `ImplementsSchedule == Schedule!Spec` what is checked and proved: `Reserve` is a
grant, every other step of `wait()` a stutter.

**BambuTelemetry.** One fetch: `BeginFetch` (credentials and device id, or an answer without a
connection), `Connect`, `RequireAck` twice (CONNACK, SUBACK), `ReadReport` (a report on the
printer's own topic; any other packet is passed over, up to the number of reads in the code),
`Fail` for a socket timeout, a refusal or a closed connection. `SendPacket` lets the printer and
its broker put any packet on the wire, also a report of another printer; `ChangeState` lets the
printer change its state after a report has been sent. `NormalizeBambuState` is the code's table
from the printer's words to the program's.

**BrowserLink.** Handlers share the session object without a lock, so each test and each
assignment of `session.status` is a step (`CheckCapture`, `SetCapture`, `CheckExpiry`, `Expire`,
`Terminate`, `ReadResult`, `PollProcess`, `Fail`, `Snapshot`). `GetProfile`, `Reload` and
`CommitUpsert` store the cookie. The page issues polls, forgets the ones in flight when its
state changes (`wanted`), and ignores errors. `BeginPut` and `DeleteProfile` are the admin's own
edits.

**AiAccounting.** A paid request is `EnforceBudget` (the SELECT of the month's sum, the limits,
the call) and `RecordUsage` (the commit); anything may happen in between. A reconciliation is
`BeginReconcile`, `CreateRun`, `FetchCosts`, `Allocate`, one `LoadEvent` per event, then
`CommitEvents` and `CompleteRun`; it ends in `FailRun` when the provider raises, and in
`FailRunBroken` when the flush has raised and the session refuses further work. `Restart` cuts
everything short. Costs are counted in the least unit of the `Numeric(12, 8)` columns
(`ColumnLimit` is their largest value). `Shares` is the allocation of `reconcile.py`: every
share is rounded, the last takes what is left. A tie may be rounded either way, since the code
rounds a quotient that has itself been cut to 28 digits.

**SiteCrawl.** One scan, one action per turn of the loop: `StopAtPages`, `StopAtRuntime`,
`RejectEntry`, `ScanPage`, `FetchFails`, and `Finish`, `Save` at the end. The web is not a
constant: what a page offers is chosen when it is fetched, as a web that changes under the crawl
would. An adapter's result is its candidates and its links, `Offer`. Scans share no state, so
one is enough.

**UserSessions.** A request of a route is `BeginGuarded`, `CountUsers` (no user: the guard is
open), `SelectSession`, `TouchSession` (the UPDATE of `last_seen_at`, which fails when a logout
has removed the row), the handler, `EndHandler`. Bootstrap, login and password change each have
their SELECT and their commit as steps, because passwords are verified in between; `Logout` is
one step, since it issues one DELETE. `thread[t].early` remembers that a request came in before
the first user was committed. `InsertAccount` stands for the admin's way of adding users outside
these routes.

**KeyFile.** `LookForKeyFile`, `CreateKeyFile` (exclusive: of those that found nothing, one
creates it), `WriteKeyFile` (when the file is closed), `ReadKeyFile` (an empty file is refused
as the code refuses it), then `LoadSecretRow`, `CommitSecret`, `DeleteSecret` and `ReadSecret`
with the cipher. `KillProcess` stops every thread at any point and leaves the file as it is. A
key is a value that is never generated twice.

**ModelLibrary.** An import is `BeginImport`, `DownloadFile` per file, `DownloadsDone` or
`DownloadFails`, then for each file `RefuseFile` (the parser does not understand it), or
`CommitModel` (`enqueue_job` commits model, file, payload and job) and `CommitGeometry`;
`AnswerCreated` ends it. An upload is the same with one file; its route is `async` and awaits
nothing between its commits, so two uploads do not overlap there, but an upload and an import
do. `CommitFails` and `KillLibrary` stop it anywhere. A check is `BeginScanCheck` or
`BeginModelCheck`, `LoadRequirements` per candidate, and `CheckPrinter`, `SaveReport` per
printer. Other requests edit and delete printers meanwhile (`EditPrinter`, `DeleteLanPrinter`):
sessions keep what they have loaded until a commit of their own expires it, which is why a
report can be old for one commit and not for two.

**CompatibilityRules.** `CheckCompatibility` is `check_compatibility` with the eleven items of
the code, its material table, the conversion of a printer row to capabilities and the roll-up.
`SoundVerdict` holds it against a definition that knows no items: a set of values for everything
unknown, and what can be printed for each of them.

**SiteAccounts.** `BeginPut` and `CommitPut` are an upsert with the row it has loaded (`base`)
and the row it wants; the UPDATE writes the columns that differ (`Differs`). `BeginCapture` is
the login link's upsert. `LinkStatus` is `readiness_for_site`, `SentAs` is
`auth_context_for_site`. `BeginAdapters`, `SyncAdapter`, `ReloadAdapter` and `CommitToggle` are
the registry: every listing synchronises it with the declarations of the program.

**MCBackend and MCRequestThrottle** put components side by side that share no row. A behaviour
chooses one at the start (`running`) and leaves the others as they are, so nothing is said about
one that the module alone would not say; the interleaving of independent components would only
multiply states. `MCBackend` runs the library twice: with two importers and no printers
(`"imports"`), and with one importer next to the checks (`"library"`). The cases of the rules
are initial states. The interactions that do exist are inside a module: imports and checks, the
login link and the profile row, credentials and scans.

## 3. Runs and bounds

| Run | Instance | Shows |
|---|---|---|
| backend | 1 printer; 2 requests, threads, users, passwords, tokens; 3 threads at the key file, 3 keys; 2 importers, imports of 2 files, 3 models; 1 checker; 2 site threads, 3 of the auth modes; some 9,800 cases of the rules | `CredentialHasSecret`, `OpenWindowCloses`, `LoggedOutStaysOut`, `OneKey`, `ImportIsPrefix`, `GeometryIsUsed`, `FreshFacts`, `VerdictSound`, `ToggleIsKept` |
| credentials_lost | 1 printer, 2 requests | finding: `ConfigureTakesEffect` |
| inventory | 2 printers, 2 requests, 1 address, 2 devices (one with, one without identity), 2 results | `UniqueIdentity`, `MatchesLive`, `IdentityKept` |
| inventory_sequential | 1 printer, 1 request, 2 addresses, a device answering on 2 ports | `AdapterFollowsType`, `ScanKeepsConfirmedEndpoint` |
| inventory_swap | 1 printer, 1 request, 2 addresses, 2 devices | finding: `ScanFollowsIdentity` |
| throttle | 3 threads, 1 host, intervals 1 and 2, 3 slots; telemetry: 2 states and a foreign one, 8 packets, 2 on the wire | `SlotsSpaced`, `NeverAheadOfSchedule`, `ImplementsSchedule`, `EveryCallIsSent`, `StatusIsTruthful`, `FetchEnds` |
| browser_link | 2 threads, 1 link, 1 account | `StoredIsCaptured`, `ExpiredHelperIsStopped`, `LinkSettles` |
| browser_link_failed | the same | finding: `FailedMeansNotCaptured` |
| ai_accounting | 2 threads, 3 events, 2 runs, estimates 1 and 2, totals 0, 5, 10 | `OverspendBounded`, `FinalCostHasRun`, `CompletedRunSettles`, `RunIsAllocated`, `StaysReconciled` |
| ai_runs_closed | the same | finding: `FailureClosesRun` |
| site_crawl | 6 URLs and one that is none, 3 models, depths -1 to 4, pages 0, 2, 4, 10 | `PlacedOnce`, `DepthIsDistance`, `DrainedIsComplete`, `BestKept`, `CompletedMeansAll` |
| site_account_mixed | 2 threads, an API token with its header, a bearer token, a cookie | finding: `ReadinessAgrees` |

Why the bounds are enough: the races above are between two requests on one row, so two threads
meet all of them, and printers share nothing but the sequence. `MaxSecrets = 2` lets a secret be
removed and inserted again. A scan with two findings is the shortest that matches a row twice.
`MaxResults` and the number of ids cap tables that only grow. Three throttle threads let one
thread wait behind a slot that itself waits. With two intervals a later request can ask for a
shorter one than an earlier. `MaxClock` stops the clock only when nobody sleeps. `MaxSlots` ends
the run. In `ai_accounting` three events let a share be cut and a remainder be left; 5 divides
by none of the weights, 10 does not fit the column (6), and 0 is a month without cost. A budget
of 3 with single requests of 2 can be overspent by one request. In `site_crawl` one page is two
links away along one path and three along another, in reach of each depth limit; pages link to
themselves, back, to a foreign host and to what is no URL; one model has two URLs. Policies
below and above the limits meet both ends of the clamp. In `backend` the printer has two adapter
types, so that a retype races a configure; two users and two tokens let a logout hit one session
of a user and not the other, and one more user appear while the guard is still being passed.
Three threads at the key file are one that creates it, one that read it empty and one that comes
later; three keys are one each. An import of two files is the shortest with something before and
after the file that is refused; three models let a second import interleave with both. The
checker needs one printer, checked for two candidates, to meet a row that changed between two
reports. The rules are compared over every combination of known and unknown sizes of model and
printer (lengths 1 and 2 and unknown: equal, smaller, larger, and turned), of temperatures on
either side of what PETG and ABS need, and of the features; each family varies while the others
are such that they decide nothing. `MaxPackets` of `throttle` is the source's own number of
reads; two packets on the wire let a report wait behind another packet while the printer
changes. Permutations of threads, names, passwords and tokens are symmetries of `backend`: the
components compare them for equality only, and the importer that is singled out is not among
them. All runs but the browser link's may stop, and switch the deadlock check off. In
`browser_link` it is on.

**Sequential properties.** `AdapterFollowsType` and `ScanKeepsConfirmedEndpoint` are stated for
one request at a time: two that overlap write different columns of one row by design of the
partial UPDATE.

**At most two overlapping reconciliations.** `RunIsAllocated` holds for the two threads of the
run, and is proved for any number of threads of which no three reconcile at a time
(`TwoOverlap`). With three it does not hold: a session that has loaded a final cost equal to its
own share does not write that column, so a third run may leave a row that names one run with the
cost of another. No line of the repository speaks of this, so it is a remark and not a finding.

**Fairness.** The throttle: weak fairness of each thread's step, of time. `threading.Lock` is
not fair, but each thread's own `Acquire` is enabled whenever the lock is free, the bounded
number of slots bounds the contenders, and no caller starts once they are used up. The browser
link: a handler that has begun runs to its end; the deadline comes; a terminated process exits.
Polls get strong fairness, because the interval timer of the page fires again and again and the
thread pool serves it in the end. There is none for what users or the helper do: nobody has to
press a button, and a helper may hang for ever. The telemetry: weak fairness of the client's
step (`ClientStep`), because every read of the socket has a timeout, so a client that waits goes
on with `Fail` at the latest. The printer has no fairness: it may stop at any point or send for
ever.

## 4. Findings

1. `ConfigureTakesEffect` (`printers/credentials.py:50`): a configure request that loaded the
   row while it named the credential does not write that column; with a remove in between, the
   saved secret is not used.
2. `ScanFollowsIdentity` (`printers/store.py:247`): the match by address uses the committed
   address of a row that the same scan has already recognised elsewhere.
3. `FailedMeansNotCaptured` (`site_scanning/browser_link.py:160`): result file, then process: a
   helper that finishes in between is reported as failed.
4. `FailureClosesRun` (`ai/service.py:247`): when the flush of a reconciliation raises, the
   handler that should close the run uses the session that needs a rollback; the run stays
   `running`.
5. `ReadinessAgrees` (`site_scanning/store.py:250`): overlapping saves of different accounts
   leave a row that none of them asked for, an API token without a header, which is shown as
   linked although no request can use it.

## 5. Proofs

Every invariant and every action property that a passing run checks is also a theorem, for every
value of the constants that meets the named assumptions of the module (`CredentialAssumption`,
`UserAssumption`, `KeyFileAssumption`, `LibraryAssumption`, `SiteAssumption`, `RulesAssumption`,
`InventoryAssumption`, `ThrottleAssumption`, `TelemetryAssumption`, `LinkAssumption`,
`AccountingAssumption`, `CrawlAssumption`). They say which values are none of the others, which
numbers are natural and which sets are finite (the request threads, of which there is at least
one; the URLs), nothing about the behaviour. Each inductive invariant was first checked by TLC
on the instance of the run.

* **DataLemmas.** The library states induction with an operator as a parameter, which none of
  the provers instantiates. Here it is stated with the *set* of those a fact is known of:
  `NatSetInduction` and `FiniteSetInduction`, from the well-foundedness of `<` and of strict
  inclusion. `RecursiveFunction` follows: a function that starts with a value and takes a step
  at every number exists, as the diagonal of its tables. With these a definition that recurs
  over numbers, or a fold over a finite set, can be unfolded in a proof.
* **PrinterCredentials** (BackendProofs). `TypeOK` is inductive. `CredentialHasSecret` is not:
  the commits act on what sessions loaded. `SessionInv` adds what each session is about to do to
  the column, and that a remove holds a secret's key only if the row it loaded named it: then
  its UPDATE does write the column, and the DELETE never leaves the name behind.
* **UserSessions** (BackendProofs). `RequestFits` says what each request relies on in its phase,
  and that as long as nobody is known every request is an early one; `SessionsInv` that a
  session names a user and is not a revoked one. `OpenWindowCloses` is a part of it,
  `LoggedOutStaysOut` follows for the step that touches the session: the UPDATE finds the row,
  so the token is not revoked.
* **KeyFile** (BackendProofs). `OneKey` needs `WriterInv`: at most one thread writes, the file
  is empty until it has, and whoever reads found a file. Then no cipher exists before the key is
  in the file, and the file never changes afterwards, whoever is killed.
* **SiteAccounts** (BackendProofs). `WorkFits`: a row that a request has loaded is still there
  unless the request knows that it is gone, and a toggle writes to a row it has loaded. What a
  listing writes from an old row leaves the column `enabled` alone, and an insert finds no row,
  so `ToggleIsKept` holds for any number of listings between the reads and the commit of a
  toggle.
* **ModelLibrary** (LibraryProofs). `ImportFits` relates what an import has saved to its files
  one by one (there, in order, with its content, and with a geometry but for the last), in every
  phase; `ImportIsPrefix` is its form at the ends. `GeometryPending`: a model without a geometry
  is one that somebody is still to commit, or was cut off; `GeometryIsUsed` follows at the one
  step that decides. `CheckFits`: an instance that a check has loaded says what the row says, or
  the row has changed since the last commit of the check, or it is expired; `FreshFacts` is its
  form for the reports that are due.
* **CompatibilityRules** (LibraryProofs). `VerdictsAreSound` is a statement about all printer
  rows and all requirements, with any sizes and any temperatures for the unknown. Only the build
  volume and the two temperatures can fail (`VerdictOfItems`); each of these is compared with
  the reference on its own: sorted sides with a footprint that may be turned (`SortedFits`), a
  limit with the stated or typical temperature. The other items can only turn a pass into a
  warning. `VerdictSound` of the run is its restriction to the cases enumerated there.
* **MCBackend** (BackendProofs). `BackendImplementsStores`: a step of the backend is a step of
  each store or leaves it alone, so each store's theorem holds of what the run checks.
  `BackendIsSafe` and `BackendTypes` put them together.
* **RequestThrottle** (OutgoingProofs). `LockInv` (mutual exclusion and what was read under the
  lock is still true) and `SlotsEnd` (the next allowed time is past every slot) make
  `SlotsSpaced` inductive; the refinement follows, since every step but `Reserve` stutters.
  `NeverAheadOfSchedule` is a count: at any time from now on the slots that will have begun are
  as many as the requests sent and the threads that wait for one of those slots (`CountInv`). A
  reservation adds one to both sides, a send moves one from the waiting to the sent; `WakeInv`
  (nobody sleeps shorter than until its slot, since the clock read under the lock is in the
  past) makes the sender's slot one that has begun.
* **BambuTelemetry** (OutgoingProofs). `WireInv`: the reports on the wire that are the printer's
  own say what it has been doing since the fetch began, whatever else is between them.
  `OutgoingImplementsBoth` and `OutgoingIsSafe` carry both components over to what the run
  checks.
* **PrinterInventory.** `Invariant` is `TypeOK`, `UniqueIdentity`, `MatchesLive` and
  `SessionInv`: a session remembers the loaded form of each row it changes, never clears an
  identity, and changes every row its results name. The last gives `MatchesLive` at
  `CommitScan`, since the flush fails when such a row is gone. `IdentityKept` is an action
  property from the same invariant. `AdaptersFollowTypes` and `ScansKeepEndpoints` assume that
  there is one request (`\A r, q \in Requests : r = q`), as the properties do. `SequentialInv`
  says that what the session has loaded is what the rows hold (`Current`), and that a scan which
  has recognised a row by its stable identity alone leaves its endpoint (`Keeps`): it has to be
  carried over any number of findings in any order, which the run does for two.
* **BrowserLink.** `StoredIsCaptured` needs `CookieInv`: every cookie a thread carries came from
  a result that says captured. `KnownLink` gives the handlers their link.
  `ExpiredHelperIsStopped` needs no more than the types and `KnownLink`.
* **AiAccounting.** `FinalCostHasRun` and `CompletedRunSettles` are not inductive, because
  commits write what sessions loaded earlier. `SessionInv` adds, for each session, that it works
  on the events of the run it has created, that what it loaded had a final cost exactly with a
  run, and that what it loaded as reconciled still is; a flush then never mixes a NULL of one
  run with a value of another. The same invariant gives the action property `StaysReconciled`.
  The sums are folds; `SumUnfold` and `SumRemove` say what one more element adds, by
  `FiniteSetInduction`. `BudgetInv` counts what has passed the check as spent: the last request
  to pass saw the month's budget kept by what was recorded, and each of the others in flight
  adds at most `Single`. `AllocationInv` is what the two commits of a reconciliation need of
  each other: a run belongs to one session, shares add up to the total (`SharesAddUp`: the last
  takes what is left), an event both are to write was written by neither (`Apart`), and what was
  loaded as reconciled has not changed. The last is false of three sessions, hence `TwoOverlap`;
  `TwoThreadsAllocate` discharges it for two threads.
* **SiteCrawl.** `Invariant` adds to the properties that nothing was found before the scan began
  (`IdleInv`) and that, until it is saved, the stop reason differs from "completed" exactly when
  a URL was rejected or still waits (`StopInv`). `PlacedOnce` carries the rest: the visited and
  the waiting URLs are disjoint, so a visit adds a new URL and the numbers of the saved run are
  cardinalities of sets, one inside the other. `BestKept` needs that candidates of one page have
  a first one (`FirstExists`), from the least element of a set of naturals (`LeastIndex`).
  `BreadthInv` is the breadth-first order: depths rise along the queue, by one at the most, and
  what was visited is no deeper than what waits (`InOrderOfDepth`); what a scanned page links to
  has an entry at most one deeper (`LinksAreKnown`); an entry has the scanned page it was found
  on (`ParentsAreScanned`). From it, by induction on `n`: the URL of an entry of depth `n` is
  `Within[n]`, and a URL that is `Within[n]` has an entry no deeper than `n`; a chain of parents
  of different URLs bounds the depth by their number (`DepthIsBounded`), so `Distance` looks far
  enough. That is `DepthIsDistance`; `DrainedIsComplete` adds that host and depth alone decide
  what is rejected (`LimitsDecide`).

Only model-checked: the liveness properties (`EveryCallIsSent`, `LinkSettles`, `FetchEnds`),
which involve fairness and ENABLED, beyond the prover; and the findings, which are violations.

## 6. Not modelled

Every component whose steps can meet in an order that matters has a module. What is left out,
and why:

* `LocalLlmRequestGate` and `WorkQueue` (`resources/service.py`): no route and no worker calls
  them, only tests do, one call at a time, so the program has no behaviour of theirs.
  `enqueue_job`, which it does use, is the first commit of `ModelLibrary`.
* The Moonraker and OctoPrint clients: one HTTP request, one answer, no state. Likewise the
  detectors of the LAN scan and the site runners' HTML and GraphQL extraction: parsing of what
  others send, of which the models take any outcome.
* Instance settings: independent rows with a default. Slicer artifacts and the project lookup:
  one row or none.
* `failed_login_count`, `last_login_at`, `last_seen_at`: written and shown, they decide nothing.
  No route deactivates a user.
* Two links or two accounts in one `BrowserLink`: the account a captured cookie is stored under
  is in `SiteAccounts` (`BeginCapture`); both together are beyond what TLC finishes.
* Operations and health routes (reads), migrations, installation scripts and service units,
  rendering: no concurrent state.
* Encryption is a one-to-one function; wording and layout of responses are nobody's condition.

Worth doing next: an instance of `PrinterInventory` with three requests, and of `BrowserLink`
with two links.
