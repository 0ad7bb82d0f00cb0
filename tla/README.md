# Formal models of fineco-helper

fineco-helper reads one Fineco account and serves it to an assistant. A
credential-holding worker logs in to the bank, a store server keeps snapshots in
SQLite and decides when the worker may be used, and a gateway serves cached data
and passes on live requests of clients. This directory holds TLA+ models of the
system, the TLC runs that check them, and TLAPS proofs of what matters most. What
follows describes the system, the modules and how they correspond to the code,
the runs with their bounds and fairness, the proofs, what the models found, and
what is left out.

    tlc -workers 2 -config RefreshGate_areas.cfg MCRefreshGate
    tlapm RefreshGateProofs.tla

`PROJECT.json` lists the components, every run with its properties, for every
definition the source lines it stands for, for every property a defect of the
code that would break it, and the hazards of the code with the properties that
watch them.

## The system

                       HTTP/MCP
    client ───────────► gateway ──┬─ snapshot-query.sock ──► store-server: QueryHandler
    (Cloudflare Access)  (tokio)  ├─ refresh-control.sock ─► store-server: controller, thread 1
    timer: refresh portfolio ─────┘                          │
                                  └─ market-control.sock ──► store-server: controller, thread 2
                                                             │  LiveLoginState (shared permit)
                                        fineco-live.sock ◄───┘
                                             │
                                       private-worker ──► the bank

Every socket carries one framed request and one framed reply per connection and is
served by one thread, in order. A client that times out closes its end; the server
does not notice, and a request that is already in the socket is still served.

| component | state | operations | what makes it correct |
|---|---|---|---|
| refresh gate and orchestrators (`fineco-refresh`) | none of its own | `refresh_preflight`, `refresh_{portfolio,orders,tax,movements}` | attempts are spaced and capped per UTC day whatever happened to the earlier ones; a running area is locked; outcome and capture agree |
| job ledger (`fineco-store/jobs.rs`) | `job_runs` | `try_begin_job` (insert, reclaim a stale row, insert again), `record_job_finish`, the latest row, the day's count, the recent outcomes | at most one running row per area, and the newest; a settled row is never rewritten |
| captures and cached reads (`fineco-store`, `fineco-query`) | snapshot tables, `taxonomy_categories` | `capture_*`, the reads of `QueryHandler`, the freshness states, the names of movements | an answer describes data that was current together; the data never goes back in time |
| dividend pairing (`fineco-query`) | none | `pair_dividends`, the totals | every leg counts once or is reported as excluded |
| controller (`fineco-helper/controller.rs`) | `LiveLoginState`, `MarketCircuitState`, both in memory | admit and finish a refresh, admit and finish a market read, record an outcome | one live operation at a time; every login is charged; spacing; one probe per circuit cooldown |
| live socket (`fineco-live`) | requests waiting | `LiveClient::call`, `serve_live_blocking` | nothing is admitted for ever; an orphan is worked off; a client waits as long as the worker may take |
| private worker (`fineco-worker`) | the held market session | `run_market_read`, login, store, evict, `refresh_login`, the reaper; the walk over the movements; search, indices and details with their resolution; the parsers | never a session that a later login may have ended; one retry after a 401; a statement is read whole; an answer is of one instrument |
| gateway (`fineco-gateway`, `fineco-ipc`) | the signing keys of Cloudflare Access | tools, capability policy, audit, token checks, enrichment of the details | nothing without leave; one audit line per call; keys catch up |
| roles and store opening (`fineco-helper/serve.rs`, `fineco-store/lib.rs`) | socket paths, `user_version` | configuration from the environment, `prepare_socket_path`, `migrate` | a whole schema; no running server loses its socket to a start |
| alert scanner (`deploy/alerting`) | cursor and counter files | one scan per timer tick | at-least-once alerts |
| TLS, host scripts, tooling | none | – | – |

What is hard here, and hardly reached by the unit tests:

* the store server or the worker is killed between two steps: after the running row
  is inserted, after the capture is committed, with a session held, in the middle of
  a start;
* two threads compete for one login permit while a third party, the caller, may have
  given up, and the worker serves the abandoned request all the same;
* the controller decides from its *picture* of the worker's session (the reuse
  window), which the worker, its reaper and the bank change behind its back;
* the bookkeeping is keyed on the time an operation was *admitted*;
* the wall clock, by which attempts are spaced and counted, may be set back;
* a write fails after the one before it was committed;
* a cached read takes several SQL statements on one connection while a refresh
  commits on another;
* the statement grows while its pages are read, and rows come without an id;
* one answer of market details is put together of up to six endpoints, any of which
  may be empty or about something else;
* several processes, of several versions, open the store and the sockets at once;
* the keys of the identity provider rotate between two fetches;
* alerts must survive a failed delivery, a source that cannot be read, a counter
  that was reset and a scan that dies between two of its writes.

## The modules

| module | models | role |
|---|---|---|
| `JobRuns` | the rows of `job_runs` and the questions asked of them | operators |
| `RefreshGate` | one refresh request from preflight to outcome, the clock, the market thread's use of the permit, storage errors, crashes | state machine |
| `AttemptGate` | what the gate promises: spaced, capped attempts; the newest attempt publishes, once | abstract specification |
| `CachedReads` | `QueryHandler` on its own connection, statement by statement | state machine, composed with `RefreshGate` |
| `LoginState` | `LiveLoginState` and `MarketCircuitState` with their functions | operators |
| `MarketSession` | controller threads, live socket, worker and held session | state machine |
| `MoneyMap` | the taxonomy as it is captured and as names are looked up in it | operators |
| `StatementWalk` | a refresh of the movements: the walk over the bank's pages, the taxonomy, the two captures | state machine |
| `Dividends` | the pairing of dividend legs and the totals | operators |
| `MarketSearch` | what becomes of a search answer; resolution of an identifier | operators |
| `BondAnalytics` | which bonds get figures, and from which coupons | operators |
| `AssetDetails` | the details put together: endpoints, rows, sections, sources, warnings | operators |
| `MarketReads` | the worker's other requests, endpoint by endpoint, with retries and the time they take | state machine |
| `WorkerReads` | the worker: a walk or another read at a time, and the dividends of what was captured | composition |
| `Deployment` | what the environment of each role configures or refuses | operators |
| `ServerStart` | starts of store-servers and backups: migration, probe, unlink, bind, crash | state machine |
| `Enrichment` | profiles of public pages, and when a page is refused | operators |
| `GatewayCalls` | a tool call from the token to the answer, the signing keys | state machine, over `ServerStart` |
| `Gateway` | gateway, keys, starts and calls together | composition |
| `AlertScan` | one run of `fineco-alert.sh` after another, its files, its sources and the notifier | state machine |
| `MCRefreshGate`, `MCCachedReads`, `MCMarketSession`, `MCWorkerReads`, `MCGateway`, `MCAlertScan` | instances for TLC | – |
| `RefreshGateProofs`, `CachedReadsProofs`, `MarketSessionProofs`, `StatementWalkProofs`, `WorkerReadsProofs`, `ServerStartProofs`, `GatewayProofs`, `AlertScanProofs` | theorems | proofs |

How they build on each other:

    JobRuns ◄─ RefreshGate ◄─ CachedReads              AttemptGate is INSTANCEd by RefreshGate
    LoginState ◄─ MarketSession
    MoneyMap ◄─ StatementWalk ─┐
    MarketSearch ◄─ AssetDetails ◄─ MarketReads ─┼─► WorkerReads      BondAnalytics is
    Dividends ─────────────────┘                                      INSTANCEd by AssetDetails
    Deployment ◄─ ServerStart ◄─ GatewayCalls ◄─ Gateway              Enrichment ◄─ GatewayCalls

`RefreshGate` and `MarketSession` share the live-login permit: `RefreshGate` keeps the
ledger and sees of the market thread that it takes and returns the permit;
`MarketSession` keeps the login bookkeeping and the worker and sees of a refresh that
it holds the permit and makes up to two calls. `WorkerReads` looks inside one call of
the worker, `Gateway` at everything before the store-server's handler; a call the
gateway no longer waits for goes on in `RefreshGate` and `MarketSession`.

### RefreshGate: the refresh path

| model | code |
|---|---|
| `Accept` | `RefreshController::handle` up to the end of `refresh_preflight`; a denial changes nothing and is no step |
| `AdmitLive`, `RefuseLive` | `begin_refresh_live_operation` |
| `Insert`, `InsertConflict`, `Reclaim`, `BeginFails` | `try_begin_job`: insert, `reclaim_stale_running`, insert again, each a statement of its own |
| `FetchSucceeds`, `FetchFails` | the call to the worker |
| `Capture`, `CaptureFails` | `capture_*`, one transaction |
| `Finish`, `FinishFails` | `record_job_finish` |
| `Return` | the end of the handler: the permit is given back on every path (`LiveLoginPermit::drop`) |
| `Crash` | the process dies; the database survives, the permit does not |
| `Tick`, `MarketBegins`, `MarketEnds` | the clock and the other controller thread |

`jobs[a]` is the table in order of insertion, so an index is the row's id;
`captures[a]` the list of committed `captured_at`. The four areas run the same code,
so one definition stands for the four orchestrators.

### CachedReads: what a reader sees

A read is given as the list of its SQL statements (`Statements`), and every step of
`RefreshGate` may come between two of them. A statement finds the capture with the
largest `captured_at` (`LatestCaptureAt`), and an answer is represented by the
captures its parts come from. `freshness_for` is three statements and the decision
`Verdict`.

### MarketSession: controller, socket and worker

| model | code |
|---|---|
| `login`, `circuit` | `LiveLoginState`, `MarketCircuitState` |
| `AdmitMarket`, `SendMarket`, `MarketReceives`, `MarketTimesOut`, `MarketUnsent` | `handle_market_control` around `LiveClient::call` |
| `AdmitRefresh`, `SendRefresh`, `RefreshReceives`, `RefreshTimesOut`, `RefreshUnsent` | the same for a refresh (two calls for tax) |
| `queue`, `TakeRequest`, `Answer` | `serve_live_blocking`: one connection at a time, in order; the reply to a caller that left is lost |
| `Login*`, `Read*`, `Refresh*` | `acquire_market_session`, `run_market_read` with its one recovery after a 401, `refresh_login` |
| `held`, `Reap`, `Evicted` | `HeldMarketSession`, the reaper thread, eviction |
| `WorkerRestart`, `ControllerRestart` | systemd's `Restart=on-failure` |
| `log`, `restarts` | history variables of the model |

A bank session is known by whether a later login may have ended it
(`held.current`). A time unit is abstract; the constants keep the order of the
production values (cooldown < TTL, circuit cooldown and budget window longer).

### WorkerReads: what the worker reads

| model | code |
|---|---|
| `StartWalk`, `ReadPage`, `ReadLastPage`, `PageFails` | `fetch_raw_movements` with `fetch_movement_pages`: offset, cap, empty page, rows by id, balances of the first page |
| `FetchTaxonomy` | the best-effort taxonomy after the walk |
| `CaptureStatement`, `CaptureFails`, `CaptureNames`, `KeepNames` | `refresh_movements`: two transactions, the second allowed to fail |
| `Book`, `BankAnswers` | the bank (see below) |
| `Begin`, `ReadSearch`, `ReadIndices`, `ReadAccount` | a request that is one read, with its candidates, buckets and caps |
| `SearchTerm` with `Survivors` and `Resolves`, `NotFound`, `ReadStatic` | `resolve_market_candidate`: the search terms one after the other, the ISIN from the static item |
| `FetchNext` with `NextEndpoint`, `Assemble`, `TooLarge` | the endpoints a details request needs, in order, and what `to_market_asset_details` and its variants for stocks and bonds make of them |
| `CallFails`, `CallUnauthorized` | the attempts of a read (`MARKET_RETRY_ATTEMPTS`) and the second run after a 401; `spent` counts each at the HTTP timeout |
| `PairDividends`, `Totals` | `pair_dividends`, the totals of the dividends query |

What the bank may do is taken as given where the code relies on it, in one place
each: rows of the window are not withdrawn while the walk goes on, a page holds the
rows that stand at its offset, only a page that reaches the end is marked last, and
a page before the end is not empty. New rows may be booked anywhere between two
pages. The market answers are the members of constant sets (`SearchAnswer`,
`StaticAnswer`, `EtfAnswer`, …); each row carries the instrument it is really about
(`of`), which the code cannot see and the properties can. Rows may be those of another
listing or a namesake, or leave out what they are about. Three named assumptions say
what is taken for granted of them: `AnswersAreItems`, an answer has the shape its
parser accepts; `BankTellsTruth`, what a row does say of itself (ISIN, venue and
symbol, key) is true of the instrument it is about, and names of one kind are not taken
for names of another; `TimeoutsCoverReads`, the timeouts of the clients cover a login and
the calls of one read.

### Gateway: from the environment to an answer

| model | code |
|---|---|
| `Deployment` | `from_env` of the roles: what is unset, blank, refused; the connector's list; which sockets a controller binds |
| `Start`, `ReadVersion`, `Migrate` | opening the store in a store-server or a backup; `migrate` reads `user_version` before its transaction |
| `Probe`, `Unlink`, `Bind` | `prepare_socket_path` and the bind after it, for each path in order |
| `Crash` | a start or a server dies |
| `CallArrives`, `Admit` | the Access layer: token, keys, pins, channel |
| `Gate` | the tool's own checks: the connector's list, validation, the gateway's policy |
| `Connect`, `ServerRefuses`, `ServerActs`, `HandlerPanics`, `NoReplyComes` | the socket call and the server's side of it |
| `Receive`, `Supplement*`, `CheckSize` | matching the reply, the external enrichment, the size of the details, the audit line |
| `Rotate`, `FetchKeys` | the identity provider and the refresher of the key set |

A socket path is the process that bound it, nothing, or a file that is no socket. A
process that dies leaves its path behind. A token is the key it names, whether its
signature and claims are good, and whom it names; the cryptography is that outcome.
`acted` collects what has been done for the call and where. Two histories, by which no
action decides, are there for `ServedWithLeave`: `fetched`, the keys published at the
last fetch, kept apart from the verifier's own `keys`, and `known` in the call, what
`fetched` was when it was admitted.

### AlertScan: the alert script

`Seed*`, `ReadJournal`, `ReadCounters`, `TakeAlert`, `BeginCommit`, `CommitCursor`,
`CommitCounter`, `Finish` are the script from top to bottom; `Crash` may end it
between any two. A counter is a `Reading`: the value it shows, and (for the
properties) all it ever counted and its resets. The audit lines are counted by kind.

## The runs

| run | question | result |
|---|---|---|
| `RefreshGate_areas` | Do spacing, daily budget, breaker, ledger, cache and permit hold for two areas with limits far apart, with storage errors, crashes at every step, a competing market thread and a clock that may be set back? Does the gate implement `AttemptGate`? | holds |
| `RefreshGate_portfolio` | Is every request answered, and a dead row reclaimed, when the cooldown outlasts the stale age? | holds |
| `RefreshGate_breaker_reported` | Is an open breaker reported as `refresh_circuit_open`, as the alerting table says? | refuted |
| `MarketSession_faults` | Are logins debited, budgeted and spaced, and probes spaced, when the bank forgets sessions, callers time out and both processes restart? | holds |
| `MarketSession_liveness` | One live operation at a time, no superseded session held, the reuse window justified, every operation ends, orphans are worked off? | holds |
| `MarketSession_reuse_agrees` | Do controller and worker agree on reuse as long as the worker is not restarted, as the comment says? | refuted |
| `CachedReads_answers` | What may an answer of several statements mix, and does freshness own up to the data that is there? | holds |
| `CachedReads_movements` | Are rows, timestamp and account summary of one capture, as the store's comments say? | refuted |
| `WorkerReads_sound` | Is a captured statement whole, do names and dividends follow from it, is an answer of one instrument and complete, and does a request end within its client's timeout? | holds |
| `Gateway_leave` | Is anything done without leave, does the audit tell what happened, do keys catch up, and do starts leave store and sockets sound? | holds |
| `AlertScan_delivery` | Are alerts delivered at least once and for new events only, and independently of a failing source? | holds |
| `AlertScan_reset` | Is a counter reset handled as the script says? | refuted |

### What the properties mean

* `AttemptsSpaced`, `DailyBudgetHolds`: the point of the gate. A row that died is
  exempt from the cooldown, so that it can be reclaimed; the next attempt is still
  more than the stale age later, and the dead row counts against the day.
* `RunningIsLatest`: the preflight looks for the lock in the latest row by
  `started_at`. That this is the running one, whatever the clock did, is a fact
  about the whole history.
* `CacheAgreesWithLedger`, `LedgerAppendOnly`: an outcome never contradicts the data,
  a settled row is never rewritten, though capture and outcome are two transactions.
* `BreakerNeverDecides`: with a circuit cooldown no longer than the area's own
  spacing (as shipped) the breaker is redundant; `BreakerSpacesAttempts` says what it
  does when its cooldown is longer.
* `ImplementsAttemptGate`: an attempt is the insert of a row, a publication is a
  capture; with the weaker gap `MinGapOf` and the budget. In particular only the
  newest attempt publishes, once, also after crashes.
* `LoginsAreDebited`, `BudgetBoundsLogins`, `CooldownSpacesLogins`: every login of the
  worker is charged, the 401 recovery of a reused session and the logins of
  abandoned reads included; spacing and budget are by time of admission. The ledger
  of logins is in memory: a restart of the controller starts it anew, and what
  that costs, a budget more per restart, is part of the bounds.
* `OneProbePerCooldown`: after enough upstream failures in a row one market read is
  let through per circuit cooldown.
* `SessionInv` puts permit, threads, socket, worker and session together; its part
  `WindowMeansHeld` says that while the controller takes a reuse for granted the
  worker holds a current session at least as long and no orphan stands before the
  next read. `HeldSessionIsNewest`, `OneLiveOperation`: a refresh login, which may end
  the market session, makes the worker drop it; at most one caller is waited for.
* `ReadsInv`: rows are read before the timestamp, so an answer may carry the
  timestamp of a later capture than its rows, never of an earlier one.
  `SnapshotIsOneCapture`: portfolio answers go by the id and are never torn.
  `ReadsSeeCommitted`: the newest capture by timestamp is the newest by commit: the
  gate's cooldown is what makes this true when the clock is set back.
  `UsableDataIsReported`: data that was there when a freshness read began is not
  called missing.
* `StatementIsWhole`: what is captured holds every movement with an id that was on
  the statement when the walk began. This needs that a walk advances by what it
  read, stops only at a page that is last or empty, and fails rather than captures
  at its cap. `NamesFollowTaxonomy`: a movement's names come from the last taxonomy
  *captured*, for its own category and, under that, its subcategory, though the
  taxonomy has a transaction of its own that may fail.
* `DividendsAddUp`: every leg is in one event, an unlabelled one in an event of its
  own, the totals are those of the legs of the events with a net, and the other events
  are counted as excluded.
* `OneInstrument`: no row of another listing or a namesake goes into an answer, if
  the rows are true about themselves. `SectionsAccounted`: what was asked for is
  there or reported missing (but for listing and quote, see below), and figures of a
  bond are made of constant coupons only. `FieldsAgree`: every `source_ref` is listed
  among the sources and a quote is in the unit of its currency.
  `ListsDropOnlyAtCap`: a candidate is missing from a list only where a cap is full.
* `ReadsFitTimeout`: the worst case of a request is within its client's timeout. The
  second run after a 401 is beyond that promise.
* `StartsInv`: a schema step is applied once and none of a version is missing; nobody
  who was listening when a start began loses a path to it.
* `ServedWithLeave`: whatever is done for a call (a server acts, a public page is
  fetched, the public list is read) has the leave of Access, of the tools of its
  channel, and of the policies at both ends, and asked for it. Leave of Access is a
  good token of a pinned identity under a key that was published when the keys were
  last fetched before the call was let in; a deployment without Access gives no part
  of it and says so. A public page or list is read only where its route is configured.
  `AuditTellsAnswer`: a call has one line with the code the client gets, and a fetch one
  more; a supplement is there, for the right instrument, or warned about.
  `KeysCatchUp`: a key that stays published is trusted in the end, a withdrawn one not.
* `AlertsInv`, `NothingPassedOver`, `AlertsGoOut`: delivered events are not counted again;
  cursor and baselines move past events only if their alert was delivered in this
  scan; one source that cannot be read holds back nothing of the others.

### Bounds

* *Refresh gate.* `RefreshGate_areas`: clock readings `0..3`, the clock may step back, a day
  of 3 units, so that days change and a dead row (stale after 1), cooldown (2 and 1)
  and budget (1 and 2) interact; one area has a circuit cooldown (3) over its own
  cooldown. The number of rows is bounded by budget and days. `RefreshGate_portfolio` and
  `RefreshGate_breaker_reported` keep production's proportions: `0..7`, one unit 300 s,
  stale after 3 units (900 s), cooldowns 2 (600 s) and 6 (1800 s), circuit 2 (600 s).
  What these runs check of the safety of the gate is also proved for all values.
* *Market session.* `MarketSession_faults`: `MaxTime` 5 against a budget window of 4 and a
  budget of 2, so the window is left behind once; cooldown 2, TTL 3. `QueueBound` 2
  leaves room for an orphan before a request; `ControllerRestarts` 1: a second restart
  finds the same fresh controller. The liveness run has `MaxTime` 3, cooldown 1, TTL 2.
* *Cached reads.* Two captures of an area are enough for every way to tear an answer
  of three statements, a third changes the names only. `StaleSecs` 0 lets a row go
  stale within a clock of two readings.
* *Worker.* Pages of 2, a cap of 3 pages, 3 rows, 2 refreshes: a walk can meet a short
  page, an empty one, its cap, and a row booked before, at or after its offset. The
  rows include two legs of one event, unlabelled legs, a leg without amount and a row
  without an id. The instruments are two listings of one fund, a namesake on another
  venue, a listing without ISIN and a bond. The other reads are taken before the first
  refresh of an empty statement: they share nothing with it but the worker's turn.
  HTTP timeout, attempts and client timeouts are the production values.
* *Gateway.* Thirteen environments, six that are accepted and seven that one of the
  roles refuses, told apart by one or two variables each (one has no stock route, another no ETF
  route, a third neither); two schema versions, two
  policies, two keys, six tokens, eight tools (one of each kind and one unknown), up
  to three starts of which two overlap. Calls and starts do not overlap, and keys
  rotate before the first start (`MaxRotations` 2: a key may come back); crashes may
  come at any time, also during a call. In the proofs these bounds are absent but
  for those written into `StartsMove` and `KeysMove`.
* *Alerts.* Three lines, three events per counter and one reset, with thresholds of
  2 and 1: an alert can fire, fail, fire again and be followed by new events. One
  counter, added by an upgrade, takes both roles of a counter.

Deadlock is checked in every run but two: in `WorkerReads_sound` and `Gateway_leave` the
bounded refreshes, starts and rotations come to an end.

### Fairness

* `RefreshGate` (`RefreshGate_portfolio`): the steps of a request in hand are weakly
  fair: each is a bounded SQLite statement or a call with a client timeout.
  `DeadRowsReclaimed` also needs that somebody goes on asking (the refresh timer,
  strong fairness of `Accept`), that the permit is not always taken at the moment of
  asking, and that SQLite does not fail each time it matters (strong fairness of
  `AdmitLive`, `Insert`, `InsertConflict`, `Reclaim`). Nothing is assumed of the
  clock, the market thread or crashes.
* `MarketSession`: a thread with a request sends it or fails, a wait ends with the
  reply or the client timeout, and the worker goes on with what it has: every
  HTTP request has a timeout. Neither success nor new requests are assumed.
* `Gateway`: the refresher fetches the keys every 600 s for as long as the gateway runs,
  and the endpoint does not fail for ever (weak fairness of `FetchKeys`). Nothing is
  assumed of calls and starts.
* `AlertScan`: the scan goes on and the timer starts the next one (weak fairness of
  `Scan`). That a source is readable, the notifier works and scans are not killed
  from some time on are premises of `AlertsGoOut` itself.

## The proofs

Each module of proofs assumes only the named assumptions on the constants of its
module (`GateConstants`, `SessionConstants`, `WalkConstants`, `StartsAssumption`,
`CallsAssumption`, and the like): that limits are natural numbers, a page holds at
least one row, one schema version is the latest. The reads of the worker need more of
what they read: `AnswersAreItems` and `BankTellsTruth` are about the bank (see
above): without the second no check of an identity could prove anything.
`LegConstants` says that an amount is an integer or unreadable, and `ListsAreCapped` that
what the bank sends are lists and that a limit is at least one and at most the cap, as
the protocol's validation has it.
`TimeoutsCoverReads` is a few inequalities between constants of the code, which TLC
evaluates for the shipped values; the theorem adds that no read makes more calls than
they allow for.

| theorem | says |
|---|---|
| `GateInvariant`, `TypeCorrect`, `SpacedAttempts`, `BudgetNeverExceeded`, `CacheAgrees`, `PermitNeverLeaks`, `LockIsLatest` | the invariants of `RefreshGate_areas`, for any areas, limits and clock |
| `BreakerIsRedundant`, `BreakerSpaces` | `BreakerNeverDecides`; `BreakerSpacesAttempts`, for a circuit cooldown of any length |
| `LedgerNeverRewritten` | the action property `LedgerAppendOnly` |
| `GateRefinement` | `Spec => ImplementsAttemptGate`, the refinement of `AttemptGate` |
| `ReadsInvariant`, `SnapshotsAreWhole`, `DataIsReported`, `ReadsAreCurrent` | what a cached read may answer |
| `ControllerAndWorkerAgree`, `LiveOperationsExclude`, `NoOldSessionIsHeld` | `SessionInv`, `OneLiveOperation`, `HeldSessionIsNewest` |
| `ProbesAreSpaced` | the action property `OneProbePerCooldown` |
| `LoginsAreCharged`, `BudgetHolds`, `CooldownHolds` | `LoginsAreDebited`, `BudgetBoundsLogins`, `CooldownSpacesLogins`, for any limits, history and number of restarts |
| `WalkInvariant`, `CapturedStatementIsWhole`, `NamesAreInForce` | `StatementIsWhole` and `NamesFollowTaxonomy`, for any page size, cap, bookings and taxonomies |
| `ReadsFit`, `AnswersAreOfOneInstrument`, `SectionsAreTold`, `FieldsTellSources` | `OneInstrument`, `SectionsAccounted`, `FieldsAgree`, for any answers of the bank |
| `ListsAreFull` | `ListsDropOnlyAtCap`, for any lists the bank sends, any caps and limits |
| `CapturedIsFinite`, `DividendsAreWhole` | `DividendsAddUp`, for any statements, however the walk comes by them |
| `ClientsOutlastReads` | `ReadsFitTimeout`, for any timeouts and attempts that the clients' timeouts cover |
| `WorkerImplements`, `WorkerKeepsPromises` | the worker that takes turns behaves as the walk and as the reads do each by itself, so that it keeps the promises of both |
| `StartsAreSafe` | `StartsInv`, for any number of processes and versions |
| `CallsAreServedWithLeave`, `AuditIsTrue` | `ServedWithLeave` and `AuditTellsAnswer`, for any environments, routes, tokens, keys and policies |
| `AlertsInvariant`, `NothingIsPassedOver` | `AlertsInv` and the action property `NothingPassedOver`, for any alerts and thresholds |

None of these is inductive by itself; what each argument adds:

* **Refresh gate.** The budget is checked in the preflight and used up at the insert,
  four steps later; spacing is a fact about neighbouring rows and the preflight looks
  at the latest one only, by timestamp. `GateInv` adds what carries them:
  `LedgerOrdered` (rows start at strictly increasing times and only the last can be
  running, so the latest row is the last one and a clock set back finds the cooldown
  counting from the future), `RequestCleared` (between preflight and insert the
  request's timestamp still satisfies what the preflight saw), `RequestOwnsRow` (after
  the insert the request owns the last row, and the capture is there exactly when
  only the outcome is missing) and `CapturesOrdered`. The step lemmas treat one action
  each and `StepGateInv` puts them together. `BreakerIsRedundant` argues that the
  newest outcome of an open circuit is the latest row or older than it, and that the
  latest row then denies the request by the cooldown or is dead for less than the
  stale age. `BreakerSpaces` needs `Tripped` to be a fact about the rows that a request
  carries from its preflight to its insert (`BreakerCleared`): in between the ledger
  changes only by a dead row that is reclaimed, and that row is the latest one and its
  failure not one that trips the breaker.
  `LedgerNeverRewritten` and the refinement rest on `DataSteps`: a step
  inserts, settles a row, captures, or leaves the data alone.
* **Cached reads.** `GateInv` gives captures with increasing timestamps. `Progress`
  says what a read that is half done has found so far: rows no newer than the
  captures there are now, a timestamp no older than the rows, a snapshot by its id.
* **Market session.** `CallsInOrder`: a request whose caller still waits is the last
  one in the socket, so its reply finds the worker idle and the queue empty. `HeldFits`
  and `AnsweredMeansHeld` then carry the session from the worker's read over the reply
  to the controller's reuse window (`WindowMeansHeld`). `CircuitFits` relates the
  circuit to the read in hand, for the probes. The properties of logins relate two
  ledgers, the controller's of debits and the bank's of logins, which agree only when
  nothing is under way. `ChargesCover` therefore counts, for every time still within
  the window, the logins there were and those the requests under way may still make
  (`Chances`), and what was charged and what the callers who wait will be charged
  (`Debits`), and a budget more for each restart, whose requests nobody accounts for.
  Each step moves a login from one summand to the next: sending a request, logging in,
  replying, being charged, giving up. The budget follows from it and from what an
  admission checks (`BudgetFits`). For the cooldown it is logins that come too early
  that are counted, those that reads in the socket will still make included, and one
  more while the controller does not know of a login that was made: at most one for each
  restart (`Unhurried`).
* **Statement.** `NothingSkipped`: a row that stood when the walk began is at or after
  the offset, or read. Bookings only push such rows back (`StoodStands`), a page moves
  the offset over rows it has read, and the last page reaches the end. The names are a
  fact about one capture: whatever rows the taxonomy table is made of, looking a code up
  in them gives what looking it up in the taxonomy would.
* **Reads.** `ReadInv` keeps what the answers in hand were asked for: the candidate is one
  that a search offered and that matches the request, and each endpoint's answer was
  fetched for it. Only `Assemble` makes an answer, so the three properties are facts
  about one answer of one request (`SectionsAreAccounted`, `DetailsAgree`,
  `SourcesAreOwn`). `OneInstrument` goes from the key, which names one instrument
  (`KeyNamesInstrument`), over the row that is taken (`RowIsOwn`). `TimeFits` bounds the
  time spent by what the calls still to come leave of the timeout; the number of those
  calls falls with each step, and the four endpoints that any one type of asset needs
  at most (`FewToFetch`) are what the constants were made for.
  `LimitAlwaysHolds` counts the hits of a search bucket by bucket: what those before
  have taken and what is left make up the limit, so a bucket that was cut short has
  filled its own cap or the whole answer (`FirstFits`, `HitsFit`).
* **Dividends.** The totals are sums over sets of movements in no order, as the code's
  are integers added in any order. `SumOfParts` (the sum of sums of parts that have
  nothing in common is the sum of the whole) takes them from the events to the legs, and
  rests on `AnyComesFirst`: whichever element is added first, the sum is the same. The
  prover has no induction over finite sets; these lemmas argue from a smallest
  counterexample instead (`SmallestIn`).
* **Starts.** `StoreFits`: a start has found no later version than the store's, so if no
  missing step is applied the version it found is the store's. `PathsFit`: nobody comes
  back to a path it has left behind, so who listens when a start begins is seen
  listening by its probe or has died.
* **Gateway.** `LeaveInv`: the gateway is what the environment made of it and its keys are
  those it fetched (`Configured`); a route is there exactly when the environment gives
  both halves of it (`RoutesConfigured`), and the leave a call was given travels with it (`CallFits`). A server's policy is
  fixed at its start, and a process that started is never started again (`Stays`).
  `AuditFits` says for each stage which lines there can be yet: none before the answer
  is known but the supplement's, which tells what came of it.
* **Alerts.** `ReadingsInOrder`: a reading never comes before the baseline it is compared
  with, so a delta is never more than what happened since (`DeltaIsWindow`), and not
  less unless a reset hid it. `BaselineTaken` and `AlertsAreGiven` say that what a
  commit passes over has been delivered in this scan.

Only model-checked: liveness and fairness, which are out of the prover's reach
(`RequestsAnswered`, `DeadRowsReclaimed`, `OperationsEnd`, `AbandonedAreWorkedOff`,
`AlertsGoOut`, `KeysCatchUp`). Every invariant of a passing run is a theorem.

## What the models found

Refuted claims of the documentation and comments, each with a run:

* `refresh_circuit_open` is never returned with the shipped limits: the cooldown
  answers first. An alert that counts this code cannot fire
  (`RefreshGate_breaker_reported`; `BreakerNeverDecides` is the theorem).
* Controller and worker do not agree on the reuse window "except across a worker
  restart": the reaper may drop the session between admission and use
  (`MarketSession_reuse_agrees`). The login that follows is debited.
* The account summary shown with a movements answer may be that of a later
  capture than the movements (`CachedReads_movements`).
* A deny counter that was reset and has climbed back to the baseline before the next
  scan shows no, or too small a, delta: these denies are never alerted
  (`AlertScan_reset`).

Observations made while modelling, without a run:

* A login is entered in the rolling budget, the cooldown and the circuit under the
  time its read was *admitted*. A read that takes minutes before it logs in or fails
  shortens the spacing between actual logins and the time the circuit stays open by
  as much (`controller.rs` 255, 300; docs/LIVE-REFRESH-GATES.md speaks of logins per
  rolling hour). The properties are stated by admission, which is what the code
  keeps.
* A controller's client timeout is answered with `internal`, which is not an upstream
  failure: it resets the circuit's streak.
* docs/LIVE-REFRESH-GATES.md:22 says that an admitted live operation "maps to at most
  one worker call / Fineco login"; a tax refresh makes two worker calls, and the 401
  recovery of a market read logs in a second time. Line 65 says that a reuse skips
  "the cooldown/budget"; it skips the cooldown only (`controller.rs` 209-226), which
  is what makes `BudgetBoundsLogins` hold.
* The 401 recovery of a reused session also runs a market read twice, beyond the worst
  case that the comments of the client timeouts count (`fineco-live/src/lib.rs` 58-75:
  a search may take 240 s against 180 s). At the gateway, a market call or refresh
  that is queued behind a long details or movements call is given up after its own
  timeout and still worked off later.
* A movement that is seen twice because another was booked in the middle of the walk
  fails the whole refresh as `internal` at the unique index; the next one succeeds.
* A taxonomy answer that is empty is captured and wipes the names.
* The details of an ETF label values of the static item `search.global`; a listing or
  a quote that was asked for disappears without a word if the bank has no item under
  the key; the warning about a normalised quote unit is given without a quote as well.
* `fineco-gateway/src/lib.rs` 45-52 says that by default a connector sees every tool
  except the detailed-portfolio and the authenticated market tools; movements,
  dividends and the refresh of movements are left out as well. The `from_env`
  comment calls the external-page configuration all-or-nothing with `FINECO_ETF_URL`;
  the two routes are configured independently.
* With Access explicitly disabled a configured owner email pins nothing: every
  caller sees every tool.
* An empty key set is refused by the refresher, so a provider that withdraws all of
  its keys leaves the old ones trusted (`KeysCatchUp` speaks of a key withdrawn while
  another is published).
* Two starts that overlap may take a socket from each other, bound a moment ago; a
  backup with a newer binary migrates the store under a running older server.
* A baseline file that a kill left blank counts as 0: the alerts of the past fire
  once more (allowed by at-least-once, and excepted in `AlertsInv`).
* A freshness read that races the first capture of an area may answer `missing`
  after `refreshing` was over: three statements, no transaction.

## Not modelled, and why

* Panics of the controller and poisoned mutexes, and a clock set back in
  `MarketSession` (its arithmetic is saturating; the refresh gate is checked with such a
  clock).
* The parsing of portfolio, orders and tax payloads field by field, text cleaning, the
  arithmetic of discounted cash flows, the bounds of the request validators, the
  markup of public pages: conversions without decisions that a property here would
  tell apart. The cap of 20 warnings is not modelled either.
* Framing, JSON, TLS, HTTP, the cryptography of tokens: represented by their outcomes.
* In `Gateway`: blocking tasks that panic in the gateway itself, a store mutex poisoned
  by a handler that panicked, the further way of work the gateway no longer waits for.
* History, report and health queries, the keyed hash of identifiers and the copying of
  a backup: one read-only statement or a pure function each.
* Firewall, provisioning and encryption scripts of the host, the end-to-end mocks and
  the tooling of the repository: not the program, or configuration.
