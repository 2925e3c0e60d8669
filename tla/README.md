# Aegis: a formal model of its core

Aegis (`src/`) is a self-hosted research platform for Indian equities: it stores
market data with its history, scores stocks, judges proposed trades against 24
gates, and executes the approved ones as *paper* orders. There is no live trading
in this build. This directory holds TLA+ modules for the parts of the backend whose
correctness depends on the order of steps (`src/backend/app`), the TLC
configurations that check them on small instances, and TLAPS proofs.

All paths below are relative to `src/backend/app` unless they start with `docs/`.

## 1. The system

The backend is a FastAPI application (route functions run in a thread pool), a
Celery worker with a beat schedule, and one PostgreSQL database. A request, and a
job, has one SQLAlchemy session (`db/session.py`) at READ COMMITTED with
`expire_on_commit=False`: a read sees what others have committed
when it runs, a write is seen by others when its transaction commits, and an object
read before a commit keeps its old values after it. Components meet only in the
tables; there are no message queues between them besides Celery's job queue.

| Component | State it keeps | Operations that change it | Talks to | What is hard, and what makes it correct | Module |
|---|---|---|---|---|---|
| Paper orders (`paper/service.py`, `paper/broker.py`, `api/routes/paper.py`) | `paper_orders`, `paper_executions`, the `cash` of `portfolios`, `positions`, `theses` | `POST /paper/orders` (`place_order`) | trade risk engine (called in the middle of an order), kill switch, audit | retries by idempotency key, one row lock, a commit in the middle. An order counts once, a decision fills once, money and shares add up, every fill rests on a fresh re-check | `PaperTrading`, `PaperLedger`, `PaperTradingSerial` |
| Thesis monitor (`paper/service.py` `monitor`) | `thesis_events`, thesis status, exit proposals | nightly job, `POST /paper/monitor` | trade risk engine, alerts | commits inside a loop, two monitors at once. An event is stored, acted on and told once per session | `ThesisMonitor` |
| Trade risk engine (`trade/service.py`, `gates.py`, `context.py`, `costs.py`) | `trade_proposals`, `trade_decisions` (immutable) | `POST /trade/proposals` (`submit`), the re-check of every paper order | everything it reads | UNKNOWN never passes, and a gate that raises rejects | `TradeGates` |
| Kill switch (`services/trading_controls.py`) | `trading_controls` | activate, deactivate | engine | acts on every decision made after it; its row and its audit entry agree | `PaperTrading`, `Accounts` |
| Model registry and monitoring (`backtest/registry.py`, `monitoring/service.py`, `api/routes/backtest.py`) | `backtest_runs`, `model_versions` with validation and status, `model_monitor_runs` | backtest, activate, retire, nightly monitoring | engine (gate "model"), alerts | one model of a horizon is used, a degraded one is not, absence of monitoring is not success | `ModelRegistry` |
| Accounts (`services/users.py`, `api/deps.py`) | `users` with role, activity, session version | create, update, login, logout, password | all routes, audit | an active admin always remains; a change ends older sessions; a temporary password is replaced | `Accounts` |
| Market data store and providers (`market_data/`) | `prices`, `corporate_actions` and `data_conflicts` in versions, ingestion runs, a response cache | ingest (jobs, routes, command line) | every reader | point-in-time reads, concurrent ingestion under an advisory lock, sources with different bases | `MarketData`, `PriceSeries` |
| Alerts and price rules (`alerts/*.py`) | `alerts`, `price_alerts` | raise, check, create, edit, delete | all jobs | once per key, once per crossing | `PriceRules` |
| Portfolios (`portfolio/service.py`) | `portfolios`, `positions` of hand-kept books | create, set cash, upsert and delete positions | engine | these writers refuse paper portfolios (`portfolio/service.py:84,123`), whose rows only fills write | `TradeGates`, `AgentScores` |
| Agents (`agents/`), valuation, indicators | `agent_runs`, `agent_outputs`, `technical_indicators` | run by an analysis | the stores | an agent that computes never contradicts itself; safer facts are not worse | `AgentScores`, `Analyst` |
| Orchestrator (`orchestrator/`) and ranking (`ranking/service.py`) | `analysis_reports`, `ranking_runs` | `POST /analysis/{ticker}`, nightly ranking, replay | agents, engine | one analysis over many transactions while ingestions commit; a replay gives the same report | `Research`, `Synthesis` |
| Stores of news, fundamentals and macro data | versioned facts, headlines with near-duplicates | ingest | agents | point-in-time reads, a story counts once | `Research` |
| Backtesting (`backtest/walkforward.py`, `skill.py`, `simulate.py`) | none; produces candidates | run | registry | numerical; no look-ahead at fold boundaries | none |
| Live trading scaffold (`live/`) | none | refuses every order | readiness | nothing moves | none |
| Scheduler, CLI, configuration, rate limits, frontend, deployment | none of their own | start the above | | jobs may be redelivered (`task_acks_late`) | processes of the modules above |

`PROJECT.json` lists the components with their files and what is modelled of each,
and every hazard with the line where it bites and the properties that cover it.

## 2. Paper orders

### `PaperTrading.tla`

One instance of the module is the database (tables as sequences whose indices are
the row ids), the clock, the kill switch, and a fixed set of `Requests`, the slots
of concurrent `POST /paper/orders` handlers.

| TLA+ | Code |
|---|---|
| `decisions` | `trade_proposals` joined with `trade_decisions`; `recheckOf` is the rationale "re-check of decision #" |
| `orders` | `paper_orders`, a FILLED one joined with `paper_executions` |
| `cash`, `positions`, `openTheses` | `portfolios.cash`, `positions`, `theses` with status OPEN |
| `lock` | the `SELECT … FOR UPDATE` row lock of a portfolio |
| `req[r]` | the locals of a running `place_order`; `pc` is the statement it has reached |
| `Begin`, `LookupKey`, `CheckDecision` | arrival; `place_order` 64–72; 73–103 |
| `LockPortfolio`, `Evaluate`, `RecordRecheck` | 109; the re-check `ts.submit` (`trade/service.py`) up to, and including, its `db.commit()` at line 80, which releases the lock |
| `Reread`, `ReadPosition` | 126–163; 165–193 |
| `Fill`, `FillFails`, `Reject` | the flush and commit of 165–245, with every way it can fail |
| `Raced` | the route's `IntegrityError` handler, `api/routes/paper.py:61–70` |
| `Crash` | the process dies: the open transaction is rolled back |
| `Propose`, `Activate`, `Deactivate`, `Tick` | `POST /trade/proposals`, the kill switch, time |

A step is one statement, or a run of statements that no other session can tell
apart. Four points decide the faithfulness of the model:

* **The lock ends at the re-check's commit.** `place_order` takes the portfolio's
  row lock and then calls `ts.submit`, which commits. What follows (the second look
  for a used decision, the fill) runs without a lock and on values read before it.
* **What a request has read stays as it was.** `req[r].cash` is read under the lock
  and written back, changed, by `Fill`. The position object is different: nobody
  holds a reference to the one the re-check read, the session's identity map is
  weak, so `ReadPosition` is a fresh read.
* **A position row is written by its id.** UPDATE of a row that is gone raises
  `StaleDataError` (answered with a 500), INSERT beside a row that has appeared
  violates the unique constraint, DELETE of a row that is gone only warns. `Flushes`
  says which of these lets the commit happen.
* **`Propose` is one step.** It reads, judges and commits; a verdict from a slightly
  older state is one of the verdicts that `others` or an earlier `Propose` gives.

Abstractions: of the 24 gates the four that read this module's own state are
spelled out (`Verdict`), the rest is a free Boolean; fees, a percentage of the
notional in the code, are a whole sum per share not above the price; slippage is a
free choice among `FillPrices`; the request hash is the pair (decision, approver).
The database's `CHECK (cash >= 0)` is not modelled: `CashIsSafe` shows it is never
needed.

### `PaperLedger.tla` and `PaperTradingSerial.tla`

`PaperLedger` is the promise: a book of orders in which a key and an approval count
once, and a ledger that each fill moves atomically, exactly, and within limits.
`PaperTradingSerial` maps `PaperTrading` to it: the orders table is the book, the
position quantities are the shares. Under `SerialSpec` (a request arrives only when
none is running) every step is a ledger step or a stutter. Under `Spec` it is not;
the violation runs below show where the two part.

### What holds however requests interleave (run `concurrent`)

Two request slots, reused for further orders, over every interleaving of their
statements and with a crash at any of them; two decisions, each sent under two keys, and
one key sent for both.

* `AnswersAgree`: whoever is answered with an order gets the one order of its key. It
  is the request's own, or else the request lost a race for the key and has left a
  re-check without an order.
* `RecheckSeesCommittedCash`: until the re-check commits, the lock does what its
  comment says.
* `FillsAreRechecked`: a fill rests on a fresh approval and on a later approval of
  the same trade that this very request recorded.
* `CashNeverNegative`: the ledger stays legal, even where it no longer adds up.
* `OnlyFillsMoveTheLedger`: orders are final; nothing but the commit of a FILLED
  order moves cash or positions, and only its own portfolio and stock.
* `RequestsAreAnswered`: a request that waits for the other's row lock, key or flush is
  answered in the end, although the other takes the lock again before it or dies with
  it, unless its own process dies.

`TypeOK`, `OneOrderPerKey` (a key names at most one order) and `LockHoldersAdvance`
(a lock is held by a request that waits for no other lock, so requests cannot
deadlock and no lock is left behind) are proved, and so is each of the first five (section 11).

### What holds when requests come one at a time (run `serial`)

With crashes at every statement, the clock and the kill switch: `LedgerSpec` (the
refinement, which contains the limits and the exact sums), `NoDoubleFill`,
`HeldIsMonitored` (shares are held exactly while a thesis is open) and
`HaltStopsFills`.

### Where the code and its documentation disagree

Run `double_fill`: `docs/phase-11-report.md:17` says "concurrent orders can't
double-spend or double-fill". The lock is gone after the re-check's commit, so two
requests of one decision both pass the second look and both fill. The same model
shows three more of that kind, which no run of its own repeats:

* two fills computed from one balance: the later commit forgets the earlier debit
  (`paper/service.py:174`);
* the loser of a race on a key is answered with the winner's order as a replay, without a
  comparison of the hash (`api/routes/paper.py:67`), also when it is the order of another
  decision; `docs/phase-11-report.md:14` says that a different request with the key is
  refused. `Raced` gives that answer, and the second half of `AnswersAgree` is about it;
* a re-check whose request died before its order was stored is recognised by nothing
  (`paper/service.py:78`) and can be ordered.

### Bounds

`MaxDecisions` bounds the decisions table (`RoomForDecision` keeps a place for the
re-check of every running request, so that no request is stuck on the bound),
`MaxTime` the clock. The `concurrent` run has five decisions: two proposals and
three re-checks, or three and two, which is two overlapping orders of one decision or of two, with one before or
after them; for instance a buy whose row two sales of one decision then compete for, and two
decisions that race for key `k2`. The clock stands still
there (its interplay with requests is in `serial`). In `serial`, the price may be
at the limit or above it, the proposals are a buy of one share, a buy of two and a
sale with a limit of three shares; the intents are one decision under two keys and
one key for two decisions. So limits, partial and full sales, replays, and refused
settlements all occur; the ids in
the intents include the one that a first re-check receives.

### Fairness

`Fairness` is strong fairness of the steps of each request. A thread that can run
does run, which is weak fairness of every step but the ones that wait for a row
lock; PostgreSQL grants a row lock to its waiters in turn, so a request whose lock
becomes free again and again is not passed over for ever, which is strong
fairness. It is needed: with two slots, one may take the lock, die and come back for ever
while the other waits, and under weak fairness `RequestsAreAnswered` fails. Nothing is assumed of clients, users, crashes, or the clock.

## 3. Model registry

### `ModelRegistry.tla`

| TLA+ | Code |
|---|---|
| `models` | `model_versions`: horizon, `valid_from`, the checks of `validation` that failed, status, whether an override reason is recorded |
| `runs` | `model_monitor_runs` |
| `req[r]` | the locals of a request or job: its `now`, the model it names, the status it has read, the rivals `set_status` has found, the models still to check |
| `RunBacktest` | `run_backtest` to the commit that stores the candidate |
| `ReadForActivation`, `ReadOthers`, `CommitActivation`, then `MonitorModel` | `POST /models/{id}/activate`: the checks, the query and the commit of `set_status`, the first check of the new model |
| `ReadForRetirement`, `CommitRetirement` | `POST /models/{id}/retire` |
| `ReadActiveModels`, `MonitorModel` | `run_monitoring`, by the nightly job or `POST /monitoring/run`: one transaction per model, which retires a failed one if `AutoDisable` |
| `Estimator` | `registry.estimate`: which model gives the engine its probability |

A column is written only if the request changes the value it has read (`Written`):
activating a model read as active writes no status. A result of monitoring (drift,
calibration) is a free choice; whether a prediction can be made of an estimator's
inputs is left out, so `Estimator` is the model the engine uses when it uses one.
The deadlock of two flushes that PostgreSQL breaks by aborting one of them is one
of the outcomes of `Crash`.

Run `registry` (one request or job at a time; a crash may hit between any two
transactions): `FailedIsOut` (with auto-disable, a model that ever failed is never
used again); `NoSilentHandOver` (the engine does not go from one model straight to
another); `UnknownIsBounded` (the days of UNKNOWN results count from the oldest one
after the last PASS or WARN); `ActiveIsValidated`.

Seen in the model and kept out of the run by its bounds: two activations at once find
no rival in each other, so two models of a horizon stay active
(`backtest/service.py:239`); a retirement between the check of a status and the
activation's commit is overwritten (`api/routes/backtest.py:148`); with auto-disable
off a FAIL between UNKNOWNs restarts their count (`backtest/registry.py:77`); and a
PASS never ages: if the nightly job stops, the last one keeps its model in use, and no
document promises otherwise (`backtest/registry.py:71`).

Bounds: two models of one horizon, candidates as this build makes them (all fail the
overridable survivorship check, some also a check that cannot be overridden), three
days with an UNKNOWN limit of one, up to five monitoring runs. Two models are one
hand-over; three days are one more than the limit.

## 4. Trade gates

### `TradeGates.tla`

| TLA+ | Code |
|---|---|
| `world` | what the database, the configured mode and the sizing method say about the one stock and the one portfolio a proposal is about |
| `decision` | the decision `submit` has just stored |
| `Build`, `Equity`, `LimitsAfter` | `trade/context.py` `build`, and the equity and the limits of `portfolio/service.py` `analyze` |
| `RoundTrip`, `SpreadPaid` | `trade/costs.py` |
| `Judgements`, one operator per gate that does more than one comparison | the gates of `trade/gates.py` |
| `Status`, `FailedGates`, `Approves` | `evaluate` |
| `Submit` | `trade/service.py` `submit` |
| `Change` | a fact is learnt, lost or changes (ingestion, research, other trades) |

`evaluate` is a function, and so is `Approves`. The gates are not independent,
though: several read the costs, and two read what an earlier gate left in the
metrics, which is not there if that gate raised (`NetKnown`, `KellyKnown`, and
`broken`, the gates that raise). Prices are integers and fractions per
mille, rounded down as a whole; the benchmark's return is linear in the horizon; what
the limits say of the other holdings themselves is one fact (`rest`). The broker's health is
`None`, as in this build.

Two missing facts do not become UNKNOWN. A stock without a sector on record joins the
holdings without one, which cannot fail and are UNKNOWN only when they alone exceed the sector limit
(`portfolio/service.py:188, 294-306`: `Bucket`, `SectorLimit`); and where there is no snapshot of the equity the
losses are measured from the starting cash (`566-573`: `Baseline`, `Peak`). So losing one
may turn a refusal into an approval, although `trade/context.py:3-4` says that "anything that cannot
be determined is left as None, which the gates treat as UNKNOWN (reject)".

Run `engine`: from a day on which every gate passes, every pair of facts may be
unusual: missing, failing their gate, or at a value where two gates interact. It
shows `IgnoranceNeverHelps` (losing one more fact never turns a refusal into an
approval, except the quote of an exit, which the code replaces by the widest spread on
purpose, and the two facts above, which lift no refusal but one that was due to nothing
but the limit that reads them), `BreakageNeverHelps`, `ApprovedEntryFits`, `SmallerIsSafer` (an approved
trade is approved for one share less), `ExitsIgnoreResearch`. Bounds: `MaxOdd = 2` unusual facts, 14 proposals
on both sides of the thresholds (five shares are one more than sizing allows, a target
of 15 pays for the costs of one share and not of three), no gate or one of three
raising. A third unusual fact is what `IgnoranceNeverHelps` and `ExitsIgnoreResearch`
add to each of these worlds themselves.

## 5. Thesis monitor

### `ThesisMonitor.tla`

Bought shares have an open thesis with a stop, a target and a horizon. The nightly
job and `POST /paper/monitor` run `monitor` (`paper/service.py:304-391`), possibly at
once, while orders fill.

| TLA+ | Code |
|---|---|
| `theses`, `events`, `proposals`, `alerts` | `theses`, `thesis_events`, the exit proposals among `trade_proposals`, the keys of `alerts` |
| `market`, `report`, `position` | the last stored session and its close, the last report, the row of the holding |
| `mon[m]` | a running `monitor`: the theses it still has to look at, the position object of its session, and what it has changed and not committed (`closing`, `events`, `alerts`) |
| `List`, `Look`, `SkipKind` | 304–309; 310–340; 341–349 |
| `Propose`, `NoProposal` | 351–363; `ts.submit` commits everything the run has done so far |
| `StoreEvent`, `EventRaises`, `Finish` | the flush of 364–391 with the unique key; the collision that ends the run; the last commit |
| `Buy`, `Sell`, `NewSession`, `Revise`, `Research`, `Die` | fills, bars, revised bars, reports, and a run that is lost and delivered again |

Two details of the session matter. A position row the run has read stays the object
it was (`SeenPosition`), so a later proposal may be for shares that were sold
meanwhile; the engine is what refuses it. And a thesis whose position is not found is closed
at the *next* commit (`Closing`, `Closed`), which may be many steps later.

Run `monitors`: `EventsAreTold` (a stored event has its alert, has been pushed if
severe, names its own exit proposal, and is the only one of its key),
`HeldIsWatched` (shares are never without an open thesis, although a run closes
theses some commits after it looked), `StopIsNoticed` (a close at the stop gets its
event).

Seen in the model: a push cannot be rolled back, so a run that dies after it tells
the same event again when it is repeated (`EventsAreTold` speaks of stored events); a run
that loses a collision drops what it has not committed of other theses, to be found by the
next run; the proposal of the run that lost stays, without an event
(`paper/service.py:362`).

Bounds: two runs, one stock, one session with a close at the stop or above it, two
theses, and one surprise (a revised close, a report or a death). Two theses are a
commit inside the loop with something before it; a second session would repeat the
first under other keys. Fairness: weak fairness of each run's `Step`. The beat starts
the job every weekday (`scheduler/celery_app.py:61`), a lost job is redelivered
(`task_acks_late`), and a thread that can run does.

## 6. Price rules

### `PriceRules.tla`

| TLA+ | Code |
|---|---|
| `rules`, `alerts` | `price_alerts`; the keys (rule and session) of `alerts` |
| `closes`, `fresh` | the stored bars of the stock and its freshness (`market_data/freshness.py`) |
| `check[c]` | a running `check_all`: the rules it listed, the objects it has read (`known`), and, between flush and commit, what it writes |
| `ListRules`, `CheckRule`, `CommitRule` | `alerts/price_rules.py` 164–171; 113–161 up to the flush, which locks the row; the commit |
| `RuleFails`, `CheckRaises`, `CheckDies` | the rollback of one rule, which expires the objects of the session; a rule that was deleted raises in the handler (175–177); the process dies |
| `CountRules`, `InsertRule`, `ReadRule`, `SaveRule`, `DeleteRule` | the routes of `api/routes/price_alerts.py` |
| `Written` | an UPDATE of the columns whose values differ from those read |

Run `rules`: `OncePerCrossing` (between two alerts of a rule its condition has cleared,
unless its user has edited it since the first; a one-shot rule that was never edited fires
once), `FiringIsAlerted` (a rule that
fires on a close it was not edited after stores a new alert in the same transaction),
`CrossingIsNoticed` (a crossing has its alert in the end, whatever fails, unless the rule
or the data change first).

Seen in the model and left to the hazards: two overlapping checks both find a rule
armed and both count a firing, and the key stores one alert for one session, but two
if a new close comes between them; an
edited rule that fires again on the close it fired on before is silent
(`alerts/price_rules.py:148`); a `PATCH` that switches a rule on is not held to
`MAX_RULES`; an alert is pushed before its transaction commits
(`alerts/service.py:153`), so a rollback forgets a told alert and it is told again.

Bounds: one check at a time, one request, one user, closes on both sides of the one
threshold, one rule, three sessions, one edit. Three sessions are a crossing, a
clearing and a second crossing. The other conditions differ in `Met` only. Fairness:
strong fairness of listing, checking and committing: the beat starts the job again and
again, and the transaction of a rule does not fail every time it is tried.

## 7. Market data

### `PriceSeries.tla`

Days, sessions and the instants a bar becomes available (`market_data/calendar.py`),
the validation of a batch (`validation.py`), freshness, and the conversions between
raw, split-adjusted and total-return closes (`adjustments.py`), as operators over
functions from days to closes, with fractions as pairs.

### `MarketData.tla`

| TLA+ | Code |
|---|---|
| `prices`, `actions`, `conflicts` | the versions of bars and of corporate actions, by source; `data_conflicts` |
| `feed`, `cache` | what a provider reports; the Redis cache of its responses |
| `jobs[j]` | a running ingestion: its range and `now`, its batch, the versions it has read |
| `Start` | `refresh_eod_prices`, the route and the command line |
| `FromCache`, `FromSource`, `Fail` | `providers/yahoo.py`, `providers/nse_bhavcopy.py`, a failed run |
| `Lock`, `Store` | `ingest_batch`: the advisory lock, validation and the current versions; the new versions and the commit |
| `Known`, `Rows`, `Series`, `ActionsAsOf`, `Chosen`, `StoredReport` | the reads of `market_data/service.py`, all with `as_of` and `knowledge_at` |
| `Analyse`, `Reading` | the technical agent's use of them |

Run `market_data`: `VersionsAreLinear` (versions have no gap, each says something
new, every revision is on record, no ingestion is lost to the numbering),
`CompleteWhenRetrieved` (no bar was retrieved before its session closed, although the
cache hands old answers to later jobs), `ReplayIsExact` (an analysis replayed with
its cut-offs reads the same closes, status, freshness and quality),
`ReturnsAreAHolders` (raw closes converted to split-adjusted and total-return series
gain what a holder gained, of a stock with one action of a kind on a date).

That last premise is a gap too. `parse_actions` makes a "split" of a face-value split and of a
bonus (`providers/nse_bhavcopy.py:162-180`), and versions of an action are numbered by kind and
ex-date, so of a split and a bonus on one date the second is stored as a revision of the first
(`market_data/service.py:258-272`: `NewActions`, `ActionVersions`), and the series is adjusted by one of them
only. The run has such a world (`SplitAndBonus`): the other three properties hold in it, and
without the premise (`RawReturnsAreAHolders`) TLC finds the jump within eight steps. The order
of two actions of one key in a feed is fixed but arbitrary, and two of equal ratio are one in the model.

`ReplayIsExact` has two premises, both real gaps against `docs/phase-3-report.md:30`:
that the same source is chosen (`_stored_choice`, `market_data/service.py:510`,
prefers any licensed source stored *by now*), and that no row the analysis should
have known was committed after it (`late`: `retrieved_at` is taken before the commit).

Run `rebased`, a disagreement: `scheduler/celery_app.py:140` asks Yahoo for the last
days only. Yahoo restates its whole history at a split, so the bars before those
days stay on the old basis, and the stored "split-adjusted" series has a jump no
holder saw (`AdjustedReturnsAreAHolders`).

Seen in the model or beside it: an older response that commits last becomes the latest
version; the last stored session is taken over all sources
(`market_data/service.py:640`), so the refresh of a new source skips its history;
freshness may pass while the chosen source is stale; a split and a bonus on
one line lose the bonus (`providers/nse_bhavcopy.py:161`).

Bounds: three sessions with a dividend on the second and a split on the third, or with a split and a
bonus on the second, both providers, two ingestions, one flaw, one restated close, a clock long enough for both
jobs to run before, within and after the last session. Two ingestions are one race. No
liveness is claimed: nothing in the code promises that a provider answers.

## 8. Accounts

### `Accounts.tla`

| TLA+ | Code |
|---|---|
| `users`, `tokens` | the rows of `users`; the access tokens issued |
| `switch` | the row of `trading_controls` and who holds its lock |
| `trail` | what the entries of `audit_logs` add up to, in their order |
| `request[r]` | a request: the row authentication has read, the row it changes, the new values, the admins it has counted |
| `Begin`, `Login`, `IssueToken`, `ChangePassword` | `api/deps.py`, `api/routes/auth.py`, `services/users.py` |
| `FindForReset`, `ResetPassword`, `FindForUpdate`, `CountAdmins`, `UpdateUser`, `FindForInvite`, `CreateUser`, `CreateByOperator` | `api/routes/users.py` over `services/users.py`, and the command line |
| `LockSwitch`, `SetSwitch`, `DenyRelease` | `services/trading_controls.py` |
| `Abort` | the session is closed without a commit: an error, or the process died |

Run `accounts`: `AnAdminRemains`, `RevokedStaysOut`, `TemporaryIsReplaced`,
`TrailTellsTheState`. The first three carry an exception, which is where the code
has a race, and state that there is no other way to break them. Without the exceptions, that is as
the documentation has them (`services/users.py:116,141`, `README.md:115`), TLC violates all three:

* two admins who demote each other both count two admins (`services/users.py:153`);
  `overtaken` says that an update was committed after what it had checked changed;
* `session_version` is incremented from the value the request has read (`162`); two
  changes computed from one version count once, and a token issued between them
  lives on. `raced` are the accounts to which that happened;
* a reset and a change of one account that overlap may leave a temporary password
  that need not be replaced.

A request is authorised by the row read at its start and commits later; being demoted
meanwhile does not stop it. That is the code, and no property speaks against it.

Bounds: two overlapping requests, two admins and one invited user, two changes, three
tokens; requests and admins are interchangeable (`SYMMETRY`, in a run without
liveness). Two changes are a demotion answered by another, or a reset that meets an
update. Left out: failed logins, the rate limiter, expiry of tokens, `last_login_at`,
and the release of a switch whose row is missing.

## 9. Agents

### `AgentScores.tla` and `Analyst.tla`

`AgentScores` is the scoring of the seven agents as operators: facts to directed
signals, signals to a score and a confidence (`agents/common.py`), and the contract
of an output (`agents/base.py`) whose refusal makes an agent `FAILED`. Percentages and
hundredths of a point are integers; the discounted cash flow of
`valuation/dcf.py` is computed in integers too. `Analyst` runs one agent again and
again while its facts change (`Observe`) or something it calls raises (`Break`). `Absence`
declares `None`, the missing fact, for these modules and for those of section 10.

What the rules may be is stated in `RulesHold` (the constraints `core/config_file.py` puts on each
section), what the facts may be in `FactsHold` and `FactTypes`. Two of them say that the units of
the model are fine enough: a threshold that is halved is at least two units, and a
headline that is read is recent enough for its weight not to round to nothing.

Run `agents`: `OnlyBreakageFails` (an agent that computes never refuses its own
result), `SaferIsNotWorse` (less drawdown, beta, or more liquidity and Sharpe ratio
never lower the risk score), `ScoredDcfIsCoherent` (bear, base and bull are in order,
and in whole rupees, as it is named, the price that voids the view has not been passed).

Two agents refuse or fail on their own account, and these are the exceptions of `OnlyBreakageFails`:
the technical agent compares levels rounded to the paisa with the
unrounded close (`agents/technical/analysis.py:449`) and so fails when they lie half
a paisa apart (`PrintsOntoClose`); the fundamental agent reads the row before the last
(`agents/fundamental/agent.py:55`) and fails where the rules let it run on a single annual period and there is
but one (`LacksPriorYear`; `core/config_file.py:174` allows it, `config/aegis.yaml` does not).

Seen in the model: the void price is named in whole rupees (`valuation/agent.py:343-346`: `WholeRupees`), so the
price itself may have passed it by less than half a rupee; that of an *unreliable* cash flow
may have been passed altogether (`valuation/agent.py:342`),
which is why the property speaks of scored ones; a calmer last month
can lower the risk score (`risk/agent.py:121`), which is why volatility is equal in
`SaferIsNotWorse`.

Bounds: the thresholds and weights of `config/aegis.yaml`, but for short histories and one annual period,
the least the configuration allows; an ordinary stock of which at
most two facts are unusual at a time, out of values on both sides of every threshold,
unknown, and at the extremes. Two, because the scores are sums of signals of which
few read more than two facts.

## 10. Orchestrator, stores of facts, ranking

### `Synthesis.tla` and `Research.tla`

`Synthesis` is `orchestrator/synthesis.py`: the weighted vote, the vetoes, the
missing coverage, the conflicts and the stance.

| TLA+ (`Research`) | Code |
|---|---|
| `facts`, `stories` | `financials`, `macro_data` and `prices` as versioned figures; `news` with `duplicate_of` |
| `features`, `reports`, `rankings` | the snapshots of `technical_indicators`; `analysis_reports`; `ranking_runs` |
| `holdings`, `config` | the portfolio's present positions; the configuration's fingerprint |
| `work[p]` | a running request or job: the answer of a provider, the agents still to run and their outputs, or a ranking |
| `Fetch`, `Compare`, `Ingest` | the `ingest_*` functions of `fundamentals/service.py`, `macro/service.py`, `news/service.py`: the answer, the comparison with what is stored, the commit under the unique keys |
| `Request`, `RunAgent`, `StoreFeatures`, `Narrate`, `StoreReport` | `POST /analysis/{ticker}` and `run_analysis`, one agent, and one commit, after the other |
| `Replayed`, `Reproduced` | `replay` of `orchestrator/service.py:109` |
| `StartRanking`, `CheckReport`, `Evaluate` | `run_ranking`, which refreshes old reports by analyses of its own |

Run `research`: `ReplayReproduces` (a report is reproduced by its replay),
`StoriesCountOnce` (one story is told once), `RankingSeesRefresh` (a ranking judges on the
reports it has refreshed) and `BetterIsNeverWorse` (agents that score no better give no
better stance).

The premises of `ReplayReproduces` are where the code falls short of the "consistent
point-in-time snapshot" of `docs/phase-8-report.md:8`: an ingestion whose
`retrieved_at` is earlier than the cut-off may commit between two agents' reads
(`late`); the portfolio agent reads present positions, so its output changes with
the next trade; an agent that failed is run again. `StoriesCountOnce` excepts
overlapping ingestions, a missing embedding model, which finds no duplicates, and a
headline retrieved more than `Recent` ago (30 days in `news/service.py`), which is no longer
compared with (`TooOld`). Within a batch and towards the stores a headline is known by its
index, so two headlines of equal content are two stories, as two rows are in the code.

Seen in the model or beside it: two analyses of one snapshot insert the same feature
rows outside any `try` (`agents/technical/agent.py:250`), and the later one, a whole
ranking included, is aborted; two ingestions of the same news or filings collide and
the later batch is lost; a score of 0 counts as neutral in the conflicts
(`score or 50.0`); versions of a macro series are compared across sources.

Bounds: one stock, two interchangeable workers, prices, filings and headlines (one of
them undated), five of the agents with three required to be usable, three pieces of work,
one trade or redeployment, requests for now and for an earlier instant. `MaxAge = 0`
and `Window = Lookback = Recent = 1` put every threshold in the middle of a clock of two ticks,
except that a headline out of the comparison's reach takes a third tick: in this run the
`TooOld` of `StoriesCountOnce` excuses nothing, and the theorem of section 11 has it for any clock.
No liveness is claimed of requests that users repeat themselves.

## 11. Proofs

`PaperTrading_proofs.tla` proves, for any number of requests, portfolios, stocks,
decisions and any prices and limits:

* `TypeCorrect`: `Spec => []TypeOK`. In particular no position is ever negative and
  no request refers to a decision that does not exist.
* `CashIsSafe`: `Spec => []CashNeverNegative`.

The argument. Neither property is inductive. A `Fill` writes
`req[r].cash - notional - fees`, a value decided two steps earlier, so the invariant
must say what a request has learned on its way: `Settling` (in `fill`, the request's
balance and position can settle its trade at its price) and `RowsExist` (from
`lock` on, its decision exists; from `reread` on, its re-check does). With the
non-negativity of the balances that requests carry this is `MoneyInv`;
`TypeInv /\ MoneyInv` is preserved by every action (`TypeStep`, `MoneyStep`, one
step per action), because a fill settles against the very values it writes, stale
or not. That is why cash stays non-negative even though it does not add up.

The same module goes on from `Core`, which is `TypeInv /\ MoneyInv`: `Spec => []Core`
(`CoreInv`) is what all later steps assume of every state.

* `KeysAreUnique`: `Spec => []OneOrderPerKey`. Inductive given `Core`: the orders
  table only ever grows by one row whose key is free at that moment (`OrdersMove`),
  which is the unique constraint and not the lookup at the start of `place_order`.
* `OnlyFillsMove`: `Spec => OnlyFillsMoveTheLedger`, an action property, from the
  ledger step of a fill (`FillIsLedgerStep`) and from every other action leaving cash
  and positions alone (`LedgerStays`).
* `LocksAreHeldBriefly`: `Spec => []LockHoldersAdvance`, and
  `RechecksAreSerial`: `Spec => []RecheckSeesCommittedCash`. Neither is inductive
  alone: a request could evaluate without the lock. `LockInv` adds `HasLock(r)`, that
  a request in the middle of its re-check holds its portfolio's lock and has read the
  committed balance. A fill of another request could break the latter, and does not,
  because a fill waits until the row is free and a holder is of its own
  portfolio (`CashOfHolder`, `OthersHold`).
* `AnswersAgreeOnKeys`: `Spec => []AnswersAgree`. An order answered as new is the one
  just stored, one found by the key at the lookup was compared with the request
  (`OwnStepAnswers`). One that is answered from the handler of `IntegrityError` was not; but the request
  has stored its re-check by then (`LoserLeavesRecheck`), and nobody takes that up again (`LeftStays`);
  and orders are never changed (`AnswerStays`). That the winner's order may be a stranger's is not excluded, because it happens.

That the lock works makes the disagreements of section 2 sharper: the re-check is
serial and reads committed cash, but the fill that follows the commit of the re-check
is not protected by it.

The second half of the module proves what a fill rests on, again for `Spec`:

* `FillsRestOnRechecks`: `Spec => []FillsAreRechecked`, and
  `HaltedRechecksFillNothing`: `Spec => []HaltStopsFills`. A fill happens five
  statements after the approval was accepted, so `ChainInv` follows the request on
  its way: the decision was approved and fresh (`Approved`), an approving verdict has
  not seen the kill switch (`HaltRespected`), the re-check on record is later, of the
  same trade and unused (`Backed`), and two requests never hold one re-check
  (`Apart`), which is why a re-check serves one order.

and what holds where requests come one at a time (`SerialSpec`), with crashes, time,
proposals and the kill switch in between:

* `SerialFillsOnce`: `SerialSpec => []NoDoubleFill`,
* `SerialHoldingsAreMonitored`: `SerialSpec => []HeldIsMonitored`,
* `SerialRefinesLedger`: `SerialSpec => LedgerSpec`, the refinement.

All three rest on `CurrentInv`: only one request runs (`Alone`), so what it has read
is still so when it writes: its balance is the committed one, the limit it was judged
by still has room, its decision is still unfilled, the position it read is the row.
These are the four facts that fail in run `double_fill`, and the four the missing
lock after the re-check would have to protect. In the refinement proof every action but
`Fill` and `Reject` leaves the book, cash and shares alone; a fill is one `Buy` or
`Sell` of the ledger (`FillRefines`), a rejection one `Refuse` (`RejectRefines`).
That the entry's key is new to the book is the unique constraint again.

Assumptions: those of `PaperTrading.tla` on its constants, of which the proofs use
that a fill price is not below the fee per share (a sale never costs money). TLC
evaluates them in every run.

`ModelRegistry_proofs.tla` proves, for any number of concurrent requests, models and
horizons:

* `RegistryTypes`: `Spec => []TypeOK`.
* `OnlyValidatedModelsAreActive`: `Spec => []ActiveIsValidated`, the one property of
  the registry that survives every race.

Its invariant is `RegistryInv`: `Sound(req[r], models)` says that a request which
has passed the checks of `activate` names a model whose failed checks its reason
covers. That stays true while others commit because what a candidate failed is never
rewritten (`Extends`), and it is what makes `CommitActivation` record an override
whenever the model needs one (`ActivationValidates`).

For one request or job at a time (`OneAtATime`, an assumption of these theorems, and
the setting of run `registry`) it also proves

* `FailedStaysOut`: `Spec => []FailedIsOut`,
* `UnknownEnds`: `Spec => []UnknownIsBounded`, which assumes `AutoDisable` as well: a model that
  failed and stayed active could otherwise begin its count of days anew,
* `HandOversAreSeen`: `Spec => NoSilentHandOver`.

`SerialInv` adds what a request has read and is still so (`StillSo`), that a horizon has one
active model (`OneActive`), and that a model with a run is no candidate and, if it
failed, is retired (`RunsTold`). A newly active model therefore has no run, and the engine
does not use it until it has (`NewsIsUnchecked`). That the engine names an active model at all
needs a latest row to exist (`ActiveModelFacts`, from the well-foundedness of the naturals).

`TradeGates_proofs.tla` proves, for any thresholds, proposals and facts: `EngineTypes`,
`ApprovedEntriesFit`, `ExitsAreNotBlocked`, `CrashesReject`, `IgnoranceRejects` and
`FewerSharesPass`, that is `Spec => []` each property of run `engine`. The invariant is `Engine`: the decision
just stored is the verdict on its proposal in the present world. The rest is about
the function: a gate that applies to an approved proposal has passed
(`ApprovedPasses`), a quantity below a rounded quotient is within what was divided
(`Shares`), contexts that agree on the fields of the exit gates get one verdict on an
exit (`ExitVerdict`), and a lost fact either leaves some gate undecided
(`SafetyFactLost`, `EntryFactLost`), matters to no gate that was decided
(`VolatilityLost`), or is read by one gate only (`ReplacedIsReadOnce`), which then was all that had
failed (`ReplacedFactLost`). For `FewerSharesPass` every quotient is shown to move the right way
(`SmallerQuotient`): the impact falls, so the reward after costs rises and the risk
falls (`ReducedRisk`), and so the Kelly fraction and its cap do not fall (`ReducedKelly`). Assumed: prices and
quantities are positive, cash, holdings, turnover, volatility and horizons are not negative,
a probability is between 0 and 1000 per mille, `None` is not a number.

`Accounts_proofs.tla` proves, for any number of users, requests and changes:
`AccountTypes`, `AdminsRemain`, `RevokedSessionsEnd`, `TemporaryMustChange`,
`TrailIsTrue`. Its invariant relates a row to the trail: the number of changes of an account
*is* its session version while it is not in `raced` (`Row`), and a row a request has
read is either outdated by its version or still the row (`Read`). `Grows` is
what others may do meanwhile, and every action is shown to stay within it. The admins
counted by an update are then still there when it commits, or the update is
`overtaken`.

`ThesisMonitor_proofs.tla` proves `MonitorTypes`, `EventsTold` and `HeldWatched` for
any number of runs, theses and sessions. What a run holds is the point: what it will
close is closed already, because without a position no thesis is open, and closed
theses never open again (`Holdings`); the events of two runs that have not committed
have different keys (`KeysInv`, the unique index); and an event a run holds is told by
the stored alerts together with the run's own (`Told`), so a commit keeps the promise.

`PriceRules_proofs.tla` proves `RuleTypes` for any number of checks, and `FiringAlerts`
(`Spec => FiringIsAlerted`) and `CrossingsFireOnce` (`Spec => []OncePerCrossing`) for one check
at a time (`OneCheck`, an assumption of both, which is the beat's schedule but which the code
does not enforce. With two, both fire, and the second finds its key taken, so
`FiringIsAlerted` fails; or the second, which read the rule while it was armed, sees the
next session's close and fires for it too, so a one-shot rule alerts twice). The
invariant says that a flushed rule stays on its session or moves to one that nothing
of the rule is later than, that its row is locked until it commits, and that the
rule a check knows differs from the stored one only by edits since.

`CrossInv`, which `CrossingsFireOnce` adds to it, is the history of a rule told by its
state (`Crossed`): a rule that is armed has cleared, up to its own session, since each of
its alerts, or was edited since; a rule that was never edited and has alerted either repeats
or has ended. What a check holds between flush and commit is one of three moves (`Moves`): a firing
disarms, a clearing arms, the rest changes nothing of the condition. The move was
computed from what the check knew, so it must still be current when it is written:
either the stored rule is what the check knows, or an edit has come after all of the rule's
alerts and excuses it (`Current`). That argument is also what corrected the property:
as first written it asked for an edit *between* the two alerts, which an edit of
the threshold after the second one refutes, because the sessions between are
then judged by a level that was not in force.

`MarketData_proofs.tla` proves `MarketTypes`, `LinearVersions`, `RetrievedComplete` and
`ReplaysAreExact` for any calendar, sources' answers and number of ingestions, and
`ReturnsOfAHolder` for any splits and dividends as well. The holder of the lock
has read the current versions, because nobody else writes (`Job`, `OneHolder`); and a
batch is no older than its job by more than a bar takes to become available, because
`CacheTicks <= Lag` (`CacheAssumption`, which `config/aegis.yaml` satisfies and
nothing in the code enforces), so a session the job counts as completed was
completed when the answer was made. For the replay, a store that is not late appends
only versions the analysis could not know, so the versions known at its cut-off and
their last one stay the same (`SameVersions`, `SameLast`); and all that an analysis
reads is made of those (`ReadingIsOfRows`), so the conversions need not be unfolded.

`ReturnsOfAHolder` (`Spec => []ReturnsAreAHolders`) has two parts:

* *The tables* (`ExchangeInv`): whatever part of the history an ingestion asks for, its answer has,
  with the bar of a day, the actions of that date (`ExchangeBatch`, `ExchangeAnswers`); the bar and
  the actions are stored in one transaction, so a stored bar has the actions of its date beside it, and
  every stored version of an action says what the world says (`StoredAction`). Without the batch in the
  invariant it is not inductive. Of two adjacent stored sessions, what lies between for a holder is
  therefore known: the split and the dividend of the second one's date (`StockIsKnown`, `StockFacts`).
* *The conversion*: the products over all later ex-dates differ, from one session to the next, by the split and the
  dividend of one date (`SplitsOfGap`, `DividendsOfGap`, `DividendOfDate`); the fold is shown to be a
  product that any element may be taken out of first (`OneProduct`, by `SubsetInduction`), and what is left
  are identities of fractions (`SplitReturn`, `ScaledReturn`, `CashReturn`) that hold without cancelling,
  so a factor of zero is no exception, and the premise `CanReinvest` is not needed.

It assumes `WorldsAssumption`: ex-dates are sessions, which is what `validate_bars` takes for granted
(`validation.py:207`: a move is explained by an action of the bar's own date); if an ex-date could fall between
two sessions, a refresh that starts at the later one would not ask for it. That a stock has one split and one dividend
of an ex-date is no assumption on the worlds but the premise `OneOfAKind` of the property itself.

`Research_proofs.tla` proves, for any number of workers, stocks, agents, providers' answers
and any weights, vetoes and thresholds, all four properties of run `research`. The invariants are
layers, and each theorem takes the ones it needs:

* `ShapesInv` (`ShapesHold`): what a worker holds is of the shape its next step expects,
  and no instant it holds is in the future.
* `ReplayInv` (`ReplayIsReproduced`: `Spec => []ReplayReproduces`): each output of a running
  analysis and of a report is what its agent would read *now* under the cut-offs of the
  report, unless the agent is `late`, failed or reads holdings (`AsRead`). Commits of ingestions
  keep this because a row that becomes visible under the cut-offs makes the agents
  that had read its store late, and all other rows are invisible to them (`ReadingStays`).
* `StoriesInv` (`StoriesAreToldOnce`: `Spec => []StoriesCountOnce`): a headline that waits to be
  committed has been compared with every story stored by then, or the story was stored after the
  comparison, or was too old for it (`Compared`); two batches never have one run.
* `RankInv` (`RankingUsesWhatItRefreshed`: `Spec => []RankingSeesRefresh`): of the stocks a
  ranking has done with, each has a report made since it was asked, or one young enough
  then (`Refreshed`), also while the analysis it started itself is running.
* `ScoreInv` (`BetterScoresAdviseNoWorse`: `Spec => []BetterIsNeverWorse`): every usable output
  has an integer score in 0..100. The rest is about the function. Synthesis sums votes over the set of
  usable agents with a fold, and induction over data is out of reach; instead a partial sum over
  chosen subsets is characterised by equations (`IsSum`), shown to exist by taking a smallest
  set without one (`SumExists`), and the fold of the community module is identified
  with it (`SumFacts`). Sums of products then grow with their
  terms, the weighted mean with them, rounding keeps the order, and a veto
  that the better report has is a veto of the worse one (`StanceKeepsOrder`).

Assumed are the types of the constants (`UniverseAssumption` to `PlanAssumption` in
`Research.tla` and `OrchestratorRules` in `Synthesis.tla`): scores are numbers, headlines have
titles and dates or none, weights are whole percentages, and a veto's threshold lies between 0 and 100, which is what
`core/config_file.py` validates.

The last part of `Research_proofs.tla`, which extends `Analyst` as well, is about the agents
those analyses run, and uses the same sums. For any rules and facts within `RulesHold`
and `FactsHold` it proves all three properties of run `agents`. The invariant is small
(`AgentInv`: the facts are of their types, and the output is the agent's output of them unless something
raised); the work is in the functions:

* `AgentsMeetTheContract` (`AgentSpec => []OnlyBreakageFails`): the signals of each agent have a sign and a
  strength in 0..100, whatever the facts. The mean of a category is therefore within 10000 either way
  (`CategoryNetWithin`), the weighted tilt within what the present weights allow, and so the score within
  0..10000 and agreement and breadth within 0..100 (`CompositeBounds`), which is the contract; a
  confidence is a product of such shares (`ShareOfShares`). News and macro have formulas of their own.
  The two exceptions are where it breaks off: `PrintsOntoClose` for the technical agent
  (`TechnicalSeldomFails`), and `LacksPriorYear` for the fundamental one, whose rules may allow one annual
  period.
* `CashFlowsCohere` (`AgentSpec => []ScoredDcfIsCoherent`): the value of a share grows with the growth
  and the margin and falls with the discount rate, through every rounding (`PerShareOrder`, over the
  years one at a time: `NaturalsByOne`, `CompoundOrder`), so the bear case, the
  base case and the bull case are in order (`ScenarioOrder`), where only cases whose discount rate exceeds
  the terminal growth are computed; and a score above 5000 means a margin of safety, which puts the
  price at or below the base case (`SafetyFacts`) and so at or below the bull case; rounding to whole
  rupees keeps that order, and the rounded bull case is the limit.
* `SaferStocksScoreNoWorse` (`AgentSpec => SaferIsNotWorse`): every category but volatility holds at
  most one signal (`RiskCategories`), whose direction times strength moves the right way past
  the point where its direction flips (`ContributionOrder`); the weights present are the same in both, so
  the renormalised mean keeps the order (`CompositeOrder`).

Only model-checked is liveness (`RequestsAreAnswered`, `CrossingIsNoticed`, `StopIsNoticed`), which is
out of the prover's reach.

## 12. What is not modelled

The notes in `PROJECT.json` say what is left out of each component. As a whole:

* **Numerical code**: indicators, risk statistics, training and evaluation of
  models (`backtest/walkforward.py`, `skill.py`, `simulate.py`), drift and
  calibration. These are floating-point computations over arrays in one transaction;
  their results enter the modules as facts or free choices.
* **Input and output**: parsers of provider answers, PDF documents, CSV uploads, channels
  of alerts, the narrative of a report, the frontend, the command line, deployment.
* **Live trading**: the scaffold refuses every order.
* **Unit-level state with no interaction**: watchlists, journals, the inbox, hand-kept
  books of portfolios, the rate limiter.
* **Triggers against UPDATE and DELETE** of immutable tables: no action of a module
  rewrites those rows, so they hold by construction.

## 13. Plan

| | Module | Subject | Theorems |
|---|---|---|---|
| done | `PaperTrading`, `PaperLedger`, `PaperTradingSerial` | paper orders, the promise and the refinement | all safety properties and the refinement |
| done | `ModelRegistry` | activation, retirement, monitoring, use of a model | types and all of its properties |
| done | `TradeGates` | the context, the costs, the 24 gates and the verdict | types and all of its properties |
| done | `ThesisMonitor` | events, exit proposals, commits in the loop | types, events, held shares |
| done | `PriceRules` | arming, edits, firing and alerting | types and both safety properties |
| done | `PriceSeries`, `MarketData` | versions, locks, point-in-time reads, conversions | all of its properties |
| done | `Accounts` | sessions, roles, passwords, the switch and the trail | all of its properties |
| done | `AgentScores`, `Analyst` | the scoring of the agents | all of its properties |
| done | `Synthesis`, `Research` | stores of facts, analyses, replays, ranking | all of its properties |
| next | walk-forward folds | embargo at the boundaries of folds: no look-ahead | |
