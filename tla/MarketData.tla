------------------------------- MODULE MarketData -------------------------------
(***************************************************************************)
(* The market data store for one NSE stock (backend/app/market_data):       *)
(* jobs fetch a range of daily bars and corporate actions from a provider,   *)
(* validate them and store what changed as new versions; an analysis reads   *)
(* one source, cut off at as_of and knowledge_at, and can be replayed.       *)
(*                                                                         *)
(* yahoo serves split-adjusted bars from a response cache and is not         *)
(* licensed; nse_bhavcopy serves raw bars and is.  PriceSeries has the        *)
(* calendar, the validation and the conversions.                             *)
(*                                                                         *)
(* Op_bug names a plausible bug in Op.  No action uses it.                  *)
(***************************************************************************)
EXTENDS PriceSeries, SequencesExt

CONSTANTS
    None,          \* no value
    Jobs,          \* slots of running ingestions
    Worlds,        \* [closes, actions]: what is traded, and the splits and dividends
    Restatements,  \* <<day, close>>: days a provider may restate, with what
    Flaws,         \* <<kind, day>>: a day is missing, its row corrupt, or there are two
    Overlap,       \* days before the last stored one that a refresh asks for again
    CacheTicks,    \* ticks a cached response lives
    MinHistory,    \* sessions an analysis needs
    MaxClock,      \* bound of the clock
    MaxJobs,       \* bound of the ingestions
    MaxFlaws,      \* bound of the flawed responses and failures
    MaxRevisions   \* bound of the restated closes

ASSUME BoundsAssumption ==
    /\ Overlap \in Nat /\ MinHistory \in Nat /\ MaxClock \in Nat /\ MaxJobs \in Nat
    /\ MaxFlaws \in Nat /\ MaxRevisions \in Nat
\* A split or a dividend of the stock: the new shares of an old one or the cash of one.
\* A bonus is a split, and a share may be split and carry a bonus on one date.
ActionType == [kind: {"split", "dividend"}, ex: Sessions,
               ratio: (Nat \ {0}) \X (Nat \ {0})]

\* The exchange trades on ex-dates, as validate_bars takes it to (a move is explained by
\* an action of the same day).
ASSUME WorldsAssumption ==
    \A w \in Worlds :
        /\ w.closes \in [Days -> Nat]
        /\ w.actions \subseteq ActionType /\ IsFiniteSet(w.actions)
ASSUME RestatementsAssumption == Restatements \subseteq Days \X Nat
ASSUME FlawsAssumption == Flaws \subseteq {"missing", "corrupt", "twice"} \X Days
\* config/aegis.yaml: provider_cache_seconds is below eod_availability_lag_minutes.
ASSUME CacheAssumption == CacheTicks \in Nat /\ CacheTicks <= Lag

Sources == {"yahoo", "nse_bhavcopy"}

IsLicensed(s) == s = "nse_bhavcopy"
Basis(s) == IF s = "yahoo" THEN "split_adjusted" ELSE "raw"

VARIABLES
    clock,      \* the time
    world,      \* the world this behaviour is in
    feed,       \* by source and day: the raw close the source reports
    cache,      \* the response cache: the last answer of yahoo, with its request
    prices,     \* by source and day: the versions of the bar, [value, at]
    actions,    \* by source and action key: the versions, [ratio, at]
    conflicts,  \* data_conflicts, [source, day, to] of prices
    lastRun,    \* status of the last finished run
    jobs,       \* the local state of each ingestion
    analysis,   \* an analysis that was recorded, with its cut-offs
    lost,       \* history: an ingestion failed on the versions' unique constraint
    late,       \* history: a row known to the analysis was stored after it
    count       \* history: jobs, flaws and revisions so far

vars == <<clock, world, feed, cache, prices, actions, conflicts, lastRun, jobs, analysis,
          lost, late, count>>

stored == <<prices, actions, conflicts, lastRun, lost, late>>

\* Splits and dividends are versioned by source, kind and ex-date.
ActionKeys == {"split", "dividend"} \X Days

\* How an ingestion ends; its row is inserted when it ends.
RunStatuses == {"failed", "rejected", "succeeded", "succeeded_with_warnings"}

\* A source changed a close it had reported, by the version of that number.
ConflictType == [source: Sources, day: Days, to: Nat]

-----------------------------------------------------------------------------
(* Providers                                                                *)

\* What yahoo shows of a close: back-adjusted for the splits there have been.
Restated(close, d, t) ==
    Over(<<close, 1>>, Product({s \in Splits(world.actions) : d < s.ex /\ s.ex <= DateOf(t)},
                               LAMBDA s : s.ratio))

QuoteOf(s, d, t) ==
    IF s = "yahoo" THEN Restated(feed[s][d], d, t) ELSE <<feed[s][d], 1>>

Flawless == <<None, 0>>

Reported(s, d, t, flaw) ==
    CASE flaw = <<"corrupt", d>> -> {<<0, 1>>}
      [] flaw = <<"twice", d>> -> {QuoteOf(s, d, t), Over(QuoteOf(s, d, t), <<2, 1>>)}
      [] OTHER -> {QuoteOf(s, d, t)}

\* The days of a request that a source has rows for: yahoo shows the session in
\* progress, nse has a file for each session that is over.
Shown(s, from, t) ==
    {d \in from .. Min({DateOf(t), LastDay}) :
        IF s = "yahoo" THEN Started(d, t) ELSE d \in Sessions /\ AvailableAt(d) <= t}

\* Actions are asked for with the bars; yahoo's dividends are split-adjusted.
ActionsShown(s, from, t) ==
    LET known == {a \in world.actions : from <= a.ex /\ a.ex <= DateOf(t)} IN
    IF s = "yahoo"
    THEN Splits(known) \cup
         {v \in RestatedDividends({a \in world.actions : a.ex <= DateOf(t)}) : from <= v.ex}
    ELSE known

Response(s, from, t, flaw) ==
    LET days == Shown(s, from, t) \ {d \in Days : flaw = <<"missing", d>>} IN
    [from |-> from, to |-> DateOf(t), at |-> t,
     bars |-> [d \in days |-> Reported(s, d, t, flaw)],
     actions |-> ActionsShown(s, from, t)]

NoResponse == [from |-> 0, to |-> 0, at |-> 0, bars |-> <<>>, actions |-> {}]

CacheHit_anyAge(l) == cache.from = l.from /\ cache.to = l.to

\* _request: a cached answer keeps its time of retrieval.
CacheHit(l) == cache.from = l.from /\ cache.to = l.to /\ clock - cache.at <= CacheTicks

\* parse: a session that is not complete at the job's time is dropped.
Parsed(l, r) ==
    IF l.source # "yahoo" THEN r
    ELSE [r EXCEPT !.bars =
            [d \in {e \in DOMAIN r.bars : e \in Sessions => ~IncompleteAt(e, l.now)} |-> r.bars[d]]]

-----------------------------------------------------------------------------
(* Ingestion                                                                *)

Idle == [pc |-> "idle", source |-> None, now |-> 0, from |-> 0, to |-> 0,
         batch |-> NoResponse, seen |-> <<>>]

LatestSession == Max({0} \cup {d \in Days : \E s \in Sources : prices[s][d] # <<>>})

\* A refresh asks for the days after the last stored one and some before it; the
\* first one, a route and the command line ask for all.
Start(j) ==
    /\ jobs[j].pc = "idle" /\ count.jobs < MaxJobs
    /\ \E s \in Sources, from \in {1, Max({1, LatestSession - Overlap})} :
         jobs' = [jobs EXCEPT ![j] = [Idle EXCEPT !.pc = "fetch", !.source = s, !.now = clock,
                                                  !.from = from, !.to = DateOf(clock)]]
    /\ count' = [count EXCEPT !.jobs = @ + 1]
    /\ UNCHANGED <<clock, world, feed, cache, stored, analysis>>

Receive(j, r) == [jobs EXCEPT ![j].pc = "fetched", ![j].batch = Parsed(jobs[j], r)]

FromCache(j) ==
    LET l == jobs[j] IN
    /\ l.pc = "fetch" /\ l.source = "yahoo" /\ CacheHit(l)
    /\ jobs' = Receive(j, cache)
    /\ UNCHANGED <<clock, world, feed, cache, stored, analysis, count>>

\* nse_bhavcopy reads as of the job's time and says so.
FromSource(j) ==
    LET l == jobs[j] IN
    /\ l.pc = "fetch" /\ ~(l.source = "yahoo" /\ CacheHit(l))
    /\ \E flaw \in {Flawless} \cup Flaws :
         LET r == Response(l.source, l.from, IF l.source = "yahoo" THEN clock ELSE l.now, flaw) IN
         /\ flaw = Flawless \/ (count.flaws < MaxFlaws /\ flaw[2] \in Shown(l.source, l.from, l.now))
         /\ jobs' = Receive(j, [r EXCEPT !.to = l.to])
         /\ cache' = IF l.source = "yahoo" THEN [r EXCEPT !.to = l.to] ELSE cache
         /\ count' = IF flaw = Flawless THEN count ELSE [count EXCEPT !.flaws = @ + 1]
    /\ UNCHANGED <<clock, world, feed, stored, analysis>>

\* The provider answers with an error: the run is stored as failed.
Fail(j) ==
    /\ jobs[j].pc = "fetch" /\ count.flaws < MaxFlaws
    /\ jobs' = [jobs EXCEPT ![j] = Idle]
    /\ lastRun' = "failed"
    /\ count' = [count EXCEPT !.flaws = @ + 1]
    /\ UNCHANGED <<clock, world, feed, cache, prices, actions, conflicts, analysis, lost, late>>

LockFree_always(j) == TRUE

\* The advisory lock of the stock: one ingestion at a time reads and stores.
LockFree(j) == \A i \in Jobs \ {j} : jobs[i].pc # "store"

Lock(j) ==
    /\ jobs[j].pc = "fetched" /\ LockFree(j)
    /\ jobs' = [jobs EXCEPT ![j].pc = "store", ![j].seen = prices[jobs[j].source]]
    /\ UNCHANGED <<clock, world, feed, cache, stored, analysis, count>>

Report(l) ==
    Validated(l.batch.bars, l.now, <<l.from, l.to>>, {a.ex : a \in l.batch.actions})

CurrentVersion(versions) == versions[Len(versions)]

\* Accepted bars that differ from the version the job has read.
Changed(l) ==
    {d \in Report(l).accepted :
        \/ l.seen[d] = <<>>
        \/ ~Same(CurrentVersion(l.seen[d]).value, TheValue(l.batch.bars, d))}

RowOf(l, d) == [value |-> TheValue(l.batch.bars, d), at |-> l.batch.at]

Clash(l) == \E d \in Changed(l) : Len(prices[l.source][d]) # Len(l.seen[d])

ActionAt(l, key) == {a \in l.batch.actions : <<a.kind, a.ex>> = key}

\* The actions of a key as the feed lists them, without the first if it is stored already.
NewActions(l, key) ==
    LET old == actions[l.source][key] IN
    LET told == SetToSeq(ActionAt(l, key)) IN
    IF old # <<>> /\ told # <<>> /\ Same(CurrentVersion(old).ratio, Head(told).ratio)
    THEN Tail(told) ELSE told

\* Each is compared with the last version of its key: of two on one date the second is
\* stored as a revision of the first, and each refresh stores both again.
ActionVersions(l, key) ==
    LET new == NewActions(l, key) IN
    actions[l.source][key]
        \o [i \in DOMAIN new |-> [ratio |-> new[i].ratio, at |-> l.batch.at]]

StatusOf(l) ==
    IF Report(l).accepted = {} THEN "rejected"
    ELSE IF Report(l).usable /\ Report(l).warnings = 0 THEN "succeeded"
    ELSE "succeeded_with_warnings"

\* Another job has stored one of the versions: the insert raises and nothing is stored.
Stored(l) == IF Clash(l) THEN {} ELSE Changed(l)

Store(j) ==
    LET l == jobs[j] IN
    /\ l.pc = "store"
    /\ prices' = [prices EXCEPT ![l.source] =
          [d \in Days |-> IF d \in Stored(l) THEN Append(@[d], RowOf(l, d)) ELSE @[d]]]
    /\ conflicts' = conflicts \cup
          {[source |-> l.source, day |-> d, to |-> Len(l.seen[d]) + 1] :
              d \in {e \in Stored(l) : l.seen[e] # <<>>}}
    /\ actions' = IF Clash(l) THEN actions
                  ELSE [actions EXCEPT ![l.source] = [key \in ActionKeys |-> ActionVersions(l, key)]]
    /\ lastRun' = IF Clash(l) THEN lastRun ELSE StatusOf(l)
    /\ lost' = (lost \/ Clash(l))
    /\ late' = (late \/ (analysis # None /\ l.batch.at <= analysis.knowledge))
    /\ jobs' = [jobs EXCEPT ![j] = Idle]
    /\ UNCHANGED <<clock, world, feed, cache, analysis, count>>

-----------------------------------------------------------------------------
(* Reads                                                                    *)

SourceCount(s) == MapThenSumSet(LAMBDA d : Len(prices[s][d]), Days)

\* _stored_choice: licensed sources first, then most rows.
Chosen ==
    LET have == {s \in Sources : SourceCount(s) > 0} IN
    IF have = {} THEN None
    ELSE IF \E s \in have : IsLicensed(s) THEN CHOOSE s \in have : IsLicensed(s)
    ELSE CHOOSE s \in have : \A r \in have \ {s} : SourceCount(r) <= SourceCount(s)

Known_anyVintage(versions, knowledge) == {i \in 1 .. Len(versions) : TRUE}

Known(versions, knowledge) == {i \in 1 .. Len(versions) : versions[i].at <= knowledge}

\* _latest_versions: bars the market had by asOf, in the last version known by knowledge.
Rows(s, asOf, knowledge) ==
    [d \in {e \in Days : AvailableAt(e) <= asOf /\ Known(prices[s][e], knowledge) # {}} |->
        prices[s][d][Max(Known(prices[s][d], knowledge))].value]

\* get_actions: an action is known once its ex-date has begun.
ActionsAsOf(s, asOf, knowledge) ==
    {[kind |-> key[1], ex |-> key[2],
      ratio |-> actions[s][key][Max(Known(actions[s][key], knowledge))].ratio] :
        key \in {k \in ActionKeys : k[2] <= DateOf(asOf) /\ Known(actions[s][k], knowledge) # {}}}

\* get_series
Series(s, basis, asOf, knowledge) ==
    Converted(Rows(s, asOf, knowledge), Basis(s), basis, ActionsAsOf(s, asOf, knowledge))

\* validate_stored
StoredReport(s, asOf, knowledge) ==
    LET series == Series(s, "split_adjusted", asOf, knowledge) IN
    Validated([d \in DOMAIN series |-> {series[d]}], asOf, <<Min(DOMAIN series), DateOf(asOf)>>,
              {a.ex : a \in ActionsAsOf(s, asOf, knowledge)})

AgentStatus(s, asOf, knowledge) ==
    IF s = None \/ DOMAIN Rows(s, asOf, knowledge) = {} THEN "insufficient_data"
    ELSE IF ~StoredReport(s, asOf, knowledge).usable THEN "data_unusable"
    ELSE IF Cardinality(DOMAIN Rows(s, asOf, knowledge)) < MinHistory THEN "insufficient_data"
    ELSE "ok"

\* What an analysis read, and what it made of it; without bars it makes nothing.
Reading(s, asOf, knowledge) ==
    LET known == s # None /\ DOMAIN Rows(s, asOf, knowledge) # {} IN
    LET closes == Series(s, "split_adjusted", asOf, knowledge) IN
    [source |-> s, status |-> AgentStatus(s, asOf, knowledge),
     closes |-> IF known THEN closes ELSE <<>>,
     fresh |-> IF known THEN Freshness(Max(DOMAIN closes), asOf) ELSE "UNKNOWN",
     quality |-> IF known THEN StoredReport(s, asOf, knowledge).score ELSE 0]

\* run_and_record: as_of may be any time that has passed; knowledge_at is now.
Analyse ==
    /\ analysis = None /\ Chosen # None
    /\ \E asOf \in {clock, clock - 3} :
         analysis' = [asOf |-> asOf, knowledge |-> clock,
                      reading |-> Reading(Chosen, asOf, clock)]
    /\ UNCHANGED <<clock, world, feed, cache, stored, jobs, count>>

-----------------------------------------------------------------------------
Tick ==
    /\ clock < MaxClock
    /\ clock' = clock + 1
    /\ UNCHANGED <<world, feed, cache, stored, jobs, analysis, count>>

\* A source restates a close.
Revise ==
    /\ count.revisions < MaxRevisions
    /\ \E s \in Sources, r \in Restatements :
         /\ AvailableAt(r[1]) <= clock
         /\ feed' = [feed EXCEPT ![s][r[1]] = r[2]]
    /\ count' = [count EXCEPT !.revisions = @ + 1]
    /\ UNCHANGED <<clock, world, cache, stored, jobs, analysis>>

\* The process dies and its transaction with it.
Die(j) ==
    /\ jobs[j].pc # "idle" /\ count.flaws < MaxFlaws
    /\ jobs' = [jobs EXCEPT ![j] = Idle]
    /\ count' = [count EXCEPT !.flaws = @ + 1]
    /\ UNCHANGED <<clock, world, feed, cache, stored, analysis>>

Init ==
    /\ clock = 3
    /\ world \in Worlds
    /\ feed = [s \in Sources |-> world.closes]
    /\ cache = NoResponse
    /\ prices = [s \in Sources |-> [d \in Days |-> <<>>]]
    /\ actions = [s \in Sources |-> [key \in ActionKeys |-> <<>>]]
    /\ conflicts = {} /\ lastRun = None
    /\ jobs = [j \in Jobs |-> Idle]
    /\ analysis = None /\ lost = FALSE /\ late = FALSE
    /\ count = [jobs |-> 0, flaws |-> 0, revisions |-> 0]

Next ==
    \/ Tick \/ Revise \/ Analyse
    \/ \E j \in Jobs :
         \/ Start(j) \/ FromCache(j) \/ FromSource(j) \/ Fail(j)
         \/ Lock(j) \/ Store(j) \/ Die(j)

Spec == Init /\ [][Next]_vars

-----------------------------------------------------------------------------
(* Properties                                                               *)

\* Types of the tables and of the jobs.
TypeOK ==
    /\ clock \in Nat /\ world \in Worlds
    /\ conflicts \subseteq ConflictType
    /\ lastRun \in {None} \cup RunStatuses
    /\ \A j \in Jobs : jobs[j].pc \in {"idle", "fetch", "fetched", "store"}
    /\ \A s \in Sources, d \in Days : prices[s][d] # <<>> => d \in Sessions

\* The versions whose revision is on record.
Recorded(s, d) == {c.to : c \in {x \in conflicts : x.source = s /\ x.day = d}}

\* The versions of a bar are numbered without a gap and each says something else
\* than the one before; every revision has its conflict on record and nothing else
\* does; and no ingestion is lost to the numbering, however two of one stock meet.
VersionsAreLinear ==
    /\ ~lost
    /\ \A s \in Sources, d \in Days : \A i \in 1 .. Len(prices[s][d]) - 1 :
          ~Same(prices[s][d][i].value, prices[s][d][i + 1].value)
    /\ \A s \in Sources, d \in Days : Recorded(s, d) = 2 .. Len(prices[s][d])

\* A stored bar was retrieved after its session had closed: a response of the
\* session in progress is never stored, although the cache may hand it to a job
\* that runs later.
CompleteWhenRetrieved ==
    \A s \in Sources, d \in Days : \A i \in 1 .. Len(prices[s][d]) :
        prices[s][d][i].at >= CloseOf(d)

\* An analysis replayed with its recorded cut-offs reads the same closes and finds
\* them as usable, as fresh and of the same quality, whatever was revised, split or retrieved
\* later, as long as the same source is read and no row the analysis should have
\* known was stored after it.
ReplayIsExact ==
    analysis # None /\ ~late /\ Chosen = analysis.reading.source =>
        Reading(Chosen, analysis.asOf, analysis.knowledge) = analysis.reading

\* What one share of session a has become by the next session b, as a multiple.
HoldersReturn(closes, a, b) ==
    LET ratio == Product({s \in Splits(world.actions) : a < s.ex /\ s.ex <= b}, LAMBDA s : s.ratio) IN
    Over(Times(closes[b], ratio), closes[a])

Adjacent(series) ==
    {p \in (DOMAIN series) \X (DOMAIN series) : p[1] < p[2] /\ SessionsIn(p[1] + 1, p[2] - 1) = {}}

\* Between adjacent sessions a split-adjusted series of raw bars gains what a
\* holder of the share gained, across splits and bonuses, restated closes and
\* refreshes of parts of the history.
RawReturnsAreAHolders ==
    LET s == "nse_bhavcopy" IN
    LET raw == Rows(s, clock, clock) IN
    LET series == Series(s, "split_adjusted", clock, clock) IN
    \A p \in Adjacent(raw) :
        Same(Over(series[p[2]], series[p[1]]), HoldersReturn(raw, p[1], p[2]))

\* The ratios of yahoo's split-adjusted levels are a holder's returns too: a later
\* split changes the levels only.
AdjustedReturnsAreAHolders ==
    LET series == Series("yahoo", "split_adjusted", clock, clock) IN
    LET traded == [d \in Days |-> <<world.closes[d], 1>>] IN
    \A p \in Adjacent(series) :
        Same(Over(series[p[2]], series[p[1]]), HoldersReturn(traded, p[1], p[2]))

\* With dividends, a holder's return is that of the share and of the cash, which
\* bought shares at the close before the ex-date less the dividend.
TotalReturnsAreAHolders ==
    LET s == "nse_bhavcopy" IN
    LET raw == Rows(s, clock, clock) IN
    LET known == ActionsAsOf(s, clock, clock) IN
    CanReinvest(SplitAdjusted(raw, known), RestatedDividends(known)) =>
    LET series == Series(s, "total_return", clock, clock) IN
    \A p \in Adjacent(raw) :
        LET a == p[1] IN
        LET b == p[2] IN
        LET ratio == Product({x \in Splits(world.actions) : x.ex = b}, LAMBDA x : x.ratio) IN
        LET cash == MapThenFoldSet(LAMBDA x, y : <<x[1] * y[2] + y[1] * x[2], x[2] * y[2]>>, <<0, 1>>,
                       LAMBDA v : v.ratio, LAMBDA T : CHOOSE v \in T : TRUE,
                       {v \in Dividends(world.actions) : v.ex = b}) IN
        Same(Over(series[b], series[a]), Over(raw[b], Minus(Over(raw[a], ratio), cash)))

\* No share is split twice on a date, or split and given a bonus, and its dividends of a
\* date come as one.
OneOfAKind(acts) == \A a, b \in acts : a.kind = b.kind /\ a.ex = b.ex => a = b

\* Reading the series of the exchange's closes gives returns a holder had, with and
\* without the dividends, of a stock with one action of a kind on a date.
ReturnsAreAHolders ==
    OneOfAKind(world.actions) => RawReturnsAreAHolders /\ TotalReturnsAreAHolders
=================================================================================
