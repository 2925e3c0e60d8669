-------------------------------- MODULE Research --------------------------------
(***************************************************************************)
(* The research stores and what is made of them: filings, macro series and  *)
(* headlines are fetched and stored while analyses read them agent by       *)
(* agent, synthesise a report and store it; a report is replayed later at   *)
(* its own instants; the daily ranking refreshes old reports and evaluates  *)
(* every stock on its latest one.                                          *)
(*                                                                         *)
(* A fact is the figure of one store for one stock (a line item, a close)  *)
(* or for the market (a macro observation), with the score the agents make *)
(* of it as its value.  Prices have one source here: MarketData models the *)
(* choice between sources.                                                 *)
(***************************************************************************)
EXTENDS Synthesis, Sequences, SequencesExt

CONSTANTS
    Procs,        \* workers and requests
    Stocks,       \* the universe, in ranking order
    Plan,         \* the agents in the order they run
    Reads,        \* agent |-> what it reads: a store of facts, "news" or "holdings"
    Fragile,      \* agents under which something may raise
    Payloads,     \* what a provider may answer
    Licensed,     \* source |-> whether it is licensed
    Stored,       \* the facts at the start
    Questions,    \* requests: as_of now - back, knowledge_at now + ahead, with the portfolio or not
    Embeds,       \* whether the embedding model loads: outcomes of trying
    Near,         \* pairs of titles that are near-duplicates within the window
    Window,       \* how far apart near-duplicates are published
    Recent,       \* how long a headline is compared with new ones
    Lookback,     \* how long a headline is news
    MaxAge,       \* age at which the ranking refreshes a report
    MaxClock, MaxJobs, MaxChanges   \* bounds

VARIABLES
    clock,
    facts,      \* versioned rows of every store
    stories,    \* headlines
    holdings,   \* how many trades changed the portfolio
    config,     \* the fingerprint in force
    features,   \* feature rows: stock and price snapshot
    work,       \* proc |-> what it is doing
    jobs,       \* fetches, analyses and rankings begun
    reports,    \* analysis reports, oldest first
    rankings    \* ranking runs

vars == <<clock, facts, stories, holdings, config, features, work, jobs, reports, rankings>>

Agents == ToSet(Plan)
Idle == [pc |-> "idle"]

ASSUME BoundsAssumption ==
    /\ Window \in Nat /\ Recent \in Nat /\ Lookback \in Nat /\ MaxAge \in Nat
    /\ MaxClock \in Nat /\ MaxJobs \in Nat /\ MaxChanges \in Nat
ASSUME NoneAssumption == None \notin Int
ASSUME UniverseAssumption == Stocks \in Seq(ToSet(Stocks))
ASSUME QuestionsAssumption ==
    \A q \in Questions : q.back \in Nat /\ q.ahead \in Nat /\ q.fit \in BOOLEAN
\* Scores are numbers; headlines have titles, and dates unless none is given.
ASSUME PayloadsAssumption ==
    \A a \in Payloads :
       IF a.store = "news"
       THEN /\ DOMAIN a.items = 1 .. Len(a.items) /\ Len(a.items) \in Nat
            /\ \A i \in DOMAIN a.items :
                  /\ a.items[i].title # None /\ a.items[i].value \in Int
                  /\ a.items[i].published \in Int \cup {None}
       ELSE a.value \in Int /\ a.source \in DOMAIN Licensed
ASSUME LicensedAssumption == Licensed \in [DOMAIN Licensed -> BOOLEAN]
ASSUME StoredAssumption ==
    /\ IsFiniteSet(Stored)
    /\ \A f \in Stored : f.value \in Int /\ f.version \in Nat /\ f.source \in DOMAIN Licensed
ASSUME EmbedsAssumption == Embeds \subseteq BOOLEAN
ASSUME PlanAssumption == Agents \subseteq DOMAIN Reads /\ Agents \subseteq AgentNames

-----------------------------------------------------------------------------
(* Point-in-time reads.                                                     *)

\* Macro observations belong to the market, everything else to a stock.
Scope(store, stock) == IF store = "macro" THEN None ELSE stock

\* The vintage of a figure forgotten.
Visible_anyVintage(stock, store, asOf, known) ==
    {f \in facts : /\ f.stock = Scope(store, stock) /\ f.store = store
                   /\ f.available <= asOf
                   /\ f.estimated => f.retrieved <= asOf}

\* A figure whose publication is only estimated counts from its retrieval.
Visible(stock, store, asOf, known) ==
    {f \in facts : /\ f.stock = Scope(store, stock) /\ f.store = store
                   /\ f.available <= asOf
                   /\ f.estimated => f.retrieved <= asOf
                   /\ f.retrieved <= known}

\* Licensed sources first, then the latest version.
Preferred(f, g) == \/ Licensed[f.source] /\ ~Licensed[g.source]
                   \/ Licensed[f.source] = Licensed[g.source] /\ f.version >= g.version

Figure(stock, store, asOf, known) ==
    LET seen == Visible(stock, store, asOf, known)
    IN IF seen = {} THEN {} ELSE {CHOOSE f \in seen : \A g \in seen : Preferred(f, g)}

\* Dated headlines that are no duplicates, published within the lookback.
InWindow(s, asOf) == s.published # None /\ s.published <= asOf /\ s.published > asOf - Lookback

NewsAsOf(stock, asOf, known) ==
    {s \in stories : /\ s.stock = stock /\ s.original = None
                     /\ InWindow(s, asOf) /\ s.retrieved <= known}

\* What an agent reads, and what it makes of it.
Reading(a, stock, asOf, known) ==
    CASE Reads[a] = "news" -> NewsAsOf(stock, asOf, known)
      [] Reads[a] = "holdings" -> {[value |-> IF holdings = 0 THEN 70 ELSE 30]}
      [] OTHER -> Figure(stock, Reads[a], asOf, known)

Unusable(status) == [status |-> status, score |-> None, confidence |-> 0, read |-> {}]

Judged(read) ==
    IF read = {} THEN Unusable("insufficient_data")
    ELSE [status |-> "ok", read |-> read, confidence |-> 50,
          score |-> MapThenSumSet(LAMBDA x : x.value, read) \div Cardinality(read)]

-----------------------------------------------------------------------------
(* Ingestion: fetched, compared with what is stored, and committed.        *)

\* A provider tells nothing before it is published.  Titles of an answer differ.
Fetch(p, answer) ==
    /\ work[p].pc = "idle" /\ jobs < MaxJobs /\ answer.since <= clock
    /\ jobs' = jobs + 1
    /\ work' = [work EXCEPT ![p] = [pc |-> "fetched", answer |-> answer,
                                    run |-> jobs + 1, retrieved |-> clock]]
    /\ UNCHANGED <<clock, facts, stories, holdings, config, features, reports, rankings>>

\* A row of a store of facts: what was answered, when it was retrieved, and its version.
FactRow(answer, at, version) ==
    [stock |-> answer.stock, store |-> answer.store, source |-> answer.source,
     value |-> answer.value, available |-> answer.available,
     estimated |-> answer.estimated, retrieved |-> at, version |-> version]

\* The next version of a figure whose value differs from its source's latest one.
NewFacts(answer, at) ==
    LET same == {f \in facts : /\ f.stock = answer.stock /\ f.store = answer.store
                               /\ f.source = answer.source}
        latest == {f \in same : \A g \in same : g.version <= f.version}
    IN IF \E f \in latest : f.value = answer.value THEN {}
       ELSE {FactRow(answer, at, Cardinality(same) + 1)}

\* The same story: near titles, and dates within the window unless one is missing.
Similar(s, t) == /\ {s.title, t.title} \in Near
                 /\ \/ None \in {s.published, t.published}
                    \/ s.published - t.published \in -Window .. Window

\* Only the batch itself is looked at.
Original_inBatch(items, i, before, pool) ==
    LET earlier == {j \in before : Similar(items[i], items[j])}
    IN IF earlier = {} THEN None ELSE items[Min(earlier)].title

\* A headline duplicates a similar one stored before it, or one before it in its batch.
Original(items, i, before, pool) ==
    LET near == {s \in pool : Similar(items[i], s)}
        earlier == {j \in before : Similar(items[i], items[j])}
    IN IF near # {} THEN (CHOOSE s \in near : TRUE).title
       ELSE IF earlier # {} THEN items[Min(earlier)].title ELSE None

\* A row of the news, with the headline it duplicates; the run that stores it, and when
\* it was compared and stored, are for the properties.
StoryRow(stock, item, at, embedded, original, run) ==
    [stock |-> stock, title |-> item.title, value |-> item.value, published |-> item.published,
     retrieved |-> at, embedded |-> embedded, original |-> original,
     run |-> run, compared |-> clock, stored |-> clock]

\* Headlines whose title is not stored yet, compared with those retrieved lately; without
\* the model none is a duplicate.
NewStories(answer, run, at, embedded) ==
    LET known == {s \in stories : s.stock = answer.stock}
        pool == {s \in known : s.embedded /\ s.retrieved >= clock - Recent}
        fresh == {i \in DOMAIN answer.items : \A s \in known : s.title # answer.items[i].title}
        original(i) == IF embedded THEN Original(answer.items, i, {j \in fresh : j < i}, pool)
                       ELSE None
    IN {StoryRow(answer.stock, answer.items[i], at, embedded, original(i), run) : i \in fresh}

Compare(p, embedded) ==
    LET w == work[p] IN
    /\ w.pc = "fetched"
    /\ work' = [work EXCEPT ![p] =
         [pc |-> "compared", store |-> w.answer.store, retrieved |-> w.retrieved,
          rows |-> IF w.answer.store = "news" THEN NewStories(w.answer, w.run, w.retrieved, embedded)
                   ELSE NewFacts(w.answer, w.retrieved)]]
    /\ UNCHANGED <<clock, facts, stories, holdings, config, features, jobs, reports, rankings>>

\* Rows that another ingestion stored meanwhile break a unique constraint.
Taken(w) ==
    IF w.store = "news" THEN \E r \in w.rows, s \in stories : s.stock = r.stock /\ s.title = r.title
    ELSE \E r \in w.rows, f \in facts : /\ f.stock = r.stock /\ f.store = r.store
                                        /\ f.source = r.source /\ f.version = r.version

\* Agents of a report or an analysis that have read a store they may read anew.
Overtaken(r, w) ==
    IF w.rows = {} \/ w.retrieved > r.known THEN r.late
    ELSE r.late \cup {a \in DOMAIN r.outs : Reads[a] = w.store}

Ingest(p) ==
    LET w == work[p]
        seen(q) == IF "outs" \in DOMAIN work[q] THEN [work[q] EXCEPT !.late = Overtaken(work[q], w)]
                   ELSE work[q]
    IN /\ w.pc = "compared"
       /\ IF Taken(w)
          THEN /\ work' = [work EXCEPT ![p] = Idle]
               /\ UNCHANGED <<facts, stories, reports>>
          ELSE /\ facts' = IF w.store = "news" THEN facts ELSE facts \cup w.rows
               /\ stories' = IF w.store = "news" THEN stories \cup {[r EXCEPT !.stored = clock] : r \in w.rows}
                            ELSE stories
               /\ work' = [q \in Procs |-> IF q = p THEN Idle ELSE seen(q)]
               /\ reports' = [i \in DOMAIN reports |->
                                [reports[i] EXCEPT !.late = Overtaken(reports[i], w)]]
       /\ UNCHANGED <<clock, holdings, config, features, jobs, rankings>>

-----------------------------------------------------------------------------
(* Analysis: agent after agent, then the report.                           *)

Analysis(stock, asOf, known, fit, ranking) ==
    [pc |-> "agents", stock |-> stock, asOf |-> asOf, known |-> known,
     left |-> SelectSeq(Plan, LAMBDA a : fit \/ Reads[a] # "holdings"),
     outs |-> <<>>, late |-> {}, ranking |-> ranking]

\* One request asks for now, for an earlier instant, or with a vintage of its choice.
Request(p, stock, asOf, known, fit) ==
    /\ work[p].pc = "idle" /\ jobs < MaxJobs
    /\ jobs' = jobs + 1
    /\ work' = [work EXCEPT ![p] = Analysis(stock, asOf, known, fit, None)]
    /\ UNCHANGED <<clock, facts, stories, holdings, config, features, reports, rankings>>

\* A function with one more argument, or another value for it.
With(f, a, x) == [b \in DOMAIN f \cup {a} |-> IF b = a THEN x ELSE f[b]]

Noted(w, a, out) == [w EXCEPT !.outs = With(w.outs, a, out), !.left = Tail(w.left)]

\* What makes a row of features unique: the stock and the prices they were computed from.
Snapshot(w, read) == <<w.stock, read>>

\* The technical agent also stores its features: a snapshot is looked up first.
RunAgent(p) ==
    LET w == work[p]
        a == Head(w.left)
        out == Judged(Reading(a, w.stock, w.asOf, w.known))
    IN /\ w.pc = "agents" /\ w.left # <<>>
       /\ \/ work' = [work EXCEPT ![p] =
                        IF a = "technical" /\ out.status = "ok" /\ Snapshot(w, out.read) \notin features
                        THEN [Noted(w, a, out) EXCEPT !.pc = "features"] ELSE Noted(w, a, out)]
          \/ /\ a \in Fragile
             /\ work' = [work EXCEPT ![p] = Noted(w, a, Unusable("failed"))]
       /\ UNCHANGED <<clock, facts, stories, holdings, config, features, jobs, reports, rankings>>

\* A snapshot that another analysis has stored meanwhile ends this one.
StoreFeatures(p) ==
    LET w == work[p]
        snapshot == Snapshot(w, w.outs["technical"].read)
    IN /\ w.pc = "features"
       /\ IF snapshot \in features
          THEN work' = [work EXCEPT ![p] = Idle] /\ UNCHANGED features
          ELSE /\ features' = features \cup {snapshot}
               /\ work' = [work EXCEPT ![p].pc = "agents"]
       /\ UNCHANGED <<clock, facts, stories, holdings, config, jobs, reports, rankings>>

\* The transaction that will store the report begins: the narrative may take long.
Narrate(p) ==
    LET w == work[p] IN
    /\ w.pc = "agents" /\ w.left = <<>>
    /\ work' = [work EXCEPT ![p] = With([w EXCEPT !.pc = "narrated"], "created", clock)]
    /\ UNCHANGED <<clock, facts, stories, holdings, config, features, jobs, reports, rankings>>

\* A report: its instants, the outputs it is made from, their synthesis, and the
\* configuration in force.
ReportRow(w) ==
    [stock |-> w.stock, asOf |-> w.asOf, known |-> w.known, created |-> w.created,
     config |-> config, outs |-> w.outs, synthesis |-> Synthesize(w.outs), late |-> w.late]

StoreReport(p) ==
    LET w == work[p] IN
    /\ w.pc = "narrated"
    /\ reports' = Append(reports, ReportRow(w))
    /\ work' = [work EXCEPT ![p] = IF w.ranking = None THEN Idle ELSE w.ranking]
    /\ UNCHANGED <<clock, facts, stories, holdings, config, features, jobs, rankings>>

-----------------------------------------------------------------------------
(* Replay: every agent at the instants of a stored report.                 *)

Replayed(r) == [a \in DOMAIN r.outs |-> Judged(Reading(a, r.stock, r.asOf, r.known))]

Reproduced(r) == /\ config = r.config
                 /\ Replayed(r) = r.outs
                 /\ Synthesize(Replayed(r)) = r.synthesis

-----------------------------------------------------------------------------
(* Ranking.                                                                *)

\* Positions of the reports of a stock that exist at an instant, and the latest.
Existing(stock, at) == {i \in DOMAIN reports : reports[i].stock = stock /\ reports[i].created <= at}
LatestReport(stock, at) ==
    LET all == Existing(stock, at)
    IN IF all = {} THEN None
       ELSE CHOOSE i \in all : \A j \in all : reports[j].created <= reports[i].created

StartRanking(p, refresh) ==
    /\ work[p].pc = "idle" /\ jobs < MaxJobs
    /\ jobs' = jobs + 1
    /\ \A q \in Procs : work[q].pc # "ranking"
    /\ work' = [work EXCEPT ![p] =
         [pc |-> "ranking", asked |-> clock, todo |-> IF refresh THEN Stocks ELSE <<>>,
          refresh |-> refresh, refreshed |-> FALSE]]
    /\ UNCHANGED <<clock, facts, stories, holdings, config, features, reports, rankings>>

\* A missing or old report is refreshed, at the instant the ranking was asked for.
CheckReport(p) ==
    LET w == work[p]
        stock == Head(w.todo)
        i == LatestReport(stock, w.asked)
        next == [w EXCEPT !.todo = Tail(w.todo)]
    IN /\ w.pc = "ranking" /\ w.todo # <<>>
       /\ work' = [work EXCEPT ![p] =
            IF i = None \/ w.asked - reports[IF i = None THEN 1 ELSE i].created > MaxAge
            THEN Analysis(stock, w.asked, clock, FALSE, [next EXCEPT !.refreshed = TRUE])
            ELSE next]
       /\ UNCHANGED <<clock, facts, stories, holdings, config, features, jobs, reports, rankings>>

\* The instant of the evaluation once reports were refreshed.
EvaluatedAt_asked(w) == w.asked
EvaluatedAt(w) == IF w.refreshed THEN Max({w.asked, clock}) ELSE w.asked

\* A ranking: its instant, and the report every stock was judged on.
RankingRow(w, at) ==
    [asked |-> w.asked, asOf |-> at, refresh |-> w.refresh,
     picks |-> [s \in ToSet(Stocks) |-> LatestReport(s, at)]]

\* Every stock is judged on its latest report by the trade gates; the run is stored.
Evaluate(p) ==
    LET w == work[p] IN
    /\ w.pc = "ranking" /\ w.todo = <<>>
    /\ rankings' = Append(rankings, RankingRow(w, EvaluatedAt(w)))
    /\ work' = [work EXCEPT ![p] = Idle]
    /\ UNCHANGED <<clock, facts, stories, holdings, config, features, jobs, reports>>

-----------------------------------------------------------------------------
Tick == /\ clock < MaxClock
        /\ clock' = clock + 1
        /\ UNCHANGED <<facts, stories, holdings, config, features, work, jobs, reports, rankings>>

\* A trade changes the portfolio.
Trade == /\ holdings + config < MaxChanges
         /\ holdings' = holdings + 1
         /\ UNCHANGED <<clock, facts, stories, config, features, work, jobs, reports, rankings>>

\* A request or a worker dies; its uncommitted rows are gone.
Die(p) == /\ work[p].pc # "idle"
          /\ work' = [work EXCEPT ![p] = Idle]
          /\ UNCHANGED <<clock, facts, stories, holdings, config, features, jobs, reports, rankings>>

\* The configuration is read at start: changing it restarts everything.
Redeploy == /\ holdings + config < MaxChanges
            /\ config' = config + 1
            /\ work' = [p \in Procs |-> Idle]
            /\ UNCHANGED <<clock, facts, stories, holdings, features, jobs, reports, rankings>>

Init == /\ clock = 1
        /\ facts = Stored /\ stories = {} /\ holdings = 0 /\ config = 0 /\ features = {}
        /\ work = [p \in Procs |-> Idle]
        /\ jobs = 0 /\ reports = <<>> /\ rankings = <<>>

Next == \/ Tick \/ Trade \/ Redeploy
        \/ \E p \in Procs :
              \/ \E answer \in Payloads : Fetch(p, answer)
              \/ \E embedded \in Embeds : Compare(p, embedded)
              \/ Ingest(p)
              \/ \E s \in ToSet(Stocks), q \in Questions :
                    Request(p, s, clock - q.back, clock + q.ahead, q.fit)
              \/ RunAgent(p) \/ StoreFeatures(p) \/ Narrate(p) \/ StoreReport(p)
              \/ \E refresh \in BOOLEAN : StartRanking(p, refresh)
              \/ CheckReport(p) \/ Evaluate(p)
              \/ Die(p)

Spec == Init /\ [][Next]_vars

-----------------------------------------------------------------------------
\* A stored report is reproduced by a replay with the same configuration when none
\* of its agents failed, no agent read the portfolio before a trade changed it, and
\* nothing retrieved by the report's knowledge_at was committed after an agent had
\* read that store.
ReplayReproduces ==
    \A i \in DOMAIN reports :
       LET r == reports[i] IN
       (/\ r.config = config /\ r.late = {}
        /\ \A a \in DOMAIN r.outs : /\ r.outs[a].status # "failed"
                                    /\ Reads[a] = "holdings" => r.outs[a] = Replayed(r)[a])
       => Reproduced(r)

\* The ingestions of two headlines overlapped: each compared before the other had stored.
Overlapped(s, t) == s.compared <= t.stored /\ t.compared <= s.stored

\* A headline is compared with those retrieved lately only.
TooOld(s, t) == s.retrieved < t.compared - Recent

\* A story counts once: two headlines of one story are both told only when they
\* were stored by two ingestions that overlapped, or long after one another, or one
\* without the embedding model.
StoriesCountOnce ==
    \A s, t \in stories :
       (/\ s # t /\ s.embedded /\ t.embedded /\ s.stock = t.stock /\ s.original = None /\ t.original = None /\ Similar(s, t))
       => s.run # t.run /\ (Overlapped(s, t) \/ TooOld(s, t) \/ TooOld(t, s))

\* A ranking that refreshes judges every stock on a report that existed at its own
\* instant, and that was fresh when the ranking was asked for or made since.
RankingSeesRefresh ==
    \A i \in DOMAIN rankings :
       LET k == rankings[i] IN
       k.refresh => \A s \in DOMAIN k.picks :
          /\ k.picks[s] # None
          /\ reports[k.picks[s]].created \in k.asked - MaxAge .. k.asOf

\* A report whose agents score no better than those of another one has no better
\* stance.
Rank(stance) == CASE stance = "NEGATIVE_TILT" -> 1 [] stance = "NO_CLEAR_TILT" -> 2
                  [] stance = "POSITIVE_TILT" -> 3 [] OTHER -> 0

NoBetter(q, r) ==
    /\ DOMAIN q.outs = DOMAIN r.outs
    /\ \A a \in DOMAIN q.outs : /\ q.outs[a].status = r.outs[a].status
                                /\ q.outs[a].status = "ok" => q.outs[a].score <= r.outs[a].score

BetterIsNeverWorse ==
    \A i, j \in DOMAIN reports :
       NoBetter(reports[i], reports[j]) =>
          Rank(reports[i].synthesis.stance) <= Rank(reports[j].synthesis.stance)
================================================================================
